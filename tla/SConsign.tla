------------------------------ MODULE SConsign ------------------------------
(***************************************************************************)
(* What a build of RAT remembers for the next one: the .sconsign file of   *)
(* the bundled SCons (python/SCons/SConsign.py, dblite.py), the signatures *)
(* that go into it and the decision they are for, whether a target is up   *)
(* to date (Node/__init__.py, Node/FS.py, with the default decider, by     *)
(* content).                                                               *)
(*                                                                         *)
(* One node after the other is scanned and visited in an order that keeps  *)
(* dependencies; Taskmaster and ParallelBuild model that order.  Here it   *)
(* matters what else happens between two builds, or between two steps of   *)
(* one: files are edited, commands fail, the user stops the build, the     *)
(* program ends.                                                           *)
(*                                                                         *)
(* Contents stand for their MD5 signatures.  Definitions named Wrong...    *)
(* are plausible mistakes in the one that follows; no specification uses   *)
(* them.                                                                   *)
(***************************************************************************)
EXTENDS Naturals, FiniteSets, SequencesExt

CONSTANTS
  Source, Target,   \* files that people write, files that commands write
  Top,              \* the target of the command line
  Sources,          \* the sources of a target, in order
  Includes,         \* the files that a version of a source includes
  Worlds,           \* what may happen besides builds: see World
  MaxEdits,         \* bound on edits
  MaxVersion,       \* bound on the versions of a source
  MaxBuilds         \* bound on builds

Node == Source \cup Target
Version == 0 .. MaxVersion

\*   disturbed   commands fail, builds are stopped or killed, and files are
\*               edited while a build runs
\*   reverts     a file may get back a content that it had before
\*   aging       builds may be further apart than max_drift (two days)
World == [disturbed : BOOLEAN, reverts : BOOLEAN, aging : BOOLEAN]

ASSUME SConsignAssumption ==
  /\ Source \cap Target = {} /\ Top \in Target
  /\ Sources \in [Target -> Seq(Node)]
  /\ Includes \in [Source -> [Version -> Seq(Source)]]
  \* No target depends on itself: the Taskmaster refuses a cycle.
  /\ IsFiniteSet(Target)
  /\ \E rank \in [Target -> 0 .. Cardinality(Target)] :
       \A t, u \in Target : u \in Range(Sources[t]) => rank[u] < rank[t]
  \* What is included includes nothing, and no two targets share a source that
  \* includes something: what a scan found is not asked for twice.
  /\ \A s \in Source, v \in Version, i \in Source, w \in Version :
       i \in Range(Includes[s][v]) => Includes[i][w] = <<>>
  /\ \A t, u \in Target : t # u =>
       \A s \in Source \cap Range(Sources[t]) \cap Range(Sources[u]), v \in Version :
         Includes[s][v] = <<>>
  /\ Worlds \subseteq World
  /\ {MaxEdits, MaxVersion, MaxBuilds} \subseteq Nat

VARIABLES
  world,
  (* the disk *)
  content,          \* of each file
  mtime,            \* its time stamp: a number that every change raises
  drifted,          \* the last time stamp more than max_drift ago
  db,               \* .sconsign: for each file an entry, see NoEntry
  tmp,              \* .sconsign.tmp
  (* the build that runs *)
  pc,               \* "idle", "build", "write", "unlinked": before the rename
  state,            \* "none", "running", "done" or "failed"
  children,         \* of each target that was scanned, else <<>>
  ninfo,            \* csig and stamp of each file, as far as they are known
  stopped,          \* no new node is looked at
  (* history *)
  edited,           \* sources that changed since the build began
  settled,          \* nothing changed since a build in which all went well
  edits, builds

disk == <<content, mtime, drifted>>
memory == <<state, children, ninfo, stopped>>
vars == <<world, disk, db, tmp, pc, memory, edited, settled, edits, builds>>

\* The content of a file that is not there, and a signature nobody knows yet.
Absent == [absent |-> TRUE]
None == [unknown |-> TRUE]

\* An entry: the signatures of the dependencies when the target was built, and
\* signature and time stamp of the file itself.
NoEntry == [deps |-> <<>>, csig |-> None, stamp |-> 0]
NoInfo == [csig |-> None, stamp |-> 0]

Original(s, v) == [file |-> s, version |-> v]
Product(t, cs) == [file |-> t, from |-> cs]
Partial(t) == [file |-> t, partial |-> TRUE]

-----------------------------------------------------------------------------
(* Signatures.                                                             *)

\* What a scan of the disk gives for the dependencies of t: its sources and
\* what they include.
Included(n) == IF n \in Source THEN Includes[n][content[n].version] ELSE <<>>
Children(t) ==
  Sources[t] \o FlattenSeq([i \in DOMAIN Sources[t] |-> Included(Sources[t][i])])

\* What the command of t writes if it runs now.
Result(t) == Product(t, [i \in DOMAIN Children(t) |-> content[Children(t)[i]]])

\* A time stamp is read from the disk once in a build.
Stamp(n) == IF ninfo[n].stamp # 0 THEN ninfo[n].stamp ELSE mtime[n]

\* get_max_drift_csig: the stored signature of a file that has not changed for
\* long, if it is the file of that time stamp.
MaxDriftCsig(n) ==
  IF Stamp(n) <= drifted[n] /\ db[n].stamp = Stamp(n) THEN db[n].csig ELSE None

\* visited: the time stamp is taken, the signature only if it is stored.
Visited(n) == [csig |-> MaxDriftCsig(n), stamp |-> Stamp(n)]

\* get_csig, which remembers what it computes.
GetCsig(n) ==
  IF ninfo[n].csig # None THEN ninfo[n].csig
  ELSE IF MaxDriftCsig(n) # None THEN MaxDriftCsig(n) ELSE content[n]
WithCsigs(t) ==
  [n \in Node |-> IF n \in Range(children[t])
                  THEN [ninfo[n] EXCEPT !.csig = GetCsig(n)] ELSE ninfo[n]]

\* changed: other dependencies than those of the last time, or more or fewer.
Now(t) == [i \in DOMAIN children[t] |-> GetCsig(children[t][i])]
Changed(t) == db[t].deps # Now(t)

\* is_up_to_date.
IsUpToDate(t) == content[t] # Absent /\ ~Changed(t)

-----------------------------------------------------------------------------
(* Between the steps of builds: the user and the clock.                    *)

\* A source is written: with a content it never had, with the one it has, or,
\* where contents come back, with any.  While a build runs only if it may be
\* disturbed.
Edit(s) ==
  /\ edits < MaxEdits /\ (pc = "idle" \/ world.disturbed)
  /\ \E v \in Version :
       LET now == content[s].version IN
       /\ v \in {now, now + 1} \/ world.reverts
       /\ content' = [content EXCEPT ![s] = Original(s, v)]
       /\ settled' = (settled /\ v = now)
       /\ edited' = IF v # now /\ pc # "idle" THEN edited \cup {s} ELSE edited
  /\ mtime' = [mtime EXCEPT ![s] = @ + 1]
  /\ edits' = edits + 1
  /\ UNCHANGED <<world, drifted, db, tmp, pc, memory, builds>>

\* A target is deleted; what the command makes then is a content that it had.
Delete(t) ==
  /\ pc = "idle" /\ world.reverts /\ edits < MaxEdits /\ content[t] # Absent
  /\ content' = [content EXCEPT ![t] = Absent]
  /\ settled' = FALSE
  /\ edits' = edits + 1
  /\ UNCHANGED <<world, mtime, drifted, db, tmp, pc, memory, edited, builds>>

\* Two days pass.
Wait ==
  /\ pc = "idle" /\ world.aging
  /\ drifted' = mtime
  /\ UNCHANGED <<world, content, mtime, db, tmp, pc, memory, edited, settled,
                 edits, builds>>

-----------------------------------------------------------------------------
(* A build.                                                                *)

NewState == [n \in Node |-> "none"]
NewChildren == [t \in Target |-> <<>>]
NewInfo == [n \in Node |-> NoInfo]

\* The program ends, and with it what it had in memory.
End ==
  /\ pc' = "idle"
  /\ state' = NewState /\ children' = NewChildren /\ ninfo' = NewInfo
  /\ stopped' = FALSE

Start ==
  /\ pc = "idle" /\ builds < MaxBuilds
  /\ pc' = "build" /\ builds' = builds + 1
  /\ edited' = {}
  /\ UNCHANGED <<world, disk, db, tmp, memory, settled, edits>>

\* The walk has come to n: the top target, or a dependency of one scanned.
Reached(n) ==
  /\ pc = "build" /\ ~stopped /\ state[n] = "none"
  /\ n = Top \/ \E t \in Target : n \in Range(children[t])

\* The scanner looks whether the sources and what they include are there.
Scan(t) ==
  /\ Reached(t) /\ children[t] = <<>>
  /\ children' = [children EXCEPT ![t] = Children(t)]
  /\ ninfo' = [n \in Node |-> IF n \in Source \cap Range(Children(t))
                              THEN [ninfo[n] EXCEPT !.stamp = Stamp(n)] ELSE ninfo[n]]
  /\ UNCHANGED <<world, disk, db, tmp, pc, state, stopped, edited, settled,
                 edits, builds>>

\* A source is a task without a command.
VisitSource(s) ==
  /\ Reached(s)
  /\ state' = [state EXCEPT ![s] = "done"]
  /\ ninfo' = [ninfo EXCEPT ![s] = Visited(s)]
  /\ UNCHANGED <<world, disk, db, tmp, pc, children, stopped, edited, settled,
                 edits, builds>>

\* All that t depends on is up to date or built.
Considered(t) ==
  /\ Reached(t) /\ children[t] # <<>>
  /\ \A n \in Range(children[t]) : state[n] = "done"

VisitTarget(t) ==
  /\ Considered(t) /\ IsUpToDate(t)
  /\ state' = [state EXCEPT ![t] = "done"]
  /\ ninfo' = [WithCsigs(t) EXCEPT ![t] = Visited(t)]
  /\ UNCHANGED <<world, disk, db, tmp, pc, children, stopped, edited, settled,
                 edits, builds>>

\* prepare: what there is of the target is removed.
WrongPrepared(t) == content
Prepared(t) == [content EXCEPT ![t] = Absent]

Prepare(t) ==
  /\ Considered(t) /\ ~IsUpToDate(t)
  /\ content' = Prepared(t)
  /\ state' = [state EXCEPT ![t] = "running"]
  /\ ninfo' = WithCsigs(t)
  /\ UNCHANGED <<world, mtime, drifted, db, tmp, pc, children, stopped, edited,
                 settled, edits, builds>>

\* The command has written the target, and built() reads it.
Built(t) ==
  /\ state[t] = "running"
  /\ content' = [content EXCEPT ![t] = Result(t)]
  /\ mtime' = [mtime EXCEPT ![t] = @ + 1]
  /\ state' = [state EXCEPT ![t] = "done"]
  /\ ninfo' = [ninfo EXCEPT ![t] = [csig |-> Result(t), stamp |-> mtime[t] + 1]]
  /\ UNCHANGED <<world, drifted, db, tmp, pc, children, stopped, edited, settled,
                 edits, builds>>

\* The command fails, and leaves nothing or a part of the target; with -k the
\* build goes on elsewhere.
Failed(t) ==
  /\ state[t] = "running" /\ world.disturbed
  /\ \/ UNCHANGED disk
     \/ /\ content' = [content EXCEPT ![t] = Partial(t)]
        /\ mtime' = [mtime EXCEPT ![t] = @ + 1]
        /\ UNCHANGED drifted
  /\ state' = [state EXCEPT ![t] = "failed"]
  /\ stopped' \in {stopped, TRUE}
  /\ UNCHANGED <<world, db, tmp, pc, children, ninfo, edited, settled, edits,
                 builds>>

\* Ctrl-C.
Stop ==
  /\ pc = "build" /\ ~stopped /\ world.disturbed
  /\ stopped' = TRUE
  /\ UNCHANGED <<world, disk, db, tmp, pc, state, children, ninfo, edited,
                 settled, edits, builds>>

\* Nothing runs, and nothing more can be looked at.
EndBuild ==
  /\ pc = "build"
  /\ \A t \in Target : state[t] # "running"
  /\ \A s \in Source : ~Reached(s)
  /\ \A t \in Target : ~Considered(t) /\ ~(Reached(t) /\ children[t] = <<>>)
  /\ pc' = "write"
  /\ UNCHANGED <<world, disk, db, tmp, memory, edited, settled, edits, builds>>

-----------------------------------------------------------------------------
(* The .sconsign file.                                                     *)

\* store_info and merge: a file that was visited takes its place in the file;
\* what is not known of it stays as it was.
WrongStored == {n \in Node : state[n] \in {"done", "failed"}}
Stored == {n \in Node : state[n] = "done"}

Merged(n) ==
  [deps |-> IF n \in Target THEN Now(n) ELSE <<>>,
   csig |-> IF ninfo[n].csig = None THEN db[n].csig ELSE ninfo[n].csig,
   stamp |-> ninfo[n].stamp]

WrongEntries == [n \in Node |-> IF n \in Stored THEN Merged(n) ELSE NoEntry]
Entries == [n \in Node |-> IF n \in Stored THEN Merged(n) ELSE db[n]]

\* sync: all of it into a new file, the old one is removed, the new one takes
\* its name.
Unlink ==
  /\ pc = "write"
  /\ tmp' = Entries
  /\ db' = [n \in Node |-> NoEntry]
  /\ pc' = "unlinked"
  /\ UNCHANGED <<world, disk, memory, edited, settled, edits, builds>>

Rename ==
  /\ pc = "unlinked"
  /\ db' = tmp
  /\ tmp' = [n \in Node |-> NoEntry]
  /\ End
  /\ settled' = (settled \/ (state[Top] = "done" /\ edited = {}))
  /\ UNCHANGED <<world, disk, edited, edits, builds>>

\* The program is killed, and its commands with it.
Crash ==
  /\ pc # "idle" /\ world.disturbed
  /\ \E left \in [{t \in Target : state[t] = "running"} -> {"none", "part", "all"}] :
       LET written == {t \in DOMAIN left : left[t] # "none"} IN
       /\ content' = [n \in Node |->
            IF n \notin written THEN content[n]
            ELSE IF left[n] = "part" THEN Partial(n) ELSE Result(n)]
       /\ mtime' = [n \in Node |-> IF n \in written THEN mtime[n] + 1 ELSE mtime[n]]
  /\ End
  /\ settled' = (settled /\ pc # "unlinked")
  /\ UNCHANGED <<world, drifted, db, tmp, edited, edits, builds>>

-----------------------------------------------------------------------------
Init ==
  /\ world \in Worlds
  /\ content = [n \in Node |-> IF n \in Source THEN Original(n, 0) ELSE Absent]
  /\ mtime = [n \in Node |-> 1] /\ drifted = [n \in Node |-> 0]
  /\ db = [n \in Node |-> NoEntry] /\ tmp = db
  /\ pc = "idle"
  /\ state = NewState /\ children = NewChildren /\ ninfo = NewInfo
  /\ stopped = FALSE
  /\ edited = {} /\ settled = FALSE
  /\ edits = 0 /\ builds = 0

Next ==
  \/ \E s \in Source : Edit(s) \/ VisitSource(s)
  \/ \E t \in Target : \/ Delete(t) \/ Scan(t) \/ VisitTarget(t)
                        \/ Prepare(t) \/ Built(t) \/ Failed(t)
  \/ Wait \/ Start \/ Stop \/ EndBuild \/ Unlink \/ Rename \/ Crash

Spec == Init /\ [][Next]_vars

-----------------------------------------------------------------------------
(* Properties.                                                             *)

\* A command finds no file in the place of its target.
TypeOK ==
  /\ world \in Worlds /\ \A n \in Node : drifted[n] <= mtime[n]
  /\ edited \subseteq Source
  /\ pc \in {"idle", "build", "write", "unlinked"}
  /\ state \in [Node -> {"none", "running", "done", "failed"}]
  /\ {stopped, settled} \subseteq BOOLEAN
  /\ \A s \in Source : content[s] \in {Original(s, v) : v \in Version}
  /\ \A t \in Target : state[t] = "running" => content[t] = Absent

\* A target that the build passes as up to date or built has what its command
\* makes of its dependencies as they are on the disk, unless somebody changes
\* one while the build runs: whatever was deleted, left by a command that
\* failed or by a program that was killed, with or without a record, in this
\* build or in one before it (changed, merge, sync).
UpToDate ==
  \A t \in Target :
    state[t] = "done" => content[t] = Result(t) \/ edited \cap Range(Children(t)) # {}

\* After a build in which all went well no command runs until the content of a
\* source changes or a target is deleted: also if files are touched, as RAT's
\* SConstruct does with Config.hh, and if builds are stopped in between.
NothingToDo == [][settled => \A t \in Target : state'[t] # "running"]_vars

\* An entry whose time stamp is that of the file has the signature of the file:
\* "a NodeInfo always holds all available information about the state of a
\* given Node at a certain point in time" (Node/FS.py).
OnePointInTime ==
  \A n \in Node :
    content[n] # Absent /\ db[n].csig # None /\ db[n].stamp = mtime[n] =>
      db[n].csig = content[n]
=============================================================================
