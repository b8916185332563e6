------------------------------- MODULE RatJob -------------------------------
(***************************************************************************)
(* The rat program (bin/rat.cc) as a job that makes event files: the macro  *)
(* builds a processor block (base/ProcBlock.cc), a producer - the           *)
(* simulation (core/Gsim.cc) or a file that is read (io/InROOTProducer.cc)  *)
(* - sends events through it, outroot processors (io/OutROOTProc.cc) write  *)
(* them to files, and the run records that belong to the events travel      *)
(* beside them through one global store (DS/RunStore.cc).  Ctrl-C ends the  *)
(* event loop, a second one the process (base/SignalHandler.cc).  Files     *)
(* outlive the job: a later job reads, replaces or appends to them.         *)
(*                                                                         *)
(* Definitions named Wrong... are plausible mistakes in the one that        *)
(* follows; no specification uses them.                                     *)
(***************************************************************************)
EXTENDS Naturals, SequencesExt, FiniteSets

CONSTANTS
  Files, DefaultFile,   \* file names; IO.default_output_filename
  Runs,                 \* run numbers
  Sim,                  \* the simulation, as a source of events
  None, Freed,          \* no file; a tree whose owner has deleted it
  MaxJobs,              \* bound on jobs
  MaxProcs,             \* bound on the processors of a job
  MaxLoops,             \* bound on event loops in a job
  MaxEvents             \* bound on events simulated by one command

ASSUME JobAssumption ==
  /\ DefaultFile \in Files
  /\ {Sim, None, Freed} \cap Files = {}
  /\ {MaxJobs, MaxProcs, MaxLoops, MaxEvents} \subseteq Nat

VARIABLES
  disk,         \* what each file holds on disk, or NoFile
  pc,           \* "macro", "loop", "close", or how the job ended: see Over
  job,          \* jobs started
  run,          \* the job's default run number
  procs,        \* the processors created, in order
  main,         \* fProcessorList, as indices into procs
  deferred,     \* fDeferredAppendList
  seen,         \* fSeenFirstEvent
  cache,        \* RunStore::fCache
  readTree,     \* RunStore::fReadTree: a file's run tree, None or Freed
  writeTree,    \* RunStore::fWriteTree: the processor that owns it, or 0
  sigint,       \* sigintPending
  loop,         \* the event loop that runs: its source and what it has left
  (* history *)
  loops,        \* loops started
  cut,          \* some loop of this job ended before its source did
  closed        \* files this job has finished

memory == <<run, procs, main, deferred, seen, cache, readTree, writeTree,
            sigint, loop, loops, cut, closed>>
block == <<procs, main, deferred, seen>>
store == <<cache, readTree, writeTree>>
vars == <<disk, pc, job, memory>>

\* An event belongs to a run.  found: the run's record was in the store when
\* the event was processed (history).
\* A file's status is 0 - 1 until it is finished, shown here as 2.
\* cut, alone: whether a loop of the job that wrote it was cut short, and
\* whether it was the only file of its job (history).
NoFile == [events |-> <<>>, runs |-> <<>>, runT |-> FALSE, status |-> 3,
           cut |-> FALSE, alone |-> FALSE]
Crashed == 2
NewFile == [NoFile EXCEPT !.status = Crashed]
Finished(f) == disk[f].status \in {0, 1}

\* A job is over: it left, or read a null pointer or a freed tree.
Over == pc \in {"down", "null", "freed"}

Open == {p \in DOMAIN procs : procs[p].file # None}
Opened == {procs[p].file : p \in Open}
Writers == {p \in DOMAIN procs : procs[p].kind = "outroot"}

-----------------------------------------------------------------------------
(* RunStore.                                                               *)

\* A record comes into the cache.
Cached(c, rec) ==
  [r \in DOMAIN c \cup {rec.run} |->
     IF r = rec.run THEN [rec |-> rec, written |-> FALSE] ELSE c[r]]

\* GetRun: what the cache can be afterwards.  A tree that was freed can be
\* read as one without entries, or bring the process down.
Records(f, r) == {rec \in ToSet(disk[f].runs) : rec.run = r}
WrongGetRun(r) == {cache}
GetRun(r) ==
  IF r \in DOMAIN cache \/ readTree \in {None, Freed} \/ Records(readTree, r) = {}
  THEN {cache}
  ELSE {Cached(cache, rec) : rec \in Records(readTree, r)}

MayCrash(r) == readTree = Freed /\ r \notin DOMAIN cache

\* MakeRun and AddNewRun: the record is known by the job that made it.
AddNewRun(c, r) ==
  IF r \in DOMAIN c THEN c ELSE Cached(c, [run |-> r, by |-> job])

\* FlushWriteTree, to the one tree that is registered.
Unwritten == {r \in DOMAIN cache : ~cache[r].written}
WrongFlushWriteTree == procs
FlushWriteTree ==
  [procs EXCEPT ![writeTree].runs = @ \o SetToSeq({cache[r].rec : r \in Unwritten})]
WrongMarkWritten == cache
MarkWritten == [r \in DOMAIN cache |-> [cache[r] EXCEPT !.written = TRUE]]

-----------------------------------------------------------------------------
(* The macro: /rat/proc, /rat/proclast, /rat/procset.                      *)

WrongProcessor(kind) == [kind |-> kind, file |-> Freed, events |-> <<>>, runs |-> <<>>]
Processor(kind) == [kind |-> kind, file |-> None, events |-> <<>>, runs |-> <<>>]

AddProcessor(kind, last) ==
  /\ pc = "macro" /\ Len(procs) < MaxProcs
  /\ procs' = Append(procs, Processor(kind))
  /\ IF last THEN deferred' = Append(deferred, Len(procs')) /\ UNCHANGED main
     ELSE main' = Append(main, Len(procs')) /\ UNCHANGED deferred
  /\ UNCHANGED <<disk, pc, job, run, seen, store, sigint, loop, loops, cut, closed>>

\* OpenFile.  A file that is appended to keeps its events.
OpenFile(p, f, update) ==
  LET old == IF update THEN [disk[f] EXCEPT !.status = Crashed] ELSE NewFile
      kept == [i \in DOMAIN old.events |-> [old.events[i] EXCEPT !.found = FALSE]]
  IN /\ disk' = [disk EXCEPT ![f] = [old EXCEPT !.events = kept]]
     /\ procs' = [procs EXCEPT ![p].file = f, ![p].events = kept]
     /\ writeTree' = p

\* The memory of a process that has just started, or is gone.
Fresh(r) ==
  /\ run' = r
  /\ procs' = <<>> /\ main' = <<>> /\ deferred' = <<>> /\ seen' = FALSE
  /\ cache' = <<>> /\ readTree' = None /\ writeTree' = 0
  /\ sigint' = FALSE
  /\ loop' = [from |-> None, todo |-> <<>>]
  /\ loops' = 0 /\ cut' = FALSE /\ closed' = {}

Crash(how) ==
  /\ ~Over /\ pc' = how
  /\ Fresh(run)
  /\ UNCHANGED <<disk, job>>

\* The parameters file and updatefile, for the processor added last.  With a
\* run tree in the file PreloadFromTree is called with the event tree, which
\* is not set yet: a null pointer.
UpdateFails(f) == disk[f].runT
SetFile(f, update) ==
  /\ pc = "macro" /\ procs # <<>> /\ f \notin Opened
  /\ LET p == Len(procs) IN
     /\ procs[p].kind = "outroot" /\ procs[p].file = None
     /\ IF update /\ UpdateFails(f) THEN Crash("null")
        ELSE /\ OpenFile(p, f, update)
             /\ UNCHANGED <<pc, job, run, main, deferred, seen, cache, readTree,
                            sigint, loop, loops, cut, closed>>

-----------------------------------------------------------------------------
(* Event loops.                                                            *)

\* /run/beamOn: BeginOfRunAction sees to the run's record.
BeamOn(n) ==
  /\ pc = "macro" /\ loops < MaxLoops
  /\ \/ MayCrash(run) /\ Crash("freed")
     \/ \E c \in GetRun(run) :
          /\ cache' = AddNewRun(c, run)
          /\ loop' = [from |-> Sim,
                      todo |-> [i \in 1 .. n |-> [run |-> run, found |-> FALSE,
                                                  by |-> cache'[run].rec.by]]]
          /\ pc' = "loop" /\ loops' = loops + 1
          /\ UNCHANGED <<disk, job, run, block, readTree, writeTree, sigint, cut,
                         closed>>

\* /rat/inroot/read.  The file is none of those being written.
ReadEvents(f) ==
  /\ pc = "macro" /\ loops < MaxLoops
  /\ disk[f] # NoFile /\ f \notin Opened
  /\ Writers \subseteq Open \/ f # DefaultFile
  /\ loop' = [from |-> f, todo |-> disk[f].events]
  /\ readTree' = IF disk[f].runT THEN f ELSE readTree
  /\ pc' = "loop" /\ loops' = loops + 1
  /\ UNCHANGED <<disk, job, run, block, cache, writeTree, sigint, cut, closed>>

\* ProcBlock::DSEvent: deferred processors join the list at the first event;
\* then every processor in turn, until one aborts.  A filter may do so.
Sequence == IF seen THEN main ELSE main \o deferred
StopsAt == {Len(Sequence) + 1} \cup
           {i \in DOMAIN Sequence : procs[Sequence[i]].kind = "filter"}
Reached(stop) == {Sequence[i] : i \in 1 .. stop - 1} \cap Writers

\* OutROOTProc::DSEvent: open the default file if there is none, then Fill.
Fill(ps, c, e) ==
  LET late == ps \ Open
      event == [e EXCEPT !.found = e.run \in DOMAIN c]
  IN /\ Cardinality(late) <= 1
     /\ late # {} => DefaultFile \notin Opened
     /\ disk' = IF late = {} THEN disk ELSE [disk EXCEPT ![DefaultFile] = NewFile]
     /\ procs' = [p \in DOMAIN procs |->
          IF p \notin ps THEN procs[p]
          ELSE [procs[p] EXCEPT !.events = Append(@, event),
                                !.file = IF @ = None THEN DefaultFile ELSE @]]
     /\ writeTree' = IF late = {} THEN writeTree ELSE CHOOSE p \in late : TRUE

\* Gsim looks at the signal after each event, inroot before it.
StopLoop == sigint
Event ==
  /\ pc = "loop" /\ loop.todo # <<>>
  /\ loop.from = Sim \/ ~StopLoop
  /\ LET e == Head(loop.todo) rest == Tail(loop.todo)
         known == IF loop.from = Sim THEN {cache} ELSE GetRun(e.run) IN
     \/ loop.from # Sim /\ MayCrash(e.run) /\ Crash("freed")
     \/ \E c \in known, stop \in StopsAt :
          /\ cache' = c
          /\ Fill(Reached(stop), c, e)
          /\ main' = Sequence /\ seen' = TRUE
          /\ deferred' = IF seen THEN deferred ELSE <<>>
          /\ loop' = [loop EXCEPT !.todo =
               IF loop.from = Sim /\ StopLoop THEN <<>> ELSE rest]
          /\ cut' = (cut \/ (loop.from = Sim /\ StopLoop /\ rest # <<>>))
          /\ UNCHANGED <<pc, job, run, readTree, sigint, loops, closed>>

\* The loop ends; the chains of ReadEvents are local to it.
EndLoop ==
  /\ pc = "loop"
  /\ loop.todo = <<>> \/ (loop.from # Sim /\ StopLoop)
  /\ pc' = "macro"
  /\ cut' = (cut \/ loop.todo # <<>>)
  /\ loop' = [from |-> None, todo |-> <<>>]
  /\ readTree' = IF readTree = loop.from THEN Freed ELSE readTree
  /\ UNCHANGED <<disk, job, run, block, cache, writeTree, sigint, loops, closed>>

-----------------------------------------------------------------------------
(* The end of the job.                                                     *)

\* The macros are done: delete mainBlock.
Quit ==
  /\ pc = "macro" /\ pc' = "close"
  /\ UNCHANGED <<disk, job, memory>>

\* ProcBlock::Clear deletes the processors in the order of its lists; the
\* destructor of outroot writes and closes its file.
WrongStatus == 1
Status == IF sigint THEN 0 ELSE 1
Delete ==
  /\ pc = "close" /\ main \o deferred # <<>>
  /\ LET p == Head(main \o deferred) IN
     /\ main' = IF main = <<>> THEN main ELSE Tail(main)
     /\ deferred' = IF main = <<>> THEN Tail(deferred) ELSE deferred
     /\ IF p \notin Open THEN UNCHANGED <<disk, procs, cache, closed>>
        ELSE LET f == procs[p].file IN
             /\ procs' = FlushWriteTree
             /\ cache' = MarkWritten
             /\ disk' = [disk EXCEPT ![f] =
                  [events |-> procs[p].events, runs |-> procs'[p].runs, runT |-> TRUE,
                   status |-> Status, cut |-> cut,
                   alone |-> Cardinality(Open) = 1]]
             /\ closed' = closed \cup {f}
     /\ UNCHANGED <<pc, job, run, seen, readTree, writeTree, sigint, loop, loops, cut>>

Exit ==
  /\ pc = "close" /\ main = <<>> /\ deferred = <<>>
  /\ Crash("down")

\* SigInt: the first Ctrl-C restores the default handler, the next one kills.
SigInt ==
  /\ ~Over
  /\ IF sigint THEN Crash("down")
     ELSE /\ sigint' = TRUE
          /\ UNCHANGED <<disk, pc, job, run, block, store, loop, loops, cut, closed>>

\* Log::Die, an exception, or a kill: no destructor runs.
Die == Crash("down")

\* TTree::AutoSave, from time to time: the events so far are on disk.
AutoSave(p) ==
  /\ pc = "loop" /\ p \in Open
  /\ disk[procs[p].file].events # procs[p].events
  /\ disk' = [disk EXCEPT ![procs[p].file].events = procs[p].events]
  /\ UNCHANGED <<pc, job, memory>>

-----------------------------------------------------------------------------
StartJob ==
  /\ Over /\ job < MaxJobs
  /\ job' = job + 1 /\ pc' = "macro"
  /\ \E r \in Runs : Fresh(r)
  /\ UNCHANGED disk

Init ==
  /\ disk = [f \in Files |-> NoFile]
  /\ pc = "down" /\ job = 0 /\ run \in Runs
  /\ procs = <<>> /\ main = <<>> /\ deferred = <<>> /\ seen = FALSE
  /\ cache = <<>> /\ readTree = None /\ writeTree = 0
  /\ sigint = FALSE
  /\ loop = [from |-> None, todo |-> <<>>]
  /\ loops = 0 /\ cut = FALSE /\ closed = {}

Next ==
  \/ StartJob
  \/ \E kind \in {"outroot", "filter"}, last \in BOOLEAN : AddProcessor(kind, last)
  \/ \E f \in Files, update \in BOOLEAN : SetFile(f, update)
  \/ \E n \in 1 .. MaxEvents : BeamOn(n)
  \/ \E f \in Files : ReadEvents(f)
  \/ Event \/ EndLoop
  \/ Quit \/ Delete \/ Exit
  \/ SigInt \/ Die
  \/ \E p \in DOMAIN procs : AutoSave(p)

Spec == Init /\ [][Next]_vars

-----------------------------------------------------------------------------
(* Properties.                                                             *)

Record == [run : Runs, by : 1 .. MaxJobs]
EventRecord == [run : Runs, found : BOOLEAN, by : 1 .. MaxJobs]

\* Type invariant of the job and the files.
TypeOK ==
  /\ \A f \in Files :
       /\ disk[f].events \in Seq(EventRecord) /\ disk[f].runs \in Seq(Record)
       /\ disk[f].status \in 0 .. 3
       /\ disk[f].runT \in BOOLEAN /\ disk[f].cut \in BOOLEAN
  /\ pc \in {"macro", "loop", "close", "down", "null", "freed"}
  /\ job \in 0 .. MaxJobs /\ run \in Runs
  /\ \A p \in DOMAIN procs :
       /\ procs[p].file \in Files \cup {None}
       /\ procs[p].events \in Seq(EventRecord) /\ procs[p].runs \in Seq(Record)
  /\ ToSet(main) \cup ToSet(deferred) \subseteq DOMAIN procs
  /\ DOMAIN cache \subseteq Runs
  /\ \A r \in DOMAIN cache : cache[r].rec \in Record /\ cache[r].rec.run = r
  /\ readTree \in Files \cup {None, Freed} /\ writeTree \in 0 .. Len(procs)
  /\ loop.todo \in Seq(EventRecord)

\* Every run record that a job read or made is in the files it wrote, once,
\* if it came to its end: DS/RunStore.hh "All records loaded by RunStore ...
\* will be written to the write tree".  Many processors flush the one store.
Places(r) ==
  UNION {{f} \X {i \in DOMAIN disk[f].runs : disk[f].runs[i].run = r} : f \in closed}
RecordsWrittenOnce ==
  pc = "close" /\ main = <<>> /\ deferred = <<>> /\ closed # {} =>
    \A r \in DOMAIN cache : Cardinality(Places(r)) = 1

\* A file that its job finished, and that is the only one it wrote, can be
\* read by itself: it has the run records of its events, as far as they were
\* known when the events were processed.  However many files and crashed jobs
\* there were before.
SelfContained ==
  \A f \in Files : Finished(f) /\ disk[f].alone =>
    \A e \in ToSet(disk[f].events) : e.found => Records(f, e.run) # {}

\* What follows from the file an event is read from follows the event: its
\* run record is in the store when the processors see the event.
RecordFollows ==
  [][pc = "loop" /\ loop.from \in Files /\ Len(loop'.todo) < Len(loop.todo)
       /\ loop'.from = loop.from /\ Records(loop.from, Head(loop.todo).run) # {}
     => Head(loop.todo).run \in DOMAIN cache']_vars

\* Status 1 means that no event loop of the job was cut short, whenever the
\* signal came: before, in or between the loops, or while files are closed.
StatusHonest == \A f \in Files : disk[f].status = 1 => ~disk[f].cut
=============================================================================
