---------------------------- MODULE RatJobProofs ----------------------------
(***************************************************************************)
(* Proofs about RatJob, for any files, run numbers, numbers of jobs,       *)
(* processors, loops and events: the types, that the files of a job have   *)
(* each of its run records once, that a file is complete by itself, and    *)
(* that a status says what it means.                                       *)
(***************************************************************************)
EXTENDS RatJob, FiniteSetTheorems, SequenceTheorems, TLAPS

FileRecord ==
  [events : Seq(EventRecord), runs : Seq(Record), runT : BOOLEAN, status : 0 .. 3,
   cut : BOOLEAN, alone : BOOLEAN]
ProcRecord ==
  [kind : {"outroot", "filter"}, file : Files \cup {None}, events : Seq(EventRecord),
   runs : Seq(Record)]
LoopRecord == [from : Files \cup {Sim, None}, todo : Seq(EventRecord)]
CacheRecord == [rec : Record, written : BOOLEAN]

CacheTypes(c) ==
  /\ IsFiniteSet(DOMAIN c) /\ DOMAIN c \subseteq Runs
  /\ c \in [DOMAIN c -> CacheRecord]
  /\ \A r \in DOMAIN c : c[r].rec.run = r
JobTypes ==
  /\ pc \in {"macro", "loop", "close", "down", "null", "freed"}
  /\ job \in 0 .. MaxJobs /\ run \in Runs
  /\ ~Over => job \in 1 .. MaxJobs
  /\ seen \in BOOLEAN /\ sigint \in BOOLEAN /\ cut \in BOOLEAN /\ closed \subseteq Files
ProcTypes ==
  /\ procs \in Seq(ProcRecord)
  /\ main \in Seq(1 .. Len(procs)) /\ deferred \in Seq(1 .. Len(procs))
  /\ writeTree \in 0 .. Len(procs)
Types ==
  /\ disk \in [Files -> FileRecord]
  /\ JobTypes /\ ProcTypes /\ CacheTypes(cache)
  /\ readTree \in Files \cup {None, Freed}
  /\ loop \in LoopRecord

-----------------------------------------------------------------------------
(* Types.                                                                  *)

\* The memory of a process that starts, or is gone.
LEMMA FreshTypes ==
  ASSUME NEW r \in Runs, Fresh(r)
  PROVE  /\ run' = r /\ seen' \in BOOLEAN /\ sigint' \in BOOLEAN /\ cut' \in BOOLEAN
         /\ closed' \subseteq Files
         /\ ProcTypes' /\ CacheTypes(cache)'
         /\ readTree' \in Files \cup {None, Freed} /\ loop' \in LoopRecord
<1>1. /\ run' = r /\ procs' = <<>> /\ main' = <<>> /\ deferred' = <<>> /\ writeTree' = 0
      /\ cache' = <<>> /\ readTree' = None /\ loop' = [from |-> None, todo |-> <<>>]
      /\ seen' = FALSE /\ sigint' = FALSE /\ cut' = FALSE /\ closed' = {}
  BY DEF Fresh
<1>2. ProcTypes'
  BY <1>1 DEF ProcTypes
<1>3. DOMAIN cache' = {}
  BY <1>1
<1>4. CacheTypes(cache)'
  BY <1>1, <1>3, FS_EmptySet DEF CacheTypes
<1>5. <<>> \in Seq(EventRecord)
  OBVIOUS
<1>6. loop' \in LoopRecord
  BY <1>1, <1>5 DEF LoopRecord
<1> QED BY <1>1, <1>2, <1>4, <1>6

\* The end of the program.
LEMMA CrashTypes ==
  ASSUME Types, NEW how \in {"down", "null", "freed"}, Crash(how)
  PROVE  Types'
<1>1. /\ pc' = how /\ disk' = disk /\ job' = job /\ Fresh(run) /\ run \in Runs
      /\ job \in 0 .. MaxJobs
  BY DEF Crash, Types, JobTypes
<1>2. Over'
  BY <1>1 DEF Over
<1> QED BY <1>1, <1>2, FreshTypes DEF Types, JobTypes

\* A record that comes into the cache.
LEMMA CachedTypes ==
  ASSUME NEW c, CacheTypes(c), NEW rec \in Record
  PROVE  /\ CacheTypes(Cached(c, rec))
         /\ DOMAIN Cached(c, rec) = DOMAIN c \cup {rec.run}
         /\ Cached(c, rec)[rec.run] = [rec |-> rec, written |-> FALSE]
         /\ \A r \in DOMAIN c : r # rec.run => Cached(c, rec)[r] = c[r]
         /\ \A r \in DOMAIN Cached(c, rec) :
              Cached(c, rec)[r].written => r \in DOMAIN c /\ c[r].written
<1>1. rec.run \in Runs
  BY DEF Record
<1>2. [rec |-> rec, written |-> FALSE] \in CacheRecord
  BY DEF CacheRecord
<1>3. /\ DOMAIN Cached(c, rec) = DOMAIN c \cup {rec.run}
      /\ Cached(c, rec)[rec.run] = [rec |-> rec, written |-> FALSE]
      /\ \A r \in DOMAIN c : r # rec.run => Cached(c, rec)[r] = c[r]
  BY DEF Cached
<1>4. IsFiniteSet(DOMAIN c \cup {rec.run})
  BY FS_AddElement DEF CacheTypes
<1>5. Cached(c, rec) \in [DOMAIN c \cup {rec.run} -> CacheRecord]
  BY <1>2 DEF Cached, CacheTypes
<1>6. ASSUME NEW r \in DOMAIN Cached(c, rec), Cached(c, rec)[r].written
      PROVE  r \in DOMAIN c /\ c[r].written
  <2>1. CASE r = rec.run
    BY <1>3, <1>6, <2>1
  <2>2. CASE r # rec.run
    BY <1>3, <1>6, <2>2
  <2> QED BY <2>1, <2>2
<1>7. CacheTypes(Cached(c, rec))
  <2>1. ASSUME NEW r \in DOMAIN Cached(c, rec) PROVE Cached(c, rec)[r].rec.run = r
    BY <1>3 DEF CacheTypes
  <2> QED BY <1>1, <1>3, <1>4, <1>5, <2>1 DEF CacheTypes
<1> QED BY <1>3, <1>6, <1>7

\* What GetRun finds: nothing that was in the cache is lost, and a record of the
\* tree that is read comes in.
LEMMA GetRunFacts ==
  ASSUME Types, NEW r, NEW c \in GetRun(r)
  PROVE  /\ CacheTypes(c) /\ DOMAIN cache \subseteq DOMAIN c
         /\ \A s \in DOMAIN c : c[s].written => s \in DOMAIN cache /\ cache[s].written
         /\ readTree \in Files /\ Records(readTree, r) # {} => r \in DOMAIN c
<1>1. CASE c = cache /\ (r \in DOMAIN cache \/ readTree \in {None, Freed}
                           \/ Records(readTree, r) = {})
  BY <1>1, JobAssumption DEF Types
<1>2. CASE /\ r \notin DOMAIN cache /\ readTree \notin {None, Freed}
           /\ \E rec \in Records(readTree, r) : c = Cached(cache, rec)
  <2>1. PICK rec \in Records(readTree, r) : c = Cached(cache, rec)
    BY <1>2
  <2>2. readTree \in Files
    BY <1>2 DEF Types
  <2>3. disk[readTree] \in FileRecord
    BY <2>2 DEF Types
  <2>4. disk[readTree].runs \in Seq(Record)
    BY <2>3 DEF FileRecord
  <2>5. rec \in Record /\ rec.run = r
    BY <2>1, <2>4 DEF Records, ToSet
  <2>6. CacheTypes(cache)
    BY DEF Types
  <2>7. /\ CacheTypes(c) /\ DOMAIN c = DOMAIN cache \cup {r}
        /\ \A s \in DOMAIN c : c[s].written => s \in DOMAIN cache /\ cache[s].written
    BY <2>1, <2>5, <2>6, CachedTypes
  <2> QED BY <2>7
<1> QED BY <1>1, <1>2 DEF GetRun

\* A record that is made is not written yet; the others stay.
LEMMA AddNewRunFacts ==
  ASSUME Types, job \in 1 .. MaxJobs, NEW c, CacheTypes(c), NEW r \in Runs
  PROVE  /\ CacheTypes(AddNewRun(c, r)) /\ DOMAIN c \subseteq DOMAIN AddNewRun(c, r)
         /\ r \in DOMAIN AddNewRun(c, r)
         /\ \A s \in DOMAIN AddNewRun(c, r) :
              AddNewRun(c, r)[s].written => s \in DOMAIN c /\ c[s].written
<1>1. [run |-> r, by |-> job] \in Record
  BY DEF Record
<1>2. CASE r \in DOMAIN c
  BY <1>2 DEF AddNewRun
<1>3. CASE r \notin DOMAIN c
  <2> DEFINE rec == [run |-> r, by |-> job]
  <2>1. rec.run = r /\ AddNewRun(c, r) = Cached(c, rec)
    BY <1>3 DEF AddNewRun
  <2> HIDE DEF rec
  <2>2. rec \in Record
    BY <1>1 DEF rec
  <2>3. /\ CacheTypes(Cached(c, rec)) /\ DOMAIN Cached(c, rec) = DOMAIN c \cup {r}
        /\ \A s \in DOMAIN Cached(c, rec) :
             Cached(c, rec)[s].written => s \in DOMAIN c /\ c[s].written
    BY <2>1, <2>2, CachedTypes
  <2> QED BY <2>1, <2>3
<1> QED BY <1>2, <1>3

\* A file's events, with what is not known of them any more.
LEMMA KeptTypes ==
  ASSUME NEW s \in Seq(EventRecord)
  PROVE  [i \in DOMAIN s |-> [s[i] EXCEPT !.found = FALSE]] \in Seq(EventRecord)
<1>1. ASSUME NEW i \in DOMAIN s PROVE [s[i] EXCEPT !.found = FALSE] \in EventRecord
  <2>1. s[i] \in EventRecord
    OBVIOUS
  <2> QED BY <2>1 DEF EventRecord
<1>2. DOMAIN s = 1 .. Len(s) /\ Len(s) \in Nat
  OBVIOUS
<1> QED BY <1>1, <1>2

\* A processor is added.
LEMMA AddProcessorTypes ==
  ASSUME Types, NEW kind \in {"outroot", "filter"}, NEW last \in BOOLEAN,
         AddProcessor(kind, last)
  PROVE  Types'
<1>1. /\ procs \in Seq(ProcRecord)
      /\ main \in Seq(1 .. Len(procs)) /\ deferred \in Seq(1 .. Len(procs))
      /\ writeTree \in 0 .. Len(procs)
  BY DEF Types, ProcTypes
<1>2. Processor(kind) \in ProcRecord
  BY DEF Processor, ProcRecord
<1>3. procs' = Append(procs, Processor(kind)) /\ writeTree' = writeTree
  BY DEF AddProcessor, store
<1>4. procs' \in Seq(ProcRecord) /\ Len(procs') = Len(procs) + 1 /\ Len(procs) \in Nat
  BY <1>1, <1>2, <1>3
<1>5. 1 .. Len(procs) \subseteq 1 .. Len(procs') /\ Len(procs') \in 1 .. Len(procs')
  BY <1>4
<1>6. main \in Seq(1 .. Len(procs')) /\ deferred \in Seq(1 .. Len(procs'))
  BY <1>1, <1>5, SeqMonotonic
<1>7. Append(main, Len(procs')) \in Seq(1 .. Len(procs'))
      /\ Append(deferred, Len(procs')) \in Seq(1 .. Len(procs'))
  BY <1>5, <1>6
<1>8. main' \in Seq(1 .. Len(procs')) /\ deferred' \in Seq(1 .. Len(procs'))
  BY <1>6, <1>7 DEF AddProcessor
<1>9. ProcTypes'
  BY <1>1, <1>3, <1>4, <1>8 DEF ProcTypes
<1> QED BY <1>9 DEF AddProcessor, Types, JobTypes, store, Over

\* A file that is created.
LEMMA NewFileFacts ==
  /\ NewFile \in FileRecord /\ NewFile.status = Crashed /\ NewFile.runs = <<>>
  /\ NewFile.runT = FALSE
<1>1. <<>> \in Seq(EventRecord) /\ <<>> \in Seq(Record)
  OBVIOUS
<1>2. NoFile \in FileRecord /\ NoFile.runs = <<>> /\ NoFile.runT = FALSE
  BY <1>1 DEF NoFile, FileRecord
<1>3. Crashed \in 0 .. 3
  BY DEF Crashed
<1> HIDE DEF NoFile
<1> QED BY <1>2, <1>3 DEF FileRecord, NewFile

\* A set with no more than one element.
LEMMA AtMostOne ==
  ASSUME NEW S, IsFiniteSet(S), Cardinality(S) <= 1, S # {}
  PROVE  \E x : S = {x}
<1>1. PICK x : x \in S
  OBVIOUS
<1>2. /\ Cardinality(S \ {x}) = Cardinality(S) - 1 /\ IsFiniteSet(S \ {x})
      /\ Cardinality(S) \in Nat
  BY <1>1, FS_RemoveElement, FS_CardinalityType
<1>3. Cardinality(S \ {x}) \in Nat
  BY <1>2, FS_CardinalityType
<1>4. Cardinality(S \ {x}) = 0
  BY <1>2, <1>3
<1>5. S \ {x} = {}
  BY <1>2, <1>4, FS_EmptySet
<1> QED BY <1>1, <1>5

\* The elements of one sequence after the other.
LEMMA JoinedSet ==
  ASSUME NEW S, NEW s \in Seq(S), NEW t \in Seq(S)
  PROVE  ToSet(s \o t) = ToSet(s) \cup ToSet(t)
<1>1. ASSUME NEW i \in DOMAIN s PROVE s[i] \in ToSet(s \o t)
  <2>1. i \in DOMAIN (s \o t) /\ (s \o t)[i] = s[i]
    OBVIOUS
  <2> QED BY <2>1 DEF ToSet
<1>2. ASSUME NEW i \in DOMAIN t PROVE t[i] \in ToSet(s \o t)
  <2>1. Len(s) + i \in DOMAIN (s \o t) /\ (s \o t)[Len(s) + i] = t[i]
    OBVIOUS
  <2> QED BY <2>1 DEF ToSet
<1>3. ASSUME NEW i \in DOMAIN (s \o t) PROVE (s \o t)[i] \in ToSet(s) \cup ToSet(t)
  <2>1. CASE i \in DOMAIN s
    BY <2>1 DEF ToSet
  <2>2. CASE i \notin DOMAIN s
    <3>1. i - Len(s) \in DOMAIN t /\ (s \o t)[i] = t[i - Len(s)]
      BY <2>2
    <3> QED BY <3>1 DEF ToSet
  <2> QED BY <2>1, <2>2
<1> QED BY <1>1, <1>2, <1>3 DEF ToSet

\* A sequence with one more element.
LEMMA AppendSet ==
  ASSUME NEW S, NEW s \in Seq(S), NEW e
  PROVE  ToSet(Append(s, e)) = ToSet(s) \cup {e}
<1>1. /\ DOMAIN Append(s, e) = DOMAIN s \cup {Len(s) + 1}
      /\ \A i \in DOMAIN s : Append(s, e)[i] = s[i]
      /\ Append(s, e)[Len(s) + 1] = e
  OBVIOUS
<1> QED BY <1>1 DEF ToSet

\* A sequence without its first element.
LEMMA TailSet ==
  ASSUME NEW S, NEW s \in Seq(S), s # <<>>
  PROVE  ToSet(s) \ {s[1]} \subseteq ToSet(Tail(s))
<1> SUFFICES ASSUME NEW i \in DOMAIN s, s[i] # s[1] PROVE s[i] \in ToSet(Tail(s))
  BY DEF ToSet
<1>1. i - 1 \in DOMAIN Tail(s) /\ Tail(s)[i - 1] = s[i]
  OBVIOUS
<1> QED BY <1>1 DEF ToSet

\* The cache after it was written.
LEMMA MarkFacts ==
  ASSUME CacheTypes(cache)
  PROVE  /\ CacheTypes(MarkWritten) /\ DOMAIN MarkWritten = DOMAIN cache
         /\ \A r \in DOMAIN cache : MarkWritten[r].written
<1>1. DOMAIN MarkWritten = DOMAIN cache
  BY DEF MarkWritten
<1>2. ASSUME NEW r \in DOMAIN cache
      PROVE  /\ MarkWritten[r] \in CacheRecord /\ MarkWritten[r].written
             /\ MarkWritten[r].rec.run = r
  <2>1. cache[r] \in CacheRecord /\ cache[r].rec.run = r
    BY DEF CacheTypes
  <2>2. MarkWritten[r] = [cache[r] EXCEPT !.written = TRUE]
    BY DEF MarkWritten
  <2> QED BY <2>1, <2>2 DEF CacheRecord
<1>3. MarkWritten \in [DOMAIN cache -> CacheRecord]
  BY <1>1, <1>2 DEF MarkWritten
<1> QED BY <1>1, <1>2, <1>3 DEF CacheTypes

\* A file that is opened.
LEMMA OpenFileTypes ==
  ASSUME Types, NEW p \in 1 .. Len(procs), NEW f \in Files, NEW update \in BOOLEAN,
         OpenFile(p, f, update)
  PROVE  /\ disk' \in [Files -> FileRecord]
         /\ disk'[f].status = Crashed
         /\ \A g \in Files : g # f => disk'[g] = disk[g]
         /\ disk'[f].runs = IF update THEN disk[f].runs ELSE <<>>
         /\ disk'[f].runT = IF update THEN disk[f].runT ELSE FALSE
         /\ procs' \in Seq(ProcRecord) /\ Len(procs') = Len(procs)
         /\ procs'[p].file = f /\ procs'[p].runs = procs[p].runs
         /\ procs'[p].kind = procs[p].kind
         /\ \A i \in DOMAIN procs'[p].events : ~procs'[p].events[i].found
         /\ \A q \in 1 .. Len(procs) : q # p => procs'[q] = procs[q]
         /\ writeTree' = p
<1> DEFINE old == IF update THEN [disk[f] EXCEPT !.status = Crashed] ELSE NewFile
           kept == [i \in DOMAIN old.events |-> [old.events[i] EXCEPT !.found = FALSE]]
<1>1. /\ disk' = [disk EXCEPT ![f] = [old EXCEPT !.events = kept]]
      /\ procs' = [procs EXCEPT ![p].file = f, ![p].events = kept]
      /\ writeTree' = p
  BY DEF OpenFile
<1>2. disk[f] \in FileRecord /\ procs \in Seq(ProcRecord) /\ procs[p] \in ProcRecord
      /\ disk \in [Files -> FileRecord]
  BY DEF Types, ProcTypes
<1>5. /\ old \in FileRecord /\ old.status = Crashed
      /\ old.runs = (IF update THEN disk[f].runs ELSE <<>>)
      /\ old.runT = (IF update THEN disk[f].runT ELSE FALSE)
  BY <1>2, NewFileFacts DEF FileRecord, Crashed
<1> HIDE DEF old
<1>6. old.events \in Seq(EventRecord)
  BY <1>5 DEF FileRecord
<1>7. kept \in Seq(EventRecord)
  BY <1>6, KeptTypes
<1>8. \A i \in DOMAIN kept : ~kept[i].found
  <2> SUFFICES ASSUME NEW i \in DOMAIN kept PROVE ~kept[i].found
    OBVIOUS
  <2>1. old.events[i] \in EventRecord
    BY <1>6
  <2> QED BY <2>1 DEF EventRecord
<1> HIDE DEF kept
<1>9. /\ [old EXCEPT !.events = kept] \in FileRecord
      /\ [old EXCEPT !.events = kept].status = Crashed
      /\ [old EXCEPT !.events = kept].runs = old.runs
      /\ [old EXCEPT !.events = kept].runT = old.runT
  BY <1>5, <1>7 DEF FileRecord
<1> DEFINE new == [procs[p] EXCEPT !.file = f, !.events = kept]
<1>10. procs' = [procs EXCEPT ![p] = new]
  BY <1>1
<1>11. /\ new \in ProcRecord /\ new.file = f /\ new.events = kept
       /\ new.runs = procs[p].runs /\ new.kind = procs[p].kind
  BY <1>2, <1>7 DEF ProcRecord
<1> HIDE DEF new
<1>12. /\ procs' \in Seq(ProcRecord) /\ Len(procs') = Len(procs) /\ procs'[p] = new
       /\ \A q \in 1 .. Len(procs) : q # p => procs'[q] = procs[q]
  BY <1>2, <1>10, <1>11, ExceptSeq
<1>13. /\ disk' \in [Files -> FileRecord]
       /\ disk'[f] = [old EXCEPT !.events = kept]
       /\ \A g \in Files : g # f => disk'[g] = disk[g]
  BY <1>1, <1>2, <1>9
<1> QED BY <1>1, <1>5, <1>8, <1>9, <1>11, <1>12, <1>13

\* A processor opens its file.
LEMMA SetFileTypes ==
  ASSUME Types, NEW f \in Files, NEW update \in BOOLEAN, SetFile(f, update)
  PROVE  Types'
<1>1. CASE Crash("null")
  BY <1>1, CrashTypes
<1>2. CASE /\ OpenFile(Len(procs), f, update)
           /\ UNCHANGED <<pc, job, run, main, deferred, seen, cache, readTree,
                          sigint, loop, loops, cut, closed>>
  <2>1. procs \in Seq(ProcRecord) /\ procs # <<>>
    BY DEF Types, ProcTypes, SetFile
  <2>2. Len(procs) \in 1 .. Len(procs)
    BY <2>1
  <2>3. /\ disk' \in [Files -> FileRecord] /\ procs' \in Seq(ProcRecord)
        /\ Len(procs') = Len(procs) /\ writeTree' = Len(procs)
    BY <1>2, <2>2, OpenFileTypes
  <2>4. ProcTypes'
    BY <1>2, <2>2, <2>3 DEF Types, ProcTypes
  <2> QED BY <1>2, <2>3, <2>4 DEF Types, JobTypes, Over
<1> QED BY <1>1, <1>2 DEF SetFile

\* A run that begins.
LEMMA BeamOnFacts ==
  ASSUME Types, NEW n \in 1 .. MaxEvents, BeamOn(n), ~Over'
  PROVE  /\ pc = "macro" /\ pc' = "loop" /\ CacheTypes(cache)' /\ loop' \in LoopRecord
         /\ loop'.from = Sim /\ DOMAIN cache \subseteq DOMAIN cache'
         /\ \A r \in DOMAIN cache' : cache'[r].written => r \in DOMAIN cache /\ cache[r].written
         /\ UNCHANGED <<disk, job, run, block, readTree, writeTree, sigint, cut, closed>>
<1>1. PICK c \in GetRun(run) :
          /\ cache' = AddNewRun(c, run)
          /\ loop' = [from |-> Sim,
                      todo |-> [i \in 1 .. n |-> [run |-> run, found |-> FALSE,
                                                  by |-> cache'[run].rec.by]]]
          /\ pc' = "loop" /\ loops' = loops + 1
          /\ UNCHANGED <<disk, job, run, block, readTree, writeTree, sigint, cut,
                         closed>>
  BY DEF BeamOn, Crash, Over
<1>2. /\ CacheTypes(c) /\ DOMAIN cache \subseteq DOMAIN c
      /\ \A s \in DOMAIN c : c[s].written => s \in DOMAIN cache /\ cache[s].written
  BY GetRunFacts
<1>3. pc = "macro" /\ job \in 1 .. MaxJobs /\ run \in Runs
  BY DEF BeamOn, Types, JobTypes, Over
<1>4. /\ CacheTypes(cache') /\ DOMAIN c \subseteq DOMAIN cache' /\ run \in DOMAIN cache'
      /\ \A s \in DOMAIN cache' : cache'[s].written => s \in DOMAIN c /\ c[s].written
  BY <1>1, <1>2, <1>3, AddNewRunFacts
<1>5. cache'[run].rec.by \in 1 .. MaxJobs
  <2>1. cache'[run] \in CacheRecord
    BY <1>4 DEF CacheTypes
  <2> QED BY <2>1 DEF CacheRecord, Record
<1>6. [run |-> run, found |-> FALSE, by |-> cache'[run].rec.by] \in EventRecord
  BY <1>3, <1>5 DEF EventRecord
<1>7. n \in Nat
  BY JobAssumption
<1>8. loop'.todo \in Seq(EventRecord) /\ loop' = [from |-> Sim, todo |-> loop'.todo]
  BY <1>1, <1>6, <1>7
<1>9. loop' \in LoopRecord
  BY <1>8 DEF LoopRecord
<1> QED BY <1>1, <1>2, <1>3, <1>4, <1>9 DEF CacheTypes

\* A loop over simulated events.
LEMMA BeamOnTypes ==
  ASSUME Types, NEW n \in 1 .. MaxEvents, BeamOn(n)
  PROVE  Types'
<1>1. CASE Crash("freed")
  BY <1>1, CrashTypes
<1>2. CASE ~Over'
  BY <1>2, BeamOnFacts DEF Types, JobTypes, ProcTypes, block, Over
<1>3. Crash("freed") \/ ~Over'
  BY DEF BeamOn, Over
<1> QED BY <1>1, <1>2, <1>3

\* A loop over a file.
LEMMA ReadEventsTypes ==
  ASSUME Types, NEW f \in Files, ReadEvents(f)
  PROVE  Types'
<1>1. disk[f] \in FileRecord
  BY DEF Types
<1>2. loop' \in LoopRecord
  BY <1>1 DEF ReadEvents, LoopRecord, FileRecord
<1> QED BY <1>2 DEF ReadEvents, Types, JobTypes, ProcTypes, block, Over

\* The records of the events that are known to have one are in the cache.
Known(events, c) == \A i \in DOMAIN events : events[i].found => events[i].run \in DOMAIN c

\* An event that is written: outroot may open its default file for it.
LEMMA FillFacts ==
  ASSUME Types, NEW ps \in SUBSET Writers, NEW c, NEW e \in EventRecord, Fill(ps, c, e)
  PROVE  /\ disk' \in [Files -> FileRecord] /\ procs' \in Seq(ProcRecord)
         /\ Len(procs') = Len(procs) /\ writeTree' \in 0 .. Len(procs)
         /\ \A q \in 1 .. Len(procs) :
              /\ procs'[q].kind = procs[q].kind /\ procs'[q].runs = procs[q].runs
              /\ Known(procs[q].events, c) => Known(procs'[q].events, c)
         /\ \/ /\ disk' = disk /\ writeTree' = writeTree
               /\ \A q \in 1 .. Len(procs) : procs'[q].file = procs[q].file
            \/ \E x \in Writers :
                 /\ x \notin Open /\ DefaultFile \notin Opened
                 /\ disk' = [disk EXCEPT ![DefaultFile] = NewFile] /\ writeTree' = x
                 /\ procs'[x].file = DefaultFile
                 /\ \A q \in 1 .. Len(procs) : q # x => procs'[q].file = procs[q].file
<1> DEFINE late == ps \ Open
           event == [e EXCEPT !.found = e.run \in DOMAIN c]
           New(p) == [procs[p] EXCEPT !.events = Append(@, event),
                                      !.file = IF @ = None THEN DefaultFile ELSE @]
<1>1. /\ procs \in Seq(ProcRecord) /\ writeTree \in 0 .. Len(procs)
      /\ DOMAIN procs = 1 .. Len(procs) /\ Len(procs) \in Nat
      /\ disk \in [Files -> FileRecord] /\ DefaultFile \in Files
  BY JobAssumption DEF Types, ProcTypes
<1>2. /\ event \in EventRecord /\ event.run = e.run /\ event.found = (e.run \in DOMAIN c)
  <2> DEFINE found == e.run \in DOMAIN c
  <2>1. found \in BOOLEAN
    OBVIOUS
  <2>2. event = [e EXCEPT !.found = found]
    OBVIOUS
  <2> HIDE DEF found, event
  <2>3. /\ event \in EventRecord /\ event.run = e.run /\ event.found = found
    BY <2>1, <2>2 DEF EventRecord
  <2> QED BY <2>3 DEF found
<1>3. /\ Cardinality(late) <= 1
      /\ late # {} => DefaultFile \notin Opened
      /\ disk' = IF late = {} THEN disk ELSE [disk EXCEPT ![DefaultFile] = NewFile]
      /\ procs' = [p \in DOMAIN procs |-> IF p \notin ps THEN procs[p] ELSE New(p)]
      /\ writeTree' = IF late = {} THEN writeTree ELSE CHOOSE p \in late : TRUE
  BY DEF Fill
<1> HIDE DEF event
<1>4. ASSUME NEW p \in 1 .. Len(procs)
      PROVE  /\ New(p) \in ProcRecord
             /\ New(p).kind = procs[p].kind /\ New(p).runs = procs[p].runs
             /\ New(p).file = IF procs[p].file = None THEN DefaultFile ELSE procs[p].file
             /\ New(p).events = Append(procs[p].events, event)
             /\ procs[p].events \in Seq(EventRecord)
  <2>1. procs[p] \in ProcRecord
    BY <1>1
  <2>2. procs[p].events \in Seq(EventRecord)
    BY <2>1 DEF ProcRecord
  <2>3. Append(procs[p].events, event) \in Seq(EventRecord)
    BY <1>2, <2>2
  <2> QED BY <1>1, <2>1, <2>2, <2>3 DEF ProcRecord
<1>5. ASSUME NEW p \in 1 .. Len(procs), Known(procs[p].events, c)
      PROVE  Known(New(p).events, c)
  <2> SUFFICES ASSUME NEW i \in DOMAIN New(p).events, New(p).events[i].found
               PROVE  New(p).events[i].run \in DOMAIN c
    BY DEF Known
  <2>1. procs[p].events \in Seq(EventRecord) /\ New(p).events = Append(procs[p].events, event)
    BY <1>4
  <2>2. CASE i \in DOMAIN procs[p].events
    <3>1. New(p).events[i] = procs[p].events[i]
      BY <2>1, <2>2
    <3> QED BY <1>5, <2>2, <3>1 DEF Known
  <2>3. CASE i \notin DOMAIN procs[p].events
    <3>1. New(p).events[i] = event
      BY <2>1, <2>3
    <3> QED BY <1>2, <3>1
  <2> QED BY <2>2, <2>3
<1>6. ps \subseteq 1 .. Len(procs)
  BY <1>1 DEF Writers
<1> HIDE DEF New, late
<1>7. ASSUME NEW p \in 1 .. Len(procs)
      PROVE  procs'[p] = IF p \notin ps THEN procs[p] ELSE New(p)
  BY <1>1, <1>3
<1>8. procs' \in Seq(ProcRecord) /\ Len(procs') = Len(procs)
  <2>1. \A p \in 1 .. Len(procs) : procs'[p] \in ProcRecord
    BY <1>1, <1>4, <1>7
  <2>2. DOMAIN procs' = 1 .. Len(procs)
    BY <1>1, <1>3
  <2>3. procs' = [p \in 1 .. Len(procs) |-> procs'[p]]
    BY <1>1, <1>3
  <2> QED BY <1>1, <2>1, <2>2, <2>3
<1>9. ASSUME NEW q \in 1 .. Len(procs)
      PROVE  /\ procs'[q].kind = procs[q].kind /\ procs'[q].runs = procs[q].runs
             /\ Known(procs[q].events, c) => Known(procs'[q].events, c)
  BY <1>4, <1>5, <1>7
<1>10. CASE late = {}
  <2>1. disk' = disk /\ writeTree' = writeTree
    BY <1>3, <1>10
  <2>2. ASSUME NEW q \in 1 .. Len(procs) PROVE procs'[q].file = procs[q].file
    <3>1. q \in ps => q \in Open
      BY <1>10 DEF late
    <3>2. q \in ps => procs[q].file # None
      BY <3>1 DEF Open
    <3> QED BY <1>4, <1>7, <3>2
  <2> QED BY <1>1, <1>8, <1>9, <2>1, <2>2
<1>11. CASE late # {}
  <2>1. IsFiniteSet(late)
    <3>1. late \subseteq 1 .. Len(procs)
      BY <1>6 DEF late
    <3>2. IsFiniteSet(1 .. Len(procs))
      BY <1>1, FS_Interval
    <3> QED BY <3>1, <3>2, FS_Subset
  <2>2. PICK x : late = {x}
    BY <1>3, <1>11, <2>1, AtMostOne
  <2>3. /\ x \in ps /\ x \notin Open /\ x \in Writers /\ x \in 1 .. Len(procs)
        /\ writeTree' = x
    BY <1>3, <1>6, <1>11, <2>2 DEF late
  <2>4. disk' = [disk EXCEPT ![DefaultFile] = NewFile] /\ DefaultFile \notin Opened
    BY <1>3, <1>11
  <2>5. procs[x].file = None
    BY <1>1, <2>3 DEF Open
  <2>6. procs'[x].file = DefaultFile
    BY <1>4, <1>7, <2>3, <2>5
  <2>7. ASSUME NEW q \in 1 .. Len(procs), q # x PROVE procs'[q].file = procs[q].file
    <3>1. q \in ps => q \in Open
      BY <2>2, <2>7 DEF late
    <3>2. q \in ps => procs[q].file # None
      BY <3>1 DEF Open
    <3> QED BY <1>4, <1>7, <3>2
  <2>8. disk' \in [Files -> FileRecord]
    BY <1>1, <2>4, NewFileFacts
  <2> QED BY <1>8, <1>9, <2>3, <2>4, <2>6, <2>7, <2>8
<1> QED BY <1>10, <1>11

\* The next event of a loop.
Listed == ToSet(main) \cup ToSet(deferred)
\* What an event changes in the cache, and where it is read.
LEMMA EventFacts ==
  ASSUME Types, Event, ~Over'
  PROVE  /\ pc = "loop" /\ pc' = pc /\ loop.todo # <<>> /\ Head(loop.todo) \in EventRecord
         /\ CacheTypes(cache)' /\ DOMAIN cache \subseteq DOMAIN cache'
         /\ \A r \in DOMAIN cache' : cache'[r].written => r \in DOMAIN cache /\ cache[r].written
         /\ loop.from \in Files /\ readTree \in Files
              /\ Records(readTree, Head(loop.todo).run) # {}
            => Head(loop.todo).run \in DOMAIN cache'
         /\ \E ps \in SUBSET Writers : Fill(ps, cache', Head(loop.todo))
         /\ loop' \in LoopRecord /\ loop'.from = loop.from
         /\ main' \in Seq(1 .. Len(procs)) /\ deferred' \in Seq(1 .. Len(procs))
         /\ Listed \subseteq Listed' /\ seen' \in BOOLEAN
         /\ cut' \in BOOLEAN /\ (cut' => cut \/ sigint)
         /\ UNCHANGED <<job, run, readTree, sigint, loops, closed>>
<1> DEFINE e == Head(loop.todo)
           known == IF loop.from = Sim THEN {cache} ELSE GetRun(e.run)
<1>1. PICK c \in known, stop \in StopsAt :
        /\ cache' = c
        /\ Fill(Reached(stop), c, e)
        /\ main' = Sequence /\ seen' = TRUE
        /\ deferred' = IF seen THEN deferred ELSE <<>>
        /\ loop' = [loop EXCEPT !.todo =
             IF loop.from = Sim /\ StopLoop THEN <<>> ELSE Tail(loop.todo)]
        /\ cut' = (cut \/ (loop.from = Sim /\ StopLoop /\ Tail(loop.todo) # <<>>))
        /\ UNCHANGED <<pc, job, run, readTree, sigint, loops, closed>>
  BY DEF Event, Crash, Over
<1>2. pc = "loop" /\ loop.todo # <<>>
  BY DEF Event
<1>3. loop \in LoopRecord /\ main \in Seq(1 .. Len(procs)) /\ deferred \in Seq(1 .. Len(procs))
      /\ cut \in BOOLEAN
  BY DEF Types, ProcTypes, JobTypes
<1>4. loop.todo \in Seq(EventRecord)
  BY <1>3 DEF LoopRecord
<1>5. e \in EventRecord /\ Tail(loop.todo) \in Seq(EventRecord)
  BY <1>2, <1>4
<1>6. loop' \in LoopRecord /\ loop'.from = loop.from
  <2>1. <<>> \in Seq(EventRecord)
    OBVIOUS
  <2>2. (IF loop.from = Sim /\ StopLoop THEN <<>> ELSE Tail(loop.todo)) \in Seq(EventRecord)
    BY <1>5, <2>1
  <2> QED BY <1>1, <1>3, <2>2 DEF LoopRecord
<1>7. /\ CacheTypes(c) /\ DOMAIN cache \subseteq DOMAIN c
      /\ \A r \in DOMAIN c : c[r].written => r \in DOMAIN cache /\ cache[r].written
  <2>1. CASE loop.from = Sim
    <3>1. c = cache
      BY <2>1
    <3> QED BY <3>1 DEF Types
  <2>2. CASE loop.from # Sim
    <3>1. c \in GetRun(e.run)
      BY <2>2
    <3> HIDE DEF e
    <3> QED BY <3>1, GetRunFacts
  <2> QED BY <2>1, <2>2
<1>8. loop.from \in Files /\ readTree \in Files /\ Records(readTree, e.run) # {}
      => e.run \in DOMAIN c
  <2> SUFFICES ASSUME loop.from \in Files, readTree \in Files, Records(readTree, e.run) # {}
               PROVE  e.run \in DOMAIN c
    OBVIOUS
  <2>1. c \in GetRun(e.run)
    BY JobAssumption
  <2> HIDE DEF e
  <2> QED BY <2>1, GetRunFacts
<1>9. /\ Sequence \in Seq(1 .. Len(procs))
      /\ deferred' \in Seq(1 .. Len(procs)) /\ Listed \subseteq Listed'
  <2>1. CASE seen
    BY <1>1, <1>3, <2>1 DEF Sequence, Listed
  <2>2. CASE ~seen
    <3>1. Sequence = main \o deferred /\ deferred' = <<>>
      BY <1>1, <2>2 DEF Sequence
    <3>2. main \o deferred \in Seq(1 .. Len(procs))
      BY <1>3
    <3>3. ToSet(main) \subseteq ToSet(main \o deferred) /\ ToSet(deferred) \subseteq ToSet(main \o deferred)
      BY <1>3, JoinedSet
    <3>4. main' = main \o deferred
      BY <1>1, <3>1
    <3>5. deferred' \in Seq(1 .. Len(procs))
      BY <3>1
    <3> QED BY <3>1, <3>2, <3>3, <3>4, <3>5 DEF Listed
  <2> QED BY <2>1, <2>2
<1>10. Reached(stop) \in SUBSET Writers
  BY DEF Reached
<1>11. cut' \in BOOLEAN /\ (cut' => cut \/ sigint)
  BY <1>1, <1>3 DEF StopLoop
<1> HIDE DEF e
<1> QED BY <1>1, <1>2, <1>5, <1>6, <1>7, <1>8, <1>9, <1>10, <1>11 DEF CacheTypes, e

\* An event is processed.
LEMMA EventTypes ==
  ASSUME Types, Event
  PROVE  Types'
<1>1. CASE Crash("freed")
  BY <1>1, CrashTypes
<1>2. CASE ~Over'
  <2>1. PICK ps \in SUBSET Writers : Fill(ps, cache', Head(loop.todo))
    BY <1>2, EventFacts
  <2>2. Head(loop.todo) \in EventRecord
    BY <1>2, EventFacts
  <2>3. /\ disk' \in [Files -> FileRecord] /\ procs' \in Seq(ProcRecord)
        /\ Len(procs') = Len(procs) /\ writeTree' \in 0 .. Len(procs)
    BY <2>1, <2>2, FillFacts
  <2>4. ProcTypes'
    BY <1>2, <2>3, EventFacts DEF ProcTypes
  <2> QED BY <1>2, <2>3, <2>4, EventFacts DEF Types, JobTypes, Over
<1>3. Crash("freed") \/ ~Over'
  BY DEF Event, Over
<1> QED BY <1>1, <1>2, <1>3

\* SetToSeq lists a finite set.
LEMMA Listing ==
  ASSUME NEW S, IsFiniteSet(S)
  PROVE  /\ SetToSeq(S) \in Seq(S) /\ IsInjective(SetToSeq(S))
         /\ \A x \in S : \E i \in DOMAIN SetToSeq(S) : SetToSeq(S)[i] = x
<1> DEFINE N == Cardinality(S)
<1>1. N \in Nat /\ ExistsBijection(1 .. N, S)
  BY FS_CardinalityType
<1>2. PICK f \in [1 .. N -> S] : IsInjective(f)
  BY <1>1 DEF ExistsBijection, Bijection, Injection
<1>3. SetToSeq(S) \in [1 .. N -> S] /\ IsInjective(SetToSeq(S))
  BY <1>2 DEF SetToSeq
<1>4. SetToSeq(S) \in Injection(1 .. N, S)
  BY <1>3 DEF Injection
<1>5. IsFiniteSet(1 .. N) /\ Cardinality(1 .. N) = N
  BY <1>1, FS_Interval
<1>6. SetToSeq(S) \in Surjection(1 .. N, S)
  BY <1>4, <1>5, FS_Injection
<1>7. SetToSeq(S) \in Seq(S)
  BY <1>1, <1>3
<1> QED BY <1>3, <1>6, <1>7 DEF Surjection

\* The records that are not written yet, in some order, each once.
NewRecords == SetToSeq({cache[r].rec : r \in Unwritten})
Once(runs) ==
  \A r \in DOMAIN cache :
    \E i \in DOMAIN runs : /\ runs[i].run = r
                           /\ \A j \in DOMAIN runs : runs[j].run = r => j = i
\* The records that a finished file gets are each there once.
LEMMA NewRecordsFacts ==
  ASSUME Types
  PROVE  /\ NewRecords \in Seq(Record)
         /\ (\A r \in DOMAIN cache : ~cache[r].written) => Once(NewRecords)
         /\ (\A r \in DOMAIN cache : cache[r].written) => NewRecords = <<>>
<1> DEFINE S == {cache[r].rec : r \in Unwritten}
<1>1. CacheTypes(cache)
  BY DEF Types
<1>2. Unwritten \subseteq DOMAIN cache /\ IsFiniteSet(Unwritten)
  BY <1>1, FS_Subset DEF Unwritten, CacheTypes
<1>3. ASSUME NEW r \in DOMAIN cache PROVE cache[r].rec \in Record /\ cache[r].rec.run = r
  <2>1. cache[r] \in CacheRecord
    BY <1>1 DEF CacheTypes
  <2> QED BY <1>1, <2>1 DEF CacheTypes, CacheRecord
<1>4. S \subseteq Record
  BY <1>2, <1>3
<1>5. IsFiniteSet(S)
  <2> DEFINE f == [r \in Unwritten |-> cache[r].rec]
  <2>1. f \in Surjection(Unwritten, S)
    BY DEF Surjection
  <2> QED BY <1>2, <2>1, FS_Surjection
<1>6. \A x, y \in S : x.run = y.run => x = y
  BY <1>2, <1>3
<1>7. ASSUME NEW r \in DOMAIN cache, ~cache[r].written
      PROVE  \E x \in S : x.run = r
  BY <1>3, <1>7 DEF Unwritten
<1> HIDE DEF S
<1>8. /\ SetToSeq(S) \in Seq(S) /\ IsInjective(SetToSeq(S))
      /\ \A x \in S : \E i \in DOMAIN SetToSeq(S) : SetToSeq(S)[i] = x
  BY <1>5, Listing
<1>9. NewRecords = SetToSeq(S)
  BY DEF NewRecords, S
<1> DEFINE new == SetToSeq(S)
<1>10. new \in Seq(Record)
  BY <1>4, <1>8, SeqMonotonic
<1> HIDE DEF new
<1>11. ASSUME \A r \in DOMAIN cache : ~cache[r].written
       PROVE  Once(new)
  <2> SUFFICES ASSUME NEW r \in DOMAIN cache
               PROVE  \E i \in DOMAIN new : /\ new[i].run = r
                                            /\ \A j \in DOMAIN new : new[j].run = r => j = i
    BY DEF Once
  <2>1. PICK x \in S : x.run = r
    BY <1>7, <1>11
  <2>2. PICK i \in DOMAIN new : new[i] = x
    BY <1>8 DEF new
  <2>3. ASSUME NEW j \in DOMAIN new, new[j].run = r PROVE j = i
    <3>1. new[j] \in S
      BY <1>8 DEF new
    <3>2. new[j] = new[i]
      BY <1>6, <2>1, <2>2, <2>3, <3>1
    <3> QED BY <1>8, <3>2 DEF new, IsInjective
  <2> QED BY <2>1, <2>2, <2>3
<1>12. ASSUME \A r \in DOMAIN cache : cache[r].written
       PROVE  new = <<>>
  <2>1. S = {}
    BY <1>12 DEF S, Unwritten
  <2> QED BY <1>8, <2>1 DEF new
<1> QED BY <1>9, <1>10, <1>11, <1>12 DEF new

\* FlushWriteTree adds them to what the processor with the write tree has.
LEMMA FlushFacts ==
  ASSUME Types
  PROVE  /\ FlushWriteTree \in Seq(ProcRecord) /\ Len(FlushWriteTree) = Len(procs)
         /\ \A q \in 1 .. Len(procs) :
              /\ FlushWriteTree[q].file = procs[q].file
              /\ FlushWriteTree[q].kind = procs[q].kind
              /\ FlushWriteTree[q].events = procs[q].events
              /\ q # writeTree => FlushWriteTree[q] = procs[q]
         /\ writeTree # 0 =>
              FlushWriteTree[writeTree].runs = procs[writeTree].runs \o NewRecords
<1> DEFINE new == [procs[writeTree] EXCEPT !.runs = @ \o NewRecords]
<1>1. FlushWriteTree = [procs EXCEPT ![writeTree] = new]
  BY DEF FlushWriteTree, NewRecords
<1>2. procs \in Seq(ProcRecord) /\ writeTree \in 0 .. Len(procs) /\ Len(procs) \in Nat
  BY DEF Types, ProcTypes
<1>3. CASE writeTree = 0
  <2>1. FlushWriteTree = procs
    BY <1>1, <1>2, <1>3
  <2> QED BY <1>2, <1>3, <2>1
<1>4. CASE writeTree # 0
  <2>1. writeTree \in 1 .. Len(procs)
    BY <1>2, <1>4
  <2>2. procs[writeTree] \in ProcRecord
    BY <1>2, <2>1
  <2>3. procs[writeTree].runs \in Seq(Record)
    BY <2>2 DEF ProcRecord
  <2>4. procs[writeTree].runs \o NewRecords \in Seq(Record)
    BY <2>3, NewRecordsFacts
  <2>5. /\ new \in ProcRecord /\ new.file = procs[writeTree].file
        /\ new.kind = procs[writeTree].kind /\ new.events = procs[writeTree].events
        /\ new.runs = procs[writeTree].runs \o NewRecords
    BY <2>2, <2>4 DEF ProcRecord
  <2> HIDE DEF new
  <2>6. /\ FlushWriteTree \in Seq(ProcRecord) /\ Len(FlushWriteTree) = Len(procs)
        /\ FlushWriteTree[writeTree] = new
        /\ \A q \in 1 .. Len(procs) : q # writeTree => FlushWriteTree[q] = procs[q]
    BY <1>1, <1>2, <2>1, <2>5, ExceptSeq
  <2> QED BY <2>5, <2>6
<1> QED BY <1>3, <1>4

\* A processor is deleted.
LEMMA DeleteFacts ==
  ASSUME Types, Delete
  PROVE  /\ pc = "close" /\ pc' = pc
         /\ \E p \in 1 .. Len(procs) :
              /\ Listed \ {p} \subseteq Listed'
              /\ \/ p \notin Open /\ UNCHANGED <<disk, procs, cache, closed>>
                 \/ /\ p \in Open /\ procs' = FlushWriteTree /\ cache' = MarkWritten
                    /\ disk' = [disk EXCEPT ![procs[p].file] =
                         [events |-> procs[p].events, runs |-> procs'[p].runs,
                          runT |-> TRUE, status |-> Status, cut |-> cut,
                          alone |-> Cardinality(Open) = 1]]
                    /\ closed' = closed \cup {procs[p].file}
         /\ main' \in Seq(1 .. Len(procs)) /\ deferred' \in Seq(1 .. Len(procs))
         /\ UNCHANGED <<job, run, seen, readTree, writeTree, sigint, loop, loops, cut>>
<1> DEFINE p == Head(main \o deferred)
<1>1. main \in Seq(1 .. Len(procs)) /\ deferred \in Seq(1 .. Len(procs))
  BY DEF Types, ProcTypes
<1>2. main \o deferred # <<>>
  BY DEF Delete
<1>3. /\ main' = IF main = <<>> THEN main ELSE Tail(main)
      /\ deferred' = IF main = <<>> THEN Tail(deferred) ELSE deferred
  BY DEF Delete
<1>4. CASE main = <<>>
  <2>1. main \o deferred = deferred /\ deferred # <<>>
    BY <1>1, <1>2, <1>4
  <2>2. p = deferred[1] /\ p \in 1 .. Len(procs)
    BY <1>1, <2>1
  <2>3. deferred' = Tail(deferred) /\ deferred' \in Seq(1 .. Len(procs)) /\ main' = main
    BY <1>1, <1>3, <1>4, <2>1
  <2>4. ToSet(deferred) \ {p} \subseteq ToSet(deferred')
    BY <1>1, <2>1, <2>2, <2>3, TailSet
  <2> QED BY <1>1, <2>2, <2>3, <2>4 DEF Delete, Listed
<1>5. CASE main # <<>>
  <2>2. p = main[1] /\ p \in 1 .. Len(procs)
    BY <1>1, <1>5
  <2>3. main' = Tail(main) /\ main' \in Seq(1 .. Len(procs)) /\ deferred' = deferred
    BY <1>1, <1>3, <1>5
  <2>4. ToSet(main) \ {p} \subseteq ToSet(main')
    BY <1>1, <1>5, <2>2, <2>3, TailSet
  <2> QED BY <1>1, <2>2, <2>3, <2>4 DEF Delete, Listed
<1> QED BY <1>4, <1>5

\* A processor is deleted, and its file finished.
LEMMA DeleteTypes ==
  ASSUME Types, Delete
  PROVE  Types'
<1>1. PICK p \in 1 .. Len(procs) :
        \/ p \notin Open /\ UNCHANGED <<disk, procs, cache, closed>>
        \/ /\ p \in Open /\ procs' = FlushWriteTree /\ cache' = MarkWritten
           /\ disk' = [disk EXCEPT ![procs[p].file] =
                [events |-> procs[p].events, runs |-> procs'[p].runs,
                 runT |-> TRUE, status |-> Status, cut |-> cut,
                 alone |-> Cardinality(Open) = 1]]
           /\ closed' = closed \cup {procs[p].file}
  BY DeleteFacts
<1>2. CASE p \notin Open /\ UNCHANGED <<disk, procs, cache, closed>>
  BY <1>2, DeleteFacts DEF Types, JobTypes, ProcTypes, Over
<1>3. CASE /\ p \in Open /\ procs' = FlushWriteTree /\ cache' = MarkWritten
           /\ disk' = [disk EXCEPT ![procs[p].file] =
                [events |-> procs[p].events, runs |-> procs'[p].runs,
                 runT |-> TRUE, status |-> Status, cut |-> cut,
                 alone |-> Cardinality(Open) = 1]]
           /\ closed' = closed \cup {procs[p].file}
  <2>1. procs' \in Seq(ProcRecord) /\ Len(procs') = Len(procs)
    BY <1>3, FlushFacts
  <2>2. procs[p] \in ProcRecord /\ procs'[p] \in ProcRecord
    BY <2>1 DEF Types, ProcTypes
  <2>3. /\ procs[p].file \in Files /\ procs[p].events \in Seq(EventRecord)
        /\ procs'[p].runs \in Seq(Record)
    BY <1>3, <2>2 DEF ProcRecord, Open
  <2>4. Status \in 0 .. 3 /\ cut \in BOOLEAN
    BY DEF Status, Types, JobTypes
  <2> DEFINE alone == Cardinality(Open) = 1
             new == [events |-> procs[p].events, runs |-> procs'[p].runs,
                     runT |-> TRUE, status |-> Status, cut |-> cut, alone |-> alone]
  <2>5. alone \in BOOLEAN
    OBVIOUS
  <2> HIDE DEF alone
  <2>6. new \in FileRecord
    BY <2>3, <2>4, <2>5 DEF FileRecord
  <2>7. disk' = [disk EXCEPT ![procs[p].file] = new]
    BY <1>3 DEF alone
  <2> HIDE DEF new
  <2>8. disk' \in [Files -> FileRecord]
    BY <2>3, <2>6, <2>7 DEF Types
  <2>9. CacheTypes(cache)'
    BY <1>3, MarkFacts DEF Types
  <2>10. ProcTypes'
    BY <2>1, DeleteFacts DEF Types, ProcTypes
  <2>11. JobTypes'
    BY <1>3, <2>3, DeleteFacts DEF Types, JobTypes, Over
  <2> QED BY <2>8, <2>9, <2>10, <2>11, DeleteFacts DEF Types
<1> QED BY <1>1, <1>2, <1>3

\* A file is saved in between.
LEMMA AutoSaveTypes ==
  ASSUME Types, NEW p \in DOMAIN procs, AutoSave(p)
  PROVE  Types'
<1>1. procs[p] \in ProcRecord
  BY DEF Types, ProcTypes
<1>2. procs[p].file \in Files /\ procs[p].events \in Seq(EventRecord)
  BY <1>1 DEF AutoSave, Open, ProcRecord
<1>3. disk[procs[p].file] \in FileRecord
  BY <1>2 DEF Types
<1>4. [disk[procs[p].file] EXCEPT !.events = procs[p].events] \in FileRecord
  BY <1>2, <1>3 DEF FileRecord
<1>5. disk' = [disk EXCEPT ![procs[p].file] = [disk[procs[p].file] EXCEPT !.events = procs[p].events]]
  BY DEF AutoSave
<1>6. disk' \in [Files -> FileRecord]
  BY <1>4, <1>5 DEF Types
<1> QED BY <1>6 DEF AutoSave, Types, JobTypes, ProcTypes, memory, Over

\* The next job begins with nothing in memory.
LEMMA StartJobTypes ==
  ASSUME Types, StartJob
  PROVE  Types'
<1>1. PICK r \in Runs : Fresh(r)
  BY DEF StartJob
<1>2. job' \in 1 .. MaxJobs
  BY JobAssumption DEF StartJob, Types, JobTypes
<1>3. ~Over' /\ pc' = "macro" /\ disk' = disk
  BY DEF StartJob, Over
<1> QED BY <1>1, <1>2, <1>3, FreshTypes DEF Types, JobTypes

\* The other steps: no file and no processor changes.
EndsLoop == EndLoop \/ Quit
\* A loop ends, or a signal comes.
LEMMA OtherTypes ==
  ASSUME Types, EndsLoop \/ (SigInt /\ ~sigint) \/ UNCHANGED vars
  PROVE  Types'
<1>1. CASE EndLoop
  <2>1. <<>> \in Seq(EventRecord)
    OBVIOUS
  <2>2. loop' \in LoopRecord
    BY <1>1, <2>1 DEF EndLoop, LoopRecord
  <2> QED BY <1>1, <2>2 DEF EndLoop, Types, JobTypes, ProcTypes, block, Over
<1>2. CASE Quit
  BY <1>2 DEF Quit, Types, JobTypes, ProcTypes, memory, Over
<1>3. CASE SigInt /\ ~sigint
  BY <1>3 DEF SigInt, Types, JobTypes, ProcTypes, block, store, Over
<1>4. CASE UNCHANGED vars
  BY <1>4 DEF vars, Types, JobTypes, ProcTypes, memory, Over
<1> QED BY <1>1, <1>2, <1>3, <1>4 DEF EndsLoop

\* The steps of a job, those in which its process ends taken together.
Ends == \E how \in {"down", "null", "freed"} : Crash(how)
\* The steps, with those that end the program in one case.
LEMMA NextCases ==
  ASSUME [Next]_vars
  PROVE  \/ Ends \/ StartJob
         \/ \E kind \in {"outroot", "filter"}, last \in BOOLEAN : AddProcessor(kind, last)
         \/ ~Ends /\ \E f \in Files, update \in BOOLEAN : SetFile(f, update)
         \/ ~Ends /\ \E n \in 1 .. MaxEvents : BeamOn(n)
         \/ \E f \in Files : ReadEvents(f)
         \/ ~Ends /\ Event
         \/ EndsLoop \/ Delete \/ (SigInt /\ ~sigint)
         \/ \E p \in DOMAIN procs : AutoSave(p)
         \/ UNCHANGED vars
<1>1. Exit => Ends
  BY DEF Exit, Ends
<1>2. Die => Ends
  BY DEF Die, Ends
<1>3. SigInt /\ sigint => Ends
  BY DEF SigInt, Ends
<1> QED BY <1>1, <1>2, <1>3 DEF Next, EndsLoop

\* Every step keeps the types.
LEMMA NextTypes ==
  ASSUME Types, [Next]_vars
  PROVE  Types'
<1>1. CASE Ends
  BY <1>1, CrashTypes DEF Ends
<1>2. CASE ~Ends
  BY <1>2, NextCases, StartJobTypes, AddProcessorTypes, SetFileTypes, BeamOnTypes,
     ReadEventsTypes, EventTypes, DeleteTypes, AutoSaveTypes, OtherTypes
<1> QED BY <1>1, <1>2

\* Everything has its type before the first job.
LEMMA InitTypes == Init => Types
<1> SUFFICES ASSUME Init PROVE Types
  OBVIOUS
<1>2. <<>> \in Seq(EventRecord) /\ <<>> \in Seq(Record) /\ IsFiniteSet(DOMAIN cache)
      /\ DOMAIN cache = {}
  BY FS_EmptySet DEF Init
<1>3. NoFile \in FileRecord
  BY <1>2 DEF NoFile, FileRecord
<1>4. disk \in [Files -> FileRecord]
  BY <1>3 DEF Init
<1>5. loop \in LoopRecord
  BY <1>2 DEF Init, LoopRecord
<1>6. CacheTypes(cache)
  BY <1>2 DEF CacheTypes
<1>7. ProcTypes
  BY DEF ProcTypes, Init
<1>8. JobTypes
  <2>1. MaxJobs \in Nat
    BY JobAssumption
  <2>2. pc = "down" /\ job = 0 /\ job \in 0 .. MaxJobs /\ run \in Runs
    BY <2>1 DEF Init
  <2>3. seen = FALSE /\ sigint = FALSE /\ cut = FALSE /\ closed = {}
    BY DEF Init
  <2> QED BY <2>2, <2>3 DEF JobTypes, Over
<1> QED BY <1>4, <1>5, <1>6, <1>7, <1>8 DEF Types, Init

\* And always.
LEMMA TypesHold == Spec => []Types
  BY InitTypes, NextTypes, PTL DEF Spec

\* The types hold.
THEOREM TypeCorrect == Spec => []TypeOK
<1>1. Types => TypeOK
  <2> SUFFICES ASSUME Types PROVE TypeOK
    OBVIOUS
  <2>1. ASSUME NEW f \in Files
        PROVE  /\ disk[f].events \in Seq(EventRecord) /\ disk[f].runs \in Seq(Record)
               /\ disk[f].status \in 0 .. 3
               /\ disk[f].runT \in BOOLEAN /\ disk[f].cut \in BOOLEAN
    <3>1. disk[f] \in FileRecord
      BY DEF Types
    <3> QED BY <3>1 DEF FileRecord
  <2>2. ASSUME NEW p \in DOMAIN procs
        PROVE  /\ procs[p].file \in Files \cup {None}
               /\ procs[p].events \in Seq(EventRecord) /\ procs[p].runs \in Seq(Record)
    <3>1. procs[p] \in ProcRecord
      BY DEF Types, ProcTypes
    <3> QED BY <3>1 DEF ProcRecord
  <2>3. ToSet(main) \cup ToSet(deferred) \subseteq DOMAIN procs
    BY DEF Types, ProcTypes, ToSet
  <2>4. ASSUME NEW r \in DOMAIN cache PROVE cache[r].rec \in Record /\ cache[r].rec.run = r
    <3>1. cache[r] \in CacheRecord
      BY DEF Types, CacheTypes
    <3> QED BY <3>1 DEF Types, CacheTypes, CacheRecord
  <2>5. loop.todo \in Seq(EventRecord)
    BY DEF Types, LoopRecord
  <2>6. DOMAIN cache \subseteq Runs
    BY DEF Types, CacheTypes
  <2> QED BY <2>1, <2>2, <2>3, <2>4, <2>5, <2>6 DEF TypeOK, Types, JobTypes, ProcTypes
<1> QED BY <1>1, TypesHold, PTL

-----------------------------------------------------------------------------
(* Files and records.                                                      *)

\* A loop is only cut short after Ctrl-C.
Honest == (cut => sigint) /\ StatusHonest

\* A file with run records has a run tree.
Trees == \A f \in Files : disk[f].runs # <<>> => disk[f].runT

\* Each open file has one processor, and is unfinished until that is deleted; the
\* write tree belongs to one of them.
Owned ==
  /\ \A p, q \in Open : procs[p].file = procs[q].file => p = q
  /\ Open # {} => writeTree \in Open
  /\ closed \subseteq Opened
  /\ \A p \in Open : procs[p].file \notin closed => disk[procs[p].file].status = Crashed
  /\ \A p \in Open : p \in Listed \/ procs[p].file \in closed
  /\ pc \in {"macro", "loop"} => closed = {} /\ DOMAIN procs \subseteq Listed

\* No record is written before the first file is finished. Then all are, to the
\* one write tree, and to disk with its processor.
Flushed ==
  /\ closed = {} => /\ \A r \in DOMAIN cache : ~cache[r].written
                    /\ \A p \in DOMAIN procs : procs[p].runs = <<>>
  /\ closed # {} =>
       /\ \A r \in DOMAIN cache : cache[r].written
       /\ \A p \in Open : p # writeTree => procs[p].runs = <<>>
       /\ Once(procs[writeTree].runs)
       /\ \A p \in Open : procs[p].file \in closed => disk[procs[p].file].runs = procs[p].runs

\* The records of events are in the cache, and then in the files.
Complete ==
  /\ \A p \in DOMAIN procs : Known(procs[p].events, cache)
  /\ SelfContained

\* A file that is read does not change, and its records can be found.
Reading ==
  pc = "loop" /\ loop.from \in Files =>
    /\ loop.from \notin Opened
    /\ Writers \subseteq Open \/ loop.from # DefaultFile
    /\ disk[loop.from].runs # <<>> => readTree = loop.from

Keeps == Honest /\ Trees /\ Owned /\ Flushed /\ Complete /\ Reading

\* A process starts, or is gone: only files are left.
LEMMA FreshKeeps ==
  ASSUME Types, Keeps, NEW r, Fresh(r), disk' = disk
  PROVE  Keeps'
<1>1. /\ procs' = <<>> /\ cache' = <<>> /\ closed' = {} /\ cut' = FALSE
      /\ loop'.from = None
  BY DEF Fresh
<1>2. DOMAIN procs' = {} /\ DOMAIN cache' = {}
  BY <1>1
<1>3. Open' = {} /\ Opened' = {}
  BY <1>2 DEF Open, Opened
<1>4. Honest' /\ Trees' /\ Complete'
  BY <1>1, <1>2 DEF Keeps, Honest, StatusHonest, Trees, Complete, SelfContained, Finished,
     Records
<1>5. Owned'
  BY <1>1, <1>2, <1>3 DEF Owned
<1>6. Flushed'
  BY <1>1, <1>2 DEF Flushed
<1>7. Reading'
  BY <1>1, JobAssumption DEF Reading
<1> QED BY <1>4, <1>5, <1>6, <1>7 DEF Keeps

\* No file and no processor changes, and records may come.
LEMMA SteadyKeeps ==
  ASSUME Types, Keeps, UNCHANGED <<disk, procs, closed, writeTree>>,
         cache' = cache \/ closed = {}, DOMAIN cache \subseteq DOMAIN cache',
         \A r \in DOMAIN cache' : cache'[r].written => r \in DOMAIN cache /\ cache[r].written,
         Listed \subseteq Listed', pc' \in {"macro", "loop"} => pc \in {"macro", "loop"},
         cut' => sigint', Reading'
  PROVE  Keeps'
<1>1. Open' = Open /\ Opened' = Opened
  BY DEF Open, Opened
<1>2. Honest' /\ Trees'
  BY DEF Keeps, Honest, StatusHonest, Trees
<1>3. Owned'
  BY <1>1 DEF Keeps, Owned
<1>4. Flushed'
  BY <1>1 DEF Keeps, Flushed, Once
<1>5. Complete'
  BY DEF Keeps, Complete, Known, SelfContained, Finished, Records
<1> QED BY <1>2, <1>3, <1>4, <1>5 DEF Keeps

\* Steps that open and finish no file.
LEMMA EasyKeeps ==
  ASSUME Types, Keeps,
         \/ \E f \in Files : ReadEvents(f)
         \/ \E n \in 1 .. MaxEvents : ~Over' /\ BeamOn(n)
         \/ EndsLoop \/ (SigInt /\ ~sigint) \/ UNCHANGED vars
  PROVE  Keeps'
<1>1. pc \in {"macro", "loop"} => closed = {}
  BY DEF Keeps, Owned
<1>2. cut => sigint
  BY DEF Keeps, Honest
<1>3. ASSUME NEW f \in Files, ReadEvents(f)
      PROVE  Keeps'
  <2>1. /\ pc = "macro" /\ f \notin Opened /\ (Writers \subseteq Open \/ f # DefaultFile)
        /\ loop' = [from |-> f, todo |-> disk[f].events]
        /\ readTree' = IF disk[f].runT THEN f ELSE readTree
        /\ UNCHANGED <<disk, procs, main, deferred, closed, writeTree, cache, cut, sigint>>
    BY <1>3 DEF ReadEvents, block
  <2>2. Open' = Open /\ Opened' = Opened /\ Writers' = Writers /\ Listed' = Listed
    BY <2>1 DEF Open, Opened, Writers, Listed
  <2>3. disk[f].runs # <<>> => readTree' = f
    BY <2>1 DEF Keeps, Trees
  <2>4. Reading'
    BY <2>1, <2>2, <2>3 DEF Reading
  <2> QED BY <1>2, <2>1, <2>2, <2>4, SteadyKeeps
<1>4. ASSUME NEW n \in 1 .. MaxEvents, ~Over', BeamOn(n)
      PROVE  Keeps'
  <2>1. /\ pc = "macro" /\ loop'.from = Sim /\ DOMAIN cache \subseteq DOMAIN cache'
        /\ \A r \in DOMAIN cache' : cache'[r].written => r \in DOMAIN cache /\ cache[r].written
        /\ UNCHANGED <<disk, procs, main, deferred, closed, writeTree, cut, sigint>>
    BY <1>4, BeamOnFacts DEF block
  <2>2. Listed' = Listed
    BY <2>1 DEF Listed
  <2>3. Reading'
    BY <2>1, JobAssumption DEF Reading
  <2> QED BY <1>1, <1>2, <2>1, <2>2, <2>3, SteadyKeeps
<1>5. CASE EndLoop
  <2>1. /\ pc = "loop" /\ pc' = "macro"
        /\ cut' = (cut \/ loop.todo # <<>>)
        /\ (loop.todo = <<>> \/ sigint)
        /\ UNCHANGED <<disk, procs, main, deferred, closed, writeTree, cache, sigint>>
    BY <1>5 DEF EndLoop, block, StopLoop
  <2>2. Listed' = Listed /\ Reading'
    BY <2>1 DEF Listed, Reading
  <2> QED BY <1>2, <2>1, <2>2, SteadyKeeps
<1>6. CASE Quit
  <2>1. /\ pc' = "close"
        /\ UNCHANGED <<disk, procs, main, deferred, closed, writeTree, cache, cut, sigint>>
    BY <1>6 DEF Quit, memory
  <2>2. Listed' = Listed /\ Reading'
    BY <2>1 DEF Listed, Reading
  <2> QED BY <1>2, <2>1, <2>2, SteadyKeeps
<1>7. CASE (SigInt /\ ~sigint) \/ UNCHANGED vars
  <2>1. /\ UNCHANGED <<pc, disk, procs, main, deferred, closed, writeTree, cache, cut, loop,
                       readTree>>
        /\ sigint => sigint'
    BY <1>7 DEF SigInt, vars, memory, block, store
  <2>2. Open' = Open /\ Opened' = Opened /\ Writers' = Writers /\ Listed' = Listed
    BY <2>1 DEF Open, Opened, Writers, Listed
  <2>3. Reading'
    BY <2>1, <2>2 DEF Keeps, Reading
  <2> QED BY <1>2, <2>1, <2>2, <2>3, SteadyKeeps
<1> QED BY <1>3, <1>4, <1>5, <1>6, <1>7 DEF EndsLoop

\* A processor without a file comes.
LEMMA AddProcessorKeeps ==
  ASSUME Types, Keeps, NEW kind, NEW last \in BOOLEAN, AddProcessor(kind, last)
  PROVE  Keeps'
<1>1. /\ procs \in Seq(ProcRecord) /\ Len(procs) \in Nat /\ DOMAIN procs = 1 .. Len(procs)
      /\ main \in Seq(1 .. Len(procs)) /\ deferred \in Seq(1 .. Len(procs))
  BY DEF Types, ProcTypes
<1>2. /\ pc = "macro" /\ procs' = Append(procs, Processor(kind))
      /\ UNCHANGED <<disk, pc, closed, cache, writeTree, cut, sigint>>
  BY DEF AddProcessor, store
<1>3. /\ DOMAIN procs' = DOMAIN procs \cup {Len(procs')} /\ Len(procs') \notin DOMAIN procs
      /\ \A p \in DOMAIN procs : procs'[p] = procs[p]
      /\ procs'[Len(procs')] = Processor(kind)
  BY <1>1, <1>2
<1>4. /\ Processor(kind).file = None /\ Processor(kind).events = <<>>
      /\ Processor(kind).runs = <<>>
  BY DEF Processor
<1>5. Open' = Open /\ \A p \in Open : procs'[p] = procs[p]
  BY <1>3, <1>4 DEF Open
<1>6. Opened' = Opened
  BY <1>5 DEF Opened
<1>7. Listed' = Listed \cup {Len(procs')}
  <2>1. CASE last
    <3>1. deferred' = Append(deferred, Len(procs')) /\ main' = main
      BY <2>1 DEF AddProcessor
    <3>2. ToSet(deferred') = ToSet(deferred) \cup {Len(procs')}
      BY <1>1, <3>1, AppendSet
    <3> QED BY <3>1, <3>2 DEF Listed
  <2>2. CASE ~last
    <3>1. main' = Append(main, Len(procs')) /\ deferred' = deferred
      BY <2>2 DEF AddProcessor
    <3>2. ToSet(main') = ToSet(main) \cup {Len(procs')}
      BY <1>1, <3>1, AppendSet
    <3> QED BY <3>1, <3>2 DEF Listed
  <2> QED BY <2>1, <2>2
<1>8. closed = {} /\ DOMAIN procs \subseteq Listed
  BY <1>2 DEF Keeps, Owned
<1>9. Honest' /\ Trees'
  BY <1>2 DEF Keeps, Honest, StatusHonest, Trees
<1>10. Owned'
  <2>1. DOMAIN procs' \subseteq Listed'
    BY <1>3, <1>7, <1>8
  <2>2. \A p, q \in Open : procs'[p].file = procs'[q].file => p = q
    BY <1>5 DEF Keeps, Owned
  <2>3. Open # {} => writeTree' \in Open
    BY <1>2 DEF Keeps, Owned
  <2>4. \A p \in Open : procs'[p].file \notin closed => disk'[procs'[p].file].status = Crashed
    BY <1>2, <1>5 DEF Keeps, Owned
  <2>5. Open \subseteq Listed'
    BY <1>7, <1>8 DEF Open
  <2> QED BY <1>2, <1>5, <1>6, <1>8, <2>1, <2>2, <2>3, <2>4, <2>5 DEF Owned
<1>11. Flushed'
  <2>1. \A p \in DOMAIN procs' : procs'[p].runs = <<>>
    BY <1>3, <1>4, <1>8 DEF Keeps, Flushed
  <2> QED BY <1>2, <1>8, <2>1 DEF Keeps, Flushed
<1>12. Complete'
  <2>1. \A p \in DOMAIN procs' : Known(procs'[p].events, cache')
    <3>1. Known(<<>>, cache)
      BY DEF Known
    <3> QED BY <1>2, <1>3, <1>4, <3>1 DEF Keeps, Complete
  <2> QED BY <1>2, <2>1 DEF Keeps, Complete, SelfContained, Finished, Records
<1>13. Reading'
  BY <1>2 DEF Reading
<1> QED BY <1>9, <1>10, <1>11, <1>12, <1>13 DEF Keeps

\* A processor opens a file that no other has open.
LEMMA OpeningOwns ==
  ASSUME Types, Keeps, closed = {}, closed' = {}, NEW x \in DOMAIN procs, NEW f \in Files,
         f \notin Opened, x \notin Open,
         DOMAIN procs' = DOMAIN procs, procs'[x].file = f,
         \A q \in DOMAIN procs : q # x => procs'[q].file = procs[q].file,
         writeTree' = x, disk'[f].status = Crashed,
         \A g \in Files : g # f => disk'[g] = disk[g],
         DOMAIN procs \subseteq Listed, Listed \subseteq Listed'
  PROVE  Owned' /\ Open' = Open \cup {x} /\ Opened' = Opened \cup {f}
<1>1. f # None
  BY JobAssumption
<1>2. Open' = Open \cup {x}
  BY <1>1 DEF Open
<1>3. ASSUME NEW q \in Open PROVE q # x /\ procs'[q].file = procs[q].file /\ procs[q].file # f
  BY DEF Open, Opened
<1>4. Opened' = Opened \cup {f}
  BY <1>2, <1>3 DEF Opened
<1>5. ASSUME NEW p \in Open', NEW q \in Open', procs'[p].file = procs'[q].file
      PROVE  p = q
  BY <1>2, <1>3, <1>5 DEF Keeps, Owned
<1>6. ASSUME NEW p \in Open' PROVE disk'[procs'[p].file].status = Crashed
  <2>1. CASE p = x
    BY <2>1
  <2>2. CASE p # x
    <3>1. p \in Open /\ procs[p].file \in Files
      <4>1. p \in Open
        BY <1>2, <2>2
      <4>2. procs[p] \in ProcRecord
        BY <4>1 DEF Open, Types, ProcTypes
      <4> QED BY <4>1, <4>2 DEF Open, ProcRecord
    <3> QED BY <1>3, <3>1 DEF Keeps, Owned
  <2> QED BY <2>1, <2>2
<1>7. Open' \subseteq Listed' /\ DOMAIN procs' \subseteq Listed'
  BY <1>2 DEF Open
<1> QED BY <1>2, <1>4, <1>5, <1>6, <1>7 DEF Owned

\* A processor opens its file: a file is owned once and is not the one that is read.
LEMMA SetFileKeeps ==
  ASSUME Types, Keeps, NEW f \in Files, NEW update \in BOOLEAN, SetFile(f, update), ~Ends
  PROVE  Keeps'
<1> DEFINE x == Len(procs)
<1>1. /\ pc = "macro" /\ procs # <<>> /\ f \notin Opened /\ procs[x].file = None
      /\ OpenFile(x, f, update) /\ ~(update /\ UpdateFails(f))
      /\ UNCHANGED <<pc, job, run, main, deferred, seen, cache, readTree,
                     sigint, loop, loops, cut, closed>>
  BY DEF SetFile, Ends
<1>2. /\ procs \in Seq(ProcRecord) /\ DOMAIN procs = 1 .. Len(procs) /\ x \in DOMAIN procs
      /\ x \in 1 .. Len(procs)
  BY <1>1 DEF Types, ProcTypes
<1> HIDE DEF x
<1>3. /\ disk'[f].status = Crashed
      /\ \A g \in Files : g # f => disk'[g] = disk[g]
      /\ disk'[f].runs = IF update THEN disk[f].runs ELSE <<>>
      /\ disk'[f].runT = IF update THEN disk[f].runT ELSE FALSE
      /\ procs' \in Seq(ProcRecord) /\ Len(procs') = Len(procs)
      /\ procs'[x].file = f /\ procs'[x].runs = procs[x].runs
      /\ procs'[x].kind = procs[x].kind
      /\ \A i \in DOMAIN procs'[x].events : ~procs'[x].events[i].found
      /\ \A q \in 1 .. Len(procs) : q # x => procs'[q] = procs[q]
      /\ writeTree' = x
  <2>1. OpenFile(x, f, update) /\ x \in 1 .. Len(procs)
    BY <1>1, <1>2
  <2>2. /\ disk'[f].status = Crashed
        /\ \A g \in Files : g # f => disk'[g] = disk[g]
        /\ disk'[f].runs = IF update THEN disk[f].runs ELSE <<>>
        /\ disk'[f].runT = IF update THEN disk[f].runT ELSE FALSE
    BY <2>1, OpenFileTypes
  <2>3. /\ procs' \in Seq(ProcRecord) /\ Len(procs') = Len(procs)
        /\ procs'[x].file = f /\ procs'[x].runs = procs[x].runs
        /\ procs'[x].kind = procs[x].kind
        /\ writeTree' = x
    BY <2>1, OpenFileTypes
  <2>4. \A i \in DOMAIN procs'[x].events : ~procs'[x].events[i].found
    BY <2>1, OpenFileTypes
  <2>5. \A q \in 1 .. Len(procs) : q # x => procs'[q] = procs[q]
    BY <2>1, OpenFileTypes
  <2> QED BY <2>2, <2>3, <2>4, <2>5
<1>4. closed = {} /\ closed' = {} /\ DOMAIN procs \subseteq Listed /\ Listed' = Listed
  BY <1>1 DEF Keeps, Owned, Listed
<1>5. x \notin Open /\ DOMAIN procs' = DOMAIN procs
  BY <1>1, <1>2, <1>3 DEF Open
<1>6. Owned'
  BY <1>1, <1>2, <1>3, <1>4, <1>5, OpeningOwns
<1>7. Honest'
  <2>1. disk'[f].status # 1
    BY <1>3 DEF Crashed
  <2> QED BY <1>1, <1>3, <2>1 DEF Keeps, Honest, StatusHonest
<1>8. Trees'
  <2>1. disk'[f].runs = <<>>
    BY <1>1, <1>3 DEF Keeps, Trees, UpdateFails
  <2> QED BY <1>3, <2>1 DEF Keeps, Trees
<1>9. Flushed'
  <2>1. \A p \in DOMAIN procs' : procs'[p].runs = procs[p].runs
    BY <1>2, <1>3, <1>5
  <2> QED BY <1>1, <1>4, <1>5, <2>1 DEF Keeps, Flushed
<1>10. Complete'
  <2>1. \A p \in DOMAIN procs' : Known(procs'[p].events, cache')
    BY <1>1, <1>2, <1>3, <1>5 DEF Keeps, Complete, Known
  <2>2. SelfContained'
    <3> SUFFICES ASSUME NEW g \in Files, Finished(g)', disk'[g].alone
                 PROVE  \A e \in ToSet(disk'[g].events) : e.found => Records(g, e.run)' # {}
      BY DEF SelfContained
    <3>1. g # f
      BY <1>3 DEF Finished, Crashed
    <3>2. disk'[g] = disk[g]
      BY <1>3, <3>1
    <3> QED BY <3>2 DEF Keeps, Complete, SelfContained, Finished, Records
  <2> QED BY <2>1, <2>2 DEF Complete
<1>11. Reading'
  BY <1>1 DEF Reading
<1> QED BY <1>6, <1>7, <1>8, <1>9, <1>10, <1>11 DEF Keeps

\* An event is written to the files of some processors.
LEMMA EventKeeps ==
  ASSUME Types, Keeps, Event, ~Ends
  PROVE  Keeps'
<1>1. ~Over'
  BY DEF Event, Ends, Over
<1> DEFINE e == Head(loop.todo)
<1>2. /\ pc = "loop" /\ pc' = pc /\ e \in EventRecord
      /\ DOMAIN cache \subseteq DOMAIN cache'
      /\ \A r \in DOMAIN cache' : cache'[r].written => r \in DOMAIN cache /\ cache[r].written
      /\ loop'.from = loop.from /\ Listed \subseteq Listed'
      /\ (cut' => cut \/ sigint)
      /\ UNCHANGED <<readTree, sigint, closed>>
  BY <1>1, EventFacts
<1>3. PICK ps \in SUBSET Writers : Fill(ps, cache', e)
  BY <1>1, EventFacts
<1> HIDE DEF e
<1>4. /\ procs' \in Seq(ProcRecord) /\ Len(procs') = Len(procs)
      /\ \A q \in 1 .. Len(procs) :
           /\ procs'[q].kind = procs[q].kind /\ procs'[q].runs = procs[q].runs
           /\ Known(procs[q].events, cache') => Known(procs'[q].events, cache')
  BY <1>2, <1>3, FillFacts
<1>5. \/ /\ disk' = disk /\ writeTree' = writeTree
         /\ \A q \in 1 .. Len(procs) : procs'[q].file = procs[q].file
      \/ \E x \in Writers :
           /\ x \notin Open /\ DefaultFile \notin Opened
           /\ disk' = [disk EXCEPT ![DefaultFile] = NewFile] /\ writeTree' = x
           /\ procs'[x].file = DefaultFile
           /\ \A q \in 1 .. Len(procs) : q # x => procs'[q].file = procs[q].file
  BY <1>2, <1>3, FillFacts
<1>6. /\ DOMAIN procs = 1 .. Len(procs) /\ DOMAIN procs' = DOMAIN procs
      /\ disk \in [Files -> FileRecord] /\ DefaultFile \in Files
  BY <1>4, JobAssumption DEF Types, ProcTypes
<1>7. closed = {} /\ closed' = {} /\ DOMAIN procs \subseteq Listed
  BY <1>2 DEF Keeps, Owned
<1>8. Flushed'
  <2>1. \A p \in DOMAIN procs' : procs'[p].runs = <<>>
    BY <1>4, <1>6, <1>7 DEF Keeps, Flushed
  <2>2. \A r \in DOMAIN cache' : ~cache'[r].written
    BY <1>2, <1>7 DEF Keeps, Flushed
  <2> QED BY <1>7, <2>1, <2>2 DEF Flushed
<1>9. \A p \in DOMAIN procs' : Known(procs'[p].events, cache')
  <2> SUFFICES ASSUME NEW p \in DOMAIN procs' PROVE Known(procs'[p].events, cache')
    OBVIOUS
  <2>1. Known(procs[p].events, cache)
    BY <1>6 DEF Keeps, Complete
  <2>2. Known(procs[p].events, cache')
    BY <1>2, <2>1 DEF Known
  <2> QED BY <1>4, <1>6, <2>2
<1>10. Writers' = Writers
  BY <1>4, <1>6 DEF Writers
<1>11. cut' => sigint'
  BY <1>2 DEF Keeps, Honest
<1>12. CASE /\ disk' = disk /\ writeTree' = writeTree
            /\ \A q \in 1 .. Len(procs) : procs'[q].file = procs[q].file
  <2>1. Open' = Open
    BY <1>6, <1>12 DEF Open
  <2>2. Opened' = Opened
    BY <1>6, <1>12, <2>1 DEF Open, Opened
  <2>3. \A p \in Open : procs'[p].file = procs[p].file
    BY <1>6, <1>12 DEF Open
  <2>4. Honest' /\ Trees'
    BY <1>11, <1>12 DEF Keeps, Honest, StatusHonest, Trees
  <2>5. Owned'
    <3>1. \A p, q \in Open : procs'[p].file = procs'[q].file => p = q
      BY <2>3 DEF Keeps, Owned
    <3>2. Open # {} => writeTree' \in Open
      BY <1>12 DEF Keeps, Owned
    <3>3. \A p \in Open : disk'[procs'[p].file].status = Crashed
      BY <1>7, <1>12, <2>3 DEF Keeps, Owned
    <3>4. Open \subseteq Listed' /\ DOMAIN procs' \subseteq Listed'
      BY <1>2, <1>6, <1>7 DEF Open
    <3> QED BY <1>7, <2>1, <2>2, <3>1, <3>2, <3>3, <3>4 DEF Owned
  <2>6. Complete'
    BY <1>9, <1>12 DEF Keeps, Complete, SelfContained, Finished, Records
  <2>7. Reading'
    BY <1>2, <1>10, <1>12, <2>1, <2>2 DEF Keeps, Reading
  <2> QED BY <1>8, <2>4, <2>5, <2>6, <2>7 DEF Keeps
<1>13. CASE \E x \in Writers :
              /\ x \notin Open /\ DefaultFile \notin Opened
              /\ disk' = [disk EXCEPT ![DefaultFile] = NewFile] /\ writeTree' = x
              /\ procs'[x].file = DefaultFile
              /\ \A q \in 1 .. Len(procs) : q # x => procs'[q].file = procs[q].file
  <2>1. PICK x \in Writers :
              /\ x \notin Open /\ DefaultFile \notin Opened
              /\ disk' = [disk EXCEPT ![DefaultFile] = NewFile] /\ writeTree' = x
              /\ procs'[x].file = DefaultFile
              /\ \A q \in 1 .. Len(procs) : q # x => procs'[q].file = procs[q].file
    BY <1>13
  <2>2. x \in DOMAIN procs
    BY DEF Writers
  <2>3. /\ disk'[DefaultFile] = NewFile
        /\ \A g \in Files : g # DefaultFile => disk'[g] = disk[g]
    BY <1>6, <2>1
  <2>4. disk'[DefaultFile].status = Crashed
    BY <2>3, NewFileFacts
  <2>5. Owned' /\ Open' = Open \cup {x} /\ Opened' = Opened \cup {DefaultFile}
    BY <1>2, <1>6, <1>7, <2>1, <2>2, <2>3, <2>4, OpeningOwns
  <2>6. Honest'
    <3>1. disk'[DefaultFile].status # 1
      BY <2>4 DEF Crashed
    <3> QED BY <1>11, <2>3, <3>1 DEF Keeps, Honest, StatusHonest
  <2>7. Trees'
    BY <2>3, NewFileFacts DEF Keeps, Trees
  <2>8. Complete'
    <3>1. SelfContained'
      <4> SUFFICES ASSUME NEW g \in Files, Finished(g)', disk'[g].alone
                   PROVE  \A d \in ToSet(disk'[g].events) : d.found => Records(g, d.run)' # {}
        BY DEF SelfContained
      <4>1. g # DefaultFile
        BY <2>4 DEF Finished, Crashed
      <4>2. disk'[g] = disk[g]
        BY <2>3, <4>1
      <4> QED BY <4>2 DEF Keeps, Complete, SelfContained, Finished, Records
    <3> QED BY <1>9, <3>1 DEF Complete
  <2>9. Reading'
    <3> SUFFICES ASSUME loop.from \in Files
                 PROVE  /\ loop.from \notin Opened' /\ loop.from # DefaultFile
                        /\ disk'[loop.from].runs # <<>> => readTree = loop.from
      BY <1>2 DEF Reading
    <3>1. /\ loop.from \notin Opened /\ loop.from # DefaultFile
          /\ disk[loop.from].runs # <<>> => readTree = loop.from
      BY <1>2, <2>1 DEF Keeps, Reading
    <3> QED BY <2>3, <2>5, <3>1
  <2> QED BY <1>8, <2>5, <2>6, <2>7, <2>8, <2>9 DEF Keeps
<1> QED BY <1>5, <1>12, <1>13

\* Events reach the disk before the file is finished.
LEMMA AutoSaveKeeps ==
  ASSUME Types, Keeps, NEW p \in DOMAIN procs, AutoSave(p)
  PROVE  Keeps'
<1> DEFINE f == procs[p].file
<1>1. /\ pc = "loop" /\ p \in Open
      /\ disk' = [disk EXCEPT ![f] = [disk[f] EXCEPT !.events = procs[p].events]]
      /\ UNCHANGED <<pc, procs, main, deferred, cache, readTree, writeTree, sigint, loop, cut,
                     closed>>
  BY DEF AutoSave, memory
<1>2. procs[p] \in ProcRecord /\ disk \in [Files -> FileRecord]
  BY DEF Types, ProcTypes
<1>3. f \in Files
  BY <1>1, <1>2 DEF Open, ProcRecord
<1>4. disk[f] \in FileRecord
  BY <1>2, <1>3
<1> HIDE DEF f
<1>5. /\ disk'[f].status = disk[f].status /\ disk'[f].runs = disk[f].runs
      /\ disk'[f].runT = disk[f].runT /\ disk'[f].cut = disk[f].cut
      /\ \A g \in Files : g # f => disk'[g] = disk[g]
  BY <1>1, <1>2, <1>3, <1>4 DEF FileRecord
<1>6. closed = {} /\ disk[f].status = Crashed
  BY <1>1 DEF Keeps, Owned, f
<1>7. Open' = Open /\ Opened' = Opened /\ Writers' = Writers /\ Listed' = Listed
  BY <1>1 DEF Open, Opened, Writers, Listed
<1>8. \A g \in Files : /\ disk'[g].status = disk[g].status /\ disk'[g].runs = disk[g].runs
                       /\ disk'[g].runT = disk[g].runT /\ disk'[g].cut = disk[g].cut
  BY <1>5
<1>9. Honest' /\ Trees'
  BY <1>1, <1>8 DEF Keeps, Honest, StatusHonest, Trees
<1>10. Owned'
  <2>1. \A q \in Open : disk'[procs[q].file].status = Crashed
    <3> SUFFICES ASSUME NEW q \in Open PROVE disk'[procs[q].file].status = Crashed
      OBVIOUS
    <3>1. procs[q] \in ProcRecord
      BY DEF Open, Types, ProcTypes
    <3>2. procs[q].file \in Files
      BY <3>1 DEF Open, ProcRecord
    <3> QED BY <1>6, <1>8, <3>2 DEF Keeps, Owned
  <2> QED BY <1>1, <1>6, <1>7, <2>1 DEF Keeps, Owned
<1>11. Flushed'
  BY <1>1, <1>6 DEF Keeps, Flushed
<1>12. Complete'
  <2>1. SelfContained'
    <3> SUFFICES ASSUME NEW g \in Files, Finished(g)', disk'[g].alone
                 PROVE  \A e \in ToSet(disk'[g].events) : e.found => Records(g, e.run)' # {}
      BY DEF SelfContained
    <3>1. g # f
      BY <1>5, <1>6 DEF Finished, Crashed
    <3>2. disk'[g] = disk[g]
      BY <1>5, <3>1
    <3> QED BY <3>2 DEF Keeps, Complete, SelfContained, Finished, Records
  <2> QED BY <1>1, <2>1 DEF Keeps, Complete
<1>13. Reading'
  BY <1>1, <1>7, <1>8 DEF Keeps, Reading
<1> QED BY <1>9, <1>10, <1>11, <1>12, <1>13 DEF Keeps

\* A processor is deleted: the records go to the write tree, what the processor
\* has goes to disk.
LEMMA DeleteKeeps ==
  ASSUME Types, Keeps, Delete
  PROVE  Keeps'
<1>1. PICK p \in 1 .. Len(procs) :
        /\ Listed \ {p} \subseteq Listed'
        /\ \/ p \notin Open /\ UNCHANGED <<disk, procs, cache, closed>>
           \/ /\ p \in Open /\ procs' = FlushWriteTree /\ cache' = MarkWritten
              /\ disk' = [disk EXCEPT ![procs[p].file] =
                   [events |-> procs[p].events, runs |-> procs'[p].runs,
                    runT |-> TRUE, status |-> Status, cut |-> cut,
                    alone |-> Cardinality(Open) = 1]]
              /\ closed' = closed \cup {procs[p].file}
  BY DeleteFacts
<1>2. /\ pc = "close" /\ pc' = pc
      /\ UNCHANGED <<readTree, writeTree, sigint, loop, cut>>
  BY DeleteFacts
<1>3. Reading'
  BY <1>2 DEF Reading
<1>4. CASE p \notin Open /\ UNCHANGED <<disk, procs, cache, closed>>
  <2>1. Open' = Open /\ Opened' = Opened
    BY <1>4 DEF Open, Opened
  <2>2. \A q \in Open : q \in Listed' \/ procs[q].file \in closed
    BY <1>1, <1>4 DEF Keeps, Owned
  <2>3. Owned'
    BY <1>2, <1>4, <2>1, <2>2 DEF Keeps, Owned
  <2>4. Honest' /\ Trees' /\ Complete'
    BY <1>2, <1>4 DEF Keeps, Honest, StatusHonest, Trees, Complete, Known, SelfContained,
       Finished, Records
  <2>5. Flushed'
    BY <1>2, <1>4, <2>1 DEF Keeps, Flushed, Once
  <2> QED BY <1>3, <2>3, <2>4, <2>5 DEF Keeps
<1>5. CASE /\ p \in Open /\ procs' = FlushWriteTree /\ cache' = MarkWritten
           /\ disk' = [disk EXCEPT ![procs[p].file] =
                [events |-> procs[p].events, runs |-> procs'[p].runs,
                 runT |-> TRUE, status |-> Status, cut |-> cut,
                 alone |-> Cardinality(Open) = 1]]
           /\ closed' = closed \cup {procs[p].file}
  <2> DEFINE f == procs[p].file
  <2>1. /\ DOMAIN procs = 1 .. Len(procs) /\ DOMAIN procs' = DOMAIN procs
        /\ procs \in Seq(ProcRecord) /\ Len(procs) \in Nat
        /\ \A q \in DOMAIN procs :
             /\ procs'[q].file = procs[q].file /\ procs'[q].events = procs[q].events
             /\ q # writeTree => procs'[q].runs = procs[q].runs
    <3>1. procs \in Seq(ProcRecord) /\ DOMAIN procs = 1 .. Len(procs) /\ Len(procs) \in Nat
      BY DEF Types, ProcTypes
    <3>2. procs' \in Seq(ProcRecord) /\ Len(procs') = Len(procs)
      BY <1>5, FlushFacts
    <3>3. \A q \in 1 .. Len(procs) :
             /\ procs'[q].file = procs[q].file /\ procs'[q].events = procs[q].events
             /\ q # writeTree => procs'[q] = procs[q]
      BY <1>5, FlushFacts
    <3> QED BY <3>1, <3>2, <3>3
  <2>2. writeTree \in Open /\ writeTree \in DOMAIN procs /\ writeTree # 0
    BY <1>5, <2>1 DEF Keeps, Owned, Open
  <2>3. procs'[writeTree].runs = procs[writeTree].runs \o NewRecords
    BY <1>5, <2>2, FlushFacts
  <2>4. procs[writeTree] \in ProcRecord /\ procs[p] \in ProcRecord
    BY <1>5, <2>1, <2>2
  <2>5. procs[writeTree].runs \in Seq(Record) /\ f \in Files
    BY <1>5, <2>4 DEF ProcRecord, Open
  <2> HIDE DEF f
  <2>6. /\ disk'[f].events = procs[p].events /\ disk'[f].runs = procs'[p].runs
        /\ disk'[f].runT = TRUE /\ disk'[f].status = Status /\ disk'[f].cut = cut
        /\ disk'[f].alone => Cardinality(Open) = 1
        /\ \A g \in Files : g # f => disk'[g] = disk[g]
        /\ closed' = closed \cup {f}
    BY <1>5, <2>5 DEF Types, f
  <2>7. Open' = Open
    BY <2>1 DEF Open
  <2>8. Opened' = Opened /\ f \in Opened
    BY <1>5, <2>1, <2>7 DEF Opened, Open, f
  <2>9. /\ DOMAIN cache' = DOMAIN cache
        /\ \A r \in DOMAIN cache' : cache'[r].written
    BY <1>5, MarkFacts DEF Types
  <2>10. ASSUME NEW q \in Open, q # p PROVE procs[q].file # f
    BY <1>5, <2>10 DEF Keeps, Owned, f
  <2>11. ASSUME NEW q \in Open PROVE procs[q].file \in Files /\ q \in DOMAIN procs
    <3>1. procs[q] \in ProcRecord
      BY DEF Open, Types, ProcTypes
    <3> QED BY <3>1 DEF Open, ProcRecord
  <2>12. Honest'
    <3>1. Status = 1 => ~cut
      BY DEF Keeps, Honest, Status
    <3> QED BY <1>2, <2>6, <3>1 DEF Keeps, Honest, StatusHonest
  <2>13. Trees'
    BY <2>6 DEF Keeps, Trees
  <2>14. Owned'
    <3>1. \A q, u \in Open' : procs'[q].file = procs'[u].file => q = u
      BY <2>1, <2>7, <2>11 DEF Keeps, Owned
    <3>2. closed' \subseteq Opened'
      BY <2>6, <2>8 DEF Keeps, Owned
    <3>3. ASSUME NEW q \in Open', procs'[q].file \notin closed'
          PROVE  disk'[procs'[q].file].status = Crashed
      BY <2>1, <2>6, <2>7, <2>11, <3>3 DEF Keeps, Owned
    <3>4. ASSUME NEW q \in Open' PROVE q \in Listed' \/ procs'[q].file \in closed'
      <4>1. CASE q = p
        BY <1>5, <2>1, <2>6, <4>1, <2>11 DEF f
      <4>2. CASE q # p
        <5>1. q \in Listed \/ procs[q].file \in closed
          BY <2>7 DEF Keeps, Owned
        <5>2. procs'[q].file = procs[q].file
          BY <2>1, <2>7, <2>11
        <5> QED BY <1>1, <2>6, <4>2, <5>1, <5>2
      <4> QED BY <4>1, <4>2
    <3> QED BY <1>2, <2>2, <2>7, <3>1, <3>2, <3>3, <3>4 DEF Owned
  <2>15. /\ Once(procs'[writeTree].runs)
         /\ closed # {} => procs'[writeTree].runs = procs[writeTree].runs
         /\ closed = {} => procs'[writeTree].runs = NewRecords
    <3>1. CASE closed = {}
      <4>1. procs[writeTree].runs = <<>> /\ \A r \in DOMAIN cache : ~cache[r].written
        BY <2>2, <3>1 DEF Keeps, Flushed
      <4>2. NewRecords \in Seq(Record) /\ Once(NewRecords)
        BY <4>1, NewRecordsFacts
      <4>3. procs'[writeTree].runs = NewRecords
        BY <2>3, <4>1, <4>2
      <4> QED BY <3>1, <4>2, <4>3
    <3>2. CASE closed # {}
      <4>1. Once(procs[writeTree].runs) /\ \A r \in DOMAIN cache : cache[r].written
        BY <3>2 DEF Keeps, Flushed
      <4>2. NewRecords = <<>>
        BY <4>1, NewRecordsFacts
      <4>3. procs'[writeTree].runs = procs[writeTree].runs
        BY <2>3, <2>5, <4>2
      <4> QED BY <3>2, <4>1, <4>3
    <3> QED BY <3>1, <3>2
  <2>16. Flushed'
    <3>1. closed' # {}
      BY <2>6
    <3>2. ASSUME NEW q \in Open', q # writeTree' PROVE procs'[q].runs = <<>>
      <4>1. procs[q].runs = <<>>
        BY <1>2, <2>7, <2>11, <3>2 DEF Keeps, Flushed
      <4> QED BY <1>2, <2>1, <2>7, <2>11, <3>2, <4>1
    <3>3. ASSUME NEW q \in Open', procs'[q].file \in closed'
          PROVE  disk'[procs'[q].file].runs = procs'[q].runs
      <4>1. CASE q = p
        BY <1>5, <2>1, <2>6, <2>11, <4>1 DEF f
      <4>2. CASE q # p
        <5>1. procs'[q].file = procs[q].file /\ procs[q].file # f /\ procs[q].file \in Files
          BY <2>1, <2>7, <2>10, <2>11, <4>2
        <5>2. procs[q].file \in closed /\ disk'[procs[q].file] = disk[procs[q].file]
          BY <2>6, <3>3, <5>1
        <5>3. disk[procs[q].file].runs = procs[q].runs
          BY <2>7, <5>2 DEF Keeps, Flushed
        <5>4. procs'[q].runs = procs[q].runs
          BY <2>1, <2>7, <2>11, <2>15, <5>2
        <5> QED BY <5>1, <5>2, <5>3, <5>4
      <4> QED BY <4>1, <4>2
    <3>4. Once(procs[writeTree].runs)'
      BY <1>2, <2>9, <2>15 DEF Once
    <3> QED BY <1>2, <2>9, <3>1, <3>2, <3>3, <3>4 DEF Flushed
  <2>17. Complete'
    <3>1. \A q \in DOMAIN procs' : Known(procs'[q].events, cache')
      BY <2>1, <2>9 DEF Keeps, Complete, Known
    <3>2. ASSUME disk'[f].alone, NEW d \in ToSet(disk'[f].events), d.found
          PROVE  \E rec \in ToSet(disk'[f].runs) : rec.run = d.run
      <4>1. IsFiniteSet(Open)
        <5>1. Open \subseteq 1 .. Len(procs) /\ IsFiniteSet(1 .. Len(procs))
          BY <2>1, FS_Interval DEF Open
        <5> QED BY <5>1, FS_Subset
      <4>2. PICK x : Open = {x}
        <5>1. Cardinality(Open) <= 1 /\ Open # {}
          BY <1>5, <2>6, <3>2
        <5> QED BY <4>1, <5>1, AtMostOne
      <4>3. p = writeTree
        BY <1>5, <2>2, <4>2
      <4>4. PICK i \in DOMAIN procs[p].events : d = procs[p].events[i]
        BY <2>6, <3>2 DEF ToSet
      <4>5. d.run \in DOMAIN cache
        BY <2>1, <3>2, <4>4 DEF Keeps, Complete, Known
      <4>6. PICK j \in DOMAIN procs'[p].runs : procs'[p].runs[j].run = d.run
        BY <2>15, <4>3, <4>5 DEF Once
      <4>7. procs'[p].runs[j] \in ToSet(disk'[f].runs)
        BY <2>6, <4>6 DEF ToSet
      <4> QED BY <4>6, <4>7
    <3>3. SelfContained'
      <4> SUFFICES ASSUME NEW g \in Files, Finished(g)', disk'[g].alone
                   PROVE  \A d \in ToSet(disk'[g].events) : d.found => Records(g, d.run)' # {}
        BY DEF SelfContained
      <4>1. CASE g = f
        BY <3>2, <4>1 DEF Records
      <4>2. CASE g # f
        <5>1. disk'[g] = disk[g]
          BY <2>6, <4>2
        <5> QED BY <5>1 DEF Keeps, Complete, SelfContained, Finished, Records
      <4> QED BY <4>1, <4>2
    <3> QED BY <3>1, <3>3 DEF Complete
  <2> QED BY <1>3, <2>12, <2>13, <2>14, <2>16, <2>17 DEF Keeps
<1> QED BY <1>1, <1>4, <1>5

\* Every step keeps the invariant.
LEMMA NextKeeps ==
  ASSUME Types, Keeps, [Next]_vars
  PROVE  Keeps'
<1>1. CASE Ends
  <2>1. Fresh(run) /\ disk' = disk
    BY <1>1 DEF Ends, Crash
  <2> QED BY <2>1, FreshKeeps
<1>2. CASE StartJob
  <2>1. PICK r \in Runs : Fresh(r) /\ disk' = disk
    BY <1>2 DEF StartJob
  <2> QED BY <2>1, FreshKeeps
<1>3. ASSUME NEW n \in 1 .. MaxEvents, BeamOn(n), ~Ends PROVE ~Over'
  BY <1>3 DEF BeamOn, Ends, Over
<1>4. CASE ~Ends /\ ~StartJob
  BY <1>3, <1>4, NextCases, AddProcessorKeeps, SetFileKeeps, EasyKeeps, EventKeeps,
     DeleteKeeps, AutoSaveKeeps
<1> QED BY <1>1, <1>2, <1>4

\* The invariant holds throughout.
LEMMA KeepsHolds == Spec => []Keeps
<1>1. Init => Keeps
  <2> SUFFICES ASSUME Init PROVE Keeps
    OBVIOUS
  <2>1. /\ procs = <<>> /\ cache = <<>> /\ closed = {} /\ cut = FALSE /\ pc = "down"
        /\ DOMAIN procs = {} /\ DOMAIN cache = {}
        /\ \A f \in Files : disk[f] = NoFile
    BY DEF Init
  <2>2. Open = {} /\ Opened = {}
    BY <2>1 DEF Open, Opened
  <2>3. Honest /\ Trees /\ Complete
    BY <2>1 DEF Honest, StatusHonest, Trees, Complete, SelfContained, Finished, NoFile
  <2>4. Owned /\ Flushed /\ Reading
    BY <2>1, <2>2 DEF Owned, Flushed, Reading
  <2> QED BY <2>3, <2>4 DEF Keeps
<1> QED BY <1>1, NextKeeps, TypesHold, PTL DEF Spec

\* Status 1 means that no loop of the job was cut short.
THEOREM StatusHonestAlways == Spec => []StatusHonest
<1>1. Keeps => StatusHonest
  BY DEF Keeps, Honest
<1> QED BY <1>1, KeepsHolds, PTL

\* A file that is the only one of its job has the records of its events.
THEOREM SelfContainedAlways == Spec => []SelfContained
<1>1. Keeps => SelfContained
  BY DEF Keeps, Complete
<1> QED BY <1>1, KeepsHolds, PTL

\* Every run record of a job is in its files once, when all are finished.
THEOREM RecordsWrittenOnceAlways == Spec => []RecordsWrittenOnce
<1>1. Types /\ Keeps => RecordsWrittenOnce
  <2> SUFFICES ASSUME Types, Keeps, pc = "close", main = <<>>, deferred = <<>>, closed # {},
                      NEW r \in DOMAIN cache
               PROVE  Cardinality(Places(r)) = 1
    BY DEF RecordsWrittenOnce
  <2>1. Listed = {}
    BY DEF Listed, ToSet
  <2>2. \A p \in Open : procs[p].file \in closed
    BY <2>1 DEF Keeps, Owned
  <2>3. writeTree \in Open
    BY DEF Keeps, Owned, Opened
  <2> DEFINE f == procs[writeTree].file
  <2>4. disk[f].runs = procs[writeTree].runs /\ Once(disk[f].runs) /\ f \in closed
    BY <2>2, <2>3 DEF Keeps, Flushed
  <2>5. PICK i \in DOMAIN disk[f].runs :
          /\ disk[f].runs[i].run = r
          /\ \A j \in DOMAIN disk[f].runs : disk[f].runs[j].run = r => j = i
    BY <2>4 DEF Once
  <2>6. ASSUME NEW g \in closed, g # f PROVE DOMAIN disk[g].runs = {}
    <3>1. PICK p \in Open : procs[p].file = g
      BY DEF Keeps, Owned, Opened
    <3>2. disk[g].runs = procs[p].runs /\ p # writeTree
      BY <2>6, <3>1 DEF Keeps, Flushed
    <3>3. disk[g].runs = <<>>
      BY <3>1, <3>2 DEF Keeps, Flushed
    <3> QED BY <3>3
  <2> HIDE DEF f
  <2>7. Places(r) = {<<f, i>>}
    <3>1. {j \in DOMAIN disk[f].runs : disk[f].runs[j].run = r} = {i}
      BY <2>5
    <3>2. \A g \in closed : g # f => {j \in DOMAIN disk[g].runs : disk[g].runs[j].run = r} = {}
      BY <2>6
    <3> QED BY <2>4, <3>1, <3>2 DEF Places
  <2> QED BY <2>7, FS_Singleton
<1> QED BY <1>1, KeepsHolds, TypesHold, PTL

\* The record of an event follows it from the file it is read from.
THEOREM RecordFollowsAlways == Spec => RecordFollows
<1> DEFINE Step == pc = "loop" /\ loop.from \in Files /\ Len(loop'.todo) < Len(loop.todo)
                     /\ loop'.from = loop.from /\ Records(loop.from, Head(loop.todo).run) # {}
                   => Head(loop.todo).run \in DOMAIN cache'
<1>1. Types /\ Keeps /\ [Next]_vars => [Step]_vars
  <2> SUFFICES ASSUME Types, Keeps, [Next]_vars, pc = "loop", loop.from \in Files,
                      Len(loop'.todo) < Len(loop.todo), loop'.from = loop.from,
                      Records(loop.from, Head(loop.todo).run) # {}
               PROVE  Head(loop.todo).run \in DOMAIN cache'
    OBVIOUS
  <2>1. ~Ends /\ ~StartJob
    <3>1. \A r : Fresh(r) => loop'.from = None
      BY DEF Fresh
    <3> QED BY <3>1, JobAssumption DEF Ends, Crash, StartJob
  <2>2. Len(loop.todo) \in Nat
    BY DEF Types, LoopRecord
  <2>3. loop' # loop
    BY <2>2
  <2>4. ~EndLoop
    BY JobAssumption DEF EndLoop
  <2>5. Event /\ ~Ends
    BY <2>1, <2>3, <2>4, NextCases DEF AddProcessor, SetFile, BeamOn, ReadEvents, EndsLoop,
       Quit, Delete, SigInt, AutoSave, memory, vars
  <2>6. ~Over'
    BY <2>5 DEF Event, Ends, Over
  <2>7. disk[loop.from].runs # <<>>
    BY DEF Records, ToSet
  <2>8. readTree = loop.from
    BY <2>7 DEF Keeps, Reading
  <2> QED BY <2>5, <2>6, <2>8, EventFacts
<1> QED BY <1>1, KeepsHolds, TypesHold, PTL DEF Spec, RecordFollows

=============================================================================
