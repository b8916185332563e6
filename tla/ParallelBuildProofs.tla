------------------------ MODULE ParallelBuildProofs ------------------------
(***************************************************************************)
(* Proofs about ParallelBuild, for any builds and any number of workers.   *)
(* The main thread's count of tasks is right, whatever the walk over the   *)
(* graph does; the counts of the nodes are right, if no command's side     *)
(* effect is a target or a dependency (WrittenOnly); and orderly builds    *)
(* implement BuildOrder, forget no node and report no cycle without cause. *)
(* At the end: what any build that keeps BuildOrder has.                   *)
(***************************************************************************)
EXTENDS ParallelBuild, TaskmasterProofs

IsQueue(s) == \E S : s \in Seq(S)
Workings == {x \in Worker : Working(x)}

\* Only a worker that fetches is about to delete scans.
Resets ==
  /\ resetting = [x \in Thread |-> resetting[x]]
  /\ \A x \in Thread : resetting[x] # None => Is(x, "fetch") /\ ~build.serial
  /\ Working(None) => build.serial

\* Besides Accounted: no sentinel is in the queue before the end; the main
\* thread executes a task only where it does nothing else; it hands out a task
\* only when it waits for fewer than it may.
CountInv ==
  /\ IsQueue(requestQueue) /\ IsQueue(resultsQueue)
  /\ jobs \in 0 .. MaxJobs
  /\ worker = [x \in Thread |-> worker[x]]
  /\ pc # "end" => \A i \in 1 .. Len(requestQueue) : ~requestQueue[i].quit
  /\ pc = "dispatch" => jobs < MaxJobs
  /\ pc = "execute" => jobs < MaxJobs
  /\ Working(None) => pc = "execute"
  /\ pc = "cleanup" => jobs = 0
  /\ Accounted /\ Resets /\ (looked # None => pc = "dispatch")

-----------------------------------------------------------------------------
(* Sequences and the set of working threads.                               *)

\* What Append does to the length and the entries.
LEMMA AppendFacts ==
  ASSUME NEW s, IsQueue(s), NEW e
  PROVE  /\ IsQueue(Append(s, e))
         /\ Len(Append(s, e)) = Len(s) + 1
         /\ \A i \in 1 .. Len(s) : Append(s, e)[i] = s[i]
         /\ Append(s, e)[Len(s) + 1] = e
<1>1. PICK S : s \in Seq(S)
  BY DEF IsQueue
<1>2. s \in Seq(S \cup {e}) /\ e \in S \cup {e}
  BY <1>1
<1>3. Append(s, e) \in Seq(S \cup {e})
  BY <1>2
<1> QED BY <1>2, <1>3 DEF IsQueue

\* What Tail does to the length and the entries.
LEMMA TailFacts ==
  ASSUME NEW s, IsQueue(s), s # <<>>
  PROVE  /\ IsQueue(Tail(s))
         /\ Len(s) \in Nat /\ Len(s) > 0
         /\ Len(Tail(s)) = Len(s) - 1
         /\ Head(s) = s[1]
         /\ \A i \in 1 .. Len(s) - 1 : Tail(s)[i] = s[i + 1]
<1>1. PICK S : s \in Seq(S)
  BY DEF IsQueue
<1> QED BY <1>1 DEF IsQueue

\* The length is a natural number; only the empty sequence has length 0.
LEMMA LenFacts ==
  ASSUME NEW s, IsQueue(s)
  PROVE  /\ Len(s) \in Nat /\ DOMAIN s = 1 .. Len(s)
         /\ Len(s) = 0 => s = <<>>
         /\ s = <<>> => Len(s) = 0
BY DEF IsQueue

\* The workers that have a task are finitely many.
LEMMA WorkingsFinite ==
  /\ IsFiniteSet(Workings) /\ Cardinality(Workings) \in Nat
  /\ Cardinality(Workings) = 0 => Workings = {}
<1>1. Workings \in SUBSET Worker
  BY DEF Workings
<1>2. IsFiniteSet(Workings)
  BY <1>1, FS_Subset, WorkerAssumption
<1> QED BY <1>2, FS_CardinalityType, FS_EmptySet

\* The number of workers is a positive number.
LEMMA MaxJobsType == MaxJobs \in Nat /\ MaxJobs > 0
BY WorkerAssumption, FS_CardinalityType, FS_EmptySet DEF MaxJobs

\* A worker that takes a task makes one more of the working.
LEMMA StartsWorking ==
  ASSUME NEW x \in Worker, ~Working(x), Working(x)',
         \A y \in Worker : y # x => worker'[y] = worker[y]
  PROVE  Cardinality(Workings') = Cardinality(Workings) + 1
<1>1. Workings' = Workings \cup {x} /\ x \notin Workings
  BY DEF Workings, Working
<1> QED BY <1>1, FS_AddElement, WorkingsFinite

\* A worker that reports its task makes one less.
LEMMA StopsWorking ==
  ASSUME NEW x \in Worker, Working(x), ~Working(x)',
         \A y \in Worker : y # x => worker'[y] = worker[y]
  PROVE  Cardinality(Workings') = Cardinality(Workings) - 1
<1>1. Workings' = Workings \ {x} /\ x \in Workings
  BY DEF Workings, Working
<1> QED BY <1>1, FS_RemoveElement, WorkingsFinite

-----------------------------------------------------------------------------
(* The steps of the main thread.                                           *)

\* A build starts with nothing handed out.
LEMMA InitCount == Init => CountInv
<1> SUFFICES ASSUME Init PROVE CountInv
  OBVIOUS
<1>1. IsQueue(<<>>) /\ Len(<<>>) = 0
  <2>1. <<>> \in Seq({})
    OBVIOUS
  <2> QED BY <2>1 DEF IsQueue
<1>2. Workings = {} /\ ~Working(None)
  BY DEF Init, Workings, Working, Thread, Idle, Gone, Doing
<1>3. Cardinality({x \in Worker : Working(x)}) = 0
  BY <1>2, FS_EmptySet DEF Workings
<1>4. worker = [x \in Thread |-> worker[x]]
  BY DEF Init
<1>5. Resets
  BY <1>2 DEF Init, Resets
<1> QED BY <1>1, <1>2, <1>3, <1>4, <1>5, MaxJobsType DEF Init, CountInv, Accounted

\* Deletions stay with workers that fetch.
LEMMA SameResets ==
  ASSUME Resets, UNCHANGED <<build, worker, resetting>>
  PROVE  Resets'
BY DEF Resets, Is, Working

\* The steps that hand out nothing leave all but the walk and pc alone.
LEMMA WalkStepCount ==
  ASSUME CountInv, pc = "dispatch",
         UNCHANGED <<build, jobs, requestQueue, resultsQueue, worker, resetting>>,
         \/ pc' = pc
         \/ looked' = None /\ pc' = IF jobs = 0 THEN "cleanup" ELSE "collect"
  PROVE  CountInv'
<1>1. Resets'
  BY SameResets DEF CountInv
<1> QED BY <1>1 DEF CountInv, Accounted, Working, IsQueue

\* A candidate is considered only while tasks are handed out.
LEMMA ConsideredWhen ==
  ASSUME CountInv, NEW c \in Considered
  PROVE  pc = "dispatch"
BY DEF CountInv, Considered

\* A task is handed out to the workers.
LEMMA DispatchCount == ASSUME CountInv, Dispatch PROVE CountInv'
<1> USE DEF CountInv
<1>1. pc = "dispatch"
  <2>1. PICK c \in Considered : TRUE
    BY DEF Dispatch, Ready
  <2> QED BY ConsideredWhen
<1>2. PICK T : requestQueue' = Append(requestQueue, Request(T))
  BY DEF Dispatch
<1>3. /\ jobs' = jobs + 1 /\ UNCHANGED <<build, resultsQueue, worker, resetting>>
      /\ pc' = (IF jobs' < MaxJobs THEN "dispatch" ELSE "collect") /\ looked' = None
  BY DEF Dispatch, OnlyWalkAnd
<1>4. /\ IsQueue(requestQueue') /\ Len(requestQueue') = Len(requestQueue) + 1
      /\ Len(requestQueue) \in Nat
      /\ \A i \in 1 .. Len(requestQueue) : requestQueue'[i] = requestQueue[i]
      /\ requestQueue'[Len(requestQueue) + 1] = Request(T)
  BY <1>2, AppendFacts, LenFacts
<1>5. \A i \in 1 .. Len(requestQueue') : ~requestQueue'[i].quit
  <2>1. \A i \in 1 .. Len(requestQueue') :
          i \in 1 .. Len(requestQueue) \/ i = Len(requestQueue) + 1
    BY <1>4
  <2> QED BY <1>1, <1>4, <2>1 DEF Request
<1>6. jobs' \in 0 .. MaxJobs /\ (pc' = "dispatch" => jobs' < MaxJobs)
  BY <1>1, <1>3, MaxJobsType
<1>7. Accounted'
  <2>1. Cardinality({x \in Worker : Working(x)}') = Cardinality({x \in Worker : Working(x)})
    BY <1>3 DEF Working
  <2>2. Cardinality({x \in Worker : Working(x)}) \in Nat /\ Len(resultsQueue) \in Nat
    BY WorkingsFinite, LenFacts DEF Workings
  <2>3. pc' # "end" /\ pc # "end"
    BY <1>1, <1>3
  <2> QED BY <1>3, <1>4, <2>1, <2>2, <2>3 DEF Accounted
<1>8. Resets'
  BY <1>3, SameResets
<1> QED BY <1>1, <1>3, <1>4, <1>5, <1>6, <1>7, <1>8 DEF Working

\* A task is executed by the main thread.
LEMMA ExecuteCount == ASSUME CountInv, Execute PROVE CountInv'
<1>1. pc = "dispatch" /\ pc' = "execute"
  <2>1. PICK c \in Considered : TRUE
    BY DEF Execute, Ready
  <2> QED BY <2>1, ConsideredWhen DEF Execute
<1>2. UNCHANGED <<build, jobs, requestQueue, resultsQueue, resetting>> /\ looked' = None
      /\ build.serial
  BY DEF Execute, OnlyWalkAnd
<1>3. worker' = [x \in Thread |-> worker'[x]] /\ \A x \in Worker : worker'[x] = worker[x]
  BY WorkerAssumption DEF Execute, CountInv, Thread
<1>4. {x \in Worker : Working(x)}' = {x \in Worker : Working(x)}
  BY <1>3 DEF Working
<1>5. Resets'
  BY <1>2 DEF CountInv, Resets
<1> QED BY <1>1, <1>2, <1>3, <1>4, <1>5 DEF CountInv, Accounted

\* A result is collected, so there was one more task than there is now.
LEMMA CollectCount == ASSUME CountInv, Collect PROVE CountInv'
<1> USE DEF CountInv
<1>1. /\ pc = "collect" /\ pc' \in {"dispatch", "collect"} /\ resultsQueue # <<>>
      /\ resultsQueue' = Tail(resultsQueue) /\ jobs' = jobs - 1
      /\ UNCHANGED <<build, requestQueue, worker, looked, resetting>>
  BY DEF Collect
<1>2. /\ IsQueue(resultsQueue') /\ Len(resultsQueue') = Len(resultsQueue) - 1
      /\ Len(resultsQueue) \in Nat /\ Len(resultsQueue) > 0
  BY <1>1, TailFacts
<1>3. Cardinality({x \in Worker : Working(x)}) \in Nat /\ Len(requestQueue) \in Nat
  BY WorkingsFinite, LenFacts DEF Workings
<1>4. jobs = Len(requestQueue) + Cardinality({x \in Worker : Working(x)}) + Len(resultsQueue)
  BY <1>1 DEF Accounted
<1>5. jobs > 0
  BY <1>2, <1>3, <1>4
<1>6. Cardinality({x \in Worker : Working(x)}') = Cardinality({x \in Worker : Working(x)})
  BY <1>1 DEF Working
<1>7. Accounted'
  <2>1. pc' # "end" /\ requestQueue' = requestQueue /\ jobs \in Int
    BY <1>1, MaxJobsType
  <2>2. jobs' = Len(requestQueue') + Cardinality({x \in Worker : Working(x)}')
                + Len(resultsQueue')
    BY <1>1, <1>2, <1>3, <1>4, <1>6, <2>1
  <2> QED BY <2>1, <2>2 DEF Accounted
<1>8. jobs' \in 0 .. MaxJobs /\ jobs' < MaxJobs
  BY <1>1, <1>5, MaxJobsType
<1>9. Resets'
  BY <1>1, SameResets
<1> QED BY <1>1, <1>2, <1>7, <1>8, <1>9 DEF Working

\* The main thread ends when it waits for nothing: all queues are empty.
LEMMA CleanupCount == ASSUME CountInv, Cleanup PROVE CountInv'
<1> USE DEF CountInv
<1>1. /\ pc = "cleanup" /\ pc' = "end" /\ jobs = 0
      /\ requestQueue' = requestQueue \o Sentinels
      /\ UNCHANGED <<build, jobs, resultsQueue, worker, looked, resetting>>
  BY DEF Cleanup
<1>2. /\ Len(requestQueue) \in Nat /\ Len(resultsQueue) \in Nat
      /\ Cardinality({x \in Worker : Working(x)}) \in Nat
  BY WorkingsFinite, LenFacts DEF Workings
<1>3. /\ Len(requestQueue) = 0 /\ Len(resultsQueue) = 0
      /\ Cardinality({x \in Worker : Working(x)}) = 0
  BY <1>1, <1>2 DEF Accounted
<1>4. /\ requestQueue = <<>> /\ resultsQueue = <<>>
      /\ \A x \in Worker : ~Working(x)
  BY <1>3, LenFacts, WorkingsFinite DEF Workings
<1>5. Sentinels \in Seq({Sentinel})
  BY MaxJobsType DEF Sentinels
<1>6. requestQueue' = Sentinels
  BY <1>1, <1>4, <1>5
<1>7. IsQueue(requestQueue') /\ \A i \in DOMAIN requestQueue' : requestQueue'[i].quit
  BY <1>5, <1>6 DEF IsQueue, Sentinel
<1>8. Accounted'
  BY <1>1, <1>4, <1>7 DEF Accounted, Working
<1>9. Resets'
  BY <1>1, SameResets
<1> QED BY <1>1, <1>7, <1>8, <1>9 DEF Working

\* No step of the main thread miscounts.
LEMMA MainCount == ASSUME CountInv, Main PROVE CountInv'
<1>1. CASE DispatchStopped \/ DispatchNothing
  BY <1>1, WalkStepCount DEF DispatchStopped, DispatchNothing, NoTaskNow, OnlyWalkAnd
<1>2. CASE Skip \/ PrepareFails \/ NothingToRun
  <2>1. PICK c \in Considered : StillDispatching
    BY <1>2 DEF Skip, PrepareFails, NothingToRun
  <2>2. pc = "dispatch"
    BY ConsideredWhen
  <2> QED BY <2>1, <2>2, WalkStepCount DEF StillDispatching, OnlyWalkAnd
<1>3. CASE Look
  BY <1>3, WalkStepCount DEF Look
<1> QED BY <1>1, <1>2, <1>3, DispatchCount, ExecuteCount, CollectCount, CleanupCount DEF Main
-----------------------------------------------------------------------------
(* The steps of the threads that execute tasks, and the theorems.          *)

\* Only the workers take from the queue, before the end only tasks, and after it
\* only sentinels.
LEMMA OfferedCount ==
  ASSUME CountInv, NEW x \in Thread, NEW q \in BOOLEAN, Offered(x, q)
  PROVE  /\ x \in Worker /\ ~Working(x) /\ UNCHANGED <<pc, jobs>>
         /\ (\A y \in Thread : y # x => worker'[y] = worker[y]) => Resets'
         /\ worker' = worker => Resets'
         /\ UNCHANGED looked
         /\ IsQueue(requestQueue') /\ Len(requestQueue') = Len(requestQueue) - 1
         /\ Len(requestQueue) \in Nat
         /\ ~q => pc # "end"
         /\ pc # "end" => /\ ~q
                          /\ \A i \in 1 .. Len(requestQueue') : ~requestQueue'[i].quit
         /\ pc = "end" => \A i \in 1 .. Len(requestQueue') : requestQueue'[i].quit
<1> USE DEF CountInv
<1>1. /\ x \in Worker /\ ~Working(x) /\ UNCHANGED <<pc, jobs, looked, build, resetting>>
      /\ requestQueue # <<>> /\ requestQueue' = Tail(requestQueue)
      /\ Head(requestQueue).quit = q
  BY DEF Offered, UnchangedMain, Is, Working
<1>7. /\ (\A y \in Thread : y # x => worker'[y] = worker[y]) => Resets'
      /\ worker' = worker => Resets'
  <2>1. resetting[x] = None /\ x # None
    BY <1>1, WorkerAssumption DEF Resets, Is, Working, Thread
  <2>2. ASSUME \A y \in Thread : y # x => worker'[y] = worker[y] PROVE Resets'
    <3>1. Working(None)' = Working(None)
      BY <2>1, <2>2 DEF Working, Thread
    <3>2. \A y \in Thread : resetting'[y] # None => Is(y, "fetch")'
      BY <1>1, <2>1, <2>2 DEF Resets, Is
    <3> QED BY <1>1, <3>1, <3>2 DEF Resets
  <2> QED BY <1>1, <2>2
<1>2. /\ IsQueue(requestQueue') /\ Len(requestQueue') = Len(requestQueue) - 1
      /\ Len(requestQueue) \in Nat /\ Len(requestQueue) > 0
      /\ Head(requestQueue) = requestQueue[1]
      /\ \A i \in 1 .. Len(requestQueue') : requestQueue'[i] = requestQueue[i + 1]
  BY <1>1, TailFacts
<1>3. DOMAIN requestQueue = 1 .. Len(requestQueue)
  BY LenFacts
<1>4. 1 \in 1 .. Len(requestQueue)
      /\ \A i \in 1 .. Len(requestQueue') : i + 1 \in 1 .. Len(requestQueue)
  BY <1>2
<1>5. pc = "end" => q /\ \A i \in 1 .. Len(requestQueue') : requestQueue'[i].quit
  BY <1>1, <1>2, <1>3, <1>4 DEF Accounted
<1>6. pc # "end" => ~q /\ \A i \in 1 .. Len(requestQueue') : ~requestQueue'[i].quit
  <2> SUFFICES ASSUME pc # "end"
               PROVE  ~q /\ \A i \in 1 .. Len(requestQueue') : ~requestQueue'[i].quit
    OBVIOUS
  <2>1. \A i \in 1 .. Len(requestQueue) : ~requestQueue[i].quit
    OBVIOUS
  <2> QED BY <1>1, <1>2, <1>4, <2>1
<1> HIDE DEF CountInv
<1> QED BY <1>1, <1>2, <1>5, <1>6, <1>7

\* A task moves from the queue to a worker.
LEMMA TakeCount == ASSUME CountInv, NEW x \in Thread, Take(x) PROVE CountInv'
<1> USE DEF CountInv
<1>1. /\ x \in Worker /\ ~Working(x) /\ UNCHANGED <<pc, jobs, resultsQueue>>
      /\ IsQueue(requestQueue') /\ Len(requestQueue') = Len(requestQueue) - 1
      /\ Len(requestQueue) \in Nat /\ pc # "end" /\ looked' = looked
      /\ \A i \in 1 .. Len(requestQueue') : ~requestQueue'[i].quit
      /\ (\A y \in Thread : y # x => worker'[y] = worker[y]) => Resets'
  BY OfferedCount DEF Take
<1>2. /\ worker' = [y \in Thread |-> worker'[y]]
      /\ worker'[x].at = "fetch" /\ \A y \in Thread : y # x => worker'[y] = worker[y]
  BY DEF Take, Doing
<1>3. Cardinality(Workings') = Cardinality(Workings) + 1
  BY <1>1, <1>2, StartsWorking, WorkerAssumption DEF Working, Thread
<1>4. Working(None)' = Working(None)
  BY <1>1, <1>2, WorkerAssumption DEF Working, Thread
<1>5. Accounted'
  <2>1. Cardinality(Workings) \in Nat /\ Len(resultsQueue) \in Nat
    BY WorkingsFinite, LenFacts
  <2> QED BY <1>1, <1>3, <2>1 DEF Accounted, Workings
<1> QED BY <1>1, <1>2, <1>4, <1>5

\* A task moves from one queue to the other.
LEMMA RefuseCount == ASSUME CountInv, NEW x \in Thread, Refuse(x) PROVE CountInv'
<1> USE DEF CountInv
<1>1. /\ UNCHANGED <<pc, jobs, worker>>
      /\ IsQueue(requestQueue') /\ Len(requestQueue') = Len(requestQueue) - 1
      /\ Len(requestQueue) \in Nat /\ pc # "end" /\ looked' = looked
      /\ \A i \in 1 .. Len(requestQueue') : ~requestQueue'[i].quit
      /\ Resets'
  BY OfferedCount DEF Refuse
<1>2. PICK e : resultsQueue' = Append(resultsQueue, e)
  BY DEF Refuse
<1>3. IsQueue(resultsQueue') /\ Len(resultsQueue') = Len(resultsQueue) + 1
  BY <1>2, AppendFacts
<1>4. Workings' = Workings
  BY <1>1 DEF Workings, Working
<1>5. Accounted'
  <2>1. Cardinality(Workings) \in Nat /\ Len(resultsQueue) \in Nat
    BY WorkingsFinite, LenFacts
  <2>2. jobs = Len(requestQueue) + Cardinality(Workings) + Len(resultsQueue)
    BY <1>1 DEF Accounted, Workings
  <2>3. jobs' = Len(requestQueue') + Cardinality(Workings') + Len(resultsQueue')
    BY <1>1, <1>3, <1>4, <2>1, <2>2
  <2> QED BY <1>1, <2>3 DEF Accounted, Workings
<1> QED BY <1>1, <1>3, <1>5 DEF Working

\* A worker that quits had no task, and the main thread has ended.
LEMMA QuitCount == ASSUME CountInv, NEW x \in Thread, Quit(x) PROVE CountInv'
<1> USE DEF CountInv
<1>1. /\ x \in Worker /\ UNCHANGED <<pc, jobs, resultsQueue>> /\ pc = "end"
      /\ IsQueue(requestQueue') /\ looked' = looked
      /\ \A i \in 1 .. Len(requestQueue') : requestQueue'[i].quit
      /\ (\A y \in Thread : y # x => worker'[y] = worker[y]) => Resets'
  BY OfferedCount DEF Quit
<1>2. /\ worker' = [y \in Thread |-> worker'[y]]
      /\ worker'[x].at = "gone" /\ \A y \in Thread : y # x => worker'[y] = worker[y]
  BY DEF Quit, Gone, Doing
<1>3. \A y \in Worker : ~Working(y)'
  BY <1>1, <1>2 DEF Accounted, Working, Thread
<1>4. Working(None)' = Working(None)
  BY <1>1, <1>2, WorkerAssumption DEF Working, Thread
<1>5. DOMAIN requestQueue' = 1 .. Len(requestQueue')
  BY <1>1, LenFacts
<1> QED BY <1>1, <1>2, <1>3, <1>4, <1>5 DEF Accounted

\* A task moves from a worker to the results, or the main thread is done with it.
LEMMA ReportCount ==
  ASSUME CountInv, NEW x \in Thread, NEW ok, Working(x), resetting[x] = None, Report(x, ok)
  PROVE  CountInv'
<1> USE DEF CountInv
<1>1. /\ worker' = [y \in Thread |-> worker'[y]] /\ ~Working(x)'
      /\ \A y \in Thread : y # x => worker'[y] = worker[y]
      /\ UNCHANGED <<build, requestQueue, jobs, looked, resetting>>
  BY DEF Report, Idle, Doing, Working, UnchangedMain
<1>4. Resets'
  <2>1. Working(None)' => Working(None)
    BY <1>1 DEF Working, Thread
  <2> QED BY <1>1, <2>1 DEF Resets, Is
<1>2. CASE x = None
  <2>1. pc = "execute" /\ pc' = "dispatch" /\ resultsQueue' = resultsQueue
    BY <1>2 DEF Report
  <2>2. {y \in Worker : Working(y)}' = {y \in Worker : Working(y)}
    BY <1>1, <1>2, WorkerAssumption DEF Working, Thread
  <2> QED BY <1>1, <1>2, <1>4, <2>1, <2>2 DEF Accounted
<1>3. CASE x # None
  <2>1. x \in Worker /\ UNCHANGED pc
    BY <1>3 DEF Report, Thread
  <2>2. pc # "end"
    BY <2>1 DEF Accounted
  <2>3. PICK e : resultsQueue' = Append(resultsQueue, e)
    BY <1>3 DEF Report
  <2>4. IsQueue(resultsQueue') /\ Len(resultsQueue') = Len(resultsQueue) + 1
    BY <2>3, AppendFacts
  <2>5. Cardinality(Workings') = Cardinality(Workings) - 1
    BY <1>1, <2>1, StopsWorking DEF Thread
  <2>6. Working(None)' = Working(None)
    BY <1>1, <1>3 DEF Working, Thread
  <2>7. Accounted'
    <3>1. /\ Cardinality(Workings) \in Nat /\ Len(resultsQueue) \in Nat
          /\ Len(requestQueue) \in Nat
      BY WorkingsFinite, LenFacts
    <3> QED BY <1>1, <2>1, <2>2, <2>4, <2>5, <3>1 DEF Accounted, Workings
  <2> QED BY <1>1, <1>4, <2>1, <2>2, <2>4, <2>6, <2>7
<1> QED BY <1>2, <1>3

\* Fetching targets and starting a command change no count.
LEMMA GoOnCount ==
  ASSUME CountInv, NEW x \in Thread, Is(x, "fetch"),
         UNCHANGED <<build, pc, jobs, requestQueue, resultsQueue, looked>>,
         NEW d, worker' = [worker EXCEPT ![x] = d], d.at \in {"fetch", "run"},
         resetting' = [y \in Thread |-> resetting'[y]],
         \A y \in Thread : y # x => resetting'[y] = resetting[y],
         resetting'[x] # None => d.at = "fetch" /\ ~build.serial
  PROVE  CountInv'
<1>1. /\ worker' = [y \in Thread |-> worker'[y]] /\ worker'[x] = d
      /\ \A y \in Thread : y # x => worker'[y] = worker[y]
  BY DEF CountInv
<1>2. Working(x) /\ Working(x)'
  BY <1>1 DEF Is, Working
<1>3. {y \in Worker : Working(y)}' = {y \in Worker : Working(y)}
      /\ Working(None)' = Working(None)
  BY <1>1, <1>2 DEF Working, Thread
<1>4. Accounted'
  BY <1>1, <1>2, <1>3 DEF CountInv, Accounted, Working, Thread
<1>5. Resets'
  <2>1. \A y \in Thread : resetting'[y] # None => Is(y, "fetch")' /\ ~build'.serial
    BY <1>1 DEF CountInv, Resets, Is
  <2> QED BY <1>3, <2>1 DEF CountInv, Resets
<1> QED BY <1>1, <1>3, <1>4, <1>5 DEF CountInv

\* A target is found in the cache.
LEMMA InCacheCount ==
  ASSUME CountInv, NEW x \in Thread, NEW t \in Node, Fetch(x, t) \/ MarkFetched(x, t)
  PROVE  CountInv'
<1>1. /\ Is(x, "fetch")
      /\ worker' = [worker EXCEPT ![x] = Doing("fetch", TaskOf(x), worker[x].got \cup {t})]
      /\ UNCHANGED <<build, pc, jobs, requestQueue, resultsQueue, looked>>
  BY DEF Fetch, MarkFetched, InCache, UnchangedMain, CountInv
<1>2. Doing("fetch", TaskOf(x), worker[x].got \cup {t}).at = "fetch"
  BY DEF Doing
<1>3. resetting = [y \in Thread |-> resetting[y]]
  BY DEF CountInv, Resets
<1>4. CASE Fetch(x, t)
  <2>1. resetting' = resetting /\ resetting[x] = None
    BY <1>4 DEF Fetch, InCache
  <2> QED BY <1>1, <1>2, <1>3, <2>1, GoOnCount
<1>5. CASE MarkFetched(x, t)
  <2>1. PICK d : resetting' = [resetting EXCEPT ![x] = d]
    BY <1>5 DEF MarkFetched
  <2>2. ~build.serial
    BY <1>5 DEF MarkFetched, Racing
  <2> QED BY <1>1, <1>2, <1>3, <2>1, <2>2, GoOnCount
<1> QED BY <1>4, <1>5

\* So do the deletions of scans.
LEMMA ResetCount ==
  ASSUME CountInv, NEW x \in Thread, ResetParents(x)
  PROVE  CountInv'
<1>1. /\ resetting[x] # None /\ resetting = [y \in Thread |-> resetting[y]]
      /\ Is(x, "fetch") /\ ~build.serial
      /\ UNCHANGED <<build, pc, jobs, requestQueue, resultsQueue, looked, worker>>
  BY DEF ResetParents, UnchangedMain, CountInv, Resets
<1>2. PICK d : resetting' = [resetting EXCEPT ![x] = d]
  <2>1. PICK P \in SUBSET (Waiting(x) \cup resetting[x].left) :
          LET left == resetting[x].left \ P IN
          \/ resetting' = [resetting EXCEPT ![x] = [resetting[x] EXCEPT !.left = left]]
          \/ resetting' = [resetting EXCEPT ![x] = None]
    BY <1>1 DEF ResetParents
  <2> QED BY <2>1
<1>3. worker' = [worker EXCEPT ![x] = worker[x]] /\ worker[x].at = "fetch"
  BY <1>1 DEF CountInv, Is
<1> QED BY <1>1, <1>2, <1>3, GoOnCount

\* A command starts.
LEMMA RunCount ==
  ASSUME CountInv, NEW x \in Thread, Run(x)
  PROVE  CountInv'
<1>1. /\ Is(x, "fetch") /\ resetting[x] = None
      /\ worker' = [worker EXCEPT ![x] = Doing("run", TaskOf(x), worker[x].got)]
      /\ UNCHANGED <<build, pc, jobs, requestQueue, resultsQueue, looked, resetting>>
  BY DEF Run, UnchangedMain, CountInv
<1>2. Doing("run", TaskOf(x), worker[x].got).at = "run"
  BY DEF Doing
<1>3. resetting = [y \in Thread |-> resetting[y]]
  BY DEF CountInv, Resets
<1> QED BY <1>1, <1>2, <1>3, GoOnCount

\* A task that fails while scans are deleted moves to the results.
LEMMA ResetRaisesCount ==
  ASSUME CountInv, NEW x \in Thread, ResetRaises(x)
  PROVE  CountInv'
<1> USE DEF CountInv
<1>1. /\ resetting[x] # None /\ resetting' = [resetting EXCEPT ![x] = None]
      /\ worker' = [worker EXCEPT ![x] = Idle]
      /\ UNCHANGED <<build, pc, jobs, looked, requestQueue>>
  BY DEF ResetRaises, UnchangedMain
<1>2. /\ worker' = [y \in Thread |-> worker'[y]] /\ Working(x) /\ ~Working(x)'
      /\ \A y \in Thread : y # x => worker'[y] = worker[y]
  BY <1>1 DEF Idle, Doing, Working, Is, Resets
<1>3. x \in Worker /\ x # None
  BY <1>1, <1>2, WorkerAssumption DEF Resets, Thread
<1>4. pc # "end"
  BY <1>2, <1>3 DEF Accounted
<1>5. PICK e : resultsQueue' = Append(resultsQueue, e)
  BY DEF ResetRaises
<1>6. IsQueue(resultsQueue') /\ Len(resultsQueue') = Len(resultsQueue) + 1
  BY <1>5, AppendFacts
<1>7. Cardinality(Workings') = Cardinality(Workings) - 1
  BY <1>2, <1>3, StopsWorking DEF Thread
<1>8. Working(None)' = Working(None)
  BY <1>2, <1>3 DEF Working, Thread
<1>9. Accounted'
  <2>1. /\ Cardinality(Workings) \in Nat /\ Len(resultsQueue) \in Nat
        /\ Len(requestQueue) \in Nat
    BY WorkingsFinite, LenFacts
  <2> QED BY <1>1, <1>4, <1>6, <1>7, <2>1 DEF Accounted, Workings
<1>10. Resets'
  <2>1. \A y \in Thread : resetting'[y] # None => y # x /\ resetting'[y] = resetting[y]
    BY <1>1 DEF Resets
  <2> QED BY <1>1, <1>2, <1>8, <2>1 DEF Resets, Is
<1> QED BY <1>1, <1>2, <1>4, <1>6, <1>8, <1>9, <1>10

\* No step of a thread that executes tasks miscounts.
LEMMA WorkCount == ASSUME CountInv, NEW x \in Thread, Work(x) PROVE CountInv'
<1>1. CASE AllFetched(x) \/ Finish(x) \/ Fail(x)
  <2>1. Working(x) /\ \E ok \in BOOLEAN : Report(x, ok)
    BY <1>1 DEF AllFetched, Finish, Fail, Is, Working
  <2>2. resetting[x] = None
    BY <1>1 DEF AllFetched, Finish, Fail, Is, CountInv, Resets
  <2> QED BY <2>1, <2>2, ReportCount
<1> QED BY <1>1, TakeCount, RefuseCount, QuitCount, InCacheCount, ResetCount, RunCount,
           ResetRaisesCount DEF Work

\* The invariant holds throughout.
LEMMA CountInvHolds == Spec => []CountInv
<1>1. CountInv /\ [Next]_vars => CountInv'
  <2> SUFFICES ASSUME CountInv, [Next]_vars PROVE CountInv'
    OBVIOUS
  <2>1. CASE Main
    BY <2>1, MainCount
  <2>2. CASE Signal
    BY <2>2, SameResets DEF Signal, CountInv, Accounted, Working, IsQueue
  <2>3. CASE \E x \in Thread : Work(x)
    BY <2>3, WorkCount
  <2>4. CASE UNCHANGED vars
    BY <2>4, SameResets DEF vars, core, CountInv, Accounted, Working, IsQueue
  <2> QED BY <2>1, <2>2, <2>3, <2>4 DEF Next
<1> QED BY <1>1, InitCount, PTL DEF Spec

\* Parallel.start never waits for a result that does not come, nor ends with a
\* worker that still has a task, whatever the builds and however many workers.
THEOREM AccountedAlways == Spec => []Accounted
BY CountInvHolds, PTL DEF CountInv

\* It never hands out more tasks than it has workers.
THEOREM BoundedAlways == Spec => [](jobs \in 0 .. MaxJobs)
BY CountInvHolds, PTL DEF CountInv

-----------------------------------------------------------------------------
(* The walk: its counts and types.  From here on no command's side effect  *)
(* is a target or a dependency (WrittenOnly); of such files postprocess    *)
(* and will_not_build keep no right count.                                 *)

\* A task can have been handed out, and a candidate be there, only after the
\* first top target was taken.
Topped ==
  \/ walk.current_top \in Node
  \/ /\ walk.candidates = <<>> /\ resultsQueue = <<>>
     /\ \A x \in Thread : ~Working(x)
     /\ \A i \in 1 .. Len(requestQueue) : requestQueue[i].quit

TasksAreNodes ==
  /\ \A x \in Thread : TaskOf(x) \in SUBSET Node
  /\ \A i \in 1 .. Len(requestQueue) : requestQueue[i].task \in SUBSET Node
  /\ \A i \in 1 .. Len(resultsQueue) : resultsQueue[i].task \in SUBSET Node
  /\ begun \subseteq Node

WalkInv ==
  /\ build \in Builds /\ Sound(build, walk)
  /\ Topped /\ TasksAreNodes
  /\ IsQueue(requestQueue) /\ IsQueue(resultsQueue)
  /\ worker = [x \in Thread |-> worker[x]]
  /\ pc \in {"dispatch", "execute", "collect", "cleanup", "end"}

\* A candidate that was looked at is a node, with children it may have.
LookedWell ==
  looked # None =>
    /\ pc = "dispatch" /\ walk.current_top \in Node
    /\ looked.node \in Node /\ looked.children \in SUBSET Node
    /\ looked.executing \subseteq looked.children
    /\ looked.children \subseteq build.children[looked.node] \cup Revealed(build, looked.node)

\* Where a considered candidate comes from.
LEMMA ConsideredPick ==
  ASSUME looked = None, NEW c \in Considered
  PROVE  /\ pc = "dispatch" /\ ~walk.stopped
         /\ \E k \in NextCandidate(build, walk) :
              \E r \in Consider(build, k.walk, k.node) :
                 /\ c.node = k.node /\ c.ready = r.ready /\ c.walk = r.walk
                 /\ c.raised <=> c.node \in build.unscannable
<1>1. pc = "dispatch" /\ ~walk.stopped
  BY DEF Considered
<1>2. PICK k \in NextCandidate(build, walk) :
        c \in {[node |-> k.node, ready |-> r.ready,
                raised |-> k.node \in build.unscannable, walk |-> r.walk]
                 : r \in Consider(build, k.walk, k.node)}
  BY <1>1 DEF Considered
<1>3. PICK r \in Consider(build, k.walk, k.node) :
        c = [node |-> k.node, ready |-> r.ready,
             raised |-> k.node \in build.unscannable, walk |-> r.walk]
  BY <1>2
<1> QED BY <1>1, <1>3

\* The next candidate of the walk comes with a top target.
LEMMA NextSound ==
  ASSUME WalkInv, NEW k \in NextCandidate(build, walk)
  PROVE  Sound(build, k.walk) /\ k.node \in Node /\ k.walk.current_top \in Node
         /\ k.walk.state = walk.state
<1>1. build \in Builds /\ Sound(build, walk) /\ Topped
  BY DEF WalkInv
<1>2. /\ Sound(build, k.walk) /\ k.node \in Node /\ k.walk.state = walk.state
      /\ \/ k.walk.current_top \in Node
         \/ walk.candidates # <<>> /\ k.walk.current_top = walk.current_top
  BY <1>1, NextCandidateSound
<1> QED BY <1>1, <1>2 DEF Topped

\* After a candidate was considered the walk is sound and has a top target.
LEMMA ConsideredSound ==
  ASSUME WalkInv, LookedWell, NEW c \in Considered
  PROVE  /\ pc = "dispatch"
         /\ c.node \in Node /\ Sound(build, c.walk) /\ c.walk.current_top \in Node
         /\ build.targets[c.node] \in SUBSET Node
<1>1. build \in Builds /\ Sound(build, walk)
  BY DEF WalkInv
<1>2. CASE looked = None
  <2>1. pc = "dispatch" /\ \E k \in NextCandidate(build, walk) :
           \E r \in Consider(build, k.walk, k.node) : c.node = k.node /\ c.walk = r.walk
    BY <1>2, ConsideredPick
  <2>2. PICK k \in NextCandidate(build, walk) :
           \E r \in Consider(build, k.walk, k.node) : c.node = k.node /\ c.walk = r.walk
    BY <2>1
  <2>3. PICK r \in Consider(build, k.walk, k.node) : c.node = k.node /\ c.walk = r.walk
    BY <2>2
  <2>4. Sound(build, k.walk) /\ k.node \in Node /\ k.walk.current_top \in Node
    BY NextSound
  <2>5. Sound(build, r.walk) /\ r.walk.current_top = k.walk.current_top
    BY <1>1, <2>4, ConsiderSound
  <2>6. build.targets[c.node] \in SUBSET Node
    BY <1>1, <2>3, <2>4, BuildType
  <2> QED BY <2>1, <2>3, <2>4, <2>5, <2>6
<1>3. CASE looked # None
  <2>1. PICK n, C : n = looked.node /\ C = looked.children
    OBVIOUS
  <2>2. /\ pc = "dispatch" /\ walk.current_top \in Node /\ n \in Node /\ C \in SUBSET Node
        /\ C \subseteq build.children[n] \cup Revealed(build, n)
        /\ looked.executing \subseteq C
    BY <1>3, <2>1 DEF LookedWell
  <2>3. build.targets[n] \in SUBSET Node
    BY <1>1, <2>2, BuildType
  <2>4. c \in LookedAt
    BY <1>3 DEF Considered
  <2>5. c.node = n /\ Sound(build, c.walk) /\ c.walk.current_top = walk.current_top
    <3>1. CASE looked.raised
      <4>1. c = [node |-> n, ready |-> TRUE, raised |-> TRUE, walk |-> walk]
        BY <2>1, <2>4, <3>1 DEF LookedAt
      <4> QED BY <1>1, <4>1
    <3>2. CASE ~looked.raised
      <4>1. PICK L \in SUBSET {d \in looked.executing : walk.state[d] = Executed} :
              c \in {[node |-> n, ready |-> r.ready, raised |-> FALSE, walk |-> r.walk]
                       : r \in Decide(build, walk, n, C, L)}
        BY <2>1, <2>4, <3>2 DEF LookedAt
      <4>2. PICK r \in Decide(build, walk, n, C, L) :
              c = [node |-> n, ready |-> r.ready, raised |-> FALSE, walk |-> r.walk]
        BY <4>1
      <4>0. L \in SUBSET C
        BY <2>2
      <4>3. Sound(build, r.walk) /\ r.walk.current_top = walk.current_top
        BY <1>1, <2>2, <4>0, <4>2, DecideSound
      <4> QED BY <4>2, <4>3
    <3> QED BY <3>1, <3>2
  <2> QED BY <2>2, <2>3, <2>5
<1> QED BY <1>2, <1>3

\* A task made ready keeps the walk sound.
LEMMA MadeReadySound ==
  ASSUME NEW g \in Builds, NEW w, Sound(g, w), NEW T \in SUBSET Node, NEW b \in BOOLEAN
  PROVE  /\ Sound(g, MakeReady(g, w, T, b))
         /\ MakeReady(g, w, T, b).current_top = w.current_top
<1> DEFINE X == [n \in Node |-> IF n \in T THEN IF b THEN UpToDate ELSE Executing
              ELSE IF n \in SideEffects(g, T) /\ ~b THEN Executing ELSE w.state[n]]
           v == MakeReady(g, w, T, b)
<1>a. v = [w EXCEPT !.state = X] /\ X \in [Node -> NodeState]
  BY StateValues DEF MakeReady, WalkType, Sound
<1> HIDE DEF v, X
<1>1. /\ v \in WalkType /\ v.implicit = w.implicit
      /\ v.waiting_parents = w.waiting_parents /\ v.ref_count = w.ref_count
      /\ v.current_top = w.current_top
  BY <1>a DEF Sound, WalkType
<1>2. Sound(g, v)
  BY <1>1, SameCounts
<1> QED BY <1>1, <1>2 DEF v

\* A step that changes only the walk, and keeps it sound and its top target.
LEMMA WalkOnly ==
  ASSUME WalkInv, Sound(build, walk'), walk'.current_top \in Node,
         UNCHANGED <<build, requestQueue, resultsQueue, worker, begun>>,
         pc' \in {"dispatch", "execute", "collect", "cleanup", "end"}
  PROVE  WalkInv'
BY DEF WalkInv, Topped, TasksAreNodes, Working, TaskOf

\* A step of the walk that hands out no task.
LEMMA SkipWalk == ASSUME WalkInv, LookedWell, Skip PROVE WalkInv'
<1>1. PICK c \in Considered : walk' = c.walk /\ StillDispatching
  BY DEF Skip
<1>2. pc = "dispatch" /\ Sound(build, walk') /\ walk'.current_top \in Node
  BY <1>1, ConsideredSound
<1>3. UNCHANGED <<build, requestQueue, resultsQueue, worker, begun, pc>>
  BY <1>1 DEF StillDispatching, OnlyWalkAnd
<1> QED BY <1>2, <1>3, WalkOnly

\* A task that fails before its command, or has none.
LEMMA PrepareFailsWalk ==
  ASSUME WrittenOnly(build), WalkInv, LookedWell, PrepareFails
  PROVE  WalkInv'
<1>0. PICK c \in Considered :
        /\ StillDispatching
        /\ \E w \in {c.walk} \cup MadeReady(c.walk, c.node) :
             walk' \in FailedTask(build, w, build.targets[c.node])
  BY DEF PrepareFails
<1>1. PICK w \in {c.walk} \cup MadeReady(c.walk, c.node) :
        walk' \in FailedTask(build, w, build.targets[c.node])
  BY <1>0
<1>2. /\ pc = "dispatch" /\ Sound(build, c.walk) /\ c.walk.current_top \in Node
      /\ build.targets[c.node] \in SUBSET Node /\ build \in Builds
  BY ConsideredSound DEF WalkInv
<1>3. w = c.walk \/ \E b \in BOOLEAN : w = MakeReady(build, c.walk, build.targets[c.node], b)
  BY <1>1 DEF MadeReady
<1>4. Sound(build, w) /\ w.current_top \in Node
  BY <1>2, <1>3, MadeReadySound
<1>5. Sound(build, walk') /\ walk'.current_top \in Node
  BY <1>1, <1>2, <1>4, TaskSound
<1>6. UNCHANGED <<build, requestQueue, resultsQueue, worker, begun, pc>>
  BY <1>0 DEF StillDispatching, OnlyWalkAnd
<1> QED BY <1>2, <1>5, <1>6, WalkOnly

\* Nothing has to be run.
LEMMA NothingToRunWalk ==
  ASSUME WrittenOnly(build), WalkInv, LookedWell, NothingToRun
  PROVE  WalkInv'
<1>1. PICK c \in Considered :
        /\ StillDispatching
        /\ LET T == build.targets[c.node]
               w == MakeReady(build, c.walk, T, TRUE)
           IN walk' \in FailedTask(build, w, T) \cup DoneTask(build, w, T)
  BY DEF NothingToRun
<1> DEFINE T == build.targets[c.node]
           w == MakeReady(build, c.walk, T, TRUE)
<1>2. /\ pc = "dispatch" /\ Sound(build, c.walk) /\ c.walk.current_top \in Node
      /\ T \in SUBSET Node /\ build \in Builds
  BY ConsideredSound DEF WalkInv
<1>3. Sound(build, w) /\ w.current_top \in Node
  BY <1>2, MadeReadySound
<1>4. walk' \in DoneTask(build, w, T) \cup FailedTask(build, w, T)
  BY <1>1
<1> HIDE DEF w
<1>5. Sound(build, walk') /\ walk'.current_top \in Node
  BY <1>2, <1>3, <1>4, TaskSound
<1>6. UNCHANGED <<build, requestQueue, resultsQueue, worker, begun, pc>>
  BY <1>1 DEF StillDispatching, OnlyWalkAnd
<1> QED BY <1>2, <1>5, <1>6, WalkOnly

\* A task is handed out or executed.
LEMMA DispatchWalk == ASSUME WalkInv, LookedWell, Dispatch PROVE WalkInv'
<1>1. PICK c \in Ready :
        /\ walk' = MakeReady(build, c.walk, build.targets[c.node], FALSE)
        /\ requestQueue' = Append(requestQueue, Request(build.targets[c.node]))
  BY DEF Dispatch
<1>2. c \in Considered
  BY <1>1 DEF Ready
<1>3. /\ pc = "dispatch" /\ Sound(build, c.walk) /\ c.walk.current_top \in Node
      /\ build.targets[c.node] \in SUBSET Node /\ build \in Builds
  BY <1>2, ConsideredSound DEF WalkInv
<1>4. Sound(build, walk') /\ walk'.current_top \in Node
  BY <1>1, <1>3, MadeReadySound
<1>5. UNCHANGED <<build, resultsQueue, worker, begun>> /\ pc' \in {"dispatch", "collect"}
  BY DEF Dispatch, OnlyWalkAnd
<1>6. /\ IsQueue(requestQueue') /\ Len(requestQueue') = Len(requestQueue) + 1
      /\ Len(requestQueue) \in Nat
      /\ \A i \in 1 .. Len(requestQueue) : requestQueue'[i] = requestQueue[i]
      /\ requestQueue'[Len(requestQueue) + 1] = Request(build.targets[c.node])
  BY <1>1, AppendFacts, LenFacts DEF WalkInv
<1>7. \A i \in 1 .. Len(requestQueue') : requestQueue'[i].task \in SUBSET Node
  <2>1. \A i \in 1 .. Len(requestQueue') :
          i \in 1 .. Len(requestQueue) \/ i = Len(requestQueue) + 1
    BY <1>6
  <2> QED BY <1>3, <1>6, <2>1 DEF WalkInv, TasksAreNodes, Request
<1> QED BY <1>3, <1>4, <1>5, <1>6, <1>7 DEF WalkInv, Topped, TasksAreNodes, TaskOf

\* The main thread executes a task.
LEMMA ExecuteWalk == ASSUME WalkInv, LookedWell, Execute PROVE WalkInv'
<1>1. PICK c \in Ready :
        /\ walk' = MakeReady(build, c.walk, build.targets[c.node], FALSE)
        /\ worker' = [worker EXCEPT ![None] = Doing("fetch", build.targets[c.node], {})]
  BY DEF Execute
<1>2. c \in Considered
  BY <1>1 DEF Ready
<1>3. /\ pc = "dispatch" /\ Sound(build, c.walk) /\ c.walk.current_top \in Node
      /\ build.targets[c.node] \in SUBSET Node /\ build \in Builds
  BY <1>2, ConsideredSound DEF WalkInv
<1>4. Sound(build, walk') /\ walk'.current_top \in Node
  BY <1>1, <1>3, MadeReadySound
<1>5. UNCHANGED <<build, requestQueue, resultsQueue, begun>> /\ pc' = "execute"
  BY DEF Execute, OnlyWalkAnd
<1>6. /\ worker' = [x \in Thread |-> worker'[x]]
      /\ \A x \in Thread : TaskOf(x)' \in SUBSET Node
  BY <1>1, <1>3 DEF WalkInv, TasksAreNodes, TaskOf, Doing
<1> QED BY <1>3, <1>4, <1>5, <1>6 DEF WalkInv, Topped, TasksAreNodes

\* The outcome of a task that was handed out.
LEMMA OutcomeSound ==
  ASSUME WrittenOnly(build), WalkInv, walk.current_top \in Node, NEW T \in SUBSET Node,
         NEW ok, NEW v \in Outcome(T, ok)
  PROVE  Sound(build, v) /\ v.current_top \in Node
<1>1. build \in Builds /\ Sound(build, walk)
  BY DEF WalkInv
<1>2. v \in DoneTask(build, walk, T) \cup FailedTask(build, walk, T)
  BY DEF Outcome
<1> QED BY <1>1, <1>2, TaskSound

\* A result is collected.
LEMMA CollectWalk ==
  ASSUME WrittenOnly(build), WalkInv, Collect
  PROVE  WalkInv'
<1>1. /\ resultsQueue # <<>> /\ resultsQueue' = Tail(resultsQueue)
      /\ walk' \in Outcome(Head(resultsQueue).task, Head(resultsQueue).ok)
      /\ pc' \in {"dispatch", "collect"}
      /\ UNCHANGED <<build, requestQueue, worker, begun>>
  BY DEF Collect
<1>2. /\ IsQueue(resultsQueue') /\ Len(resultsQueue) \in Nat /\ Len(resultsQueue) > 0
      /\ Len(resultsQueue') = Len(resultsQueue) - 1 /\ Head(resultsQueue) = resultsQueue[1]
      /\ \A i \in 1 .. Len(resultsQueue) - 1 : resultsQueue'[i] = resultsQueue[i + 1]
  BY <1>1, TailFacts DEF WalkInv
<1>3. \A i \in 1 .. Len(resultsQueue') : i + 1 \in 1 .. Len(resultsQueue)
  BY <1>2
<1>4. Head(resultsQueue).task \in SUBSET Node
      /\ \A i \in 1 .. Len(resultsQueue') : resultsQueue'[i].task \in SUBSET Node
  BY <1>2, <1>3 DEF WalkInv, TasksAreNodes
<1>5. walk.current_top \in Node
  BY <1>1 DEF WalkInv, Topped
<1>6. Sound(build, walk') /\ walk'.current_top \in Node
  BY <1>1, <1>4, <1>5, OutcomeSound
<1> QED BY <1>1, <1>2, <1>4, <1>6 DEF WalkInv, Topped, TasksAreNodes, TaskOf

\* Sentinels are no tasks.
LEMMA CleanupWalk == ASSUME WalkInv, Cleanup PROVE WalkInv'
<1>1. /\ requestQueue' = requestQueue \o Sentinels /\ pc' = "end"
      /\ UNCHANGED <<build, walk, resultsQueue, worker, begun>>
  BY DEF Cleanup
<1>2. Sentinels \in Seq({Sentinel})
  BY MaxJobsType DEF Sentinels
<1>3. PICK S : requestQueue \in Seq(S)
  BY DEF WalkInv, IsQueue
<1>4. requestQueue \in Seq(S \cup {Sentinel}) /\ Sentinels \in Seq(S \cup {Sentinel})
  BY <1>2, <1>3
<1>5. requestQueue' \in Seq(S \cup {Sentinel})
  BY <1>1, <1>4
<1>6. \A i \in 1 .. Len(requestQueue') :
        \/ i \in 1 .. Len(requestQueue) /\ requestQueue'[i] = requestQueue[i]
        \/ requestQueue'[i] = Sentinel
  <2> TAKE i \in 1 .. Len(requestQueue')
  <2>1. Len(requestQueue') = Len(requestQueue) + Len(Sentinels)
    BY <1>1, <1>4
  <2>2. Len(requestQueue) \in Nat /\ Len(Sentinels) \in Nat
    BY <1>4
  <2>3. CASE i \in 1 .. Len(requestQueue)
    BY <1>1, <1>4, <2>3
  <2>4. CASE i \notin 1 .. Len(requestQueue)
    <3>1. i - Len(requestQueue) \in 1 .. Len(Sentinels)
      BY <2>1, <2>2, <2>4
    <3>2. requestQueue'[i] = Sentinels[i - Len(requestQueue)]
      BY <1>1, <1>4, <2>1, <2>2, <2>4
    <3> QED BY <1>2, <3>1, <3>2
  <2> QED BY <2>3, <2>4
<1>7. \A i \in 1 .. Len(requestQueue') : requestQueue'[i].task \in SUBSET Node
  BY <1>6 DEF WalkInv, TasksAreNodes, Sentinel
<1>8. Topped'
  BY <1>1, <1>6 DEF WalkInv, Topped, Working, Sentinel
<1> QED BY <1>1, <1>5, <1>7, <1>8 DEF WalkInv, TasksAreNodes, TaskOf, IsQueue

\* A walk in which scans were deleted is as sound.
LEMMA RescanSound ==
  ASSUME NEW g \in Builds, NEW w, Sound(g, w), NEW P
  PROVE  /\ Sound(g, Rescan(w, P))
         /\ Rescan(w, P).current_top = w.current_top /\ Rescan(w, P).candidates = w.candidates
<1> DEFINE I == [p \in Node |-> IF p \in P THEN None ELSE w.implicit[p]]
           v == Rescan(w, P)
<1>1. w \in WalkType /\ I \in [Node -> {None} \cup SUBSET Node]
  BY DEF Sound, WalkType
<1>2. v = [w EXCEPT !.implicit = I]
  BY <1>1 DEF Rescan, WalkType
<1>3. \A n \in Node : I[n] \in {None, w.implicit[n]}
  OBVIOUS
<1> HIDE DEF v, I
<1>4. /\ v \in WalkType /\ v.implicit = I
      /\ v.waiting_parents = w.waiting_parents /\ v.ref_count = w.ref_count
      /\ v.current_top = w.current_top /\ v.candidates = w.candidates
  BY <1>1, <1>2 DEF WalkType
<1>5. Sound(g, v)
  BY <1>3, <1>4, SameCounts
<1> QED BY <1>4, <1>5 DEF v

\* A candidate is looked at.
LEMMA LookSound ==
  ASSUME WalkInv, Look
  PROVE  /\ pc = "dispatch" /\ Sound(build, walk') /\ walk'.current_top \in Node
         /\ looked'.node \in Node /\ looked'.children \in SUBSET Node
         /\ looked'.executing \subseteq looked'.children
         /\ looked'.children \subseteq
              build.children[looked'.node] \cup Revealed(build, looked'.node)
<1>1. PICK k \in NextCandidate(build, walk) :
        LET n == k.node
            v == Visited(k.walk, n)
        IN \/ \E X \in Scans(build, walk, n) :
                /\ walk' = Scanned(build, v, n, X)
                /\ looked' = Seen(n, Children(build, walk', n), FALSE)
           \/ /\ walk' = Rescan(v, {n})
              /\ looked' \in {Seen(n, build.children[n], b) : b \in BOOLEAN}
  BY DEF Look
<1>2. PICK n, v : n = k.node /\ v = Visited(k.walk, n)
  OBVIOUS
<1>3. /\ build \in Builds /\ Sound(build, k.walk) /\ k.walk \in WalkType /\ n \in Node
      /\ k.walk.current_top \in Node /\ k.walk.state = walk.state
  BY <1>2, NextSound DEF WalkInv, Sound
<1>4. CASE \E X \in Scans(build, walk, n) :
             /\ walk' = Scanned(build, v, n, X)
             /\ looked' = Seen(n, Children(build, walk', n), FALSE)
  <2>1. PICK X \in Scans(build, walk, n) :
             /\ walk' = Scanned(build, v, n, X)
             /\ looked' = Seen(n, Children(build, walk', n), FALSE)
    BY <1>4
  <2>2. X \in Scans(build, k.walk, n)
    BY <1>3, <2>1 DEF Scans, Current, Absent
  <2>3. walk' = Looked(build, k.walk, n, X)
        /\ Children(build, walk', n) = Found(build, k.walk, n, X)
    BY <1>2, <2>1 DEF Looked, Found
  <2>4. /\ Sound(build, walk') /\ walk'.current_top = k.walk.current_top
        /\ Children(build, walk', n) \subseteq build.children[n] \cup Revealed(build, n)
        /\ Children(build, walk', n) \subseteq Node
    BY <1>3, <2>2, <2>3, LookedFields
  <2>5. looked'.node = n /\ looked'.children = Children(build, walk', n)
        /\ looked'.executing \subseteq looked'.children
    BY <2>1 DEF Seen
  <2> QED BY <1>3, <2>4, <2>5 DEF Look
<1>5. CASE /\ walk' = Rescan(v, {n})
           /\ looked' \in {Seen(n, build.children[n], b) : b \in BOOLEAN}
  <2>1. /\ v \in WalkType /\ v.waiting_parents = k.walk.waiting_parents
        /\ v.ref_count = k.walk.ref_count /\ v.implicit = k.walk.implicit
        /\ v.current_top = k.walk.current_top
    BY <1>2, <1>3, VisitedFields
  <2>2. Sound(build, v)
    BY <1>3, <2>1, SameCounts
  <2>3. Sound(build, walk') /\ walk'.current_top = v.current_top
    BY <1>3, <1>5, <2>2, RescanSound
  <2>4. looked'.node = n /\ looked'.children = build.children[n]
        /\ looked'.executing \subseteq looked'.children
    BY <1>5 DEF Seen
  <2>5. build.children[n] \in SUBSET Node
    BY <1>3, BuildType
  <2> QED BY <1>3, <2>1, <2>3, <2>4, <2>5 DEF Look
<1> QED BY <1>1, <1>2, <1>4, <1>5

\* No step of the main thread breaks the walk.
LEMMA MainWalk ==
  ASSUME WrittenOnly(build), WalkInv, LookedWell, Main
  PROVE  WalkInv'
<1>1. CASE DispatchStopped
  <2>1. /\ walk' = Flush(walk) /\ pc' \in {"cleanup", "collect"}
        /\ UNCHANGED <<build, requestQueue, resultsQueue, worker, begun>>
    BY <1>1 DEF DispatchStopped, NoTaskNow, OnlyWalkAnd
  <2>2. Sound(build, walk') /\ walk'.candidates = <<>>
        /\ walk'.current_top = walk.current_top
    BY <2>1, FlushSound DEF WalkInv
  <2> QED BY <2>1, <2>2 DEF WalkInv, Topped, TasksAreNodes, TaskOf, Working
<1>2. CASE DispatchNothing
  <2>1. /\ pc' \in {"cleanup", "collect"}
        /\ UNCHANGED <<walk, build, requestQueue, resultsQueue, worker, begun>>
    BY <1>2 DEF DispatchNothing, NoTaskNow, OnlyWalkAnd
  <2> QED BY <2>1 DEF WalkInv, Topped, TasksAreNodes, TaskOf, Working
<1>3. CASE Look
  <2>1. /\ pc' = "dispatch"
        /\ UNCHANGED <<build, requestQueue, resultsQueue, worker, begun>>
    BY <1>3, LookSound DEF Look
  <2> QED BY <1>3, <2>1, LookSound, WalkOnly
<1> QED BY <1>1, <1>2, <1>3, SkipWalk, PrepareFailsWalk, NothingToRunWalk, DispatchWalk,
           ExecuteWalk, CollectWalk, CleanupWalk DEF Main

\* A signal handler calls stop().
LEMMA SignalWalk == ASSUME WalkInv, Signal PROVE WalkInv'
<1>1. /\ walk' = [walk EXCEPT !.stopped = TRUE]
      /\ UNCHANGED <<build, pc, requestQueue, resultsQueue, worker, begun>>
  BY DEF Signal
<1>2. /\ Sound(build, walk') /\ walk'.candidates = walk.candidates
      /\ walk'.current_top = walk.current_top
  BY <1>1, StoppedFields DEF WalkInv
<1> QED BY <1>1, <1>2 DEF WalkInv, Topped, TasksAreNodes, TaskOf, Working

\* What is left of the queue when a worker took its head.
LEMMA OfferedWalk ==
  ASSUME WalkInv, NEW x \in Thread, NEW q \in BOOLEAN, Offered(x, q)
  PROVE  /\ IsQueue(requestQueue')
         /\ Head(requestQueue).task \in SUBSET Node
         /\ \A i \in 1 .. Len(requestQueue') : requestQueue'[i].task \in SUBSET Node
         /\ UNCHANGED <<build, walk, pc, begun>>
         /\ ~q => walk.current_top \in Node
         /\ (\A i \in 1 .. Len(requestQueue) : requestQueue[i].quit)
              => \A i \in 1 .. Len(requestQueue') : requestQueue'[i].quit
<1>1. /\ requestQueue # <<>> /\ requestQueue' = Tail(requestQueue)
      /\ Head(requestQueue).quit = q /\ UNCHANGED <<build, walk, pc, begun>>
  BY DEF Offered, UnchangedMain
<1>2. /\ IsQueue(requestQueue') /\ Len(requestQueue') = Len(requestQueue) - 1
      /\ Len(requestQueue) \in Nat /\ Len(requestQueue) > 0
      /\ Head(requestQueue) = requestQueue[1]
      /\ \A i \in 1 .. Len(requestQueue') : requestQueue'[i] = requestQueue[i + 1]
  BY <1>1, TailFacts DEF WalkInv
<1>3. 1 \in 1 .. Len(requestQueue)
      /\ \A i \in 1 .. Len(requestQueue') : i + 1 \in 1 .. Len(requestQueue)
  BY <1>2
<1>4. \A i \in 1 .. Len(requestQueue) : requestQueue[i].task \in SUBSET Node
  BY DEF WalkInv, TasksAreNodes
<1>5. ~q => walk.current_top \in Node
  BY <1>1, <1>2, <1>3 DEF WalkInv, Topped
<1> QED BY <1>1, <1>2, <1>3, <1>4, <1>5

\* A worker reports, or the main thread is done with its task.
LEMMA ReportWalk ==
  ASSUME WrittenOnly(build), WalkInv, NEW x \in Thread, NEW ok, Working(x), Report(x, ok)
  PROVE  WalkInv'
<1>1. /\ worker' = [worker EXCEPT ![x] = Idle]
      /\ UNCHANGED <<build, requestQueue, begun>>
  BY DEF Report, UnchangedMain
<1>2. walk.current_top \in Node /\ TaskOf(x) \in SUBSET Node
  BY DEF WalkInv, Topped, TasksAreNodes
<1>3. worker' = [y \in Thread |-> worker'[y]] /\ \A y \in Thread : TaskOf(y)' \in SUBSET Node
  BY <1>1 DEF WalkInv, TasksAreNodes, TaskOf, Idle, Doing
<1>4. CASE x = None
  <2>1. walk' \in Outcome(TaskOf(x), ok) /\ pc' = "dispatch" /\ UNCHANGED resultsQueue
    BY <1>4 DEF Report
  <2>2. Sound(build, walk') /\ walk'.current_top \in Node
    BY <1>2, <2>1, OutcomeSound
  <2> QED BY <1>1, <1>3, <2>1, <2>2 DEF WalkInv, Topped, TasksAreNodes
<1>5. CASE x # None
  <2>1. /\ resultsQueue' = Append(resultsQueue, [task |-> TaskOf(x), ok |-> ok])
        /\ UNCHANGED <<walk, pc>>
    BY <1>5 DEF Report
  <2>2. /\ IsQueue(resultsQueue') /\ Len(resultsQueue') = Len(resultsQueue) + 1
        /\ Len(resultsQueue) \in Nat
        /\ \A i \in 1 .. Len(resultsQueue) : resultsQueue'[i] = resultsQueue[i]
        /\ resultsQueue'[Len(resultsQueue) + 1].task = TaskOf(x)
    BY <2>1, AppendFacts, LenFacts DEF WalkInv
  <2>3. \A i \in 1 .. Len(resultsQueue') :
          i \in 1 .. Len(resultsQueue) \/ i = Len(resultsQueue) + 1
    BY <2>2
  <2>4. \A i \in 1 .. Len(resultsQueue') : resultsQueue'[i].task \in SUBSET Node
    BY <1>2, <2>2, <2>3 DEF WalkInv, TasksAreNodes
  <2> QED BY <1>1, <1>2, <1>3, <2>1, <2>2, <2>4 DEF WalkInv, Topped, TasksAreNodes
<1> QED BY <1>4, <1>5

\* A target is found in the cache; scans are deleted at once or later.
LEMMA FetchWalk ==
  ASSUME WalkInv, NEW x \in Thread, NEW t \in Node, Fetch(x, t) \/ MarkFetched(x, t)
  PROVE  WalkInv' /\ walk'.current_top = walk.current_top
<1> DEFINE m == Marked(t)
<1>1. /\ walk' = m \/ walk' = Rescan(m, m.waiting_parents[t])
      /\ Is(x, "fetch")
      /\ worker' = [worker EXCEPT ![x] = Doing("fetch", TaskOf(x), worker[x].got \cup {t})]
      /\ UNCHANGED <<build, pc, requestQueue, resultsQueue, begun>>
  BY DEF Fetch, MarkFetched, InCache, UnchangedMain, Built
<1>2. Sound(build, walk) /\ walk \in WalkType /\ build \in Builds
  BY DEF WalkInv, Sound
<1>3. /\ m \in WalkType /\ m.waiting_parents = walk.waiting_parents
      /\ m.ref_count = walk.ref_count /\ m.current_top = walk.current_top
      /\ m.implicit = walk.implicit
  BY <1>2, StateValues DEF Marked, WalkType
<1>4. Sound(build, m)
  BY <1>2, <1>3, SameCounts
<1> HIDE DEF m
<1>5. Sound(build, walk') /\ walk'.current_top = walk.current_top
  BY <1>1, <1>2, <1>3, <1>4, RescanSound
<1>6. walk.current_top \in Node
  BY <1>1 DEF WalkInv, Topped, Is, Working
<1>7. worker' = [y \in Thread |-> worker'[y]]
      /\ \A y \in Thread : TaskOf(y)' = TaskOf(y)
  BY <1>1 DEF WalkInv, TaskOf, Doing
<1> QED BY <1>1, <1>5, <1>6, <1>7 DEF WalkInv, Topped, TasksAreNodes

\* A worker deletes scans.
LEMMA ResetWalk ==
  ASSUME WalkInv, NEW x \in Thread, ResetParents(x)
  PROVE  WalkInv' /\ walk'.current_top = walk.current_top
<1>1. /\ \E P : walk' = Rescan(walk, P)
      /\ UNCHANGED <<build, pc, requestQueue, resultsQueue, worker, begun>>
  BY DEF ResetParents, UnchangedMain
<1>2. /\ Sound(build, walk') /\ walk'.current_top = walk.current_top
      /\ walk'.candidates = walk.candidates
  BY <1>1, RescanSound DEF WalkInv
<1> QED BY <1>1, <1>2 DEF WalkInv, Topped, TasksAreNodes, TaskOf, Working

\* A worker gives up its task, with a result.
LEMMA GivesUpWalk ==
  ASSUME WalkInv, NEW x \in Thread, Working(x), ResetRaises(x)
  PROVE  WalkInv'
<1>1. /\ worker' = [worker EXCEPT ![x] = Idle]
      /\ UNCHANGED <<build, walk, pc, requestQueue, begun>>
      /\ resultsQueue' = Append(resultsQueue, [task |-> TaskOf(x), ok |-> FALSE])
  BY DEF ResetRaises, UnchangedMain
<1>2. walk.current_top \in Node /\ TaskOf(x) \in SUBSET Node
  BY DEF WalkInv, Topped, TasksAreNodes
<1>3. worker' = [y \in Thread |-> worker'[y]] /\ \A y \in Thread : TaskOf(y)' \in SUBSET Node
  BY <1>1 DEF WalkInv, TasksAreNodes, TaskOf, Idle, Doing
<1>4. /\ IsQueue(resultsQueue') /\ Len(resultsQueue') = Len(resultsQueue) + 1
      /\ Len(resultsQueue) \in Nat
      /\ \A i \in 1 .. Len(resultsQueue) : resultsQueue'[i] = resultsQueue[i]
      /\ resultsQueue'[Len(resultsQueue) + 1].task = TaskOf(x)
  BY <1>1, AppendFacts, LenFacts DEF WalkInv
<1>5. \A i \in 1 .. Len(resultsQueue') :
        i \in 1 .. Len(resultsQueue) \/ i = Len(resultsQueue) + 1
  BY <1>4
<1>6. \A i \in 1 .. Len(resultsQueue') : resultsQueue'[i].task \in SUBSET Node
  BY <1>2, <1>4, <1>5 DEF WalkInv, TasksAreNodes
<1> QED BY <1>1, <1>2, <1>3, <1>4, <1>6 DEF WalkInv, Topped, TasksAreNodes

\* No step of a thread that executes tasks breaks the walk.
LEMMA WorkWalk ==
  ASSUME WrittenOnly(build), WalkInv, CountInv, NEW x \in Thread, Work(x)
  PROVE  WalkInv'
<1> USE DEF WalkInv
<1>1. CASE AllFetched(x) \/ Finish(x) \/ Fail(x)
  <2>1. Working(x) /\ \E ok \in BOOLEAN : Report(x, ok)
    BY <1>1 DEF AllFetched, Finish, Fail, Is, Working
  <2> QED BY <2>1, ReportWalk
<1>2. CASE Take(x)
  <2>1. /\ Offered(x, FALSE) /\ UNCHANGED resultsQueue
        /\ worker' = [worker EXCEPT ![x] = Doing("fetch", Head(requestQueue).task, {})]
    BY <1>2 DEF Take
  <2>2. /\ IsQueue(requestQueue') /\ Head(requestQueue).task \in SUBSET Node
        /\ \A i \in 1 .. Len(requestQueue') : requestQueue'[i].task \in SUBSET Node
        /\ UNCHANGED <<build, walk, pc, begun>> /\ walk.current_top \in Node
    BY <2>1, OfferedWalk
  <2>3. /\ worker' = [y \in Thread |-> worker'[y]]
        /\ \A y \in Thread : TaskOf(y)' \in SUBSET Node
    BY <2>1, <2>2 DEF TasksAreNodes, TaskOf, Doing
  <2> QED BY <2>1, <2>2, <2>3 DEF Topped, TasksAreNodes
<1>3. CASE Refuse(x)
  <2>1. /\ Offered(x, FALSE) /\ UNCHANGED worker
        /\ resultsQueue' =
             Append(resultsQueue, [task |-> Head(requestQueue).task, ok |-> FALSE])
    BY <1>3 DEF Refuse
  <2>2. /\ IsQueue(requestQueue') /\ Head(requestQueue).task \in SUBSET Node
        /\ \A i \in 1 .. Len(requestQueue') : requestQueue'[i].task \in SUBSET Node
        /\ UNCHANGED <<build, walk, pc, begun>> /\ walk.current_top \in Node
    BY <2>1, OfferedWalk
  <2>3. /\ IsQueue(resultsQueue') /\ Len(resultsQueue') = Len(resultsQueue) + 1
        /\ Len(resultsQueue) \in Nat
        /\ \A i \in 1 .. Len(resultsQueue) : resultsQueue'[i] = resultsQueue[i]
        /\ resultsQueue'[Len(resultsQueue) + 1].task = Head(requestQueue).task
    BY <2>1, AppendFacts, LenFacts
  <2>4. \A i \in 1 .. Len(resultsQueue') :
          i \in 1 .. Len(resultsQueue) \/ i = Len(resultsQueue) + 1
    BY <2>3
  <2>5. \A i \in 1 .. Len(resultsQueue') : resultsQueue'[i].task \in SUBSET Node
    BY <2>2, <2>3, <2>4 DEF TasksAreNodes
  <2> QED BY <2>1, <2>2, <2>3, <2>5 DEF Topped, TasksAreNodes, TaskOf
<1>4. CASE Quit(x)
  <2>1. /\ Offered(x, TRUE) /\ UNCHANGED resultsQueue
        /\ worker' = [worker EXCEPT ![x] = Gone]
    BY <1>4 DEF Quit
  <2>2. /\ IsQueue(requestQueue')
        /\ \A i \in 1 .. Len(requestQueue') : requestQueue'[i].task \in SUBSET Node
        /\ UNCHANGED <<build, walk, pc, begun>>
        /\ (\A i \in 1 .. Len(requestQueue) : requestQueue[i].quit)
             => \A i \in 1 .. Len(requestQueue') : requestQueue'[i].quit
    BY <2>1, OfferedWalk
  <2>3. /\ worker' = [y \in Thread |-> worker'[y]]
        /\ \A y \in Thread : TaskOf(y)' \in SUBSET Node
        /\ \A y \in Thread : Working(y)' => Working(y)
    BY <2>1 DEF TasksAreNodes, TaskOf, Doing, Gone, Working
  <2> QED BY <2>1, <2>2, <2>3 DEF Topped, TasksAreNodes
<1>5. CASE Run(x)
  <2>1. /\ Is(x, "fetch")
        /\ worker' = [worker EXCEPT ![x] = Doing("run", TaskOf(x), @.got)]
        /\ begun' = begun \cup TaskOf(x)
        /\ UNCHANGED <<build, walk, pc, requestQueue, resultsQueue>>
    BY <1>5 DEF Run, UnchangedMain
  <2>2. worker' = [y \in Thread |-> worker'[y]] /\ \A y \in Thread : TaskOf(y)' = TaskOf(y)
    BY <2>1 DEF TaskOf, Doing
  <2>3. walk.current_top \in Node
    BY <2>1 DEF Topped, Is, Working
  <2>4. begun' \subseteq Node
    BY <2>1 DEF TasksAreNodes
  <2> QED BY <2>1, <2>2, <2>3, <2>4 DEF Topped, TasksAreNodes
<1>6. CASE \E t \in Node : Fetch(x, t) \/ MarkFetched(x, t)
  BY <1>6, FetchWalk
<1>7. CASE ResetRaises(x)
  <2>1. Working(x)
    BY <1>7 DEF ResetRaises, CountInv, Resets, Is, Working
  <2> QED BY <1>7, <2>1, GivesUpWalk
<1> QED BY <1>1, <1>2, <1>3, <1>4, <1>5, <1>6, <1>7, ResetWalk DEF Work

\* What was looked at stays so until it is considered.
LEMMA LookedWellKept ==
  ASSUME CountInv, CountInv', WalkInv, LookedWell, [Next]_vars
  PROVE  LookedWell'
<1>1. CASE looked' = None
  BY <1>1 DEF LookedWell
<1>2. CASE Look
  <2>1. pc' = "dispatch" /\ build' = build
    BY <1>2 DEF Look
  <2> QED BY <1>2, <2>1, LookSound DEF LookedWell
<1>3. CASE UNCHANGED <<build, looked>> /\ (pc = "dispatch" => walk'.current_top = walk.current_top)
  BY <1>3 DEF LookedWell, CountInv
<1>4. CASE Main /\ ~Look
  <2>1. looked' = None \/ (UNCHANGED <<build, looked>> /\ pc # "dispatch")
    BY <1>4 DEF Main, DispatchStopped, DispatchNothing, NoTaskNow, Skip, PrepareFails,
                NothingToRun, StillDispatching, Dispatch, Execute, OnlyWalkAnd, Collect,
                Cleanup
  <2> QED BY <1>1, <1>3, <2>1
<1>5. CASE Signal
  <2>1. UNCHANGED <<build, looked>> /\ walk'.current_top = walk.current_top
    BY <1>5, StoppedFields DEF Signal, WalkInv
  <2> QED BY <1>3, <2>1
<1>6. CASE \E x \in Thread : Work(x)
  <2>1. PICK x \in Thread : Work(x)
    BY <1>6
  <2>2. UNCHANGED <<build, looked>>
    BY <2>1 DEF Work, Take, Refuse, Quit, Offered, AllFetched, Run, Finish, Fail, Report,
                ResetParents, ResetRaises, Fetch, MarkFetched, InCache, UnchangedMain
  <2>3. CASE ResetParents(x) \/ \E t \in Node : Fetch(x, t) \/ MarkFetched(x, t)
    BY <1>3, <2>2, <2>3, ResetWalk, FetchWalk
  <2>4. CASE walk' = walk
    BY <1>3, <2>2, <2>4
  <2>5. CASE x = None /\ Working(None)
    <3>1. pc # "dispatch"
      BY <2>5 DEF CountInv
    <3> QED BY <1>3, <2>2, <3>1
  <2> QED BY <2>1, <2>3, <2>4, <2>5
    DEF Work, Take, Refuse, Quit, Offered, AllFetched, Run, Finish, Fail, Report,
        ResetRaises, Is, Working
<1>7. CASE UNCHANGED vars
  BY <1>3, <1>7 DEF vars, core
<1> QED BY <1>2, <1>4, <1>5, <1>6, <1>7 DEF Next

\* At the start no node was visited.
LEMMA InitWalk == Init => WalkInv
<1> SUFFICES ASSUME Init PROVE WalkInv
  OBVIOUS
<1>1. IsQueue(<<>>) /\ Len(<<>>) = 0
  <2>1. <<>> \in Seq({})
    OBVIOUS
  <2> QED BY <2>1 DEF IsQueue
<1>2. Sound(build, walk)
  BY NewWalkSound DEF Init
<1>3. worker = [x \in Thread |-> worker[x]] /\ \A x \in Thread : TaskOf(x) = {} /\ ~Working(x)
  BY DEF Init, TaskOf, Idle, Gone, Doing, Working
<1>4. Topped
  BY <1>1, <1>3 DEF Topped, Init, NewWalk
<1> QED BY <1>1, <1>2, <1>3, <1>4 DEF WalkInv, TasksAreNodes, Init

\* The invariant holds throughout.
LEMMA WalkInvHolds ==
  ASSUME \A b \in Builds : WrittenOnly(b)
  PROVE  Spec => [](WalkInv /\ LookedWell)
<1>1. CountInv /\ CountInv' /\ WalkInv /\ LookedWell /\ [Next]_vars => WalkInv' /\ LookedWell'
  <2> SUFFICES ASSUME CountInv, CountInv', WalkInv, LookedWell, [Next]_vars PROVE WalkInv'
    BY LookedWellKept
  <2>1. WrittenOnly(build)
    BY DEF WalkInv
  <2>2. CASE Main
    BY <2>1, <2>2, MainWalk
  <2>3. CASE Signal
    BY <2>3, SignalWalk
  <2>4. CASE \E x \in Thread : Work(x)
    BY <2>1, <2>4, WorkWalk
  <2>5. CASE UNCHANGED vars
    BY <2>5 DEF vars, core, WalkInv, Topped, TasksAreNodes, TaskOf, Working, IsQueue
  <2> QED BY <2>2, <2>3, <2>4, <2>5 DEF Next
<1>2. Init => LookedWell
  BY DEF Init, LookedWell
<1> QED BY <1>1, <1>2, InitWalk, CountInvHolds, PTL DEF Spec

\* The count of a node is the number of nodes it waits for, in every build of
\* any graph in which no command's side effect is a target or a dependency.
THEOREM RefCountsAlways ==
  ASSUME \A b \in Builds : WrittenOnly(b)
  PROVE  Spec => []RefCounts
<1>1. WalkInv => RefCounts
  BY DEF WalkInv, Sound, Counted, WaitsFor, RefCounts
<1> QED BY <1>1, WalkInvHolds, PTL

\* Everything has its type; above all, no count ever becomes negative.
THEOREM TypeCorrect ==
  ASSUME \A b \in Builds : WrittenOnly(b)
  PROVE  Spec => []TypeOK
<1>1. WalkInv /\ CountInv => TypeOK
  <2> SUFFICES ASSUME WalkInv, CountInv PROVE TypeOK
    OBVIOUS
  <2>1. walk \in WalkType
    BY DEF WalkInv, Sound
  <2>2. \A p \in Node : walk.ref_count[p] \in Nat
    <3> TAKE p \in Node
    <3>1. Cardinality(WaitsFor(walk, p)) \in Nat
      BY NodesFinite DEF WaitsFor
    <3> QED BY <3>1 DEF WalkInv, Sound, Counted
  <2>3. walk.ref_count \in [Node -> Nat]
    BY <2>1, <2>2 DEF WalkType
  <2>4. /\ walk.state \in [Node -> NodeState]
        /\ walk.waiting_parents \in [Node -> SUBSET Node]
        /\ walk.waiting_s_e \in [Node -> SUBSET Node]
        /\ \A n \in Node : walk.implicit[n] \in {None} \cup SUBSET Node
        /\ walk.candidates \in Seq(Node) /\ walk.pending_children \subseteq Node
    BY <2>1 DEF WalkType
  <2> QED BY <2>3, <2>4 DEF WalkInv, TasksAreNodes, CountInv, TypeOK
<1> QED BY <1>1, WalkInvHolds, CountInvHolds, PTL

-----------------------------------------------------------------------------
(* It implements BuildOrder.                                              *)

\* The tasks in a queue, with the workers, and altogether.
TasksIn(q) == {q[i].task : i \in 1 .. Len(q)}
AtWork == {TaskOf(x) : x \in {y \in Thread : Working(y)}}
InFlight == TasksIn(requestQueue) \cup TasksIn(resultsQueue) \cup AtWork

\* The commands that run, or whose end was not collected yet.
Running ==
  {TaskOf(x) : x \in {y \in Thread : Is(y, "run")}}
    \cup {r.task : r \in {s \in Range(resultsQueue) : s.task \subseteq begun}}

\* Where a task is: its command was not started and its targets are executing,
\* or were fetched; or its command was started.
AllAre(w, T, s) == \A t \in T : w.state[t] = s
Waits(w, B, T) == T \cap B = {} /\ AllAre(w, T, Executing)
Runs(w, B, T) == T \subseteq B /\ AllAre(w, T, Executing)
Fetches(g, w, B, T, got) ==
  /\ T \cap B = {} /\ got \subseteq T \cap g.cached
  /\ \A t \in T : w.state[t] = IF t \in got THEN Executed ELSE Executing
Answers(w, B, T, ok) ==
  \/ Runs(w, B, T)
  \/ T \cap B = {} /\ AllAre(w, T, IF ok THEN Executed ELSE Executing)

Stages ==
  /\ \A i \in 1 .. Len(requestQueue) : Waits(walk, begun, requestQueue[i].task)
  /\ \A i \in 1 .. Len(resultsQueue) :
       Answers(walk, begun, resultsQueue[i].task, resultsQueue[i].ok)
  /\ \A x \in Thread :
       /\ Is(x, "fetch") => Fetches(build, walk, begun, TaskOf(x), worker[x].got)
       /\ Is(x, "run") => Runs(walk, begun, TaskOf(x))

\* No two tasks make or also write the same.
Separate(g, T, U) == T \cap U = {} /\ SideEffects(g, T) \cap SideEffects(g, U) = {}
Off(g, q, T) == \A i \in 1 .. Len(q) : Separate(g, q[i].task, T)
Spread(g, q) ==
  \A i, j \in 1 .. Len(q) : i # j => Separate(g, q[i].task, q[j].task)

Separated ==
  /\ Spread(build, requestQueue) /\ Spread(build, resultsQueue)
  /\ \A i \in 1 .. Len(resultsQueue) : Off(build, requestQueue, resultsQueue[i].task)
  /\ \A x \in Thread : Working(x) =>
       Off(build, requestQueue, TaskOf(x)) /\ Off(build, resultsQueue, TaskOf(x))
  /\ \A x, y \in Thread :
       x # y /\ Working(x) /\ Working(y) => Separate(build, TaskOf(x), TaskOf(y))

\* Until the main thread ends, the walk is steady and the tasks are apart.
OrderInv ==
  pc # "end" => Steady(build, walk, begun, InFlight) /\ Stages /\ Separated

\* Whatever scanners can find is found in time, and no worker comes between the steps of the walk.
Quiet ==
  Foreseen(build) /\ looked = None /\ \A x \in Thread : resetting[x] = None

-----------------------------------------------------------------------------
(* Queues of tasks.                                                        *)

\* Being separate is symmetric.
LEMMA SeparateSymmetric ==
  ASSUME NEW g, NEW T, NEW U, Separate(g, T, U)
  PROVE  Separate(g, U, T)
BY DEF Separate

\* The tasks of a queue without its head.
LEMMA TailTasks ==
  ASSUME NEW g, NEW q, IsQueue(q), q # <<>>
  PROVE  /\ Head(q) = q[1] /\ 1 \in 1 .. Len(q) /\ IsQueue(Tail(q))
         /\ \A i \in 1 .. Len(Tail(q)) : i + 1 \in 1 .. Len(q) /\ Tail(q)[i] = q[i + 1]
         /\ TasksIn(q) = TasksIn(Tail(q)) \cup {q[1].task}
         /\ \A T : Off(g, q, T) <=> Off(g, Tail(q), T) /\ Separate(g, q[1].task, T)
         /\ Spread(g, q) => Spread(g, Tail(q)) /\ Off(g, Tail(q), q[1].task)
<1> DEFINE p == Tail(q)
<1>1. /\ Head(q) = q[1] /\ Len(q) \in Nat /\ Len(q) > 0 /\ Len(p) = Len(q) - 1
      /\ \A i \in 1 .. Len(q) - 1 : p[i] = q[i + 1]
      /\ IsQueue(p)
  BY TailFacts
<1> HIDE DEF p
<1>2. /\ 1 \in 1 .. Len(q)
      /\ \A i \in 1 .. Len(p) : i \in 1 .. Len(q) - 1 /\ i + 1 \in 1 .. Len(q)
      /\ \A i \in 1 .. Len(q) : i # 1 => i - 1 \in 1 .. Len(p) /\ (i - 1) + 1 = i
  BY <1>1
<1>3. \A i \in 1 .. Len(p) : p[i] = q[i + 1]
  BY <1>1, <1>2
<1>4. \A i \in 1 .. Len(q) : i = 1 \/ \E j \in 1 .. Len(p) : q[i] = p[j]
  BY <1>2, <1>3
<1>5. TasksIn(q) = TasksIn(p) \cup {q[1].task}
  <2>1. \A t : t \in TasksIn(q) => t = q[1].task \/ \E j \in 1 .. Len(p) : t = p[j].task
    BY <1>4 DEF TasksIn
  <2>2. \A j \in 1 .. Len(p) : p[j].task \in TasksIn(q)
    BY <1>2, <1>3 DEF TasksIn
  <2>3. q[1].task \in TasksIn(q)
    BY <1>2 DEF TasksIn
  <2> QED BY <2>1, <2>2, <2>3 DEF TasksIn
<1>6. ASSUME NEW T
      PROVE  Off(g, q, T) <=> Off(g, p, T) /\ Separate(g, q[1].task, T)
  <2>1. Off(g, q, T) => Off(g, p, T) /\ Separate(g, q[1].task, T)
    BY <1>2, <1>3 DEF Off
  <2>2. Off(g, p, T) /\ Separate(g, q[1].task, T) => Off(g, q, T)
    BY <1>4 DEF Off
  <2> QED BY <2>1, <2>2
<1>7. ASSUME Spread(g, q) PROVE Spread(g, p) /\ Off(g, p, q[1].task)
  <2>1. Spread(g, p)
    <3> SUFFICES ASSUME NEW i \in 1 .. Len(p), NEW j \in 1 .. Len(p), i # j
                 PROVE  Separate(g, p[i].task, p[j].task)
      BY DEF Spread
    <3>1. i + 1 # j + 1
      BY <1>1
    <3> QED BY <1>2, <1>3, <1>7, <3>1 DEF Spread
  <2>2. Off(g, p, q[1].task)
    <3> SUFFICES ASSUME NEW i \in 1 .. Len(p) PROVE Separate(g, p[i].task, q[1].task)
      BY DEF Off
    <3>1. i + 1 # 1
      BY <1>1
    <3> QED BY <1>2, <1>3, <1>7, <3>1 DEF Spread
  <2> QED BY <2>1, <2>2
<1> QED BY <1>1, <1>2, <1>3, <1>5, <1>6, <1>7 DEF p

\* The tasks of a queue with one more entry.
LEMMA AppendTasks ==
  ASSUME NEW g, NEW q, IsQueue(q), NEW e
  PROVE  LET p == Append(q, e) IN
         /\ IsQueue(p)
         /\ \A i \in 1 .. Len(p) : \/ i \in 1 .. Len(q) /\ p[i] = q[i]
                                   \/ p[i] = e
         /\ TasksIn(p) = TasksIn(q) \cup {e.task}
         /\ \A T : Off(g, q, T) /\ Separate(g, e.task, T) => Off(g, p, T)
         /\ Spread(g, q) /\ Off(g, q, e.task) => Spread(g, p)
<1> DEFINE p == Append(q, e)
           n == Len(q) + 1
<1>1. /\ IsQueue(p) /\ Len(p) = n /\ Len(q) \in Nat
      /\ \A i \in 1 .. Len(q) : p[i] = q[i]
      /\ p[n] = e
  BY AppendFacts, LenFacts
<1> HIDE DEF p
<1>2. /\ n \in 1 .. Len(p) /\ \A i \in 1 .. Len(q) : i \in 1 .. Len(p) /\ i # n
      /\ \A i \in 1 .. Len(p) : i \in 1 .. Len(q) \/ i = n
  BY <1>1
<1> HIDE DEF n
<1>3. \A i \in 1 .. Len(p) : (i \in 1 .. Len(q) /\ p[i] = q[i]) \/ (i = n /\ p[i] = e)
  BY <1>1, <1>2
<1>4. TasksIn(p) = TasksIn(q) \cup {e.task}
  BY <1>1, <1>2, <1>3 DEF TasksIn
<1>5. \A T : Off(g, q, T) /\ Separate(g, e.task, T) => Off(g, p, T)
  BY <1>3 DEF Off
<1>6. ASSUME Spread(g, q), Off(g, q, e.task) PROVE Spread(g, p)
  <2> SUFFICES ASSUME NEW i \in 1 .. Len(p), NEW j \in 1 .. Len(p), i # j
               PROVE  Separate(g, p[i].task, p[j].task)
    BY DEF Spread
  <2>1. CASE i \in 1 .. Len(q) /\ p[i] = q[i] /\ j \in 1 .. Len(q) /\ p[j] = q[j]
    BY <1>6, <2>1 DEF Spread
  <2>2. CASE i \in 1 .. Len(q) /\ p[i] = q[i] /\ p[j] = e
    BY <1>6, <2>2 DEF Off
  <2>3. CASE p[i] = e /\ j \in 1 .. Len(q) /\ p[j] = q[j]
    BY <1>6, <2>3, SeparateSymmetric DEF Off
  <2> QED BY <1>3, <2>1, <2>2, <2>3
<1> QED BY <1>1, <1>3, <1>4, <1>5, <1>6 DEF p

-----------------------------------------------------------------------------
(* The steps of BuildOrder.                                                *)

UO == INSTANCE BuildOrder WITH built <- Usable(walk), running <- Running
Ordering == [UO!Next]_(UO!vars)

\* The walk gives BuildOrder its nodes, the threads and results its commands.
LEMMA Mapped ==
  /\ UO!vars = <<build, Usable(walk), Running, begun>>
  /\ UO!vars' = <<build', Usable(walk'), Running', begun'>>
BY DEF UO!vars

\* Nothing of it changes.
LEMMA OrderStutters ==
  ASSUME UNCHANGED <<build, begun>>, Usable(walk') = Usable(walk), Running' = Running
  PROVE  Ordering
BY Mapped DEF Ordering

\* Nodes are there without a command.
LEMMA OrderSettles ==
  ASSUME NEW N \in SUBSET Node, UNCHANGED <<build, begun>>, Running' = Running,
         Usable(walk') = Usable(walk) \cup N,
         N \cap UNION Running = {}, Deps(build, N) \subseteq Usable(walk)
  PROVE  Ordering
<1>1. UO!Needs(build, begun, N) \subseteq Usable(walk)
  BY DEF UO!Needs, Deps
<1>2. UO!Settle(N)
  BY <1>1 DEF UO!Settle
<1> QED BY <1>2 DEF Ordering, UO!Next

\* A command starts.
LEMMA OrderBegins ==
  ASSUME NEW T \in SUBSET Node, UNCHANGED build, begun' = begun \cup T,
         Running' = Running \cup {T}, Usable(walk') = Usable(walk),
         T \cap begun = {}, T \cap Usable(walk) = {}, Deps(build, T) \subseteq Usable(walk),
         \A U \in Running : SideEffects(build, U) \cap SideEffects(build, T) = {}
  PROVE  Ordering
<1>1. UO!Needs(build, begun, T) \subseteq Usable(walk)
  BY DEF UO!Needs, Deps
<1>2. UO!Begin(T)
  BY <1>1 DEF UO!Begin, UO!SideEffects, SideEffects
<1> QED BY <1>2 DEF Ordering, UO!Next

\* A command ends.
LEMMA OrderEnds ==
  ASSUME NEW T \in Running, UNCHANGED <<build, begun>>, Running' = Running \ {T},
         Usable(walk') \in {Usable(walk), Usable(walk) \cup T}
  PROVE  Ordering
<1>1. UO!End(T)
  BY DEF UO!End
<1>2. T \in Running
  OBVIOUS
<1> QED BY <1>1, <1>2 DEF Ordering, UO!Next, Running

\* The commands whose end was not collected yet.
Collectable == {r.task : r \in {s \in Range(resultsQueue) : s.task \subseteq begun}}

\* What runs is one of these or is with a thread.
LEMMA RunningParts ==
  /\ \A U : U \in Running <=>
       \/ U \in Collectable
       \/ \E x \in Thread : Is(x, "run") /\ U = TaskOf(x)
  /\ \A U : U \in Running' <=>
       \/ U \in Collectable'
       \/ \E x \in Thread : Is(x, "run")' /\ U = TaskOf(x)'
BY DEF Running, Collectable

\* Which commands run, one by one.
RunningIn(wk, q, B) ==
  {wk[x].task : x \in {y \in Thread : wk[y].at = "run"}}
    \cup {q[i].task : i \in {j \in 1 .. Len(q) : q[j].task \subseteq B}}

\* These are the commands that run.
LEMMA RunningFacts ==
  /\ IsQueue(resultsQueue) => Running = RunningIn(worker, resultsQueue, begun)
  /\ IsQueue(resultsQueue') => Running' = RunningIn(worker', resultsQueue', begun')
<1>1. ASSUME NEW q, IsQueue(q), NEW B
      PROVE {r.task : r \in {s \in Range(q) : s.task \subseteq B}}
              = {q[i].task : i \in {j \in 1 .. Len(q) : q[j].task \subseteq B}}
  <2>1. Range(q) = {q[i] : i \in 1 .. Len(q)}
    BY <1>1, LenFacts DEF Range
  <2> QED BY <2>1
<1>2. IsQueue(resultsQueue) => Running = RunningIn(worker, resultsQueue, begun)
  BY <1>1 DEF Running, RunningIn, TaskOf, Is
<1>3. IsQueue(resultsQueue') => Running' = RunningIn(worker', resultsQueue', begun')
  BY <1>1 DEF Running, RunningIn, TaskOf, Is
<1> QED BY <1>2, <1>3

-----------------------------------------------------------------------------
(* Tasks in flight.                                                        *)

\* Where the tasks in flight are.
LEMMA FlightPlaces ==
  /\ \A i \in 1 .. Len(requestQueue) : requestQueue[i].task \in InFlight
  /\ \A i \in 1 .. Len(resultsQueue) : resultsQueue[i].task \in InFlight
  /\ \A x \in Thread : Working(x) => TaskOf(x) \in InFlight
  /\ \A T \in InFlight :
       \/ \E i \in 1 .. Len(requestQueue) : T = requestQueue[i].task
       \/ \E i \in 1 .. Len(resultsQueue) : T = resultsQueue[i].task
       \/ \E x \in Thread : Working(x) /\ T = TaskOf(x)
BY DEF InFlight, TasksIn, AtWork

\* A task in flight has targets, and all they depend on.
LEMMA FlightFacts ==
  ASSUME WalkInv, Steady(build, walk, begun, InFlight), NEW T \in InFlight
  PROVE  /\ T \in SUBSET Node /\ T # {} /\ IsTask(build, T)
         /\ Held(build, walk, T) /\ Deps(build, T) \subseteq Usable(walk)
         /\ \A t \in T : t \in build.builder /\ build.targets[t] = T
<1>1. build \in Builds /\ Held(build, walk, T)
  BY DEF WalkInv, Steady
<1>2. PICK n \in build.builder : T = build.targets[n]
  BY <1>1 DEF Held
<1>3. n \in Node /\ IsTask(build, T)
  BY <1>1, <1>2, BuildType DEF IsTask, Known
<1> QED BY <1>1, <1>2, <1>3, TargetsFacts DEF Held

\* A command that runs is a task in flight.
LEMMA RunningInFlight ==
  ASSUME IsQueue(resultsQueue)
  PROVE  Running \subseteq InFlight
<1>1. \A x \in Thread : Is(x, "run") => Working(x)
  BY DEF Is, Working
<1>2. Running = RunningIn(worker, resultsQueue, begun)
  BY RunningFacts
<1> QED BY <1>1, <1>2, FlightPlaces DEF RunningIn, TaskOf, Is

\* Tasks stay where they are when the states of their targets do.
LEMMA StageKept ==
  ASSUME NEW w, NEW v, NEW T, \A t \in T : v.state[t] = w.state[t], NEW B, NEW g
  PROVE  /\ Waits(w, B, T) => Waits(v, B, T)
         /\ Runs(w, B, T) => Runs(v, B, T)
         /\ \A got : Fetches(g, w, B, T, got) => Fetches(g, v, B, T, got)
         /\ \A ok : Answers(w, B, T, ok) => Answers(v, B, T, ok)
BY DEF Waits, Runs, Fetches, Answers, AllAre

\* A step of the walk that gives out no task and collects none.
LEMMA WalkStepOrder ==
  ASSUME Quiet, WalkInv, OrderInv, pc # "end",
         UNCHANGED <<build, requestQueue, resultsQueue, worker, begun>>,
         Steady(build, walk', begun, InFlight),
         \A U \in InFlight : \A t \in U : walk'.state[t] = walk.state[t]
  PROVE  OrderInv' /\ Running' = Running
<1>1. InFlight' = InFlight /\ Running' = Running
  BY DEF InFlight, TasksIn, AtWork, Working, TaskOf, Running, Is
<1>2. Stages'
  <2>1. \A i \in 1 .. Len(requestQueue) : Waits(walk', begun, requestQueue[i].task)
    BY FlightPlaces, StageKept DEF OrderInv, Stages
  <2>2. \A i \in 1 .. Len(resultsQueue) :
          Answers(walk', begun, resultsQueue[i].task, resultsQueue[i].ok)
    BY FlightPlaces, StageKept DEF OrderInv, Stages
  <2>3. ASSUME NEW x \in Thread
        PROVE  /\ Is(x, "fetch") => Fetches(build, walk', begun, TaskOf(x), worker[x].got)
               /\ Is(x, "run") => Runs(walk', begun, TaskOf(x))
    <3>1. Is(x, "fetch") \/ Is(x, "run") => TaskOf(x) \in InFlight
      BY FlightPlaces DEF Is, Working
    <3> QED BY <3>1, StageKept DEF OrderInv, Stages
  <2> QED BY <2>1, <2>2, <2>3 DEF Stages, Is, TaskOf
<1>3. Separated'
  BY DEF OrderInv, Separated, Spread, Off, Working, TaskOf
<1> QED BY <1>1, <1>2, <1>3 DEF OrderInv

-----------------------------------------------------------------------------
(* The main thread: handing out tasks.                                     *)

\* What becomes of a candidate then.
LEMMA ConsideredQuiet ==
  ASSUME Quiet, WalkInv, NEW c \in Considered
  PROVE  /\ pc = "dispatch" /\ ~walk.stopped /\ (c.raised <=> c.node \in build.unscannable)
         /\ c.node \in Node /\ Sound(build, c.walk) /\ c.walk.current_top \in Node
         /\ build.targets[c.node] \in SUBSET Node
<1>1. looked = None /\ LookedWell
  BY DEF Quiet, LookedWell
<1>2. pc = "dispatch" /\ ~walk.stopped /\ (c.raised <=> c.node \in build.unscannable)
  BY <1>1, ConsideredPick
<1> QED BY <1>1, <1>2, ConsideredSound

\* It stays so.
LEMMA QuietKept ==
  ASSUME Quiet, WalkInv, [Next]_vars
  PROVE  Quiet'
<1>1. build' = build /\ ~Racing(build)
  BY DEF Quiet, Foreseen, Next, Main, vars, core, Signal, Work, DispatchStopped,
         DispatchNothing, NoTaskNow, Look, Skip, PrepareFails, NothingToRun,
         StillDispatching, Dispatch, Execute, OnlyWalkAnd, Collect, Cleanup, Take, Refuse,
         Quit, Offered, AllFetched, Run, Finish, Fail, Report, ResetParents, ResetRaises,
         Fetch, MarkFetched, InCache, UnchangedMain
<1>2. looked' = None
  BY <1>1 DEF Quiet, Next, Main, vars, core, Signal, Work, DispatchStopped,
         DispatchNothing, NoTaskNow, Look, Skip, PrepareFails, NothingToRun,
         StillDispatching, Dispatch, Execute, OnlyWalkAnd, Collect, Cleanup, Take, Refuse,
         Quit, Offered, AllFetched, Run, Finish, Fail, Report, ResetParents, ResetRaises,
         Fetch, MarkFetched, InCache, UnchangedMain
<1>3. resetting' = resetting
  BY <1>1 DEF Quiet, Next, Main, vars, core, Signal, Work, DispatchStopped,
         DispatchNothing, NoTaskNow, Look, Skip, PrepareFails, NothingToRun,
         StillDispatching, Dispatch, Execute, OnlyWalkAnd, Collect, Cleanup, Take, Refuse,
         Quit, Offered, AllFetched, Run, Finish, Fail, Report, ResetParents, ResetRaises,
         Fetch, MarkFetched, InCache, UnchangedMain
<1> QED BY <1>1, <1>2, <1>3 DEF Quiet

\* After a candidate was considered the walk is steady; if it is ready, and its
\* scan did not raise, all it depends on is there.
LEMMA ConsideredSteady ==
  ASSUME WrittenOnly(build), Quiet, WalkInv, OrderInv, NEW c \in Considered
  PROVE  /\ pc = "dispatch" /\ c.node \in Node /\ c.node \in Asked(build)
         /\ Steady(build, c.walk, begun, InFlight) /\ Usable(c.walk) = Usable(walk)
         /\ ~c.walk.stopped
         /\ \A U \in InFlight : \A t \in U : c.walk.state[t] = walk.state[t]
         /\ c.ready =>
              /\ ~(c.walk.state[c.node] > Pending)
              /\ c.node \notin build.unscannable =>
                   /\ Deps(build, build.targets[c.node]) \subseteq Usable(c.walk)
                   /\ \A s \in SideEffects(build, build.targets[c.node]) :
                        c.walk.state[s] # Executing
<1>1. /\ pc = "dispatch" /\ ~walk.stopped
      /\ \E k \in NextCandidate(build, walk) :
           \E r \in Consider(build, k.walk, k.node) :
              c.node = k.node /\ c.ready = r.ready /\ c.walk = r.walk
  BY ConsideredPick DEF Quiet
<1>2. PICK k \in NextCandidate(build, walk) :
           \E r \in Consider(build, k.walk, k.node) :
              c.node = k.node /\ c.ready = r.ready /\ c.walk = r.walk
  BY <1>1
<1>3. PICK r \in Consider(build, k.walk, k.node) :
              c.node = k.node /\ c.ready = r.ready /\ c.walk = r.walk
  BY <1>2
<1>4. build \in Builds /\ Sound(build, walk) /\ Steady(build, walk, begun, InFlight)
      /\ Foreseen(build)
  BY <1>1 DEF WalkInv, OrderInv, Quiet
<1>5. Steady(build, k.walk, begun, InFlight) /\ k.node \in Asked(build)
  BY <1>4, NextCandidateSteady
<1>6. k.walk.state = walk.state /\ k.walk.stopped = walk.stopped
  BY <1>4, NextCandidateSound
<1>7. ~k.walk.stopped
  BY <1>1, <1>6
<1>8. /\ Steady(build, r.walk, begun, InFlight) /\ Usable(r.walk) = Usable(k.walk)
      /\ ~r.walk.stopped
      /\ \A U \in InFlight : \A t \in U : r.walk.state[t] = k.walk.state[t]
      /\ r.ready =>
           /\ ~(r.walk.state[k.node] > Pending)
           /\ k.node \notin build.unscannable =>
                /\ Deps(build, build.targets[k.node]) \subseteq Usable(k.walk)
                /\ \A s \in SideEffects(build, build.targets[k.node]) :
                     r.walk.state[s] # Executing
  BY <1>4, <1>5, <1>7, ConsiderSteady
<1>9. Usable(k.walk) = Usable(walk)
  BY <1>6 DEF Usable
<1>10. k.node \in Node
  BY <1>4, <1>5, AskedFacts
<1> QED BY <1>1, <1>3, <1>5, <1>6, <1>8, <1>9, <1>10

\* A candidate is passed over.
LEMMA SkipOrder ==
  ASSUME WrittenOnly(build), Quiet, WalkInv, OrderInv, Skip
  PROVE  OrderInv' /\ Ordering
<1>1. PICK c \in Considered : walk' = c.walk
  BY DEF Skip
<1>2. UNCHANGED <<build, pc, requestQueue, resultsQueue, worker, begun>>
  BY DEF Skip, StillDispatching, OnlyWalkAnd
<1>3. /\ pc = "dispatch" /\ Steady(build, walk', begun, InFlight)
      /\ Usable(walk') = Usable(walk)
      /\ \A U \in InFlight : \A t \in U : walk'.state[t] = walk.state[t]
  BY <1>1, ConsideredSteady
<1>4. OrderInv' /\ Running' = Running
  BY <1>2, <1>3, WalkStepOrder
<1> QED BY <1>2, <1>3, <1>4, OrderStutters

\* Nothing is handed out.
LEMMA DispatchStoppedOrder ==
  ASSUME WrittenOnly(build), Quiet, WalkInv, OrderInv, DispatchStopped
  PROVE  OrderInv' /\ Ordering
<1>1. /\ pc = "dispatch" /\ walk.stopped /\ walk' = Flush(walk)
      /\ UNCHANGED <<build, requestQueue, resultsQueue, worker, begun>>
  BY DEF DispatchStopped, NoTaskNow, OnlyWalkAnd
<1>2. build \in Builds /\ Steady(build, walk, begun, InFlight)
  BY <1>1 DEF WalkInv, OrderInv
<1>3. Steady(build, walk', begun, InFlight) /\ walk'.state = walk.state
  BY <1>1, <1>2, FlushSteady
<1>4. OrderInv' /\ Running' = Running
  BY <1>1, <1>3, WalkStepOrder
<1>5. Usable(walk') = Usable(walk)
  BY <1>3 DEF Usable
<1> QED BY <1>1, <1>4, <1>5, OrderStutters

\* Nor is there anything to hand out.
LEMMA DispatchNothingOrder ==
  ASSUME Quiet, WalkInv, OrderInv, DispatchNothing
  PROVE  OrderInv' /\ Ordering
<1>1. /\ pc = "dispatch"
      /\ UNCHANGED <<build, walk, requestQueue, resultsQueue, worker, begun>>
  BY DEF DispatchNothing, NoTaskNow, OnlyWalkAnd
<1>2. Steady(build, walk', begun, InFlight)
  BY <1>1 DEF OrderInv
<1>3. OrderInv' /\ Running' = Running
  BY <1>1, <1>2, WalkStepOrder
<1> QED BY <1>1, <1>3, OrderStutters

\* A signal stops the walk.
LEMMA SignalOrder ==
  ASSUME WrittenOnly(build), Quiet, WalkInv, OrderInv, Signal
  PROVE  OrderInv' /\ Ordering
<1>1. /\ pc # "end" /\ walk' = [walk EXCEPT !.stopped = TRUE]
      /\ UNCHANGED <<build, requestQueue, resultsQueue, worker, begun>>
  BY DEF Signal
<1>2. build \in Builds /\ Steady(build, walk, begun, InFlight)
  BY <1>1 DEF WalkInv, OrderInv
<1>3. Steady(build, walk', begun, InFlight) /\ walk'.state = walk.state
  BY <1>1, <1>2, StoppedSteady
<1>4. OrderInv' /\ Running' = Running
  BY <1>1, <1>3, WalkStepOrder
<1>5. Usable(walk') = Usable(walk)
  BY <1>3 DEF Usable
<1> QED BY <1>1, <1>4, <1>5, OrderStutters

\* The candidate whose task fails before its command.
LEMMA PrepareFailsPick ==
  ASSUME Quiet, WalkInv, PrepareFails
  PROVE  \E c \in Considered :
           /\ c.ready /\ c.node \in build.breaks \cup build.unscannable
           /\ \E w \in {c.walk} \cup MadeReady(c.walk, c.node) :
                walk' \in FailedTask(build, w, build.targets[c.node])
<1>1. PICK c \in Considered :
        /\ c.ready /\ (c.raised \/ c.node \in build.breaks)
        /\ \E w \in {c.walk} \cup MadeReady(c.walk, c.node) :
             walk' \in FailedTask(build, w, build.targets[c.node])
  BY DEF PrepareFails
<1>2. c.raised <=> c.node \in build.unscannable
  BY ConsideredQuiet
<1> QED BY <1>1, <1>2

\* The candidate for which nothing has to be run.
LEMMA NothingToRunPick ==
  ASSUME Quiet, WalkInv, NothingToRun
  PROVE  \E c \in Considered :
           /\ c.ready /\ c.node \notin build.unscannable
           /\ LET T == build.targets[c.node]
                  w == MakeReady(build, c.walk, T, TRUE)
                  source == c.node \notin build.builder
                  missing == /\ source /\ c.node \in Range(build.top) \cap build.fails
                             /\ \A t \in Node : c.node \notin build.side_effects[t]
              IN /\ source \/ T \subseteq build.present
                 /\ walk' \in IF missing THEN FailedTask(build, w, T)
                              ELSE DoneTask(build, w, T)
<1>1. PICK c \in Considered :
        /\ c.ready /\ ~c.raised
        /\ LET T == build.targets[c.node]
               w == MakeReady(build, c.walk, T, TRUE)
               source == c.node \notin build.builder
               missing == /\ source /\ c.node \in Range(build.top) \cap build.fails
                          /\ \A t \in Node : c.node \notin build.side_effects[t]
           IN /\ source \/ T \subseteq build.present
              /\ walk' \in IF missing THEN FailedTask(build, w, T)
                           ELSE DoneTask(build, w, T)
  BY DEF NothingToRun
<1>2. c.raised <=> c.node \in build.unscannable
  BY ConsideredQuiet
<1> QED BY <1>1, <1>2

\* A task fails before its command.
LEMMA PrepareFailsOrder ==
  ASSUME Orderly(build), Quiet, WalkInv, OrderInv, PrepareFails
  PROVE  OrderInv' /\ Ordering
<1>1. PICK c \in Considered :
        /\ c.ready /\ c.node \in build.breaks \cup build.unscannable
        /\ \E w \in {c.walk} \cup MadeReady(c.walk, c.node) :
             walk' \in FailedTask(build, w, build.targets[c.node])
  BY PrepareFailsPick
<1>2. PICK x \in {c.walk} \cup MadeReady(c.walk, c.node) :
        walk' \in FailedTask(build, x, build.targets[c.node])
  BY <1>1
<1> DEFINE w == c.walk
           n == c.node
           T == build.targets[n]
<1>3. UNCHANGED <<build, pc, requestQueue, resultsQueue, worker, begun>>
  BY DEF PrepareFails, StillDispatching, OnlyWalkAnd
<1>4. /\ WrittenOnly(build) /\ build \in Builds
      /\ build.on_error = "ignore" => build.breaks \cup build.unscannable = {}
      /\ \A k \in build.unscannable : SideEffects(build, build.targets[k]) = {}
  BY DEF Orderly, WalkInv
<1>5. /\ pc = "dispatch" /\ n \in Node /\ n \in Asked(build)
      /\ Steady(build, w, begun, InFlight) /\ Usable(w) = Usable(walk)
      /\ \A U \in InFlight : \A t \in U : w.state[t] = walk.state[t]
      /\ ~(w.state[n] > Pending)
      /\ n \notin build.unscannable =>
           \A s \in SideEffects(build, T) : w.state[s] # Executing
  BY <1>1, <1>4, ConsideredSteady
<1>6. Sound(build, w) /\ w \in WalkType /\ w.current_top \in Node
  BY <1>5, ConsideredQuiet DEF Steady, Sound
<1>7. x = w \/ x = FoundCurrent(build, w, T) \/ x = Started(build, w, T)
  BY <1>2 DEF MadeReady, FoundCurrent, Started
<1>8. \A s \in SideEffects(build, T) : w.state[s] # Executing
  BY <1>4, <1>5
<1>9. walk' \in FailedTask(build, x, T)
  BY <1>2
<1>10. build.on_error # "ignore"
  BY <1>1, <1>4
<1>11. T = build.targets[n]
  OBVIOUS
<1>12. IsTask(build, T)
  BY <1>5 DEF IsTask, Known
<1> HIDE DEF w, n, T
<1>13. Sound(build, x) /\ MayFail(build, w, x, InFlight, T)
  BY <1>4, <1>5, <1>7, <1>8, <1>11, PreparedMayFail
<1>14. x.current_top \in Node
  BY <1>6, <1>13 DEF MayFail
<1>15. /\ Steady(build, walk', begun, InFlight) /\ Usable(walk') = Usable(w)
       /\ \A U \in InFlight : \A t \in U : walk'.state[t] = w.state[t]
  BY <1>4, <1>5, <1>9, <1>10, <1>12, <1>13, <1>14, FailedSteady
<1>16. /\ Usable(walk') = Usable(walk)
       /\ \A U \in InFlight : \A t \in U : walk'.state[t] = walk.state[t]
  BY <1>5, <1>15
<1>17. OrderInv' /\ Running' = Running
  BY <1>3, <1>5, <1>15, <1>16, WalkStepOrder
<1> QED BY <1>3, <1>16, <1>17, OrderStutters

\* An error that is ignored is none.
LEMMA IgnoredIsDone ==
  ASSUME NEW g \in Builds, NEW w, NEW T, NEW v \in FailedTask(g, w, T),
         g.on_error = "ignore"
  PROVE  v \in DoneTask(g, w, T)
<1>1. v \in Postprocess(g, ExecutedTask(g, w, T), T)
  BY OutcomeCases
<1> QED BY <1>1 DEF DoneTask

\* What is up to date, or has no command, settles without one.
LEMMA NothingToRunOrder ==
  ASSUME Orderly(build), Quiet, WalkInv, OrderInv, NothingToRun
  PROVE  OrderInv' /\ Ordering
<1>1. PICK c \in Considered :
        /\ c.ready /\ c.node \notin build.unscannable
        /\ LET T == build.targets[c.node]
               w == MakeReady(build, c.walk, T, TRUE)
               source == c.node \notin build.builder
               missing == /\ source /\ c.node \in Range(build.top) \cap build.fails
                          /\ \A t \in Node : c.node \notin build.side_effects[t]
           IN /\ source \/ T \subseteq build.present
              /\ walk' \in IF missing THEN FailedTask(build, w, T)
                           ELSE DoneTask(build, w, T)
  BY NothingToRunPick
<1> DEFINE w == c.walk
           n == c.node
           T == build.targets[n]
           x == FoundCurrent(build, w, T)
<1>2. UNCHANGED <<build, pc, requestQueue, resultsQueue, worker, begun>>
  BY DEF NothingToRun, StillDispatching, OnlyWalkAnd
<1>3. WrittenOnly(build) /\ build \in Builds
  BY DEF Orderly, WalkInv
<1>4. /\ pc = "dispatch" /\ n \in Node /\ n \in Asked(build)
      /\ Steady(build, w, begun, InFlight) /\ Usable(w) = Usable(walk)
      /\ \A U \in InFlight : \A t \in U : w.state[t] = walk.state[t]
      /\ ~(w.state[n] > Pending)
      /\ Deps(build, T) \subseteq Usable(w)
      /\ \A s \in SideEffects(build, T) : w.state[s] # Executing
  BY <1>1, <1>3, ConsideredSteady
<1>5. w.current_top \in Node /\ T \in SUBSET Node
  BY <1>4, ConsideredQuiet
<1>6. n \notin build.builder \/ T \subseteq build.present
  BY <1>1
<1>7. walk' \in FailedTask(build, x, T) \/ walk' \in DoneTask(build, x, T)
  BY <1>1 DEF FoundCurrent
<1>8. \/ walk' \in DoneTask(build, x, T)
      \/ build.on_error # "ignore" /\ walk' \in FailedTask(build, x, T)
  <2> HIDE DEF x, T
  <2> QED BY <1>3, <1>7, IgnoredIsDone
<1>9. T = build.targets[n] /\ x = FoundCurrent(build, w, T) /\ IsTask(build, T)
  BY <1>4 DEF IsTask, Known
<1> HIDE DEF w, n, T, x
<1>10. Sound(build, x) /\ MayFail(build, w, x, InFlight, T)
  BY <1>3, <1>4, <1>9, PreparedMayFail
<1>11. CASE walk' \in DoneTask(build, x, T)
  <2>1. /\ Steady(build, x, begun, InFlight) /\ Usable(x) = Usable(w) \cup T
        /\ \A U \in InFlight : \A t \in U : x.state[t] = w.state[t]
    BY <1>3, <1>4, <1>6, <1>9, CurrentSteady
  <2>2. MayEnd(build, x, InFlight, T)
    BY <1>4, <1>10, <2>1 DEF MayEnd, MayFail
  <2>3. /\ Steady(build, walk', begun, InFlight) /\ Usable(walk') = Usable(x) \cup T
        /\ \A U \in InFlight : \A t \in U : walk'.state[t] = x.state[t]
    BY <1>3, <1>9, <1>11, <2>1, <2>2, DoneSteady
  <2>4. /\ Usable(walk') = Usable(walk) \cup T
        /\ \A U \in InFlight : \A t \in U : walk'.state[t] = walk.state[t]
    BY <1>4, <2>1, <2>3
  <2>5. OrderInv' /\ Running' = Running
    BY <1>2, <1>4, <2>3, <2>4, WalkStepOrder
  <2>6. T \cap UNION Running = {}
    <3>1. Running \subseteq InFlight
      BY RunningInFlight DEF WalkInv
    <3>2. \A U \in InFlight : \A t \in T : t \notin U
      BY <1>10 DEF MayFail
    <3> QED BY <3>1, <3>2
  <2> QED BY <1>2, <1>4, <1>5, <2>4, <2>5, <2>6, OrderSettles
<1>12. CASE build.on_error # "ignore" /\ walk' \in FailedTask(build, x, T)
  <2>1. x.current_top \in Node
    BY <1>5, <1>10 DEF MayFail
  <2>2. /\ Steady(build, walk', begun, InFlight) /\ Usable(walk') = Usable(w)
        /\ \A U \in InFlight : \A t \in U : walk'.state[t] = w.state[t]
    BY <1>3, <1>4, <1>9, <1>10, <1>12, <2>1, FailedSteady
  <2>3. /\ Usable(walk') = Usable(walk)
        /\ \A U \in InFlight : \A t \in U : walk'.state[t] = walk.state[t]
    BY <1>4, <2>2
  <2>4. OrderInv' /\ Running' = Running
    BY <1>2, <1>4, <2>2, <2>3, WalkStepOrder
  <2> QED BY <1>2, <2>3, <2>4, OrderStutters
<1> QED BY <1>8, <1>11, <1>12

\* What is known of a task that is about to be given out.
LEMMA ReadySteady ==
  ASSUME WrittenOnly(build), Quiet, WalkInv, OrderInv, NEW c \in Ready,
         NEW T, T = build.targets[c.node], NEW v, v = Started(build, c.walk, T)
  PROVE  /\ pc = "dispatch" /\ T \in SUBSET Node
         /\ Steady(build, v, begun, InFlight \cup {T}) /\ Usable(v) = Usable(walk)
         /\ \A U \in InFlight : \A t \in U : v.state[t] = walk.state[t]
         /\ Waits(v, begun, T)
         /\ \A U \in InFlight : Separate(build, U, T)
<1> DEFINE w == c.walk
           n == c.node
<1>1. c \in Considered /\ c.ready /\ n \in build.builder /\ n \notin build.unscannable
  BY ConsideredQuiet DEF Ready
<1>2. build \in Builds
  BY DEF WalkInv
<1>3. /\ pc = "dispatch" /\ n \in Node /\ ~w.stopped
      /\ Steady(build, w, begun, InFlight) /\ Usable(w) = Usable(walk)
      /\ \A U \in InFlight : \A t \in U : w.state[t] = walk.state[t]
      /\ ~(w.state[n] > Pending)
      /\ Deps(build, T) \subseteq Usable(w)
      /\ \A s \in SideEffects(build, T) : w.state[s] # Executing
  BY <1>1, ConsideredSteady
<1>4. v = Started(build, w, T) /\ T = build.targets[n]
  OBVIOUS
<1> HIDE DEF w, n
<1>5. /\ Steady(build, v, begun, InFlight \cup {T}) /\ Usable(v) = Usable(w)
      /\ \A U \in InFlight : \A t \in U : v.state[t] = w.state[t]
      /\ \A t \in T : v.state[t] = Executing
  <2>1. LET z == Started(build, w, T) IN
        /\ Steady(build, z, begun, InFlight \cup {T}) /\ Usable(z) = Usable(w)
        /\ \A U \in InFlight : \A t \in U : z.state[t] = w.state[t]
        /\ \A t \in T : z.state[t] = Executing
    BY <1>1, <1>2, <1>3, <1>4, StartedSteady
  <2> QED BY <1>4, <2>1
<1>6. \A t \in T : t \in Node /\ t \notin begun /\ \A U \in InFlight : t \notin U
  BY <1>2, <1>3, <1>4, CandidateFree
<1>7. MayFail(build, w, v, InFlight, T)
  BY <1>2, <1>3, <1>4, PreparedMayFail
<1>8. \A U \in InFlight : Separate(build, U, T)
  BY <1>3, <1>6, <1>7 DEF MayFail, Separate
<1>9. Waits(v, begun, T)
  BY <1>5, <1>6 DEF Waits, AllAre
<1> QED BY <1>3, <1>5, <1>6, <1>8, <1>9

-----------------------------------------------------------------------------
(* Handing a task over.                                                    *)

\* The targets of T are as they were.
Kept(T) == \A t \in T : walk'.state[t] = walk.state[t] /\ (t \in begun' <=> t \in begun)

\* Tasks whose targets are as they were stay where they are.
LEMMA StagesKept ==
  ASSUME Stages, build' = build
  PROVE  /\ \A i \in 1 .. Len(requestQueue) : Kept(requestQueue[i].task) =>
              Waits(walk', begun', requestQueue[i].task)
         /\ \A i \in 1 .. Len(resultsQueue) : Kept(resultsQueue[i].task) =>
              Answers(walk', begun', resultsQueue[i].task, resultsQueue[i].ok)
         /\ \A x \in Thread : Kept(TaskOf(x)) =>
              /\ Is(x, "fetch") =>
                   Fetches(build', walk', begun', TaskOf(x), worker[x].got)
              /\ Is(x, "run") => Runs(walk', begun', TaskOf(x))
<1>1. ASSUME NEW T, Kept(T)
      PROVE  /\ Waits(walk, begun, T) => Waits(walk', begun', T)
             /\ Runs(walk, begun, T) => Runs(walk', begun', T)
             /\ \A got : Fetches(build, walk, begun, T, got)
                           => Fetches(build', walk', begun', T, got)
             /\ \A ok : Answers(walk, begun, T, ok) => Answers(walk', begun', T, ok)
  BY <1>1 DEF Kept, Waits, Runs, Fetches, Answers, AllAre
<1> QED BY <1>1 DEF Stages

\* One thread changes what it does; the others go on.
LEMMA OneThread ==
  ASSUME WalkInv, NEW x \in Thread, NEW d, worker' = [worker EXCEPT ![x] = d]
  PROVE  /\ worker'[x] = d
         /\ \A y \in Thread : y # x =>
              /\ worker'[y] = worker[y] /\ TaskOf(y)' = TaskOf(y)
              /\ (Working(y)' <=> Working(y)) /\ \A a : (Is(y, a)' <=> Is(y, a))
<1>1. worker = [y \in Thread |-> worker[y]]
  BY DEF WalkInv
<1> QED BY <1>1 DEF TaskOf, Working, Is

\* A task goes to the workers.
LEMMA DispatchOrder ==
  ASSUME Orderly(build), Quiet, WalkInv, OrderInv, Dispatch
  PROVE  OrderInv' /\ Ordering
<1>1. PICK c \in Ready :
        /\ walk' = MakeReady(build, c.walk, build.targets[c.node], FALSE)
        /\ requestQueue' = Append(requestQueue, Request(build.targets[c.node]))
  BY DEF Dispatch
<1> DEFINE T == build.targets[c.node]
           e == Request(T)
<1>2. UNCHANGED <<build, resultsQueue, worker, begun>>
  BY DEF Dispatch, OnlyWalkAnd
<1>3. WrittenOnly(build) /\ IsQueue(requestQueue)
  BY DEF Orderly, WalkInv
<1>4. walk' = Started(build, c.walk, T) /\ T = build.targets[c.node]
  BY <1>1 DEF Started
<1>5. requestQueue' = Append(requestQueue, e) /\ e.task = T
  BY <1>1 DEF Request
<1> HIDE DEF T, e
<1>6. /\ pc = "dispatch" /\ T \in SUBSET Node
      /\ Steady(build, walk', begun, InFlight \cup {T}) /\ Usable(walk') = Usable(walk)
      /\ \A U \in InFlight : \A t \in U : walk'.state[t] = walk.state[t]
      /\ Waits(walk', begun, T)
      /\ \A U \in InFlight : Separate(build, U, T)
  BY <1>3, <1>4, ReadySteady
<1>7. /\ \A i \in 1 .. Len(requestQueue') :
           \/ i \in 1 .. Len(requestQueue) /\ requestQueue'[i] = requestQueue[i]
           \/ requestQueue'[i] = e
      /\ TasksIn(requestQueue') = TasksIn(requestQueue) \cup {T}
      /\ \A U : Off(build, requestQueue, U) /\ Separate(build, T, U)
                  => Off(build, requestQueue', U)
      /\ Spread(build, requestQueue) /\ Off(build, requestQueue, T)
           => Spread(build, requestQueue')
  BY <1>3, <1>5, AppendTasks
<1>8. InFlight' = InFlight \cup {T}
  BY <1>2, <1>7 DEF InFlight, TasksIn, AtWork, Working, TaskOf
<1>9. Stages /\ Separated
  BY <1>6 DEF OrderInv
<1>10. \A U \in InFlight : Kept(U)
  BY <1>2, <1>6 DEF Kept
<1>11. Stages'
  <2>1. \A i \in 1 .. Len(requestQueue) : Waits(walk', begun', requestQueue[i].task)
    BY <1>2, <1>9, <1>10, FlightPlaces, StagesKept
  <2>2. \A i \in 1 .. Len(requestQueue') : Waits(walk', begun', requestQueue'[i].task)
    BY <1>2, <1>5, <1>6, <1>7, <2>1
  <2>3. \A i \in 1 .. Len(resultsQueue') :
          Answers(walk', begun', resultsQueue'[i].task, resultsQueue'[i].ok)
    BY <1>2, <1>9, <1>10, FlightPlaces, StagesKept
  <2>4. ASSUME NEW x \in Thread
        PROVE  /\ Is(x, "fetch") => Fetches(build', walk', begun', TaskOf(x), worker[x].got)
               /\ Is(x, "run") => Runs(walk', begun', TaskOf(x))
    <3>1. Is(x, "fetch") \/ Is(x, "run") => TaskOf(x) \in InFlight
      BY FlightPlaces DEF Is, Working
    <3> QED BY <1>2, <1>9, <1>10, <3>1, StagesKept
  <2> QED BY <1>2, <2>2, <2>3, <2>4 DEF Stages, Is, TaskOf
<1>12. Separated'
  <2>1. \A U \in InFlight : Separate(build, U, T) /\ Separate(build, T, U)
    BY <1>6, SeparateSymmetric
  <2>2. Off(build, requestQueue, T)
    BY <2>1, FlightPlaces DEF Off
  <2>3. Spread(build, requestQueue')
    BY <1>7, <1>9, <2>2 DEF Separated
  <2>4. \A i \in 1 .. Len(resultsQueue) : Off(build, requestQueue', resultsQueue[i].task)
    BY <1>7, <1>9, <2>1, FlightPlaces DEF Separated
  <2>5. \A x \in Thread : Working(x) => Off(build, requestQueue', TaskOf(x))
    BY <1>7, <1>9, <2>1, FlightPlaces DEF Separated
  <2> QED BY <1>2, <1>9, <2>3, <2>4, <2>5 DEF Separated, Working, TaskOf
<1>13. OrderInv'
  BY <1>2, <1>6, <1>8, <1>11, <1>12 DEF OrderInv
<1>14. Running' = Running
  BY <1>2 DEF Running, TaskOf, Is
<1> QED BY <1>2, <1>6, <1>13, <1>14, OrderStutters

\* The main thread executes a task itself.
LEMMA ExecuteOrder ==
  ASSUME Orderly(build), CountInv, Quiet, WalkInv, OrderInv, Execute
  PROVE  OrderInv' /\ Ordering
<1>1. PICK c \in Ready :
        /\ walk' = MakeReady(build, c.walk, build.targets[c.node], FALSE)
        /\ worker' = [worker EXCEPT ![None] = Doing("fetch", build.targets[c.node], {})]
  BY DEF Execute
<1> DEFINE T == build.targets[c.node]
<1>2. UNCHANGED <<build, requestQueue, resultsQueue, begun>> /\ pc' = "execute"
  BY DEF Execute, OnlyWalkAnd
<1>3. WrittenOnly(build) /\ None \in Thread
  BY DEF Orderly, Thread
<1>4. walk' = Started(build, c.walk, T) /\ T = build.targets[c.node]
  BY <1>1 DEF Started
<1>5. worker' = [worker EXCEPT ![None] = Doing("fetch", T, {})]
  BY <1>1
<1> HIDE DEF T
<1>6. /\ pc = "dispatch" /\ T \in SUBSET Node
      /\ Steady(build, walk', begun, InFlight \cup {T}) /\ Usable(walk') = Usable(walk)
      /\ \A U \in InFlight : \A t \in U : walk'.state[t] = walk.state[t]
      /\ Waits(walk', begun, T)
      /\ \A U \in InFlight : Separate(build, U, T)
  BY <1>3, <1>4, ReadySteady
<1>7. /\ worker'[None] = Doing("fetch", T, {})
      /\ \A y \in Thread : y # None =>
           /\ worker'[y] = worker[y] /\ TaskOf(y)' = TaskOf(y)
           /\ (Working(y)' <=> Working(y)) /\ \A a : (Is(y, a)' <=> Is(y, a))
  BY <1>3, <1>5, OneThread
<1>8. /\ Working(None)' /\ TaskOf(None)' = T /\ worker'[None].got = {}
      /\ ~Is(None, "run")' /\ ~Working(None) /\ ~Is(None, "run") /\ ~Is(None, "fetch")
  BY <1>6, <1>7 DEF Working, TaskOf, Is, Doing, CountInv
<1>9. InFlight' = InFlight \cup {T}
  <2>1. AtWork' = AtWork \cup {T}
    BY <1>3, <1>7, <1>8 DEF AtWork
  <2> QED BY <1>2, <2>1 DEF InFlight, TasksIn
<1>10. Stages /\ Separated
  BY <1>6 DEF OrderInv
<1>11. \A U \in InFlight : Kept(U)
  BY <1>2, <1>6 DEF Kept
<1>12. Stages'
  <2>1. \A i \in 1 .. Len(requestQueue') : Waits(walk', begun', requestQueue'[i].task)
    BY <1>2, <1>10, <1>11, FlightPlaces, StagesKept
  <2>2. \A i \in 1 .. Len(resultsQueue') :
          Answers(walk', begun', resultsQueue'[i].task, resultsQueue'[i].ok)
    BY <1>2, <1>10, <1>11, FlightPlaces, StagesKept
  <2>3. ASSUME NEW x \in Thread
        PROVE  /\ Is(x, "fetch")' =>
                    Fetches(build', walk', begun', TaskOf(x)', worker'[x].got)
               /\ Is(x, "run")' => Runs(walk', begun', TaskOf(x)')
    <3>1. CASE x = None
      <4>1. Fetches(build', walk', begun', T, {})
        BY <1>2, <1>6 DEF Waits, Fetches, AllAre
      <4> QED BY <1>8, <3>1, <4>1
    <3>2. CASE x # None
      <4>1. Is(x, "fetch") \/ Is(x, "run") => TaskOf(x) \in InFlight
        BY FlightPlaces DEF Is, Working
      <4> QED BY <1>2, <1>7, <1>10, <1>11, <3>2, <4>1, StagesKept
    <3> QED BY <3>1, <3>2
  <2> QED BY <2>1, <2>2, <2>3 DEF Stages
<1>13. Separated'
  <2>1. \A U \in InFlight : Separate(build, U, T) /\ Separate(build, T, U)
    BY <1>6, SeparateSymmetric
  <2>2. Off(build, requestQueue, T) /\ Off(build, resultsQueue, T)
    BY <2>1, FlightPlaces DEF Off
  <2>3. \A x \in Thread : Working(x)' =>
          Off(build, requestQueue, TaskOf(x)') /\ Off(build, resultsQueue, TaskOf(x)')
    BY <1>7, <1>8, <1>10, <2>2 DEF Separated
  <2>4. \A x \in Thread : Working(x)' => x = None \/ TaskOf(x)' \in InFlight
    BY <1>7, FlightPlaces
  <2>5. ASSUME NEW x \in Thread, NEW y \in Thread, x # y, Working(x)', Working(y)'
        PROVE  Separate(build, TaskOf(x)', TaskOf(y)')
    <3>1. CASE x = None
      BY <1>8, <2>1, <2>4, <2>5, <3>1
    <3>2. CASE y = None
      BY <1>8, <2>1, <2>4, <2>5, <3>2
    <3>3. CASE x # None /\ y # None
      BY <1>7, <1>10, <2>5, <3>3 DEF Separated
    <3> QED BY <3>1, <3>2, <3>3
  <2> QED BY <1>2, <1>10, <2>3, <2>5 DEF Separated
<1>14. OrderInv'
  BY <1>2, <1>6, <1>9, <1>12, <1>13 DEF OrderInv
<1>15. Running' = Running
  BY <1>2, <1>3, <1>7, <1>8 DEF Running
<1> QED BY <1>2, <1>6, <1>14, <1>15, OrderStutters

-----------------------------------------------------------------------------
(* The end of a task.                                                      *)

\* Where the tasks in flight are after a step; a command that runs is one.
LEMMA FlightPlacesNext ==
  /\ \A i \in 1 .. Len(requestQueue') : requestQueue'[i].task \in InFlight'
  /\ \A i \in 1 .. Len(resultsQueue') : resultsQueue'[i].task \in InFlight'
  /\ \A x \in Thread : Working(x)' => TaskOf(x)' \in InFlight'
  /\ \A T \in InFlight' :
       \/ \E i \in 1 .. Len(requestQueue') : T = requestQueue'[i].task
       \/ \E i \in 1 .. Len(resultsQueue') : T = resultsQueue'[i].task
       \/ \E x \in Thread : Working(x)' /\ T = TaskOf(x)'
  /\ IsQueue(resultsQueue') => Running' \subseteq InFlight'
<1>1. /\ \A i \in 1 .. Len(requestQueue') : requestQueue'[i].task \in InFlight'
      /\ \A i \in 1 .. Len(resultsQueue') : resultsQueue'[i].task \in InFlight'
      /\ \A x \in Thread : Working(x)' => TaskOf(x)' \in InFlight'
      /\ \A T \in InFlight' :
           \/ \E i \in 1 .. Len(requestQueue') : T = requestQueue'[i].task
           \/ \E i \in 1 .. Len(resultsQueue') : T = resultsQueue'[i].task
           \/ \E x \in Thread : Working(x)' /\ T = TaskOf(x)'
  BY DEF InFlight, TasksIn, AtWork
<1>2. ASSUME IsQueue(resultsQueue') PROVE Running' \subseteq InFlight'
  <2>1. Running' = RunningIn(worker', resultsQueue', begun')
    BY <1>2, RunningFacts
  <2>2. \A x \in Thread : worker'[x].at = "run" => Working(x)'
    BY DEF Working
  <2> QED BY <1>1, <2>1, <2>2 DEF RunningIn, TaskOf
<1> QED BY <1>1, <1>2

\* The walk after a task has ended; every other task stays as it was.
LEMMA OutcomeSteady ==
  ASSUME Orderly(build), Quiet, WalkInv, OrderInv, pc # "end",
         NEW T \in InFlight, NEW F \in SUBSET InFlight, \A U \in F : Separate(build, U, T),
         NEW ok, Answers(walk, begun, T, ok),
         NEW v \in Outcome(T, ok), walk.current_top \in Node
  PROVE  /\ Steady(build, v, begun, F)
         /\ Usable(v) \in {Usable(walk), Usable(walk) \cup T}
         /\ \A U \in F : \A t \in U : v.state[t] = walk.state[t]
<1>1. /\ build \in Builds /\ WrittenOnly(build) /\ Sound(build, walk)
      /\ Steady(build, walk, begun, InFlight)
  BY DEF WalkInv, OrderInv, Orderly
<1>2. /\ T \in SUBSET Node /\ IsTask(build, T) /\ Deps(build, T) \subseteq Usable(walk)
  BY <1>1, FlightFacts
<1>3. Steady(build, walk, begun, F)
  BY <1>1, FewerSteady
<1>4. /\ \A U \in F : \A t \in T : t \notin U
      /\ \A U \in F : SideEffects(build, T) \cap SideEffects(build, U) = {}
  BY DEF Separate
<1>5. \/ T \subseteq Usable(walk) /\ ok
      \/ \A t \in T : walk.state[t] = Executing
  <2>1. \/ \A t \in T : walk.state[t] = Executing
        \/ ok /\ \A t \in T : walk.state[t] = Executed
    BY DEF Answers, Runs, AllAre
  <2> QED BY <1>2, <2>1 DEF Usable
<1>6. MayEnd(build, walk, F, T)
  BY <1>2, <1>4, <1>5 DEF MayEnd
<1>7. \/ v \in DoneTask(build, walk, T)
      \/ build.on_error # "ignore" /\ ~ok /\ v \in FailedTask(build, walk, T)
  BY <1>1, IgnoredIsDone DEF Outcome
<1>8. CASE v \in DoneTask(build, walk, T)
  <2>1. /\ Steady(build, v, begun, F) /\ Usable(v) = Usable(walk) \cup T
        /\ \A U \in F : \A t \in U : v.state[t] = walk.state[t]
    BY <1>1, <1>2, <1>3, <1>6, <1>8, DoneSteady
  <2> QED BY <2>1
<1>9. CASE build.on_error # "ignore" /\ ~ok /\ v \in FailedTask(build, walk, T)
  <2>1. \A t \in T : t \notin Usable(walk)
    BY <1>5, <1>9 DEF Usable, Executing, UpToDate, Executed
  <2>2. MayFail(build, walk, walk, F, T)
    BY <1>4, <2>1 DEF MayFail
  <2>3. /\ Steady(build, v, begun, F) /\ Usable(v) = Usable(walk)
        /\ \A U \in F : \A t \in U : v.state[t] = walk.state[t]
    BY <1>1, <1>2, <1>3, <1>9, <2>2, FailedSteady
  <2> QED BY <2>3
<1> QED BY <1>7, <1>8, <1>9

\* The task leaves the commands that run, if its command was started.
Leaves(T) ==
  IF T \subseteq begun THEN T \in Running /\ Running' = Running \ {T}
  ELSE Running' = Running

\* The end of a task is that of its command, or it settles.
LEMMA OutcomeOrder ==
  ASSUME Orderly(build), Quiet, WalkInv, WalkInv', OrderInv, pc # "end",
         NEW T \in InFlight, NEW ok, Answers(walk, begun, T, ok),
         walk' \in Outcome(T, ok), walk.current_top \in Node,
         UNCHANGED <<build, begun>>, InFlight' \subseteq InFlight,
         \A U \in InFlight' : Separate(build, U, T), Leaves(T)
  PROVE  /\ Steady(build', walk', begun', InFlight')
         /\ \A U \in InFlight' : Kept(U)
         /\ Ordering
<1>1. /\ Steady(build, walk', begun, InFlight')
      /\ Usable(walk') \in {Usable(walk), Usable(walk) \cup T}
      /\ \A U \in InFlight' : \A t \in U : walk'.state[t] = walk.state[t]
  BY OutcomeSteady
<1>2. \A U \in InFlight' : Kept(U)
  BY <1>1 DEF Kept
<1>3. T \in SUBSET Node /\ Deps(build, T) \subseteq Usable(walk)
  BY FlightFacts DEF OrderInv
<1>4. Ordering
  <2>1. CASE T \subseteq begun
    BY <1>1, <2>1, OrderEnds DEF Leaves
  <2>2. CASE ~(T \subseteq begun)
    <3>1. Running' = Running /\ Running' \subseteq InFlight'
      BY <2>2, FlightPlacesNext DEF Leaves, WalkInv
    <3>2. T \cap UNION Running = {}
      BY <3>1 DEF Separate
    <3>3. CASE Usable(walk') = Usable(walk)
      BY <3>1, <3>3, OrderStutters
    <3>4. CASE Usable(walk') = Usable(walk) \cup T
      BY <1>3, <3>1, <3>2, <3>4, OrderSettles
    <3> QED BY <1>1, <3>3, <3>4
  <2> QED BY <2>1, <2>2
<1> QED BY <1>1, <1>2, <1>4

\* Tasks that are apart are different.
LEMMA SeparateDiffers ==
  ASSUME NEW g, NEW T, NEW U, Separate(g, U, T), T # {}
  PROVE  U # T
BY DEF Separate

\* A result is collected.
LEMMA CollectOrder ==
  ASSUME Orderly(build), Quiet, WalkInv, WalkInv', OrderInv, Collect
  PROVE  OrderInv' /\ Ordering
<1> DEFINE T == resultsQueue[1].task
           ok == resultsQueue[1].ok
<1>1. /\ pc = "collect" /\ resultsQueue # <<>>
      /\ walk' \in Outcome(Head(resultsQueue).task, Head(resultsQueue).ok)
      /\ resultsQueue' = Tail(resultsQueue)
      /\ UNCHANGED <<build, requestQueue, worker, begun>>
  BY DEF Collect
<1>2. Stages /\ Separated /\ Steady(build, walk, begun, InFlight) /\ IsQueue(resultsQueue)
  BY <1>1 DEF OrderInv, WalkInv
<1>3. /\ Head(resultsQueue) = resultsQueue[1] /\ 1 \in 1 .. Len(resultsQueue)
      /\ \A i \in 1 .. Len(resultsQueue') :
           i + 1 \in 1 .. Len(resultsQueue) /\ resultsQueue'[i] = resultsQueue[i + 1]
      /\ TasksIn(resultsQueue) = TasksIn(resultsQueue') \cup {T}
      /\ \A U : Off(build, resultsQueue, U)
                  <=> Off(build, resultsQueue', U) /\ Separate(build, T, U)
      /\ Spread(build, resultsQueue)
           => Spread(build, resultsQueue') /\ Off(build, resultsQueue', T)
  BY <1>1, <1>2, TailTasks
<1>4. /\ walk' \in Outcome(T, ok) /\ T \in InFlight /\ Answers(walk, begun, T, ok)
      /\ walk.current_top \in Node
  <2>1. walk' \in Outcome(T, ok)
    BY <1>1, <1>3
  <2>2. T \in InFlight
    BY <1>3, FlightPlaces
  <2>3. Answers(walk, begun, T, ok)
    BY <1>2, <1>3 DEF Stages
  <2>4. walk.current_top \in Node
    BY <1>1 DEF WalkInv, Topped
  <2> QED BY <2>1, <2>2, <2>3, <2>4
<1>5. T # {} /\ \A U : Separate(build, U, T) => U # T
  BY <1>2, <1>4, FlightFacts, SeparateDiffers
<1>6. /\ Off(build, requestQueue, T) /\ Off(build, resultsQueue', T)
      /\ \A x \in Thread : Working(x) => Separate(build, TaskOf(x), T)
  <2>1. Off(build, requestQueue, T) /\ Off(build, resultsQueue', T)
    BY <1>2, <1>3 DEF Separated
  <2>2. \A x \in Thread : Working(x) => Separate(build, TaskOf(x), T)
    BY <1>2, <1>3, SeparateSymmetric DEF Separated
  <2> QED BY <2>1, <2>2
<1>7. InFlight' \subseteq InFlight
  BY <1>1, <1>3 DEF InFlight, TasksIn, AtWork, Working, TaskOf
<1>8. \A U \in InFlight' : Separate(build, U, T)
  <2>1. \A i \in 1 .. Len(requestQueue') : Separate(build, requestQueue'[i].task, T)
    BY <1>1, <1>6 DEF Off
  <2>2. \A i \in 1 .. Len(resultsQueue') : Separate(build, resultsQueue'[i].task, T)
    BY <1>6 DEF Off
  <2>3. \A x \in Thread : Working(x)' => Separate(build, TaskOf(x)', T)
    BY <1>1, <1>6 DEF Working, TaskOf
  <2> QED BY <2>1, <2>2, <2>3, FlightPlacesNext
<1>9. Leaves(T)
  <2>1. /\ Running = RunningIn(worker, resultsQueue, begun)
        /\ Running' = RunningIn(worker, resultsQueue', begun)
        /\ Running' \subseteq InFlight'
    BY <1>1, <1>2, RunningFacts, FlightPlacesNext DEF WalkInv
  <2>2. T \notin Running'
    BY <1>5, <1>8, <2>1
  <2>3. \A i \in 1 .. Len(resultsQueue) :
          i = 1 \/ \E j \in 1 .. Len(resultsQueue') : resultsQueue[i] = resultsQueue'[j]
    <3>1. Len(resultsQueue) \in Nat /\ Len(resultsQueue') = Len(resultsQueue) - 1
      BY <1>1, <1>2, TailFacts
    <3>2. \A i \in 1 .. Len(resultsQueue) :
            i # 1 => i - 1 \in 1 .. Len(resultsQueue') /\ (i - 1) + 1 = i
      BY <3>1
    <3> QED BY <1>3, <3>2
  <2>4. \A U : U \in Running' => U \in Running
    BY <1>3, <2>1 DEF RunningIn
  <2>5. ASSUME NEW U \in Running
        PROVE  U \in Running' \/ (U = T /\ T \subseteq begun)
    <3>1. CASE \E x \in Thread : worker[x].at = "run" /\ U = worker[x].task
      BY <2>1, <3>1 DEF RunningIn
    <3>2. CASE \E i \in 1 .. Len(resultsQueue) :
                 resultsQueue[i].task \subseteq begun /\ U = resultsQueue[i].task
      BY <2>1, <2>3, <3>2 DEF RunningIn
    <3> QED BY <2>1, <3>1, <3>2 DEF RunningIn
  <2>6. T \subseteq begun => T \in Running
    BY <1>3, <2>1 DEF RunningIn
  <2> QED BY <2>2, <2>4, <2>5, <2>6 DEF Leaves
<1> HIDE DEF T, ok
<1>10. /\ Steady(build', walk', begun', InFlight')
       /\ \A U \in InFlight' : Kept(U)
       /\ Ordering
  BY <1>1, <1>4, <1>7, <1>8, <1>9, OutcomeOrder
<1>11. Stages'
  <2>1. \A i \in 1 .. Len(requestQueue') : Waits(walk', begun', requestQueue'[i].task)
    BY <1>1, <1>2, <1>10, FlightPlacesNext, StagesKept
  <2>2. ASSUME NEW i \in 1 .. Len(resultsQueue')
        PROVE  Answers(walk', begun', resultsQueue'[i].task, resultsQueue'[i].ok)
    <3>1. i + 1 \in 1 .. Len(resultsQueue) /\ resultsQueue'[i] = resultsQueue[i + 1]
      BY <1>3
    <3>2. Kept(resultsQueue[i + 1].task)
      BY <1>10, <3>1, FlightPlacesNext
    <3> QED BY <1>1, <1>2, <3>1, <3>2, StagesKept
  <2>3. ASSUME NEW x \in Thread
        PROVE  /\ Is(x, "fetch") => Fetches(build', walk', begun', TaskOf(x), worker[x].got)
               /\ Is(x, "run") => Runs(walk', begun', TaskOf(x))
    <3>1. Is(x, "fetch") \/ Is(x, "run") => TaskOf(x) \in InFlight'
      BY <1>1, FlightPlacesNext DEF Is, Working, TaskOf
    <3> QED BY <1>1, <1>2, <1>10, <3>1, StagesKept
  <2> QED BY <1>1, <2>1, <2>2, <2>3 DEF Stages, Is, TaskOf
<1>12. Separated'
  <2>1. Spread(build, resultsQueue')
    BY <1>2, <1>3 DEF Separated
  <2>2. \A i \in 1 .. Len(resultsQueue') : Off(build, requestQueue, resultsQueue'[i].task)
    BY <1>2, <1>3 DEF Separated
  <2>3. \A x \in Thread : Working(x) => Off(build, resultsQueue', TaskOf(x))
    BY <1>2, <1>3 DEF Separated
  <2> QED BY <1>1, <1>2, <2>1, <2>2, <2>3 DEF Separated, Working, TaskOf
<1> QED BY <1>10, <1>11, <1>12 DEF OrderInv

\* At the end nothing more is started.
LEMMA CleanupOrder ==
  ASSUME Cleanup
  PROVE  OrderInv' /\ Ordering
<1>1. pc' = "end" /\ UNCHANGED <<build, walk, resultsQueue, worker, begun>>
  BY DEF Cleanup
<1>2. Running' = Running /\ Usable(walk') = Usable(walk)
  BY <1>1 DEF Running, TaskOf, Is
<1> QED BY <1>1, <1>2, OrderStutters DEF OrderInv

-----------------------------------------------------------------------------
(* The threads that execute tasks.                                         *)

\* The main thread collects what it executed itself.
LEMMA ReportMainOrder ==
  ASSUME Orderly(build), Quiet, WalkInv, WalkInv', OrderInv, pc # "end",
         Working(None), NEW ok, Answers(walk, begun, TaskOf(None), ok),
         Is(None, "run") <=> TaskOf(None) \subseteq begun, Report(None, ok)
  PROVE  OrderInv' /\ Ordering
<1> DEFINE T == TaskOf(None)
<1>1. /\ worker' = [worker EXCEPT ![None] = Idle] /\ walk' \in Outcome(T, ok)
      /\ UNCHANGED <<build, requestQueue, resultsQueue, begun>> /\ None \in Thread
  BY DEF Report, UnchangedMain, Thread
<1>2. Stages /\ Separated /\ Steady(build, walk, begun, InFlight)
  BY DEF OrderInv
<1>3. /\ worker'[None] = Idle
      /\ \A y \in Thread : y # None =>
           /\ worker'[y] = worker[y] /\ TaskOf(y)' = TaskOf(y)
           /\ (Working(y)' <=> Working(y)) /\ \A a : (Is(y, a)' <=> Is(y, a))
  BY <1>1, OneThread
<1>4. ~Working(None)' /\ ~Is(None, "run")' /\ ~Is(None, "fetch")'
  BY <1>3 DEF Working, Is, Idle, Doing
<1>5. T \in InFlight /\ T # {} /\ \A U : Separate(build, U, T) => U # T
  BY <1>1, <1>2, FlightPlaces, FlightFacts, SeparateDiffers
<1>6. walk.current_top \in Node
  BY <1>1 DEF WalkInv, Topped
<1>7. InFlight' \subseteq InFlight
  <2>1. AtWork' \subseteq AtWork
    BY <1>3, <1>4 DEF AtWork
  <2> QED BY <1>1, <2>1 DEF InFlight, TasksIn
<1>8. \A U \in InFlight' : Separate(build, U, T)
  <2>1. \A i \in 1 .. Len(requestQueue') : Separate(build, requestQueue'[i].task, T)
    BY <1>1, <1>2 DEF Separated, Off
  <2>2. \A i \in 1 .. Len(resultsQueue') : Separate(build, resultsQueue'[i].task, T)
    BY <1>1, <1>2 DEF Separated, Off
  <2>3. \A x \in Thread : Working(x)' => Separate(build, TaskOf(x)', T)
    BY <1>1, <1>2, <1>3, <1>4 DEF Separated
  <2> QED BY <2>1, <2>2, <2>3, FlightPlacesNext
<1>9. Leaves(T)
  <2>1. Running' \subseteq InFlight'
    BY FlightPlacesNext DEF WalkInv
  <2>2. T \notin Running'
    BY <1>5, <1>8, <2>1
  <2>3. Collectable' = Collectable
    BY <1>1 DEF Collectable
  <2>4. \A U : U \in Running' => U \in Running
    BY <1>3, <1>4, <2>3, RunningParts
  <2>5. \A U : U \in Running => U \in Running' \/ (U = T /\ Is(None, "run"))
    BY <1>3, <2>3, RunningParts
  <2>6. Is(None, "run") => T \in Running
    BY <1>1, RunningParts
  <2> QED BY <2>2, <2>4, <2>5, <2>6 DEF Leaves
<1> HIDE DEF T
<1>10. /\ Steady(build', walk', begun', InFlight')
       /\ \A U \in InFlight' : Kept(U)
       /\ Ordering
  <2>1. Answers(walk, begun, T, ok)
    BY DEF T
  <2> QED BY <1>1, <1>5, <1>6, <1>7, <1>8, <1>9, <2>1, OutcomeOrder
<1>11. Stages'
  <2>1. \A i \in 1 .. Len(requestQueue') : Waits(walk', begun', requestQueue'[i].task)
    BY <1>1, <1>2, <1>10, FlightPlacesNext, StagesKept
  <2>2. \A i \in 1 .. Len(resultsQueue') :
          Answers(walk', begun', resultsQueue'[i].task, resultsQueue'[i].ok)
    BY <1>1, <1>2, <1>10, FlightPlacesNext, StagesKept
  <2>3. ASSUME NEW x \in Thread
        PROVE  /\ Is(x, "fetch")' =>
                    Fetches(build', walk', begun', TaskOf(x)', worker'[x].got)
               /\ Is(x, "run")' => Runs(walk', begun', TaskOf(x)')
    <3>1. CASE x = None
      BY <1>4, <3>1
    <3>2. CASE x # None
      <4>1. Is(x, "fetch") \/ Is(x, "run") => TaskOf(x) \in InFlight'
        BY <1>3, <3>2, FlightPlacesNext DEF Is, Working
      <4> QED BY <1>1, <1>2, <1>3, <1>10, <3>2, <4>1, StagesKept
    <3> QED BY <3>1, <3>2
  <2> QED BY <2>1, <2>2, <2>3 DEF Stages
<1>12. Separated'
  <2>1. \A x \in Thread : Working(x)' => /\ x # None /\ Working(x)
                                         /\ TaskOf(x)' = TaskOf(x)
    BY <1>3, <1>4
  <2>2. \A x \in Thread : Working(x)' =>
          Off(build, requestQueue, TaskOf(x)') /\ Off(build, resultsQueue, TaskOf(x)')
    BY <1>2, <2>1 DEF Separated
  <2>3. \A x, y \in Thread : x # y /\ Working(x)' /\ Working(y)' =>
          Separate(build, TaskOf(x)', TaskOf(y)')
    BY <1>2, <2>1 DEF Separated
  <2> QED BY <1>1, <1>2, <2>2, <2>3 DEF Separated
<1> QED BY <1>10, <1>11, <1>12 DEF OrderInv

\* With one more result.
LEMMA CollectableAppended ==
  ASSUME IsQueue(resultsQueue), NEW r, resultsQueue' = Append(resultsQueue, r),
         begun' = begun
  PROVE  \A U : U \in Collectable' <=>
           U \in Collectable \/ (U = r.task /\ r.task \subseteq begun)
<1>1. \A s : s \in Range(resultsQueue') <=> s \in Range(resultsQueue) \/ s = r
  <2>1. /\ IsQueue(resultsQueue') /\ Len(resultsQueue') = Len(resultsQueue) + 1
        /\ \A i \in 1 .. Len(resultsQueue) : resultsQueue'[i] = resultsQueue[i]
        /\ resultsQueue'[Len(resultsQueue) + 1] = r /\ Len(resultsQueue) \in Nat
    BY AppendFacts, LenFacts
  <2>2. /\ DOMAIN resultsQueue' = 1 .. Len(resultsQueue) + 1
        /\ DOMAIN resultsQueue = 1 .. Len(resultsQueue)
    BY <2>1, LenFacts
  <2>3. \A i : i \in 1 .. Len(resultsQueue) + 1
                <=> i \in 1 .. Len(resultsQueue) \/ i = Len(resultsQueue) + 1
    BY <2>1
  <2> QED BY <2>1, <2>2, <2>3 DEF Range
<1> QED BY <1>1 DEF Collectable

\* A task some thread has is apart from all others in flight.
LEMMA ThreadApart ==
  ASSUME Separated, NEW x \in Thread, Working(x)
  PROVE  LET T == TaskOf(x) IN
         /\ \A i \in 1 .. Len(requestQueue) : Separate(build, requestQueue[i].task, T)
         /\ \A i \in 1 .. Len(resultsQueue) : Separate(build, resultsQueue[i].task, T)
         /\ \A y \in Thread : y # x /\ Working(y) => Separate(build, TaskOf(y), T)
         /\ T \in InFlight /\ \A U \in InFlight : U = T \/ Separate(build, U, T)
         /\ IsQueue(resultsQueue) /\ ~Is(x, "run") =>
              \A U \in Running : Separate(build, U, T)
<1> DEFINE T == TaskOf(x)
<1>1. /\ \A i \in 1 .. Len(requestQueue) : Separate(build, requestQueue[i].task, T)
      /\ \A i \in 1 .. Len(resultsQueue) : Separate(build, resultsQueue[i].task, T)
      /\ \A y \in Thread : y # x /\ Working(y) => Separate(build, TaskOf(y), T)
  BY DEF Separated, Off
<1>2. T \in InFlight /\ \A U \in InFlight : U = T \/ Separate(build, U, T)
  BY <1>1, FlightPlaces
<1>3. ASSUME IsQueue(resultsQueue), ~Is(x, "run"), NEW U \in Running
      PROVE  Separate(build, U, T)
  <2>1. Running = RunningIn(worker, resultsQueue, begun)
    BY <1>3, RunningFacts
  <2>2. \A y \in Thread : worker[y].at = "run" => y # x /\ Working(y) /\ TaskOf(y) = worker[y].task
    BY <1>3 DEF Is, Working, TaskOf
  <2> QED BY <1>1, <1>3, <2>1, <2>2 DEF RunningIn
<1> QED BY <1>1, <1>2, <1>3

\* A thread has a task only while the main thread goes on.
LEMMA WorkingBeforeEnd ==
  ASSUME CountInv, NEW x \in Thread, Working(x)
  PROVE  pc # "end"
BY DEF CountInv, Accounted, Thread

\* The next task is taken out of the queue.
LEMMA OfferedOrder ==
  ASSUME CountInv, WalkInv, OrderInv, NEW x \in Thread, Offered(x, FALSE)
  PROVE  LET T == requestQueue[1].task IN
         /\ pc # "end" /\ x \in Worker /\ ~Working(x) /\ UNCHANGED <<build, walk, pc, begun>>
         /\ Stages /\ Separated /\ Steady(build, walk, begun, InFlight)
         /\ Head(requestQueue) = requestQueue[1]
         /\ T \in InFlight /\ T # {} /\ Waits(walk, begun, T)
         /\ TasksIn(requestQueue) = TasksIn(requestQueue') \cup {T}
         /\ \A i \in 1 .. Len(requestQueue') : Waits(walk, begun, requestQueue'[i].task)
         /\ Spread(build, requestQueue') /\ Off(build, requestQueue', T)
         /\ \A U : Off(build, requestQueue, U)
                     => Off(build, requestQueue', U) /\ Separate(build, T, U)
         /\ \A U : Kept(U)
<1> DEFINE T == requestQueue[1].task
<1>1. /\ x \in Worker /\ ~Working(x) /\ pc # "end"
  BY OfferedCount
<1>2. /\ requestQueue # <<>> /\ requestQueue' = Tail(requestQueue)
      /\ UNCHANGED <<build, walk, pc, begun>>
  BY DEF Offered, UnchangedMain
<1>3. Stages /\ Separated /\ Steady(build, walk, begun, InFlight)
  BY <1>1 DEF OrderInv
<1>4. /\ Head(requestQueue) = requestQueue[1] /\ 1 \in 1 .. Len(requestQueue)
      /\ \A i \in 1 .. Len(requestQueue') :
           i + 1 \in 1 .. Len(requestQueue) /\ requestQueue'[i] = requestQueue[i + 1]
      /\ TasksIn(requestQueue) = TasksIn(requestQueue') \cup {T}
      /\ \A U : Off(build, requestQueue, U)
                  <=> Off(build, requestQueue', U) /\ Separate(build, T, U)
      /\ Spread(build, requestQueue)
           => Spread(build, requestQueue') /\ Off(build, requestQueue', T)
  BY <1>2, TailTasks DEF WalkInv
<1>5. T \in InFlight
  BY <1>4, FlightPlaces
<1>6. T # {}
  BY <1>3, <1>5, FlightFacts
<1>7. /\ Waits(walk, begun, T)
      /\ \A i \in 1 .. Len(requestQueue') : Waits(walk, begun, requestQueue'[i].task)
  BY <1>3, <1>4 DEF Stages
<1>8. Spread(build, requestQueue') /\ Off(build, requestQueue', T)
  BY <1>3, <1>4 DEF Separated
<1>9. \A U : Kept(U)
  BY <1>2 DEF Kept
<1> QED BY <1>1, <1>2, <1>3, <1>4, <1>5, <1>6, <1>7, <1>8, <1>9

\* A worker takes a task.
LEMMA TakeOrder ==
  ASSUME CountInv, WalkInv, OrderInv, NEW x \in Thread, Take(x)
  PROVE  OrderInv' /\ Ordering
<1> DEFINE T == requestQueue[1].task
<1>1. /\ Offered(x, FALSE) /\ UNCHANGED resultsQueue
      /\ worker' = [worker EXCEPT ![x] = Doing("fetch", Head(requestQueue).task, {})]
  BY DEF Take
<1>2. /\ ~Working(x) /\ UNCHANGED <<build, walk, begun>>
      /\ Stages /\ Separated /\ Steady(build, walk, begun, InFlight)
      /\ Head(requestQueue) = requestQueue[1]
      /\ T \in InFlight /\ Waits(walk, begun, T)
      /\ TasksIn(requestQueue) = TasksIn(requestQueue') \cup {T}
      /\ \A i \in 1 .. Len(requestQueue') : Waits(walk, begun, requestQueue'[i].task)
      /\ Spread(build, requestQueue') /\ Off(build, requestQueue', T)
      /\ \A U : Off(build, requestQueue, U)
                  => Off(build, requestQueue', U) /\ Separate(build, T, U)
      /\ \A U : Kept(U)
  BY <1>1, OfferedOrder
<1>3. worker' = [worker EXCEPT ![x] = Doing("fetch", T, {})]
  BY <1>1, <1>2
<1> HIDE DEF T
<1>4. /\ worker'[x] = Doing("fetch", T, {})
      /\ \A y \in Thread : y # x =>
           /\ worker'[y] = worker[y] /\ TaskOf(y)' = TaskOf(y)
           /\ (Working(y)' <=> Working(y)) /\ \A a : (Is(y, a)' <=> Is(y, a))
  BY <1>3, OneThread
<1>5. /\ TaskOf(x)' = T /\ worker'[x].got = {}
      /\ ~Is(x, "run")' /\ ~Is(x, "run")
  BY <1>2, <1>4 DEF Working, TaskOf, Is, Doing
<1>6. InFlight' \subseteq InFlight
  <2>1. AtWork' \subseteq AtWork \cup {T}
    BY <1>4, <1>5 DEF AtWork
  <2> QED BY <1>1, <1>2, <2>1 DEF InFlight, TasksIn
<1>7. Steady(build', walk', begun', InFlight')
  BY <1>2, <1>6, FewerSteady
<1>8. Stages'
  <2>1. \A i \in 1 .. Len(resultsQueue') :
          Answers(walk', begun', resultsQueue'[i].task, resultsQueue'[i].ok)
    BY <1>1, <1>2, StagesKept
  <2>2. ASSUME NEW y \in Thread
        PROVE  /\ Is(y, "fetch")' =>
                    Fetches(build', walk', begun', TaskOf(y)', worker'[y].got)
               /\ Is(y, "run")' => Runs(walk', begun', TaskOf(y)')
    <3>1. CASE y = x
      <4>1. Fetches(build', walk', begun', T, {})
        BY <1>2 DEF Waits, Fetches, AllAre
      <4> QED BY <1>5, <3>1, <4>1
    <3>2. CASE y # x
      BY <1>2, <1>4, <3>2, StagesKept
    <3> QED BY <3>1, <3>2
  <2> QED BY <1>2, <2>1, <2>2 DEF Stages
<1>9. Separated'
  <2>1. \A y \in Thread : y # x /\ Working(y)' =>
          Separate(build, T, TaskOf(y)') /\ Separate(build, TaskOf(y)', T)
    BY <1>2, <1>4, SeparateSymmetric DEF Separated
  <2>2. Off(build, resultsQueue, T)
    BY <1>2, SeparateSymmetric DEF Separated, Off
  <2>3. \A y \in Thread : Working(y)' =>
          Off(build, requestQueue', TaskOf(y)') /\ Off(build, resultsQueue, TaskOf(y)')
    BY <1>2, <1>4, <1>5, <2>2 DEF Separated
  <2>4. ASSUME NEW y \in Thread, NEW z \in Thread, y # z, Working(y)', Working(z)'
        PROVE  Separate(build, TaskOf(y)', TaskOf(z)')
    <3>1. CASE y = x
      BY <1>5, <2>1, <2>4, <3>1
    <3>2. CASE z = x
      BY <1>5, <2>1, <2>4, <3>2
    <3>3. CASE y # x /\ z # x
      BY <1>2, <1>4, <2>4, <3>3 DEF Separated
    <3> QED BY <3>1, <3>2, <3>3
  <2>5. \A i \in 1 .. Len(resultsQueue) : Off(build, requestQueue', resultsQueue[i].task)
    BY <1>2 DEF Separated
  <2> QED BY <1>1, <1>2, <2>3, <2>4, <2>5 DEF Separated
<1>10. Running' = Running
  <2>1. Collectable' = Collectable
    BY <1>1, <1>2 DEF Collectable
  <2> QED BY <1>4, <1>5, <2>1, RunningParts
<1>11. Usable(walk') = Usable(walk)
  BY <1>2
<1>12. Ordering
  BY <1>2, <1>10, <1>11, OrderStutters
<1> QED BY <1>2, <1>7, <1>8, <1>9, <1>12 DEF OrderInv

\* After an interrupt it refuses one.
LEMMA RefuseOrder ==
  ASSUME CountInv, WalkInv, OrderInv, NEW x \in Thread, Refuse(x)
  PROVE  OrderInv' /\ Ordering
<1> DEFINE T == requestQueue[1].task
           r == [task |-> T, ok |-> FALSE]
<1>1. /\ Offered(x, FALSE) /\ UNCHANGED worker
      /\ resultsQueue' =
           Append(resultsQueue, [task |-> Head(requestQueue).task, ok |-> FALSE])
  BY DEF Refuse
<1>2. /\ UNCHANGED <<build, walk, begun>>
      /\ Stages /\ Separated /\ Steady(build, walk, begun, InFlight)
      /\ Head(requestQueue) = requestQueue[1]
      /\ T \in InFlight /\ T # {} /\ Waits(walk, begun, T)
      /\ TasksIn(requestQueue) = TasksIn(requestQueue') \cup {T}
      /\ \A i \in 1 .. Len(requestQueue') : Waits(walk, begun, requestQueue'[i].task)
      /\ Spread(build, requestQueue') /\ Off(build, requestQueue', T)
      /\ \A U : Off(build, requestQueue, U)
                  => Off(build, requestQueue', U) /\ Separate(build, T, U)
      /\ \A U : Kept(U)
  BY <1>1, OfferedOrder
<1>3. resultsQueue' = Append(resultsQueue, r) /\ r.task = T /\ r.ok = FALSE
  BY <1>1, <1>2
<1>4. IsQueue(resultsQueue)
  BY DEF WalkInv
<1> HIDE DEF T, r
<1>5. /\ \A i \in 1 .. Len(resultsQueue') :
           \/ i \in 1 .. Len(resultsQueue) /\ resultsQueue'[i] = resultsQueue[i]
           \/ resultsQueue'[i] = r
      /\ TasksIn(resultsQueue') = TasksIn(resultsQueue) \cup {T}
      /\ \A U : Off(build, resultsQueue, U) /\ Separate(build, T, U)
                  => Off(build, resultsQueue', U)
      /\ Spread(build, resultsQueue) /\ Off(build, resultsQueue, T)
           => Spread(build, resultsQueue')
  BY <1>3, <1>4, AppendTasks
<1>6. InFlight' \subseteq InFlight
  <2>1. AtWork' = AtWork
    BY <1>1 DEF AtWork, Working, TaskOf
  <2>2. InFlight' = TasksIn(requestQueue') \cup TasksIn(resultsQueue') \cup AtWork'
    BY DEF InFlight, TasksIn
  <2> QED BY <1>2, <1>5, <2>1, <2>2 DEF InFlight
<1>7. Steady(build', walk', begun', InFlight')
  BY <1>2, <1>6, FewerSteady
<1>8. Stages'
  <2>1. Answers(walk', begun', T, FALSE)
    BY <1>2 DEF Waits, Answers
  <2>2. \A i \in 1 .. Len(resultsQueue) :
          Answers(walk', begun', resultsQueue[i].task, resultsQueue[i].ok)
    BY <1>2, StagesKept
  <2>3. \A i \in 1 .. Len(resultsQueue') :
          Answers(walk', begun', resultsQueue'[i].task, resultsQueue'[i].ok)
    BY <1>3, <1>5, <2>1, <2>2
  <2>4. \A y \in Thread :
          /\ Is(y, "fetch") => Fetches(build', walk', begun', TaskOf(y), worker[y].got)
          /\ Is(y, "run") => Runs(walk', begun', TaskOf(y))
    BY <1>2, StagesKept
  <2> QED BY <1>1, <1>2, <2>3, <2>4 DEF Stages, Is, TaskOf
<1>9. Separated'
  <2>1. Off(build, resultsQueue, T)
    BY <1>2, SeparateSymmetric DEF Separated, Off
  <2>2. Spread(build, resultsQueue')
    BY <1>2, <1>5, <2>1 DEF Separated
  <2>3. \A i \in 1 .. Len(resultsQueue') : Off(build, requestQueue', resultsQueue'[i].task)
    BY <1>2, <1>3, <1>5 DEF Separated
  <2>4. \A y \in Thread : Working(y) =>
          Off(build, requestQueue', TaskOf(y)) /\ Off(build, resultsQueue', TaskOf(y))
    BY <1>2, <1>5 DEF Separated
  <2> QED BY <1>1, <1>2, <2>2, <2>3, <2>4 DEF Separated, Working, TaskOf
<1>10. Running' = Running
  <2>1. ~(T \subseteq begun)
    BY <1>2 DEF Waits
  <2>2. \A U : U \in Collectable' <=> U \in Collectable
    BY <1>2, <1>3, <1>4, <2>1, CollectableAppended
  <2>3. \A y \in Thread : TaskOf(y)' = TaskOf(y) /\ (Is(y, "run")' <=> Is(y, "run"))
    BY <1>1 DEF TaskOf, Is
  <2> QED BY <2>2, <2>3, RunningParts
<1>11. Usable(walk') = Usable(walk)
  BY <1>2
<1> QED BY <1>2, <1>7, <1>8, <1>9, <1>10, <1>11, OrderStutters DEF OrderInv

\* A worker goes away, which happens only at the end.
LEMMA QuitOrder ==
  ASSUME CountInv, WalkInv, OrderInv, NEW x \in Thread, Quit(x)
  PROVE  OrderInv' /\ Ordering
<1>1. /\ Offered(x, TRUE) /\ UNCHANGED resultsQueue
      /\ worker' = [worker EXCEPT ![x] = Gone]
  BY DEF Quit
<1>2. UNCHANGED <<build, walk, pc, begun>> /\ Is(x, "idle")
  BY <1>1 DEF Offered, UnchangedMain
<1>3. pc' = "end"
  BY <1>1, <1>2, OfferedCount
<1>4. /\ worker'[x] = Gone
      /\ \A y \in Thread : y # x =>
           /\ worker'[y] = worker[y] /\ TaskOf(y)' = TaskOf(y)
           /\ (Working(y)' <=> Working(y)) /\ \A a : (Is(y, a)' <=> Is(y, a))
  BY <1>1, OneThread
<1>5. ~Is(x, "run")' /\ ~Is(x, "run")
  BY <1>2, <1>4 DEF Is, Gone, Doing
<1>6. Running' = Running /\ Usable(walk') = Usable(walk)
  <2>1. Collectable' = Collectable
    BY <1>1, <1>2 DEF Collectable
  <2>2. \A y \in Thread : (Is(y, "run")' <=> Is(y, "run"))
                           /\ (Is(y, "run") => TaskOf(y)' = TaskOf(y))
    BY <1>4, <1>5
  <2>3. Running' = Running
    BY <2>1, <2>2, RunningParts
  <2> QED BY <1>2, <2>3
<1> QED BY <1>2, <1>3, <1>6, OrderStutters DEF OrderInv

\* A worker reports its task.
LEMMA ReportWorkerOrder ==
  ASSUME CountInv, Quiet, WalkInv, OrderInv, NEW x \in Thread, x # None, Working(x),
         NEW ok, Answers(walk, begun, TaskOf(x), ok),
         Is(x, "run") <=> TaskOf(x) \subseteq begun, Report(x, ok)
  PROVE  OrderInv' /\ Ordering
<1> DEFINE T == TaskOf(x)
           r == [task |-> T, ok |-> ok]
<1>1. /\ worker' = [worker EXCEPT ![x] = Idle]
      /\ resultsQueue' = Append(resultsQueue, r)
      /\ UNCHANGED <<build, walk, pc, requestQueue, begun>>
  BY DEF Report, UnchangedMain
<1>2. Stages /\ Separated /\ Steady(build, walk, begun, InFlight) /\ IsQueue(resultsQueue)
  BY WorkingBeforeEnd DEF OrderInv, WalkInv
<1>3. /\ worker'[x] = Idle
      /\ \A y \in Thread : y # x =>
           /\ worker'[y] = worker[y] /\ TaskOf(y)' = TaskOf(y)
           /\ (Working(y)' <=> Working(y)) /\ \A a : (Is(y, a)' <=> Is(y, a))
  BY <1>1, OneThread
<1>4. ~Working(x)' /\ ~Is(x, "run")' /\ ~Is(x, "fetch")'
  BY <1>3 DEF Working, Is, Idle, Doing
<1>5. r.task = T /\ r.ok = ok
  OBVIOUS
<1>6. \A U : Kept(U)
  BY <1>1 DEF Kept
<1>7. /\ \A i \in 1 .. Len(requestQueue) : Separate(build, requestQueue[i].task, T)
      /\ \A i \in 1 .. Len(resultsQueue) : Separate(build, resultsQueue[i].task, T)
      /\ \A y \in Thread : y # x /\ Working(y) => Separate(build, TaskOf(y), T)
      /\ T \in InFlight
  BY <1>2, ThreadApart
<1>8. Answers(walk, begun, T, ok) /\ (Is(x, "run") <=> T \subseteq begun) /\ T = TaskOf(x)
  OBVIOUS
<1> HIDE DEF T, r
<1>9. /\ \A i \in 1 .. Len(resultsQueue') :
           \/ i \in 1 .. Len(resultsQueue) /\ resultsQueue'[i] = resultsQueue[i]
           \/ resultsQueue'[i] = r
      /\ TasksIn(resultsQueue') = TasksIn(resultsQueue) \cup {T}
      /\ \A U : Off(build, resultsQueue, U) /\ Separate(build, T, U)
                  => Off(build, resultsQueue', U)
      /\ Spread(build, resultsQueue) /\ Off(build, resultsQueue, T)
           => Spread(build, resultsQueue')
  BY <1>1, <1>2, <1>5, AppendTasks
<1>10. InFlight' \subseteq InFlight
  <2>1. AtWork' \subseteq AtWork
    BY <1>3, <1>4 DEF AtWork
  <2> QED BY <1>1, <1>7, <1>9, <2>1 DEF InFlight, TasksIn
<1>11. Steady(build', walk', begun', InFlight')
  BY <1>1, <1>2, <1>10, FewerSteady
<1>12. Stages'
  <2>1. \A i \in 1 .. Len(requestQueue') : Waits(walk', begun', requestQueue'[i].task)
    BY <1>1, <1>2, <1>6, StagesKept
  <2>2. \A i \in 1 .. Len(resultsQueue) :
          Answers(walk', begun', resultsQueue[i].task, resultsQueue[i].ok)
    BY <1>1, <1>2, <1>6, StagesKept
  <2>3. \A i \in 1 .. Len(resultsQueue') :
          Answers(walk', begun', resultsQueue'[i].task, resultsQueue'[i].ok)
    BY <1>1, <1>5, <1>8, <1>9, <2>2
  <2>4. ASSUME NEW y \in Thread
        PROVE  /\ Is(y, "fetch")' =>
                    Fetches(build', walk', begun', TaskOf(y)', worker'[y].got)
               /\ Is(y, "run")' => Runs(walk', begun', TaskOf(y)')
    <3>1. CASE y = x
      BY <1>4, <3>1
    <3>2. CASE y # x
      BY <1>1, <1>2, <1>3, <1>6, <3>2, StagesKept
    <3> QED BY <3>1, <3>2
  <2> QED BY <2>1, <2>3, <2>4 DEF Stages
<1>13. Separated'
  <2>1. Off(build, resultsQueue, T) /\ Off(build, requestQueue, T)
    BY <1>7 DEF Off
  <2>2. Spread(build, resultsQueue')
    BY <1>2, <1>9, <2>1 DEF Separated
  <2>3. \A i \in 1 .. Len(resultsQueue') : Off(build, requestQueue, resultsQueue'[i].task)
    BY <1>2, <1>5, <1>9, <2>1 DEF Separated
  <2>4. \A y \in Thread : Working(y)' => /\ y # x /\ Working(y) /\ TaskOf(y)' = TaskOf(y)
                                         /\ Separate(build, T, TaskOf(y))
    BY <1>3, <1>4, <1>7, SeparateSymmetric
  <2>5. \A y \in Thread : Working(y)' =>
          Off(build, requestQueue, TaskOf(y)') /\ Off(build, resultsQueue', TaskOf(y)')
    BY <1>2, <1>9, <2>4 DEF Separated
  <2>6. \A y, z \in Thread : y # z /\ Working(y)' /\ Working(z)' =>
          Separate(build, TaskOf(y)', TaskOf(z)')
    BY <1>2, <2>4 DEF Separated
  <2> QED BY <1>1, <1>2, <2>2, <2>3, <2>5, <2>6 DEF Separated
<1>14. Running' = Running
  <2>1. \A U : U \in Collectable' <=>
          U \in Collectable \/ (U = T /\ T \subseteq begun)
    BY <1>1, <1>2, <1>5, CollectableAppended
  <2>2. ASSUME NEW U \in Running' PROVE U \in Running
    <3>1. U \in Collectable' \/ \E y \in Thread : Is(y, "run")' /\ U = TaskOf(y)'
      BY RunningParts
    <3> QED BY <1>3, <1>4, <1>8, <2>1, <3>1, RunningParts
  <2>3. ASSUME NEW U \in Running PROVE U \in Running'
    <3>1. U \in Collectable \/ \E y \in Thread : Is(y, "run") /\ U = TaskOf(y)
      BY RunningParts
    <3>2. CASE U \in Collectable \/ (U = T /\ Is(x, "run"))
      BY <1>8, <2>1, <3>2, RunningParts
    <3>3. CASE \E y \in Thread : y # x /\ Is(y, "run") /\ U = TaskOf(y)
      BY <1>3, <3>3, RunningParts
    <3> QED BY <1>8, <3>1, <3>2, <3>3
  <2> QED BY <2>2, <2>3
<1>15. Usable(walk') = Usable(walk)
  BY <1>1
<1> QED BY <1>1, <1>11, <1>12, <1>13, <1>14, <1>15, OrderStutters DEF OrderInv

\* A task ends, whoever executes it.
LEMMA EndOrder ==
  ASSUME Orderly(build), CountInv, Quiet, WalkInv, WalkInv', OrderInv, NEW x \in Thread,
         AllFetched(x) \/ Finish(x) \/ Fail(x)
  PROVE  OrderInv' /\ Ordering
<1>1. Working(x)
  BY DEF AllFetched, Finish, Fail, Is, Working
<1>2. pc # "end" /\ Stages
  BY <1>1, WorkingBeforeEnd DEF OrderInv
<1>3. TaskOf(x) # {}
  BY <1>1, <1>2, FlightPlaces, FlightFacts DEF OrderInv
<1>4. PICK ok \in BOOLEAN : /\ Report(x, ok) /\ Answers(walk, begun, TaskOf(x), ok)
                            /\ Is(x, "run") <=> TaskOf(x) \subseteq begun
  <2>1. CASE AllFetched(x)
    <3>1. Fetches(build, walk, begun, TaskOf(x), TaskOf(x)) /\ Report(x, TRUE) /\ ~Is(x, "run")
      BY <1>2, <2>1 DEF AllFetched, Stages, Is
    <3> QED BY <1>3, <3>1 DEF Fetches, Answers, AllAre
  <2>2. CASE Finish(x) \/ Fail(x)
    <3>1. /\ Runs(walk, begun, TaskOf(x)) /\ Is(x, "run")
          /\ \E ok \in BOOLEAN : Report(x, ok)
      BY <1>2, <2>2 DEF Finish, Fail, Stages
    <3> QED BY <3>1 DEF Runs, Answers
  <2> QED BY <2>1, <2>2
<1>5. CASE x = None
  BY <1>1, <1>2, <1>4, <1>5, ReportMainOrder
<1>6. CASE x # None
  BY <1>1, <1>4, <1>6, ReportWorkerOrder
<1> QED BY <1>5, <1>6

\* A task that fetches its targets, in an orderly build: it has just one if one
\* was fetched, and none of the commands that run is near it.
LEMMA FetchingFacts ==
  ASSUME Orderly(build), CountInv, Quiet, WalkInv, OrderInv, NEW x \in Thread, Is(x, "fetch")
  PROVE  LET T == TaskOf(x)
             got == worker[x].got
         IN /\ pc # "end" /\ Stages /\ Separated /\ Steady(build, walk, begun, InFlight)
            /\ Working(x) /\ T \in InFlight /\ T \in SUBSET Node /\ T # {}
            /\ T \cap begun = {} /\ got \subseteq T
            /\ \A t \in T : /\ t \in build.builder /\ build.targets[t] = T
                            /\ t \in build.cached => T = {t}
            /\ got = {} \/ got = T
            /\ got = {} => \A t \in T : walk.state[t] = Executing
            /\ Deps(build, T) \subseteq Usable(walk)
            /\ \A U \in Running : Separate(build, U, T)
            /\ \A U \in InFlight : U = T \/ Separate(build, U, T)
<1> DEFINE T == TaskOf(x)
           got == worker[x].got
<1>1. Working(x) /\ ~Is(x, "run")
  BY DEF Working, Is
<1>2. /\ pc # "end" /\ Stages /\ Separated /\ Steady(build, walk, begun, InFlight)
  BY <1>1, WorkingBeforeEnd DEF OrderInv
<1>3. /\ T \in InFlight /\ \A U \in InFlight : U = T \/ Separate(build, U, T)
      /\ \A U \in Running : Separate(build, U, T)
  BY <1>1, <1>2, ThreadApart DEF WalkInv
<1>4. /\ T \in SUBSET Node /\ T # {} /\ Deps(build, T) \subseteq Usable(walk)
      /\ \A t \in T : t \in build.builder /\ build.targets[t] = T
  BY <1>2, <1>3, FlightFacts
<1>5. Fetches(build, walk, begun, T, got)
  BY <1>2 DEF Stages
<1>6. \A t \in build.cached : build.targets[t] = {t}
  BY DEF Orderly
<1>7. /\ T \cap begun = {} /\ got \subseteq T /\ got \subseteq build.cached
      /\ got = {} => \A t \in T : walk.state[t] = Executing
  BY <1>5 DEF Fetches
<1>8. \A t \in T : t \in build.cached => T = {t}
  BY <1>4, <1>6
<1>9. got = {} \/ got = T
  BY <1>7, <1>8
<1> QED BY <1>1, <1>2, <1>3, <1>4, <1>7, <1>8, <1>9

\* A command starts.
LEMMA RunOrder ==
  ASSUME Orderly(build), CountInv, Quiet, WalkInv, OrderInv, NEW x \in Thread, Run(x)
  PROVE  OrderInv' /\ Ordering
<1> DEFINE T == TaskOf(x)
<1>1. /\ Is(x, "fetch") /\ worker[x].got # T
      /\ worker' = [worker EXCEPT ![x] = Doing("run", TaskOf(x), worker[x].got)]
      /\ begun' = begun \cup T
      /\ UNCHANGED <<build, walk, pc, requestQueue, resultsQueue>>
  <2>1. worker' = [worker EXCEPT ![x] = Doing("run", TaskOf(x), worker[x].got)]
    BY DEF Run, WalkInv
  <2> QED BY <2>1 DEF Run, UnchangedMain
<1>2. /\ pc # "end" /\ Stages /\ Separated /\ Steady(build, walk, begun, InFlight)
      /\ Working(x) /\ T \in InFlight /\ T \in SUBSET Node /\ T # {} /\ T \cap begun = {}
      /\ worker[x].got = {} \/ worker[x].got = T
      /\ worker[x].got = {} => \A t \in T : walk.state[t] = Executing
      /\ Deps(build, T) \subseteq Usable(walk)
      /\ \A U \in Running : Separate(build, U, T)
      /\ \A U \in InFlight : U = T \/ Separate(build, U, T)
  BY <1>1, FetchingFacts
<1>3. \A t \in T : walk.state[t] = Executing
  BY <1>1, <1>2
<1>4. /\ worker'[x] = Doing("run", T, worker[x].got)
      /\ \A y \in Thread : y # x =>
           /\ worker'[y] = worker[y] /\ TaskOf(y)' = TaskOf(y)
           /\ (Working(y)' <=> Working(y)) /\ \A a : (Is(y, a)' <=> Is(y, a))
  BY <1>1, OneThread
<1>5. /\ TaskOf(x)' = T /\ Working(x)' /\ Is(x, "run")' /\ ~Is(x, "fetch")'
  BY <1>4 DEF Working, TaskOf, Is, Doing
<1>6. /\ T = TaskOf(x)
      /\ \A y \in Thread : TaskOf(y)' = TaskOf(y) /\ (Working(y)' <=> Working(y))
  BY <1>2, <1>4, <1>5
<1>7. /\ \A i \in 1 .. Len(requestQueue) : Separate(build, requestQueue[i].task, T)
      /\ \A i \in 1 .. Len(resultsQueue) : Separate(build, resultsQueue[i].task, T)
      /\ \A y \in Thread : y # x /\ Working(y) => Separate(build, TaskOf(y), T)
  BY <1>2, ThreadApart
<1> HIDE DEF T
<1>8. \A U : Separate(build, U, T) => Kept(U)
  BY <1>1 DEF Separate, Kept
<1>9. InFlight' = InFlight
  BY <1>1, <1>6 DEF InFlight, TasksIn, AtWork
<1>10. Steady(build', walk', begun', InFlight')
  <2>1. Steady(build, walk, begun \cup T, InFlight)
    BY <1>2, BegunSteady DEF WalkInv
  <2> QED BY <1>1, <1>9, <2>1
<1>11. Stages'
  <2>1. \A i \in 1 .. Len(requestQueue') : Waits(walk', begun', requestQueue'[i].task)
    BY <1>1, <1>2, <1>7, <1>8, StagesKept
  <2>2. \A i \in 1 .. Len(resultsQueue') :
          Answers(walk', begun', resultsQueue'[i].task, resultsQueue'[i].ok)
    BY <1>1, <1>2, <1>7, <1>8, StagesKept
  <2>3. ASSUME NEW y \in Thread
        PROVE  /\ Is(y, "fetch")' =>
                    Fetches(build', walk', begun', TaskOf(y)', worker'[y].got)
               /\ Is(y, "run")' => Runs(walk', begun', TaskOf(y)')
    <3>1. CASE y = x
      <4>1. Runs(walk', begun', T)
        BY <1>1, <1>3 DEF Runs, AllAre
      <4> QED BY <1>5, <3>1, <4>1
    <3>2. CASE y # x
      <4>1. Is(y, "fetch") \/ Is(y, "run") => Kept(TaskOf(y))
        BY <1>7, <1>8, <3>2 DEF Is, Working
      <4> QED BY <1>1, <1>2, <1>4, <3>2, <4>1, StagesKept
    <3> QED BY <3>1, <3>2
  <2> QED BY <2>1, <2>2, <2>3 DEF Stages
<1>12. Separated'
  BY <1>1, <1>2, <1>6 DEF Separated
<1>13. Running' = Running \cup {T}
  <2>1. \A i \in 1 .. Len(resultsQueue) :
          resultsQueue[i].task \subseteq begun' <=> resultsQueue[i].task \subseteq begun
    BY <1>1, <1>7 DEF Separate
  <2>2. /\ Running = RunningIn(worker, resultsQueue, begun)
        /\ Running' = RunningIn(worker', resultsQueue, begun')
    BY <1>1, RunningFacts DEF WalkInv
  <2>3. /\ worker'[x].at = "run" /\ worker'[x].task = T /\ worker[x].at = "fetch"
        /\ \A y \in Thread : y # x => worker'[y] = worker[y]
    BY <1>1, <1>4 DEF Doing, Is
  <2>4. ASSUME NEW U \in Running' PROVE U \in Running \cup {T}
    <3>1. CASE \E y \in Thread : worker'[y].at = "run" /\ U = worker'[y].task
      BY <2>2, <2>3, <3>1 DEF RunningIn
    <3>2. CASE \E i \in 1 .. Len(resultsQueue) :
                 resultsQueue[i].task \subseteq begun' /\ U = resultsQueue[i].task
      BY <2>1, <2>2, <3>2 DEF RunningIn
    <3> QED BY <2>2, <2>4, <3>1, <3>2 DEF RunningIn
  <2>5. ASSUME NEW U \in Running PROVE U \in Running'
    <3>1. CASE \E y \in Thread : worker[y].at = "run" /\ U = worker[y].task
      <4>1. PICK y \in Thread : worker[y].at = "run" /\ U = worker[y].task
        BY <3>1
      <4>2. worker'[y] = worker[y]
        BY <2>3, <4>1
      <4> QED BY <2>2, <4>1, <4>2 DEF RunningIn
    <3>2. CASE \E i \in 1 .. Len(resultsQueue) :
                 resultsQueue[i].task \subseteq begun /\ U = resultsQueue[i].task
      BY <2>1, <2>2, <3>2 DEF RunningIn
    <3> QED BY <2>2, <2>5, <3>1, <3>2 DEF RunningIn
  <2>6. T \in Running'
    BY <2>2, <2>3 DEF RunningIn
  <2> QED BY <2>4, <2>5, <2>6
<1>14. Ordering
  <2>1. Usable(walk') = Usable(walk) /\ T \cap Usable(walk) = {}
    BY <1>1, <1>3 DEF Usable, Executing, UpToDate, Executed
  <2>2. \A U \in Running : SideEffects(build, U) \cap SideEffects(build, T) = {}
    BY <1>2 DEF Separate
  <2> QED BY <1>1, <1>2, <1>13, <2>1, <2>2, OrderBegins
<1> QED BY <1>10, <1>11, <1>12, <1>14 DEF OrderInv

\* A target is found in the cache.
LEMMA FetchOrder ==
  ASSUME Orderly(build), CountInv, Quiet, WalkInv, OrderInv,
         NEW x \in Thread, NEW t \in Node, Fetch(x, t)
  PROVE  OrderInv' /\ Ordering
<1> DEFINE T == TaskOf(x)
<1>1. /\ Is(x, "fetch") /\ t \in T /\ t \in build.cached /\ t \notin worker[x].got
      /\ walk' = Built([walk EXCEPT !.state[t] = Executed], t)
      /\ UNCHANGED <<build, pc, requestQueue, resultsQueue, begun>>
  BY DEF Fetch, InCache, Marked, UnchangedMain
<1>2. /\ pc # "end" /\ Stages /\ Separated /\ Steady(build, walk, begun, InFlight)
      /\ Working(x) /\ T \in InFlight /\ T \in SUBSET Node /\ T \cap begun = {}
      /\ t \in build.builder /\ build.targets[t] = T /\ T = {t}
      /\ worker[x].got = {} \/ worker[x].got = T
      /\ Deps(build, T) \subseteq Usable(walk)
      /\ \A U \in Running : Separate(build, U, T)
      /\ \A U \in InFlight : U = T \/ Separate(build, U, T)
  BY <1>1, FetchingFacts
<1>3. worker' = [worker EXCEPT ![x] = Doing("fetch", T, {t})]
  <2>1. worker' = [worker EXCEPT ![x] = Doing("fetch", TaskOf(x), worker[x].got \cup {t})]
    BY DEF Fetch, InCache, WalkInv
  <2>2. worker[x].got \cup {t} = {t}
    BY <1>1, <1>2
  <2> QED BY <2>1, <2>2
<1>4. /\ worker'[x] = Doing("fetch", T, {t})
      /\ \A y \in Thread : y # x =>
           /\ worker'[y] = worker[y] /\ TaskOf(y)' = TaskOf(y)
           /\ (Working(y)' <=> Working(y)) /\ \A a : (Is(y, a)' <=> Is(y, a))
  BY <1>3, OneThread
<1>5. /\ TaskOf(x)' = T /\ worker'[x].got = {t} /\ Working(x)' /\ ~Is(x, "run")'
      /\ ~Is(x, "run")
  BY <1>1, <1>4 DEF Working, TaskOf, Is, Doing
<1>6. /\ T = TaskOf(x)
      /\ \A y \in Thread : TaskOf(y)' = TaskOf(y) /\ (Working(y)' <=> Working(y))
  BY <1>2, <1>4, <1>5
<1>7. /\ \A i \in 1 .. Len(requestQueue) : Separate(build, requestQueue[i].task, T)
      /\ \A i \in 1 .. Len(resultsQueue) : Separate(build, resultsQueue[i].task, T)
      /\ \A y \in Thread : y # x /\ Working(y) => Separate(build, TaskOf(y), T)
  BY <1>2, ThreadApart
<1> HIDE DEF T
<1>8. OnlyIn(InFlight, T, t)
  BY <1>2 DEF Separate, OnlyIn
<1>9. /\ Steady(build, walk', begun, InFlight) /\ Usable(walk') = Usable(walk) \cup T
      /\ walk'.state[t] = Executed
  <2>1. build \in Builds /\ WrittenOnly(build) /\ T = build.targets[t]
    BY <1>2 DEF WalkInv, Orderly
  <2>2. /\ t \in build.builder /\ T \in InFlight /\ T = build.targets[t]
        /\ Steady(build, walk, begun, InFlight)
    BY <1>2
  <2>3. Steady(build, Fetched(walk, t), begun, InFlight)
    BY <1>8, <2>1, <2>2, FetchedSteady
  <2>4. Usable(Fetched(walk, t)) = Usable(walk) \cup T
    BY <1>8, <2>1, <2>2, FetchedSteady
  <2>5. Fetched(walk, t).state[t] = Executed
    BY <1>8, <2>1, <2>2, FetchedSteady
  <2> QED BY <1>1, <2>3, <2>4, <2>5 DEF Fetched
<1>10. \A U \in SUBSET Node : Separate(build, U, T) => Kept(U)
  <2>1. walk \in WalkType
    BY DEF WalkInv, Sound
  <2>2. \A n \in Node : walk'.state[n] = IF n = t THEN Executed ELSE walk.state[n]
    BY <1>1, <2>1, FetchedFields
  <2> QED BY <1>1, <1>2, <2>2 DEF Separate, Kept
<1>11. InFlight' = InFlight
  BY <1>1, <1>6 DEF InFlight, TasksIn, AtWork
<1>12. Stages'
  <2>1. \A i \in 1 .. Len(requestQueue') : Waits(walk', begun', requestQueue'[i].task)
    BY <1>1, <1>2, <1>7, <1>10, StagesKept DEF WalkInv, TasksAreNodes
  <2>2. \A i \in 1 .. Len(resultsQueue') :
          Answers(walk', begun', resultsQueue'[i].task, resultsQueue'[i].ok)
    BY <1>1, <1>2, <1>7, <1>10, StagesKept DEF WalkInv, TasksAreNodes
  <2>3. ASSUME NEW y \in Thread
        PROVE  /\ Is(y, "fetch")' =>
                    Fetches(build', walk', begun', TaskOf(y)', worker'[y].got)
               /\ Is(y, "run")' => Runs(walk', begun', TaskOf(y)')
    <3>1. CASE y = x
      <4>1. Fetches(build', walk', begun', T, {t})
        BY <1>1, <1>2, <1>9 DEF Fetches
      <4> QED BY <1>5, <3>1, <4>1
    <3>2. CASE y # x
      <4>1. Is(y, "fetch") \/ Is(y, "run") => Kept(TaskOf(y))
        BY <1>7, <1>10, <3>2 DEF Is, Working, WalkInv, TasksAreNodes
      <4> QED BY <1>1, <1>2, <1>4, <3>2, <4>1, StagesKept
    <3> QED BY <3>1, <3>2
  <2> QED BY <2>1, <2>2, <2>3 DEF Stages
<1>13. Separated'
  BY <1>1, <1>2, <1>6 DEF Separated
<1>14. Running' = Running
  <2>1. Collectable' = Collectable
    BY <1>1 DEF Collectable
  <2>2. \A y \in Thread : (Is(y, "run")' <=> Is(y, "run"))
                           /\ (Is(y, "run") => TaskOf(y)' = TaskOf(y))
    BY <1>4, <1>5
  <2>3. \A U : U \in Running' <=> U \in Running
    BY <2>1, <2>2, RunningParts
  <2> QED BY <2>3
<1>15. T \cap UNION Running = {}
  BY <1>2 DEF Separate
<1> QED BY <1>1, <1>2, <1>9, <1>11, <1>12, <1>13, <1>14, <1>15, OrderSettles DEF OrderInv

-----------------------------------------------------------------------------
(* All steps.                                                              *)

\* At the start no command runs, and nothing is built.
LEMMA InitOrder == Init => OrderInv /\ UO!Init
<1> SUFFICES ASSUME Init PROVE OrderInv /\ UO!Init
  OBVIOUS
<1>1. /\ build \in Builds /\ walk = NewWalk(build) /\ begun = {} /\ pc = "dispatch"
      /\ requestQueue = <<>> /\ resultsQueue = <<>>
      /\ \A x \in Thread : ~Working(x) /\ ~Is(x, "fetch") /\ ~Is(x, "run")
  BY DEF Init, Working, Is, Idle, Gone, Doing
<1>2. /\ Len(requestQueue) = 0 /\ Len(resultsQueue) = 0
      /\ \A i : i \notin 1 .. Len(requestQueue) /\ i \notin 1 .. Len(resultsQueue)
      /\ Range(resultsQueue) = {}
  <2>1. Len(<<>>) = 0 /\ DOMAIN <<>> = {}
    OBVIOUS
  <2> QED BY <1>1, <2>1 DEF Range
<1>3. InFlight = {}
  BY <1>1, <1>2, FlightPlaces
<1>4. Steady(build, walk, begun, InFlight) /\ Usable(walk) = {}
  BY <1>1, <1>3, NewWalkSteady
<1>5. Stages /\ Separated
  BY <1>1, <1>2 DEF Stages, Separated, Spread, Off
<1>6. Running = {}
  BY <1>1, <1>2 DEF Running
<1>7. UO!Init
  BY <1>1, <1>4, <1>6 DEF UO!Init
<1> QED BY <1>4, <1>5, <1>7 DEF OrderInv

\* Every step of the main thread.
LEMMA MainOrder ==
  ASSUME Orderly(build), CountInv, Quiet, WalkInv, WalkInv', OrderInv, Main
  PROVE  OrderInv' /\ Ordering
<1>1. WrittenOnly(build)
  BY DEF Orderly
<1>2. ~Look
  BY DEF Look, Quiet, Foreseen
<1> QED BY <1>1, <1>2, DispatchStoppedOrder, DispatchNothingOrder, SkipOrder,
           PrepareFailsOrder, NothingToRunOrder, DispatchOrder, ExecuteOrder, CollectOrder,
           CleanupOrder
        DEF Main

\* Every step of a thread that executes tasks.
LEMMA WorkOrder ==
  ASSUME Orderly(build), CountInv, Quiet, WalkInv, WalkInv', OrderInv,
         NEW x \in Thread, Work(x)
  PROVE  OrderInv' /\ Ordering
<1>1. ~ResetParents(x) /\ ~ResetRaises(x) /\ \A t \in Node : ~MarkFetched(x, t)
  BY DEF ResetParents, ResetRaises, MarkFetched, Quiet, Foreseen
<1> QED BY <1>1, TakeOrder, RefuseOrder, QuitOrder, EndOrder, RunOrder, FetchOrder DEF Work

\* Every step keeps the invariant, and is one of BuildOrder or none.
LEMMA StepOrder ==
  ASSUME Orderly(build), CountInv, Quiet, WalkInv, WalkInv', OrderInv, [Next]_vars
  PROVE  OrderInv' /\ Ordering
<1>1. CASE Main
  BY <1>1, MainOrder
<1>2. CASE Signal
  BY <1>2, SignalOrder DEF Orderly
<1>3. CASE \E x \in Thread : Work(x)
  BY <1>3, WorkOrder
<1>4. CASE UNCHANGED vars
  <2>1. OrderInv'
    <3>1. UNCHANGED <<build, walk, pc, requestQueue, resultsQueue, worker, begun>>
      BY <1>4 DEF vars, core
    <3>2. InFlight' = InFlight
      BY <3>1 DEF InFlight, TasksIn, AtWork, Working, TaskOf
    <3>3. Stages' <=> Stages
      BY <3>1 DEF Stages, Is, TaskOf
    <3>4. Separated' <=> Separated
      BY <3>1 DEF Separated, Spread, Off, Working, TaskOf
    <3> QED BY <3>1, <3>2, <3>3, <3>4 DEF OrderInv
  <2>2. Running' = Running /\ Usable(walk') = Usable(walk)
    BY <1>4 DEF vars, core, Running, Is, TaskOf
  <2> QED BY <1>4, <2>1, <2>2, OrderStutters DEF vars, core
<1> QED BY <1>1, <1>2, <1>3, <1>4 DEF Next

\* The invariants hold throughout.
LEMMA OrderInvHolds ==
  ASSUME \A b \in Builds : Orderly(b)
  PROVE  Spec => []OrderInv /\ []CountInv /\ []WalkInv /\ []Quiet
<1>1. \A b \in Builds : WrittenOnly(b)
  BY DEF Orderly
<1>2. Spec => [](WalkInv /\ LookedWell)
  BY <1>1, WalkInvHolds
<1>3. Spec => []CountInv
  BY CountInvHolds
<1>4. Init => OrderInv /\ Quiet
  BY InitOrder DEF Init, Quiet, Orderly
<1>5. CountInv /\ WalkInv /\ WalkInv' /\ OrderInv /\ Quiet /\ [Next]_vars
        => OrderInv' /\ Quiet'
  BY StepOrder, QuietKept DEF WalkInv
<1> QED BY <1>2, <1>3, <1>4, <1>5, PTL DEF Spec

\* What could be used at some time can be used from then on.
LEMMA MadeKept ==
  ASSUME made = Usable(walk), Ordering, [Next]_vars
  PROVE  made' = Usable(walk')
<1>1. Usable(walk) \subseteq Usable(walk')
  BY DEF Ordering, UO!Next, UO!Settle, UO!Begin, UO!End, UO!vars
<1>2. made' = made \cup Usable(walk') \/ (made' = made /\ walk' = walk)
  BY DEF Next, vars, core
<1> QED BY <1>1, <1>2

\* So the steps are those of BuildOrder for what could be used at some time.
LEMMA SameOrder ==
  ASSUME made = Usable(walk), made' = Usable(walk'), Ordering
  PROVE  [BO!Next]_(BO!vars)
<1>1. BO!vars = UO!vars /\ BO!vars' = UO!vars'
  BY DEF BO!vars, UO!vars, Running
<1>2. ASSUME NEW T, UO!Settle(T) PROVE BO!Settle(T)
  BY <1>2 DEF UO!Settle, BO!Settle, UO!Needs, BO!Needs, UO!Surely, BO!Surely, UO!Racing,
              BO!Racing, Running
<1>3. ASSUME NEW T, UO!Begin(T) PROVE BO!Begin(T)
  BY <1>3 DEF UO!Begin, BO!Begin, UO!Needs, BO!Needs, UO!Surely, BO!Surely, UO!Racing,
              BO!Racing, UO!SideEffects, BO!SideEffects, Running
<1>4. ASSUME NEW T, UO!End(T) PROVE BO!End(T)
  BY <1>4 DEF UO!End, BO!End, Running
<1>5. UO!Next => BO!Next
  BY <1>2, <1>3, <1>4 DEF UO!Next, BO!Next, UO!End, Running
<1> QED BY <1>1, <1>5 DEF Ordering

\* The build with jobs implements BuildOrder: a command starts only when all
\* that its targets depend on is there, also what a scanner found only in a file
\* that the build made; it starts once, and beside none that writes the same.
THEOREM OrderedAlways ==
  ASSUME \A b \in Builds : Orderly(b)
  PROVE  Spec => Ordered
<1>1. Spec => []OrderInv /\ []CountInv /\ []WalkInv /\ []Quiet
  BY OrderInvHolds
<1>2. Init => BO!Init /\ made = Usable(walk)
  <2> SUFFICES ASSUME Init PROVE BO!Init /\ made = Usable(walk)
    OBVIOUS
  <2>1. UO!Init /\ made = {}
    BY InitOrder DEF Init
  <2> QED BY <2>1 DEF BO!Init, UO!Init, Running
<1>3. CountInv /\ WalkInv /\ WalkInv' /\ OrderInv /\ Quiet /\ made = Usable(walk) /\ [Next]_vars
        => [BO!Next]_(BO!vars) /\ (made = Usable(walk))'
  <2> SUFFICES ASSUME CountInv, WalkInv, WalkInv', OrderInv, Quiet, made = Usable(walk),
                      [Next]_vars
               PROVE  [BO!Next]_(BO!vars) /\ made' = Usable(walk')
    OBVIOUS
  <2>1. Ordering
    BY StepOrder DEF WalkInv
  <2> QED BY <2>1, MadeKept, SameOrder
<1> QED BY <1>1, <1>2, <1>3, PTL DEF Spec, Ordered, BO!Spec

\* No command runs while another one makes, or also writes, anything it reads or
\* writes itself, also when the end of the other one was not collected yet.
THEOREM RunningApartAlways ==
  ASSUME \A b \in Builds : Orderly(b)
  PROVE  Spec => [](\A T, U \in Running :
                      /\ U \cap Deps(build, T) = {}
                      /\ T # U => /\ T \cap U = {}
                                  /\ SideEffects(build, T) \cap SideEffects(build, U) = {})
<1>1. ASSUME OrderInv, CountInv, WalkInv, NEW T \in Running, NEW U \in Running
      PROVE  /\ U \cap Deps(build, T) = {}
             /\ T # U => Separate(build, T, U)
  <2>1. /\ IsQueue(resultsQueue) /\ Running \subseteq InFlight
        /\ Running = RunningIn(worker, resultsQueue, begun)
    BY <1>1, RunningInFlight, RunningFacts DEF WalkInv
  <2>2. pc # "end"
    <3> SUFFICES ASSUME pc = "end" PROVE FALSE
      OBVIOUS
    <3>1. resultsQueue = <<>> /\ \A x \in Thread : worker[x].at # "run"
      BY <1>1 DEF CountInv, Accounted, Working, Thread
    <3>2. Len(resultsQueue) = 0
      BY <2>1, <3>1, LenFacts
    <3> QED BY <1>1, <2>1, <3>1, <3>2 DEF RunningIn
  <2>3. Stages /\ Separated /\ Steady(build, walk, begun, InFlight)
    BY <1>1, <2>2 DEF OrderInv
  <2>4. Deps(build, T) \subseteq Usable(walk) /\ U # {}
    BY <1>1, <2>1, <2>3, FlightFacts
  <2>5. \A u \in U : walk.state[u] = Executing
    <3>1. CASE \E x \in Thread : worker[x].at = "run" /\ U = worker[x].task
      BY <2>3, <3>1 DEF Stages, Is, TaskOf, Runs, AllAre
    <3>2. CASE \E i \in 1 .. Len(resultsQueue) :
                 resultsQueue[i].task \subseteq begun /\ U = resultsQueue[i].task
      BY <2>3, <2>4, <3>2 DEF Stages, Answers, Runs, AllAre
    <3> QED BY <1>1, <2>1, <3>1, <3>2 DEF RunningIn
  <2>6. U \cap Deps(build, T) = {}
    BY <2>4, <2>5 DEF Usable, Executing, UpToDate, Executed
  <2>7. T # U => Separate(build, T, U)
    <3>1. \A x \in Thread : worker[x].at = "run" => Working(x) /\ TaskOf(x) = worker[x].task
      BY DEF Working, TaskOf
    <3>2. CASE \E x \in Thread : worker[x].at = "run" /\ T = worker[x].task
      <4>1. U = T \/ Separate(build, U, T)
        BY <1>1, <2>1, <2>3, <3>1, <3>2, ThreadApart
      <4> QED BY <4>1, SeparateSymmetric
    <3>3. CASE \E x \in Thread : worker[x].at = "run" /\ U = worker[x].task
      BY <1>1, <2>1, <2>3, <3>1, <3>3, ThreadApart
    <3>4. CASE \E i, j \in 1 .. Len(resultsQueue) :
                 T = resultsQueue[i].task /\ U = resultsQueue[j].task
      BY <2>3, <3>4 DEF Separated, Spread
    <3> QED BY <1>1, <2>1, <3>2, <3>3, <3>4 DEF RunningIn
  <2> QED BY <2>6, <2>7
<1>2. OrderInv /\ CountInv /\ WalkInv =>
        \A T, U \in Running :
           /\ U \cap Deps(build, T) = {}
           /\ T # U => /\ T \cap U = {}
                       /\ SideEffects(build, T) \cap SideEffects(build, U) = {}
  BY <1>1 DEF Separate
<1> QED BY <1>2, OrderInvHolds, PTL

-----------------------------------------------------------------------------
(* Nothing is forgotten, and a cycle that is reported is one.              *)

\* While the build goes on nothing is forgotten; once nothing is in hand that
\* decides what it may report.
Drained(w) == w.candidates = <<>> /\ (w.stopped \/ w.top_targets_left = <<>>)
Tracked ==
  /\ pc # "end" => Track(build, walk, InFlight, {}) /\ report = "none"
  /\ pc = "cleanup" => Drained(walk)
  /\ NothingLost /\ ReportsAreReal

\* Before the end only the walk matters,
LEMMA GoesOnTracked ==
  ASSUME Tracked, pc # "end", pc' # "end", UNCHANGED <<build, report>>,
         Track(build, walk', InFlight', {}), pc' = "cleanup" => Drained(walk')
  PROVE  Tracked'
<1>1. report' = "none" /\ build' = build
  BY DEF Tracked
<1>2. NothingLost' /\ ReportsAreReal'
  BY <1>1 DEF NothingLost, ReportsAreReal, Ended
<1> QED BY <1>1, <1>2 DEF Tracked

\* and steps that leave it alone and lose no task keep it.
LEMMA SameWalkTracked ==
  ASSUME Tracked, pc # "end", UNCHANGED <<build, report, pc, walk>>,
         InFlight \subseteq InFlight', WalkInv
  PROVE  Tracked'
<1>1. Track(build, walk, InFlight', {})
  BY TrackMore DEF Tracked, WalkInv
<1> QED BY <1>1, GoesOnTracked DEF Tracked

\* When the main thread waits for no task there is none.
LEMMA NothingInFlight ==
  ASSUME CountInv, jobs = 0, pc \notin {"end", "execute"}
  PROVE  InFlight = {}
<1>1. /\ Len(requestQueue) \in Nat /\ Len(resultsQueue) \in Nat
      /\ Cardinality(Workings) \in Nat
  BY LenFacts, WorkingsFinite DEF CountInv
<1>2. 0 = Len(requestQueue) + Cardinality(Workings) + Len(resultsQueue)
  BY DEF CountInv, Accounted, Workings
<1>3. Len(requestQueue) = 0 /\ Cardinality(Workings) = 0 /\ Len(resultsQueue) = 0
  BY <1>1, <1>2
<1>4. \A x \in Worker : ~Working(x)
  BY <1>3, WorkingsFinite DEF Workings
<1>5. \A x \in Thread : ~Working(x)
  BY <1>4 DEF CountInv, Thread
<1>6. \A i : i \notin 1 .. Len(requestQueue) /\ i \notin 1 .. Len(resultsQueue)
  BY <1>3
<1> QED BY <1>5, <1>6, FlightPlaces

\* The next candidate, once it was considered.
LEMMA ConsideredTrack ==
  ASSUME WrittenOnly(build), Quiet, WalkInv, OrderInv, Tracked, NEW c \in Considered
  PROVE  /\ ~c.ready => Track(build, c.walk, InFlight, {})
         /\ c.ready => /\ Track(build, c.walk, InFlight, {c.node})
                       /\ c.walk.state[c.node] = Pending
<1>1. /\ pc = "dispatch" /\ ~walk.stopped
      /\ \E k \in NextCandidate(build, walk) :
           \E r \in Consider(build, k.walk, k.node) :
              c.node = k.node /\ c.ready = r.ready /\ c.walk = r.walk
  BY ConsideredPick DEF Quiet
<1>2. PICK k \in NextCandidate(build, walk) :
           \E r \in Consider(build, k.walk, k.node) :
              c.node = k.node /\ c.ready = r.ready /\ c.walk = r.walk
  BY <1>1
<1>3. PICK r \in Consider(build, k.walk, k.node) :
              c.node = k.node /\ c.ready = r.ready /\ c.walk = r.walk
  BY <1>2
<1>4. /\ build \in Builds /\ Sound(build, walk) /\ Steady(build, walk, begun, InFlight)
      /\ Track(build, walk, InFlight, {})
  BY <1>1 DEF WalkInv, OrderInv, Tracked
<1>5. Track(build, k.walk, InFlight, {k.node}) /\ k.node \in Needed(build)
  BY <1>4, NextCandidateTrack
<1>6. /\ Sound(build, k.walk) /\ k.node \in Node /\ k.walk.stopped = walk.stopped
  BY <1>4, NextCandidateSound
<1>7. \A T \in InFlight : T \subseteq build.builder
  BY <1>4, FlightFacts
<1>8. /\ ~r.ready => Track(build, r.walk, InFlight, {})
      /\ r.ready => Track(build, r.walk, InFlight, {k.node}) /\ r.walk.state[k.node] = Pending
  BY <1>1, <1>4, <1>5, <1>6, <1>7, ConsiderTrack
<1> QED BY <1>3, <1>8

\* The tasks are those in the queues and with the workers.
LEMMA SameFlight ==
  ASSUME UNCHANGED <<requestQueue, resultsQueue, worker>>
  PROVE  InFlight' = InFlight
BY DEF InFlight, TasksIn, AtWork, Working, TaskOf

\* A candidate is passed over.
LEMMA SkipTrack ==
  ASSUME WrittenOnly(build), Quiet, WalkInv, OrderInv, Tracked, Skip
  PROVE  Tracked'
<1>1. PICK c \in Considered : walk' = c.walk /\ ~c.ready
  BY DEF Skip
<1>2. UNCHANGED <<build, pc, requestQueue, resultsQueue, worker, report>>
  BY DEF Skip, StillDispatching, OnlyWalkAnd
<1>3. Track(build, walk', InFlight, {}) /\ pc = "dispatch"
  BY <1>1, ConsideredTrack, ConsideredPick DEF Quiet
<1>4. InFlight' = InFlight
  BY <1>2, SameFlight
<1> QED BY <1>2, <1>3, <1>4, GoesOnTracked

\* Nothing is handed out.
LEMMA NoTaskTrack ==
  ASSUME CountInv, Quiet, WalkInv, Tracked, DispatchStopped \/ DispatchNothing
  PROVE  Tracked'
<1>1. /\ pc = "dispatch" /\ pc' \in {"cleanup", "collect"}
      /\ UNCHANGED <<build, requestQueue, resultsQueue, worker, report>>
  BY DEF DispatchStopped, DispatchNothing, NoTaskNow, OnlyWalkAnd
<1>2. InFlight' = InFlight
  BY <1>1, SameFlight
<1>3. build \in Builds /\ walk \in WalkType /\ Track(build, walk, InFlight, {})
  BY <1>1 DEF WalkInv, Sound, Tracked
<1>4. CASE DispatchStopped
  <2>1. walk.stopped /\ walk' = Flush(walk)
    BY <1>4 DEF DispatchStopped
  <2>2. Track(build, walk', InFlight, {})
    BY <1>3, <2>1, FlushTrack
  <2>3. Drained(walk')
    BY <1>3, <2>1, FlushFields DEF Drained
  <2> QED BY <1>1, <1>2, <2>2, <2>3, GoesOnTracked
<1>5. CASE DispatchNothing
  <2>1. NextCandidate(build, walk) = {} /\ walk' = walk
    BY <1>5 DEF DispatchNothing
  <2>2. Drained(walk')
    BY <1>3, <2>1, CandidateLeft DEF Drained
  <2> QED BY <1>1, <1>2, <1>3, <2>1, <2>2, GoesOnTracked
<1> QED BY <1>4, <1>5

\* A signal stops the walk.
LEMMA SignalTrack ==
  ASSUME Quiet, WalkInv, Tracked, Signal
  PROVE  Tracked'
<1>1. /\ pc # "end" /\ walk' = [walk EXCEPT !.stopped = TRUE]
      /\ UNCHANGED <<build, pc, requestQueue, resultsQueue, worker, report>>
  BY DEF Signal
<1>2. build \in Builds /\ walk \in WalkType /\ Track(build, walk, InFlight, {})
  BY <1>1 DEF WalkInv, Sound, Tracked
<1>3. Track(build, walk', InFlight, {}) /\ InFlight' = InFlight
  BY <1>1, <1>2, StoppedTrack, SameFlight
<1>4. Drained(walk) => Drained(walk')
  BY <1>1, <1>2 DEF Drained, WalkType
<1> QED BY <1>1, <1>3, <1>4, GoesOnTracked DEF Tracked

\* What make_ready_current leaves of the walk.
LEMMA ReadyTrack ==
  ASSUME WrittenOnly(build), Quiet, WalkInv, OrderInv, Tracked, NEW c \in Considered, c.ready,
         c.node \notin build.unscannable,
         NEW T, T = build.targets[c.node], NEW b \in BOOLEAN
  PROVE  Track(build, MakeReady(build, c.walk, T, b), InFlight \cup {T}, {})
<1>1. /\ c.node \in Node /\ Steady(build, c.walk, begun, InFlight)
      /\ Deps(build, T) \subseteq Usable(c.walk)
  BY ConsideredSteady
<1>2. Track(build, c.walk, InFlight, {c.node}) /\ c.walk.state[c.node] = Pending
  BY ConsideredTrack
<1>3. c.walk \in WalkType /\ OnlyWritten(build, c.walk) /\ build \in Builds
  BY <1>1 DEF Steady, Sound, WalkInv
<1> QED BY <1>1, <1>2, <1>3, MakeReadyTrack

\* A task fails before its command.
LEMMA PrepareFailsTrack ==
  ASSUME Orderly(build), Quiet, WalkInv, OrderInv, Tracked, PrepareFails
  PROVE  Tracked'
<1>1. PICK c \in Considered :
        /\ c.ready /\ c.node \in build.breaks \cup build.unscannable
        /\ \E w \in {c.walk} \cup MadeReady(c.walk, c.node) :
             walk' \in FailedTask(build, w, build.targets[c.node])
  BY PrepareFailsPick
<1>2. PICK x \in {c.walk} \cup MadeReady(c.walk, c.node) :
        walk' \in FailedTask(build, x, build.targets[c.node])
  BY <1>1
<1>3. PICK w, n, T : w = c.walk /\ n = c.node /\ T = build.targets[n]
  OBVIOUS
<1>4. UNCHANGED <<build, pc, requestQueue, resultsQueue, worker, report>>
  BY DEF PrepareFails, StillDispatching, OnlyWalkAnd
<1>5. /\ WrittenOnly(build) /\ build \in Builds
      /\ build.on_error = "ignore" => build.breaks \cup build.unscannable = {}
      /\ \A k \in build.unscannable : SideEffects(build, build.targets[k]) = {}
  BY DEF Orderly, WalkInv
<1>6. /\ pc = "dispatch" /\ n \in Node /\ Sound(build, w) /\ w \in WalkType
      /\ w.current_top \in Node /\ T \in SUBSET Node /\ n \in T
  <2>1. c.node \in Node /\ Sound(build, c.walk) /\ pc = "dispatch"
    BY ConsideredQuiet
  <2> QED BY <1>3, <1>5, <2>1, ConsideredQuiet, TargetsFacts DEF Sound
<1>7. build.on_error # "ignore" /\ walk' \in FailedTask(build, x, T)
  BY <1>1, <1>2, <1>3, <1>5
<1>8. /\ Track(build, w, InFlight, {n})
      /\ n \notin build.unscannable =>
           \A b \in BOOLEAN : Track(build, MakeReady(build, w, T, b), InFlight \cup {T}, {})
  <2>1. Track(build, c.walk, InFlight, {c.node})
    BY <1>1, <1>5, ConsideredTrack
  <2>2. n \notin build.unscannable =>
           \A b \in BOOLEAN : Track(build, MakeReady(build, w, T, b), InFlight \cup {T}, {})
    BY <1>1, <1>3, <1>5, ReadyTrack
  <2> QED BY <1>3, <2>1, <2>2
<1>9. x = w \/ \E b \in BOOLEAN : x = MakeReady(build, w, T, b)
  BY <1>2, <1>3 DEF MadeReady
<1>10. PICK X : X = {n} /\ X \subseteq T
  BY <1>6
<1>11. Track(build, w, InFlight \cup {T}, X)
  BY <1>5, <1>8, <1>10, TrackMore
<1>12. CASE x = w
  <2>1. Track(build, walk', InFlight, {})
    BY <1>3, <1>5, <1>6, <1>7, <1>10, <1>11, <1>12, FailedTrack
  <2> QED BY <1>4, <1>6, <2>1, GoesOnTracked, SameFlight
<1>13. ASSUME NEW b \in BOOLEAN, x = MakeReady(build, w, T, b)
       PROVE  Tracked'
  <2>1. x = FoundCurrent(build, w, T) \/ x = Started(build, w, T)
    BY <1>13 DEF FoundCurrent, Started
  <2>2. \A m \in Node : m \notin T /\ m \notin SideEffects(build, T) => x.state[m] = w.state[m]
    BY <1>5, <1>6, <2>1, ReadyFields
  <2>3. /\ x.waiting_parents = w.waiting_parents /\ x.waiting_s_e = w.waiting_s_e
        /\ x.candidates = w.candidates /\ x.stopped = w.stopped
        /\ x.current_top = w.current_top /\ x.top_targets_left = w.top_targets_left
    BY <1>5, <1>6, <2>1, ReadyFields
  <2>4. \A U : \A e : MakeReady(build, w, U, e).pending_children = w.pending_children
    <3>1. build \in Builds /\ w \in WalkType /\ n \in Node
      BY <1>5, <1>6
    <3>2. \A U : /\ \A e : MakeReady(build, w, U, e).pending_children = w.pending_children
                 /\ ExecutedTask(build, w, U).pending_children = w.pending_children
      BY <3>1, PendingKept, Zenon
    <3> QED BY <3>2
  <2>5. x.pending_children = w.pending_children
    BY <1>13, <2>4
  <2>6. Sound(build, x)
    BY <1>5, <1>6, <1>13, MadeReadySound
  <2>7. x.current_top \in Node
    BY <1>6, <2>3
  <2>8. CASE n \in build.unscannable
    <3>1. SideEffects(build, T) = {}
      BY <1>3, <1>5, <2>8
    <3>2. \A m \in Node : m \in T \/ x.state[m] = w.state[m]
      BY <2>2, <3>1
    <3>3. Track(build, walk', InFlight, {})
      BY <1>3, <1>5, <1>6, <1>7, <1>10, <1>11, <2>3, <2>5, <2>6, <2>7, <3>2, FailedTrack
    <3> QED BY <1>4, <1>6, <3>3, GoesOnTracked, SameFlight
  <2>9. CASE n \notin build.unscannable
    <3>1. Track(build, x, InFlight \cup {T}, {})
      BY <1>8, <1>13, <2>9
    <3>2. PICK Y : Y = {}
      OBVIOUS
    <3>3. Track(build, walk', InFlight, {})
      BY <1>3, <1>5, <1>6, <1>7, <2>6, <2>7, <3>1, <3>2, FailedTrack
    <3> QED BY <1>4, <1>6, <3>3, GoesOnTracked, SameFlight
  <2> QED BY <2>8, <2>9
<1> QED BY <1>9, <1>12, <1>13

\* Nothing has to be run.
LEMMA NothingToRunTrack ==
  ASSUME Orderly(build), Quiet, WalkInv, OrderInv, Tracked, NothingToRun
  PROVE  Tracked'
<1>1. PICK c \in Considered :
        /\ c.ready /\ c.node \notin build.unscannable
        /\ LET T == build.targets[c.node]
               w == MakeReady(build, c.walk, T, TRUE)
               source == c.node \notin build.builder
               missing == /\ source /\ c.node \in Range(build.top) \cap build.fails
                          /\ \A t \in Node : c.node \notin build.side_effects[t]
           IN /\ source \/ T \subseteq build.present
              /\ walk' \in IF missing THEN FailedTask(build, w, T)
                           ELSE DoneTask(build, w, T)
  BY NothingToRunPick
<1>2. PICK n, T, b : n = c.node /\ T = build.targets[n] /\ b = TRUE
  OBVIOUS
<1>3. PICK x : x = FoundCurrent(build, c.walk, T)
  OBVIOUS
<1>4. UNCHANGED <<build, pc, requestQueue, resultsQueue, worker, report>>
  BY DEF NothingToRun, StillDispatching, OnlyWalkAnd
<1>5. WrittenOnly(build) /\ build \in Builds
  BY DEF Orderly, WalkInv
<1>6. n \notin build.builder \/ T \subseteq build.present
  BY <1>1, <1>2
<1>7. walk' \in FailedTask(build, x, T) \/ walk' \in DoneTask(build, x, T)
  BY <1>1, <1>2, <1>3 DEF FoundCurrent
<1>8. \/ walk' \in DoneTask(build, x, T)
      \/ build.on_error # "ignore" /\ walk' \in FailedTask(build, x, T)
  BY <1>5, <1>7, IgnoredIsDone
<1>9. /\ pc = "dispatch" /\ n \in Node /\ n \in Asked(build)
      /\ Steady(build, c.walk, begun, InFlight)
      /\ ~(c.walk.state[n] > Pending)
      /\ Deps(build, T) \subseteq Usable(c.walk)
  BY <1>1, <1>2, <1>5, ConsideredSteady
<1>10. Sound(build, c.walk) /\ c.walk.current_top \in Node /\ T \in SUBSET Node
  BY <1>2, ConsideredQuiet
<1>11. Steady(build, x, begun, InFlight)
  BY <1>2, <1>5, <1>6, <1>9, <1>3, CurrentSteady
<1>12. Sound(build, x) /\ OnlyWritten(build, x)
  BY <1>11 DEF Steady
<1>13. x.current_top \in Node
  <2>1. x = MakeReady(build, c.walk, T, b) /\ b \in BOOLEAN
    BY <1>2, <1>3 DEF FoundCurrent
  <2> QED BY <1>5, <1>10, <2>1, MadeReadySound
<1>14. Track(build, x, InFlight \cup {T}, {})
  <2>1. x = MakeReady(build, c.walk, T, b) /\ b \in BOOLEAN
    BY <1>2, <1>3 DEF FoundCurrent
  <2> QED BY <1>1, <1>2, <1>5, <2>1, ReadyTrack
<1>15. Track(build, walk', InFlight, {})
  <2>1. CASE walk' \in DoneTask(build, x, T)
    BY <1>5, <1>10, <1>12, <1>14, <2>1, DoneTrack
  <2>2. CASE build.on_error # "ignore" /\ walk' \in FailedTask(build, x, T)
    <3>1. PICK Y : Y = {}
      OBVIOUS
    <3> QED BY <1>2, <1>5, <1>9, <1>12, <1>13, <1>14, <2>2, <3>1, FailedTrack
  <2> QED BY <1>8, <2>1, <2>2
<1> QED BY <1>4, <1>9, <1>15, GoesOnTracked, SameFlight

\* A task is given out, to the workers or to the main thread.
LEMMA GivenTrack ==
  ASSUME Orderly(build), CountInv, Quiet, WalkInv, OrderInv, Tracked, Dispatch \/ Execute
  PROVE  Tracked'
<1>1. PICK c \in Ready :
        /\ walk' = MakeReady(build, c.walk, build.targets[c.node], FALSE)
        /\ \/ /\ requestQueue' = Append(requestQueue, Request(build.targets[c.node]))
              /\ worker' = worker
           \/ /\ worker' = [worker EXCEPT
                             ![None] = Doing("fetch", build.targets[c.node], {})]
              /\ requestQueue' = requestQueue
  BY DEF Dispatch, Execute, OnlyWalkAnd
<1>2. PICK T, b : T = build.targets[c.node] /\ b = FALSE
  OBVIOUS
<1>3. /\ UNCHANGED <<build, resultsQueue, report>>
      /\ pc' \in {"dispatch", "collect", "execute"}
  BY DEF Dispatch, Execute, OnlyWalkAnd
<1>4. WrittenOnly(build) /\ build \in Builds /\ IsQueue(requestQueue)
  BY DEF Orderly, WalkInv
<1>5. c \in Considered /\ c.ready /\ c.node \notin build.unscannable
  BY ConsideredQuiet DEF Ready
<1>6. pc = "dispatch"
  BY <1>5, ConsideredQuiet
<1>7. Track(build, walk', InFlight \cup {T}, {})
  <2>1. walk' = MakeReady(build, c.walk, T, b) /\ b \in BOOLEAN
    BY <1>1, <1>2
  <2> QED BY <1>2, <1>4, <1>5, <2>1, ReadyTrack
<1>8. InFlight \cup {T} \subseteq InFlight'
  <2>1. CASE requestQueue' = Append(requestQueue, Request(T)) /\ worker' = worker
    <3>1. Request(T).task = T
      BY DEF Request
    <3>2. TasksIn(requestQueue') = TasksIn(requestQueue) \cup {T}
      BY <1>4, <2>1, <3>1, AppendTasks
    <3>3. InFlight' = InFlight \cup {T}
      BY <1>3, <2>1, <3>2 DEF InFlight, TasksIn, AtWork, Working, TaskOf
    <3> QED BY <3>3
  <2>2. CASE /\ worker' = [worker EXCEPT ![None] = Doing("fetch", T, {})]
             /\ requestQueue' = requestQueue
    <3>0. None \in Thread
      BY DEF Thread
    <3>1. /\ worker'[None] = Doing("fetch", T, {})
          /\ \A y \in Thread : y # None =>
              /\ worker'[y] = worker[y] /\ TaskOf(y)' = TaskOf(y)
              /\ (Working(y)' <=> Working(y))
      BY <2>2, <3>0, OneThread
    <3>2. Working(None)' /\ TaskOf(None)' = T
      BY <3>1 DEF Working, TaskOf, Doing
    <3>3. ~Working(None)
      BY <1>6 DEF CountInv
    <3>4. T \in InFlight'
      BY <3>0, <3>2, FlightPlacesNext
    <3>5. ASSUME NEW U \in InFlight PROVE U \in InFlight'
      <4>1. CASE \E i \in 1 .. Len(requestQueue) : U = requestQueue[i].task
        BY <2>2, <4>1, FlightPlacesNext
      <4>2. CASE \E i \in 1 .. Len(resultsQueue) : U = resultsQueue[i].task
        BY <1>3, <4>2, FlightPlacesNext
      <4>3. CASE \E x \in Thread : Working(x) /\ U = TaskOf(x)
        <5>1. PICK x \in Thread : Working(x) /\ U = TaskOf(x)
          BY <4>3
        <5>2. Working(x)' /\ TaskOf(x)' = U
          BY <3>1, <3>3, <5>1
        <5> QED BY <5>2, FlightPlacesNext
      <4> QED BY <4>1, <4>2, <4>3, FlightPlaces
    <3> QED BY <3>4, <3>5
  <2> QED BY <1>1, <1>2, <2>1, <2>2
<1>9. Track(build, walk', InFlight', {})
  BY <1>4, <1>7, <1>8, TrackMore
<1> QED BY <1>3, <1>6, <1>9, GoesOnTracked

\* A task that was given out ends: it is put down.
LEMMA OutcomeTrack ==
  ASSUME Orderly(build), Quiet, WalkInv, OrderInv, Tracked, pc # "end",
         NEW T \in InFlight, InFlight \subseteq InFlight' \cup {T},
         NEW ok, NEW v \in Outcome(T, ok), walk.current_top \in Node
  PROVE  Track(build, v, InFlight', {})
<1>1. /\ build \in Builds /\ WrittenOnly(build) /\ Sound(build, walk)
      /\ Steady(build, walk, begun, InFlight) /\ Track(build, walk, InFlight, {})
  BY DEF WalkInv, OrderInv, Orderly, Tracked
<1>2. T \in SUBSET Node /\ T # {} /\ \A t \in T : build.targets[t] = T
  BY <1>1, FlightFacts
<1>3. OnlyWritten(build, walk)
  BY <1>1 DEF Steady
<1>4. Track(build, walk, InFlight' \cup {T}, {})
  BY <1>1, TrackMore
<1>5. \/ v \in DoneTask(build, walk, T)
      \/ build.on_error # "ignore" /\ v \in FailedTask(build, walk, T)
  BY <1>1, IgnoredIsDone DEF Outcome
<1>6. CASE v \in DoneTask(build, walk, T)
  BY <1>1, <1>2, <1>3, <1>4, <1>6, DoneTrack
<1>7. CASE build.on_error # "ignore" /\ v \in FailedTask(build, walk, T)
  <2>1. PICK n \in T : T = build.targets[n] /\ n \in Node
    BY <1>2
  <2>2. PICK Y : Y = {}
    OBVIOUS
  <2> QED BY <1>1, <1>4, <1>7, <2>1, <2>2, FailedTrack
<1> QED BY <1>5, <1>6, <1>7

\* A result is collected.
LEMMA CollectTrack ==
  ASSUME Orderly(build), Quiet, WalkInv, OrderInv, Tracked, Collect
  PROVE  Tracked'
<1>1. /\ pc = "collect" /\ resultsQueue # <<>> /\ pc' \in {"dispatch", "collect"}
      /\ walk' \in Outcome(Head(resultsQueue).task, Head(resultsQueue).ok)
      /\ resultsQueue' = Tail(resultsQueue)
      /\ UNCHANGED <<build, requestQueue, worker, report>>
  BY DEF Collect
<1>2. PICK T, ok : T = resultsQueue[1].task /\ ok = resultsQueue[1].ok
  OBVIOUS
<1>3. /\ Head(resultsQueue) = resultsQueue[1] /\ 1 \in 1 .. Len(resultsQueue)
      /\ TasksIn(resultsQueue) = TasksIn(resultsQueue') \cup {T}
  BY <1>1, <1>2, TailTasks DEF WalkInv
<1>4. walk' \in Outcome(T, ok) /\ T \in InFlight /\ walk.current_top \in Node
  <2>1. walk.current_top \in Node
    BY <1>1 DEF WalkInv, Topped
  <2> QED BY <1>1, <1>2, <1>3, <2>1, FlightPlaces
<1>5. InFlight \subseteq InFlight' \cup {T}
  BY <1>1, <1>3 DEF InFlight, TasksIn, AtWork, Working, TaskOf
<1>6. Track(build, walk', InFlight', {})
  BY <1>1, <1>4, <1>5, OutcomeTrack
<1> QED BY <1>1, <1>6, GoesOnTracked

\* When one thread goes on, the tasks of the others stay where they are.
LEMMA OthersFlight ==
  ASSUME WalkInv, NEW x \in Thread, NEW d, worker' = [worker EXCEPT ![x] = d],
         UNCHANGED <<requestQueue, resultsQueue>>,
         NEW U \in InFlight, ~Working(x) \/ U # TaskOf(x)
  PROVE  U \in InFlight'
<1>1. \A y \in Thread : y # x => TaskOf(y)' = TaskOf(y) /\ (Working(y)' <=> Working(y))
  BY OneThread
<1>2. CASE \E y \in Thread : Working(y) /\ U = TaskOf(y)
  <2>1. PICK y \in Thread : Working(y) /\ U = TaskOf(y)
    BY <1>2
  <2>2. Working(y)' /\ TaskOf(y)' = U
    BY <1>1, <2>1
  <2> QED BY <2>2, FlightPlacesNext
<1>3. CASE \/ \E i \in 1 .. Len(requestQueue) : U = requestQueue[i].task
           \/ \E i \in 1 .. Len(resultsQueue) : U = resultsQueue[i].task
  BY <1>3, FlightPlacesNext
<1> QED BY <1>2, <1>3, FlightPlaces

\* The end of a task.
LEMMA ReportTrack ==
  ASSUME Orderly(build), CountInv, Quiet, WalkInv, OrderInv, Tracked,
         NEW x \in Thread, Working(x), NEW ok, Report(x, ok)
  PROVE  Tracked'
<1>1. /\ pc # "end" /\ TaskOf(x) \in InFlight /\ UNCHANGED <<build, report, requestQueue>>
      /\ worker' = [worker EXCEPT ![x] = Idle]
  BY WorkingBeforeEnd, FlightPlaces DEF Report, UnchangedMain
<1>2. CASE x = None
  <2>1. /\ walk' \in Outcome(TaskOf(x), ok) /\ pc' = "dispatch" /\ resultsQueue' = resultsQueue
    BY <1>2 DEF Report
  <2>2. walk.current_top \in Node
    BY DEF WalkInv, Topped
  <2>3. PICK T : T = TaskOf(x)
    OBVIOUS
  <2>4. InFlight \subseteq InFlight' \cup {T}
    BY <1>1, <2>1, <2>3, OthersFlight
  <2>5. Track(build, walk', InFlight', {})
    BY <1>1, <2>1, <2>2, <2>3, <2>4, OutcomeTrack
  <2> QED BY <1>1, <2>1, <2>5, GoesOnTracked
<1>3. CASE x # None
  <2>1. /\ resultsQueue' = Append(resultsQueue, [task |-> TaskOf(x), ok |-> ok])
        /\ UNCHANGED <<walk, pc>>
    BY <1>3 DEF Report
  <2>2. PICK T : T = TaskOf(x)
    OBVIOUS
  <2>3. PICK r : r = [task |-> T, ok |-> ok]
    OBVIOUS
  <2>4. T = TaskOf(x) /\ r.task = T /\ resultsQueue' = Append(resultsQueue, r)
    BY <2>1, <2>2, <2>3
  <2>5. TasksIn(resultsQueue') = TasksIn(resultsQueue) \cup {T}
    BY <2>1, <2>4, AppendTasks DEF WalkInv
  <2>6. \A y \in Thread : y # x => TaskOf(y)' = TaskOf(y) /\ (Working(y)' <=> Working(y))
    BY <1>1, OneThread
  <2>7. ASSUME NEW U \in InFlight PROVE U \in InFlight'
    <3>1. CASE U \in TasksIn(requestQueue) \/ U \in TasksIn(resultsQueue) \/ U = T
      BY <1>1, <2>5, <3>1 DEF InFlight, TasksIn
    <3>2. CASE \E y \in Thread : y # x /\ Working(y) /\ U = TaskOf(y)
      <4>1. PICK y \in Thread : y # x /\ Working(y) /\ U = TaskOf(y)
        BY <3>2
      <4>2. Working(y)' /\ TaskOf(y)' = U
        BY <2>6, <4>1
      <4> QED BY <4>2, FlightPlacesNext
    <3> QED BY <2>4, <3>1, <3>2 DEF InFlight, AtWork
  <2> QED BY <1>1, <2>1, <2>7, SameWalkTracked
<1> QED BY <1>2, <1>3

\* A worker takes a task, or refuses it.
LEMMA TakenTrack ==
  ASSUME CountInv, Quiet, WalkInv, OrderInv, Tracked, NEW x \in Thread, Take(x) \/ Refuse(x)
  PROVE  Tracked'
<1>1. /\ Offered(x, FALSE) /\ UNCHANGED <<build, report, pc, walk>>
      /\ requestQueue' = Tail(requestQueue)
  BY DEF Take, Refuse, Offered, UnchangedMain
<1>2. PICK T : T = requestQueue[1].task
  OBVIOUS
<1>3. /\ pc # "end" /\ x \in Worker /\ ~Working(x) /\ Head(requestQueue) = requestQueue[1]
      /\ TasksIn(requestQueue) = TasksIn(requestQueue') \cup {T}
  BY <1>1, <1>2, OfferedOrder
<1>4. CASE Take(x)
  <2>1. worker' = [worker EXCEPT ![x] = Doing("fetch", T, {})] /\ resultsQueue' = resultsQueue
    BY <1>2, <1>3, <1>4 DEF Take
  <2>2. /\ worker'[x] = Doing("fetch", T, {})
        /\ \A y \in Thread : y # x => TaskOf(y)' = TaskOf(y) /\ (Working(y)' <=> Working(y))
    BY <2>1, OneThread
  <2>3. Working(x)' /\ TaskOf(x)' = T
    BY <2>2 DEF Working, TaskOf, Doing
  <2>4. ASSUME NEW U \in InFlight PROVE U \in InFlight'
    <3>1. CASE U \in TasksIn(requestQueue') \/ U \in TasksIn(resultsQueue)
      BY <2>1, <3>1 DEF InFlight, TasksIn
    <3>2. CASE U = T
      BY <2>3, <3>2, FlightPlacesNext
    <3>3. CASE \E y \in Thread : Working(y) /\ U = TaskOf(y)
      <4>1. PICK y \in Thread : Working(y) /\ U = TaskOf(y)
        BY <3>3
      <4>2. Working(y)' /\ TaskOf(y)' = U
        BY <1>3, <2>2, <4>1
      <4> QED BY <4>2, FlightPlacesNext
    <3> QED BY <1>3, <3>1, <3>2, <3>3 DEF InFlight, AtWork
  <2> QED BY <1>1, <1>3, <2>4, SameWalkTracked
<1>5. CASE Refuse(x)
  <2>1. PICK r : r = [task |-> T, ok |-> FALSE]
    OBVIOUS
  <2>2. r.task = T
    BY <2>1
  <2>3. resultsQueue' = Append(resultsQueue, r) /\ worker' = worker
    BY <1>2, <1>3, <1>5, <2>1 DEF Refuse
  <2>4. TasksIn(resultsQueue') = TasksIn(resultsQueue) \cup {T}
    BY <2>2, <2>3, AppendTasks DEF WalkInv
  <2>5. InFlight \subseteq InFlight'
    BY <1>3, <2>3, <2>4 DEF InFlight, TasksIn, AtWork, Working, TaskOf
  <2> QED BY <1>1, <1>3, <2>5, SameWalkTracked
<1> QED BY <1>4, <1>5

\* A command starts.
LEMMA RunTrack ==
  ASSUME CountInv, WalkInv, Tracked, NEW x \in Thread, Run(x)
  PROVE  Tracked'
<1>1. /\ Working(x) /\ worker' = [worker EXCEPT ![x] = Doing("run", TaskOf(x), worker[x].got)]
      /\ UNCHANGED <<build, report, pc, walk, requestQueue, resultsQueue>>
  BY DEF Run, UnchangedMain, Is, Working, WalkInv
<1>2. pc # "end"
  BY <1>1, WorkingBeforeEnd
<1>3. worker'[x] = Doing("run", TaskOf(x), worker[x].got)
  BY <1>1, OneThread
<1>4. Working(x)' /\ TaskOf(x)' = TaskOf(x)
  BY <1>3 DEF Working, TaskOf, Doing
<1>5. InFlight \subseteq InFlight'
  BY <1>1, <1>4, OthersFlight, FlightPlacesNext
<1> QED BY <1>1, <1>2, <1>5, SameWalkTracked

\* A target is fetched.
LEMMA FetchTrack ==
  ASSUME Orderly(build), CountInv, Quiet, WalkInv, OrderInv, Tracked,
         NEW x \in Thread, NEW t \in Node, Fetch(x, t)
  PROVE  Tracked'
<1>1. PICK T : T = TaskOf(x)
  OBVIOUS
<1>2. /\ Is(x, "fetch") /\ t \in T /\ t \in build.cached /\ t \notin worker[x].got
      /\ walk' = Fetched(walk, t)
      /\ worker' = [worker EXCEPT ![x] = Doing("fetch", T, worker[x].got \cup {t})]
      /\ UNCHANGED <<build, report, pc, requestQueue, resultsQueue>>
  BY <1>1 DEF Fetch, InCache, Marked, UnchangedMain, Fetched, WalkInv
<1>3. /\ pc # "end" /\ Working(x) /\ T \in InFlight
      /\ worker[x].got = {} \/ worker[x].got = T
      /\ worker[x].got = {} => \A m \in T : walk.state[m] = Executing
  BY <1>1, <1>2, FetchingFacts
<1>4. walk.state[t] = Executing
  BY <1>2, <1>3
<1>5. build \in Builds /\ walk \in WalkType /\ Track(build, walk, InFlight, {})
  BY <1>3 DEF WalkInv, Sound, Tracked
<1>6. PICK v : v = Fetched(walk, t)
  OBVIOUS
<1>7. walk' = v
  BY <1>2, <1>6
<1>8. Track(build, v, InFlight, {})
  <2>1. PICK F : F = InFlight
    OBVIOUS
  <2>2. T \in F /\ t \in T /\ walk.state[t] = Executing /\ Track(build, walk, F, {})
    BY <1>2, <1>3, <1>4, <1>5, <2>1
  <2>3. Track(build, Fetched(walk, t), F, {})
    BY <1>5, <2>2, FetchedTrack
  <2> QED BY <1>6, <2>1, <2>3
<1>9. Track(build, walk', InFlight, {})
  BY <1>7, <1>8
<1>10. PICK d : d = Doing("fetch", T, worker[x].got \cup {t})
  OBVIOUS
<1>11. worker' = [worker EXCEPT ![x] = d]
  BY <1>2, <1>10
<1>12. worker'[x] = d
  BY <1>11, OneThread
<1>13. Working(x)' /\ TaskOf(x)' = T
  BY <1>10, <1>12 DEF Working, TaskOf, Doing
<1>14. InFlight \subseteq InFlight'
  BY <1>1, <1>2, <1>11, <1>13, OthersFlight, FlightPlacesNext
<1>15. Track(build, walk', InFlight', {})
  BY <1>5, <1>9, <1>14, TrackMore
<1>16. pc # "cleanup"
  <2>1. x = None => pc = "execute"
    BY <1>3 DEF CountInv
  <2>2. pc = "cleanup" => InFlight = {}
    BY NothingInFlight DEF CountInv
  <2> QED BY <1>3, <2>2
<1> QED BY <1>2, <1>3, <1>15, <1>16, GoesOnTracked

\* The end: every target was dealt with or something failed, and a cycle that is
\* reported is one.
LEMMA CleanupTrack ==
  ASSUME WrittenOnly(build), CountInv, Quiet, WalkInv, Tracked, Cleanup
  PROVE  Tracked'
<1>1. /\ pc = "cleanup" /\ pc' = "end" /\ UNCHANGED <<build, walk>>
      /\ report' = IF ReportsCycle(walk) THEN "cycle" ELSE "done"
  BY DEF Cleanup
<1>2. InFlight = {}
  BY <1>1, NothingInFlight DEF CountInv
<1>3. /\ build \in Builds /\ Sound(build, walk) /\ Track(build, walk, {}, {})
      /\ walk.candidates = <<>> /\ (walk.stopped \/ walk.top_targets_left = <<>>)
  BY <1>1, <1>2 DEF WalkInv, Tracked, Drained
<1>4. NothingLost'
  <2> SUFFICES ASSUME ~walk.stopped, report' = "done", NEW t \in Range(build.top)
               PROVE  walk.state[t] > Executing \/ \E d \in Below(build, {t}) : Failing(d)
    BY <1>1 DEF NothingLost, Failing
  <2>1. ~ReportsCycle(walk)
    BY <1>1
  <2>2. walk.state[t] > Executing \/ \E d \in Below(build, {t}) : walk.state[d] = Failed
    BY <1>3, <2>1, EndsDone
  <2> QED BY <2>2 DEF Failing
<1>5. ReportsAreReal'
  <2> SUFFICES ASSUME report' = "cycle", FailuresCleared
               PROVE  HasCycle
    BY <1>1 DEF ReportsAreReal, FailuresCleared, HasCycle, Failing
  <2>1. ReportsCycle(walk)
    BY <1>1
  <2>2. FailedOf(walk) = {} \/ (build.on_error = "stop" /\ SideEffects(build, Node) = {})
    BY DEF FailuresCleared, Failing, FailedOf
  <2> QED BY <1>3, <2>1, <2>2, EndsCycle DEF HasCycle, Needed
<1> QED BY <1>1, <1>4, <1>5 DEF Tracked

\* After the end only workers leave.
LEMMA EndedTrack ==
  ASSUME Tracked, UNCHANGED <<build, walk, pc, report>>, pc = "end"
  PROVE  Tracked'
BY DEF Tracked, NothingLost, ReportsAreReal, Ended, Failing, FailuresCleared, HasCycle

\* A worker leaves.
LEMMA QuitTrack ==
  ASSUME CountInv, Tracked, NEW x \in Thread, Quit(x)
  PROVE  Tracked'
<1>1. UNCHANGED <<build, walk, pc, report>>
  BY DEF Quit, Offered, UnchangedMain
<1>2. pc = "end"
  BY OfferedCount DEF Quit
<1> QED BY <1>1, <1>2, EndedTrack

\* Every step.
LEMMA StepTrack ==
  ASSUME Orderly(build), CountInv, Quiet, WalkInv, OrderInv, Tracked, [Next]_vars
  PROVE  Tracked'
<1>1. WrittenOnly(build)
  BY DEF Orderly
<1>2. CASE Main
  <2>1. ~Look
    BY DEF Look, Quiet, Foreseen
  <2> QED
    BY <1>1, <1>2, <2>1, NoTaskTrack, SkipTrack, PrepareFailsTrack, NothingToRunTrack,
       GivenTrack, CollectTrack, CleanupTrack DEF Main
<1>3. CASE Signal
  BY <1>3, SignalTrack
<1>4. CASE \E x \in Thread : Work(x)
  <2>1. PICK x \in Thread : Work(x)
    BY <1>4
  <2>2. CASE AllFetched(x) \/ Finish(x) \/ Fail(x)
    <3>1. Working(x)
      BY <2>2 DEF AllFetched, Finish, Fail, Is, Working
    <3>2. PICK ok \in BOOLEAN : Report(x, ok)
      BY <2>2 DEF AllFetched, Finish, Fail
    <3> QED BY <3>1, <3>2, ReportTrack
  <2>3. ~ResetParents(x) /\ ~ResetRaises(x) /\ \A t \in Node : ~MarkFetched(x, t)
    BY DEF MarkFetched, ResetParents, ResetRaises, Quiet, Foreseen
  <2>4. CASE Take(x) \/ Refuse(x) \/ Quit(x) \/ Run(x)
    BY <2>4, TakenTrack, QuitTrack, RunTrack
  <2>5. CASE \E t \in Node : Fetch(x, t)
    BY <2>5, FetchTrack
  <2> QED BY <2>1, <2>2, <2>3, <2>4, <2>5 DEF Work
<1>5. CASE UNCHANGED vars
  <2>1. UNCHANGED <<build, walk, pc, requestQueue, resultsQueue, worker, report>>
    BY <1>5 DEF vars, core
  <2>2. InFlight' = InFlight
    BY <2>1, SameFlight
  <2> QED BY <2>1, <2>2, EndedTrack, SameWalkTracked
<1> QED BY <1>2, <1>3, <1>4, <1>5 DEF Next

\* At the start.
LEMMA InitTrack == Init => Tracked
<1> SUFFICES ASSUME Init PROVE Tracked
  OBVIOUS
<1>1. /\ build \in Builds /\ walk = NewWalk(build) /\ pc = "dispatch" /\ report = "none"
      /\ requestQueue = <<>> /\ resultsQueue = <<>> /\ \A x \in Thread : ~Working(x)
  BY DEF Init, Working, Idle, Gone, Doing
<1>2. InFlight = {}
  <2>1. Len(<<>>) = 0
    OBVIOUS
  <2> QED BY <1>1, <2>1, FlightPlaces
<1>3. Track(build, walk, InFlight, {})
  BY <1>1, <1>2, NewWalkTrack
<1> QED BY <1>1, <1>3 DEF Tracked, NothingLost, ReportsAreReal, Ended

\* Throughout.
LEMMA TrackedHolds ==
  ASSUME \A b \in Builds : Orderly(b)
  PROVE  Spec => []Tracked
<1>1. Spec => []OrderInv /\ []CountInv /\ []WalkInv /\ []Quiet
  BY OrderInvHolds
<1>2. Init => Tracked
  BY InitTrack
<1>3. CountInv /\ WalkInv /\ OrderInv /\ Quiet /\ Tracked /\ [Next]_vars => Tracked'
  BY StepTrack DEF WalkInv
<1> QED BY <1>1, <1>2, <1>3, PTL DEF Spec

\* At the end of a build that was not stopped and reports no cycle every target
\* of the command line was dealt with, or something it depends on failed.
THEOREM NothingLostAlways ==
  ASSUME \A b \in Builds : Orderly(b)
  PROVE  Spec => []NothingLost
<1>1. Spec => []Tracked
  BY TrackedHolds
<1>2. Tracked => NothingLost
  BY DEF Tracked
<1> QED BY <1>1, <1>2, PTL

\* A build in which nothing failed, and one that stops at the first failure and
\* whose commands write no side effects, ends with "Found dependency cycle(s)"
\* only if there is one among what it has to make.
THEOREM ReportsAreRealAlways ==
  ASSUME \A b \in Builds : Orderly(b)
  PROVE  Spec => []ReportsAreReal
<1>1. Spec => []Tracked
  BY TrackedHolds
<1>2. Tracked => ReportsAreReal
  BY DEF Tracked
<1> QED BY <1>1, <1>2, PTL


-----------------------------------------------------------------------------
(* The abstract order by itself: what any build that keeps it has, whatever *)
(* walks the graph.                                                         *)

VARIABLES
  anyBuild, anyBuilt, anyRunning, anyBegun  \* those of BuildOrder

Abstract == INSTANCE BuildOrder WITH
  build <- anyBuild, built <- anyBuilt, running <- anyRunning, begun <- anyBegun

\* Closed and Apart are kept together: that a command's inputs are at rest
\* needs that no other command makes them, and the other way round; what runs
\* was begun, and what it scans as well is there.
AnyInv ==
  /\ anyBuild \in Builds /\ anyBuilt \in SUBSET Node /\ anyRunning \subseteq SUBSET Node
  /\ Abstract!Closed /\ Abstract!Apart
  /\ UNION anyRunning \subseteq anyBegun

\* What two sets of nodes need together is what each of them needs.
LEMMA NeedsOfUnion ==
  ASSUME NEW b, NEW B, NEW S, NEW T
  PROVE  Abstract!Needs(b, B, S \cup T) = Abstract!Needs(b, B, S) \cup Abstract!Needs(b, B, T)
BY DEF Abstract!Needs

\* What can be scanned is listed: a command that makes none of what S lists
\* changes nothing about what S needs.
LEMMA NeedsStay ==
  ASSUME NEW b \in Builds, NEW B, NEW S \in SUBSET Node, NEW C, NEW T,
         Abstract!Needs(b, B, S) \subseteq C, T \cap C = {}
  PROVE  Abstract!Needs(b, B \cup T, S) \subseteq C
<1>1. \A t \in S : b.children[t] \subseteq C
  BY DEF Abstract!Needs
<1>2. \A t \in S : \A e \in b.reveals[t] : e[1] \in C
  BY <1>1, BuildsAssumption DEF ScansChildren
<1>3. \A t \in S : \A e \in b.reveals[t] :
        Abstract!Surely(b, B \cup T, e[1]) => Abstract!Surely(b, B, e[1])
  BY <1>2 DEF Abstract!Surely
<1>4. ASSUME NEW t \in S, NEW e \in b.reveals[t], ~Abstract!Racing(b),
             Abstract!Surely(b, B \cup T, e[1])
      PROVE  e[2] \in C
  BY <1>3, <1>4 DEF Abstract!Needs
<1>5. ASSUME NEW t \in S
      PROVE  {e[2] : e \in {r \in b.reveals[t] : /\ ~Abstract!Racing(b)
                                                /\ Abstract!Surely(b, B \cup T, r[1])}}
               \subseteq C
  BY <1>4, <1>5
<1> QED BY <1>1, <1>5 DEF Abstract!Needs

\* Nodes that settle are in no command and have all they need.
LEMMA SettleKeeps ==
  ASSUME AnyInv, NEW N \in SUBSET Node, Abstract!Settle(N)
  PROVE  AnyInv'
<1>1. Abstract!Needs(anyBuild', anyBegun', anyBuilt') \subseteq anyBuilt'
  BY NeedsOfUnion DEF AnyInv, Abstract!Closed, Abstract!Settle
<1>2. \A T \in anyRunning' : /\ Abstract!Needs(anyBuild', anyBegun', T) \subseteq anyBuilt'
                             /\ T \cap anyBuilt' = {}
  BY DEF AnyInv, Abstract!Closed, Abstract!Settle
<1>3. Abstract!Apart' /\ (UNION anyRunning \subseteq anyBegun)'
  BY DEF AnyInv, Abstract!Apart, Abstract!Settle
<1> QED BY <1>1, <1>2, <1>3 DEF AnyInv, Abstract!Closed, Abstract!Settle

\* A command that begins makes nothing that was begun before, and nothing that
\* is scanned for what is there or is being made.
LEMMA BeginKeeps ==
  ASSUME AnyInv, NEW T \in SUBSET Node, Abstract!Begin(T)
  PROVE  AnyInv'
<1>1. Abstract!Closed'
  <2>1. /\ anyBuild' = anyBuild /\ anyBuilt' = anyBuilt /\ anyBegun' = anyBegun \cup T
        /\ anyRunning' = anyRunning \cup {T} /\ T \cap anyBuilt = {}
    BY DEF Abstract!Begin
  <2>2. /\ anyBuilt \in SUBSET Node
        /\ \A U \in anyRunning' : U \in SUBSET Node
    BY DEF Abstract!Begin, AnyInv, Abstract!Closed
  <2>3. \A S \in {anyBuilt} \cup anyRunning' : Abstract!Needs(anyBuild, anyBegun, S) \subseteq anyBuilt
    BY <2>1 DEF AnyInv, Abstract!Closed, Abstract!Begin
  <2>4. \A S \in {anyBuilt} \cup anyRunning' :
          Abstract!Needs(anyBuild, anyBegun \cup T, S) \subseteq anyBuilt
    BY <2>1, <2>2, <2>3, NeedsStay DEF AnyInv
  <2> QED BY <2>1, <2>4 DEF AnyInv, Abstract!Closed
<1>2. \A U \in anyRunning : T \cap U = {} /\ U \cap T = {}
  BY DEF AnyInv, Abstract!Begin
<1>3. Abstract!Apart'
  BY <1>2 DEF AnyInv, Abstract!Apart, Abstract!Begin
<1> QED BY <1>1, <1>3 DEF AnyInv, Abstract!Begin

\* A command that ends has all that its targets need, and shares none of them.
LEMMA EndKeeps ==
  ASSUME AnyInv, NEW T \in anyRunning, Abstract!End(T)
  PROVE  AnyInv'
<1>1. Abstract!Needs(anyBuild', anyBegun', anyBuilt') \subseteq anyBuilt'
  BY NeedsOfUnion DEF AnyInv, Abstract!Closed, Abstract!End
<1>2. ASSUME NEW U \in anyRunning'
      PROVE  Abstract!Needs(anyBuild', anyBegun', U) \subseteq anyBuilt' /\ U \cap anyBuilt' = {}
  <2>1. U \in anyRunning /\ U # T
    BY DEF Abstract!End
  <2>2. U \cap T = {}
    BY <2>1 DEF AnyInv, Abstract!Apart
  <2> QED BY <2>1, <2>2 DEF AnyInv, Abstract!Closed, Abstract!End
<1>3. Abstract!Apart' /\ (UNION anyRunning \subseteq anyBegun)'
  BY DEF AnyInv, Abstract!Apart, Abstract!End
<1> QED BY <1>1, <1>2, <1>3 DEF AnyInv, Abstract!Closed, Abstract!End

\* The invariant holds throughout.
LEMMA AnyInvHolds == Abstract!Spec => []AnyInv
<1>1. Abstract!Init => AnyInv
  BY DEF Abstract!Init, AnyInv, Abstract!Closed, Abstract!Apart, Abstract!Needs
<1>2. AnyInv /\ [Abstract!Next]_(Abstract!vars) => AnyInv'
  <2> SUFFICES ASSUME AnyInv, [Abstract!Next]_(Abstract!vars) PROVE AnyInv'
    OBVIOUS
  <2>1. CASE \E T \in SUBSET Node : Abstract!Settle(T) \/ Abstract!Begin(T)
    BY <2>1, SettleKeeps, BeginKeeps
  <2>2. CASE \E T \in anyRunning : Abstract!End(T)
    BY <2>2, EndKeeps
  <2>3. CASE UNCHANGED Abstract!vars
    BY <2>3 DEF Abstract!vars, AnyInv, Abstract!Closed, Abstract!Apart
  <2> QED BY <2>1, <2>2, <2>3 DEF Abstract!Next
<1> QED BY <1>1, <1>2, PTL DEF Abstract!Spec

\* Whatever may be used has all that it needs, and so has whatever is being
\* made: the promise of _find_next_ready_node.
THEOREM ClosedAlways == Abstract!Spec => []Abstract!Closed
BY AnyInvHolds, PTL DEF AnyInv

\* Two commands that run have no target and no side effect in common.
THEOREM ApartAlways == Abstract!Spec => []Abstract!Apart
BY AnyInvHolds, PTL DEF AnyInv

\* No command reads what another one is making.
THEOREM InputsAtRestAlways ==
  Abstract!Spec =>
    [](\A T, U \in anyRunning : U \cap Abstract!Needs(anyBuild, anyBegun, T) = {})
<1>1. AnyInv =>
        \A T, U \in anyRunning : U \cap Abstract!Needs(anyBuild, anyBegun, T) = {}
  BY DEF AnyInv, Abstract!Closed
<1> QED BY <1>1, AnyInvHolds, PTL
=============================================================================
