--------------------------- MODULE ParallelBuild ---------------------------
(***************************************************************************)
(* The jobs of a build (python/SCons/Job.py).  With several jobs the main  *)
(* thread walks the graph (Taskmaster), puts the tasks that have a command *)
(* to run into a queue and takes their results from another one; worker    *)
(* threads run the commands.  With one job the main thread runs them.  A   *)
(* signal stops the walk between any two steps.                            *)
(*                                                                         *)
(* A step of the main thread is one candidate considered, or one result    *)
(* collected; a step of a worker is one access to the queues, or the start *)
(* or the end of its command.  The walk is touched by the main thread      *)
(* alone, with one exception: Task.execute, in the worker, marks a target  *)
(* that it found in the cache as executed and deletes the scans of the     *)
(* nodes that wait for it.  So in a build that is Racing a candidate is    *)
(* considered in two steps, and a target is fetched in two steps, between  *)
(* which the others come in.                                               *)
(***************************************************************************)
EXTENDS Taskmaster

CONSTANT Worker       \* worker threads, as many as jobs

ASSUME WorkerAssumption == IsFiniteSet(Worker) /\ Worker # {} /\ None \notin Worker

VARIABLES
  build,              \* what is built, and how; it never changes
  walk,               \* the Taskmaster and its nodes
  pc,                 \* where start() is
  jobs,               \* its count of tasks it waits for
  requestQueue,       \* tasks, and sentinels for the end
  resultsQueue,       \* tasks with whether they succeeded
  worker,             \* what each worker thread, and the main one, executes
  interrupted,        \* InterruptState
  report,             \* what the main thread ends with
  looked,             \* a candidate and its children, or None
  resetting,          \* the target a worker has marked, and who waited for it
  begun,              \* history: targets whose command was started
  made                \* history: nodes that could be used at some time

core == <<build, walk, pc, jobs, requestQueue, resultsQueue, worker,
          interrupted, report, looked, resetting, begun>>
vars == <<core, made>>

\* A task is the set of its targets.
Request(T) == [task |-> T, quit |-> FALSE]
Sentinel == [task |-> {}, quit |-> TRUE]
Doing(at, T, got) == [at |-> at, task |-> T, got |-> got]
Idle == Doing("idle", {}, {})
Gone == Doing("gone", {}, {})
MaxJobs == Cardinality(Worker)

\* The threads that execute tasks; None is the main thread.
Thread == Worker \cup {None}
Executors == IF build.serial THEN {None} ELSE Worker

Init ==
  /\ build \in Builds
  /\ walk = NewWalk(build)
  /\ pc = "dispatch"
  /\ jobs = 0
  /\ requestQueue = <<>> /\ resultsQueue = <<>>
  /\ worker = [x \in Thread |-> IF x \in Executors THEN Idle ELSE Gone]
  /\ interrupted = FALSE
  /\ report = "none"
  /\ looked = None /\ resetting = [x \in Thread |-> None]
  /\ begun = {} /\ made = {}

-----------------------------------------------------------------------------
(* The main thread: handing out tasks.                                     *)

OnlyWalkAnd(v) ==
  /\ looked' = None
  /\ UNCHANGED <<build, resultsQueue, interrupted, report, resetting, begun, v>>

\* next_task gave None: there is nothing to start now, or nothing left.
NoTaskNow ==
  /\ pc' = IF jobs = 0 THEN "cleanup" ELSE "collect"
  /\ OnlyWalkAnd(<<jobs, requestQueue, worker>>)

\* After stop() the candidates are dropped and no task is given.
DispatchStopped ==
  /\ pc = "dispatch" /\ walk.stopped /\ looked = None
  /\ walk' = Flush(walk)
  /\ NoTaskNow

DispatchNothing ==
  /\ pc = "dispatch" /\ ~walk.stopped /\ looked = None
  /\ NextCandidate(build, walk) = {}
  /\ UNCHANGED walk
  /\ NoTaskNow

\* Who waits for the target that a worker has just marked.
Waiting(x) == walk.waiting_parents[resetting[x].target]

\* The first half of considering a candidate beside workers: the main thread
\* scans it and reads its children.  If a worker is just deleting the scan of the
\* node, the children may lack what it found, or their list cannot be read.
Seen(n, C, raised) ==
  [node |-> n, children |-> C, raised |-> raised,
   executing |-> {c \in C : walk.state[c] = Executing}]
Torn(n) ==
  \E x \in Worker : resetting[x] # None /\ n \in resetting[x].left \cup Waiting(x)
Simply(c) == c.walk.state[c.node] > Pending \/ c.node \in build.unscannable
Look ==
  /\ Racing(build) /\ pc = "dispatch" /\ ~walk.stopped /\ looked = None
  /\ \E c \in NextCandidate(build, walk) :
       LET n == c.node
           v == Visited(c.walk, n)
       IN /\ ~Simply(c)
          /\ \/ \E X \in Scans(build, walk, n) :
                  /\ walk' = Scanned(build, v, n, X)
                  /\ looked' = Seen(n, Children(build, walk', n), FALSE)
             \/ /\ Torn(n)
                /\ walk' = Rescan(v, {n})
                /\ looked' \in {Seen(n, build.children[n], b) : b \in BOOLEAN}
  /\ UNCHANGED <<build, pc, jobs, requestQueue, resultsQueue, worker, interrupted,
                 report, resetting, begun>>

\* The second half: the states of the children are read, those of targets that
\* are being fetched before or after the worker has marked them.
LookedAt ==
  LET n == looked.node
      fetched == {c \in looked.executing : walk.state[c] = Executed}
  IN IF looked.raised THEN {[node |-> n, ready |-> TRUE, raised |-> TRUE, walk |-> walk]}
     ELSE UNION {{[node |-> n, ready |-> r.ready, raised |-> FALSE, walk |-> r.walk]
                    : r \in Decide(build, walk, n, looked.children, L)}
                   : L \in SUBSET fetched}

\* The results of considering the next candidate.
Considered ==
  IF looked # None THEN LookedAt
  ELSE IF pc = "dispatch" /\ ~walk.stopped
  THEN UNION {{[node |-> c.node, ready |-> r.ready,
                raised |-> c.node \in build.unscannable, walk |-> r.walk]
                 : r \in Consider(build, c.walk, c.node)}
                : c \in {d \in NextCandidate(build, walk) : Racing(build) => Simply(d)}}
  ELSE {}

StillDispatching == OnlyWalkAnd(<<pc, jobs, requestQueue, worker>>)

\* The candidate is not ready, or was dealt with before.
Skip ==
  \E c \in Considered :
    /\ ~c.ready
    /\ walk' = c.walk
    /\ StillDispatching

\* make_ready_current: only targets that are there, or have no builder, can be
\* found up to date, and only targets with a builder out of date.
MadeReady(w, n) ==
  LET T == build.targets[n]
      current == n \notin build.builder \/ T \subseteq build.present
  IN {MakeReady(build, w, T, b) :
        b \in {c \in BOOLEAN : IF c THEN current ELSE n \in build.builder}}

\* The task fails before its command: a scan or the check whether it is up to
\* date raised, or a source is missing.  The targets may have been made ready.
PrepareFails ==
  \E c \in Considered :
    /\ c.ready /\ (c.raised \/ c.node \in build.breaks)
    /\ \E w \in {c.walk} \cup MadeReady(c.walk, c.node) :
         walk' \in FailedTask(build, w, build.targets[c.node])
    /\ StillDispatching

\* Nothing has to be run: the targets are up to date, or have no builder.  A
\* top target without a builder that does not exist is an error.
NothingToRun ==
  \E c \in Considered :
    /\ c.ready /\ ~c.raised
    /\ LET T == build.targets[c.node]
           w == MakeReady(build, c.walk, T, TRUE)
           source == c.node \notin build.builder
           missing == /\ source /\ c.node \in Range(build.top) \cap build.fails
                      /\ \A t \in Node : c.node \notin build.side_effects[t]
       IN /\ source \/ T \subseteq build.present
          /\ walk' \in IF missing THEN FailedTask(build, w, T)
                       ELSE DoneTask(build, w, T)
    /\ StillDispatching

\* The command has to be run: the task goes to the workers, or is executed now.
Ready ==
  {c \in Considered : c.ready /\ c.node \in build.builder /\ ~c.raised}

\* Mistake: the bound is tested after the next task was taken.
WrongDispatch ==
  /\ ~build.serial
  /\ \E c \in Ready : LET T == build.targets[c.node] IN
       /\ walk' = MakeReady(build, c.walk, T, FALSE)
       /\ requestQueue' = Append(requestQueue, Request(T))
  /\ jobs' = jobs + 1
  /\ pc' = IF jobs' <= MaxJobs THEN "dispatch" ELSE "collect"
  /\ OnlyWalkAnd(worker)

Dispatch ==
  /\ ~build.serial
  /\ \E c \in Ready : LET T == build.targets[c.node] IN
       /\ walk' = MakeReady(build, c.walk, T, FALSE)
       /\ requestQueue' = Append(requestQueue, Request(T))
  /\ jobs' = jobs + 1
  /\ pc' = IF jobs' < MaxJobs THEN "dispatch" ELSE "collect"
  /\ OnlyWalkAnd(worker)

Execute ==
  /\ build.serial
  /\ \E c \in Ready : LET T == build.targets[c.node] IN
       /\ walk' = MakeReady(build, c.walk, T, FALSE)
       /\ worker' = [worker EXCEPT ![None] = Doing("fetch", T, {})]
  /\ pc' = "execute"
  /\ OnlyWalkAnd(<<jobs, requestQueue>>)

-----------------------------------------------------------------------------
(* The main thread: collecting results.                                    *)

Outcome(T, ok) == IF ok THEN DoneTask(build, walk, T) ELSE FailedTask(build, walk, T)

\* All results that are there are taken before more tasks are given out.
Collect ==
  /\ pc = "collect" /\ resultsQueue # <<>>
  /\ LET r == Head(resultsQueue) IN walk' \in Outcome(r.task, r.ok)
  /\ resultsQueue' = Tail(resultsQueue)
  /\ jobs' = jobs - 1
  /\ pc' = IF resultsQueue' = <<>> THEN "dispatch" ELSE "collect"
  /\ UNCHANGED <<build, requestQueue, worker, interrupted, report, looked, resetting, begun>>

\* ThreadPool.cleanup and Taskmaster.cleanup.
\* WrongSentinels: one is missing.
WrongSentinels == [i \in 1 .. IF build.serial THEN 0 ELSE MaxJobs - 1 |-> Sentinel]
Sentinels == [i \in 1 .. IF build.serial THEN 0 ELSE MaxJobs |-> Sentinel]
Cleanup ==
  /\ pc = "cleanup"
  /\ requestQueue' = requestQueue \o Sentinels
  /\ report' = IF ReportsCycle(walk) THEN "cycle" ELSE "done"
  /\ pc' = "end"
  /\ UNCHANGED <<build, walk, jobs, resultsQueue, worker, interrupted, looked,
                 resetting, begun>>

\* The signal handler runs in the main thread, between two of its steps.
Signal ==
  /\ build.signals /\ ~interrupted /\ pc # "end"
  /\ walk' = [walk EXCEPT !.stopped = TRUE]
  /\ interrupted' = TRUE
  /\ UNCHANGED <<build, pc, jobs, requestQueue, resultsQueue, worker, report,
                 looked, resetting, begun>>

Main ==
  \/ DispatchStopped \/ DispatchNothing \/ Look \/ Skip \/ PrepareFails \/ NothingToRun
  \/ Dispatch \/ Execute \/ Collect \/ Cleanup

-----------------------------------------------------------------------------
(* The threads that execute tasks.                                         *)

Is(x, at) == worker[x].at = at
TaskOf(x) == worker[x].task
UnchangedMain == UNCHANGED <<build, jobs, interrupted, report, looked>>

\* The next entry of the queue is for an idle worker.
Offered(x, quit) ==
  /\ x \in Worker /\ Is(x, "idle") /\ requestQueue # <<>>
  /\ Head(requestQueue).quit = quit
  /\ requestQueue' = Tail(requestQueue)
  /\ UNCHANGED <<walk, pc, resetting, begun>>
  /\ UnchangedMain

Take(x) ==
  /\ ~interrupted
  /\ Offered(x, FALSE)
  /\ worker' = [worker EXCEPT ![x] = Doing("fetch", Head(requestQueue).task, {})]
  /\ UNCHANGED resultsQueue

\* Mistake: after an interrupt the task is dropped without a result.
WrongRefuse(x) ==
  /\ interrupted
  /\ Offered(x, FALSE)
  /\ UNCHANGED <<worker, resultsQueue>>

\* After an interrupt a task fails before it is run.
Refuse(x) ==
  /\ interrupted
  /\ Offered(x, FALSE)
  /\ resultsQueue' =
       Append(resultsQueue, [task |-> Head(requestQueue).task, ok |-> FALSE])
  /\ UNCHANGED worker

Quit(x) ==
  /\ Offered(x, TRUE)
  /\ worker' = [worker EXCEPT ![x] = Gone]
  /\ UNCHANGED resultsQueue

\* A worker reports its task and waits for another; the main thread goes on.
Report(x, ok) ==
  /\ worker' = [worker EXCEPT ![x] = Idle]
  /\ IF x = None
     THEN walk' \in Outcome(TaskOf(x), ok) /\ pc' = "dispatch" /\ UNCHANGED resultsQueue
     ELSE /\ resultsQueue' = Append(resultsQueue, [task |-> TaskOf(x), ok |-> ok])
          /\ UNCHANGED <<walk, pc>>
  /\ UNCHANGED <<requestQueue, resetting, begun>>
  /\ UnchangedMain

\* The next target is in the cache: it is marked as executed, and then the scans
\* of those who wait for it are deleted.
InCache(x, t) ==
  /\ Is(x, "fetch") /\ t \in (TaskOf(x) \cap build.cached) \ worker[x].got
  /\ resetting[x] = None
  /\ worker' = [worker EXCEPT ![x] = Doing("fetch", TaskOf(x), @.got \cup {t})]
  /\ UNCHANGED <<pc, requestQueue, resultsQueue, begun>>
  /\ UnchangedMain
Marked(t) == [walk EXCEPT !.state[t] = Executed]

\* The only thread does both at once.
Fetch(x, t) ==
  /\ ~Racing(build) /\ InCache(x, t)
  /\ walk' = Built(Marked(t), t)
  /\ UNCHANGED resetting

MarkFetched(x, t) ==
  /\ Racing(build) /\ InCache(x, t)
  /\ walk' = Marked(t)
  /\ LET P == walk.waiting_parents[t]
     IN resetting' = [resetting EXCEPT ![x] = [target |-> t, met |-> P, left |-> P]]

\* Node.built goes through the parents; who began to wait meanwhile may be passed over.
ResetParents(x) ==
  /\ resetting[x] # None
  /\ \E P \in SUBSET (Waiting(x) \cup resetting[x].left) :
       LET left == resetting[x].left \ P IN
       /\ walk' = Rescan(walk, P)
       /\ \/ resetting' = [resetting EXCEPT ![x].left = left]
          \/ left \cap Waiting(x) = {} /\ resetting' = [resetting EXCEPT ![x] = None]
  /\ UNCHANGED <<pc, requestQueue, resultsQueue, worker, begun>>
  /\ UnchangedMain

\* A set that grows while it is walked over raises: the task fails.
ResetRaises(x) ==
  /\ resetting[x] # None /\ ~(Waiting(x) \subseteq resetting[x].met)
  /\ resetting' = [resetting EXCEPT ![x] = None]
  /\ worker' = [worker EXCEPT ![x] = Idle]
  /\ resultsQueue' = Append(resultsQueue, [task |-> TaskOf(x), ok |-> FALSE])
  /\ UNCHANGED <<walk, pc, requestQueue, begun>>
  /\ UnchangedMain

AllFetched(x) ==
  /\ Is(x, "fetch") /\ resetting[x] = None /\ worker[x].got = TaskOf(x)
  /\ Report(x, TRUE)

\* A target is not in the cache: the command is run and makes all targets.
Run(x) ==
  /\ Is(x, "fetch") /\ resetting[x] = None /\ worker[x].got # TaskOf(x)
  /\ worker' = [worker EXCEPT ![x] = Doing("run", TaskOf(x), @.got)]
  /\ begun' = begun \cup TaskOf(x)
  /\ UNCHANGED <<walk, pc, requestQueue, resultsQueue, resetting>>
  /\ UnchangedMain

Finish(x) == Is(x, "run") /\ Report(x, TRUE)

\* The command fails, or a signal ends it.
Fail(x) ==
  /\ Is(x, "run")
  /\ TaskOf(x) \cap build.fails # {} \/ interrupted
  /\ Report(x, FALSE)

Work(x) ==
  \/ Take(x) \/ Refuse(x) \/ Quit(x) \/ AllFetched(x) \/ Run(x) \/ Finish(x) \/ Fail(x)
  \/ ResetParents(x) \/ ResetRaises(x)
  \/ \E t \in Node : Fetch(x, t) \/ MarkFetched(x, t)

Next ==
  /\ Main \/ Signal \/ \E x \in Thread : Work(x)
  /\ made' = made \cup Usable(walk')

\* Queue.get wakes up a thread that waits, and commands end.
Spec == Init /\ [][Next]_vars
FairSpec == Spec /\ WF_core(Main) /\ \A x \in Thread : WF_core(Work(x))

-----------------------------------------------------------------------------
(* Properties.                                                             *)

Ended == pc = "end"
Failing(n) == walk.state[n] = Failed

\* Everything has its type, and the main thread never waits for more tasks
\* than there are workers.
TypeOK ==
  /\ walk.state \in [Node -> NodeState]
  /\ walk.waiting_parents \in [Node -> SUBSET Node]
  /\ walk.waiting_s_e \in [Node -> SUBSET Node]
  /\ walk.ref_count \in [Node -> Nat]
  /\ \A n \in Node : walk.implicit[n] \in {None} \cup SUBSET Node
  /\ walk.candidates \in Seq(Node)
  /\ walk.pending_children \subseteq Node
  /\ jobs \in 0 .. MaxJobs
  /\ pc \in {"dispatch", "execute", "collect", "cleanup", "end"}
  /\ begun \subseteq Node

\* A command starts only when everything its targets depend on is there, also
\* what a scanner found only in a file that was made during the build; it
\* starts once, and not beside a command that writes one of its side effects
\* (_find_next_ready_node, Task.postprocess, Node.built).  What scanners find late
\* or not at all, because a file is from before or workers race, is left out.
BO == INSTANCE BuildOrder WITH
  built <- made,
  running <- {TaskOf(x) : x \in {y \in Thread : Is(y, "run")}}
             \cup {r.task : r \in {s \in Range(resultsQueue) : s.task \subseteq begun}}
Ordered == BO!Spec

\* The count of a node is the number of nodes whose waiting parents it is
\* among: a count too high and it is never considered again, a count too low
\* and it is considered too early (add_to_waiting_parents, postprocess,
\* will_not_build).
RefCounts == \A p \in Node :
  walk.ref_count[p] = Cardinality({c \in Node : p \in walk.waiting_parents[c]})

\* While tasks are handed out, the main thread's count is that of the tasks in
\* the queues and with the workers: it waits for a result exactly when one will
\* come.  When it ends, and the signatures are written, no worker has a task
\* (Parallel.start, ThreadPool.cleanup, Worker.run).
Working(x) == worker[x].at \in {"fetch", "run"}
Accounted ==
  IF pc = "end"
  THEN /\ \A i \in DOMAIN requestQueue : requestQueue[i].quit
       /\ resultsQueue = <<>>
       /\ \A x \in Worker : ~Working(x)
  ELSE jobs = Len(requestQueue) + Cardinality({x \in Worker : Working(x)})
              + Len(resultsQueue)

\* At the end of a build that was not stopped and found no cycle, every target
\* of the command line was dealt with, or something it depends on failed: no
\* node is forgotten on a waiting list (postprocess, next_candidate).
NothingLost ==
  Ended /\ ~walk.stopped /\ report = "done" =>
    \A t \in Range(build.top) :
      walk.state[t] > Executing \/ \E d \in Below(build, {t}) : Failing(d)

\* A build that ends with "Found dependency cycle(s)" has one (cleanup): in this
\* form, which the code means, it is false with failures.
HasCycle ==
  \E n \in Below(build, Goals(build)) : n \in Below(build, Deps(build, {n}))
OnlyCyclesReported == report = "cycle" => HasCycle

\* It is true of a build in which nothing failed, and of one that stops at the
\* first failure if no command writes a side effect (will_not_build,
\* postprocess, cleanup).
FailuresCleared ==
  \/ \A n \in Node : ~Failing(n)
  \/ build.on_error = "stop" /\ SideEffects(build, Node) = {}
ReportsAreReal == report = "cycle" /\ FailuresCleared => HasCycle

\* Every build ends, whatever fails and whenever a signal comes, and all
\* worker threads with it.
Terminates == <>(Ended /\ \A x \in Worker : Is(x, "gone"))

=============================================================================
