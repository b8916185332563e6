----------------------------- MODULE Taskmaster -----------------------------
(***************************************************************************)
(* The walk over the dependency graph with which the bundled SCons         *)
(* (python/SCons/Taskmaster.py, Node/__init__.py, Script/Main.py) decides  *)
(* what to compile next when RAT is built.                                 *)
(*                                                                         *)
(* Everything the Taskmaster object and its nodes hold is one record, the  *)
(* walk; each method is an operator from walks to walks.  Where the code   *)
(* pushes a batch of nodes in no order of its own (a set, a dictionary, or *)
(* the order that --random shuffles) the operator gives the set of walks   *)
(* that can result.  ParallelBuild turns them into actions.                *)
(*                                                                         *)
(* A definition named Wrong... is a plausible mistake in the one that      *)
(* follows it; no specification uses it.                                   *)
(***************************************************************************)
EXTENDS BuildGraph, SequencesExt

CONSTANT None     \* no node, and no list of nodes

ASSUME NoneAssumption == None \notin Node /\ \A S \in SUBSET Node : S # None

\* Node states; their order is used (Node/__init__.py).
NoState == 0
Pending == 1
Executing == 2
UpToDate == 3
Executed == 4
Failed == 5
NodeState == NoState .. Failed

\* What may be used by others.
Usable(w) == {n \in Node : w.state[n] \in {UpToDate, Executed}}

\* The walk before its first step.
NewWalk(g) ==
  [state |-> [n \in Node |-> NoState],
   waiting_parents |-> [n \in Node |-> {}],
   waiting_s_e |-> [n \in Node |-> {}],
   ref_count |-> [n \in Node |-> 0],
   implicit |-> [n \in Node |-> None],     \* None: not scanned
   candidates |-> <<>>,
   pending_children |-> {},
   top_targets_left |-> Reverse(g.top),
   current_top |-> None,
   stopped |-> FALSE]                      \* next_candidate is no_next_candidate

\* The stack after the nodes of S were pushed in some order.
Pushed(stack, S) == {stack \o q : q \in SetToSeqs(S)}

-----------------------------------------------------------------------------
(* Which node is next.                                                     *)

\* The nodes from which no other can be reached over waiting_parents: the
\* least set that holds N and the waiting parents of its members.
Waiters(w, N) ==
  {n \in Node : \A S \in SUBSET Node :
     N \subseteq S /\ (\A m \in S : w.waiting_parents[m] \subseteq S) => n \in S}

\* Mistake: the nodes stay among the pending children.
WrongWillNotBuild(w, N, fail) ==
  LET V == Waiters(w, N) IN
  [w EXCEPT
    !.state = [n \in Node |-> IF fail /\ n \in V THEN Failed ELSE @[n]],
    !.waiting_parents = [n \in Node |-> IF n \in V THEN {} ELSE @[n]],
    !.ref_count = [p \in Node |->
       @[p] - Cardinality({n \in V : p \in w.waiting_parents[n]})]]

\* will_not_build: the nodes and everything that waits for them leave the
\* pending children; each parent loses one reference for each of them.
WillNotBuild(w, N, fail) ==
  LET V == Waiters(w, N) IN
  [w EXCEPT
    !.state = [n \in Node |-> IF fail /\ n \in V THEN Failed ELSE @[n]],
    !.waiting_parents = [n \in Node |-> IF n \in V THEN {} ELSE @[n]],
    !.ref_count = [p \in Node |->
       @[p] - Cardinality({n \in V : p \in w.waiting_parents[n]})],
    !.pending_children = @ \ V]

\* no_next_candidate: after stop() the candidates are dropped.
Flush(w) ==
  [WillNotBuild(w, Range(w.candidates), FALSE) EXCEPT !.candidates = <<>>]

\* find_next_candidate: the last candidate, or else the next top target, over
\* which the nodes it wants built first are pushed.
Popped(w) == [w EXCEPT !.candidates = Front(@)]
PoppedTop(g, w) ==
  LET t == Last(w.top_targets_left)
      v == [w EXCEPT !.top_targets_left = Front(@), !.current_top = t]
  IN IF g.alt[t] = {} THEN {[node |-> t, walk |-> v]}
     ELSE {[node |-> Last(c), walk |-> [v EXCEPT !.candidates = Front(c)]]
             : c \in Pushed(<<t>>, g.alt[t])}
NextCandidate(g, w) ==
  IF w.candidates # <<>>
  THEN {[node |-> Last(w.candidates), walk |-> Popped(w)]}
  ELSE IF w.top_targets_left # <<>> THEN PoppedTop(g, w) ELSE {}

-----------------------------------------------------------------------------
(* Considering a node: the body of the loop of _find_next_ready_node.      *)

\* A scanner looks into a source and into what its command made, if that is
\* recorded; it does not look into what is not there.  What is there from before
\* may be up to date or not, and what is being made or fetched may be there or not.
Current(g, w, c) ==
  \/ c \notin g.builder
  \/ /\ w.state[c] = Executed
     /\ g.serial \/ c \notin g.cached
     /\ g.on_error = "ignore" => c \notin g.fails
Absent(g, w, c) == c \in g.builder \ g.present /\ w.state[c] <= Pending

\* What a scan of n may find now.
Scans(g, w, n) ==
  LET must == {e \in g.reveals[n] : Current(g, w, e[1])}
      may == {e \in g.reveals[n] : ~Current(g, w, e[1]) /\ ~Absent(g, w, e[1])}
  IN {{e[2] : e \in must \cup E} : E \in SUBSET may}

\* get_all_children scans n once; a child that is built makes it scan again.
Scanned(g, w, n, X) ==
  IF w.implicit[n] = None /\ n \in g.builder
  THEN [w EXCEPT !.implicit[n] = X] ELSE w
Children(g, w, n) ==
  g.children[n] \cup (IF w.implicit[n] = None THEN {} ELSE w.implicit[n])

\* The node goes on the execution stack.
Visited(w, n) == [w EXCEPT !.state[n] = IF @ = NoState THEN Pending ELSE @]

\* One of the children failed: so do the targets, if there is an action.
ChildFailed(g, w, n) ==
  LET T == IF n \in g.builder THEN g.targets[n] ELSE {} IN
  [w EXCEPT !.state = [t \in Node |-> IF t \in T THEN Failed ELSE @[t]]]

\* Mistake: a child that n waits for already is counted again.
WrongWaitForChildren(w, n, C) ==
  [w EXCEPT
    !.waiting_parents = [c \in Node |-> IF c \in C THEN @[c] \cup {n} ELSE @[c]],
    !.ref_count[n] = @ + Cardinality(C),
    !.pending_children = @ \cup {c \in C : w.state[c] = Pending}]

\* n waits for every child that is not ready, once for each.
WaitForChildren(w, n, C) ==
  [w EXCEPT
    !.waiting_parents = [c \in Node |-> IF c \in C THEN @[c] \cup {n} ELSE @[c]],
    !.ref_count[n] = @ + Cardinality({c \in C : n \notin w.waiting_parents[c]}),
    !.pending_children = @ \cup {c \in C : w.state[c] = Pending}]

\* n waits for a file that a running command also writes.
Busy(g, w, n) ==
  {s \in SideEffects(g, IF n \in g.builder THEN g.targets[n] ELSE {}) :
     w.state[s] = Executing}
WaitForSideEffects(w, n, S) ==
  [w EXCEPT !.waiting_s_e = [s \in Node |-> IF s \in S THEN @[s] \cup {n} ELSE @[s]]]

\* What becomes of n when its children are C: a walk, and whether n is given to a
\* task.  Those of late were read as executing, before a worker fetched them.
Decide(g, w, n, C, late) ==
  LET unvisited == {c \in C : w.state[c] = NoState}
      notReady == late \cup {c \in C : w.state[c] <= Executing}
      pushed == {[w EXCEPT !.candidates = q] : q \in Pushed(w.candidates, unvisited)}
      Skip(W) == {[ready |-> FALSE, walk |-> v] : v \in W}
  IN IF \E c \in C : w.state[c] = Failed
     THEN Skip({ChildFailed(g, v, n) : v \in pushed})
     ELSE IF notReady # {} THEN Skip({WaitForChildren(v, n, notReady) : v \in pushed})
     ELSE IF Busy(g, w, n) # {} THEN Skip({WaitForSideEffects(w, n, Busy(g, w, n))})
     ELSE {[ready |-> TRUE, walk |-> w]}

\* n was evaluated before, or a scanner raises and the task for n will fail, or
\* n is scanned and its children decide.
Consider(g, w, n) ==
  IF w.state[n] > Pending THEN {[ready |-> FALSE, walk |-> w]}
  ELSE IF n \in g.unscannable THEN {[ready |-> TRUE, walk |-> Visited(w, n)]}
  ELSE UNION {LET v == Scanned(g, Visited(w, n), n, X)
              IN Decide(g, v, n, Children(g, v, n), {}) : X \in Scans(g, w, n)}

-----------------------------------------------------------------------------
(* The life of a task; T is the set of its targets.                        *)

\* make_ready_current: the targets are up to date, or they and their side
\* effects are about to be built.
MakeReady(g, w, T, upToDate) ==
  [w EXCEPT !.state = [n \in Node |->
     IF n \in T THEN IF upToDate THEN UpToDate ELSE Executing
     ELSE IF n \in SideEffects(g, T) /\ ~upToDate THEN Executing ELSE @[n]]]

\* Node.built: nodes that wait for the target have to be scanned again.
Rescan(w, P) == [w EXCEPT !.implicit = [p \in Node |-> IF p \in P THEN None ELSE @[p]]]
Built(w, t) == Rescan(w, w.waiting_parents[t])

\* Mistake: the waiting parents are not scanned again.
WrongExecutedTask(g, w, T) ==
  LET X == {t \in T : w.state[t] = Executing} IN
  [w EXCEPT !.state = [n \in Node |->
     IF n \in X THEN Executed
     ELSE IF n \in SideEffects(g, X) THEN NoState ELSE @[n]]]

\* executed_with_callbacks, for the targets that were executing.
ExecutedTask(g, w, T) ==
  LET X == {t \in T : w.state[t] = Executing} IN
  [w EXCEPT
    !.state = [n \in Node |-> IF n \in X THEN Executed
                              ELSE IF n \in SideEffects(g, X) THEN NoState ELSE @[n]],
    !.implicit = [p \in Node |->
       IF \E t \in X : p \in w.waiting_parents[t] THEN None ELSE @[p]]]

\* Mistake: the test of the reference count is inverted.
WrongSharedWith(g, w, T) ==
  {p \in UNION {w.waiting_s_e[s] : s \in SideEffects(g, T)} : w.ref_count[p] > 0}

\* The nodes that waited for a side effect of T, and for no child.
SharedWith(g, w, T) ==
  {p \in UNION {w.waiting_s_e[s] : s \in SideEffects(g, T)} : w.ref_count[p] = 0}

\* postprocess: the parents of the targets, and of side effects the command
\* still held, wait for one node less; who waits for nothing more is a
\* candidate again, and so are the nodes that waited for a side effect.
Postprocess(g, w, T) ==
  LET held == {s \in SideEffects(g, T) : w.state[s] = Executing}
      sharing == SharedWith(g, w, T)
      less(p) == Cardinality({t \in T : p \in w.waiting_parents[t]})
                 + Cardinality({s \in held : p \in w.waiting_parents[s]})
      rest == [p \in Node |-> w.ref_count[p] - less(p)]
      freed == {p \in Node : less(p) > 0 /\ rest[p] = 0}
      v == [w EXCEPT
        !.state = [n \in Node |-> IF n \in held THEN NoState ELSE @[n]],
        !.pending_children = @ \ {t \in T : w.waiting_parents[t] # {}},
        !.ref_count = rest,
        !.waiting_parents = [n \in Node |-> IF n \in T THEN {} ELSE @[n]]]
  IN {[v EXCEPT !.candidates = q] :
        q \in UNION {Pushed(c, freed) : c \in Pushed(w.candidates, sharing)}}

\* BuildTask.do_failed and the postprocess that always follows it: ignore the
\* error (-i), go on with the rest (-k), or stop.  To stop, the task takes the
\* current top target in the place of its own targets.
FailedTask(g, w, T) ==
  CASE g.on_error = "ignore" -> Postprocess(g, ExecutedTask(g, w, T), T)
    [] g.on_error = "keep" -> Postprocess(g, WillNotBuild(w, T, TRUE), T)
    [] g.on_error = "stop" ->
         Postprocess(g, [WillNotBuild(w, T, TRUE) EXCEPT !.stopped = TRUE],
                     {w.current_top})

DoneTask(g, w, T) == Postprocess(g, ExecutedTask(g, w, T), T)

-----------------------------------------------------------------------------
(* cleanup, when no task is left.                                          *)

\* find_cycle: n waits for itself.
InCycle(w, n) == n \in Waiters(w, w.waiting_parents[n])

\* The build ends with "Found dependency cycle(s)".
ReportsCycle(w) ==
  \E n \in w.pending_children : InCycle(w, n) \/ w.state[n] # Executed

=============================================================================
