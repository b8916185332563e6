-------------------------- MODULE TaskmasterProofs --------------------------
(***************************************************************************)
(* What the methods of the walk preserve, for any graph: the types, the    *)
(* reference counts, who waits for whom, what was scanned; what may be     *)
(* used; and that no node is forgotten.                                    *)
(***************************************************************************)
EXTENDS Taskmaster, FiniteSetTheorems, SequenceTheorems, WellFoundedInduction, TLAPS

WalkType ==
  [state : [Node -> NodeState], waiting_parents : [Node -> SUBSET Node],
   waiting_s_e : [Node -> SUBSET Node], ref_count : [Node -> Int],
   implicit : [Node -> {None} \cup SUBSET Node], candidates : Seq(Node),
   pending_children : SUBSET Node, top_targets_left : Seq(Node),
   current_top : Node \cup {None}, stopped : BOOLEAN]

\* What a scanner can find for n at all.
Revealed(g, n) == {e[2] : e \in g.reveals[n]}

\* A node waits only for what it depends on; its count is the number of nodes
\* it waits for; a scan finds only what there is to be found.
WaitsFor(w, p) == {c \in Node : p \in w.waiting_parents[c]}
Counted(w) == \A p \in Node : w.ref_count[p] = Cardinality(WaitsFor(w, p))
WaitsForDeps(g, w) ==
  \A c \in Node : \A p \in w.waiting_parents[c] : c \in g.children[p] \cup Revealed(g, p)
ScannedFrom(g, w) ==
  \A n \in Node : w.implicit[n] = None \/ w.implicit[n] \subseteq Revealed(g, n)
Sound(g, w) ==
  w \in WalkType /\ Counted(w) /\ WaitsForDeps(g, w) /\ ScannedFrom(g, w)

-----------------------------------------------------------------------------
(* Sets of nodes and builds.                                               *)

\* A set of nodes is finite, and so is its size.
LEMMA NodesFinite ==
  ASSUME NEW S \in SUBSET Node
  PROVE  IsFiniteSet(S) /\ Cardinality(S) \in Nat
BY NodeAssumption, FS_Subset, FS_CardinalityType

\* The fields of a build have their types.
LEMMA BuildType ==
  ASSUME NEW g \in Builds
  PROVE  /\ g.top \in Seq(Node) /\ g.builder \in SUBSET Node
         /\ g.targets \in [Node -> SUBSET Node] /\ g.children \in [Node -> SUBSET Node]
         /\ g.reveals \in [Node -> SUBSET (Node \X Node)]
         /\ g.side_effects \in [Node -> SUBSET Node] /\ g.alt \in [Node -> SUBSET Node]
         /\ g.on_error \in {"stop", "keep", "ignore"}
         /\ OneCommand(g) /\ ScansChildren(g)
         /\ \A n \in Node : Revealed(g, n) \subseteq Node
<1>1. g \in Build /\ OneCommand(g) /\ ScansChildren(g)
  BY BuildsAssumption
<1>2. g.reveals \in [Node -> SUBSET (Node \X Node)]
  BY <1>1 DEF Build
<1>3. \A n \in Node : Revealed(g, n) \subseteq Node
  BY <1>2 DEF Revealed
<1> QED BY <1>1, <1>3 DEF Build

\* The states are numbers, in this order.
LEMMA StateValues ==
  /\ NoState \in NodeState /\ Pending \in NodeState /\ Executing \in NodeState
  /\ UpToDate \in NodeState /\ Executed \in NodeState /\ Failed \in NodeState
BY DEF NodeState, NoState, Pending, Executing, UpToDate, Executed, Failed

\* Pushing a set onto a stack of nodes gives a stack of nodes.
LEMMA PushedType ==
  ASSUME NEW A \in SUBSET Node, NEW stack \in Seq(A), NEW S \in SUBSET A,
         NEW q \in Pushed(stack, S)
  PROVE  q \in Seq(A)
<1>1. PICK r \in SetToSeqs(S) : q = stack \o r
  BY DEF Pushed
<1>2. Cardinality(S) \in Nat
  BY NodesFinite
<1>3. r \in [1 .. Cardinality(S) -> S]
  BY <1>1 DEF SetToSeqs
<1>4. r \in Seq(A)
  BY <1>2, <1>3
<1> QED BY <1>1, <1>4

\* Without its last element a stack of nodes is one; the last is a node.
LEMMA PopType ==
  ASSUME NEW A, NEW s \in Seq(A), s # <<>>
  PROVE  Front(s) \in Seq(A) /\ Last(s) \in A
BY DEF Front, Last

-----------------------------------------------------------------------------
(* The nodes that will not be built.                                       *)

\* They are the nodes themselves and all that wait for one of them.
LEMMA WaitersFacts ==
  ASSUME NEW w \in WalkType, NEW N \in SUBSET Node
  PROVE  /\ Waiters(w, N) \in SUBSET Node /\ N \subseteq Waiters(w, N)
         /\ \A m \in Waiters(w, N) : w.waiting_parents[m] \subseteq Waiters(w, N)
         /\ \A S \in SUBSET Node :
              N \subseteq S /\ (\A m \in S : w.waiting_parents[m] \subseteq S)
                => Waiters(w, N) \subseteq S
<1>1. w.waiting_parents \in [Node -> SUBSET Node]
  BY DEF WalkType
<1> QED BY <1>1 DEF Waiters

\* What will_not_build leaves and changes.
LEMMA WillNotBuildFields ==
  ASSUME NEW w \in WalkType, NEW N \in SUBSET Node, NEW fail \in BOOLEAN
  PROVE  LET v == WillNotBuild(w, N, fail)
             V == Waiters(w, N)
         IN /\ \A n \in Node : v.state[n] = IF fail /\ n \in V THEN Failed ELSE w.state[n]
            /\ \A n \in Node :
                 v.waiting_parents[n] = IF n \in V THEN {} ELSE w.waiting_parents[n]
            /\ \A p \in Node : v.ref_count[p] =
                 w.ref_count[p] - Cardinality({n \in V : p \in w.waiting_parents[n]})
            /\ v.pending_children = w.pending_children \ V
            /\ v.waiting_s_e = w.waiting_s_e /\ v.implicit = w.implicit
            /\ v.candidates = w.candidates /\ v.top_targets_left = w.top_targets_left
            /\ v.current_top = w.current_top /\ v.stopped = w.stopped
            /\ v \in WalkType
<1> DEFINE V == Waiters(w, N)
           v == WillNotBuild(w, N, fail)
<1>1. V \in SUBSET Node
  BY WaitersFacts
<1>2. \A p \in Node : Cardinality({n \in V : p \in w.waiting_parents[n]}) \in Nat
  BY <1>1, NodesFinite
<1>3. /\ v.state = [n \in Node |-> IF fail /\ n \in V THEN Failed ELSE w.state[n]]
      /\ v.waiting_parents = [n \in Node |-> IF n \in V THEN {} ELSE w.waiting_parents[n]]
      /\ v.ref_count = [p \in Node |->
            w.ref_count[p] - Cardinality({n \in V : p \in w.waiting_parents[n]})]
      /\ v.pending_children = w.pending_children \ V
  BY DEF WillNotBuild, WalkType
<1>4. /\ v.waiting_s_e = w.waiting_s_e /\ v.implicit = w.implicit
      /\ v.candidates = w.candidates /\ v.top_targets_left = w.top_targets_left
      /\ v.current_top = w.current_top /\ v.stopped = w.stopped
  BY DEF WillNotBuild, WalkType
<1>5. /\ v.state \in [Node -> NodeState] /\ v.ref_count \in [Node -> Int]
      /\ v.waiting_parents \in [Node -> SUBSET Node]
      /\ v.pending_children \in SUBSET Node
  BY <1>2, <1>3, StateValues DEF WalkType
<1>6. v \in WalkType
  BY <1>4, <1>5 DEF WalkType, WillNotBuild
<1> QED BY <1>3, <1>4, <1>6

\* Its parents lose a reference for each of them: the counts stay right.
LEMMA WillNotBuildSound ==
  ASSUME NEW g \in Builds, NEW w, Sound(g, w), NEW N \in SUBSET Node, NEW fail \in BOOLEAN
  PROVE  Sound(g, WillNotBuild(w, N, fail))
<1> DEFINE V == Waiters(w, N)
           v == WillNotBuild(w, N, fail)
<1>1. w \in WalkType /\ V \in SUBSET Node
  BY WaitersFacts DEF Sound
<1>2. /\ v \in WalkType /\ v.implicit = w.implicit
      /\ \A n \in Node :
           v.waiting_parents[n] = IF n \in V THEN {} ELSE w.waiting_parents[n]
      /\ \A p \in Node : v.ref_count[p] =
           w.ref_count[p] - Cardinality({n \in V : p \in w.waiting_parents[n]})
  BY <1>1, WillNotBuildFields
<1> HIDE DEF V, v
<1>3. ASSUME NEW p \in Node PROVE v.ref_count[p] = Cardinality(WaitsFor(v, p))
  <2>1. WaitsFor(v, p) = WaitsFor(w, p) \ V
    BY <1>2 DEF WaitsFor
  <2>2. WaitsFor(w, p) \cap V = {n \in V : p \in w.waiting_parents[n]}
    BY <1>1 DEF WaitsFor
  <2>3. WaitsFor(w, p) \in SUBSET Node
    BY DEF WaitsFor
  <2>4. Cardinality(WaitsFor(w, p) \ V)
          = Cardinality(WaitsFor(w, p)) - Cardinality(WaitsFor(w, p) \cap V)
    BY <2>3, NodesFinite, FS_Difference
  <2> QED BY <1>2, <2>1, <2>2, <2>4 DEF Sound, Counted
<1>4. WaitsForDeps(g, v) /\ ScannedFrom(g, v)
  BY <1>1, <1>2 DEF Sound, WaitsForDeps, ScannedFrom, WalkType
<1>5. Sound(g, v)
  BY <1>2, <1>3, <1>4 DEF Sound, Counted
<1> QED BY <1>5 DEF v

\* A walk that differs in nothing that the counts speak of is as sound.
LEMMA SameCounts ==
  ASSUME NEW g \in Builds, NEW w, Sound(g, w), NEW v \in WalkType,
         v.waiting_parents = w.waiting_parents, v.ref_count = w.ref_count,
         \A n \in Node : v.implicit[n] \in {None, w.implicit[n]}
                          \/ v.implicit[n] \subseteq Revealed(g, n)
  PROVE  Sound(g, v)
BY DEF Sound, Counted, WaitsFor, WaitsForDeps, ScannedFrom

-----------------------------------------------------------------------------
(* Which node is next.                                                     *)

\* Only the stack changes.
LEMMA StackFields ==
  ASSUME NEW w \in WalkType, NEW q \in Seq(Node)
  PROVE  LET v == [w EXCEPT !.candidates = q] IN
         /\ v \in WalkType /\ v.state = w.state /\ v.implicit = w.implicit
         /\ v.waiting_parents = w.waiting_parents /\ v.ref_count = w.ref_count
         /\ v.waiting_s_e = w.waiting_s_e /\ v.stopped = w.stopped
         /\ v.pending_children = w.pending_children
         /\ v.top_targets_left = w.top_targets_left /\ v.current_top = w.current_top
         /\ v.candidates = q
BY DEF WalkType

\* After stop() the candidates are dropped.
LEMMA FlushSound ==
  ASSUME NEW g \in Builds, NEW w, Sound(g, w)
  PROVE  LET v == Flush(w) IN
         /\ Sound(g, v)
         /\ v.state = w.state /\ v.implicit = w.implicit /\ v.candidates = <<>>
         /\ v.waiting_s_e = w.waiting_s_e /\ v.stopped = w.stopped
         /\ v.top_targets_left = w.top_targets_left /\ v.current_top = w.current_top
<1> DEFINE N == Range(w.candidates)
           u == WillNotBuild(w, N, FALSE)
           v == Flush(w)
<1>1. w \in WalkType /\ N \in SUBSET Node
  BY DEF Sound, WalkType, Range
<1>2. Sound(g, u)
  BY <1>1, WillNotBuildSound
<1>5. v = [u EXCEPT !.candidates = <<>>]
  BY DEF Flush
<1>. HIDE DEF v
<1>3. /\ u.waiting_s_e = w.waiting_s_e /\ u.implicit = w.implicit
      /\ u.top_targets_left = w.top_targets_left
      /\ u.current_top = w.current_top /\ u.stopped = w.stopped
      /\ \A n \in Node : u.state[n] = w.state[n]
      /\ u \in WalkType
  BY <1>1, WillNotBuildFields
<1> HIDE DEF u
<1>4. u.state = w.state
  BY <1>1, <1>3 DEF WalkType
<1>6. /\ v \in WalkType
      /\ v.waiting_parents = u.waiting_parents /\ v.ref_count = u.ref_count
      /\ v.state = u.state /\ v.implicit = u.implicit /\ v.candidates = <<>>
      /\ v.waiting_s_e = u.waiting_s_e /\ v.stopped = u.stopped
      /\ v.top_targets_left = u.top_targets_left /\ v.current_top = u.current_top
  <2>1. <<>> \in Seq(Node)
    OBVIOUS
  <2> QED BY <1>3, <1>5, <2>1, StackFields
<1>7. Sound(g, v)
  BY <1>2, <1>6, SameCounts
<1> QED BY <1>3, <1>4, <1>6, <1>7 DEF v

\* The next candidate comes from the stack or, with the nodes it wants first,
\* from the top targets; only the lists and the current top target change.
LEMMA NextCandidateSound ==
  ASSUME NEW g \in Builds, NEW w, Sound(g, w), NEW c \in NextCandidate(g, w)
  PROVE  /\ Sound(g, c.walk) /\ c.node \in Node
         /\ c.walk.state = w.state /\ c.walk.implicit = w.implicit
         /\ c.walk.waiting_parents = w.waiting_parents
         /\ c.walk.waiting_s_e = w.waiting_s_e /\ c.walk.stopped = w.stopped
         /\ \/ c.walk.current_top \in Node
            \/ w.candidates # <<>> /\ c.walk.current_top = w.current_top
<1>1. w \in WalkType
  BY DEF Sound
<1>2. CASE w.candidates # <<>>
  <2>1. c.node = Last(w.candidates) /\ c.walk = [w EXCEPT !.candidates = Front(@)]
    BY <1>2 DEF NextCandidate, Popped
  <2>2. Front(w.candidates) \in Seq(Node) /\ Last(w.candidates) \in Node
    BY <1>1, <1>2, PopType DEF WalkType
  <2>3. /\ c.walk \in WalkType /\ c.walk.state = w.state /\ c.walk.implicit = w.implicit
        /\ c.walk.waiting_parents = w.waiting_parents /\ c.walk.ref_count = w.ref_count
        /\ c.walk.waiting_s_e = w.waiting_s_e /\ c.walk.stopped = w.stopped
        /\ c.walk.current_top = w.current_top
    BY <1>1, <2>1, <2>2 DEF WalkType
  <2>4. Sound(g, c.walk)
    BY <2>3, SameCounts
  <2> QED BY <1>2, <2>1, <2>2, <2>3, <2>4
<1>3. CASE w.candidates = <<>>
  <2> DEFINE t == Last(w.top_targets_left)
             v == [w EXCEPT !.top_targets_left = Front(@), !.current_top = t]
  <2>1. w.top_targets_left # <<>> /\ c \in PoppedTop(g, w)
    BY <1>3 DEF NextCandidate
  <2>2. Front(w.top_targets_left) \in Seq(Node) /\ t \in Node
    BY <1>1, <2>1, PopType DEF WalkType
  <2>3. /\ v \in WalkType /\ v.state = w.state /\ v.implicit = w.implicit
        /\ v.waiting_parents = w.waiting_parents /\ v.ref_count = w.ref_count
        /\ v.waiting_s_e = w.waiting_s_e /\ v.stopped = w.stopped /\ v.current_top = t
    BY <1>1, <2>2 DEF WalkType
  <2>4. CASE g.alt[t] = {}
    <3>1. c.node = t /\ c.walk = v
      BY <2>1, <2>4 DEF PoppedTop
    <3> HIDE DEF v, t
    <3>2. Sound(g, v)
      BY <2>3, SameCounts
    <3> QED BY <2>2, <2>3, <3>1, <3>2
  <2>5. CASE g.alt[t] # {}
    <3>0. c \in {[node |-> Last(q), walk |-> [v EXCEPT !.candidates = Front(q)]]
                   : q \in Pushed(<<t>>, g.alt[t])}
      BY <2>1, <2>5 DEF PoppedTop
    <3> HIDE DEF v, t
    <3>1. PICK q \in Pushed(<<t>>, g.alt[t]) :
            c.node = Last(q) /\ c.walk = [v EXCEPT !.candidates = Front(q)]
      BY <3>0
    <3>2. g.alt[t] \in SUBSET Node /\ <<t>> \in Seq(Node)
      BY <2>2, BuildType
    <3>3. q \in Seq(Node)
      BY <3>1, <3>2, PushedType
    <3>4. q # <<>>
      <4>1. PICK r \in SetToSeqs(g.alt[t]) : q = <<t>> \o r
        BY <3>1 DEF Pushed
      <4>2. Cardinality(g.alt[t]) \in Nat /\ r \in [1 .. Cardinality(g.alt[t]) -> g.alt[t]]
        BY <3>2, <4>1, NodesFinite DEF SetToSeqs
      <4>3. r \in Seq(g.alt[t])
        BY <4>2
      <4> QED BY <4>1, <4>3, <2>2, <3>2
    <3>5. Front(q) \in Seq(Node) /\ Last(q) \in Node
      BY <3>3, <3>4, PopType
    <3>6. /\ c.walk \in WalkType /\ c.walk.state = v.state /\ c.walk.implicit = v.implicit
          /\ c.walk.waiting_parents = v.waiting_parents /\ c.walk.ref_count = v.ref_count
          /\ c.walk.waiting_s_e = v.waiting_s_e /\ c.walk.stopped = v.stopped
          /\ c.walk.current_top = v.current_top
      BY <2>3, <3>1, <3>5 DEF WalkType
    <3>7. Sound(g, c.walk)
      BY <2>3, <3>6, SameCounts
    <3> QED BY <2>2, <2>3, <3>1, <3>5, <3>6, <3>7
  <2> QED BY <2>4, <2>5
<1> QED BY <1>2, <1>3

-----------------------------------------------------------------------------
(* Considering a node.                                                     *)

\* The walk after n was visited and a scan found Y, and the children it then has.
Looked(g, w, n, Y) == Scanned(g, Visited(w, n), n, Y)
Found(g, w, n, Y) == Children(g, Looked(g, w, n, Y), n)
NotReady(g, w, n, Y) == {c \in Found(g, w, n, Y) : Looked(g, w, n, Y).state[c] <= Executing}
Unvisited(g, w, n, Y) == {c \in Found(g, w, n, Y) : Looked(g, w, n, Y).state[c] = NoState}

\* A scan finds only what there is to be found.
LEMMA ScansType ==
  ASSUME NEW g \in Builds, NEW w, NEW n \in Node, NEW Y \in Scans(g, w, n)
  PROVE  Y \subseteq Revealed(g, n) /\ Y \in SUBSET Node
<1>1. Y \subseteq Revealed(g, n)
  BY DEF Scans, Revealed
<1> QED BY <1>1, BuildType

\* Visiting a node changes its state at most.
LEMMA VisitedFields ==
  ASSUME NEW w \in WalkType, NEW n \in Node
  PROVE  LET u == Visited(w, n) IN
         /\ u \in WalkType
         /\ \A m \in Node : u.state[m] = IF m = n /\ w.state[m] = NoState THEN Pending
                                       ELSE w.state[m]
         /\ u.waiting_parents = w.waiting_parents /\ u.ref_count = w.ref_count
         /\ u.waiting_s_e = w.waiting_s_e /\ u.implicit = w.implicit
         /\ u.candidates = w.candidates /\ u.stopped = w.stopped
         /\ u.top_targets_left = w.top_targets_left /\ u.current_top = w.current_top
BY StateValues DEF Visited, WalkType

\* Only the state of a node that was not reached changes, and its scan.
LEMMA LookedFields ==
  ASSUME NEW g \in Builds, NEW w, Sound(g, w), NEW n \in Node, NEW Y \in Scans(g, w, n)
  PROVE  LET v == Looked(g, w, n, Y) IN
         /\ Sound(g, v)
         /\ \A m \in Node : v.state[m] = IF m = n /\ w.state[m] = NoState THEN Pending
                                       ELSE w.state[m]
         /\ v.waiting_parents = w.waiting_parents /\ v.waiting_s_e = w.waiting_s_e
         /\ v.candidates = w.candidates /\ v.stopped = w.stopped
         /\ v.top_targets_left = w.top_targets_left /\ v.current_top = w.current_top
         /\ \A m \in Node : m # n => v.implicit[m] = w.implicit[m]
         /\ v.implicit[n] = IF w.implicit[n] = None /\ n \in g.builder
                            THEN Y ELSE w.implicit[n]
         /\ Found(g, w, n, Y) \subseteq g.children[n] \cup Revealed(g, n)
         /\ Found(g, w, n, Y) \subseteq Node
<1> DEFINE u == Visited(w, n)
           v == Looked(g, w, n, Y)
<1>1. w \in WalkType
  BY DEF Sound
<1>2. /\ u \in WalkType
      /\ \A m \in Node : u.state[m] = IF m = n /\ w.state[m] = NoState THEN Pending
                                       ELSE w.state[m]
      /\ u.waiting_parents = w.waiting_parents /\ u.ref_count = w.ref_count
      /\ u.waiting_s_e = w.waiting_s_e /\ u.implicit = w.implicit
      /\ u.candidates = w.candidates /\ u.stopped = w.stopped
      /\ u.top_targets_left = w.top_targets_left /\ u.current_top = w.current_top
  BY <1>1, VisitedFields
<1> HIDE DEF u
<1>3. Y \subseteq Revealed(g, n) /\ Y \in SUBSET Node
  BY ScansType
<1>4. v = Scanned(g, u, n, Y)
  BY DEF Looked, u
<1>5. /\ v \in WalkType /\ v.state = u.state
      /\ v.waiting_parents = u.waiting_parents /\ v.ref_count = u.ref_count
      /\ v.waiting_s_e = u.waiting_s_e
      /\ v.candidates = u.candidates /\ v.stopped = u.stopped
      /\ v.top_targets_left = u.top_targets_left /\ v.current_top = u.current_top
      /\ \A m \in Node : m # n => v.implicit[m] = u.implicit[m]
      /\ v.implicit[n] = IF u.implicit[n] = None /\ n \in g.builder THEN Y
                         ELSE u.implicit[n]
  <2>1. CASE u.implicit[n] = None /\ n \in g.builder
    <3>1. v = [u EXCEPT !.implicit[n] = Y]
      BY <1>4, <2>1 DEF Scanned
    <3> HIDE DEF v
    <3> QED BY <1>2, <1>3, <2>1, <3>1 DEF WalkType
  <2>2. CASE ~(u.implicit[n] = None /\ n \in g.builder)
    <3>1. v = u
      BY <1>4, <2>2 DEF Scanned
    <3> HIDE DEF v
    <3> QED BY <1>2, <2>2, <3>1
  <2> QED BY <2>1, <2>2
<1> HIDE DEF v
<1>6. Sound(g, v)
  BY <1>2, <1>3, <1>5, SameCounts
<1>7. Found(g, w, n, Y) \subseteq g.children[n] \cup Revealed(g, n)
  BY <1>6 DEF Found, Children, Sound, ScannedFrom, v
<1>8. Found(g, w, n, Y) \subseteq Node
  BY <1>7, BuildType
<1> QED BY <1>2, <1>5, <1>6, <1>7, <1>8 DEF v, u

\* What becomes of n when its children are C, and those of L are taken to be executing.
LateReady(v, C, L) == L \cup {c \in C : v.state[c] <= Executing}
NewOf(v, C) == {c \in C : v.state[c] = NoState}

\* The four ways in which it can end.
LEMMA DecideCases ==
  ASSUME NEW g, NEW v, NEW n, NEW C, NEW L, NEW r \in Decide(g, v, n, C, L)
  PROVE  \/ /\ ~r.ready /\ \E c \in C : v.state[c] = Failed
            /\ \E q \in Pushed(v.candidates, NewOf(v, C)) :
                 r.walk = ChildFailed(g, [v EXCEPT !.candidates = q], n)
         \/ /\ ~r.ready /\ \A c \in C : v.state[c] # Failed
            /\ LateReady(v, C, L) # {}
            /\ \E q \in Pushed(v.candidates, NewOf(v, C)) :
                 r.walk = WaitForChildren([v EXCEPT !.candidates = q], n, LateReady(v, C, L))
         \/ /\ ~r.ready /\ \A c \in C : v.state[c] # Failed
            /\ LateReady(v, C, L) = {} /\ Busy(g, v, n) # {}
            /\ r.walk = WaitForSideEffects(v, n, Busy(g, v, n))
         \/ /\ r.ready /\ \A c \in C : v.state[c] # Failed
            /\ LateReady(v, C, L) = {} /\ Busy(g, v, n) = {} /\ r.walk = v
<1> DEFINE P == {[v EXCEPT !.candidates = q] : q \in Pushed(v.candidates, NewOf(v, C))}
           S(W) == {[ready |-> FALSE, walk |-> u] : u \in W}
<1>1. Decide(g, v, n, C, L) =
        IF \E c \in C : v.state[c] = Failed
        THEN S({ChildFailed(g, u, n) : u \in P})
        ELSE IF LateReady(v, C, L) # {}
        THEN S({WaitForChildren(u, n, LateReady(v, C, L)) : u \in P})
        ELSE IF Busy(g, v, n) # {} THEN S({WaitForSideEffects(v, n, Busy(g, v, n))})
        ELSE {[ready |-> TRUE, walk |-> v]}
  BY DEF Decide, LateReady, NewOf
<1>2. CASE \E c \in C : v.state[c] = Failed
  <2>1. r \in S({ChildFailed(g, u, n) : u \in P})
    BY <1>1, <1>2
  <2>2. PICK q \in Pushed(v.candidates, NewOf(v, C)) :
          r = [ready |-> FALSE, walk |-> ChildFailed(g, [v EXCEPT !.candidates = q], n)]
    BY <2>1
  <2>3. ~r.ready /\ r.walk = ChildFailed(g, [v EXCEPT !.candidates = q], n)
    BY <2>2
  <2> QED BY <1>2, <2>3
<1>3. CASE ~(\E c \in C : v.state[c] = Failed) /\ LateReady(v, C, L) # {}
  <2>1. r \in S({WaitForChildren(u, n, LateReady(v, C, L)) : u \in P})
    BY <1>1, <1>3
  <2>2. PICK q \in Pushed(v.candidates, NewOf(v, C)) :
          r = [ready |-> FALSE,
               walk |-> WaitForChildren([v EXCEPT !.candidates = q], n, LateReady(v, C, L))]
    BY <2>1
  <2>3. ~r.ready /\ r.walk = WaitForChildren([v EXCEPT !.candidates = q], n,
                                              LateReady(v, C, L))
    BY <2>2
  <2> QED BY <1>3, <2>3
<1>4. CASE ~(\E c \in C : v.state[c] = Failed) /\ LateReady(v, C, L) = {}
  <2>1. r \in IF Busy(g, v, n) # {} THEN S({WaitForSideEffects(v, n, Busy(g, v, n))})
             ELSE {[ready |-> TRUE, walk |-> v]}
    BY <1>1, <1>4
  <2>2. \/ /\ Busy(g, v, n) # {}
           /\ r = [ready |-> FALSE, walk |-> WaitForSideEffects(v, n, Busy(g, v, n))]
        \/ Busy(g, v, n) = {} /\ r = [ready |-> TRUE, walk |-> v]
    BY <2>1
  <2> QED BY <1>4, <2>2
<1> QED BY <1>2, <1>3, <1>4

\* A scan has some result.
LEMMA ScansExist == ASSUME NEW g, NEW w, NEW n PROVE Scans(g, w, n) # {}
<1> DEFINE must == {e \in g.reveals[n] : Current(g, w, e[1])}
<1>1. {e[2] : e \in must \cup {}} \in Scans(g, w, n)
  BY DEF Scans
<1> QED BY <1>1

\* The six ways in which considering a node can end, the last four after a scan.
LEMMA ConsiderCases ==
  ASSUME NEW g \in Builds, NEW w, NEW n \in Node, NEW r \in Consider(g, w, n)
  PROVE  \E Y \in Scans(g, w, n) :
         \/ /\ ~r.ready /\ w.state[n] > Pending /\ r.walk = w
         \/ /\ r.ready /\ ~(w.state[n] > Pending) /\ n \in g.unscannable
            /\ r.walk = Visited(w, n)
         \/ /\ ~r.ready /\ ~(w.state[n] > Pending) /\ n \notin g.unscannable
            /\ \E c \in Found(g, w, n, Y) : Looked(g, w, n, Y).state[c] = Failed
            /\ \E q \in Pushed(Looked(g, w, n, Y).candidates, Unvisited(g, w, n, Y)) :
                 r.walk = ChildFailed(g, [Looked(g, w, n, Y) EXCEPT !.candidates = q], n)
         \/ /\ ~r.ready /\ ~(w.state[n] > Pending) /\ n \notin g.unscannable
            /\ \A c \in Found(g, w, n, Y) : Looked(g, w, n, Y).state[c] # Failed
            /\ NotReady(g, w, n, Y) # {}
            /\ \E q \in Pushed(Looked(g, w, n, Y).candidates, Unvisited(g, w, n, Y)) :
                 r.walk = WaitForChildren([Looked(g, w, n, Y) EXCEPT !.candidates = q], n,
                                          NotReady(g, w, n, Y))
         \/ /\ ~r.ready /\ ~(w.state[n] > Pending) /\ n \notin g.unscannable
            /\ \A c \in Found(g, w, n, Y) : Looked(g, w, n, Y).state[c] # Failed
            /\ NotReady(g, w, n, Y) = {} /\ Busy(g, Looked(g, w, n, Y), n) # {}
            /\ r.walk = WaitForSideEffects(Looked(g, w, n, Y), n,
                                           Busy(g, Looked(g, w, n, Y), n))
         \/ /\ r.ready /\ ~(w.state[n] > Pending) /\ n \notin g.unscannable
            /\ \A c \in Found(g, w, n, Y) : Looked(g, w, n, Y).state[c] # Failed
            /\ NotReady(g, w, n, Y) = {} /\ Busy(g, Looked(g, w, n, Y), n) = {}
            /\ r.walk = Looked(g, w, n, Y)
<1>1. CASE w.state[n] > Pending
  <2>1. ~r.ready /\ w.state[n] > Pending /\ r.walk = w
    BY <1>1 DEF Consider
  <2> QED BY <2>1, ScansExist
<1>2. CASE ~(w.state[n] > Pending) /\ n \in g.unscannable
  <2>1. r.ready /\ r.walk = Visited(w, n)
    BY <1>2 DEF Consider
  <2> QED BY <1>2, <2>1, ScansExist
<1>3. CASE ~(w.state[n] > Pending) /\ n \notin g.unscannable
  <2>1. PICK Y \in Scans(g, w, n) :
          r \in Decide(g, Looked(g, w, n, Y), n, Found(g, w, n, Y), {})
    BY <1>3 DEF Consider, Looked, Found
  <2>2. /\ LateReady(Looked(g, w, n, Y), Found(g, w, n, Y), {}) = NotReady(g, w, n, Y)
        /\ NewOf(Looked(g, w, n, Y), Found(g, w, n, Y)) = Unvisited(g, w, n, Y)
    BY DEF LateReady, NewOf, NotReady, Unvisited
  <2> DEFINE v == Looked(g, w, n, Y)
             C == Found(g, w, n, Y)
             N == NotReady(g, w, n, Y)
             U == Unvisited(g, w, n, Y)
  <2>3. /\ r \in Decide(g, v, n, C, {})
        /\ LateReady(v, C, {}) = N /\ NewOf(v, C) = U
    BY <2>1, <2>2
  <2> HIDE DEF v, C, N, U
  <2>d. \/ /\ ~r.ready /\ \E c \in C : v.state[c] = Failed
           /\ \E q \in Pushed(v.candidates, NewOf(v, C)) :
                r.walk = ChildFailed(g, [v EXCEPT !.candidates = q], n)
        \/ /\ ~r.ready /\ \A c \in C : v.state[c] # Failed
           /\ LateReady(v, C, {}) # {}
           /\ \E q \in Pushed(v.candidates, NewOf(v, C)) :
                r.walk = WaitForChildren([v EXCEPT !.candidates = q], n, LateReady(v, C, {}))
        \/ /\ ~r.ready /\ \A c \in C : v.state[c] # Failed
           /\ LateReady(v, C, {}) = {} /\ Busy(g, v, n) # {}
           /\ r.walk = WaitForSideEffects(v, n, Busy(g, v, n))
        \/ /\ r.ready /\ \A c \in C : v.state[c] # Failed
           /\ LateReady(v, C, {}) = {} /\ Busy(g, v, n) = {} /\ r.walk = v
    BY <2>3, DecideCases
  <2>4. \/ /\ ~r.ready /\ \E c \in C : v.state[c] = Failed
           /\ \E q \in Pushed(v.candidates, U) :
                r.walk = ChildFailed(g, [v EXCEPT !.candidates = q], n)
        \/ /\ ~r.ready /\ \A c \in C : v.state[c] # Failed
           /\ N # {}
           /\ \E q \in Pushed(v.candidates, U) :
                r.walk = WaitForChildren([v EXCEPT !.candidates = q], n, N)
        \/ /\ ~r.ready /\ \A c \in C : v.state[c] # Failed
           /\ N = {} /\ Busy(g, v, n) # {}
           /\ r.walk = WaitForSideEffects(v, n, Busy(g, v, n))
        \/ /\ r.ready /\ \A c \in C : v.state[c] # Failed
           /\ N = {} /\ Busy(g, v, n) = {} /\ r.walk = v
    BY <2>3, <2>d
  <2> QED BY <1>3, <2>4 DEF v, C, N, U
<1> QED BY <1>1, <1>2, <1>3

\* If a child failed, the targets of a command do.
LEMMA ChildFailedFields ==
  ASSUME NEW g \in Builds, NEW w \in WalkType, NEW n \in Node
  PROVE  LET v == ChildFailed(g, w, n)
             T == IF n \in g.builder THEN g.targets[n] ELSE {}
         IN /\ v \in WalkType
            /\ \A t \in Node : v.state[t] = IF t \in T THEN Failed ELSE w.state[t]
            /\ v.implicit = w.implicit /\ v.waiting_parents = w.waiting_parents
            /\ v.ref_count = w.ref_count
            /\ v.waiting_s_e = w.waiting_s_e /\ v.candidates = w.candidates
            /\ v.stopped = w.stopped /\ v.current_top = w.current_top
            /\ v.top_targets_left = w.top_targets_left
<1> DEFINE T == IF n \in g.builder THEN g.targets[n] ELSE {}
           X == [t \in Node |-> IF t \in T THEN Failed ELSE w.state[t]]
           v == ChildFailed(g, w, n)
<1>1. v = [w EXCEPT !.state = X]
  BY DEF ChildFailed
<1>2. X \in [Node -> NodeState]
  BY StateValues DEF WalkType
<1> HIDE DEF v, X
<1>3. /\ v \in WalkType /\ v.state = X
      /\ v.implicit = w.implicit /\ v.waiting_parents = w.waiting_parents
      /\ v.ref_count = w.ref_count
      /\ v.waiting_s_e = w.waiting_s_e /\ v.candidates = w.candidates
      /\ v.stopped = w.stopped /\ v.current_top = w.current_top
      /\ v.top_targets_left = w.top_targets_left
  BY <1>1, <1>2 DEF WalkType
<1> QED BY <1>3 DEF v, X

\* n waits for each of the children that are not ready.
LEMMA WaitForChildrenFields ==
  ASSUME NEW g \in Builds, NEW w, Sound(g, w), NEW n \in Node,
         NEW C \in SUBSET Node, C \subseteq g.children[n] \cup Revealed(g, n)
  PROVE  LET v == WaitForChildren(w, n, C) IN
         /\ Sound(g, v)
         /\ \A c \in Node : v.waiting_parents[c] =
              w.waiting_parents[c] \cup (IF c \in C THEN {n} ELSE {})
         /\ v.state = w.state /\ v.implicit = w.implicit
         /\ v.waiting_s_e = w.waiting_s_e /\ v.candidates = w.candidates
         /\ v.stopped = w.stopped /\ v.current_top = w.current_top
         /\ v.top_targets_left = w.top_targets_left
<1> DEFINE W == [c \in Node |-> IF c \in C THEN w.waiting_parents[c] \cup {n}
                              ELSE w.waiting_parents[c]]
           more == {c \in C : n \notin w.waiting_parents[c]}
           R == [w.ref_count EXCEPT ![n] = @ + Cardinality(more)]
           P == w.pending_children \cup {c \in C : w.state[c] = Pending}
           v == WaitForChildren(w, n, C)
<1>1. w \in WalkType
  BY DEF Sound
<1>2. Cardinality(more) \in Nat
  BY NodesFinite
<1>3. W \in [Node -> SUBSET Node] /\ R \in [Node -> Int] /\ P \in SUBSET Node
  BY <1>1, <1>2 DEF WalkType
<1>4. v = [w EXCEPT !.waiting_parents = W, !.ref_count = R, !.pending_children = P]
  BY <1>1 DEF WaitForChildren, WalkType
<1> HIDE DEF v, W, R, P
<1>5. /\ v \in WalkType /\ v.waiting_parents = W /\ v.ref_count = R
      /\ v.state = w.state /\ v.implicit = w.implicit
      /\ v.waiting_s_e = w.waiting_s_e /\ v.candidates = w.candidates
      /\ v.stopped = w.stopped /\ v.current_top = w.current_top
      /\ v.top_targets_left = w.top_targets_left
  BY <1>1, <1>3, <1>4 DEF WalkType
<1>6. ASSUME NEW p \in Node PROVE v.ref_count[p] = Cardinality(WaitsFor(v, p))
  <2>1. CASE p = n
    <3>1. WaitsFor(v, n) = WaitsFor(w, n) \cup more
      BY <1>5 DEF W, WaitsFor
    <3>2. WaitsFor(w, n) \cap more = {} /\ WaitsFor(w, n) \in SUBSET Node
      BY DEF WaitsFor
    <3>3. Cardinality(WaitsFor(v, n)) = Cardinality(WaitsFor(w, n)) + Cardinality(more)
      <4>1. Cardinality(WaitsFor(v, n)) = Cardinality(WaitsFor(w, n)) + Cardinality(more)
                                          - Cardinality({})
        BY <3>1, <3>2, NodesFinite, FS_Union
      <4> QED BY <1>2, <3>2, <4>1, NodesFinite, FS_EmptySet
    <3>4. R[n] = w.ref_count[n] + Cardinality(more)
      BY <1>1 DEF R, WalkType
    <3> QED BY <1>5, <2>1, <3>3, <3>4 DEF Sound, Counted
  <2>2. CASE p # n
    <3>1. WaitsFor(v, p) = WaitsFor(w, p)
      BY <1>5, <2>2 DEF W, WaitsFor
    <3>2. R[p] = w.ref_count[p]
      BY <1>1, <2>2 DEF R, WalkType
    <3> QED BY <1>5, <3>1, <3>2 DEF Sound, Counted
  <2> QED BY <2>1, <2>2
<1>7. WaitsForDeps(g, v) /\ ScannedFrom(g, v)
  BY <1>5 DEF Sound, WaitsForDeps, ScannedFrom, W
<1>8. Sound(g, v)
  BY <1>5, <1>6, <1>7 DEF Sound, Counted
<1> QED BY <1>5, <1>8 DEF v, W

\* n waits for a side effect of a command.
LEMMA WaitForSideEffectsFields ==
  ASSUME NEW w \in WalkType, NEW n \in Node, NEW S \in SUBSET Node
  PROVE  LET v == WaitForSideEffects(w, n, S) IN
         /\ v \in WalkType
         /\ \A s \in Node : v.waiting_s_e[s] =
              w.waiting_s_e[s] \cup (IF s \in S THEN {n} ELSE {})
         /\ v.state = w.state /\ v.implicit = w.implicit
         /\ v.waiting_parents = w.waiting_parents /\ v.ref_count = w.ref_count
         /\ v.candidates = w.candidates /\ v.stopped = w.stopped
         /\ v.current_top = w.current_top /\ v.top_targets_left = w.top_targets_left
<1> DEFINE X == [s \in Node |-> IF s \in S THEN w.waiting_s_e[s] \cup {n}
                              ELSE w.waiting_s_e[s]]
           v == WaitForSideEffects(w, n, S)
<1>1. v = [w EXCEPT !.waiting_s_e = X]
  BY DEF WaitForSideEffects, WalkType
<1>2. X \in [Node -> SUBSET Node]
  BY DEF WalkType
<1> HIDE DEF v, X
<1>3. /\ v \in WalkType /\ v.waiting_s_e = X
      /\ v.state = w.state /\ v.implicit = w.implicit
      /\ v.waiting_parents = w.waiting_parents /\ v.ref_count = w.ref_count
      /\ v.candidates = w.candidates /\ v.stopped = w.stopped
      /\ v.current_top = w.current_top /\ v.top_targets_left = w.top_targets_left
  BY <1>1, <1>2 DEF WalkType
<1>4. \A s \in Node : X[s] = w.waiting_s_e[s] \cup (IF s \in S THEN {n} ELSE {})
  BY DEF X
<1> QED BY <1>3, <1>4 DEF v

\* Whatever becomes of a node, the counts stay right, and the current top target.
LEMMA DecideSound ==
  ASSUME NEW g \in Builds, NEW v, Sound(g, v), NEW n \in Node,
         NEW C \in SUBSET Node, C \subseteq g.children[n] \cup Revealed(g, n),
         NEW L \in SUBSET C, NEW r \in Decide(g, v, n, C, L)
  PROVE  /\ Sound(g, r.walk) /\ r.walk.current_top = v.current_top
         /\ r.walk.stopped = v.stopped
<1>a. v \in WalkType /\ v.candidates \in Seq(Node)
  BY DEF Sound, WalkType
<1>4. ASSUME NEW q \in Pushed(v.candidates, NewOf(v, C))
      PROVE  LET u == [v EXCEPT !.candidates = q] IN
             /\ Sound(g, u) /\ u.current_top = v.current_top /\ u.stopped = v.stopped
             /\ u \in WalkType
  <2> DEFINE u == [v EXCEPT !.candidates = q]
  <2>1. NewOf(v, C) \in SUBSET Node /\ Node \in SUBSET Node
    BY DEF NewOf
  <2>2. q \in Seq(Node)
    BY <1>a, <2>1, PushedType
  <2>3. /\ u \in WalkType /\ u.implicit = v.implicit /\ u.ref_count = v.ref_count
        /\ u.waiting_parents = v.waiting_parents /\ u.current_top = v.current_top
        /\ u.stopped = v.stopped
    BY <1>a, <2>2, StackFields
  <2> HIDE DEF u
  <2>4. Sound(g, u)
    BY <2>3, SameCounts
  <2> QED BY <2>3, <2>4 DEF u
<1>5. CASE \E q \in Pushed(v.candidates, NewOf(v, C)) :
             r.walk = ChildFailed(g, [v EXCEPT !.candidates = q], n)
  <2>1. PICK q \in Pushed(v.candidates, NewOf(v, C)) :
          r.walk = ChildFailed(g, [v EXCEPT !.candidates = q], n)
    BY <1>5
  <2> DEFINE u == [v EXCEPT !.candidates = q]
  <2>2. /\ Sound(g, u) /\ u.current_top = v.current_top /\ u.stopped = v.stopped
        /\ u \in WalkType
    BY <1>4
  <2>a. r.walk = ChildFailed(g, u, n)
    BY <2>1
  <2> HIDE DEF u
  <2>3. /\ r.walk \in WalkType /\ r.walk.implicit = u.implicit
        /\ r.walk.waiting_parents = u.waiting_parents /\ r.walk.ref_count = u.ref_count
        /\ r.walk.current_top = u.current_top /\ r.walk.stopped = u.stopped
    BY <2>2, <2>a, ChildFailedFields
  <2>4. Sound(g, r.walk)
    BY <2>2, <2>3, SameCounts
  <2> QED BY <2>2, <2>3, <2>4
<1>6. CASE \E q \in Pushed(v.candidates, NewOf(v, C)) :
             r.walk = WaitForChildren([v EXCEPT !.candidates = q], n, LateReady(v, C, L))
  <2>1. PICK q \in Pushed(v.candidates, NewOf(v, C)) :
          r.walk = WaitForChildren([v EXCEPT !.candidates = q], n, LateReady(v, C, L))
    BY <1>6
  <2> DEFINE u == [v EXCEPT !.candidates = q]
  <2>2. Sound(g, u) /\ u.current_top = v.current_top /\ u.stopped = v.stopped
    BY <1>4
  <2>a. r.walk = WaitForChildren(u, n, LateReady(v, C, L))
    BY <2>1
  <2> HIDE DEF u
  <2>3. /\ LateReady(v, C, L) \in SUBSET Node
        /\ LateReady(v, C, L) \subseteq g.children[n] \cup Revealed(g, n)
    BY DEF LateReady
  <2>4. /\ Sound(g, r.walk) /\ r.walk.current_top = u.current_top
        /\ r.walk.stopped = u.stopped
    BY <2>2, <2>3, <2>a, WaitForChildrenFields
  <2> QED BY <2>2, <2>4
<1>7. CASE r.walk = WaitForSideEffects(v, n, Busy(g, v, n))
  <2>1. Busy(g, v, n) \in SUBSET Node
    BY BuildType DEF Busy, SideEffects
  <2>2. /\ r.walk \in WalkType /\ r.walk.implicit = v.implicit
        /\ r.walk.waiting_parents = v.waiting_parents /\ r.walk.ref_count = v.ref_count
        /\ r.walk.current_top = v.current_top /\ r.walk.stopped = v.stopped
    BY <1>a, <1>7, <2>1, WaitForSideEffectsFields
  <2>3. Sound(g, r.walk)
    BY <2>2, SameCounts
  <2> QED BY <2>2, <2>3
<1>8. CASE r.walk = v
  BY <1>8
<1>9. \/ \E q \in Pushed(v.candidates, NewOf(v, C)) :
           r.walk = ChildFailed(g, [v EXCEPT !.candidates = q], n)
      \/ \E q \in Pushed(v.candidates, NewOf(v, C)) :
           r.walk = WaitForChildren([v EXCEPT !.candidates = q], n, LateReady(v, C, L))
      \/ r.walk = WaitForSideEffects(v, n, Busy(g, v, n))
      \/ r.walk = v
  BY DecideCases
<1> QED BY <1>5, <1>6, <1>7, <1>8, <1>9

\* So they do when a node is considered.
LEMMA ConsiderSound ==
  ASSUME NEW g \in Builds, NEW w, Sound(g, w), NEW n \in Node, NEW r \in Consider(g, w, n)
  PROVE  /\ Sound(g, r.walk) /\ r.walk.current_top = w.current_top
         /\ r.walk.stopped = w.stopped
<1>1. CASE r.walk = w
  BY <1>1
<1>2. CASE r.walk = Visited(w, n)
  <2>1. /\ r.walk \in WalkType
        /\ r.walk.waiting_parents = w.waiting_parents /\ r.walk.ref_count = w.ref_count
        /\ r.walk.implicit = w.implicit /\ r.walk.current_top = w.current_top
        /\ r.walk.stopped = w.stopped
    BY <1>2, VisitedFields DEF Sound
  <2> QED BY <2>1, SameCounts
<1>3. CASE \E Y \in Scans(g, w, n) :
             r \in Decide(g, Looked(g, w, n, Y), n, Found(g, w, n, Y), {})
  <2>1. PICK Y \in Scans(g, w, n) :
          r \in Decide(g, Looked(g, w, n, Y), n, Found(g, w, n, Y), {})
    BY <1>3
  <2> DEFINE v == Looked(g, w, n, Y)
             C == Found(g, w, n, Y)
  <2>2. /\ Sound(g, v) /\ v.current_top = w.current_top /\ v.stopped = w.stopped
        /\ C \in SUBSET Node /\ C \subseteq g.children[n] \cup Revealed(g, n)
    BY LookedFields
  <2>3. r \in Decide(g, v, n, C, {})
    BY <2>1
  <2> HIDE DEF v, C
  <2> QED BY <2>2, <2>3, DecideSound
<1> QED BY <1>1, <1>2, <1>3 DEF Consider, Looked, Found

-----------------------------------------------------------------------------
(* The life of a task.                                                     *)

\* Side effects of a command are nodes.
LEMMA SideEffectsType ==
  ASSUME NEW g \in Builds, NEW T \in SUBSET Node
  PROVE  SideEffects(g, T) \in SUBSET Node /\ SideEffects(g, T) \subseteq SideEffects(g, Node)
BY BuildType DEF SideEffects

\* A task that was made ready changes states only.
LEMMA MakeReadyFields ==
  ASSUME NEW g \in Builds, NEW w \in WalkType, NEW T \in SUBSET Node, NEW b \in BOOLEAN
  PROVE  LET v == MakeReady(g, w, T, b) IN
         /\ v \in WalkType
         /\ \A n \in Node : v.state[n] =
              IF n \in T THEN IF b THEN UpToDate ELSE Executing
              ELSE IF n \in SideEffects(g, T) /\ ~b THEN Executing ELSE w.state[n]
         /\ v.implicit = w.implicit /\ v.waiting_parents = w.waiting_parents
         /\ v.ref_count = w.ref_count /\ v.waiting_s_e = w.waiting_s_e
         /\ v.candidates = w.candidates /\ v.stopped = w.stopped
         /\ v.current_top = w.current_top /\ v.top_targets_left = w.top_targets_left
<1> DEFINE X == [n \in Node |-> IF n \in T THEN IF b THEN UpToDate ELSE Executing
              ELSE IF n \in SideEffects(g, T) /\ ~b THEN Executing ELSE w.state[n]]
           v == MakeReady(g, w, T, b)
<1>1. v = [w EXCEPT !.state = X]
  BY DEF MakeReady, WalkType
<1>2. X \in [Node -> NodeState]
  BY StateValues DEF WalkType
<1> HIDE DEF v, X
<1>3. /\ v \in WalkType /\ v.state = X
      /\ v.implicit = w.implicit /\ v.waiting_parents = w.waiting_parents
      /\ v.ref_count = w.ref_count /\ v.waiting_s_e = w.waiting_s_e
      /\ v.candidates = w.candidates /\ v.stopped = w.stopped
      /\ v.current_top = w.current_top /\ v.top_targets_left = w.top_targets_left
  BY <1>1, <1>2 DEF WalkType
<1> QED BY <1>3 DEF v, X

\* A fetched target is executed, and who waits for it is scanned again.
LEMMA FetchedFields ==
  ASSUME NEW w \in WalkType, NEW t \in Node
  PROVE  LET v == Built([w EXCEPT !.state[t] = Executed], t) IN
         /\ v \in WalkType
         /\ \A n \in Node : v.state[n] = IF n = t THEN Executed ELSE w.state[n]
         /\ \A p \in Node : v.implicit[p] =
              IF p \in w.waiting_parents[t] THEN None ELSE w.implicit[p]
         /\ v.waiting_parents = w.waiting_parents
         /\ v.ref_count = w.ref_count /\ v.waiting_s_e = w.waiting_s_e
         /\ v.candidates = w.candidates /\ v.stopped = w.stopped
         /\ v.current_top = w.current_top /\ v.top_targets_left = w.top_targets_left
<1> DEFINE X == [w.state EXCEPT ![t] = Executed]
           I == [p \in Node |-> IF p \in w.waiting_parents[t] THEN None ELSE w.implicit[p]]
           v == Built([w EXCEPT !.state[t] = Executed], t)
<1>1. v = [w EXCEPT !.state = X, !.implicit = I]
  BY DEF Built, Rescan, WalkType
<1>2. X \in [Node -> NodeState] /\ I \in [Node -> {None} \cup SUBSET Node]
  BY StateValues DEF WalkType
<1>a. \A n \in Node : X[n] = IF n = t THEN Executed ELSE w.state[n]
  BY DEF WalkType
<1> HIDE DEF v, X, I
<1>3. /\ v \in WalkType /\ v.state = X /\ v.implicit = I
      /\ v.waiting_parents = w.waiting_parents
      /\ v.ref_count = w.ref_count /\ v.waiting_s_e = w.waiting_s_e
      /\ v.candidates = w.candidates /\ v.stopped = w.stopped
      /\ v.current_top = w.current_top /\ v.top_targets_left = w.top_targets_left
  BY <1>1, <1>2 DEF WalkType
<1> QED BY <1>a, <1>3 DEF v, I

\* The targets that are executing.
Making(w, T) == {t \in T : w.state[t] = Executing}

\* The targets that were executing are executed, their side effects done with.
LEMMA ExecutedFields ==
  ASSUME NEW g \in Builds, NEW w \in WalkType, NEW T \in SUBSET Node
  PROVE  LET v == ExecutedTask(g, w, T) IN
         /\ v \in WalkType
         /\ \A n \in Node : v.state[n] =
              IF n \in Making(w, T) THEN Executed
              ELSE IF n \in SideEffects(g, Making(w, T)) THEN NoState ELSE w.state[n]
         /\ \A p \in Node : v.implicit[p] =
              IF \E t \in Making(w, T) : p \in w.waiting_parents[t] THEN None
              ELSE w.implicit[p]
         /\ v.waiting_parents = w.waiting_parents
         /\ v.ref_count = w.ref_count /\ v.waiting_s_e = w.waiting_s_e
         /\ v.candidates = w.candidates /\ v.stopped = w.stopped
         /\ v.current_top = w.current_top /\ v.top_targets_left = w.top_targets_left
<1> DEFINE X == Making(w, T)
           S == [n \in Node |-> IF n \in X THEN Executed
                   ELSE IF n \in SideEffects(g, X) THEN NoState ELSE w.state[n]]
           I == [p \in Node |-> IF \E t \in X : p \in w.waiting_parents[t] THEN None
                                ELSE w.implicit[p]]
           v == ExecutedTask(g, w, T)
<1>1. v = [w EXCEPT !.state = S, !.implicit = I]
  BY DEF ExecutedTask, Making, WalkType
<1>2. S \in [Node -> NodeState] /\ I \in [Node -> {None} \cup SUBSET Node]
  BY StateValues DEF WalkType
<1>3. /\ \A n \in Node : S[n] = IF n \in X THEN Executed
                   ELSE IF n \in SideEffects(g, X) THEN NoState ELSE w.state[n]
      /\ \A p \in Node : I[p] = IF \E t \in X : p \in w.waiting_parents[t] THEN None
                                ELSE w.implicit[p]
  OBVIOUS
<1> HIDE DEF v, S, I
<1>4. /\ v \in WalkType /\ v.state = S /\ v.implicit = I
      /\ v.waiting_parents = w.waiting_parents
      /\ v.ref_count = w.ref_count /\ v.waiting_s_e = w.waiting_s_e
      /\ v.candidates = w.candidates /\ v.stopped = w.stopped
      /\ v.current_top = w.current_top /\ v.top_targets_left = w.top_targets_left
  BY <1>1, <1>2 DEF WalkType
<1> QED BY <1>3, <1>4 DEF v

\* Both leave the counts alone.
LEMMA ExecutedSound ==
  ASSUME NEW g \in Builds, NEW w, Sound(g, w), NEW T \in SUBSET Node
  PROVE  Sound(g, ExecutedTask(g, w, T))
<1> DEFINE v == ExecutedTask(g, w, T)
<1>1. /\ v \in WalkType /\ v.waiting_parents = w.waiting_parents
      /\ v.ref_count = w.ref_count
      /\ \A p \in Node : v.implicit[p] =
              IF \E t \in Making(w, T) : p \in w.waiting_parents[t] THEN None
              ELSE w.implicit[p]
  BY ExecutedFields DEF Sound
<1> HIDE DEF v
<1>2. Sound(g, v)
  BY <1>1, SameCounts
<1> QED BY <1>2 DEF v

\* Nobody waits, as for a child, for what commands only also write.
LEMMA NobodyWaits ==
  ASSUME NEW g \in Builds, WrittenOnly(g), NEW w, Sound(g, w), NEW s \in Node,
         s \in SideEffects(g, Node)
  PROVE  w.waiting_parents[s] = {}
<1> SUFFICES ASSUME NEW p \in w.waiting_parents[s] PROVE FALSE
  OBVIOUS
<1>1. p \in Node
  BY DEF Sound, WalkType
<1>2. s \in g.children[p] \cup Revealed(g, p)
  BY DEF Sound, WaitsForDeps
<1>3. s \in Deps(g, Node)
  BY <1>1, <1>2 DEF Deps, Revealed
<1>4. Deps(g, Node) \subseteq Asked(g)
  BY DEF Asked
<1> QED BY <1>3, <1>4 DEF WrittenOnly

\* After a task the parents of its targets wait for one node less; whoever
\* waited for it is back on the stack.
LEMMA PostprocessFields ==
  ASSUME NEW g \in Builds, WrittenOnly(g), NEW w, Sound(g, w), NEW T \in SUBSET Node,
         NEW v \in Postprocess(g, w, T)
  PROVE  /\ Sound(g, v)
         /\ \A n \in Node : v.state[n] =
              IF n \in SideEffects(g, T) /\ w.state[n] = Executing THEN NoState
              ELSE w.state[n]
         /\ \A n \in Node :
              v.waiting_parents[n] = IF n \in T THEN {} ELSE w.waiting_parents[n]
         /\ v.implicit = w.implicit /\ v.waiting_s_e = w.waiting_s_e
         /\ v.stopped = w.stopped /\ v.current_top = w.current_top
         /\ v.top_targets_left = w.top_targets_left
         /\ \A A \in SUBSET Node :
              /\ w.candidates \in Seq(A)
              /\ \A n \in Node : w.waiting_parents[n] \subseteq A /\ w.waiting_s_e[n] \subseteq A
              => v.candidates \in Seq(A)
<1> DEFINE held == {s \in SideEffects(g, T) : w.state[s] = Executing}
           sharing == SharedWith(g, w, T)
           ofT(p) == {t \in T : p \in w.waiting_parents[t]}
           less(p) == Cardinality(ofT(p))
                      + Cardinality({s \in held : p \in w.waiting_parents[s]})
           rest == [p \in Node |-> w.ref_count[p] - less(p)]
           freed == {p \in Node : less(p) > 0 /\ rest[p] = 0}
           S == [n \in Node |-> IF n \in held THEN NoState ELSE w.state[n]]
           W == [n \in Node |-> IF n \in T THEN {} ELSE w.waiting_parents[n]]
           P == w.pending_children \ {t \in T : w.waiting_parents[t] # {}}
           u == [w EXCEPT !.state = S, !.pending_children = P, !.ref_count = rest,
                          !.waiting_parents = W]
<1>1. w \in WalkType /\ SideEffects(g, T) \in SUBSET Node
      /\ w.candidates \in Seq(Node)
      /\ SideEffects(g, T) \subseteq SideEffects(g, Node)
  BY SideEffectsType DEF Sound, WalkType
<1>2. PICK q \in UNION {Pushed(c, freed) : c \in Pushed(w.candidates, sharing)} :
        v = [u EXCEPT !.candidates = q]
  BY <1>1 DEF Postprocess, WalkType
<1>3. ASSUME NEW p \in Node PROVE less(p) = Cardinality(ofT(p)) /\ less(p) \in Nat
  <2>1. {s \in held : p \in w.waiting_parents[s]} = {}
    BY <1>1, NobodyWaits
  <2>2. Cardinality({s \in held : p \in w.waiting_parents[s]}) = 0
    BY <2>1, FS_EmptySet
  <2>3. Cardinality(ofT(p)) \in Nat
    BY NodesFinite
  <2> QED BY <2>2, <2>3
<1>4. ASSUME NEW p \in Node, less(p) > 0
      PROVE \E t \in T : p \in w.waiting_parents[t]
  <2>0. Cardinality(ofT(p)) > 0
    BY <1>3, <1>4
  <2>1. ofT(p) # {}
    <3> HIDE DEF less
    <3>1. Cardinality({}) = 0
      BY FS_EmptySet
    <3> QED BY <2>0, <3>1
  <2> QED BY <2>1
<1>5. sharing \subseteq UNION {w.waiting_s_e[s] : s \in SideEffects(g, T)}
  BY DEF SharedWith
<1>6. \A A \in SUBSET Node :
        /\ w.candidates \in Seq(A)
        /\ \A n \in Node : w.waiting_parents[n] \subseteq A /\ w.waiting_s_e[n] \subseteq A
        => q \in Seq(A)
  <2> SUFFICES ASSUME NEW A \in SUBSET Node, w.candidates \in Seq(A),
                 \A n \in Node : w.waiting_parents[n] \subseteq A /\ w.waiting_s_e[n] \subseteq A
               PROVE q \in Seq(A)
    OBVIOUS
  <2>1. sharing \in SUBSET A
    BY <1>1, <1>5
  <2>2. freed \in SUBSET A
    BY <1>4
  <2> HIDE DEF sharing, freed
  <2>3. PICK c \in Pushed(w.candidates, sharing) : q \in Pushed(c, freed)
    BY <1>2
  <2>4. c \in Seq(A)
    BY <2>1, PushedType
  <2> QED BY <2>2, <2>3, <2>4, PushedType
<1>7. q \in Seq(Node)
  BY <1>1, <1>6 DEF WalkType
<1>8. S \in [Node -> NodeState] /\ W \in [Node -> SUBSET Node] /\ P \in SUBSET Node
      /\ rest \in [Node -> Int]
  <2>1. \A p \in Node : w.ref_count[p] - less(p) \in Int
    <3> TAKE p \in Node
    <3>1. less(p) \in Nat
      BY <1>3
    <3>2. w.ref_count[p] \in Int
      BY <1>1 DEF WalkType
    <3> HIDE DEF less
    <3> QED BY <3>1, <3>2
  <2> HIDE DEF less
  <2> QED BY <1>1, <2>1, StateValues DEF WalkType
<1>9. /\ \A p \in Node : rest[p] = w.ref_count[p] - Cardinality(ofT(p))
      /\ \A n \in Node : W[n] = IF n \in T THEN {} ELSE w.waiting_parents[n]
      /\ \A n \in Node : S[n] =
              IF n \in SideEffects(g, T) /\ w.state[n] = Executing THEN NoState
              ELSE w.state[n]
  BY <1>3
<1> HIDE DEF held, sharing, less, rest, freed, S, W, P
<1>10. /\ v \in WalkType /\ v.state = S /\ v.waiting_parents = W /\ v.ref_count = rest
       /\ v.implicit = w.implicit /\ v.waiting_s_e = w.waiting_s_e
       /\ v.stopped = w.stopped /\ v.current_top = w.current_top
       /\ v.top_targets_left = w.top_targets_left /\ v.candidates = q
  BY <1>1, <1>2, <1>7, <1>8 DEF WalkType
<1>11. ASSUME NEW p \in Node PROVE v.ref_count[p] = Cardinality(WaitsFor(v, p))
  <2>1. WaitsFor(v, p) = WaitsFor(w, p) \ T
    BY <1>9, <1>10 DEF WaitsFor
  <2>2. WaitsFor(w, p) \cap T = ofT(p)
    BY DEF WaitsFor
  <2>3. WaitsFor(w, p) \in SUBSET Node
    BY DEF WaitsFor
  <2>4. Cardinality(WaitsFor(w, p) \ T)
          = Cardinality(WaitsFor(w, p)) - Cardinality(WaitsFor(w, p) \cap T)
    BY <2>3, NodesFinite, FS_Difference
  <2>5. w.ref_count[p] = Cardinality(WaitsFor(w, p))
    BY DEF Sound, Counted
  <2> QED BY <1>9, <1>10, <2>1, <2>2, <2>4, <2>5
<1>12. WaitsForDeps(g, v) /\ ScannedFrom(g, v)
  BY <1>1, <1>9, <1>10 DEF Sound, WaitsForDeps, ScannedFrom, WalkType
<1>13. Sound(g, v)
  BY <1>10, <1>11, <1>12 DEF Sound, Counted
<1> QED BY <1>6, <1>9, <1>10, <1>13

\* A task ends in one of these ways.
LEMMA OutcomeCases ==
  ASSUME NEW g \in Builds, NEW w, NEW T, NEW v \in FailedTask(g, w, T)
  PROVE  \/ g.on_error = "ignore" /\ v \in Postprocess(g, ExecutedTask(g, w, T), T)
         \/ g.on_error = "keep" /\ v \in Postprocess(g, WillNotBuild(w, T, TRUE), T)
         \/ /\ g.on_error = "stop"
            /\ v \in Postprocess(g, [WillNotBuild(w, T, TRUE) EXCEPT !.stopped = TRUE],
                                 {w.current_top})
<1>1. g.on_error \in {"stop", "keep", "ignore"}
  BY BuildType
<1> QED BY <1>1 DEF FailedTask

\* stop() sets a flag.
LEMMA StoppedFields ==
  ASSUME NEW g \in Builds, NEW w, Sound(g, w)
  PROVE  LET v == [w EXCEPT !.stopped = TRUE] IN
         /\ Sound(g, v) /\ v.stopped /\ v.state = w.state /\ v.implicit = w.implicit
         /\ v.waiting_parents = w.waiting_parents /\ v.waiting_s_e = w.waiting_s_e
         /\ v.candidates = w.candidates /\ v.current_top = w.current_top
         /\ v.top_targets_left = w.top_targets_left
<1> DEFINE v == [w EXCEPT !.stopped = TRUE]
<1>1. /\ v \in WalkType /\ v.stopped /\ v.state = w.state /\ v.implicit = w.implicit
      /\ v.waiting_parents = w.waiting_parents /\ v.waiting_s_e = w.waiting_s_e
      /\ v.candidates = w.candidates /\ v.current_top = w.current_top
      /\ v.top_targets_left = w.top_targets_left /\ v.ref_count = w.ref_count
  BY DEF WalkType, Sound
<1> HIDE DEF v
<1>2. Sound(g, v)
  BY <1>1, SameCounts
<1> QED BY <1>1, <1>2 DEF v

\* However a task ends, the counts stay right.
LEMMA TaskSound ==
  ASSUME NEW g \in Builds, WrittenOnly(g), NEW w, Sound(g, w), NEW T \in SUBSET Node,
         w.current_top \in Node, NEW v \in DoneTask(g, w, T) \cup FailedTask(g, w, T)
  PROVE  Sound(g, v) /\ v.current_top = w.current_top /\ (w.stopped => v.stopped)
<1> DEFINE d == ExecutedTask(g, w, T)
           f == WillNotBuild(w, T, TRUE)
           h == [f EXCEPT !.stopped = TRUE]
<1>1. Sound(g, d) /\ d.current_top = w.current_top /\ d.stopped = w.stopped
  BY ExecutedSound, ExecutedFields DEF Sound
<1>2. Sound(g, f) /\ f.current_top = w.current_top /\ f.stopped = w.stopped
  BY WillNotBuildSound, WillNotBuildFields DEF Sound
<1>3. Sound(g, h) /\ h.current_top = w.current_top /\ h.stopped
  <2> HIDE DEF f
  <2> QED BY <1>2, StoppedFields
<1>4. \/ v \in Postprocess(g, d, T) \/ v \in Postprocess(g, f, T)
      \/ v \in Postprocess(g, h, {w.current_top})
  BY OutcomeCases DEF DoneTask
<1> HIDE DEF d, f, h
<1>5. CASE v \in Postprocess(g, d, T)
  BY <1>1, <1>5, PostprocessFields
<1>6. CASE v \in Postprocess(g, f, T)
  BY <1>2, <1>6, PostprocessFields
<1>7. CASE v \in Postprocess(g, h, {w.current_top})
  <2>1. {w.current_top} \in SUBSET Node
    OBVIOUS
  <2> QED BY <1>3, <1>7, <2>1, PostprocessFields
<1> QED BY <1>4, <1>5, <1>6, <1>7

\* The walk is sound before its first step.
LEMMA NewWalkSound ==
  ASSUME NEW g \in Builds
  PROVE  Sound(g, NewWalk(g))
<1> DEFINE w == NewWalk(g)
<1>1. Reverse(g.top) \in Seq(Node)
  BY BuildType DEF Reverse
<1>2. <<>> \in Seq(Node)
  OBVIOUS
<1>3. w \in WalkType
  BY <1>1, <1>2, StateValues DEF NewWalk, WalkType
<1>4. /\ \A n \in Node : w.waiting_parents[n] = {} /\ w.implicit[n] = None
      /\ \A n \in Node : w.ref_count[n] = 0
  BY DEF NewWalk
<1> HIDE DEF w
<1>5. ASSUME NEW p \in Node PROVE w.ref_count[p] = Cardinality(WaitsFor(w, p))
  <2>1. WaitsFor(w, p) = {}
    BY <1>4 DEF WaitsFor
  <2> QED BY <1>4, <2>1, FS_EmptySet
<1>6. Sound(g, w)
  BY <1>3, <1>4, <1>5 DEF Sound, Counted, WaitsForDeps, ScannedFrom
<1> QED BY <1>6 DEF w

-----------------------------------------------------------------------------
(* When commands may start.                                                *)

\* The walk goes only to nodes that are asked for.
Named(g, w) ==
  /\ w.candidates \in Seq(Asked(g)) /\ w.top_targets_left \in Seq(Asked(g))
  /\ w.current_top \in Asked(g) \cup {None}
  /\ \A n \in Node : /\ w.waiting_parents[n] \subseteq Asked(g)
                     /\ w.waiting_s_e[n] \subseteq Asked(g)

\* What commands only also write is either being written or not.
OnlyWritten(g, w) ==
  \A s \in SideEffects(g, Node) : w.state[s] \in {NoState, Executing}

\* What is found up to date has no builder or was there.
FoundThere(g, w) ==
  \A n \in Node : w.state[n] = UpToDate => n \notin g.builder \/ n \in g.present

\* Once one of its targets is being made or there, or was in B, no target of a
\* command is a candidate again.
Together(g, w, B) ==
  \A n \in Node : \A t \in g.targets[n] :
    w.state[t] \in {Executing, UpToDate, Executed} \/ t \in B => w.state[n] > Pending

\* What may be used has all it depends on.
Supplied(g, w) == Deps(g, Usable(w)) \subseteq Usable(w)

\* What can be found in a child was found, or will be when the child is there.
Fresh(g, w) ==
  \A n \in g.builder : \A e \in g.reveals[n] :
    \/ w.implicit[n] = None \/ w.state[n] > Pending \/ w.stopped
    \/ e[2] \in w.implicit[n]
    \/ /\ e[1] \in g.builder \ g.present /\ e[1] \notin Usable(w)
       /\ n \in w.waiting_parents[e[1]]

\* A task has all it depends on, and its side effects to itself.
Held(g, w, T) ==
  /\ \E n \in g.builder : T = g.targets[n]
  /\ Deps(g, T) \subseteq Usable(w)
  /\ \A t \in T : w.state[t] \in {Executing, Executed}
  /\ w.stopped \/ \A s \in SideEffects(g, T) : w.state[s] = Executing

\* All of this, for the tasks F that were given out and the targets B whose
\* command was started.
Steady(g, w, B, F) ==
  /\ Sound(g, w) /\ Named(g, w) /\ OnlyWritten(g, w) /\ FoundThere(g, w)
  /\ Together(g, w, B) /\ Supplied(g, w) /\ Fresh(g, w)
  /\ B \subseteq g.builder
  /\ \A T \in F : Held(g, w, T)

\* All targets of a command are alike.
LEMMA TargetsFacts ==
  ASSUME NEW g \in Builds, NEW n \in Node
  PROVE  /\ g.targets[n] \in SUBSET Node /\ n \in g.targets[n]
         /\ \A t \in g.targets[n] :
              /\ g.targets[t] = g.targets[n] /\ g.children[t] = g.children[n]
              /\ g.reveals[t] = g.reveals[n] /\ (t \in g.builder <=> n \in g.builder)
         /\ n \notin g.builder =>
              g.targets[n] = {n} /\ g.reveals[n] = {} /\ g.side_effects[n] = {}
BY BuildType DEF OneCommand

\* What a set of nodes depends on, node by node.
LEMMA DepsFacts ==
  ASSUME NEW g \in Builds, NEW S \in SUBSET Node
  PROVE  /\ \A d : d \in Deps(g, S) <=> \E t \in S : d \in g.children[t] \cup Revealed(g, t)
         /\ Deps(g, S) \subseteq Deps(g, Node)
BY DEF Deps, Revealed

\* All targets of a command depend on the same nodes.
LEMMA DepsOfTask ==
  ASSUME NEW g \in Builds, NEW n \in Node
  PROVE  Deps(g, g.targets[n]) = g.children[n] \cup Revealed(g, n)
<1>1. /\ g.targets[n] \in SUBSET Node /\ n \in g.targets[n]
      /\ \A t \in g.targets[n] : g.children[t] = g.children[n] /\ g.reveals[t] = g.reveals[n]
  BY TargetsFacts
<1>2. \A t \in g.targets[n] : Revealed(g, t) = Revealed(g, n)
  BY <1>1 DEF Revealed
<1>3. \A d : d \in Deps(g, g.targets[n])
              <=> \E t \in g.targets[n] : d \in g.children[t] \cup Revealed(g, t)
  BY <1>1, DepsFacts
<1> QED BY <1>1, <1>2, <1>3

\* What commands only also write is no target, and nobody asks for it.
LEMMA WrittenFacts ==
  ASSUME NEW g \in Builds, WrittenOnly(g), NEW s \in SideEffects(g, Node)
  PROVE  s \in Node /\ s \notin g.builder /\ s \notin Asked(g) /\ g.targets[s] = {s}
<1>1. s \in Node
  BY SideEffectsType
<1>2. s \notin g.builder /\ s \notin Asked(g)
  BY DEF WrittenOnly
<1> QED BY <1>1, <1>2, TargetsFacts

\* Whatever is depended on or named by the command line is asked for.
LEMMA AskedFacts ==
  ASSUME NEW g \in Builds
  PROVE  /\ Asked(g) \in SUBSET Node /\ Deps(g, Node) \subseteq Asked(g)
         /\ \A n \in Node : g.alt[n] \subseteq Asked(g)
         /\ g.top \in Seq(Asked(g))
<1>1. Deps(g, Node) \subseteq Asked(g) /\ \A n \in Node : g.alt[n] \subseteq Asked(g)
  BY DEF Asked
<1>2. g.top \in Seq(Node) /\ g.alt \in [Node -> SUBSET Node]
  BY BuildType
<1>3. \A i \in DOMAIN g.top : g.top[i] \in Asked(g)
  BY DEF Asked
<1>4. g.top \in Seq(Asked(g))
  BY <1>2, <1>3
<1>5. Deps(g, Node) \in SUBSET Node
  <2>1. \A n \in Node : g.children[n] \subseteq Node /\ Revealed(g, n) \subseteq Node
    BY BuildType
  <2> QED BY <2>1, DepsFacts
<1>6. {g.top[i] : i \in DOMAIN g.top} \subseteq Node
  BY <1>2
<1>7. UNION {g.alt[n] : n \in Node} \subseteq Node
  BY <1>2
<1>8. Asked(g) \in SUBSET Node
  <2> DEFINE X == {g.top[i] : i \in DOMAIN g.top}
             Y == UNION {g.alt[n] : n \in Node}
  <2>1. Asked(g) = X \cup Y \cup Deps(g, Node)
    BY DEF Asked
  <2> HIDE DEF X, Y
  <2>2. X \subseteq Node /\ Y \subseteq Node
    BY <1>6, <1>7 DEF X, Y
  <2> QED BY <1>5, <2>1, <2>2
<1> QED BY <1>1, <1>4, <1>8

\* What can be found stays fresh when no scan is lost, and nobody forgotten by
\* a node that is still to come.
LEMMA FreshKept ==
  ASSUME NEW g \in Builds, NEW w, NEW v, Fresh(g, w),
         \A n \in g.builder : v.implicit[n] = None \/ v.implicit[n] = w.implicit[n],
         \A n \in g.builder : w.state[n] > Pending => v.state[n] > Pending,
         w.stopped => v.stopped,
         \A n \in g.builder : \A c \in g.builder \ g.present :
           c \notin Usable(w) /\ n \in w.waiting_parents[c] =>
             \/ c \notin Usable(v) /\ n \in v.waiting_parents[c]
             \/ v.implicit[n] = None \/ v.state[n] > Pending \/ v.stopped
  PROVE  Fresh(g, v)
BY DEF Fresh

\* Nothing becomes usable, no task that was given out is touched, and nothing
\* that only is written is asked for.
NoRise(g, w, v, F) ==
  /\ w.stopped => v.stopped
  /\ \A n \in Node :
       \/ v.state[n] = w.state[n]
       \/ /\ n \notin SideEffects(g, Node) /\ w.state[n] = NoState
          /\ v.state[n] = Pending
       \/ /\ n \notin SideEffects(g, Node) /\ n \notin Usable(w)
          /\ \A T \in F : n \notin T
          /\ v.state[n] = Failed
       \/ /\ n \in SideEffects(g, Node) /\ v.state[n] \in {NoState, Executing}
          /\ v.stopped \/ \A T \in F : n \notin SideEffects(g, T)

\* Such a change of the walk keeps it steady.
LEMMA NoneRises ==
  ASSUME NEW g \in Builds, WrittenOnly(g), NEW w, NEW v, NEW B, NEW F,
         Steady(g, w, B, F), Sound(g, v), Named(g, v), Fresh(g, v), NoRise(g, w, v, F)
  PROVE  /\ Steady(g, v, B, F) /\ Usable(v) = Usable(w)
         /\ \A T \in F : \A t \in T : v.state[t] = w.state[t]
<1> USE DEF NoState, Pending, Executing, UpToDate, Executed, Failed, NoRise
<1>1. /\ OnlyWritten(g, w) /\ FoundThere(g, w) /\ Together(g, w, B) /\ Supplied(g, w)
      /\ B \subseteq g.builder /\ \A T \in F : Held(g, w, T)
  BY DEF Steady
<1>2. \A s \in SideEffects(g, Node) : w.state[s] \in {NoState, Executing}
  BY <1>1 DEF OnlyWritten
<1>3. OnlyWritten(g, v)
  <2>1. SideEffects(g, Node) \in SUBSET Node
    BY SideEffectsType
  <2> QED BY <1>2, <2>1 DEF OnlyWritten
<1>4. Usable(v) = Usable(w)
  BY <1>2 DEF Usable
<1>5. FoundThere(g, v)
  BY <1>1 DEF FoundThere
<1>6. Supplied(g, v)
  BY <1>1, <1>4 DEF Supplied
<1>7. Together(g, v, B)
  <2> SUFFICES ASSUME NEW n \in Node, NEW t \in g.targets[n],
                      v.state[t] \in {Executing, UpToDate, Executed} \/ t \in B
               PROVE  v.state[n] > Pending
    BY DEF Together
  <2>1. t \in Node /\ g.targets[t] = g.targets[n] /\ (t \in g.builder <=> n \in g.builder)
    BY TargetsFacts
  <2>2. CASE t \in SideEffects(g, Node)
    <3>1. t \notin g.builder /\ g.targets[t] = {t}
      BY <2>2, WrittenFacts
    <3>2. n = t /\ t \notin B
      <4>1. n \in g.targets[n]
        BY TargetsFacts
      <4>2. n = t
        BY <2>1, <3>1, <4>1
      <4> QED BY <1>1, <3>1, <4>2
    <3> QED BY <3>2
  <2>3. CASE t \notin SideEffects(g, Node)
    <3>1. w.state[t] \in {Executing, UpToDate, Executed} \/ t \in B
      BY <2>1, <2>3
    <3>2. w.state[n] > Pending
      BY <1>1, <3>1 DEF Together
    <3>3. n \notin SideEffects(g, Node)
      <4>1. SUFFICES ASSUME n \in SideEffects(g, Node) PROVE FALSE
        OBVIOUS
      <4>2. g.targets[n] = {n}
        BY <4>1, WrittenFacts
      <4> QED BY <2>3, <4>1, <4>2
    <3> QED BY <3>2, <3>3
  <2> QED BY <2>2, <2>3
<1>8. ASSUME NEW T \in F
      PROVE  Held(g, v, T) /\ \A t \in T : v.state[t] = w.state[t]
  <2>1. PICK n \in g.builder : T = g.targets[n]
    BY <1>1 DEF Held
  <2>2. n \in Node
    BY BuildType
  <2>3. /\ Deps(g, T) \subseteq Usable(w) /\ \A t \in T : w.state[t] \in {Executing, Executed}
        /\ w.stopped \/ \A s \in SideEffects(g, T) : w.state[s] = Executing
    BY <1>1 DEF Held
  <2>4. \A t \in T : t \in Node /\ t \notin SideEffects(g, Node)
    BY <2>1, <2>2, TargetsFacts, WrittenFacts
  <2>5. \A t \in T : v.state[t] = w.state[t]
    BY <2>3, <2>4
  <2>6. v.stopped \/ \A s \in SideEffects(g, T) : v.state[s] = Executing
    <3>1. T \in SUBSET Node
      BY <2>4
    <3>2. \A s \in SideEffects(g, T) : s \in Node /\ s \in SideEffects(g, Node)
      BY <3>1, SideEffectsType
    <3> QED BY <2>3, <3>2
  <2> QED BY <1>4, <2>1, <2>3, <2>5, <2>6 DEF Held
<1> QED BY <1>1, <1>3, <1>4, <1>5, <1>6, <1>7, <1>8 DEF Steady

\* The next candidate is asked for.
LEMMA NextCandidateNamed ==
  ASSUME NEW g \in Builds, NEW w \in WalkType, Named(g, w), NEW c \in NextCandidate(g, w)
  PROVE  Named(g, c.walk) /\ c.node \in Asked(g)
<1> DEFINE A == Asked(g)
<1>1. /\ w.candidates \in Seq(A) /\ w.top_targets_left \in Seq(A)
      /\ w.current_top \in A \cup {None}
      /\ \A n \in Node : w.waiting_parents[n] \subseteq A /\ w.waiting_s_e[n] \subseteq A
  BY DEF Named
<1>a. A \in SUBSET Node /\ \A n \in Node : g.alt[n] \subseteq A
  BY AskedFacts
<1> HIDE DEF A
<1>2. CASE w.candidates # <<>>
  <2>1. c.node = Last(w.candidates) /\ c.walk = [w EXCEPT !.candidates = Front(@)]
    BY <1>2 DEF NextCandidate, Popped
  <2>2. Front(w.candidates) \in Seq(A) /\ Last(w.candidates) \in A
    BY <1>1, <1>2, PopType
  <2>3. /\ c.walk.candidates = Front(w.candidates)
        /\ c.walk.top_targets_left = w.top_targets_left
        /\ c.walk.current_top = w.current_top /\ c.walk.waiting_s_e = w.waiting_s_e
        /\ c.walk.waiting_parents = w.waiting_parents
    BY <2>1 DEF WalkType
  <2> QED BY <1>1, <2>1, <2>2, <2>3 DEF Named, A
<1>3. CASE w.candidates = <<>>
  <2> DEFINE t == Last(w.top_targets_left)
             v == [w EXCEPT !.top_targets_left = Front(@), !.current_top = t]
  <2>1. w.top_targets_left # <<>> /\ c \in PoppedTop(g, w)
    BY <1>3 DEF NextCandidate
  <2>2. Front(w.top_targets_left) \in Seq(A) /\ t \in A
    BY <1>1, <2>1, PopType
  <2>3. /\ v.candidates = <<>> /\ v.top_targets_left = Front(w.top_targets_left)
        /\ v.waiting_parents = w.waiting_parents /\ v.waiting_s_e = w.waiting_s_e
        /\ v.current_top = t
    BY <1>3 DEF WalkType
  <2>a. v \in WalkType
    <3>1. Front(w.top_targets_left) \in Seq(Node) /\ t \in Node
      BY <2>1, PopType DEF WalkType
    <3> HIDE DEF t
    <3> QED BY <3>1 DEF WalkType
  <2>4. CASE g.alt[t] = {}
    <3>1. c.node = t /\ c.walk = v
      BY <2>1, <2>4 DEF PoppedTop
    <3>2. <<>> \in Seq(A)
      OBVIOUS
    <3> HIDE DEF v, t
    <3> QED BY <1>1, <2>2, <2>3, <3>1, <3>2 DEF Named, A
  <2>5. CASE g.alt[t] # {}
    <3>0. c \in {[node |-> Last(q), walk |-> [v EXCEPT !.candidates = Front(q)]]
                   : q \in Pushed(<<t>>, g.alt[t])}
      BY <2>1, <2>5 DEF PoppedTop
    <3> HIDE DEF v, t
    <3>1. PICK q \in Pushed(<<t>>, g.alt[t]) :
            c.node = Last(q) /\ c.walk = [v EXCEPT !.candidates = Front(q)]
      BY <3>0
    <3>2. g.alt[t] \in SUBSET A /\ <<t>> \in Seq(A)
      BY <1>a, <2>2
    <3>3. q \in Seq(A)
      BY <1>a, <3>1, <3>2, PushedType
    <3>4. q # <<>>
      <4>1. PICK r \in SetToSeqs(g.alt[t]) : q = <<t>> \o r
        BY <3>1 DEF Pushed
      <4>2. Cardinality(g.alt[t]) \in Nat /\ r \in [1 .. Cardinality(g.alt[t]) -> g.alt[t]]
        BY <1>a, <3>2, <4>1, NodesFinite DEF SetToSeqs
      <4>3. r \in Seq(g.alt[t])
        BY <4>2
      <4> QED BY <4>1, <4>3, <2>2, <3>2
    <3>5. Front(q) \in Seq(A) /\ Last(q) \in A
      BY <3>3, <3>4, PopType
    <3>6. /\ c.walk.candidates = Front(q)
          /\ c.walk.top_targets_left = v.top_targets_left
          /\ c.walk.current_top = v.current_top /\ c.walk.waiting_s_e = v.waiting_s_e
          /\ c.walk.waiting_parents = v.waiting_parents
      BY <2>a, <3>1 DEF WalkType
    <3> QED BY <1>1, <2>2, <2>3, <3>1, <3>5, <3>6 DEF Named, A
  <2> QED BY <2>4, <2>5
<1> QED BY <1>2, <1>3

\* Taking it changes nothing of what holds.
LEMMA NextCandidateSteady ==
  ASSUME NEW g \in Builds, WrittenOnly(g), NEW w, NEW B, NEW F, Steady(g, w, B, F),
         NEW c \in NextCandidate(g, w)
  PROVE  Steady(g, c.walk, B, F) /\ c.node \in Asked(g)
<1>1. Sound(g, w) /\ w \in WalkType /\ Named(g, w) /\ Fresh(g, w)
  BY DEF Steady, Sound
<1>2. /\ Sound(g, c.walk) /\ c.walk.state = w.state /\ c.walk.implicit = w.implicit
      /\ c.walk.waiting_parents = w.waiting_parents /\ c.walk.stopped = w.stopped
  BY <1>1, NextCandidateSound
<1>3. Named(g, c.walk) /\ c.node \in Asked(g)
  BY <1>1, NextCandidateNamed
<1>4. Fresh(g, c.walk)
  BY <1>1, <1>2 DEF Fresh, Usable
<1>5. Steady(g, c.walk, B, F)
  BY <1>2, <1>3, <1>4, NoneRises DEF NoRise
<1> QED BY <1>3, <1>5

\* So does dropping the candidates after stop().
LEMMA FlushSteady ==
  ASSUME NEW g \in Builds, WrittenOnly(g), NEW w, NEW B, NEW F, Steady(g, w, B, F),
         w.stopped
  PROVE  /\ Steady(g, Flush(w), B, F) /\ Flush(w).state = w.state
<1> DEFINE v == Flush(w)
<1>1. Sound(g, w) /\ w \in WalkType /\ Named(g, w)
  BY DEF Steady, Sound
<1>2. /\ Sound(g, v)
      /\ v.state = w.state /\ v.implicit = w.implicit /\ v.candidates = <<>>
      /\ v.waiting_s_e = w.waiting_s_e /\ v.stopped = w.stopped
      /\ v.top_targets_left = w.top_targets_left /\ v.current_top = w.current_top
  BY <1>1, FlushSound
<1>3. \A n \in Node : v.waiting_parents[n] \subseteq w.waiting_parents[n]
  <2> DEFINE N == Range(w.candidates)
             u == WillNotBuild(w, N, FALSE)
  <2>1. N \in SUBSET Node
    BY <1>1 DEF WalkType, Range
  <2> HIDE DEF N
  <2>2. /\ u \in WalkType
        /\ \A n \in Node : u.waiting_parents[n] =
             IF n \in Waiters(w, N) THEN {} ELSE w.waiting_parents[n]
    BY <1>1, <2>1, WillNotBuildFields
  <2>3. v = [u EXCEPT !.candidates = <<>>]
    BY DEF Flush, N
  <2> HIDE DEF u, v
  <2>4. v.waiting_parents = u.waiting_parents
    BY <2>2, <2>3 DEF WalkType
  <2> QED BY <2>2, <2>4
<1> HIDE DEF v
<1>4. Named(g, v)
  <2>1. <<>> \in Seq(Asked(g))
    OBVIOUS
  <2> QED BY <1>1, <1>2, <1>3, <2>1 DEF Named
<1>5. Fresh(g, v)
  BY <1>2 DEF Fresh
<1>6. Steady(g, v, B, F)
  BY <1>2, <1>4, <1>5, NoneRises DEF NoRise
<1> QED BY <1>2, <1>6 DEF v

\* So does stop() itself.
LEMMA StoppedSteady ==
  ASSUME NEW g \in Builds, WrittenOnly(g), NEW w, NEW B, NEW F, Steady(g, w, B, F)
  PROVE  LET v == [w EXCEPT !.stopped = TRUE] IN
         Steady(g, v, B, F) /\ v.state = w.state
<1> DEFINE v == [w EXCEPT !.stopped = TRUE]
<1>1. Sound(g, w) /\ Named(g, w)
  BY DEF Steady
<1>2. /\ Sound(g, v) /\ v.stopped /\ v.state = w.state /\ v.implicit = w.implicit
      /\ v.waiting_parents = w.waiting_parents /\ v.waiting_s_e = w.waiting_s_e
      /\ v.candidates = w.candidates /\ v.current_top = w.current_top
      /\ v.top_targets_left = w.top_targets_left
  BY <1>1, StoppedFields
<1> HIDE DEF v
<1>3. Named(g, v) /\ Fresh(g, v)
  BY <1>1, <1>2 DEF Named, Fresh
<1>4. Steady(g, v, B, F)
  BY <1>2, <1>3, NoneRises DEF NoRise
<1> QED BY <1>2, <1>4 DEF v

\* A node that still can be considered belongs to no task, and none of the
\* targets it shares a command with is there.
LEMMA CandidateFree ==
  ASSUME NEW g \in Builds, NEW w, NEW B, NEW F, Steady(g, w, B, F),
         NEW n \in Node, ~(w.state[n] > Pending), NEW t \in g.targets[n]
  PROVE  /\ t \in Node /\ t \notin Usable(w) /\ w.state[t] # Executing /\ t \notin B
         /\ \A T \in F : t \notin T
<1>1. t \in Node
  BY TargetsFacts
<1>2. t \notin B /\ w.state[t] \notin {Executing, UpToDate, Executed}
  BY DEF Steady, Together
<1>3. \A T \in F : \A u \in T : w.state[u] \in {Executing, Executed}
  BY DEF Steady, Held
<1> QED BY <1>1, <1>2, <1>3 DEF Usable

\* After it was looked at, what n can find is found, or is in a child that is
\* not there.
LEMMA LookedFresh ==
  ASSUME NEW g \in Builds, Foreseen(g), NEW w, NEW B, NEW F, Steady(g, w, B, F), ~w.stopped,
         NEW n \in Node, ~(w.state[n] > Pending), NEW Y \in Scans(g, w, n)
  PROVE  LET v == Looked(g, w, n, Y) IN
         /\ Usable(v) = Usable(w)
         /\ \A m \in g.builder : m # n => \A e \in g.reveals[m] :
              \/ v.implicit[m] = None \/ v.state[m] > Pending \/ v.stopped
              \/ e[2] \in v.implicit[m]
              \/ /\ e[1] \in g.builder \ g.present /\ e[1] \notin Usable(v)
                 /\ m \in v.waiting_parents[e[1]]
         /\ n \in g.builder => \A e \in g.reveals[n] :
              /\ v.implicit[n] # None
              /\ \/ e[2] \in v.implicit[n]
                 \/ e[1] \in g.builder \ g.present /\ e[1] \notin Usable(w)
<1> DEFINE v == Looked(g, w, n, Y)
<1>1. /\ Sound(g, w) /\ Fresh(g, w) /\ FoundThere(g, w) /\ w \in WalkType
      /\ g.builder \in SUBSET Node
  BY BuildType DEF Steady, Sound
<1>2. /\ \A m \in Node : v.state[m] = IF m = n /\ w.state[m] = NoState THEN Pending
                                       ELSE w.state[m]
      /\ v.waiting_parents = w.waiting_parents /\ v.stopped = w.stopped
      /\ \A m \in Node : m # n => v.implicit[m] = w.implicit[m]
      /\ v.implicit[n] = IF w.implicit[n] = None /\ n \in g.builder
                         THEN Y ELSE w.implicit[n]
  BY <1>1, LookedFields
<1> HIDE DEF v
<1>4. Usable(v) = Usable(w)
  BY <1>2 DEF Usable, NoState, Pending, UpToDate, Executed
<1>5. \A m \in g.builder : m # n => \A e \in g.reveals[m] :
              \/ v.implicit[m] = None \/ v.state[m] > Pending \/ v.stopped
              \/ e[2] \in v.implicit[m]
              \/ /\ e[1] \in g.builder \ g.present /\ e[1] \notin Usable(v)
                 /\ m \in v.waiting_parents[e[1]]
  BY <1>1, <1>2, <1>4 DEF Fresh
<1>6. ASSUME n \in g.builder, NEW e \in g.reveals[n]
      PROVE  /\ v.implicit[n] # None
             /\ \/ e[2] \in v.implicit[n]
                \/ e[1] \in g.builder \ g.present /\ e[1] \notin Usable(w)
  <2>1. CASE w.implicit[n] = None
    <3>1. v.implicit[n] = Y
      BY <1>2, <1>6, <2>1
    <3>2. Y # None
      BY ScansType, NoneAssumption
    <3>3. e[1] \in Node
      BY BuildType
    <3>4. CASE Current(g, w, e[1])
      <4>1. e[2] \in Y
        BY <3>4 DEF Scans
      <4> QED BY <3>1, <3>2, <4>1
    <3>5. CASE ~Current(g, w, e[1])
      <4>1. e[1] \in g.builder \ g.present /\ w.state[e[1]] # Executed
        BY <3>3, <3>5 DEF Current, Foreseen, Surely, Racing
      <4>2. w.state[e[1]] # UpToDate
        BY <1>1, <3>3, <4>1 DEF FoundThere
      <4> QED BY <3>1, <3>2, <4>1, <4>2 DEF Usable
    <3> QED BY <3>4, <3>5
  <2>2. CASE w.implicit[n] # None
    <3>1. v.implicit[n] = w.implicit[n]
      BY <1>2, <2>2
    <3> QED BY <1>1, <1>6, <2>2, <3>1 DEF Fresh
  <2> QED BY <2>1, <2>2
<1> QED BY <1>4, <1>5, <1>6 DEF v

\* Pushing nodes that are asked for leaves the rest as it was.
LEMMA PushedAgain ==
  ASSUME NEW g \in Builds, NEW w, Sound(g, w), Named(g, w), NEW S \in SUBSET Asked(g),
         NEW q \in Pushed(w.candidates, S)
  PROVE  LET v == [w EXCEPT !.candidates = q] IN
         /\ Sound(g, v) /\ Named(g, v) /\ v.state = w.state /\ v.implicit = w.implicit
         /\ v.waiting_parents = w.waiting_parents /\ v.waiting_s_e = w.waiting_s_e
         /\ v.stopped = w.stopped
<1> DEFINE v == [w EXCEPT !.candidates = q]
<1>1. w \in WalkType /\ Asked(g) \in SUBSET Node
  BY AskedFacts DEF Sound
<1>2. q \in Seq(Asked(g))
  BY <1>1, PushedType DEF Named
<1>3. q \in Seq(Node)
  BY <1>1, <1>2
<1>4. /\ v \in WalkType /\ v.state = w.state /\ v.implicit = w.implicit
      /\ v.waiting_parents = w.waiting_parents /\ v.ref_count = w.ref_count
      /\ v.waiting_s_e = w.waiting_s_e /\ v.stopped = w.stopped
      /\ v.top_targets_left = w.top_targets_left /\ v.current_top = w.current_top
      /\ v.candidates = q
  BY <1>1, <1>3, StackFields
<1> HIDE DEF v
<1>5. Sound(g, v)
  BY <1>4, SameCounts
<1>6. Named(g, v)
  BY <1>2, <1>4 DEF Named
<1> QED BY <1>4, <1>5, <1>6 DEF v

\* When no child is in the way, all that n depends on is there.
LEMMA ReadyDeps ==
  ASSUME NEW g \in Builds, Foreseen(g), NEW w, NEW B, NEW F, Steady(g, w, B, F), ~w.stopped,
         NEW n \in Node, ~(w.state[n] > Pending), NEW Y \in Scans(g, w, n),
         \A c \in Found(g, w, n, Y) : Looked(g, w, n, Y).state[c] # Failed,
         NotReady(g, w, n, Y) = {}
  PROVE  Deps(g, g.targets[n]) \subseteq Usable(w)
<1> DEFINE v == Looked(g, w, n, Y)
<1>1. /\ Sound(g, w) /\ Sound(g, v) /\ v \in WalkType /\ Found(g, w, n, Y) \subseteq Node
  BY LookedFields DEF Steady, Sound
<1>2. /\ Usable(v) = Usable(w)
      /\ n \in g.builder => \A e \in g.reveals[n] :
              /\ v.implicit[n] # None
              /\ \/ e[2] \in v.implicit[n]
                 \/ e[1] \in g.builder \ g.present /\ e[1] \notin Usable(w)
  BY LookedFresh
<1>3. Found(g, w, n, Y) = g.children[n]
                       \cup (IF v.implicit[n] = None THEN {} ELSE v.implicit[n])
  BY DEF Found, Children
<1>4. \A c \in Found(g, w, n, Y) : v.state[c] # Failed /\ ~(v.state[c] <= Executing)
  BY DEF NotReady
<1> HIDE DEF v
<1>5. \A c \in Found(g, w, n, Y) : c \in Usable(w)
  <2> TAKE c \in Found(g, w, n, Y)
  <2>1. v.state[c] \in NodeState
    BY <1>1 DEF WalkType
  <2>2. v.state[c] \in {UpToDate, Executed}
    BY <1>4, <2>1 DEF NodeState, NoState, Executing, UpToDate, Executed, Failed
  <2> QED BY <1>1, <1>2, <2>2 DEF Usable
<1>6. g.children[n] \subseteq Usable(w)
  BY <1>3, <1>5
<1>7. \A e \in g.reveals[n] : e[2] \in Usable(w)
  <2> TAKE e \in g.reveals[n]
  <2>1. n \in g.builder
    BY TargetsFacts
  <2>2. e[1] \in g.children[n]
    BY BuildType DEF ScansChildren
  <2>3. e[2] \in v.implicit[n] /\ v.implicit[n] # None
    BY <1>2, <1>6, <2>1, <2>2
  <2> QED BY <1>3, <1>5, <2>3
<1>8. Revealed(g, n) \subseteq Usable(w)
  BY <1>7 DEF Revealed
<1> QED BY <1>6, <1>8, DepsOfTask

\* After n was looked at, and perhaps made to wait or to fail, all still holds.
LEMMA LookedSteady ==
  ASSUME NEW g \in Builds, Foreseen(g), WrittenOnly(g), NEW w, NEW B, NEW F, Steady(g, w, B, F),
         ~w.stopped, NEW n \in Asked(g), n \in Node, ~(w.state[n] > Pending),
         NEW Y \in Scans(g, w, n), NEW z, Sound(g, z), Named(g, z), z.stopped = w.stopped,
         LET v == Looked(g, w, n, Y) IN
         /\ \A m \in Node : \/ z.state[m] = v.state[m]
                            \/ z.state[m] = Failed /\ n \in g.builder /\ m \in g.targets[n]
         /\ z.implicit = v.implicit
         /\ \A c \in Node : v.waiting_parents[c] \subseteq z.waiting_parents[c]
         /\ n \in g.builder => \A e \in g.reveals[n] :
              \/ z.state[n] > Pending
              \/ e[1] \in Usable(w) \/ n \in z.waiting_parents[e[1]]
  PROVE  /\ Steady(g, z, B, F) /\ Usable(z) = Usable(w)
         /\ \A T \in F : \A t \in T : z.state[t] = w.state[t]
<1> DEFINE v == Looked(g, w, n, Y)
<1>1. Sound(g, w) /\ g.builder \in SUBSET Node
  BY BuildType DEF Steady
<1>2. /\ \A m \in Node : v.state[m] = IF m = n /\ w.state[m] = NoState THEN Pending
                                       ELSE w.state[m]
      /\ v.stopped = w.stopped
  BY <1>1, LookedFields
<1>3. /\ Usable(v) = Usable(w)
      /\ \A m \in g.builder : m # n => \A e \in g.reveals[m] :
              \/ v.implicit[m] = None \/ v.state[m] > Pending \/ v.stopped
              \/ e[2] \in v.implicit[m]
              \/ /\ e[1] \in g.builder \ g.present /\ e[1] \notin Usable(v)
                 /\ m \in v.waiting_parents[e[1]]
      /\ n \in g.builder => \A e \in g.reveals[n] :
              /\ v.implicit[n] # None
              /\ \/ e[2] \in v.implicit[n]
                 \/ e[1] \in g.builder \ g.present /\ e[1] \notin Usable(w)
  BY LookedFresh
<1>4. /\ \A m \in Node : \/ z.state[m] = v.state[m]
                         \/ z.state[m] = Failed /\ n \in g.builder /\ m \in g.targets[n]
      /\ z.implicit = v.implicit
      /\ \A c \in Node : v.waiting_parents[c] \subseteq z.waiting_parents[c]
      /\ n \in g.builder => \A e \in g.reveals[n] :
              \/ z.state[n] > Pending
              \/ e[1] \in Usable(w) \/ n \in z.waiting_parents[e[1]]
  OBVIOUS
<1> HIDE DEF v
<1>5. n \notin SideEffects(g, Node)
  BY WrittenFacts
<1>6. \A m \in Node : n \in g.builder /\ m \in g.targets[n] =>
         /\ m \notin SideEffects(g, Node) /\ m \notin Usable(w)
         /\ \A T \in F : m \notin T
  <2> SUFFICES ASSUME NEW m \in Node, n \in g.builder, m \in g.targets[n]
               PROVE  /\ m \notin SideEffects(g, Node) /\ m \notin Usable(w)
                      /\ \A T \in F : m \notin T
    OBVIOUS
  <2>1. m \in g.builder
    BY TargetsFacts
  <2>2. m \notin SideEffects(g, Node)
    BY <2>1, WrittenFacts
  <2>3. m \notin Usable(w) /\ \A T \in F : m \notin T
    BY CandidateFree
  <2> QED BY <2>2, <2>3
<1>7. \A m \in Node :
           \/ z.state[m] = w.state[m]
           \/ /\ m \notin SideEffects(g, Node) /\ w.state[m] = NoState
              /\ z.state[m] = Pending
           \/ /\ m \notin SideEffects(g, Node) /\ m \notin Usable(w)
              /\ \A T \in F : m \notin T
              /\ z.state[m] = Failed
  <2> TAKE m \in Node
  <2>1. CASE z.state[m] = v.state[m]
    <3>1. z.state[m] = IF m = n /\ w.state[m] = NoState THEN Pending ELSE w.state[m]
      BY <1>2, <2>1
    <3> QED BY <1>5, <3>1
  <2>2. CASE z.state[m] = Failed /\ n \in g.builder /\ m \in g.targets[n]
    BY <1>6, <2>2
  <2> QED BY <1>4, <2>1, <2>2
<1>8. \A m \in Node : v.state[m] > Pending => z.state[m] > Pending
  BY <1>4 DEF Pending, Failed
<1>9. Usable(z) \subseteq Usable(w)
  BY <1>7 DEF Usable, Pending, Failed, UpToDate, Executed
<1>10. \A m \in g.builder : \A e \in g.reveals[m] :
              \/ z.implicit[m] = None \/ z.state[m] > Pending \/ z.stopped
              \/ e[2] \in z.implicit[m]
              \/ /\ e[1] \in g.builder \ g.present /\ e[1] \notin Usable(z)
                 /\ m \in z.waiting_parents[e[1]]
  <2> TAKE m \in g.builder
  <2> TAKE e \in g.reveals[m]
  <2>1. m \in Node /\ e[1] \in Node
    BY <1>1, BuildType
  <2>2. CASE m = n
    BY <1>3, <1>4, <1>9, <2>2
  <2>3. CASE m # n
    <3>1. \/ v.implicit[m] = None \/ v.state[m] > Pending \/ v.stopped
          \/ e[2] \in v.implicit[m]
          \/ /\ e[1] \in g.builder \ g.present /\ e[1] \notin Usable(w)
             /\ m \in v.waiting_parents[e[1]]
      BY <1>3, <2>3
    <3> QED BY <1>2, <1>4, <1>8, <1>9, <2>1, <3>1
  <2> QED BY <2>2, <2>3
<1>11. Fresh(g, z)
  BY <1>10 DEF Fresh
<1>12. NoRise(g, w, z, F)
  BY <1>7 DEF NoRise
<1> QED BY <1>11, <1>12, NoneRises

\* So it does when n was only visited.
LEMMA VisitedSteady ==
  ASSUME NEW g \in Builds, WrittenOnly(g), NEW w, NEW B, NEW F, Steady(g, w, B, F),
         NEW n \in Asked(g), n \in Node, NEW z, z = Visited(w, n), Sound(g, z)
  PROVE  /\ Steady(g, z, B, F) /\ Usable(z) = Usable(w)
         /\ \A T \in F : \A t \in T : z.state[t] = w.state[t]
<1>1. w \in WalkType /\ Named(g, w) /\ Fresh(g, w)
  BY DEF Steady, Sound
<1>2. /\ \A m \in Node : z.state[m] = IF m = n /\ w.state[m] = NoState THEN Pending
                                       ELSE w.state[m]
      /\ z.waiting_parents = w.waiting_parents /\ z.waiting_s_e = w.waiting_s_e
      /\ z.implicit = w.implicit /\ z.candidates = w.candidates
      /\ z.stopped = w.stopped
      /\ z.top_targets_left = w.top_targets_left /\ z.current_top = w.current_top
  BY <1>1, VisitedFields
<1>3. Named(g, z)
  BY <1>1, <1>2 DEF Named
<1>4. n \notin SideEffects(g, Node)
  BY WrittenFacts
<1>5. Usable(z) = Usable(w)
  BY <1>2 DEF Usable, NoState, Pending, UpToDate, Executed
<1>6. \A m \in g.builder : w.state[m] > Pending => z.state[m] > Pending
  BY <1>1, <1>2, BuildType DEF NoState, Pending
<1>7. Fresh(g, z)
  BY <1>1, <1>2, <1>5, <1>6, FreshKept
<1>8. \A m \in Node : \/ z.state[m] = w.state[m]
                      \/ /\ m \notin SideEffects(g, Node) /\ w.state[m] = NoState
                         /\ z.state[m] = Pending
  BY <1>2, <1>4
<1>9. w.stopped => z.stopped
  BY <1>2
<1>10. \A m \in Node :
           \/ z.state[m] = w.state[m]
           \/ /\ m \notin SideEffects(g, Node) /\ w.state[m] = NoState
              /\ z.state[m] = Pending
           \/ /\ m \notin SideEffects(g, Node) /\ m \notin Usable(w)
              /\ \A T \in F : m \notin T
              /\ z.state[m] = Failed
           \/ /\ m \in SideEffects(g, Node) /\ z.state[m] \in {NoState, Executing}
              /\ z.stopped \/ \A T \in F : m \notin SideEffects(g, T)
  BY <1>8
<1> QED BY <1>3, <1>7, <1>10, <1>9, NoneRises DEF NoRise

\* Considering a candidate gives out no more nodes to use, and a candidate that
\* is ready has all it depends on and its side effects to itself.
LEMMA ConsiderSteady ==
  ASSUME NEW g \in Builds, WrittenOnly(g), Foreseen(g), NEW w, NEW B, NEW F,
         Steady(g, w, B, F), ~w.stopped, NEW n \in Asked(g), NEW r \in Consider(g, w, n)
  PROVE  /\ Steady(g, r.walk, B, F) /\ Usable(r.walk) = Usable(w)
         /\ ~r.walk.stopped
         /\ \A T \in F : \A t \in T : r.walk.state[t] = w.state[t]
         /\ r.ready =>
              /\ ~(r.walk.state[n] > Pending)
              /\ n \notin g.unscannable =>
                   /\ Deps(g, g.targets[n]) \subseteq Usable(w)
                   /\ \A s \in SideEffects(g, g.targets[n]) : r.walk.state[s] # Executing
<1>0. n \in Node
  BY AskedFacts
<1>d. PICK Y \in Scans(g, w, n) :
         \/ /\ ~r.ready /\ w.state[n] > Pending /\ r.walk = w
         \/ /\ r.ready /\ ~(w.state[n] > Pending) /\ n \in g.unscannable
            /\ r.walk = Visited(w, n)
         \/ /\ ~r.ready /\ ~(w.state[n] > Pending) /\ n \notin g.unscannable
            /\ \E c \in Found(g, w, n, Y) : Looked(g, w, n, Y).state[c] = Failed
            /\ \E q \in Pushed(Looked(g, w, n, Y).candidates, Unvisited(g, w, n, Y)) :
                 r.walk = ChildFailed(g, [Looked(g, w, n, Y) EXCEPT !.candidates = q], n)
         \/ /\ ~r.ready /\ ~(w.state[n] > Pending) /\ n \notin g.unscannable
            /\ \A c \in Found(g, w, n, Y) : Looked(g, w, n, Y).state[c] # Failed
            /\ NotReady(g, w, n, Y) # {}
            /\ \E q \in Pushed(Looked(g, w, n, Y).candidates, Unvisited(g, w, n, Y)) :
                 r.walk = WaitForChildren([Looked(g, w, n, Y) EXCEPT !.candidates = q], n,
                                          NotReady(g, w, n, Y))
         \/ /\ ~r.ready /\ ~(w.state[n] > Pending) /\ n \notin g.unscannable
            /\ \A c \in Found(g, w, n, Y) : Looked(g, w, n, Y).state[c] # Failed
            /\ NotReady(g, w, n, Y) = {} /\ Busy(g, Looked(g, w, n, Y), n) # {}
            /\ r.walk = WaitForSideEffects(Looked(g, w, n, Y), n,
                                           Busy(g, Looked(g, w, n, Y), n))
         \/ /\ r.ready /\ ~(w.state[n] > Pending) /\ n \notin g.unscannable
            /\ \A c \in Found(g, w, n, Y) : Looked(g, w, n, Y).state[c] # Failed
            /\ NotReady(g, w, n, Y) = {} /\ Busy(g, Looked(g, w, n, Y), n) = {}
            /\ r.walk = Looked(g, w, n, Y)
  BY <1>0, ConsiderCases
<1> DEFINE v == Looked(g, w, n, Y)
           N == NotReady(g, w, n, Y)
           U == Unvisited(g, w, n, Y)
           z == r.walk
<1>1. n \in Node /\ Sound(g, w) /\ Named(g, w) /\ Fresh(g, w) /\ w \in WalkType
  BY AskedFacts DEF Steady, Sound
<1>2. /\ Sound(g, v)
      /\ \A m \in Node : v.state[m] = IF m = n /\ w.state[m] = NoState THEN Pending
                                       ELSE w.state[m]
      /\ v.waiting_parents = w.waiting_parents /\ v.waiting_s_e = w.waiting_s_e
      /\ v.candidates = w.candidates /\ v.stopped = w.stopped
      /\ v.top_targets_left = w.top_targets_left /\ v.current_top = w.current_top
      /\ Found(g, w, n, Y) \subseteq g.children[n] \cup Revealed(g, n)
      /\ Found(g, w, n, Y) \subseteq Node
  BY <1>1, LookedFields
<1>3. v \in WalkType /\ Named(g, v)
  BY <1>1, <1>2 DEF Sound, Named
<1>4. Found(g, w, n, Y) \subseteq Asked(g)
  <2>1. \A d \in g.children[n] \cup Revealed(g, n) : d \in Deps(g, Node)
    BY <1>1, DepsFacts
  <2> QED BY <1>2, <2>1, AskedFacts
<1>5. U \in SUBSET Asked(g) /\ N \in SUBSET Node /\ N \subseteq Found(g, w, n, Y)
  BY <1>2, <1>4 DEF Unvisited, NotReady
<1>6. ~z.stopped
  BY <1>1, ConsiderSound
<1>a. \A c \in Found(g, w, n, Y) : v.state[c] = Failed \/ c \in N \/ c \in Usable(w)
  <2> TAKE c \in Found(g, w, n, Y)
  <2>1. v.state[c] \in NodeState /\ c \in Node
    BY <1>2, <1>3 DEF WalkType
  <2>2. v.state[c] \in {UpToDate, Executed} => w.state[c] \in {UpToDate, Executed}
    BY <1>2, <2>1 DEF Pending, UpToDate, Executed
  <2>3. v.state[c] = Failed \/ v.state[c] <= Executing \/ v.state[c] \in {UpToDate, Executed}
    BY <2>1 DEF NodeState, NoState, Executing, UpToDate, Executed, Failed
  <2> QED BY <2>1, <2>2, <2>3 DEF NotReady, Usable
<1>b. g.children[n] \subseteq Found(g, w, n, Y)
  BY DEF Found, Children
<1>c. \A e \in g.reveals[n] : e[1] \in Found(g, w, n, Y)
  BY <1>1, <1>b, BuildType DEF ScansChildren
<1> HIDE DEF v, N, U
<1>7. CASE z = w /\ ~r.ready
  BY <1>6, <1>7
<1>8. CASE z = Visited(w, n) /\ ~(w.state[n] > Pending) /\ n \in g.unscannable
  <2>1. \A m \in Node : z.state[m] = IF m = n /\ w.state[m] = NoState THEN Pending
                                     ELSE w.state[m]
    BY <1>1, <1>8, VisitedFields
  <2>2. Sound(g, z)
    BY <1>1, ConsiderSound
  <2>8. /\ Steady(g, z, B, F) /\ Usable(z) = Usable(w)
        /\ \A T \in F : \A t \in T : z.state[t] = w.state[t]
    BY <1>1, <1>8, <2>2, VisitedSteady
  <2>9. ~(z.state[n] > Pending)
    BY <1>1, <1>8, <2>1 DEF Pending
  <2> QED BY <1>6, <1>8, <2>8, <2>9
<1>9. ASSUME NEW q \in Pushed(v.candidates, U)
      PROVE  LET u == [v EXCEPT !.candidates = q] IN
             /\ Sound(g, u) /\ Named(g, u) /\ u.state = v.state /\ u.implicit = v.implicit
             /\ u.waiting_parents = v.waiting_parents /\ u.waiting_s_e = v.waiting_s_e
             /\ u.stopped = v.stopped
  BY <1>2, <1>3, <1>5, PushedAgain
<1>10. CASE /\ ~r.ready /\ ~(w.state[n] > Pending)
            /\ \E c \in Found(g, w, n, Y) : v.state[c] = Failed
            /\ \E q \in Pushed(v.candidates, U) :
                 z = ChildFailed(g, [v EXCEPT !.candidates = q], n)
  <2>1. PICK q \in Pushed(v.candidates, U) :
          z = ChildFailed(g, [v EXCEPT !.candidates = q], n)
    BY <1>10
  <2> DEFINE u == [v EXCEPT !.candidates = q]
  <2>2. /\ Sound(g, u) /\ Named(g, u) /\ u.state = v.state /\ u.implicit = v.implicit
        /\ u.waiting_parents = v.waiting_parents /\ u.waiting_s_e = v.waiting_s_e
        /\ u.stopped = v.stopped
    BY <1>9
  <2>3. z = ChildFailed(g, u, n)
    BY <2>1
  <2> HIDE DEF u
  <2>a. u \in WalkType
    BY <2>2 DEF Sound
  <2>4. /\ z \in WalkType
        /\ \A t \in Node : z.state[t] = IF t \in (IF n \in g.builder THEN g.targets[n] ELSE {})
                                        THEN Failed ELSE u.state[t]
        /\ z.implicit = u.implicit /\ z.waiting_parents = u.waiting_parents
        /\ z.waiting_s_e = u.waiting_s_e /\ z.candidates = u.candidates
        /\ z.stopped = u.stopped /\ z.current_top = u.current_top
        /\ z.top_targets_left = u.top_targets_left
    BY <1>1, <2>a, <2>3, ChildFailedFields
  <2>5. Sound(g, z) /\ Named(g, z)
    BY <1>1, <2>2, <2>4, ConsiderSound DEF Named
  <2>6. n \in g.builder => z.state[n] > Pending
    BY <1>1, <2>4, TargetsFacts DEF Pending, Failed
  <2>7. \A m \in Node : \/ z.state[m] = v.state[m]
                        \/ z.state[m] = Failed /\ n \in g.builder /\ m \in g.targets[n]
    BY <2>2, <2>4
  <2>8. z.implicit = v.implicit /\ z.waiting_parents = v.waiting_parents
        /\ z.stopped = w.stopped
    BY <1>2, <2>2, <2>4
  <2>9. /\ Steady(g, z, B, F) /\ Usable(z) = Usable(w)
        /\ \A T \in F : \A t \in T : z.state[t] = w.state[t]
    BY <1>1, <1>10, <2>5, <2>6, <2>7, <2>8, LookedSteady DEF v
  <2> QED BY <1>6, <1>10, <2>9
<1>11. CASE /\ ~r.ready /\ ~(w.state[n] > Pending)
            /\ \A c \in Found(g, w, n, Y) : v.state[c] # Failed
            /\ \E q \in Pushed(v.candidates, U) :
                 z = WaitForChildren([v EXCEPT !.candidates = q], n, N)
  <2>1. PICK q \in Pushed(v.candidates, U) :
          z = WaitForChildren([v EXCEPT !.candidates = q], n, N)
    BY <1>11
  <2> DEFINE u == [v EXCEPT !.candidates = q]
  <2>2. /\ Sound(g, u) /\ Named(g, u) /\ u.state = v.state /\ u.implicit = v.implicit
        /\ u.waiting_parents = v.waiting_parents /\ u.waiting_s_e = v.waiting_s_e
        /\ u.stopped = v.stopped
    BY <1>9
  <2>3. z = WaitForChildren(u, n, N)
    BY <2>1
  <2> HIDE DEF u
  <2>4. /\ Sound(g, z)
        /\ \A c \in Node : z.waiting_parents[c] =
              u.waiting_parents[c] \cup (IF c \in N THEN {n} ELSE {})
        /\ z.state = u.state /\ z.implicit = u.implicit
        /\ z.waiting_s_e = u.waiting_s_e /\ z.candidates = u.candidates
        /\ z.stopped = u.stopped /\ z.current_top = u.current_top
        /\ z.top_targets_left = u.top_targets_left
    BY <1>1, <1>2, <1>5, <2>2, <2>3, WaitForChildrenFields
  <2>5. Named(g, z)
    BY <2>2, <2>4 DEF Named
  <2>6. \A e \in g.reveals[n] : e[1] \in Usable(w) \/ n \in z.waiting_parents[e[1]]
    BY <1>2, <1>11, <1>a, <1>c, <2>4
  <2>7. /\ z.state = v.state /\ z.implicit = v.implicit /\ z.stopped = w.stopped
        /\ \A c \in Node : v.waiting_parents[c] \subseteq z.waiting_parents[c]
    BY <1>2, <2>2, <2>4
  <2>9. /\ Steady(g, z, B, F) /\ Usable(z) = Usable(w)
        /\ \A T \in F : \A t \in T : z.state[t] = w.state[t]
    BY <1>1, <1>11, <2>4, <2>5, <2>6, <2>7, LookedSteady DEF v
  <2> QED BY <1>6, <1>11, <2>9
<1>12. CASE /\ ~r.ready /\ ~(w.state[n] > Pending)
            /\ \A c \in Found(g, w, n, Y) : v.state[c] # Failed
            /\ N = {}
            /\ z = WaitForSideEffects(v, n, Busy(g, v, n))
  <2>1. Busy(g, v, n) \in SUBSET Node
    BY <1>1, BuildType DEF Busy, SideEffects
  <2>2. /\ \A s \in Node : z.waiting_s_e[s] =
              v.waiting_s_e[s] \cup (IF s \in Busy(g, v, n) THEN {n} ELSE {})
        /\ z.state = v.state /\ z.implicit = v.implicit
        /\ z.waiting_parents = v.waiting_parents
        /\ z.candidates = v.candidates /\ z.stopped = v.stopped
        /\ z.current_top = v.current_top /\ z.top_targets_left = v.top_targets_left
    BY <1>1, <1>3, <1>12, <2>1, WaitForSideEffectsFields
  <2>3. Sound(g, z)
    BY <1>1, ConsiderSound
  <2>4. Named(g, z)
    BY <1>3, <2>2 DEF Named
  <2>5. \A e \in g.reveals[n] : e[1] \in Usable(w)
    BY <1>12, <1>a, <1>c
  <2>9. /\ Steady(g, z, B, F) /\ Usable(z) = Usable(w)
        /\ \A T \in F : \A t \in T : z.state[t] = w.state[t]
    BY <1>1, <1>2, <1>12, <2>2, <2>3, <2>4, <2>5, LookedSteady DEF v
  <2> QED BY <1>6, <1>12, <2>9
<1>13. CASE /\ r.ready /\ ~(w.state[n] > Pending)
            /\ \A c \in Found(g, w, n, Y) : v.state[c] # Failed
            /\ N = {} /\ Busy(g, v, n) = {} /\ z = v
  <2>1. \A e \in g.reveals[n] : e[1] \in Usable(w)
    BY <1>13, <1>a, <1>c
  <2>2. /\ Steady(g, z, B, F) /\ Usable(z) = Usable(w)
        /\ \A T \in F : \A t \in T : z.state[t] = w.state[t]
    BY <1>1, <1>2, <1>3, <1>13, <2>1, LookedSteady DEF v
  <2>3. ~(z.state[n] > Pending)
    BY <1>1, <1>2, <1>13 DEF Pending
  <2>4. Deps(g, g.targets[n]) \subseteq Usable(w)
    BY <1>1, <1>13, ReadyDeps DEF v, N
  <2>5. \A s \in SideEffects(g, g.targets[n]) : z.state[s] # Executing
    <3>1. CASE n \in g.builder
      BY <1>13, <3>1 DEF Busy
    <3>2. CASE n \notin g.builder
      <4>1. g.targets[n] = {n} /\ g.side_effects[n] = {}
        BY <1>1, <3>2, TargetsFacts
      <4> QED BY <4>1 DEF SideEffects
    <3> QED BY <3>1, <3>2
  <2> QED BY <1>6, <1>13, <2>2, <2>3, <2>4, <2>5
<1> QED BY <1>7, <1>8, <1>10, <1>11, <1>12, <1>13, <1>d DEF v, N, U

\* Nodes that are asked for or made.
Known(g) == Asked(g) \cup g.builder

\* All targets of a command, or a node without one.
IsTask(g, T) == \E n \in Node : n \in Known(g) /\ T = g.targets[n]

\* No target of a command is what another only also writes.
LEMMA TargetsApart ==
  ASSUME NEW g \in Builds, WrittenOnly(g), NEW n \in Node, n \in Known(g),
         NEW t \in g.targets[n]
  PROVE  t \in Node /\ t \notin SideEffects(g, Node)
<1>1. t \in Node /\ (t \in g.builder <=> n \in g.builder)
  BY TargetsFacts
<1>2. CASE n \in g.builder
  BY <1>1, <1>2, WrittenFacts
<1>3. CASE n \notin g.builder
  <2>1. g.targets[n] = {n}
    BY <1>3, TargetsFacts
  <2>2. t = n /\ n \in Asked(g)
    BY <1>3, <2>1 DEF Known
  <2> QED BY <1>1, <2>2, WrittenFacts
<1> QED BY <1>2, <1>3

\* The targets T become usable, with all they depend on there, and nothing else;
\* no task that was given out is touched.
Rise(g, w, v, F, T) ==
  /\ Deps(g, T) \subseteq Usable(w) /\ \A U \in F : \A t \in T : t \notin U
  /\ w.stopped => v.stopped
  /\ \A m \in Node :
       \/ /\ m \in T /\ v.state[m] \in {UpToDate, Executed}
          /\ \/ v.state[m] = Executed \/ m \notin g.builder \/ m \in g.present
             \/ w.state[m] = UpToDate
       \/ m \notin T /\ v.state[m] = w.state[m]
       \/ /\ m \notin T
          /\ m \in SideEffects(g, Node) /\ v.state[m] \in {NoState, Executing}
          /\ v.stopped \/ \A U \in F : m \notin SideEffects(g, U)

\* The targets of a command are there now, with all they depend on.
LEMMA GroupRises ==
  ASSUME NEW g \in Builds, WrittenOnly(g), NEW w, NEW v, NEW B, NEW F,
         Steady(g, w, B, F), Sound(g, v), Named(g, v), Fresh(g, v),
         NEW T, IsTask(g, T),
         Rise(g, w, v, F, T)
  PROVE  /\ Steady(g, v, B, F) /\ Usable(v) = Usable(w) \cup T
         /\ \A U \in F : \A t \in U : v.state[t] = w.state[t]
<1> PICK n \in Node : n \in Known(g) /\ T = g.targets[n]
  BY DEF IsTask
<1> USE DEF NoState, Pending, Executing, UpToDate, Executed, Failed, Rise
<1>1. /\ OnlyWritten(g, w) /\ FoundThere(g, w) /\ Together(g, w, B) /\ Supplied(g, w)
      /\ B \subseteq g.builder /\ \A U \in F : Held(g, w, U)
  BY DEF Steady
<1>2. \A s \in SideEffects(g, Node) : w.state[s] \in {NoState, Executing}
  BY <1>1 DEF OnlyWritten
<1>3. T \in SUBSET Node /\ n \in T /\ \A t \in T : t \notin SideEffects(g, Node)
  BY TargetsFacts, TargetsApart
<1>4. OnlyWritten(g, v)
  <2>1. SideEffects(g, Node) \in SUBSET Node
    BY SideEffectsType
  <2> QED BY <1>2, <1>3, <2>1 DEF OnlyWritten
<1>5. Usable(v) = Usable(w) \cup T
  BY <1>2, <1>3 DEF Usable
<1>6. FoundThere(g, v)
  BY <1>1 DEF FoundThere
<1>7. Supplied(g, v)
  <2>1. Usable(w) \in SUBSET Node /\ Usable(v) \in SUBSET Node
    BY DEF Usable
  <2>2. \A d : d \in Deps(g, Usable(v)) => d \in Deps(g, Usable(w)) \/ d \in Deps(g, T)
    BY <1>3, <1>5, <2>1, DepsFacts
  <2> QED BY <1>1, <1>5, <2>2 DEF Supplied
<1>8. Together(g, v, B)
  <2> SUFFICES ASSUME NEW k \in Node, NEW t \in g.targets[k],
                      v.state[t] \in {Executing, UpToDate, Executed} \/ t \in B
               PROVE  v.state[k] > Pending
    BY DEF Together
  <2>1. t \in Node /\ g.targets[t] = g.targets[k] /\ (t \in g.builder <=> k \in g.builder)
        /\ k \in g.targets[k]
    BY TargetsFacts
  <2>2. CASE k \in T
    BY <2>2
  <2>3. CASE k \notin T
    <3>1. t \notin T
      <4>1. t \in T => g.targets[t] = T
        BY TargetsFacts
      <4> QED BY <2>1, <2>3, <4>1
    <3>2. CASE t \in SideEffects(g, Node)
      <4>1. t \notin g.builder /\ g.targets[t] = {t}
        BY <3>2, WrittenFacts
      <4>2. k = t /\ t \notin B
        BY <1>1, <2>1, <4>1
      <4> QED BY <4>2
    <3>3. CASE t \notin SideEffects(g, Node)
      <4>1. w.state[t] \in {Executing, UpToDate, Executed} \/ t \in B
        BY <2>1, <3>1, <3>3
      <4>2. w.state[k] > Pending
        BY <1>1, <4>1 DEF Together
      <4>3. k \notin SideEffects(g, Node)
        <5>1. SUFFICES ASSUME k \in SideEffects(g, Node) PROVE FALSE
          OBVIOUS
        <5>2. g.targets[k] = {k}
          BY <5>1, WrittenFacts
        <5> QED BY <3>3, <5>1, <5>2
      <4> QED BY <2>3, <4>2, <4>3
    <3> QED BY <3>2, <3>3
  <2> QED BY <2>2, <2>3
<1>9. ASSUME NEW U \in F
      PROVE  Held(g, v, U) /\ \A t \in U : v.state[t] = w.state[t]
  <2>1. PICK k \in g.builder : U = g.targets[k]
    BY <1>1 DEF Held
  <2>2. k \in Node
    BY BuildType
  <2>3. /\ Deps(g, U) \subseteq Usable(w) /\ \A t \in U : w.state[t] \in {Executing, Executed}
        /\ w.stopped \/ \A s \in SideEffects(g, U) : w.state[s] = Executing
    BY <1>1 DEF Held
  <2>4. \A t \in U : t \in Node /\ t \notin SideEffects(g, Node) /\ t \notin T
    BY <2>1, <2>2, TargetsApart DEF Known
  <2>5. \A t \in U : v.state[t] = w.state[t]
    BY <2>4
  <2>6. v.stopped \/ \A s \in SideEffects(g, U) : v.state[s] = Executing
    <3>1. U \in SUBSET Node
      BY <2>4
    <3>2. \A s \in SideEffects(g, U) : s \in Node /\ s \in SideEffects(g, Node)
      BY <3>1, SideEffectsType
    <3> QED BY <1>3, <2>3, <3>2
  <2> QED BY <1>5, <2>1, <2>3, <2>5, <2>6 DEF Held
<1> QED BY <1>1, <1>4, <1>5, <1>6, <1>7, <1>8, <1>9 DEF Steady

\* The targets T, which are not there and belong to no task, are executing, and
\* what the command also writes; all they depend on is there.
Start(g, w, v, F, T) ==
  /\ Deps(g, T) \subseteq Usable(w)
  /\ \A t \in T : t \notin Usable(w) /\ \A U \in F : t \notin U
  /\ v.stopped = w.stopped
  /\ \A m \in Node : v.state[m] = IF m \in T \cup SideEffects(g, T) THEN Executing
                                  ELSE w.state[m]

\* Such a change of the walk gives out a task.
LEMMA GroupStarts ==
  ASSUME NEW g \in Builds, WrittenOnly(g), NEW w, NEW v, NEW B, NEW F,
         Steady(g, w, B, F), Sound(g, v), Named(g, v), Fresh(g, v),
         NEW n \in g.builder, NEW T, T = g.targets[n], Start(g, w, v, F, T)
  PROVE  /\ Steady(g, v, B, F \cup {T}) /\ Usable(v) = Usable(w)
         /\ \A U \in F : \A t \in U : v.state[t] = w.state[t]
<1> USE DEF NoState, Pending, Executing, UpToDate, Executed, Failed, Start
<1>1. /\ OnlyWritten(g, w) /\ FoundThere(g, w) /\ Together(g, w, B) /\ Supplied(g, w)
      /\ B \subseteq g.builder /\ \A U \in F : Held(g, w, U)
  BY DEF Steady
<1>2. \A s \in SideEffects(g, Node) : w.state[s] \in {NoState, Executing}
  BY <1>1 DEF OnlyWritten
<1>3. n \in Node
  BY BuildType
<1>4. T \in SUBSET Node /\ n \in T /\ \A t \in T : t \notin SideEffects(g, Node)
  BY <1>3, TargetsFacts, TargetsApart DEF Known
<1>5. SideEffects(g, T) \subseteq SideEffects(g, Node) /\ SideEffects(g, Node) \in SUBSET Node
  BY <1>4, SideEffectsType
<1>6. OnlyWritten(g, v)
  BY <1>2, <1>4, <1>5 DEF OnlyWritten
<1>7. Usable(v) = Usable(w)
  BY <1>2, <1>4, <1>5 DEF Usable
<1>8. FoundThere(g, v) /\ Supplied(g, v)
  BY <1>1, <1>7 DEF FoundThere, Supplied
<1>9. Together(g, v, B)
  <2> SUFFICES ASSUME NEW k \in Node, NEW t \in g.targets[k],
                      v.state[t] \in {Executing, UpToDate, Executed} \/ t \in B
               PROVE  v.state[k] > Pending
    BY DEF Together
  <2>1. t \in Node /\ g.targets[t] = g.targets[k] /\ (t \in g.builder <=> k \in g.builder)
        /\ k \in g.targets[k]
    BY TargetsFacts
  <2>2. CASE k \in T \cup SideEffects(g, T)
    BY <2>2
  <2>3. CASE k \notin T \cup SideEffects(g, T)
    <3>1. t \notin T
      <4>1. t \in T => g.targets[t] = T
        BY <1>3, TargetsFacts
      <4> QED BY <2>1, <2>3, <4>1
    <3>2. t \notin SideEffects(g, T)
      <4>1. t \in SideEffects(g, T) => g.targets[t] = {t}
        BY <1>5, WrittenFacts
      <4> QED BY <2>1, <2>3, <4>1
    <3>3. w.state[t] \in {Executing, UpToDate, Executed} \/ t \in B
      BY <2>1, <3>1, <3>2
    <3> QED BY <1>1, <2>3, <3>3 DEF Together
  <2> QED BY <2>2, <2>3
<1>10. ASSUME NEW U \in F
       PROVE  Held(g, v, U) /\ \A t \in U : v.state[t] = w.state[t]
  <2>1. PICK k \in g.builder : U = g.targets[k]
    BY <1>1 DEF Held
  <2>2. k \in Node
    BY BuildType
  <2>3. /\ Deps(g, U) \subseteq Usable(w) /\ \A t \in U : w.state[t] \in {Executing, Executed}
        /\ w.stopped \/ \A s \in SideEffects(g, U) : w.state[s] = Executing
    BY <1>1 DEF Held
  <2>4. \A t \in U : t \in Node /\ t \notin SideEffects(g, Node) /\ t \notin T
    BY <2>1, <2>2, TargetsApart DEF Known
  <2>5. \A t \in U : v.state[t] = w.state[t]
    BY <1>5, <2>4
  <2>6. v.stopped \/ \A s \in SideEffects(g, U) : v.state[s] = Executing
    <3>1. U \in SUBSET Node
      BY <2>4
    <3>2. \A s \in SideEffects(g, U) : s \in Node
      BY <3>1, SideEffectsType
    <3> QED BY <2>3, <3>2
  <2> QED BY <1>7, <2>1, <2>3, <2>5, <2>6 DEF Held
<1>11. Held(g, v, T)
  BY <1>4, <1>5, <1>7 DEF Held
<1> QED BY <1>1, <1>6, <1>7, <1>8, <1>9, <1>10, <1>11 DEF Steady

\* Nothing that is there, or belongs to another task, waits for nodes that are
\* not there and belong to none.
LEMMA WaitersApart ==
  ASSUME NEW g \in Builds, NEW w, NEW B, NEW F, Steady(g, w, B, F),
         NEW N \in SUBSET Node, N \cap Usable(w) = {}, \A U \in F : N \cap U = {},
         NEW p \in Waiters(w, N)
  PROVE  p \notin Usable(w) /\ \A U \in F : p \notin U
<1> DEFINE S == {n \in Node : n \notin Usable(w) /\ \A U \in F : n \notin U}
<1>1. Sound(g, w) /\ w \in WalkType /\ Supplied(g, w) /\ \A U \in F : Held(g, w, U)
  BY DEF Steady, Sound
<1>2. Usable(w) \in SUBSET Node
  BY DEF Usable
<1>3. ASSUME NEW m \in S, NEW q \in w.waiting_parents[m] PROVE q \in S
  <2>1. m \in Node /\ q \in Node /\ m \notin Usable(w)
    BY <1>1 DEF WalkType
  <2>2. m \in g.children[q] \cup Revealed(g, q)
    BY <1>1, <2>1 DEF Sound, WaitsForDeps
  <2>3. q \notin Usable(w)
    <3>1. SUFFICES ASSUME q \in Usable(w) PROVE FALSE
      OBVIOUS
    <3>2. m \in Deps(g, Usable(w))
      BY <1>2, <2>2, <3>1, DepsFacts
    <3> QED BY <1>1, <2>1, <3>2 DEF Supplied
  <2>4. ASSUME NEW U \in F PROVE q \notin U
    <3>1. SUFFICES ASSUME q \in U PROVE FALSE
      OBVIOUS
    <3>2. Deps(g, U) \subseteq Usable(w) /\ U \in SUBSET Node
      <4>1. Held(g, w, U)
        BY <1>1
      <4>2. PICK k \in g.builder : U = g.targets[k]
        BY <4>1 DEF Held
      <4>3. k \in Node
        BY BuildType
      <4> QED BY <4>1, <4>2, <4>3, TargetsFacts DEF Held
    <3>3. m \in Deps(g, U)
      BY <2>2, <3>1, <3>2, DepsFacts
    <3> QED BY <2>1, <3>2, <3>3
  <2> QED BY <2>1, <2>3, <2>4
<1>4. N \subseteq S /\ S \in SUBSET Node
  OBVIOUS
<1>5. Waiters(w, N) \subseteq S
  <2> HIDE DEF S
  <2> QED BY <1>1, <1>3, <1>4, WaitersFacts
<1> QED BY <1>5

\* All that wait are asked for, so that none only is written.
LEMMA WaitersAsked ==
  ASSUME NEW g \in Builds, NEW w \in WalkType, Named(g, w), NEW N \in SUBSET Node
  PROVE  Waiters(w, N) \subseteq N \cup Asked(g)
<1> DEFINE S == N \cup Asked(g)
<1>1. S \in SUBSET Node
  BY AskedFacts
<1>2. \A m \in S : w.waiting_parents[m] \subseteq S
  BY <1>1 DEF Named
<1> QED BY <1>1, <1>2, WaitersFacts

\* A task that is about to fail: x is w, where its targets T may have been made
\* ready before.  Nothing of it is there, and its side effects are its own.
MayFail(g, w, x, F, T) ==
  /\ x.waiting_parents = w.waiting_parents /\ x.waiting_s_e = w.waiting_s_e
  /\ x.implicit = w.implicit /\ x.candidates = w.candidates
  /\ x.top_targets_left = w.top_targets_left /\ x.current_top = w.current_top
  /\ x.stopped = w.stopped
  /\ \A m \in Node : \/ m \in T \/ x.state[m] = w.state[m]
                     \/ m \in SideEffects(g, T) /\ x.state[m] = Executing
  /\ \A t \in T : t \notin Usable(w) /\ \A U \in F : t \notin U
  /\ w.stopped \/ \A U \in F : SideEffects(g, T) \cap SideEffects(g, U) = {}

\* The targets T failed, and with them all that wait for them.
GivenUp(w, T) == WillNotBuild(w, T, TRUE)

\* When a task is given up, no more nodes may be used.
LEMMA FailSteady ==
  ASSUME NEW g \in Builds, WrittenOnly(g), NEW w, NEW B, NEW F, Steady(g, w, B, F),
         NEW T, IsTask(g, T),
         NEW x, Sound(g, x), MayFail(g, w, x, F, T)
  PROVE  LET v == GivenUp(x, T) IN
         /\ Steady(g, v, B, F) /\ Usable(v) = Usable(w)
         /\ \A U \in F : \A t \in U : v.state[t] = w.state[t]
         /\ \A t \in T : v.waiting_parents[t] = {}
         /\ v.stopped = w.stopped /\ v.current_top = w.current_top
<1> PICK n \in Node : n \in Known(g) /\ T = g.targets[n]
  BY DEF IsTask
<1> USE DEF MayFail
<1> DEFINE v == GivenUp(x, T)
           V == Waiters(x, T)
<1>1. /\ Sound(g, w) /\ w \in WalkType /\ x \in WalkType /\ Named(g, w) /\ Fresh(g, w)
  BY DEF Steady, Sound
<1>2. T \in SUBSET Node /\ n \in T /\ \A t \in T : t \notin SideEffects(g, Node)
  BY TargetsFacts, TargetsApart
<1>3. V = Waiters(w, T)
  BY DEF Waiters
<1>4. V \in SUBSET Node /\ T \subseteq V
  BY <1>1, <1>2, WaitersFacts
<1>5. \A p \in V : p \notin Usable(w) /\ \A U \in F : p \notin U
  <2>1. T \cap Usable(w) = {} /\ \A U \in F : T \cap U = {}
    OBVIOUS
  <2> QED BY <1>2, <1>3, <2>1, WaitersApart
<1>6. \A p \in V : p \notin SideEffects(g, Node)
  <2>1. V \subseteq T \cup Asked(g)
    BY <1>1, <1>2, <1>3, WaitersAsked
  <2> QED BY <1>2, <2>1, WrittenFacts
<1>7. /\ \A m \in Node : v.state[m] = IF m \in V THEN Failed ELSE x.state[m]
      /\ \A m \in Node : v.waiting_parents[m] = IF m \in V THEN {} ELSE x.waiting_parents[m]
      /\ v.waiting_s_e = x.waiting_s_e /\ v.implicit = x.implicit
      /\ v.candidates = x.candidates /\ v.top_targets_left = x.top_targets_left
      /\ v.current_top = x.current_top /\ v.stopped = x.stopped
  <2>1. /\ v.state = [m \in Node |-> IF m \in V THEN Failed ELSE x.state[m]]
        /\ v.waiting_parents = [m \in Node |-> IF m \in V THEN {} ELSE x.waiting_parents[m]]
    BY <1>1 DEF GivenUp, WillNotBuild, WalkType
  <2>2. /\ v.waiting_s_e = x.waiting_s_e /\ v.implicit = x.implicit
        /\ v.candidates = x.candidates /\ v.top_targets_left = x.top_targets_left
        /\ v.current_top = x.current_top /\ v.stopped = x.stopped
    BY <1>1 DEF GivenUp, WillNotBuild, WalkType
  <2> QED BY <2>1, <2>2
<1>8. Sound(g, v)
  BY <1>2, WillNotBuildSound DEF GivenUp
<1> HIDE DEF v, V
<1>9. Named(g, v)
  BY <1>1, <1>7 DEF Named
<1>10. SideEffects(g, T) \subseteq SideEffects(g, Node)
  BY <1>2, SideEffectsType
<1>11. ASSUME NEW m \in Node
       PROVE
           \/ v.state[m] = w.state[m]
           \/ /\ m \notin SideEffects(g, Node) /\ w.state[m] = NoState
              /\ v.state[m] = Pending
           \/ /\ m \notin SideEffects(g, Node) /\ m \notin Usable(w)
              /\ \A U \in F : m \notin U
              /\ v.state[m] = Failed
           \/ /\ m \in SideEffects(g, Node) /\ v.state[m] \in {NoState, Executing}
              /\ v.stopped \/ \A U \in F : m \notin SideEffects(g, U)
  <2>1. CASE m \in V
    BY <1>5, <1>6, <1>7, <2>1
  <2>2. CASE m \notin V /\ x.state[m] = w.state[m]
    BY <1>7, <2>2
  <2>3. CASE m \notin V /\ m \in SideEffects(g, T) /\ x.state[m] = Executing
    <3>1. v.stopped \/ \A U \in F : m \notin SideEffects(g, U)
      BY <1>7, <2>3
    <3> QED BY <1>7, <1>10, <2>3, <3>1
  <2> QED BY <1>4, <2>1, <2>2, <2>3
<1>12. Usable(v) \subseteq Usable(w)
  <2>1. \A s \in SideEffects(g, Node) : w.state[s] \in {NoState, Executing}
    BY DEF Steady, OnlyWritten
  <2> QED BY <1>11, <2>1 DEF Usable, NoState, Pending, Executing, UpToDate, Executed, Failed
<1>13. \A m \in g.builder : w.state[m] > Pending => v.state[m] > Pending
  <2> TAKE m \in g.builder
  <2>1. m \in Node /\ m \notin SideEffects(g, Node)
    BY BuildType, WrittenFacts
  <2> QED BY <1>11, <2>1 DEF NoState, Pending, Failed
<1>14. \A m \in g.builder : \A c \in g.builder \ g.present :
           c \notin Usable(w) /\ m \in w.waiting_parents[c] =>
             \/ c \notin Usable(v) /\ m \in v.waiting_parents[c]
             \/ v.implicit[m] = None \/ v.state[m] > Pending \/ v.stopped
  <2> SUFFICES ASSUME NEW m \in g.builder, NEW c \in g.builder \ g.present,
                 c \notin Usable(w) /\ m \in w.waiting_parents[c]
               PROVE \/ c \notin Usable(v) /\ m \in v.waiting_parents[c]
                     \/ v.state[m] > Pending
    OBVIOUS
  <2>1. m \in Node /\ c \in Node
    BY BuildType
  <2>2. CASE c \in V
    <3>1. m \in V
      BY <1>1, <1>2, <2>2, WaitersFacts DEF V
    <3> QED BY <1>7, <2>1, <3>1 DEF Pending, Failed
  <2>3. CASE c \notin V
    BY <1>7, <1>12, <2>1, <2>3
  <2> QED BY <2>2, <2>3
<1>15. Fresh(g, v)
  BY <1>1, <1>7, <1>13, <1>14, FreshKept
<1>16. w.stopped => v.stopped
  BY <1>7
<1>17. /\ Steady(g, v, B, F) /\ Usable(v) = Usable(w)
       /\ \A U \in F : \A t \in U : v.state[t] = w.state[t]
  <2>1. \A m \in Node :
           \/ v.state[m] = w.state[m]
           \/ /\ m \notin SideEffects(g, Node) /\ w.state[m] = NoState
              /\ v.state[m] = Pending
           \/ /\ m \notin SideEffects(g, Node) /\ m \notin Usable(w)
              /\ \A U \in F : m \notin U
              /\ v.state[m] = Failed
           \/ /\ m \in SideEffects(g, Node) /\ v.state[m] \in {NoState, Executing}
              /\ v.stopped \/ \A U \in F : m \notin SideEffects(g, U)
    BY <1>11
  <2>2. NoRise(g, w, v, F)
    BY <1>16, <2>1 DEF NoRise
  <2> QED BY <1>8, <1>9, <2>2, <1>15, NoneRises
<1>18. \A t \in T : v.waiting_parents[t] = {}
  BY <1>2, <1>4, <1>7
<1> QED BY <1>7, <1>17, <1>18 DEF v


\* The postprocess of a task leaves the walk steady, if its targets are there
\* or nobody waits for them, and no other task holds its side effects.
LEMMA PostSteady ==
  ASSUME NEW g \in Builds, WrittenOnly(g), NEW w, NEW B, NEW F, Steady(g, w, B, F),
         NEW T \in SUBSET Node, NEW v \in Postprocess(g, w, T),
         w.stopped \/ \A U \in F : SideEffects(g, T) \cap SideEffects(g, U) = {},
         w.stopped \/ \A t \in T : t \in Usable(w) \/ w.waiting_parents[t] = {}
  PROVE  /\ Steady(g, v, B, F) /\ Usable(v) = Usable(w)
         /\ \A U \in F : \A t \in U : v.state[t] = w.state[t]
<1>1. /\ Sound(g, w) /\ w \in WalkType /\ Named(g, w) /\ Fresh(g, w) /\ OnlyWritten(g, w)
  BY DEF Steady, Sound
<1>2. /\ Sound(g, v)
      /\ \A n \in Node : v.state[n] =
              IF n \in SideEffects(g, T) /\ w.state[n] = Executing THEN NoState
              ELSE w.state[n]
      /\ \A n \in Node :
              v.waiting_parents[n] = IF n \in T THEN {} ELSE w.waiting_parents[n]
      /\ v.implicit = w.implicit /\ v.waiting_s_e = w.waiting_s_e
      /\ v.stopped = w.stopped /\ v.current_top = w.current_top
      /\ v.top_targets_left = w.top_targets_left
  BY <1>1, PostprocessFields
<1>3. v.candidates \in Seq(Asked(g))
  <2>1. Asked(g) \in SUBSET Node
    BY AskedFacts
  <2>2. /\ w.candidates \in Seq(Asked(g))
        /\ \A n \in Node : /\ w.waiting_parents[n] \subseteq Asked(g)
                           /\ w.waiting_s_e[n] \subseteq Asked(g)
    BY <1>1 DEF Named
  <2> QED BY <1>1, <2>1, <2>2, PostprocessFields
<1>4. Named(g, v)
  BY <1>1, <1>2, <1>3 DEF Named
<1>5. /\ SideEffects(g, T) \subseteq SideEffects(g, Node)
      /\ \A n \in g.builder : n \in Node /\ n \notin SideEffects(g, Node)
  BY SideEffectsType, BuildType, WrittenFacts
<1>6. NoRise(g, w, v, F)
  BY <1>2, <1>5 DEF NoRise
<1>7. Usable(v) \subseteq Usable(w)
  BY <1>2 DEF Usable, NoState, UpToDate, Executed
<1>8. \A n \in g.builder : w.state[n] > Pending => v.state[n] > Pending
  BY <1>2, <1>5
<1>9. \A n \in g.builder : \A c \in g.builder \ g.present :
           c \notin Usable(w) /\ n \in w.waiting_parents[c] =>
             \/ c \notin Usable(v) /\ n \in v.waiting_parents[c]
             \/ v.implicit[n] = None \/ v.state[n] > Pending \/ v.stopped
  BY <1>2, <1>5, <1>7
<1>10. Fresh(g, v)
  BY <1>1, <1>2, <1>8, <1>9, FreshKept
<1> QED BY <1>2, <1>4, <1>6, <1>10, NoneRises

\* Of the targets that were executing, and were given what they depend on, the
\* walk makes nodes that may be used.
LEMMA ExecutedSteady ==
  ASSUME NEW g \in Builds, WrittenOnly(g), NEW w, NEW B, NEW F, Steady(g, w, B, F),
         NEW T, IsTask(g, T),
         Deps(g, T) \subseteq Usable(w), \A U \in F : \A t \in T : t \notin U,
         \A t \in T : w.state[t] = Executing,
         w.stopped \/ \A U \in F : SideEffects(g, T) \cap SideEffects(g, U) = {}
  PROVE  LET v == ExecutedTask(g, w, T) IN
         /\ Steady(g, v, B, F) /\ Usable(v) = Usable(w) \cup T
         /\ \A U \in F : \A t \in U : v.state[t] = w.state[t]
         /\ v.stopped = w.stopped
<1> PICK n \in Node : n \in Known(g) /\ T = g.targets[n]
  BY DEF IsTask
<1> DEFINE v == ExecutedTask(g, w, T)
<1>1. /\ Sound(g, w) /\ w \in WalkType /\ Named(g, w) /\ Fresh(g, w)
  BY DEF Steady, Sound
<1>2. T \in SUBSET Node /\ \A t \in T : t \notin SideEffects(g, Node)
  BY TargetsFacts, TargetsApart
<1>3. Making(w, T) = T
  BY DEF Making
<1>4. /\ \A m \in Node : v.state[m] =
              IF m \in T THEN Executed
              ELSE IF m \in SideEffects(g, T) THEN NoState ELSE w.state[m]
      /\ \A p \in Node : v.implicit[p] =
              IF \E t \in T : p \in w.waiting_parents[t] THEN None ELSE w.implicit[p]
      /\ v.waiting_parents = w.waiting_parents /\ v.waiting_s_e = w.waiting_s_e
      /\ v.candidates = w.candidates /\ v.stopped = w.stopped
      /\ v.current_top = w.current_top /\ v.top_targets_left = w.top_targets_left
  BY <1>1, <1>2, <1>3, ExecutedFields
<1>5. Sound(g, v)
  BY <1>1, <1>2, ExecutedSound
<1> HIDE DEF v
<1>6. Named(g, v)
  BY <1>1, <1>4 DEF Named
<1>7. /\ SideEffects(g, T) \subseteq SideEffects(g, Node)
      /\ \A k \in g.builder : k \in Node /\ k \notin SideEffects(g, Node)
  BY <1>2, SideEffectsType, BuildType, WrittenFacts
<1>8. \A k \in g.builder : w.state[k] > Pending => v.state[k] > Pending
  BY <1>4, <1>7 DEF Pending, Executed
<1>9. \A k \in g.builder : v.implicit[k] = None \/ v.implicit[k] = w.implicit[k]
  BY <1>4, <1>7
<1>10. \A k \in g.builder : \A c \in g.builder \ g.present :
           c \notin Usable(w) /\ k \in w.waiting_parents[c] =>
             \/ c \notin Usable(v) /\ k \in v.waiting_parents[c]
             \/ v.implicit[k] = None \/ v.state[k] > Pending \/ v.stopped
  BY <1>4, <1>7 DEF Usable
<1>11. Fresh(g, v)
  BY <1>1, <1>4, <1>8, <1>9, <1>10, FreshKept
<1>12. Rise(g, w, v, F, T)
  BY <1>4, <1>7 DEF Rise
<1>13. /\ Steady(g, v, B, F) /\ Usable(v) = Usable(w) \cup T
       /\ \A U \in F : \A t \in U : v.state[t] = w.state[t]
  BY <1>5, <1>6, <1>11, <1>12, GroupRises
<1> QED BY <1>4, <1>13 DEF v


\* Nothing is made of targets that none of which is executing.
LEMMA NothingMade ==
  ASSUME NEW g \in Builds, WrittenOnly(g), NEW w, NEW B, NEW F, Steady(g, w, B, F),
         NEW T \in SUBSET Node, T \subseteq Usable(w)
  PROVE  LET v == ExecutedTask(g, w, T) IN
         /\ Steady(g, v, B, F) /\ Usable(v) = Usable(w)
         /\ \A U \in F : \A t \in U : v.state[t] = w.state[t]
         /\ v.stopped = w.stopped
<1> DEFINE v == ExecutedTask(g, w, T)
<1>1. /\ Sound(g, w) /\ w \in WalkType /\ Named(g, w) /\ Fresh(g, w)
  BY DEF Steady, Sound
<1>2. /\ \A m : m \notin Making(w, T)
      /\ \A m : m \notin SideEffects(g, Making(w, T))
  BY DEF Making, Usable, Executing, UpToDate, Executed, SideEffects
<1>3. /\ \A m \in Node : v.state[m] = w.state[m]
      /\ \A p \in Node : v.implicit[p] = w.implicit[p]
      /\ v.waiting_parents = w.waiting_parents /\ v.waiting_s_e = w.waiting_s_e
      /\ v.candidates = w.candidates /\ v.stopped = w.stopped
      /\ v.current_top = w.current_top /\ v.top_targets_left = w.top_targets_left
  BY <1>1, <1>2, ExecutedFields
<1>4. Sound(g, v)
  BY <1>1, ExecutedSound
<1> HIDE DEF v
<1>5. Named(g, v)
  BY <1>1, <1>3 DEF Named
<1>6. Usable(v) = Usable(w) /\ \A k \in g.builder : k \in Node
  BY <1>3, BuildType DEF Usable
<1>7. Fresh(g, v)
  BY <1>1, <1>3, <1>6, FreshKept
<1>8. NoRise(g, w, v, F)
  BY <1>3 DEF NoRise
<1> QED BY <1>3, <1>4, <1>5, <1>7, <1>8, NoneRises DEF v

\* A task that is done: its targets were executing, or are there.
MayEnd(g, w, F, T) ==
  /\ Deps(g, T) \subseteq Usable(w) /\ \A U \in F : \A t \in T : t \notin U
  /\ T \subseteq Usable(w) \/ \A t \in T : w.state[t] = Executing
  /\ w.stopped \/ \A U \in F : SideEffects(g, T) \cap SideEffects(g, U) = {}

\* Its targets may be used.
LEMMA DoneSteady ==
  ASSUME NEW g \in Builds, WrittenOnly(g), NEW w, NEW B, NEW F, Steady(g, w, B, F),
         NEW T, IsTask(g, T),
         MayEnd(g, w, F, T), NEW v \in DoneTask(g, w, T)
  PROVE  /\ Steady(g, v, B, F) /\ Usable(v) = Usable(w) \cup T
         /\ \A U \in F : \A t \in U : v.state[t] = w.state[t]
<1> PICK n \in Node : n \in Known(g) /\ T = g.targets[n]
  BY DEF IsTask
<1> DEFINE d == ExecutedTask(g, w, T)
<1>1. T \in SUBSET Node
  BY TargetsFacts
<1>2. /\ Steady(g, d, B, F) /\ Usable(d) = Usable(w) \cup T
      /\ \A U \in F : \A t \in U : d.state[t] = w.state[t]
      /\ d.stopped = w.stopped
  <2>1. CASE T \subseteq Usable(w)
    BY <1>1, <2>1, NothingMade
  <2>2. CASE \A t \in T : w.state[t] = Executing
    BY <2>2, ExecutedSteady DEF MayEnd
  <2> QED BY <2>1, <2>2 DEF MayEnd
<1>3. v \in Postprocess(g, d, T)
  BY DEF DoneTask
<1> HIDE DEF d
<1>4. /\ Steady(g, v, B, F) /\ Usable(v) = Usable(d)
      /\ \A U \in F : \A t \in U : v.state[t] = d.state[t]
  <2>1. d.stopped \/ \A t \in T : t \in Usable(d) \/ d.waiting_parents[t] = {}
    BY <1>2
  <2>2. d.stopped \/ \A U \in F : SideEffects(g, T) \cap SideEffects(g, U) = {}
    BY <1>2 DEF MayEnd
  <2> QED BY <1>1, <1>2, <1>3, <2>1, <2>2, PostSteady
<1> QED BY <1>2, <1>4

\* A task that failed leaves the walk steady, and no more nodes may be used.
LEMMA FailedSteady ==
  ASSUME NEW g \in Builds, WrittenOnly(g), NEW w, NEW B, NEW F, Steady(g, w, B, F),
         NEW T, IsTask(g, T),
         NEW x, Sound(g, x), MayFail(g, w, x, F, T), x.current_top \in Node,
         g.on_error # "ignore", NEW v \in FailedTask(g, x, T)
  PROVE  /\ Steady(g, v, B, F) /\ Usable(v) = Usable(w)
         /\ \A U \in F : \A t \in U : v.state[t] = w.state[t]
<1> PICK n \in Node : n \in Known(g) /\ T = g.targets[n]
  BY DEF IsTask
<1> DEFINE f == GivenUp(x, T)
           h == [f EXCEPT !.stopped = TRUE]
<1>1. T \in SUBSET Node
  BY TargetsFacts
<1>2. /\ Steady(g, f, B, F) /\ Usable(f) = Usable(w)
      /\ \A U \in F : \A t \in U : f.state[t] = w.state[t]
      /\ \A t \in T : f.waiting_parents[t] = {}
      /\ f.stopped = w.stopped /\ f.current_top = w.current_top
  BY FailSteady
<1>3. \/ v \in Postprocess(g, f, T)
      \/ v \in Postprocess(g, h, {x.current_top})
  BY OutcomeCases DEF GivenUp
<1> HIDE DEF f
<1>4. CASE v \in Postprocess(g, f, T)
  <2>1. f.stopped \/ \A t \in T : t \in Usable(f) \/ f.waiting_parents[t] = {}
    BY <1>2
  <2>2. f.stopped \/ \A U \in F : SideEffects(g, T) \cap SideEffects(g, U) = {}
    BY <1>2 DEF MayFail
  <2>3. /\ Steady(g, v, B, F) /\ Usable(v) = Usable(f)
        /\ \A U \in F : \A t \in U : v.state[t] = f.state[t]
    BY <1>1, <1>2, <1>4, <2>1, <2>2, PostSteady
  <2> QED BY <1>2, <2>3
<1>5. CASE v \in Postprocess(g, h, {x.current_top})
  <2>1. Sound(g, f) /\ Steady(g, h, B, F) /\ h.state = f.state
    BY <1>2, StoppedSteady DEF Steady
  <2>2. h.stopped
    BY <2>1 DEF Sound, WalkType
  <2>3. Usable(h) = Usable(f)
    BY <2>1 DEF Usable
  <2> HIDE DEF h
  <2>4. {x.current_top} \in SUBSET Node
    OBVIOUS
  <2>5. /\ Steady(g, v, B, F) /\ Usable(v) = Usable(h)
        /\ \A U \in F : \A t \in U : v.state[t] = h.state[t]
    BY <1>5, <2>1, <2>2, <2>4, PostSteady
  <2> QED BY <1>2, <2>1, <2>3, <2>5
<1> QED BY <1>3, <1>4, <1>5


-----------------------------------------------------------------------------
(* The steps of a task.                                                    *)

\* Only some of the tasks are looked at.
LEMMA FewerSteady ==
  ASSUME NEW g, NEW w, NEW B, NEW F, Steady(g, w, B, F), NEW G \in SUBSET F
  PROVE  Steady(g, w, B, G)
BY DEF Steady

\* A task that was given out is started.
LEMMA BegunSteady ==
  ASSUME NEW g \in Builds, NEW w, NEW B, NEW F, Steady(g, w, B, F), NEW T \in F
  PROVE  Steady(g, w, B \cup T, F)
<1>1. Held(g, w, T) /\ Together(g, w, B) /\ B \subseteq g.builder
  BY DEF Steady
<1>2. PICK n \in g.builder : T = g.targets[n]
  BY <1>1 DEF Held
<1>3. /\ n \in Node /\ T \in SUBSET Node /\ T \subseteq g.builder
      /\ \A t \in T : g.targets[t] = T
  BY <1>2, BuildType, TargetsFacts
<1>4. \A t \in T : w.state[t] > Pending
  BY <1>1 DEF Held, Pending, Executing, Executed
<1>5. Together(g, w, B \cup T)
  <2> SUFFICES ASSUME NEW k \in Node, NEW t \in g.targets[k],
                      w.state[t] \in {Executing, UpToDate, Executed} \/ t \in B \cup T
               PROVE  w.state[k] > Pending
    BY DEF Together
  <2>1. g.targets[t] = g.targets[k] /\ k \in g.targets[k]
    BY TargetsFacts
  <2>2. CASE t \in T
    BY <1>3, <1>4, <2>1, <2>2
  <2>3. CASE t \notin T
    BY <1>1, <2>3 DEF Together
  <2> QED BY <2>2, <2>3
<1>6. B \cup T \subseteq g.builder
  BY <1>1, <1>3
<1> QED BY <1>5, <1>6 DEF Steady

\* Before the first step.
LEMMA NewWalkSteady ==
  ASSUME NEW g \in Builds
  PROVE  Steady(g, NewWalk(g), {}, {}) /\ Usable(NewWalk(g)) = {}
<1> DEFINE w == NewWalk(g)
<1>1. Sound(g, w)
  BY NewWalkSound
<1>2. Reverse(g.top) \in Seq(Asked(g))
  BY AskedFacts DEF Reverse
<1>3. <<>> \in Seq(Asked(g))
  OBVIOUS
<1>4. /\ \A n \in Node : /\ w.waiting_parents[n] = {} /\ w.waiting_s_e[n] = {}
                         /\ w.implicit[n] = None /\ w.state[n] = NoState
      /\ w.candidates = <<>> /\ w.top_targets_left = Reverse(g.top)
      /\ w.current_top = None
  BY DEF NewWalk
<1> HIDE DEF w
<1>5. Named(g, w)
  BY <1>2, <1>3, <1>4 DEF Named
<1>6. Usable(w) = {}
  BY <1>4 DEF Usable, NoState, UpToDate, Executed
<1>7. Supplied(g, w)
  BY <1>6 DEF Supplied, Deps
<1>8. OnlyWritten(g, w)
  <2>1. SideEffects(g, Node) \in SUBSET Node
    BY SideEffectsType
  <2> QED BY <1>4, <2>1 DEF OnlyWritten
<1>9. FoundThere(g, w) /\ Fresh(g, w)
  BY <1>4, BuildType DEF FoundThere, Fresh, NoState, UpToDate
<1>10. Together(g, w, {})
  <2>1. \A n \in Node : \A t \in g.targets[n] : t \in Node
    BY TargetsFacts
  <2> QED BY <1>4, <2>1 DEF Together, NoState, Executing, UpToDate, Executed
<1>11. Steady(g, w, {}, {})
  BY <1>1, <1>5, <1>7, <1>8, <1>9, <1>10 DEF Steady
<1> QED BY <1>6, <1>11 DEF w

\* Targets that are found up to date, or have no builder.
FoundCurrent(g, w, T) == MakeReady(g, w, T, TRUE)

\* Once their dependencies are there, such targets may be used.
LEMMA CurrentSteady ==
  ASSUME NEW g \in Builds, WrittenOnly(g), NEW w, NEW B, NEW F, Steady(g, w, B, F),
         NEW n \in Node, n \in Asked(g), NEW T, T = g.targets[n],
         ~(w.state[n] > Pending), Deps(g, T) \subseteq Usable(w),
         n \notin g.builder \/ T \subseteq g.present
  PROVE  LET v == FoundCurrent(g, w, T) IN
         /\ Steady(g, v, B, F) /\ Usable(v) = Usable(w) \cup T
         /\ \A U \in F : \A t \in U : v.state[t] = w.state[t]
<1> DEFINE v == FoundCurrent(g, w, T)
<1>1. /\ Sound(g, w) /\ w \in WalkType /\ Named(g, w) /\ Fresh(g, w)
  BY DEF Steady, Sound
<1>2. /\ T \in SUBSET Node /\ \A t \in T : g.targets[t] = T /\ (t \in g.builder <=> n \in g.builder)
  BY TargetsFacts
<1>3. /\ \A m \in Node : v.state[m] = IF m \in T THEN UpToDate ELSE w.state[m]
      /\ v.implicit = w.implicit /\ v.waiting_parents = w.waiting_parents
      /\ v.ref_count = w.ref_count /\ v.waiting_s_e = w.waiting_s_e
      /\ v.candidates = w.candidates /\ v.stopped = w.stopped
      /\ v.current_top = w.current_top /\ v.top_targets_left = w.top_targets_left
  <2>1. v.state = [m \in Node |-> IF m \in T THEN UpToDate ELSE w.state[m]]
    BY <1>1 DEF FoundCurrent, MakeReady, WalkType
  <2>2. /\ v.implicit = w.implicit /\ v.waiting_parents = w.waiting_parents
        /\ v.ref_count = w.ref_count /\ v.waiting_s_e = w.waiting_s_e
        /\ v.candidates = w.candidates /\ v.stopped = w.stopped
        /\ v.current_top = w.current_top /\ v.top_targets_left = w.top_targets_left
    BY <1>1 DEF FoundCurrent, MakeReady, WalkType
  <2> QED BY <2>1, <2>2
<1>4. v \in WalkType
  <2> DEFINE X == [m \in Node |-> IF m \in T THEN UpToDate ELSE w.state[m]]
  <2>1. v = [w EXCEPT !.state = X]
    BY <1>1 DEF FoundCurrent, MakeReady, WalkType
  <2>2. X \in [Node -> NodeState]
    BY <1>1, StateValues DEF WalkType
  <2> HIDE DEF v, X
  <2> QED BY <1>1, <2>1, <2>2 DEF WalkType
<1> HIDE DEF v
<1>5. Sound(g, v)
  BY <1>1, <1>3, <1>4, SameCounts
<1>6. Named(g, v)
  BY <1>1, <1>3 DEF Named
<1>7. \A k \in g.builder : k \in Node
  BY BuildType
<1>8. \A k \in g.builder : w.state[k] > Pending => v.state[k] > Pending
  BY <1>3, <1>7 DEF Pending, UpToDate
<1>9. \A k \in g.builder : \A c \in g.builder \ g.present :
           c \notin Usable(w) /\ k \in w.waiting_parents[c] =>
             \/ c \notin Usable(v) /\ k \in v.waiting_parents[c]
             \/ v.implicit[k] = None \/ v.state[k] > Pending \/ v.stopped
  BY <1>2, <1>3, <1>7 DEF Usable
<1>10. Fresh(g, v)
  BY <1>1, <1>3, <1>8, <1>9, FreshKept
<1>11. \A U \in F : \A t \in T : t \notin U
  BY CandidateFree
<1>12. Rise(g, w, v, F, T)
  BY <1>2, <1>3, <1>11 DEF Rise
<1>13. IsTask(g, T)
  BY DEF IsTask, Known
<1>14. /\ Steady(g, v, B, F) /\ Usable(v) = Usable(w) \cup T
       /\ \A U \in F : \A t \in U : v.state[t] = w.state[t]
  BY <1>5, <1>6, <1>10, <1>12, <1>13, GroupRises
<1> QED BY <1>14 DEF v

\* Targets that are about to be built.
Started(g, w, T) == MakeReady(g, w, T, FALSE)

\* They are given out as a task, which has all it depends on.
LEMMA StartedSteady ==
  ASSUME NEW g \in Builds, WrittenOnly(g), NEW w, NEW B, NEW F, Steady(g, w, B, F),
         NEW n \in g.builder, NEW T, T = g.targets[n],
         ~(w.state[n] > Pending), Deps(g, T) \subseteq Usable(w)
  PROVE  LET v == Started(g, w, T) IN
         /\ Steady(g, v, B, F \cup {T}) /\ Usable(v) = Usable(w)
         /\ \A U \in F : \A t \in U : v.state[t] = w.state[t]
         /\ \A t \in T : v.state[t] = Executing
<1> DEFINE v == Started(g, w, T)
<1>1. /\ Sound(g, w) /\ w \in WalkType /\ Named(g, w) /\ Fresh(g, w) /\ OnlyWritten(g, w)
  BY DEF Steady, Sound
<1>2. n \in Node /\ T \in SUBSET Node /\ SideEffects(g, T) \subseteq SideEffects(g, Node)
  BY BuildType, TargetsFacts, SideEffectsType
<1>3. /\ \A m \in Node : v.state[m] = IF m \in T \cup SideEffects(g, T) THEN Executing
                                      ELSE w.state[m]
      /\ v.implicit = w.implicit /\ v.waiting_parents = w.waiting_parents
      /\ v.ref_count = w.ref_count /\ v.waiting_s_e = w.waiting_s_e
      /\ v.candidates = w.candidates /\ v.stopped = w.stopped
      /\ v.current_top = w.current_top /\ v.top_targets_left = w.top_targets_left
      /\ v \in WalkType
  <2> DEFINE X == [m \in Node |-> IF m \in T \cup SideEffects(g, T) THEN Executing
                                  ELSE w.state[m]]
  <2>1. v = [w EXCEPT !.state = X]
    BY <1>1 DEF Started, MakeReady, WalkType
  <2>2. X \in [Node -> NodeState]
    BY <1>1, StateValues DEF WalkType
  <2>3. \A m \in Node : X[m] = IF m \in T \cup SideEffects(g, T) THEN Executing
                               ELSE w.state[m]
    OBVIOUS
  <2> HIDE DEF v, X
  <2> QED BY <1>1, <2>1, <2>2, <2>3 DEF WalkType
<1> HIDE DEF v
<1>5. Sound(g, v)
  BY <1>1, <1>3, SameCounts
<1>6. Named(g, v)
  BY <1>1, <1>3 DEF Named
<1>7. \A k \in g.builder : k \in Node /\ k \notin SideEffects(g, Node)
  BY BuildType, WrittenFacts
<1>8. \A k \in g.builder : w.state[k] > Pending => v.state[k] > Pending
  BY <1>3, <1>7 DEF Pending, Executing
<1>9. Usable(v) \subseteq Usable(w)
  BY <1>3 DEF Usable, Executing, UpToDate, Executed
<1>10. Fresh(g, v)
  BY <1>1, <1>3, <1>8, <1>9, FreshKept
<1>11. \A t \in T : t \notin Usable(w) /\ \A U \in F : t \notin U
  BY <1>2, CandidateFree
<1>12. Start(g, w, v, F, T)
  BY <1>3, <1>11 DEF Start
<1>13. /\ Steady(g, v, B, F \cup {T}) /\ Usable(v) = Usable(w)
       /\ \A U \in F : \A t \in U : v.state[t] = w.state[t]
  BY <1>5, <1>6, <1>10, <1>12, GroupStarts
<1>14. \A t \in T : v.state[t] = Executing
  BY <1>2, <1>3
<1> QED BY <1>13, <1>14 DEF v

\* What Task.execute does to a target that is in the cache.
Fetched(w, t) == Built([w EXCEPT !.state[t] = Executed], t)

\* The task has this target alone, which belongs to no other task of F.
OnlyIn(F, T, t) == T = {t} /\ \A U \in F : U # T => t \notin U

\* A target that is fetched may be used, and its task has still all it needs.
LEMMA FetchedSteady ==
  ASSUME NEW g \in Builds, WrittenOnly(g), NEW w, NEW B, NEW F, Steady(g, w, B, F),
         NEW t \in g.builder, NEW T, T = g.targets[t], T \in F, OnlyIn(F, T, t)
  PROVE  LET v == Fetched(w, t) IN
         /\ Steady(g, v, B, F) /\ Usable(v) = Usable(w) \cup T
         /\ \A U \in F : U # T => \A m \in U : v.state[m] = w.state[m]
         /\ v.state[t] = Executed
<1> USE DEF OnlyIn
<1> DEFINE v == Fetched(w, t)
           G == F \ {T}
<1>1. /\ Sound(g, w) /\ w \in WalkType /\ Named(g, w) /\ Fresh(g, w)
      /\ Held(g, w, T) /\ Steady(g, w, B, G)
  BY FewerSteady DEF Steady, Sound
<1>3. t \in Node /\ T \in SUBSET Node
  BY BuildType, TargetsFacts
<1>4. /\ v \in WalkType
      /\ \A m \in Node : v.state[m] = IF m = t THEN Executed ELSE w.state[m]
      /\ \A p \in Node : v.implicit[p] =
              IF p \in w.waiting_parents[t] THEN None ELSE w.implicit[p]
      /\ v.waiting_parents = w.waiting_parents
      /\ v.ref_count = w.ref_count /\ v.waiting_s_e = w.waiting_s_e
      /\ v.candidates = w.candidates /\ v.stopped = w.stopped
      /\ v.current_top = w.current_top /\ v.top_targets_left = w.top_targets_left
  BY <1>1, <1>3, FetchedFields DEF Fetched
<1> HIDE DEF v
<1>5. Sound(g, v)
  BY <1>1, <1>4, SameCounts
<1>6. Named(g, v)
  BY <1>1, <1>4 DEF Named
<1>7. \A k \in g.builder : k \in Node
  BY BuildType
<1>8. \A k \in g.builder : w.state[k] > Pending => v.state[k] > Pending
  BY <1>4, <1>7 DEF Pending, Executed
<1>9. \A k \in g.builder : v.implicit[k] = None \/ v.implicit[k] = w.implicit[k]
  BY <1>4, <1>7
<1>10. \A k \in g.builder : \A c \in g.builder \ g.present :
           c \notin Usable(w) /\ k \in w.waiting_parents[c] =>
             \/ c \notin Usable(v) /\ k \in v.waiting_parents[c]
             \/ v.implicit[k] = None \/ v.state[k] > Pending \/ v.stopped
  BY <1>4, <1>7 DEF Usable
<1>11. Fresh(g, v)
  BY <1>1, <1>4, <1>8, <1>9, <1>10, FreshKept
<1>12. Rise(g, w, v, G, T)
  <2>1. Deps(g, T) \subseteq Usable(w) /\ \A U \in G : t \notin U
    BY <1>1 DEF Held
  <2> HIDE DEF G
  <2> QED BY <1>4, <2>1 DEF Rise
<1>14. /\ Steady(g, v, B, G) /\ Usable(v) = Usable(w) \cup T
       /\ \A U \in G : \A m \in U : v.state[m] = w.state[m]
  <2> HIDE DEF G
  <2>1. Steady(g, w, B, G) /\ IsTask(g, T)
    BY <1>1, <1>3 DEF IsTask, Known
  <2> QED BY <1>3, <1>5, <1>6, <1>11, <1>12, <2>1, GroupRises
<1>15. Held(g, v, T)
  <2>1. /\ Deps(g, T) \subseteq Usable(w)
        /\ w.stopped \/ \A s \in SideEffects(g, T) : w.state[s] = Executing
    BY <1>1 DEF Held
  <2>2. \A s \in SideEffects(g, T) : s \in Node /\ s # t
    <3>2. SideEffects(g, T) \subseteq SideEffects(g, Node)
          /\ SideEffects(g, Node) \in SUBSET Node
      BY <1>3, SideEffectsType
    <3> QED BY <1>3, <3>2, WrittenFacts
  <2>3. v.stopped \/ \A s \in SideEffects(g, T) : v.state[s] = Executing
    BY <1>4, <2>1, <2>2
  <2>4. v.state[t] = Executed
    BY <1>3, <1>4
  <2> QED BY <1>14, <2>1, <2>3, <2>4 DEF Held
<1>16. Steady(g, v, B, F)
  BY <1>14, <1>15 DEF Steady
<1>17. v.state[t] = Executed
  BY <1>3, <1>4
<1> QED BY <1>14, <1>16, <1>17 DEF v


\* What making a task ready leaves alone.
LEMMA ReadyFields ==
  ASSUME NEW g \in Builds, NEW w \in WalkType, NEW T \in SUBSET Node,
         NEW x, x = w \/ x = FoundCurrent(g, w, T) \/ x = Started(g, w, T)
  PROVE  /\ x.waiting_parents = w.waiting_parents /\ x.waiting_s_e = w.waiting_s_e
         /\ x.implicit = w.implicit /\ x.candidates = w.candidates
         /\ x.top_targets_left = w.top_targets_left /\ x.current_top = w.current_top
         /\ x.stopped = w.stopped /\ x.ref_count = w.ref_count /\ x \in WalkType
         /\ \A m \in Node : \/ m \in T \/ x.state[m] = w.state[m]
                            \/ m \in SideEffects(g, T) /\ x.state[m] = Executing
<1>1. CASE x = w
  BY <1>1
<1>2. CASE x = FoundCurrent(g, w, T)
  <2> DEFINE X == [m \in Node |-> IF m \in T THEN UpToDate ELSE w.state[m]]
  <2>1. x = [w EXCEPT !.state = X]
    BY <1>2 DEF FoundCurrent, MakeReady, WalkType
  <2>2. X \in [Node -> NodeState] /\ \A m \in Node : m \in T \/ X[m] = w.state[m]
    BY StateValues DEF WalkType
  <2> HIDE DEF X
  <2> QED BY <2>1, <2>2 DEF WalkType
<1>3. CASE x = Started(g, w, T)
  <2> DEFINE X == [m \in Node |-> IF m \in T THEN Executing
                                  ELSE IF m \in SideEffects(g, T) THEN Executing
                                  ELSE w.state[m]]
  <2>1. x = [w EXCEPT !.state = X]
    BY <1>3 DEF Started, MakeReady, WalkType
  <2>2. X \in [Node -> NodeState]
        /\ \A m \in Node : \/ m \in T \/ X[m] = w.state[m]
                           \/ m \in SideEffects(g, T) /\ X[m] = Executing
    BY StateValues DEF WalkType
  <2> HIDE DEF X
  <2> QED BY <2>1, <2>2 DEF WalkType
<1> QED BY <1>1, <1>2, <1>3

\* Whoever fails before its command was only looked at, or made ready.
LEMMA PreparedMayFail ==
  ASSUME NEW g \in Builds, WrittenOnly(g), NEW w, NEW B, NEW F, Steady(g, w, B, F),
         NEW n \in Node, NEW T, T = g.targets[n], ~(w.state[n] > Pending),
         \A s \in SideEffects(g, T) : w.state[s] # Executing,
         NEW x, x = w \/ x = FoundCurrent(g, w, T) \/ x = Started(g, w, T)
  PROVE  Sound(g, x) /\ MayFail(g, w, x, F, T)
<1>1. Sound(g, w) /\ w \in WalkType /\ \A U \in F : Held(g, w, U)
  BY DEF Steady, Sound
<1>2. T \in SUBSET Node
  BY TargetsFacts
<1>3. /\ x.waiting_parents = w.waiting_parents /\ x.waiting_s_e = w.waiting_s_e
      /\ x.implicit = w.implicit /\ x.candidates = w.candidates
      /\ x.top_targets_left = w.top_targets_left /\ x.current_top = w.current_top
      /\ x.stopped = w.stopped /\ x.ref_count = w.ref_count /\ x \in WalkType
      /\ \A m \in Node : \/ m \in T \/ x.state[m] = w.state[m]
                         \/ m \in SideEffects(g, T) /\ x.state[m] = Executing
  BY <1>1, <1>2, ReadyFields
<1>4. Sound(g, x)
  BY <1>1, <1>3, SameCounts
<1>5. \A t \in T : t \notin Usable(w) /\ \A U \in F : t \notin U
  BY CandidateFree
<1>6. w.stopped \/ \A U \in F : SideEffects(g, T) \cap SideEffects(g, U) = {}
  BY <1>1 DEF Held
<1> QED BY <1>3, <1>4, <1>5, <1>6 DEF MayFail

-----------------------------------------------------------------------------
(* Where every node is that still has to be dealt with.                    *)

\* What the build has to make, and what is in hand: the candidates, and nodes
\* that failed.
Needed(g) == Below(g, Goals(g))
On(w) == Range(w.candidates)
FailedOf(w) == {n \in Node : w.state[n] = Failed}

\* The walk stays below the goals.
Reached(g, w) ==
  /\ On(w) \subseteq Needed(g) /\ w.pending_children \subseteq Needed(g)
  /\ Range(w.top_targets_left) \subseteq Range(g.top)
  /\ \A c \in Node : /\ w.waiting_parents[c] \subseteq Needed(g)
                     /\ w.waiting_s_e[c] \subseteq Needed(g)

\* X are the nodes the main thread has in hand.  Who is waited for, and is not
\* visited, is a candidate; so is every top target that was taken.
Met(g, w, X) ==
  /\ \A c \in Node :
       /\ w.state[c] = NoState /\ w.waiting_parents[c] # {} => c \in On(w) \cup X
       /\ \A p \in w.waiting_parents[c] : w.state[p] # NoState
  /\ ~w.stopped => \A t \in Range(g.top) :
       w.state[t] = NoState => t \in On(w) \cup Range(w.top_targets_left) \cup X

\* A node that is not put back when a task ends: with -k one that depends on a
\* node that failed; when the build stops, one that waits for a side effect.
Lost(g, w, n) ==
  \/ g.on_error = "keep" /\ FailedOf(w) \cap Deps(g, {n}) # {}
  \/ /\ g.on_error = "stop" /\ FailedOf(w) # {}
     /\ \E s \in SideEffects(g, Node) : n \in w.waiting_s_e[s]

\* Every other pending node is a candidate, waits for a node, or for a side
\* effect of a task of F that was handed out.
Remembered(g, w, F, X) ==
  \A n \in Node : w.state[n] = Pending /\ (w.stopped => w.waiting_parents[n] # {}) =>
    \/ n \in On(w) \cup X \/ WaitsFor(w, n) # {}
    \/ \E T \in F : \E s \in SideEffects(g, T) : n \in w.waiting_s_e[s]
    \/ Lost(g, w, n)

\* What is executing is a target or a side effect of a task that was handed out,
\* and who is waited for will be dealt with or failed.
Moving(g, w, F) ==
  /\ \A n \in Node : w.state[n] = Executing =>
       \/ \E T \in F : n \in T
       \/ /\ n \in SideEffects(g, Node)
          /\ w.stopped \/ \E T \in F : n \in SideEffects(g, T)
  /\ \A c \in Node : w.waiting_parents[c] # {} =>
       w.state[c] \in {NoState, Pending, Executing, Failed} \/ \E T \in F : c \in T

\* A node that failed did so with its command, or because of what it depends on.
Blamed(g, w) ==
  /\ \A n \in FailedOf(w) : g.targets[n] \subseteq FailedOf(w) \/ Deps(g, {n}) \cap FailedOf(w) # {}
  /\ g.on_error = "ignore" => FailedOf(w) = {}
  /\ g.on_error = "stop" => \A n \in FailedOf(w) : w.stopped /\ w.waiting_parents[n] = {}

Awaited(w) == \A c \in w.pending_children : w.waiting_parents[c] # {}

\* Nodes that are pending cannot all wait for one another, unless one of those
\* waited for was noted as a pending child.
Acyclic(w) ==
  ~w.stopped => \A S \in SUBSET {n \in Node : w.state[n] = Pending} :
    S # {} => \E n \in S : \A c \in S \ w.pending_children : n \notin w.waiting_parents[c]

Track(g, w, F, X) ==
  /\ Reached(g, w) /\ Met(g, w, X) /\ Remembered(g, w, F, X) /\ Moving(g, w, F)
  /\ Blamed(g, w) /\ Awaited(w) /\ Acyclic(w)

-----------------------------------------------------------------------------
(* What lies below a set of nodes.                                         *)

\* It is the least set that is closed.
LEMMA BelowFacts ==
  ASSUME NEW g \in Builds, NEW N \in SUBSET Node
  PROVE  /\ Below(g, N) \in SUBSET Node /\ N \subseteq Below(g, N)
         /\ \A n \in Below(g, N) : Deps(g, {n}) \subseteq Below(g, N)
         /\ \A S \in SUBSET Node : N \subseteq S /\ (\A n \in S : Deps(g, {n}) \subseteq S)
                                     => Below(g, N) \subseteq S
<1>1. \A n \in Node : Deps(g, {n}) \subseteq Node
  BY DepsFacts, AskedFacts, BuildType
<1>2. \A S \in SUBSET Node : \A d : d \in Deps(g, S) <=> \E n \in S : d \in Deps(g, {n})
  BY DEF Deps
<1>3. ASSUME NEW n \in Below(g, N), NEW d \in Deps(g, {n})
      PROVE  d \in Below(g, N)
  <2>1. n \in Node /\ d \in Node
    BY <1>1 DEF Below
  <2>2. ASSUME NEW S \in SUBSET Node, N \cup Deps(g, S) \subseteq S
        PROVE  d \in S
    <3>1. n \in S
      BY <2>2 DEF Below
    <3> QED BY <1>2, <2>2, <3>1
  <2> QED BY <2>1, <2>2 DEF Below
<1>4. ASSUME NEW S \in SUBSET Node, N \subseteq S, \A n \in S : Deps(g, {n}) \subseteq S
      PROVE  Below(g, N) \subseteq S
  <2>1. Deps(g, S) \subseteq S
    BY <1>2, <1>4
  <2> QED BY <1>4, <2>1 DEF Below
<1>5. Below(g, N) \in SUBSET Node /\ N \subseteq Below(g, N)
  BY DEF Below
<1> QED BY <1>3, <1>4, <1>5

\* What has to be made has the goals and all that they depend on.
LEMMA NeededFacts ==
  ASSUME NEW g \in Builds
  PROVE  /\ Needed(g) \in SUBSET Node
         /\ \A t \in Range(g.top) : t \in Needed(g) /\ g.alt[t] \subseteq Needed(g)
         /\ \A n \in Needed(g) : Deps(g, {n}) \subseteq Needed(g)
         /\ Range(g.top) \subseteq Asked(g) /\ Needed(g) \subseteq Asked(g)
<1>1. Goals(g) \in SUBSET Node
  BY BuildType DEF Goals
<1>2. Range(g.top) = {g.top[i] : i \in DOMAIN g.top}
  BY DEF Range
<1>3. \A t \in Range(g.top) : t \in Goals(g) /\ g.alt[t] \subseteq Goals(g)
  BY <1>2 DEF Goals
<1>4. Range(g.top) \subseteq Asked(g)
  BY <1>2 DEF Asked
<1>5. Goals(g) \subseteq Asked(g)
  <2>1. Goals(g) = Range(g.top) \cup UNION {g.alt[t] : t \in Range(g.top)}
    BY <1>2 DEF Goals
  <2>2. \A t \in Range(g.top) : g.alt[t] \subseteq Asked(g)
    BY <1>4, AskedFacts
  <2> QED BY <1>4, <2>1, <2>2
<1>6. Needed(g) \subseteq Asked(g)
  <2>1. Asked(g) \in SUBSET Node /\ \A n \in Asked(g) : Deps(g, {n}) \subseteq Asked(g)
    <3>1. Deps(g, Node) \subseteq Asked(g) /\ Asked(g) \in SUBSET Node
      BY AskedFacts
    <3>2. \A n \in Node : Deps(g, {n}) \subseteq Deps(g, Node)
      BY DepsFacts
    <3> QED BY <3>1, <3>2
  <2> QED BY <1>1, <1>5, <2>1, BelowFacts DEF Needed
<1> QED BY <1>1, <1>3, <1>4, <1>6, BelowFacts DEF Needed

\* What one node depends on.
LEMMA DepsOfNode ==
  ASSUME NEW g \in Builds, NEW n \in Node
  PROVE  Deps(g, {n}) = g.children[n] \cup Revealed(g, n)
BY DEF Deps, Revealed

-----------------------------------------------------------------------------
(* The elements of stacks.                                                 *)

\* The elements of a sequence with an end, and of one that is put on another.
LEMMA EndElements ==
  ASSUME NEW A, NEW s \in Seq(A), s # <<>>
  PROVE  Range(s) = Range(Front(s)) \cup {Last(s)} /\ Range(s) \subseteq A
<1>0. Len(s) \in Nat /\ Len(s) > 0 /\ Last(s) = s[Len(s)] /\ Front(s) \in Seq(A)
  BY DEF Last, Front
<1>1. /\ Len(Front(s)) = Len(s) - 1
      /\ \A i \in 1 .. Len(s) - 1 : Front(s)[i] = s[i]
  <2> DEFINE m == Len(s) - 1
             f == SubSeq(s, 1, m)
  <2>1. m \in Nat /\ \A i \in 1 .. m : s[i] \in A
    BY <1>0
  <2> HIDE DEF m
  <2>2. /\ Len(f) = IF 1 <= m THEN m - 1 + 1 ELSE 0
        /\ \A i \in 1 .. m - 1 + 1 : f[i] = s[1 + i - 1]
    BY <2>1, SubSeqProperties
  <2> HIDE DEF f
  <2>3. m - 1 + 1 = m /\ \A i \in 1 .. m : 1 + i - 1 = i
    BY <2>1
  <2>4. \A i \in 1 .. m : f[i] = s[i]
    BY <2>2, <2>3
  <2>5. Len(f) = m
    BY <2>1, <2>2
  <2> QED BY <2>4, <2>5 DEF Front, f, m
<1>2. \A q \in Seq(A) : Range(q) = {q[i] : i \in 1 .. Len(q)}
  BY DEF Range
<1>3. \A x : x \in Range(s) <=> \E i \in 1 .. Len(s) : x = s[i]
  BY <1>2
<1>4. \A x : x \in Range(Front(s)) <=> \E i \in 1 .. Len(s) - 1 : x = s[i]
  BY <1>0, <1>1, <1>2
<1>5. \A i \in 1 .. Len(s) : i = Len(s) \/ i \in 1 .. Len(s) - 1
  BY <1>0
<1>6. Len(s) \in 1 .. Len(s) /\ \A i \in 1 .. Len(s) - 1 : i \in 1 .. Len(s)
  BY <1>0
<1>7. \A x : x \in Range(s) <=> x \in Range(Front(s)) \/ x = Last(s)
  BY <1>0, <1>3, <1>4, <1>5, <1>6
<1>8. Range(s) \subseteq A
  BY <1>2
<1> QED BY <1>7, <1>8

\* Those of two sequences.
LEMMA JoinedElements ==
  ASSUME NEW A, NEW s \in Seq(A), NEW q \in Seq(A)
  PROVE  Range(s \o q) = Range(s) \cup Range(q)
<1> DEFINE c == s \o q
<1>1. \A r \in Seq(A) : \A x : x \in Range(r) <=> \E i \in 1 .. Len(r) : x = r[i]
  BY DEF Range
<1>2. /\ c \in Seq(A) /\ Len(s) \in Nat /\ Len(q) \in Nat
      /\ Len(c) = Len(s) + Len(q)
      /\ \A i \in 1 .. Len(s) + Len(q) :
           c[i] = IF i <= Len(s) THEN s[i] ELSE q[i - Len(s)]
  OBVIOUS
<1> HIDE DEF c
<1>3. ASSUME NEW x \in Range(s) PROVE x \in Range(c)
  <2>1. PICK i \in 1 .. Len(s) : x = s[i]
    BY <1>1
  <2>2. i \in 1 .. Len(c) /\ c[i] = x
    BY <1>2, <2>1
  <2> QED BY <1>1, <1>2, <2>2
<1>4. ASSUME NEW x \in Range(q) PROVE x \in Range(c)
  <2>1. PICK i \in 1 .. Len(q) : x = q[i]
    BY <1>1
  <2> DEFINE j == i + Len(s)
  <2>a. j \in 1 .. Len(s) + Len(q) /\ ~(j <= Len(s)) /\ j - Len(s) = i
    BY <1>2, <2>1
  <2>b. c[j] = q[j - Len(s)]
    BY <1>2, <2>a
  <2>2. j \in 1 .. Len(c) /\ c[j] = x
    BY <1>2, <2>1, <2>a, <2>b
  <2> HIDE DEF j
  <2>3. \E k \in 1 .. Len(c) : x = c[k]
    BY <2>2
  <2> QED BY <1>1, <1>2, <2>3
<1>5. ASSUME NEW x \in Range(c) PROVE x \in Range(s) \cup Range(q)
  <2>1. PICK i \in 1 .. Len(s) + Len(q) : x = c[i]
    BY <1>1, <1>2
  <2>2. CASE i <= Len(s)
    BY <1>1, <1>2, <2>1, <2>2
  <2>3. CASE ~(i <= Len(s))
    <3>1. i - Len(s) \in 1 .. Len(q) /\ x = q[i - Len(s)]
      BY <1>2, <2>1, <2>3
    <3> QED BY <1>1, <3>1
  <2> QED BY <2>2, <2>3
<1> QED BY <1>3, <1>4, <1>5 DEF c

\* A batch that is pushed in some order adds its elements.
LEMMA PushedElements ==
  ASSUME NEW stack \in Seq(Node), NEW S \in SUBSET Node, NEW q \in Pushed(stack, S)
  PROVE  q \in Seq(Node) /\ Range(q) = Range(stack) \cup S
<1> DEFINE D == 1 .. Cardinality(S)
<1>1. PICK r \in SetToSeqs(S) : q = stack \o r
  BY DEF Pushed
<1>2. /\ Cardinality(S) \in Nat /\ IsFiniteSet(S)
      /\ IsFiniteSet(D) /\ Cardinality(D) = Cardinality(S)
  BY NodesFinite, FS_Interval
<1>3. r \in [D -> S] /\ \A i, j \in D : i # j => r[i] # r[j]
  BY <1>1 DEF SetToSeqs
<1>4. r \in Injection(D, S)
  BY <1>3 DEF Injection, IsInjective
<1>5. r \in Surjection(D, S)
  BY <1>2, <1>4, FS_Injection
<1>6. r \in Seq(Node) /\ DOMAIN r = D
  BY <1>2, <1>3
<1>7. Range(r) = S
  BY <1>3, <1>5, <1>6 DEF Range, Surjection
<1>8. q \in Seq(Node)
  BY <1>1, <1>6
<1> QED BY <1>1, <1>6, <1>7, <1>8, JoinedElements

\* The next candidate is the last of the stack, or comes with the nodes that the
\* next top target wants first; nothing is dropped.
LEMMA NextCandidateElements ==
  ASSUME NEW g \in Builds, NEW w \in WalkType, NEW c \in NextCandidate(g, w)
  PROVE  /\ c.walk.pending_children = w.pending_children
         /\ On(w) \subseteq On(c.walk) \cup {c.node}
         /\ Range(w.top_targets_left)
              \subseteq On(c.walk) \cup Range(c.walk.top_targets_left) \cup {c.node}
         /\ Range(c.walk.top_targets_left) \subseteq Range(w.top_targets_left)
         /\ \/ On(c.walk) \cup {c.node} \subseteq On(w)
            \/ \E t \in Range(w.top_targets_left) :
                 On(c.walk) \cup {c.node} \subseteq {t} \cup g.alt[t]
<1>0. /\ Range(<<>>) = {} /\ \A t : Range(<<t>>) = {t}
      /\ w.candidates \in Seq(Node) /\ w.top_targets_left \in Seq(Node)
  <2>1. Range(<<>>) = {}
    BY DEF Range
  <2>2. \A t : Range(<<t>>) = {t}
    BY DEF Range
  <2> QED BY <2>1, <2>2 DEF WalkType
<1>2. CASE w.candidates # <<>>
  <2>1. c.node = Last(w.candidates) /\ c.walk = [w EXCEPT !.candidates = Front(@)]
    BY <1>2 DEF NextCandidate, Popped
  <2>2. Range(w.candidates) = Range(Front(w.candidates)) \cup {Last(w.candidates)}
    BY <1>0, <1>2, EndElements
  <2>3. /\ c.walk.pending_children = w.pending_children
        /\ c.walk.top_targets_left = w.top_targets_left
        /\ c.walk.candidates = Front(w.candidates)
    BY <2>1 DEF WalkType
  <2> QED BY <2>1, <2>2, <2>3 DEF On
<1>3. CASE w.candidates = <<>>
  <2> DEFINE t == Last(w.top_targets_left)
             v == [w EXCEPT !.top_targets_left = Front(@), !.current_top = t]
  <2>1. w.top_targets_left # <<>> /\ c \in PoppedTop(g, w)
    BY <1>3 DEF NextCandidate
  <2>2. t \in Node /\ On(w) = {}
        /\ Range(w.top_targets_left) = Range(Front(w.top_targets_left)) \cup {t}
    BY <1>0, <1>3, <2>1, EndElements, PopType DEF On
  <2>3. /\ v.pending_children = w.pending_children /\ v.candidates = w.candidates
        /\ v.top_targets_left = Front(w.top_targets_left)
    BY DEF WalkType
  <2>t. v \in WalkType
    BY <1>0, <2>1, <2>2, PopType DEF WalkType
  <2>4. CASE g.alt[t] = {}
    <3>1. c.node = t /\ c.walk = v
      BY <2>1, <2>4 DEF PoppedTop
    <3>2. On(c.walk) = {}
      <4>1. c.walk.candidates = <<>>
        BY <1>3, <2>3, <3>1
      <4> QED BY <1>0, <4>1 DEF On
    <3>3. Range(c.walk.top_targets_left) = Range(Front(w.top_targets_left))
      BY <2>3, <3>1
    <3> HIDE DEF v, t
    <3> QED BY <2>2, <2>3, <3>1, <3>2, <3>3
  <2>5. CASE g.alt[t] # {}
    <3>0. c \in {[node |-> Last(q), walk |-> [v EXCEPT !.candidates = Front(q)]]
                   : q \in Pushed(<<t>>, g.alt[t])}
      BY <2>1, <2>5 DEF PoppedTop
    <3> HIDE DEF v, t
    <3>1. PICK q \in Pushed(<<t>>, g.alt[t]) :
            c.node = Last(q) /\ c.walk = [v EXCEPT !.candidates = Front(q)]
      BY <3>0
    <3>2. g.alt[t] \in SUBSET Node
      <4>1. g.alt \in [Node -> SUBSET Node] /\ t \in Node
        BY <2>2, BuildType
      <4> QED BY <4>1
    <3>8. <<t>> \in Seq(Node)
      BY <2>2
    <3>3. q \in Seq(Node) /\ Range(q) = {t} \cup g.alt[t]
      <4>1. PICK s, A : s = <<t>> /\ A = g.alt[t]
        OBVIOUS
      <4>2. q \in Pushed(s, A) /\ s \in Seq(Node) /\ A \in SUBSET Node
        BY <3>2, <3>8, <4>1
      <4>3. q \in Seq(Node) /\ Range(q) = Range(s) \cup A
        BY <4>2, PushedElements
      <4> QED BY <1>0, <4>1, <4>3
    <3>4. q # <<>>
      BY <1>0, <3>3
    <3>5. Range(q) = Range(Front(q)) \cup {Last(q)}
      BY <3>3, <3>4, EndElements
    <3>6. /\ c.walk.pending_children = w.pending_children /\ c.walk.candidates = Front(q)
          /\ c.walk.top_targets_left = Front(w.top_targets_left)
      <4>1. c.walk.candidates = Front(q) /\ c.walk.pending_children = v.pending_children
            /\ c.walk.top_targets_left = v.top_targets_left
        BY <2>t, <3>1 DEF WalkType
      <4> QED BY <2>3, <4>1
    <3>7. On(c.walk) \cup {c.node} = {t} \cup g.alt[t]
      BY <3>1, <3>3, <3>5, <3>6 DEF On
    <3> QED BY <2>2, <3>6, <3>7
  <2> QED BY <2>4, <2>5
<1> QED BY <1>2, <1>3

\* What the other steps of a consideration, and of a task, do to the pending children.
LEMMA PendingKept ==
  ASSUME NEW g \in Builds, NEW w \in WalkType, NEW n \in Node
  PROVE  /\ Visited(w, n).pending_children = w.pending_children
         /\ \A Y : Looked(g, w, n, Y).pending_children = w.pending_children
         /\ ChildFailed(g, w, n).pending_children = w.pending_children
         /\ \A C : WaitForChildren(w, n, C).pending_children
                     = w.pending_children \cup {c \in C : w.state[c] = Pending}
         /\ \A S : WaitForSideEffects(w, n, S).pending_children = w.pending_children
         /\ \A T : /\ \A b : MakeReady(g, w, T, b).pending_children = w.pending_children
                   /\ ExecutedTask(g, w, T).pending_children = w.pending_children
         /\ \A t : Fetched(w, t).pending_children = w.pending_children
<1>1. Visited(w, n).pending_children = w.pending_children /\ Visited(w, n) \in WalkType
  <2>1. Visited(w, n) \in WalkType
    BY VisitedFields
  <2> QED BY <2>1 DEF Visited, WalkType
<1>2. \A Y : Looked(g, w, n, Y).pending_children = w.pending_children
  BY <1>1 DEF Looked, Scanned, WalkType
<1>3. ChildFailed(g, w, n).pending_children = w.pending_children
  BY DEF ChildFailed, WalkType
<1>4. \A C : WaitForChildren(w, n, C).pending_children
                     = w.pending_children \cup {c \in C : w.state[c] = Pending}
  BY DEF WaitForChildren, WalkType
<1>5. \A S : WaitForSideEffects(w, n, S).pending_children = w.pending_children
  BY DEF WaitForSideEffects, WalkType
<1>6. \A T, b : MakeReady(g, w, T, b).pending_children = w.pending_children
  BY DEF MakeReady, WalkType
<1>7. \A T : ExecutedTask(g, w, T).pending_children = w.pending_children
  BY DEF ExecutedTask, WalkType
<1>8. \A t : Fetched(w, t).pending_children = w.pending_children
  BY DEF Fetched, Built, Rescan, WalkType
<1> QED BY <1>1, <1>2, <1>3, <1>4, <1>5, <1>6, <1>7, <1>8

\* When a build has stopped, all candidates and who waits for them are dropped.
LEMMA FlushFields ==
  ASSUME NEW w \in WalkType
  PROVE  LET v == Flush(w)
             V == Waiters(w, On(w))
         IN /\ v.state = w.state /\ v.candidates = <<>> /\ On(v) = {}
            /\ On(w) \in SUBSET Node
            /\ \A n \in Node :
                 v.waiting_parents[n] = IF n \in V THEN {} ELSE w.waiting_parents[n]
            /\ v.pending_children = w.pending_children \ V
            /\ v.waiting_s_e = w.waiting_s_e /\ v.stopped = w.stopped
            /\ v.top_targets_left = w.top_targets_left
<1> DEFINE u == WillNotBuild(w, On(w), FALSE)
           v == Flush(w)
<1>1. On(w) \in SUBSET Node /\ Range(<<>>) = {}
  <2>1. w.candidates \in Seq(Node)
    BY DEF WalkType
  <2> QED BY <2>1 DEF On, Range
<1>2. /\ u \in WalkType
      /\ \A n \in Node : u.state[n] = w.state[n]
      /\ \A n \in Node : u.waiting_parents[n] = IF n \in Waiters(w, On(w)) THEN {}
                                                ELSE w.waiting_parents[n]
      /\ u.pending_children = w.pending_children \ Waiters(w, On(w))
      /\ u.waiting_s_e = w.waiting_s_e /\ u.stopped = w.stopped
      /\ u.top_targets_left = w.top_targets_left
  BY <1>1, WillNotBuildFields
<1>3. v = [u EXCEPT !.candidates = <<>>]
  BY DEF Flush, On
<1> HIDE DEF u, v
<1>4. u.state = w.state
  BY <1>2 DEF WalkType
<1>5. /\ v.state = u.state /\ v.candidates = <<>> /\ v.waiting_parents = u.waiting_parents
      /\ v.pending_children = u.pending_children /\ v.waiting_s_e = u.waiting_s_e
      /\ v.stopped = u.stopped /\ v.top_targets_left = u.top_targets_left
  BY <1>2, <1>3 DEF WalkType
<1>6. On(v) = {}
  BY <1>1, <1>5 DEF On
<1> QED BY <1>1, <1>2, <1>4, <1>5, <1>6 DEF v

\* After a task, on the stack is also who waited for it alone, and who waited
\* for one of its side effects.
LEMMA PostprocessElements ==
  ASSUME NEW g \in Builds, WrittenOnly(g), NEW w, Sound(g, w), NEW T \in SUBSET Node,
         NEW v \in Postprocess(g, w, T)
  PROVE  /\ v.pending_children = w.pending_children \ {t \in T : w.waiting_parents[t] # {}}
         /\ On(w) \subseteq On(v)
         /\ \A n \in Node : WaitsFor(w, n) # {} => WaitsFor(v, n) # {} \/ n \in On(v)
         /\ \A n \in Node : \A s \in SideEffects(g, T) :
              n \in w.waiting_s_e[s] /\ WaitsFor(w, n) = {} => n \in On(v)
<1> DEFINE held == {s \in SideEffects(g, T) : w.state[s] = Executing}
           sharing == SharedWith(g, w, T)
           ofT(p) == Cardinality({t \in T : p \in w.waiting_parents[t]})
           ofHeld(p) == Cardinality({s \in held : p \in w.waiting_parents[s]})
           less(p) == ofT(p) + ofHeld(p)
           rest == [p \in Node |-> w.ref_count[p] - less(p)]
           freed == {p \in Node : less(p) > 0 /\ rest[p] = 0}
           S == [n \in Node |-> IF n \in held THEN NoState ELSE w.state[n]]
           W == [n \in Node |-> IF n \in T THEN {} ELSE w.waiting_parents[n]]
           P == w.pending_children \ {t \in T : w.waiting_parents[t] # {}}
           u == [w EXCEPT !.state = S, !.pending_children = P, !.ref_count = rest,
                          !.waiting_parents = W]
<1>1. /\ w \in WalkType /\ SideEffects(g, T) \in SUBSET Node
      /\ w.candidates \in Seq(Node)
      /\ SideEffects(g, T) \subseteq SideEffects(g, Node)
  BY SideEffectsType DEF Sound, WalkType
<1>2. PICK q \in UNION {Pushed(c, freed) : c \in Pushed(w.candidates, sharing)} :
        v = [u EXCEPT !.candidates = q]
  BY <1>1 DEF Postprocess, WalkType
<1>3. PICK c \in Pushed(w.candidates, sharing) : q \in Pushed(c, freed)
  BY <1>2
<1>4. /\ Sound(g, v)
      /\ \A n \in Node : v.waiting_parents[n] = IF n \in T THEN {} ELSE w.waiting_parents[n]
  BY PostprocessFields
<1>5. \A p \in Node : ofT(p) \in Nat /\ ofHeld(p) \in Nat
  <2> TAKE p \in Node
  <2>1. {t \in T : p \in w.waiting_parents[t]} \in SUBSET Node
        /\ {s \in held : p \in w.waiting_parents[s]} \in SUBSET Node
    BY <1>1
  <2> QED BY <2>1, NodesFinite
<1>6. \A p \in Node : rest[p] = w.ref_count[p] - less(p)
  OBVIOUS
<1>7. /\ \A p \in sharing : \E s \in SideEffects(g, T) : p \in w.waiting_s_e[s]
      /\ \A p, s : s \in SideEffects(g, T) /\ p \in w.waiting_s_e[s] /\ w.ref_count[p] = 0
                     => p \in sharing
  BY DEF SharedWith
<1>8. sharing \in SUBSET Node
  BY <1>1, <1>7 DEF WalkType
<1>9. freed \in SUBSET Node
  OBVIOUS
<1>10. \A p \in Node : less(p) > 0 /\ rest[p] = 0 => p \in freed
  OBVIOUS
<1>11. v.pending_children = P /\ v.candidates = q /\ v.ref_count = rest
  <2>1. /\ u.pending_children = P /\ u.ref_count = rest
        /\ DOMAIN u = DOMAIN w
    BY <1>1 DEF WalkType
  <2> HIDE DEF u, P, rest
  <2>2. /\ "pending_children" \in DOMAIN u /\ "candidates" \in DOMAIN u
        /\ "ref_count" \in DOMAIN u
    BY <1>1, <2>1 DEF WalkType
  <2> QED BY <1>2, <2>1, <2>2
<1>12. \A p \in Node : w.ref_count[p] = Cardinality(WaitsFor(w, p))
                       /\ v.ref_count[p] = Cardinality(WaitsFor(v, p))
  BY <1>4 DEF Sound, Counted
<1> HIDE DEF sharing, less, rest, freed, S, W, u
<1>13. c \in Seq(Node) /\ Range(c) = Range(w.candidates) \cup sharing
  BY <1>1, <1>3, <1>8, PushedElements
<1>14. Range(q) = Range(w.candidates) \cup sharing \cup freed
  BY <1>3, <1>9, <1>13, PushedElements
<1>15. On(v) = On(w) \cup sharing \cup freed
  BY <1>11, <1>14 DEF On
<1>16. ASSUME NEW n \in Node, NEW s \in SideEffects(g, T), n \in w.waiting_s_e[s],
              WaitsFor(w, n) = {}
       PROVE  n \in On(v)
  <2>1. w.ref_count[n] = 0
    BY <1>12, <1>16, FS_EmptySet
  <2> QED BY <1>7, <1>15, <1>16, <2>1
<1>17. ASSUME NEW n \in Node, WaitsFor(w, n) # {}, WaitsFor(v, n) = {}
       PROVE  n \in On(v)
  <2>1. v.ref_count[n] = 0
    BY <1>12, <1>17, FS_EmptySet
  <2>2. PICK t \in Node : n \in w.waiting_parents[t]
    BY <1>17 DEF WaitsFor
  <2>3. t \in T
    BY <1>4, <1>17, <2>2 DEF WaitsFor
  <2>4. {m \in T : n \in w.waiting_parents[m]} # {}
        /\ {m \in T : n \in w.waiting_parents[m]} \in SUBSET Node
    BY <2>2, <2>3
  <2>5. ofT(n) # 0
    BY <2>4, NodesFinite, FS_EmptySet
  <2>6. less(n) > 0
    <3>1. less(n) = ofT(n) + ofHeld(n) /\ ofT(n) \in Nat /\ ofHeld(n) \in Nat
      BY <1>5 DEF less
    <3> HIDE DEF ofT, ofHeld
    <3> QED BY <2>5, <3>1
  <2>7. n \in freed
    BY <1>10, <1>11, <2>1, <2>6
  <2> QED BY <1>15, <2>7
<1> QED BY <1>11, <1>15, <1>16, <1>17

\* Who has to wait for N is in N or waits for a node that has to.
LEMMA WaitersReason ==
  ASSUME NEW w \in WalkType, NEW N \in SUBSET Node, NEW n \in Waiters(w, N)
  PROVE  n \in N \/ \E m \in Waiters(w, N) : n \in w.waiting_parents[m]
<1> DEFINE V == Waiters(w, N)
           S == {p \in V : p \in N \/ \E m \in V : p \in w.waiting_parents[m]}
<1>1. /\ V \in SUBSET Node /\ N \subseteq V
      /\ \A m \in V : w.waiting_parents[m] \subseteq V
      /\ \A A \in SUBSET Node :
           N \subseteq A /\ (\A m \in A : w.waiting_parents[m] \subseteq A) => V \subseteq A
  BY WaitersFacts
<1> HIDE DEF V
<1>2. S \in SUBSET Node /\ N \subseteq S
  BY <1>1
<1>3. \A m \in S : w.waiting_parents[m] \subseteq S
  BY <1>1
<1>4. V \subseteq S
  BY <1>1, <1>2, <1>3
<1>5. n \in S
  BY <1>4 DEF V
<1> QED BY <1>5 DEF V

-----------------------------------------------------------------------------
(* Nothing is forgotten while candidates are considered.                   *)

\* More tasks in hand, or more nodes, only excuse more.
LEMMA TrackMore ==
  ASSUME NEW g \in Builds, NEW w, NEW F, NEW X, Track(g, w, F, X),
         NEW G, F \subseteq G, NEW Y, X \subseteq Y
  PROVE  Track(g, w, G, Y)
<1>1. Met(g, w, Y)
  BY DEF Track, Met
<1>2. Remembered(g, w, G, Y)
  BY DEF Track, Remembered
<1>3. Moving(g, w, G)
  BY DEF Track, Moving
<1> QED BY <1>1, <1>2, <1>3 DEF Track

\* A node in hand that was dealt with can be put down.
LEMMA TrackPutDown ==
  ASSUME NEW g \in Builds, NEW w \in WalkType, NEW F, NEW n \in Node, Track(g, w, F, {n}),
         w.state[n] > Pending
  PROVE  Track(g, w, F, {})
<1>1. w.state[n] # NoState /\ w.state[n] # Pending
  BY DEF NoState, Pending
<1>2. Met(g, w, {})
  BY <1>1 DEF Track, Met
<1>3. Remembered(g, w, F, {})
  BY <1>1 DEF Track, Remembered
<1> QED BY <1>2, <1>3 DEF Track

\* What Remembered and Moving say does not depend on the stacks' order.
LEMMA NextCandidateTrack ==
  ASSUME NEW g \in Builds, NEW w, Sound(g, w), NEW F, Track(g, w, F, {}),
         NEW c \in NextCandidate(g, w)
  PROVE  Track(g, c.walk, F, {c.node}) /\ c.node \in Needed(g)
<1> DEFINE v == c.walk
           n == c.node
<1>1. /\ v.state = w.state /\ v.waiting_parents = w.waiting_parents
      /\ v.waiting_s_e = w.waiting_s_e /\ v.stopped = w.stopped /\ n \in Node
  BY NextCandidateSound
<1>2. /\ v.pending_children = w.pending_children
      /\ On(w) \subseteq On(v) \cup {n}
      /\ Range(w.top_targets_left) \subseteq On(v) \cup Range(v.top_targets_left) \cup {n}
      /\ Range(v.top_targets_left) \subseteq Range(w.top_targets_left)
      /\ \/ On(v) \cup {n} \subseteq On(w)
         \/ \E t \in Range(w.top_targets_left) : On(v) \cup {n} \subseteq {t} \cup g.alt[t]
  BY NextCandidateElements DEF Sound
<1> HIDE DEF v, n
<1>3. On(v) \cup {n} \subseteq Needed(g)
  <2>1. Range(w.top_targets_left) \subseteq Range(g.top) /\ On(w) \subseteq Needed(g)
    BY DEF Track, Reached
  <2> QED BY <1>2, <2>1, NeededFacts
<1>4. Reached(g, v)
  BY <1>1, <1>2, <1>3 DEF Track, Reached
<1>5. Met(g, v, {n})
  BY <1>1, <1>2 DEF Track, Met
<1>6. Remembered(g, v, F, {n})
  <2>1. \A m \in Node : WaitsFor(v, m) = WaitsFor(w, m) /\ (Lost(g, v, m) <=> Lost(g, w, m))
    BY <1>1 DEF WaitsFor, Lost, FailedOf
  <2> QED BY <1>1, <1>2, <2>1 DEF Track, Remembered
<1>7. Moving(g, v, F) /\ Blamed(g, v) /\ Awaited(v) /\ Acyclic(v)
  <2>1. Moving(g, v, F) /\ Blamed(g, v)
    BY <1>1 DEF Track, Moving, Blamed, FailedOf
  <2>2. Awaited(v) /\ Acyclic(v)
    BY <1>1, <1>2 DEF Track, Awaited, Acyclic
  <2> QED BY <2>1, <2>2
<1>8. Track(g, v, F, {n})
  BY <1>4, <1>5, <1>6, <1>7 DEF Track
<1> QED BY <1>3, <1>8 DEF v, n

\* Visiting a node, also when it is scanned.
LEMMA VisitedTrack ==
  ASSUME NEW g \in Builds, NEW w \in WalkType, NEW F, NEW n \in Node,
         Track(g, w, F, {n}), ~(w.state[n] > Pending),
         NEW v,
         \A m \in Node : v.state[m] = IF m = n /\ w.state[m] = NoState THEN Pending
                                      ELSE w.state[m],
         v.waiting_parents = w.waiting_parents, v.waiting_s_e = w.waiting_s_e,
         v.candidates = w.candidates, v.stopped = w.stopped,
         v.top_targets_left = w.top_targets_left,
         v.pending_children = w.pending_children
  PROVE  Track(g, v, F, {n}) /\ v.state[n] = Pending
<1>1. v.state[n] = Pending
  BY DEF WalkType, NodeState, NoState, Pending
<1>2. /\ On(v) = On(w) /\ FailedOf(v) = FailedOf(w)
      /\ \A m \in Node : WaitsFor(v, m) = WaitsFor(w, m) /\ (Lost(g, v, m) <=> Lost(g, w, m))
  <2>1. On(v) = On(w)
    BY DEF On
  <2>2. \A m \in Node : v.state[m] = Failed <=> w.state[m] = Failed
    BY DEF NoState, Pending, Failed
  <2>3. FailedOf(v) = FailedOf(w)
    BY <2>2 DEF FailedOf
  <2> QED BY <2>1, <2>3 DEF WaitsFor, Lost
<1>3. Reached(g, v)
  BY <1>2 DEF Track, Reached
<1>4. Met(g, v, {n})
  <2>1. \A m \in Node : v.state[m] = NoState => w.state[m] = NoState
    BY DEF NoState, Pending
  <2>2. \A m \in Node : w.state[m] # NoState => v.state[m] # NoState
    BY DEF NoState, Pending
  <2>3. \A m \in Node : w.waiting_parents[m] \subseteq Node
    BY DEF WalkType
  <2>4. Range(g.top) \subseteq Node
    BY NeededFacts, AskedFacts
  <2> QED BY <1>2, <2>1, <2>2, <2>3, <2>4 DEF Track, Met
<1>5. Remembered(g, v, F, {n})
  BY <1>2 DEF Track, Remembered
<1>6. Moving(g, v, F)
  <2>1. \A m \in Node : v.state[m] = Executing => w.state[m] = Executing
    BY DEF Pending, Executing
  <2>2. \A m \in Node : w.state[m] \in {NoState, Pending, Executing, Failed}
          => v.state[m] \in {NoState, Pending, Executing, Failed}
    OBVIOUS
  <2> QED BY <2>1, <2>2 DEF Track, Moving
<1>7. Blamed(g, v) /\ Awaited(v)
  BY <1>2 DEF Track, Blamed, Awaited
<1>8. Acyclic(v)
  <2> SUFFICES ASSUME ~v.stopped, NEW S \in SUBSET {m \in Node : v.state[m] = Pending}, S # {}
               PROVE  \E e \in S : \A c \in S \ v.pending_children : e \notin v.waiting_parents[c]
    BY DEF Acyclic
  <2>1. CASE w.state[n] = NoState /\ n \in S
    <3>1. \A c \in Node : n \notin w.waiting_parents[c]
      BY <2>1 DEF Track, Met
    <3> QED BY <2>1, <3>1
  <2>2. CASE ~(w.state[n] = NoState /\ n \in S)
    <3>1. S \in SUBSET {m \in Node : w.state[m] = Pending}
      BY <2>2
    <3> QED BY <3>1 DEF Track, Acyclic
  <2> QED BY <2>1, <2>2
<1> QED BY <1>1, <1>3, <1>4, <1>5, <1>6, <1>7, <1>8 DEF Track

\* More candidates, from below the goals.
LEMMA PushedTrack ==
  ASSUME NEW g \in Builds, NEW w \in WalkType, NEW F, NEW X, Track(g, w, F, X),
         NEW A \in SUBSET Node, A \subseteq Needed(g), NEW q \in Pushed(w.candidates, A)
  PROVE  LET v == [w EXCEPT !.candidates = q] IN
         Track(g, v, F, X) /\ On(v) = On(w) \cup A
<1> DEFINE v == [w EXCEPT !.candidates = q]
<1>1. w.candidates \in Seq(Node)
  BY DEF WalkType
<1>2. q \in Seq(Node) /\ Range(q) = On(w) \cup A
  BY <1>1, PushedElements DEF On
<1>3. /\ v.state = w.state /\ v.waiting_parents = w.waiting_parents
      /\ v.waiting_s_e = w.waiting_s_e /\ v.stopped = w.stopped
      /\ v.pending_children = w.pending_children
      /\ v.top_targets_left = w.top_targets_left /\ v.candidates = q
  BY <1>2, StackFields
<1> HIDE DEF v
<1>4. /\ On(v) = On(w) \cup A /\ FailedOf(v) = FailedOf(w)
      /\ \A m \in Node : WaitsFor(v, m) = WaitsFor(w, m) /\ (Lost(g, v, m) <=> Lost(g, w, m))
  BY <1>2, <1>3 DEF On, FailedOf, WaitsFor, Lost
<1>5. Reached(g, v) /\ Met(g, v, X)
  BY <1>3, <1>4 DEF Track, Reached, Met
<1>6. Remembered(g, v, F, X)
  BY <1>3, <1>4 DEF Track, Remembered
<1>7. Moving(g, v, F) /\ Blamed(g, v)
  BY <1>3, <1>4 DEF Track, Moving, Blamed
<1>8. Awaited(v) /\ Acyclic(v)
  BY <1>3 DEF Track, Awaited, Acyclic
<1> QED BY <1>4, <1>5, <1>6, <1>7, <1>8 DEF Track, v

\* Only with -k does a candidate find a child that failed.
LEMMA OnlyKeepFails ==
  ASSUME NEW g \in Builds, NEW w, NEW F, NEW X, Track(g, w, F, X), ~w.stopped,
         FailedOf(w) # {}
  PROVE  g.on_error = "keep"
BY BuildType DEF Track, Blamed

\* The targets of a node fail with its child.
LEMMA ChildFailedTrack ==
  ASSUME NEW g \in Builds, NEW w \in WalkType, NEW F, NEW n \in Node,
         Track(g, w, F, {n}), ~w.stopped, w.state[n] = Pending,
         NEW c \in Deps(g, {n}), w.state[c] = Failed
  PROVE  Track(g, ChildFailed(g, w, n), F, {})
<1> DEFINE v == ChildFailed(g, w, n)
<1>1. PICK T : T = IF n \in g.builder THEN g.targets[n] ELSE {}
  OBVIOUS
<1>2. /\ \A t \in Node : v.state[t] = IF t \in T THEN Failed ELSE w.state[t]
      /\ v.waiting_parents = w.waiting_parents /\ v.waiting_s_e = w.waiting_s_e
      /\ v.candidates = w.candidates /\ v.stopped = w.stopped
      /\ v.top_targets_left = w.top_targets_left
      /\ v.pending_children = w.pending_children
  BY <1>1, ChildFailedFields, PendingKept
<1>3. c \in Node /\ c \in FailedOf(w)
  <2>1. Deps(g, {n}) \subseteq Node
    BY DepsFacts, AskedFacts
  <2> QED BY <2>1 DEF FailedOf
<1>4. g.on_error = "keep"
  BY <1>3, OnlyKeepFails
<1>5. T \in SUBSET Node /\ \A t \in T : c \in Deps(g, {t}) /\ g.targets[t] = g.targets[n]
  <2>1. ASSUME NEW t \in T PROVE t \in Node /\ c \in Deps(g, {t})
    <3>1. /\ t \in Node /\ g.children[t] = g.children[n] /\ g.reveals[t] = g.reveals[n]
      BY <1>1, TargetsFacts
    <3>2. Deps(g, {t}) = Deps(g, {n})
      BY <3>1, DepsOfNode DEF Revealed
    <3> QED BY <3>1, <3>2
  <2> QED BY <1>1, <2>1, TargetsFacts
<1> HIDE DEF v
<1>6. /\ On(v) = On(w) /\ FailedOf(v) = FailedOf(w) \cup T
      /\ \A m \in Node : WaitsFor(v, m) = WaitsFor(w, m)
      /\ \A m \in Node : v.state[m] # Failed => v.state[m] = w.state[m]
  <2>1. On(v) = On(w)
    BY <1>2 DEF On
  <2>2. FailedOf(v) = FailedOf(w) \cup T
    BY <1>2, <1>5 DEF FailedOf
  <2> QED BY <1>2, <2>1, <2>2 DEF WaitsFor
<1>7. Reached(g, v)
  BY <1>2, <1>6 DEF Track, Reached
<1>8. Met(g, v, {})
  <2>1. Failed # NoState /\ w.state[n] # NoState
    BY DEF Failed, NoState, Pending
  <2>2. \A m \in Node : v.state[m] = NoState <=> m \notin T /\ w.state[m] = NoState
    BY <1>2, <2>1
  <2>3. \A m \in Node : w.waiting_parents[m] \subseteq Node
    BY DEF WalkType
  <2>4. Range(g.top) \subseteq Node
    BY NeededFacts, AskedFacts
  <2>5. ASSUME NEW m \in Node, v.state[m] = NoState PROVE w.state[m] = NoState /\ m # n
    BY <2>1, <2>2, <2>5
  <2>6. ASSUME NEW m \in Node, w.state[m] # NoState PROVE v.state[m] # NoState
    BY <2>2, <2>6
  <2> QED BY <1>2, <1>6, <2>3, <2>4, <2>5, <2>6 DEF Track, Met
<1>9. Remembered(g, v, F, {})
  <2> SUFFICES ASSUME NEW m \in Node, v.state[m] = Pending,
                      v.stopped => v.waiting_parents[m] # {}
               PROVE  \/ m \in On(v) \/ WaitsFor(v, m) # {}
                      \/ \E T1 \in F : \E s \in SideEffects(g, T1) : m \in v.waiting_s_e[s]
                      \/ Lost(g, v, m)
    BY DEF Remembered
  <2>1. w.state[m] = Pending
    BY <1>6 DEF Pending, Failed
  <2>2. CASE m = n
    BY <1>3, <1>4, <1>6, <2>2 DEF Lost
  <2>3. CASE m # n
    <3>1. \/ m \in On(w) \/ WaitsFor(w, m) # {}
          \/ \E T1 \in F : \E s \in SideEffects(g, T1) : m \in w.waiting_s_e[s]
          \/ Lost(g, w, m)
      BY <1>2, <2>1, <2>3 DEF Track, Remembered
    <3>2. Lost(g, w, m) => Lost(g, v, m)
      BY <1>4, <1>6 DEF Lost
    <3> QED BY <1>2, <1>6, <3>1, <3>2
  <2> QED BY <2>2, <2>3
<1>10. Moving(g, v, F)
  <2>1. \A m \in Node : v.state[m] = Executing => w.state[m] = Executing
    BY <1>6 DEF Executing, Failed
  <2>2. \A m \in Node : w.state[m] \in {NoState, Pending, Executing, Failed}
          => v.state[m] \in {NoState, Pending, Executing, Failed}
    BY <1>2
  <2> QED BY <1>2, <2>1, <2>2 DEF Track, Moving
<1>11. Blamed(g, v)
  <2>1. ASSUME NEW m \in FailedOf(v)
        PROVE  g.targets[m] \subseteq FailedOf(v) \/ Deps(g, {m}) \cap FailedOf(v) # {}
    <3>1. CASE m \in T
      BY <1>3, <1>5, <1>6, <3>1
    <3>2. CASE m \in FailedOf(w)
      BY <1>6, <3>2 DEF Track, Blamed
    <3> QED BY <1>6, <2>1, <3>1, <3>2
  <2> QED BY <1>4, <2>1 DEF Blamed
<1>12. Awaited(v)
  BY <1>2 DEF Track, Awaited
<1>13. Acyclic(v)
  <2>1. {m \in Node : v.state[m] = Pending} \subseteq {m \in Node : w.state[m] = Pending}
    BY <1>6 DEF Pending, Failed
  <2> QED BY <1>2, <2>1 DEF Track, Acyclic
<1> QED BY <1>7, <1>8, <1>9, <1>10, <1>11, <1>12, <1>13 DEF Track, v

\* The node waits for its children that are not ready.
LEMMA WaitForChildrenTrack ==
  ASSUME NEW g \in Builds, NEW w, Sound(g, w), NEW F, NEW n \in Node,
         Track(g, w, F, {n}), ~w.stopped, w.state[n] = Pending, n \in Needed(g),
         NEW C \in SUBSET Node, C # {}, C \subseteq Deps(g, {n}),
         \A c \in C : w.state[c] <= Executing,
         \A c \in C : w.state[c] = NoState => c \in On(w)
  PROVE  Track(g, WaitForChildren(w, n, C), F, {})
<1> DEFINE v == WaitForChildren(w, n, C)
<1>0. w \in WalkType /\ Deps(g, {n}) \subseteq Needed(g)
  BY NeededFacts DEF Sound
<1>1. /\ \A c \in Node : v.waiting_parents[c] =
           w.waiting_parents[c] \cup (IF c \in C THEN {n} ELSE {})
      /\ v.state = w.state /\ v.waiting_s_e = w.waiting_s_e
      /\ v.candidates = w.candidates /\ v.stopped = w.stopped
      /\ v.top_targets_left = w.top_targets_left
  <2>1. C \subseteq g.children[n] \cup Revealed(g, n)
    BY DepsOfNode
  <2> QED BY <2>1, WaitForChildrenFields
<1>2. v.pending_children = w.pending_children \cup {c \in C : w.state[c] = Pending}
  BY <1>0, PendingKept
<1> HIDE DEF v
<1>3. /\ On(v) = On(w) /\ FailedOf(v) = FailedOf(w)
      /\ \A m \in Node : WaitsFor(w, m) \subseteq WaitsFor(v, m)
      /\ \A m \in Node : Lost(g, w, m) <=> Lost(g, v, m)
      /\ WaitsFor(v, n) # {}
  <2>1. On(v) = On(w) /\ FailedOf(v) = FailedOf(w)
    BY <1>1 DEF On, FailedOf
  <2>2. \A m \in Node : WaitsFor(w, m) \subseteq WaitsFor(v, m)
    BY <1>1 DEF WaitsFor
  <2>3. WaitsFor(v, n) # {}
    BY <1>1 DEF WaitsFor
  <2> QED BY <1>1, <2>1, <2>2, <2>3 DEF Lost
<1>4. Reached(g, v)
  <2>1. v.pending_children \subseteq Needed(g)
    BY <1>0, <1>2 DEF Track, Reached
  <2>2. \A c \in Node : v.waiting_parents[c] \subseteq Needed(g)
    BY <1>1 DEF Track, Reached
  <2> QED BY <1>1, <1>3, <2>1, <2>2 DEF Track, Reached
<1>5. w.state[n] # NoState
  BY DEF Pending, NoState
<1>6. Met(g, v, {})
  <2>1. ASSUME NEW c \in Node, v.state[c] = NoState, v.waiting_parents[c] # {}
        PROVE  c \in On(v)
    <3>1. CASE c \in C
      BY <1>1, <1>3, <2>1, <3>1
    <3>2. CASE c \notin C
      BY <1>1, <1>3, <1>5, <2>1, <3>2 DEF Track, Met
    <3> QED BY <3>1, <3>2
  <2>2. ASSUME NEW c \in Node, NEW p \in v.waiting_parents[c] PROVE v.state[p] # NoState
    <3>1. p = n \/ p \in w.waiting_parents[c]
      BY <1>1, <2>2
    <3> QED BY <1>1, <1>5, <3>1 DEF Track, Met
  <2>3. ~v.stopped => \A t \in Range(g.top) :
          v.state[t] = NoState => t \in On(v) \cup Range(v.top_targets_left)
    BY <1>1, <1>3, <1>5 DEF Track, Met
  <2> QED BY <2>1, <2>2, <2>3 DEF Met
<1>7. Remembered(g, v, F, {})
  <2> SUFFICES ASSUME NEW m \in Node, v.state[m] = Pending,
                      v.stopped => v.waiting_parents[m] # {}
               PROVE  \/ m \in On(v) \/ WaitsFor(v, m) # {}
                      \/ \E T \in F : \E s \in SideEffects(g, T) : m \in v.waiting_s_e[s]
                      \/ Lost(g, v, m)
    BY DEF Remembered
  <2>1. CASE m = n
    BY <1>3, <2>1
  <2>2. CASE m # n
    <3>1. \/ m \in On(w) \/ WaitsFor(w, m) # {}
          \/ \E T \in F : \E s \in SideEffects(g, T) : m \in w.waiting_s_e[s]
          \/ Lost(g, w, m)
      BY <1>1, <2>2 DEF Track, Remembered
    <3> QED BY <1>1, <1>3, <3>1
  <2> QED BY <2>1, <2>2
<1>8. Moving(g, v, F)
  <2>1. \A m \in Node : v.state[m] = Executing => w.state[m] = Executing
    BY <1>1
  <2>2. ASSUME NEW c \in Node, v.waiting_parents[c] # {}
        PROVE  v.state[c] \in {NoState, Pending, Executing, Failed} \/ \E T \in F : c \in T
    <3>1. CASE c \in C
      <4>1. w.state[c] \in 0 .. 5 /\ w.state[c] <= 2
        BY <1>0, <3>1 DEF WalkType, NodeState, NoState, Executing, Failed
      <4> QED BY <1>1, <4>1 DEF NoState, Pending, Executing
    <3>2. CASE c \notin C
      BY <1>1, <2>2, <3>2 DEF Track, Moving
    <3> QED BY <3>1, <3>2
  <2> QED BY <1>1, <2>1, <2>2 DEF Track, Moving
<1>9. Blamed(g, v)
  <2>1. \A c \in C : c \notin FailedOf(w)
    BY DEF FailedOf, Failed, Executing
  <2>2. ASSUME NEW m \in FailedOf(v) PROVE v.waiting_parents[m] = w.waiting_parents[m]
    BY <1>1, <1>3, <2>1, <2>2 DEF FailedOf
  <2> QED BY <1>1, <1>3, <2>2 DEF Track, Blamed
<1>10. Awaited(v)
  BY <1>0, <1>1, <1>2 DEF Track, Awaited, WalkType
<1>11. Acyclic(v)
  <2> SUFFICES ASSUME ~v.stopped, NEW S \in SUBSET {m \in Node : v.state[m] = Pending}, S # {}
               PROVE  \E e \in S : \A c \in S \ v.pending_children : e \notin v.waiting_parents[c]
    BY DEF Acyclic
  <2>1. PICK e \in S : \A c \in S \ w.pending_children : e \notin w.waiting_parents[c]
    BY <1>1 DEF Track, Acyclic
  <2>2. ASSUME NEW c \in S \ v.pending_children PROVE e \notin v.waiting_parents[c]
    <3>1. c \in S \ w.pending_children /\ c \notin C /\ c \in Node
      BY <1>1, <1>2, <2>2
    <3> QED BY <1>1, <2>1, <3>1
  <2> QED BY <2>1, <2>2
<1> QED BY <1>4, <1>6, <1>7, <1>8, <1>9, <1>10, <1>11 DEF Track, v

\* The node waits for files that a command writes that was handed out.
LEMMA WaitForSideEffectsTrack ==
  ASSUME NEW g \in Builds, WrittenOnly(g), NEW w \in WalkType, NEW F, NEW n \in Node,
         Track(g, w, F, {n}), ~w.stopped, w.state[n] # NoState, n \in Needed(g),
         \A T \in F : T \subseteq g.builder,
         NEW S \in SUBSET SideEffects(g, Node), S # {}, \A s \in S : w.state[s] = Executing
  PROVE  Track(g, WaitForSideEffects(w, n, S), F, {})
<1> DEFINE v == WaitForSideEffects(w, n, S)
<1>0. S \in SUBSET Node
  BY SideEffectsType
<1>1. /\ \A s \in Node : v.waiting_s_e[s] =
           w.waiting_s_e[s] \cup (IF s \in S THEN {n} ELSE {})
      /\ v.state = w.state /\ v.waiting_parents = w.waiting_parents
      /\ v.candidates = w.candidates /\ v.stopped = w.stopped
      /\ v.top_targets_left = w.top_targets_left
      /\ v.pending_children = w.pending_children
  BY <1>0, WaitForSideEffectsFields, PendingKept
<1> HIDE DEF v
<1>2. /\ On(v) = On(w) /\ FailedOf(v) = FailedOf(w)
      /\ \A m \in Node : WaitsFor(w, m) = WaitsFor(v, m)
      /\ \A m \in Node : Lost(g, w, m) => Lost(g, v, m)
  <2>1. On(v) = On(w) /\ FailedOf(v) = FailedOf(w)
    BY <1>1 DEF On, FailedOf
  <2>2. \A m \in Node : WaitsFor(w, m) = WaitsFor(v, m)
    BY <1>1 DEF WaitsFor
  <2>3. SideEffects(g, Node) \in SUBSET Node
    BY SideEffectsType
  <2> QED BY <1>1, <2>1, <2>2, <2>3 DEF Lost
<1>3. Reached(g, v)
  BY <1>1, <1>2 DEF Track, Reached
<1>4. Met(g, v, {})
  BY <1>1, <1>2 DEF Track, Met
<1>5. \E T \in F : \E s \in SideEffects(g, T) : n \in v.waiting_s_e[s]
  <2>1. PICK s \in S : s \in Node /\ w.state[s] = Executing
    BY <1>0
  <2>2. \A T \in F : s \notin T
    BY WrittenFacts
  <2>3. PICK T \in F : s \in SideEffects(g, T)
    BY <2>1, <2>2 DEF Track, Moving
  <2> QED BY <1>1, <2>1, <2>3
<1>6. Remembered(g, v, F, {})
  <2> SUFFICES ASSUME NEW m \in Node, v.state[m] = Pending, m # n
               PROVE  \/ m \in On(v) \/ WaitsFor(v, m) # {}
                      \/ \E T \in F : \E s \in SideEffects(g, T) : m \in v.waiting_s_e[s]
                      \/ Lost(g, v, m)
    BY <1>5 DEF Remembered
  <2>1. \/ m \in On(w) \/ WaitsFor(w, m) # {}
        \/ \E T \in F : \E s \in SideEffects(g, T) : m \in w.waiting_s_e[s]
        \/ Lost(g, w, m)
    BY <1>1 DEF Track, Remembered
  <2>2. \A T \in F : SideEffects(g, T) \subseteq Node
    <3> TAKE T \in F
    <3>1. T \in SUBSET Node
      BY BuildType
    <3> QED BY <3>1, SideEffectsType
  <2> QED BY <1>1, <1>2, <2>1, <2>2
<1>7. Moving(g, v, F)
  BY <1>1 DEF Track, Moving
<1>8. Blamed(g, v)
  BY <1>1, <1>2 DEF Track, Blamed
<1>9. Awaited(v) /\ Acyclic(v)
  BY <1>1 DEF Track, Awaited, Acyclic
<1> QED BY <1>3, <1>4, <1>6, <1>7, <1>8, <1>9 DEF Track, v

\* Considering a candidate: if it is ready the main thread has it in hand, or
\* else it is where it will be found again.
LEMMA ConsiderTrack ==
  ASSUME NEW g \in Builds, WrittenOnly(g), NEW w, Sound(g, w), NEW F, NEW n \in Node,
         Track(g, w, F, {n}), ~w.stopped, n \in Needed(g),
         \A T \in F : T \subseteq g.builder,
         NEW r \in Consider(g, w, n)
  PROVE  /\ ~r.ready => Track(g, r.walk, F, {})
         /\ r.ready => Track(g, r.walk, F, {n}) /\ r.walk.state[n] = Pending
<1>d. PICK Y \in Scans(g, w, n) :
        \/ ~r.ready /\ w.state[n] > Pending /\ r.walk = w
        \/ r.ready /\ n \in g.unscannable /\ r.walk = Visited(w, n)
        \/ /\ n \notin g.unscannable
           /\ LET v == Looked(g, w, n, Y)
                  C == Found(g, w, n, Y)
                  N == NotReady(g, w, n, Y)
                  U == Unvisited(g, w, n, Y)
              IN \/ /\ ~r.ready /\ \E c \in C : v.state[c] = Failed
                    /\ \E q \in Pushed(v.candidates, U) :
                         r.walk = ChildFailed(g, [v EXCEPT !.candidates = q], n)
                 \/ /\ ~r.ready /\ N # {}
                    /\ \E q \in Pushed(v.candidates, U) :
                         r.walk = WaitForChildren([v EXCEPT !.candidates = q], n, N)
                 \/ /\ ~r.ready /\ Busy(g, v, n) # {}
                    /\ r.walk = WaitForSideEffects(v, n, Busy(g, v, n))
                 \/ r.ready /\ r.walk = v
  BY ConsiderCases
<1> DEFINE v == Looked(g, w, n, Y)
           C == Found(g, w, n, Y)
           N == NotReady(g, w, n, Y)
           U == Unvisited(g, w, n, Y)
<1>0. w \in WalkType /\ Deps(g, {n}) \subseteq Needed(g)
  BY NeededFacts DEF Sound
<1>1. /\ Sound(g, v)
      /\ \A m \in Node : v.state[m] = IF m = n /\ w.state[m] = NoState THEN Pending
                                      ELSE w.state[m]
      /\ v.waiting_parents = w.waiting_parents /\ v.waiting_s_e = w.waiting_s_e
      /\ v.candidates = w.candidates /\ v.stopped = w.stopped
      /\ v.top_targets_left = w.top_targets_left
      /\ v.pending_children = w.pending_children
  BY <1>0, LookedFields, PendingKept
<1>c. C \subseteq Deps(g, {n}) /\ C \subseteq Node
  <2>1. C \subseteq g.children[n] \cup Revealed(g, n) /\ C \subseteq Node
    BY LookedFields
  <2> QED BY <2>1, DepsOfNode
<1>2. CASE w.state[n] > Pending
  <2>1. ~r.ready /\ r.walk = w
    BY <1>2 DEF Consider
  <2> QED BY <1>0, <1>2, <2>1, TrackPutDown
<1>3. CASE ~(w.state[n] > Pending) /\ n \in g.unscannable
  <2>1. r.ready /\ r.walk = Visited(w, n)
    BY <1>3 DEF Consider
  <2>2. LET u == Visited(w, n) IN
        /\ \A m \in Node : u.state[m] = IF m = n /\ w.state[m] = NoState THEN Pending
                                        ELSE w.state[m]
        /\ u.waiting_parents = w.waiting_parents /\ u.waiting_s_e = w.waiting_s_e
        /\ u.candidates = w.candidates /\ u.stopped = w.stopped
        /\ u.top_targets_left = w.top_targets_left
        /\ u.pending_children = w.pending_children
    BY <1>0, VisitedFields, PendingKept
  <2>3. PICK u : u = Visited(w, n)
    OBVIOUS
  <2>4. Track(g, u, F, {n}) /\ u.state[n] = Pending
    BY <1>0, <1>3, <2>2, <2>3, VisitedTrack
  <2> QED BY <2>1, <2>3, <2>4
<1>4. CASE ~(w.state[n] > Pending) /\ n \notin g.unscannable
  <2> HIDE DEF v, C, N, U
  <2>1. Track(g, v, F, {n}) /\ v.state[n] = Pending
    BY <1>0, <1>1, <1>4, VisitedTrack
  <2>2. v \in WalkType /\ ~v.stopped
    BY <1>1 DEF Sound
  <2>3. /\ U \in SUBSET Node /\ U \subseteq Needed(g)
        /\ \A c \in C : v.state[c] = NoState => c \in U
    BY <1>0, <1>c DEF U, C, v, Unvisited
  <2>4. ASSUME NEW q \in Pushed(v.candidates, U)
        PROVE  LET u == [v EXCEPT !.candidates = q] IN
               /\ Track(g, u, F, {n}) /\ On(u) = On(v) \cup U
               /\ u \in WalkType /\ Sound(g, u) /\ u.state = v.state /\ ~u.stopped
    <3> DEFINE u == [v EXCEPT !.candidates = q]
    <3>1. Track(g, u, F, {n}) /\ On(u) = On(v) \cup U
      <4>1. PICK A : A = U
        OBVIOUS
      <4>2. A \in SUBSET Node /\ A \subseteq Needed(g) /\ q \in Pushed(v.candidates, A)
        BY <2>3, <4>1
      <4>3. Track(g, u, F, {n}) /\ On(u) = On(v) \cup A
        BY <2>1, <2>2, <4>2, PushedTrack
      <4> QED BY <4>1, <4>3
    <3>2. v.candidates \in Seq(Node)
      BY <2>2 DEF WalkType
    <3>3. q \in Seq(Node)
      BY <2>3, <3>2, PushedElements
    <3>4. /\ u \in WalkType /\ u.state = v.state /\ u.implicit = v.implicit
          /\ u.waiting_parents = v.waiting_parents /\ u.ref_count = v.ref_count
          /\ u.stopped = v.stopped
      BY <2>2, <3>3, StackFields
    <3> HIDE DEF u
    <3>5. Sound(g, u)
      BY <1>1, <3>4, SameCounts
    <3> QED BY <2>2, <3>1, <3>4, <3>5 DEF u
  <2>5. CASE /\ ~r.ready /\ \E c \in C : v.state[c] = Failed
             /\ \E q \in Pushed(v.candidates, U) :
                  r.walk = ChildFailed(g, [v EXCEPT !.candidates = q], n)
    <3>1. PICK q \in Pushed(v.candidates, U) :
            r.walk = ChildFailed(g, [v EXCEPT !.candidates = q], n)
      BY <2>5
    <3>2. PICK u : u = [v EXCEPT !.candidates = q]
      OBVIOUS
    <3>3. Track(g, u, F, {n}) /\ u \in WalkType /\ u.state = v.state /\ ~u.stopped
      BY <2>4, <3>2
    <3>4. PICK c \in C : v.state[c] = Failed
      BY <2>5
    <3>5. c \in Deps(g, {n})
      BY <1>c, <3>4
    <3>6. Track(g, ChildFailed(g, u, n), F, {})
      BY <2>1, <3>3, <3>4, <3>5, ChildFailedTrack
    <3> QED BY <2>5, <3>1, <3>2, <3>6
  <2>6. CASE /\ ~r.ready /\ N # {}
             /\ \E q \in Pushed(v.candidates, U) :
                  r.walk = WaitForChildren([v EXCEPT !.candidates = q], n, N)
    <3>1. PICK q \in Pushed(v.candidates, U) :
            r.walk = WaitForChildren([v EXCEPT !.candidates = q], n, N)
      BY <2>6
    <3>2. PICK u : u = [v EXCEPT !.candidates = q]
      OBVIOUS
    <3>3. /\ Track(g, u, F, {n}) /\ Sound(g, u) /\ u.state = v.state /\ ~u.stopped
          /\ On(u) = On(v) \cup U
      BY <2>4, <3>2
    <3>4. N \in SUBSET Node /\ N \subseteq C /\ \A c \in N : v.state[c] <= Executing
      BY <1>c DEF N, C, v, NotReady
    <3>5. \A c \in N : u.state[c] = NoState => c \in On(u)
      BY <2>3, <3>3, <3>4
    <3>6. N \subseteq Deps(g, {n})
      BY <1>c, <3>4
    <3>7. Track(g, WaitForChildren(u, n, N), F, {})
      BY <2>1, <2>6, <3>3, <3>4, <3>5, <3>6, WaitForChildrenTrack
    <3> QED BY <2>6, <3>1, <3>2, <3>7
  <2>7. CASE /\ ~r.ready /\ Busy(g, v, n) # {}
             /\ r.walk = WaitForSideEffects(v, n, Busy(g, v, n))
    <3>1. PICK S : S = Busy(g, v, n)
      OBVIOUS
    <3>2. S \in SUBSET SideEffects(g, Node) /\ \A s \in S : v.state[s] = Executing
      <4>1. PICK T : T = IF n \in g.builder THEN g.targets[n] ELSE {}
        OBVIOUS
      <4>2. S = {s \in SideEffects(g, T) : v.state[s] = Executing}
        BY <3>1, <4>1 DEF Busy
      <4>3. T \in SUBSET Node
        BY <4>1, TargetsFacts
      <4> QED BY <4>2, <4>3, SideEffectsType
    <3>3. v.state[n] # NoState
      BY <2>1 DEF Pending, NoState
    <3>4. Track(g, WaitForSideEffects(v, n, S), F, {})
      BY <2>1, <2>2, <2>7, <3>1, <3>2, <3>3, WaitForSideEffectsTrack
    <3> QED BY <2>7, <3>1, <3>4
  <2>8. CASE r.ready /\ r.walk = v
    BY <2>1, <2>8
  <2>9. \/ /\ ~r.ready /\ \E c \in C : v.state[c] = Failed
           /\ \E q \in Pushed(v.candidates, U) :
                r.walk = ChildFailed(g, [v EXCEPT !.candidates = q], n)
        \/ /\ ~r.ready /\ N # {}
           /\ \E q \in Pushed(v.candidates, U) :
                r.walk = WaitForChildren([v EXCEPT !.candidates = q], n, N)
        \/ /\ ~r.ready /\ Busy(g, v, n) # {}
           /\ r.walk = WaitForSideEffects(v, n, Busy(g, v, n))
        \/ r.ready /\ r.walk = v
    BY <1>4, <1>d DEF v, C, N, U
  <2> QED BY <2>5, <2>6, <2>7, <2>8, <2>9
<1> QED BY <1>2, <1>3, <1>4

\* A task that is made ready is in hand; none of its targets had failed.
LEMMA MakeReadyTrack ==
  ASSUME NEW g \in Builds, WrittenOnly(g), NEW w \in WalkType, NEW F, NEW n \in Node,
         Track(g, w, F, {n}), w.state[n] = Pending, OnlyWritten(g, w),
         NEW T, T = g.targets[n], Deps(g, T) \subseteq Usable(w), NEW b \in BOOLEAN
  PROVE  Track(g, MakeReady(g, w, T, b), F \cup {T}, {})
<1> DEFINE v == MakeReady(g, w, T, b)
           H == F \cup {T}
<1>1. T \in SUBSET Node /\ n \in T /\ \A t \in T : g.targets[t] = T
  BY TargetsFacts
<1>x. v = FoundCurrent(g, w, T) \/ v = Started(g, w, T)
  <2>1. b = TRUE \/ b = FALSE
    OBVIOUS
  <2> QED BY <2>1 DEF FoundCurrent, Started
<1>y. \A m \in T : v.state[m] \in {UpToDate, Executing}
  BY <1>1 DEF MakeReady, WalkType
<1>2. /\ \A m \in Node : \/ m \in T /\ v.state[m] \in {UpToDate, Executing}
                         \/ m \notin T /\ v.state[m] = w.state[m]
                         \/ /\ m \notin T /\ m \in SideEffects(g, T)
                            /\ v.state[m] = Executing
      /\ v.waiting_parents = w.waiting_parents /\ v.waiting_s_e = w.waiting_s_e
      /\ v.candidates = w.candidates /\ v.stopped = w.stopped
      /\ v.top_targets_left = w.top_targets_left
  <2> HIDE DEF v
  <2> QED BY <1>1, <1>x, <1>y, ReadyFields
<1>p. v.pending_children = w.pending_children
  BY PendingKept
<1>3. \A m \in FailedOf(w) : m \notin T /\ m \notin SideEffects(g, T)
  <2>1. \A d \in Usable(w) : d \notin FailedOf(w)
    BY DEF Usable, FailedOf, UpToDate, Executed, Failed
  <2>2. n \notin FailedOf(w)
    BY DEF FailedOf, Pending, Failed
  <2>3. ASSUME NEW t \in T PROVE t \notin FailedOf(w)
    <3>1. Deps(g, {t}) \subseteq Deps(g, T)
      BY <1>1 DEF Deps
    <3>2. n \in g.targets[t]
      BY <1>1
    <3> QED BY <2>1, <2>2, <3>1, <3>2 DEF Track, Blamed
  <2>4. \A s \in SideEffects(g, T) : s \notin FailedOf(w)
    <3>1. SideEffects(g, T) \subseteq SideEffects(g, Node)
      BY <1>1, SideEffectsType
    <3> QED BY <3>1 DEF OnlyWritten, FailedOf, NoState, Executing, Failed
  <2> QED BY <2>3, <2>4
<1> HIDE DEF v
<1>4. /\ On(v) = On(w) /\ FailedOf(v) = FailedOf(w)
      /\ \A m \in Node : WaitsFor(v, m) = WaitsFor(w, m) /\ (Lost(g, v, m) <=> Lost(g, w, m))
  <2>1. On(v) = On(w)
    BY <1>2 DEF On
  <2>2. \A m \in Node : v.state[m] # Failed \/ v.state[m] = w.state[m]
    BY <1>2 DEF UpToDate, Executing, Failed
  <2>3. FailedOf(v) = FailedOf(w)
    <3>1. ASSUME NEW m \in Node, v.state[m] = Failed PROVE w.state[m] = Failed
      BY <1>2, <2>2, <3>1
    <3>2. ASSUME NEW m \in Node, w.state[m] = Failed PROVE v.state[m] = Failed
      BY <1>2, <1>3, <3>2 DEF FailedOf
    <3> QED BY <3>1, <3>2 DEF FailedOf
  <2> QED BY <1>2, <2>1, <2>3 DEF WaitsFor, Lost
<1>5. /\ \A m \in Node : v.state[m] = NoState => w.state[m] = NoState /\ m \notin T
      /\ \A m \in Node : v.state[m] = Pending => w.state[m] = Pending /\ m \notin T
      /\ \A m \in Node : w.state[m] # NoState => v.state[m] # NoState
  BY <1>2 DEF UpToDate, Executing, NoState, Pending
<1>6. Reached(g, v)
  BY <1>2, <1>4, <1>p DEF Track, Reached
<1>7. Met(g, v, {})
  <2>1. \A m \in Node : w.waiting_parents[m] \subseteq Node
    BY DEF WalkType
  <2>2. Range(g.top) \subseteq Node
    BY NeededFacts, AskedFacts
  <2> QED BY <1>1, <1>2, <1>4, <1>5, <2>1, <2>2 DEF Track, Met
<1>8. Remembered(g, v, H, {})
  BY <1>1, <1>2, <1>4, <1>5 DEF Track, Remembered
<1>9. Moving(g, v, H)
  <2>1. ASSUME NEW m \in Node, v.state[m] = Executing
        PROVE  \/ \E U \in H : m \in U
               \/ /\ m \in SideEffects(g, Node)
                  /\ v.stopped \/ \E U \in H : m \in SideEffects(g, U)
    <3>1. CASE m \in SideEffects(g, T)
      <4>1. SideEffects(g, T) \subseteq SideEffects(g, Node)
        BY <1>1, SideEffectsType
      <4> QED BY <3>1, <4>1
    <3>2. CASE m \notin T /\ m \notin SideEffects(g, T)
      BY <1>2, <2>1, <3>2 DEF Track, Moving
    <3> QED BY <3>1, <3>2
  <2>2. ASSUME NEW m \in Node, v.waiting_parents[m] # {}
        PROVE  v.state[m] \in {NoState, Pending, Executing, Failed} \/ \E U \in H : m \in U
    <3>1. CASE m \notin T /\ m \notin SideEffects(g, T)
      BY <1>2, <2>2, <3>1 DEF Track, Moving
    <3>2. CASE m \in SideEffects(g, T) /\ m \notin T
      BY <1>2, <2>2, <3>2 DEF Track, Moving
    <3> QED BY <3>1, <3>2
  <2> QED BY <2>1, <2>2 DEF Moving
<1>10. Blamed(g, v) /\ Awaited(v)
  BY <1>2, <1>4, <1>p DEF Track, Blamed, Awaited
<1>11. Acyclic(v)
  <2>1. {m \in Node : v.state[m] = Pending} \subseteq {m \in Node : w.state[m] = Pending}
    BY <1>5
  <2> QED BY <1>2, <1>p, <2>1 DEF Track, Acyclic
<1> QED BY <1>6, <1>7, <1>8, <1>9, <1>10, <1>11 DEF Track, v

\* Where fewer nodes wait or are pending, and those that are noted as pending
\* children wait as before, three of the parts hold on.
LEMMA TrackShrinks ==
  ASSUME NEW g \in Builds, NEW w, NEW v, NEW F, NEW X, Track(g, w, F, X),
         v.waiting_s_e = w.waiting_s_e, v.top_targets_left = w.top_targets_left,
         w.stopped => v.stopped,
         On(v) \subseteq Needed(g), v.pending_children \subseteq w.pending_children,
         \A n \in Node : /\ v.waiting_parents[n] \subseteq w.waiting_parents[n]
                         /\ v.state[n] = Pending => w.state[n] = Pending,
         \A n \in w.pending_children : n \in v.pending_children \/ v.waiting_parents[n] = {}
                                         \/ v.state[n] # Pending,
         \A n \in v.pending_children : v.waiting_parents[n] = w.waiting_parents[n]
  PROVE  Reached(g, v) /\ Awaited(v) /\ Acyclic(v)
<1>1. Reached(g, v)
  BY DEF Track, Reached
<1>2. Awaited(v)
  BY DEF Track, Awaited
<1>3. Acyclic(v)
  <2> SUFFICES ASSUME ~v.stopped, NEW S \in SUBSET {m \in Node : v.state[m] = Pending}, S # {}
               PROVE  \E e \in S : \A c \in S \ v.pending_children : e \notin v.waiting_parents[c]
    BY DEF Acyclic
  <2>1. S \in SUBSET {m \in Node : w.state[m] = Pending}
    OBVIOUS
  <2>2. PICK e \in S : \A c \in S \ w.pending_children : e \notin w.waiting_parents[c]
    BY <2>1 DEF Track, Acyclic
  <2> QED BY <2>2
<1> QED BY <1>1, <1>2, <1>3

\* Targets that were executing are there; nobody asks for the side effects.
LEMMA ExecutedTrack ==
  ASSUME NEW g \in Builds, WrittenOnly(g), NEW w, Sound(g, w), OnlyWritten(g, w), NEW F,
         NEW T \in SUBSET Node, T \in F, Track(g, w, F, {})
  PROVE  LET v == ExecutedTask(g, w, T) IN
         Track(g, v, F, {}) /\ \A t \in T : v.state[t] # Executing
<1> DEFINE v == ExecutedTask(g, w, T)
<1>1. PICK M, S : M = Making(w, T) /\ S = SideEffects(g, M)
  OBVIOUS
<1>2. /\ \A n \in Node : v.state[n] = IF n \in M THEN Executed
                                      ELSE IF n \in S THEN NoState ELSE w.state[n]
      /\ v.waiting_parents = w.waiting_parents /\ v.waiting_s_e = w.waiting_s_e
      /\ v.candidates = w.candidates /\ v.stopped = w.stopped
      /\ v.top_targets_left = w.top_targets_left /\ w \in WalkType
  BY <1>1, ExecutedFields DEF Sound
<1>3. v.pending_children = w.pending_children
  BY <1>2, PendingKept, NoneAssumption DEF ExecutedTask, WalkType
<1>4. /\ M \subseteq T /\ \A m \in M : w.state[m] = Executing
      /\ S \subseteq SideEffects(g, Node)
      /\ \A s \in S : /\ w.state[s] \in {NoState, Executing} /\ w.waiting_parents[s] = {}
                      /\ s \notin Asked(g) /\ s \in Node
  <2>1. M \subseteq T /\ \A m \in M : w.state[m] = Executing
    BY <1>1 DEF Making
  <2>2. S \subseteq SideEffects(g, Node)
    BY <1>1, <2>1, SideEffectsType
  <2> QED BY <2>1, <2>2, WrittenFacts, NobodyWaits DEF OnlyWritten
<1> HIDE DEF v
<1>5. /\ On(v) = On(w) /\ FailedOf(v) = FailedOf(w)
      /\ \A m \in Node : WaitsFor(v, m) = WaitsFor(w, m) /\ (Lost(g, v, m) <=> Lost(g, w, m))
  <2>1. On(v) = On(w)
    BY <1>2 DEF On
  <2>2. \A n \in Node : v.state[n] = Failed <=> w.state[n] = Failed
    BY <1>2, <1>4 DEF Executed, Executing, NoState, Failed
  <2>3. FailedOf(v) = FailedOf(w)
    BY <2>2 DEF FailedOf
  <2> QED BY <1>2, <2>1, <2>3 DEF WaitsFor, Lost
<1>6. Needed(g) \subseteq Asked(g) /\ Range(g.top) \subseteq Asked(g) /\ Range(g.top) \subseteq Node
  BY NeededFacts, AskedFacts
<1>7. /\ \A n \in Node : v.state[n] = NoState /\ n \notin S => w.state[n] = NoState
      /\ \A n \in Node : v.state[n] = Pending => w.state[n] = Pending
      /\ \A n \in Node : v.state[n] = Executing => w.state[n] = Executing /\ n \notin M
      /\ \A n \in Node : w.state[n] # NoState /\ n \notin S => v.state[n] # NoState
  BY <1>2 DEF Executed, NoState, Pending, Executing
<1>8. Reached(g, v) /\ Awaited(v) /\ Acyclic(v)
  <2>1. On(w) \subseteq Needed(g)
    BY DEF Track, Reached
  <2> QED BY <1>2, <1>3, <1>5, <1>7, <2>1, TrackShrinks
<1>9. Met(g, v, {})
  <2>1. ASSUME NEW c \in Node, v.state[c] = NoState, v.waiting_parents[c] # {}
        PROVE  c \in On(v)
    <3>1. c \notin S
      BY <1>2, <1>4, <2>1
    <3> QED BY <1>2, <1>5, <1>7, <2>1, <3>1 DEF Track, Met
  <2>2. ASSUME NEW c \in Node, NEW p \in v.waiting_parents[c] PROVE v.state[p] # NoState
    <3>1. p \in Needed(g) /\ p \in Node /\ w.state[p] # NoState
      BY <1>2, <2>2, NeededFacts DEF Track, Reached, Met
    <3> QED BY <1>4, <1>6, <1>7, <3>1
  <2>3. ASSUME ~v.stopped, NEW t \in Range(g.top), v.state[t] = NoState
        PROVE  t \in On(v) \cup Range(v.top_targets_left)
    <3>1. t \in Node /\ t \notin S
      BY <1>4, <1>6
    <3> QED BY <1>2, <1>5, <1>7, <2>3, <3>1 DEF Track, Met
  <2> QED BY <2>1, <2>2, <2>3 DEF Met
<1>10. Remembered(g, v, F, {})
  BY <1>2, <1>5, <1>7 DEF Track, Remembered
<1>11. Moving(g, v, F)
  <2>1. ASSUME NEW c \in Node, v.waiting_parents[c] # {}
        PROVE  v.state[c] \in {NoState, Pending, Executing, Failed} \/ \E U \in F : c \in U
    <3>1. CASE c \in M
      BY <1>4, <3>1
    <3>2. CASE c \notin M
      BY <1>2, <2>1, <3>2 DEF Track, Moving
    <3> QED BY <3>1, <3>2
  <2> QED BY <1>2, <1>7, <2>1 DEF Track, Moving
<1>12. Blamed(g, v)
  BY <1>2, <1>5 DEF Track, Blamed
<1>13. \A t \in T : v.state[t] # Executing
  BY <1>1, <1>2 DEF Making, Executed, NoState, Executing
<1> QED BY <1>8, <1>9, <1>10, <1>11, <1>12, <1>13 DEF Track, v

\* A task and all that wait for it are given up; when that stops the build the
\* walk is stopped as well.
LEMMA GivenUpTrack ==
  ASSUME NEW g \in Builds, NEW w, Sound(g, w), NEW F, NEW X, Track(g, w, F, X),
         NEW T \in SUBSET Node, T \in F, X \subseteq T, T # {}, \A t \in T : g.targets[t] = T,
         g.on_error # "ignore",
         NEW v, LET V == Waiters(w, T) IN
                /\ \A n \in Node : v.state[n] = IF n \in V THEN Failed ELSE w.state[n]
                /\ \A n \in Node : v.waiting_parents[n] =
                                     IF n \in V THEN {} ELSE w.waiting_parents[n]
                /\ v.pending_children = w.pending_children \ V,
         v.waiting_s_e = w.waiting_s_e, v.candidates = w.candidates,
         v.top_targets_left = w.top_targets_left,
         v.stopped = (w.stopped \/ g.on_error = "stop")
  PROVE  /\ Track(g, v, F, {}) /\ FailedOf(v) # {}
         /\ \A t \in T : v.state[t] # Executing /\ v.waiting_parents[t] = {}
<1>1. PICK V : V = Waiters(w, T)
  OBVIOUS
<1>2. w \in WalkType /\ w.stopped \in BOOLEAN /\ \A n \in Node : w.waiting_parents[n] \subseteq Node
  BY DEF Sound, WalkType
<1>3. /\ V \in SUBSET Node /\ T \subseteq V /\ \A m \in V : w.waiting_parents[m] \subseteq V
      /\ \A n \in V : n \in T \/ \E m \in V : n \in w.waiting_parents[m]
  BY <1>1, <1>2, WaitersFacts, WaitersReason
<1>4. /\ \A n \in Node : v.state[n] = IF n \in V THEN Failed ELSE w.state[n]
      /\ \A n \in Node : v.waiting_parents[n] = IF n \in V THEN {} ELSE w.waiting_parents[n]
      /\ v.pending_children = w.pending_children \ V
  BY <1>1
<1>5. /\ On(v) = On(w) /\ FailedOf(v) = FailedOf(w) \cup V
      /\ \A n \in Node \ V : WaitsFor(v, n) = WaitsFor(w, n)
      /\ \A n \in Node : Lost(g, w, n) => Lost(g, v, n)
  <2>1. On(v) = On(w)
    BY DEF On
  <2>2. FailedOf(v) = FailedOf(w) \cup V
    BY <1>3, <1>4 DEF FailedOf
  <2>3. \A n \in Node \ V : WaitsFor(v, n) = WaitsFor(w, n)
    BY <1>3, <1>4 DEF WaitsFor
  <2> QED BY <2>1, <2>2, <2>3 DEF Lost
<1>6. /\ \A n \in Node : v.state[n] = NoState => w.state[n] = NoState /\ n \notin V
      /\ \A n \in Node : v.state[n] = Pending => w.state[n] = Pending /\ n \notin V
      /\ \A n \in Node : v.state[n] = Executing => w.state[n] = Executing /\ n \notin V
      /\ \A n \in Node : w.state[n] # NoState => v.state[n] # NoState
  BY <1>4 DEF Failed, NoState, Pending, Executing
<1>7. Reached(g, v) /\ Awaited(v) /\ Acyclic(v)
  <2>1. On(w) \subseteq Needed(g)
    BY DEF Track, Reached
  <2>2. \A n \in w.pending_children : n \in v.pending_children \/ v.waiting_parents[n] = {}
                                         \/ v.state[n] # Pending
    BY <1>3, <1>4
  <2>3. w.pending_children \subseteq Node
    BY <1>2 DEF WalkType
  <2>4. \A n \in v.pending_children : v.waiting_parents[n] = w.waiting_parents[n]
    BY <1>4, <2>3
  <2>5. \A n \in Node : /\ v.waiting_parents[n] \subseteq w.waiting_parents[n]
                        /\ v.state[n] = Pending => w.state[n] = Pending
    BY <1>4, <1>6
  <2>6. v.pending_children \subseteq w.pending_children
    BY <1>4
  <2>7. w.stopped => v.stopped
    OBVIOUS
  <2>8. On(v) \subseteq Needed(g)
    BY <1>5, <2>1
  <2> QED BY <2>2, <2>4, <2>5, <2>6, <2>7, <2>8, TrackShrinks
<1>8. Met(g, v, {})
  <2>1. Range(g.top) \subseteq Node
    BY NeededFacts, AskedFacts
  <2>2. ASSUME NEW c \in Node, v.state[c] = NoState, v.waiting_parents[c] # {}
        PROVE  c \in On(v)
    BY <1>3, <1>4, <1>5, <1>6, <2>2 DEF Track, Met
  <2>3. ASSUME NEW c \in Node, NEW p \in v.waiting_parents[c] PROVE v.state[p] # NoState
    <3>1. p \in w.waiting_parents[c]
      BY <1>4, <2>3
    <3> QED BY <1>2, <1>6, <3>1 DEF Track, Met
  <2>4. ASSUME ~v.stopped, NEW t \in Range(g.top), v.state[t] = NoState
        PROVE  t \in On(v) \cup Range(v.top_targets_left)
    BY <1>3, <1>5, <1>6, <2>1, <2>4 DEF Track, Met
  <2> QED BY <2>2, <2>3, <2>4 DEF Met
<1>9. Remembered(g, v, F, {})
  <2> SUFFICES ASSUME NEW n \in Node, v.state[n] = Pending,
                      v.stopped => v.waiting_parents[n] # {}
               PROVE  \/ n \in On(v) \/ WaitsFor(v, n) # {}
                      \/ \E U \in F : \E s \in SideEffects(g, U) : n \in v.waiting_s_e[s]
                      \/ Lost(g, v, n)
    BY DEF Remembered
  <2>1. w.state[n] = Pending /\ n \notin V /\ (w.stopped => w.waiting_parents[n] # {})
    BY <1>4, <1>6
  <2>2. \/ n \in On(w) \cup X \/ WaitsFor(w, n) # {}
        \/ \E U \in F : \E s \in SideEffects(g, U) : n \in w.waiting_s_e[s]
        \/ Lost(g, w, n)
    BY <2>1 DEF Track, Remembered
  <2> QED BY <1>3, <1>5, <2>1, <2>2
<1>10. Moving(g, v, F)
  <2>1. ASSUME NEW c \in Node, v.waiting_parents[c] # {}
        PROVE  v.state[c] \in {NoState, Pending, Executing, Failed} \/ \E U \in F : c \in U
    BY <1>4, <2>1 DEF Track, Moving
  <2>2. ASSUME NEW n \in Node, v.state[n] = Executing
        PROVE  \/ \E U \in F : n \in U
               \/ /\ n \in SideEffects(g, Node)
                  /\ v.stopped \/ \E U \in F : n \in SideEffects(g, U)
    BY <1>6, <2>2 DEF Track, Moving
  <2> QED BY <2>1, <2>2 DEF Moving
<1>11. Blamed(g, v)
  <2>1. ASSUME NEW n \in FailedOf(v)
        PROVE  g.targets[n] \subseteq FailedOf(v) \/ Deps(g, {n}) \cap FailedOf(v) # {}
    <3>1. CASE n \in T
      BY <1>3, <1>5, <3>1
    <3>2. CASE n \in V \ T
      <4>1. PICK m \in V : n \in w.waiting_parents[m]
        BY <1>3, <3>2
      <4>2. n \in Node /\ m \in Node
        BY <1>3, <3>2
      <4>3. m \in g.children[n] \cup Revealed(g, n)
        BY <4>1, <4>2 DEF Sound, WaitsForDeps
      <4>4. m \in Deps(g, {n})
        BY <4>2, <4>3, DepsOfNode
      <4> QED BY <1>5, <4>4
    <3>3. CASE n \in FailedOf(w)
      BY <1>5, <3>3 DEF Track, Blamed
    <3> QED BY <1>5, <2>1, <3>1, <3>2, <3>3
  <2>2. g.on_error = "stop" => \A n \in FailedOf(v) : v.stopped /\ v.waiting_parents[n] = {}
    <3>1. FailedOf(v) \subseteq Node
      BY DEF FailedOf
    <3> QED BY <1>4, <1>5, <3>1 DEF Track, Blamed
  <2> QED BY <2>1, <2>2 DEF Blamed
<1>12. \A t \in T : v.state[t] # Executing /\ v.waiting_parents[t] = {}
  BY <1>3, <1>4 DEF Failed, Executing
<1>13. FailedOf(v) # {}
  BY <1>3, <1>5
<1> QED BY <1>7, <1>8, <1>9, <1>10, <1>11, <1>12, <1>13 DEF Track

\* After postprocess the task T is no longer in hand: it was for T itself, or for
\* the current top target in the place of a task that failed and stopped the build.
LEMMA PostTrack ==
  ASSUME NEW g \in Builds, WrittenOnly(g), NEW w, Sound(g, w), NEW F, NEW G,
         NEW T \in SUBSET Node, F \subseteq G \cup {T}, Track(g, w, F, {}),
         \A t \in T : w.state[t] # Executing,
         NEW P \in SUBSET Node,
         P = T \/ /\ w.stopped /\ g.on_error = "stop" /\ FailedOf(w) # {}
                  /\ \A t \in T : w.waiting_parents[t] = {},
         NEW v \in Postprocess(g, w, P)
  PROVE  Track(g, v, G, {})
<1>1. /\ \A n \in Node : v.state[n] =
           IF n \in SideEffects(g, P) /\ w.state[n] = Executing THEN NoState
           ELSE w.state[n]
      /\ \A n \in Node : v.waiting_parents[n] = IF n \in P THEN {} ELSE w.waiting_parents[n]
      /\ v.waiting_s_e = w.waiting_s_e /\ v.stopped = w.stopped
      /\ v.top_targets_left = w.top_targets_left
      /\ Sound(g, v)
  BY PostprocessFields
<1>a. \A A \in SUBSET Node :
        /\ w.candidates \in Seq(A)
        /\ \A n \in Node : w.waiting_parents[n] \subseteq A /\ w.waiting_s_e[n] \subseteq A
        => v.candidates \in Seq(A)
  BY PostprocessFields
<1>2. /\ v.pending_children = w.pending_children \ {t \in P : w.waiting_parents[t] # {}}
      /\ On(w) \subseteq On(v)
      /\ \A n \in Node : WaitsFor(w, n) # {} => WaitsFor(v, n) # {} \/ n \in On(v)
      /\ \A n \in Node : \A s \in SideEffects(g, P) :
           n \in w.waiting_s_e[s] /\ WaitsFor(w, n) = {} => n \in On(v)
  BY PostprocessElements
<1>3. /\ w \in WalkType /\ w.candidates \in Seq(Node)
      /\ SideEffects(g, P) \subseteq SideEffects(g, Node)
      /\ \A s \in SideEffects(g, Node) :
           s \in Node /\ s \notin Asked(g) /\ w.waiting_parents[s] = {}
  <2>1. w \in WalkType /\ w.candidates \in Seq(Node)
    BY DEF Sound, WalkType
  <2> QED BY <2>1, SideEffectsType, WrittenFacts, NobodyWaits
<1>4. On(v) \subseteq Needed(g)
  <2>1. w.candidates \in Seq(Needed(g))
    <3>1. \A i \in 1 .. Len(w.candidates) : w.candidates[i] \in Needed(g)
      BY <1>3 DEF Track, Reached, On, Range
    <3> QED BY <1>3, <3>1
  <2>2. v.candidates \in Seq(Needed(g))
    BY <1>a, <2>1, NeededFacts DEF Track, Reached
  <2> QED BY <2>2 DEF On, Range
<1>5. /\ FailedOf(v) = FailedOf(w)
      /\ \A n \in Node : Lost(g, v, n) <=> Lost(g, w, n)
  <2>1. \A n \in Node : v.state[n] = Failed <=> w.state[n] = Failed
    BY <1>1 DEF Executing, NoState, Failed
  <2>2. FailedOf(v) = FailedOf(w)
    BY <2>1 DEF FailedOf
  <2> QED BY <1>1, <2>2 DEF Lost
<1>6. /\ \A n \in Node : v.state[n] = NoState
            => w.state[n] = NoState \/ n \in SideEffects(g, Node)
      /\ \A n \in Node : v.state[n] = Pending => w.state[n] = Pending
      /\ \A n \in Node : v.state[n] = Executing
            => w.state[n] = Executing /\ n \notin SideEffects(g, P)
      /\ \A n \in Node : w.state[n] # NoState /\ n \notin SideEffects(g, Node)
            => v.state[n] # NoState
  BY <1>1, <1>3 DEF NoState, Pending, Executing
<1>7. Reached(g, v) /\ Awaited(v) /\ Acyclic(v)
  <2>1. w.pending_children \subseteq Node
    BY <1>3 DEF WalkType
  <2>2. \A n \in w.pending_children : n \in v.pending_children \/ v.waiting_parents[n] = {}
                                         \/ v.state[n] # Pending
    BY <1>1, <1>2, <2>1
  <2>3. \A n \in v.pending_children : v.waiting_parents[n] = w.waiting_parents[n]
    BY <1>1, <1>2, <2>1
  <2>4. \A n \in Node : /\ v.waiting_parents[n] \subseteq w.waiting_parents[n]
                        /\ v.state[n] = Pending => w.state[n] = Pending
    BY <1>1, <1>6
  <2>5. v.pending_children \subseteq w.pending_children
    BY <1>2
  <2> QED BY <1>1, <1>4, <2>2, <2>3, <2>4, <2>5, TrackShrinks
<1>8. Met(g, v, {})
  <2>0. /\ Range(g.top) \subseteq Asked(g) /\ Range(g.top) \subseteq Node
        /\ Needed(g) \subseteq Asked(g) /\ Needed(g) \subseteq Node
    BY NeededFacts, AskedFacts
  <2>1. ASSUME NEW c \in Node, v.state[c] = NoState, v.waiting_parents[c] # {}
        PROVE  c \in On(v)
    <3>1. w.waiting_parents[c] # {} /\ c \notin SideEffects(g, Node)
      BY <1>1, <1>3, <2>1
    <3> QED BY <1>2, <1>6, <2>1, <3>1 DEF Track, Met
  <2>2. ASSUME NEW c \in Node, NEW p \in v.waiting_parents[c] PROVE v.state[p] # NoState
    <3>1. p \in w.waiting_parents[c]
      BY <1>1, <2>2
    <3>2. p \in Node /\ p \in Asked(g) /\ w.state[p] # NoState
      BY <2>0, <3>1 DEF Track, Reached, Met
    <3> QED BY <1>3, <1>6, <3>2
  <2>3. ASSUME ~v.stopped, NEW t \in Range(g.top), v.state[t] = NoState
        PROVE  t \in On(v) \cup Range(v.top_targets_left)
    <3>1. t \in Node /\ t \notin SideEffects(g, Node)
      BY <1>3, <2>0
    <3> QED BY <1>1, <1>2, <1>6, <2>3, <3>1 DEF Track, Met
  <2> QED BY <2>1, <2>2, <2>3 DEF Met
<1>9. Remembered(g, v, G, {})
  <2> SUFFICES ASSUME NEW n \in Node, v.state[n] = Pending,
                      v.stopped => v.waiting_parents[n] # {}, n \notin On(v)
               PROVE  \/ WaitsFor(v, n) # {}
                      \/ \E U \in G : \E s \in SideEffects(g, U) : n \in v.waiting_s_e[s]
                      \/ Lost(g, v, n)
    BY DEF Remembered
  <2>1. w.state[n] = Pending /\ (w.stopped => w.waiting_parents[n] # {})
    BY <1>1, <1>6
  <2>2. \/ n \in On(w) \/ WaitsFor(w, n) # {}
        \/ \E U \in F : \E s \in SideEffects(g, U) : n \in w.waiting_s_e[s]
        \/ Lost(g, w, n)
    BY <2>1 DEF Track, Remembered
  <2>3. CASE n \in On(w) \/ WaitsFor(w, n) # {} \/ Lost(g, w, n)
    BY <1>2, <1>5, <2>3
  <2>4. CASE /\ WaitsFor(w, n) = {}
             /\ \E U \in F : \E s \in SideEffects(g, U) : n \in w.waiting_s_e[s]
    <3>1. PICK U \in F : \E s \in SideEffects(g, U) : n \in w.waiting_s_e[s]
      BY <2>4
    <3>2. CASE U \in G
      BY <1>1, <3>1, <3>2
    <3>3. CASE U = T /\ P = T
      BY <1>2, <2>4, <3>1, <3>3
    <3>4. CASE U = T /\ w.stopped /\ g.on_error = "stop" /\ FailedOf(w) # {}
      <4>1. SideEffects(g, T) \subseteq SideEffects(g, Node)
        BY SideEffectsType
      <4>2. Lost(g, w, n)
        BY <3>1, <3>4, <4>1 DEF Lost
      <4> QED BY <1>5, <4>2
    <3> QED BY <3>1, <3>2, <3>3, <3>4
  <2> QED BY <2>2, <2>3, <2>4
<1>10. Moving(g, v, G)
  <2>1. ASSUME NEW n \in Node, v.state[n] = Executing
        PROVE  \/ \E U \in G : n \in U
               \/ /\ n \in SideEffects(g, Node)
                  /\ v.stopped \/ \E U \in G : n \in SideEffects(g, U)
    <3>1. w.state[n] = Executing /\ n \notin T /\ n \notin SideEffects(g, P)
      BY <1>6, <2>1
    <3>2. \/ \E U \in F : n \in U
          \/ /\ n \in SideEffects(g, Node)
             /\ w.stopped \/ \E U \in F : n \in SideEffects(g, U)
      BY <3>1 DEF Track, Moving
    <3> QED BY <1>1, <3>1, <3>2
  <2>2. ASSUME NEW c \in Node, v.waiting_parents[c] # {}
        PROVE  v.state[c] \in {NoState, Pending, Executing, Failed} \/ \E U \in G : c \in U
    <3>1. w.waiting_parents[c] # {} /\ c \notin P /\ c \notin T
      BY <1>1, <2>2
    <3>2. w.state[c] \in {NoState, Pending, Executing, Failed} \/ \E U \in F : c \in U
      BY <3>1 DEF Track, Moving
    <3> QED BY <1>1, <3>1, <3>2
  <2> QED BY <2>1, <2>2 DEF Moving
<1>11. Blamed(g, v)
  <2>1. FailedOf(v) \subseteq Node
    BY DEF FailedOf
  <2> QED BY <1>1, <1>5, <2>1 DEF Track, Blamed
<1> QED BY <1>7, <1>8, <1>9, <1>10, <1>11 DEF Track

\* However a task ends, nothing is forgotten.
LEMMA DoneTrack ==
  ASSUME NEW g \in Builds, WrittenOnly(g), NEW w, Sound(g, w), OnlyWritten(g, w),
         NEW F, NEW T \in SUBSET Node, Track(g, w, F \cup {T}, {}),
         NEW v \in DoneTask(g, w, T)
  PROVE  Track(g, v, F, {})
<1>1. PICK G, u : G = F \cup {T} /\ u = ExecutedTask(g, w, T)
  OBVIOUS
<1>2. Track(g, u, G, {}) /\ \A t \in T : u.state[t] # Executing
  BY <1>1, ExecutedTrack
<1>3. Sound(g, u)
  BY <1>1, ExecutedSound
<1>4. v \in Postprocess(g, u, T)
  BY <1>1 DEF DoneTask
<1> QED BY <1>1, <1>2, <1>3, <1>4, PostTrack

\* A task fails; x is the walk, or the walk where its targets were made ready.
LEMMA FailedTrack ==
  ASSUME NEW g \in Builds, WrittenOnly(g), NEW w, Sound(g, w),
         NEW F, NEW X, NEW n \in Node, NEW T, T = g.targets[n], Track(g, w, F \cup {T}, X),
         X \subseteq T, g.on_error # "ignore",
         NEW x, Sound(g, x), x.current_top \in Node,
         x.waiting_parents = w.waiting_parents, x.waiting_s_e = w.waiting_s_e,
         x.candidates = w.candidates, x.pending_children = w.pending_children,
         x.top_targets_left = w.top_targets_left, x.stopped = w.stopped,
         \A m \in Node : m \in T \/ x.state[m] = w.state[m],
         NEW v \in FailedTask(g, x, T)
  PROVE  Track(g, v, F, {})
<1>1. T \in SUBSET Node /\ n \in T /\ \A t \in T : g.targets[t] = T
  BY TargetsFacts
<1>2. PICK G : G = F \cup {T}
  OBVIOUS
<1>3. PICK f : f = WillNotBuild(x, T, TRUE)
  OBVIOUS
<1>4. x \in WalkType
  BY DEF Sound
<1>5. PICK V : V = Waiters(x, T)
  OBVIOUS
<1>6. V = Waiters(w, T)
  BY <1>5 DEF Waiters
<1>7. T \subseteq V
  BY <1>4, <1>1, <1>5, WaitersFacts
<1>8. PICK b : b = TRUE
  OBVIOUS
<1>9. b \in BOOLEAN /\ f = WillNotBuild(x, T, b)
  BY <1>3, <1>8
<1>10. /\ \A m \in Node : f.state[m] = IF b /\ m \in V THEN Failed ELSE x.state[m]
       /\ \A m \in Node : f.waiting_parents[m] = IF m \in V THEN {} ELSE x.waiting_parents[m]
       /\ f.pending_children = x.pending_children \ V
       /\ f.waiting_s_e = x.waiting_s_e /\ f.candidates = x.candidates
       /\ f.top_targets_left = x.top_targets_left /\ f.stopped = x.stopped
       /\ f.current_top = x.current_top /\ f \in WalkType
  BY <1>4, <1>1, <1>5, <1>9, WillNotBuildFields
<1>11. \A m \in Node : f.state[m] = IF m \in V THEN Failed ELSE w.state[m]
  BY <1>10, <1>8, <1>7
<1>12. Sound(g, f)
  BY <1>1, <1>9, WillNotBuildSound
<1>13. LET Q == Waiters(w, T) IN
         /\ \A m \in Node : f.state[m] = IF m \in Q THEN Failed ELSE w.state[m]
         /\ \A m \in Node : f.waiting_parents[m] = IF m \in Q THEN {} ELSE w.waiting_parents[m]
         /\ f.pending_children = w.pending_children \ Q
  BY <1>6, <1>10, <1>11
<1>14. w.stopped \in BOOLEAN /\ f.stopped \in BOOLEAN
  BY <1>10 DEF Sound, WalkType
<1>15. CASE g.on_error = "keep"
  <2>1. v \in Postprocess(g, f, T)
    BY <1>3, <1>15 DEF FailedTask
  <2>2. f.stopped = (w.stopped \/ g.on_error = "stop")
    BY <1>14, <1>10, <1>15
  <2>3. Track(g, f, G, {}) /\ \A t \in T : f.state[t] # Executing
    BY <1>1, <1>2, <1>13, <1>10, <1>15, <2>2, GivenUpTrack
  <2>4. G \subseteq F \cup {T}
    BY <1>2
  <2> QED BY <1>1, <1>12, <2>1, <2>3, <2>4, PostTrack
<1>16. CASE g.on_error = "stop"
  <2>1. PICK h : h = [f EXCEPT !.stopped = TRUE]
    OBVIOUS
  <2>2. v \in Postprocess(g, h, {x.current_top})
    BY <1>3, <1>16, <2>1 DEF FailedTask
  <2>3. /\ Sound(g, h) /\ h.stopped /\ h.state = f.state
        /\ h.waiting_parents = f.waiting_parents /\ h.waiting_s_e = f.waiting_s_e
        /\ h.candidates = f.candidates /\ h.top_targets_left = f.top_targets_left
    BY <1>12, <2>1, StoppedFields
  <2>4. h.pending_children = f.pending_children
    BY <1>10, <2>1 DEF WalkType
  <2>5. h.stopped = (w.stopped \/ g.on_error = "stop")
    BY <1>10, <1>16, <2>1 DEF WalkType
  <2>6. /\ Track(g, h, G, {}) /\ FailedOf(h) # {}
        /\ \A t \in T : h.state[t] # Executing /\ h.waiting_parents[t] = {}
    BY <1>1, <1>2, <1>13, <1>10, <1>16, <2>3, <2>4, <2>5, GivenUpTrack
  <2>7. PICK P : P = {x.current_top} /\ P \in SUBSET Node
    OBVIOUS
  <2>8. v \in Postprocess(g, h, P)
    BY <2>2, <2>7
  <2>9. G \subseteq F \cup {T}
    BY <1>2
  <2>10. P = T \/ /\ h.stopped /\ g.on_error = "stop" /\ FailedOf(h) # {}
                  /\ \A t \in T : h.waiting_parents[t] = {}
    BY <1>16, <2>3, <2>6
  <2>11. /\ Track(g, h, G, {}) /\ \A t \in T : h.state[t] # Executing
         /\ T \in SUBSET Node /\ Sound(g, h) /\ P \in SUBSET Node
    BY <1>1, <2>3, <2>6, <2>7
  <2> QED BY <2>8, <2>9, <2>10, <2>11, PostTrack
<1> QED BY <1>15, <1>16, BuildType

\* After stop() the candidates are dropped, and nobody waits for them.
LEMMA FlushTrack ==
  ASSUME NEW g \in Builds, NEW w \in WalkType, NEW F, Track(g, w, F, {}), w.stopped
  PROVE  Track(g, Flush(w), F, {})
<1>1. PICK v, V : v = Flush(w) /\ V = Waiters(w, On(w))
  OBVIOUS
<1>2. /\ v.state = w.state /\ v.candidates = <<>> /\ On(v) = {} /\ On(w) \in SUBSET Node
      /\ \A n \in Node : v.waiting_parents[n] = IF n \in V THEN {} ELSE w.waiting_parents[n]
      /\ v.pending_children = w.pending_children \ V
      /\ v.waiting_s_e = w.waiting_s_e /\ v.stopped = w.stopped
      /\ v.top_targets_left = w.top_targets_left
  BY <1>1, FlushFields
<1>3. /\ V \in SUBSET Node /\ On(w) \subseteq V
      /\ \A m \in V : w.waiting_parents[m] \subseteq V
  BY <1>1, <1>2, WaitersFacts
<1>4. /\ FailedOf(v) = FailedOf(w) /\ \A n \in Node : Lost(g, v, n) <=> Lost(g, w, n)
      /\ \A n \in Node \ V : WaitsFor(v, n) = WaitsFor(w, n)
  <2>1. FailedOf(v) = FailedOf(w)
    BY <1>2 DEF FailedOf
  <2>2. \A n \in Node \ V : WaitsFor(v, n) = WaitsFor(w, n)
    BY <1>2, <1>3 DEF WaitsFor
  <2> QED BY <1>2, <2>1, <2>2 DEF Lost
<1>5. Reached(g, v) /\ Awaited(v) /\ Acyclic(v)
  <2>1. \A n \in w.pending_children : n \in v.pending_children \/ v.waiting_parents[n] = {}
                                         \/ v.state[n] # Pending
    BY <1>2, <1>3
  <2>2. w.pending_children \subseteq Node
    BY DEF WalkType
  <2>3. \A n \in v.pending_children : v.waiting_parents[n] = w.waiting_parents[n]
    BY <1>2, <2>2
  <2>4. \A n \in Node : /\ v.waiting_parents[n] \subseteq w.waiting_parents[n]
                        /\ v.state[n] = Pending => w.state[n] = Pending
    BY <1>2
  <2>5. v.pending_children \subseteq w.pending_children /\ On(v) \subseteq Needed(g)
    BY <1>2
  <2>6. w.stopped => v.stopped
    BY <1>2
  <2> QED BY <1>2, <2>1, <2>3, <2>4, <2>5, <2>6, TrackShrinks
<1>6. Met(g, v, {})
  <2>1. ASSUME NEW c \in Node, v.state[c] = NoState, v.waiting_parents[c] # {}
        PROVE  c \in On(v)
    BY <1>2, <1>3, <2>1 DEF Track, Met
  <2>2. ASSUME NEW c \in Node, NEW p \in v.waiting_parents[c] PROVE v.state[p] # NoState
    BY <1>2, <2>2 DEF Track, Met
  <2> QED BY <1>2, <2>1, <2>2 DEF Met
<1>7. Remembered(g, v, F, {})
  <2> SUFFICES ASSUME NEW n \in Node, v.state[n] = Pending,
                      v.stopped => v.waiting_parents[n] # {}
               PROVE  \/ n \in On(v) \/ WaitsFor(v, n) # {}
                      \/ \E U \in F : \E s \in SideEffects(g, U) : n \in v.waiting_s_e[s]
                      \/ Lost(g, v, n)
    BY DEF Remembered
  <2>1. n \notin V /\ w.state[n] = Pending /\ w.waiting_parents[n] # {}
    BY <1>2
  <2>2. \/ n \in On(w) \/ WaitsFor(w, n) # {}
        \/ \E U \in F : \E s \in SideEffects(g, U) : n \in w.waiting_s_e[s]
        \/ Lost(g, w, n)
    BY <2>1 DEF Track, Remembered
  <2> QED BY <1>2, <1>3, <1>4, <2>1, <2>2
<1>8. Moving(g, v, F)
  BY <1>2 DEF Track, Moving
<1>9. Blamed(g, v)
  <2>1. FailedOf(w) \subseteq Node
    BY DEF FailedOf
  <2> QED BY <1>2, <1>4, <2>1 DEF Track, Blamed
<1> QED BY <1>1, <1>5, <1>6, <1>7, <1>8, <1>9 DEF Track

\* A signal stops the walk, and changes nothing else.
LEMMA StoppedTrack ==
  ASSUME NEW g \in Builds, NEW w \in WalkType, NEW F, Track(g, w, F, {})
  PROVE  Track(g, [w EXCEPT !.stopped = TRUE], F, {})
<1>1. PICK v : v = [w EXCEPT !.stopped = TRUE]
  OBVIOUS
<1>2. /\ v.state = w.state /\ v.candidates = w.candidates
      /\ v.waiting_parents = w.waiting_parents /\ v.pending_children = w.pending_children
      /\ v.waiting_s_e = w.waiting_s_e /\ v.stopped
      /\ v.top_targets_left = w.top_targets_left
  BY <1>1 DEF WalkType
<1>3. /\ On(v) = On(w) /\ FailedOf(v) = FailedOf(w)
      /\ \A n \in Node : /\ Lost(g, v, n) <=> Lost(g, w, n)
                         /\ WaitsFor(v, n) = WaitsFor(w, n)
  <2>1. FailedOf(v) = FailedOf(w)
    BY <1>2 DEF FailedOf
  <2> QED BY <1>2, <2>1 DEF Lost, On, WaitsFor
<1>4. Reached(g, v)
  BY <1>2, <1>3 DEF Track, Reached
<1>5. Met(g, v, {})
  BY <1>2, <1>3 DEF Track, Met
<1>6. Remembered(g, v, F, {})
  <2> SUFFICES ASSUME NEW n \in Node, v.state[n] = Pending,
                      v.stopped => v.waiting_parents[n] # {}
               PROVE  \/ n \in On(v) \/ WaitsFor(v, n) # {}
                      \/ \E U \in F : \E s \in SideEffects(g, U) : n \in v.waiting_s_e[s]
                      \/ Lost(g, v, n)
    BY DEF Remembered
  <2>1. w.state[n] = Pending /\ w.waiting_parents[n] # {}
    BY <1>2
  <2>2. \/ n \in On(w) \/ WaitsFor(w, n) # {}
        \/ \E U \in F : \E s \in SideEffects(g, U) : n \in w.waiting_s_e[s]
        \/ Lost(g, w, n)
    BY <2>1 DEF Track, Remembered
  <2> QED BY <1>2, <1>3, <2>2
<1>7. Moving(g, v, F)
  BY <1>2 DEF Track, Moving
<1>8. Blamed(g, v) /\ Awaited(v) /\ Acyclic(v)
  BY <1>2, <1>3 DEF Track, Blamed, Awaited, Acyclic
<1> QED BY <1>1, <1>4, <1>5, <1>6, <1>7, <1>8 DEF Track

\* A target that is fetched from the cache is there.
LEMMA FetchedTrack ==
  ASSUME NEW g \in Builds, NEW w \in WalkType, NEW F, Track(g, w, F, {}),
         NEW t \in Node, NEW T \in F, t \in T, w.state[t] = Executing
  PROVE  Track(g, Fetched(w, t), F, {})
<1>1. PICK v : v = Fetched(w, t)
  OBVIOUS
<1>2. /\ \A n \in Node : v.state[n] = IF n = t THEN Executed ELSE w.state[n]
      /\ v.waiting_parents = w.waiting_parents /\ v.waiting_s_e = w.waiting_s_e
      /\ v.candidates = w.candidates /\ v.stopped = w.stopped
      /\ v.top_targets_left = w.top_targets_left
  BY <1>1, FetchedFields DEF Fetched
<1>3. v.pending_children = w.pending_children
  BY <1>1, PendingKept
<1>4. /\ \A n \in Node : v.state[n] = Failed <=> w.state[n] = Failed
      /\ \A n \in Node : v.state[n] = Pending <=> w.state[n] = Pending
      /\ \A n \in Node : v.state[n] = NoState <=> w.state[n] = NoState
      /\ \A n \in Node : v.state[n] = Executing => w.state[n] = Executing
  BY <1>2 DEF Executed, Executing, Failed, Pending, NoState
<1>5. /\ On(v) = On(w) /\ FailedOf(v) = FailedOf(w)
      /\ \A n \in Node : /\ Lost(g, v, n) <=> Lost(g, w, n)
                         /\ WaitsFor(v, n) = WaitsFor(w, n)
  <2>1. FailedOf(v) = FailedOf(w)
    BY <1>4 DEF FailedOf
  <2> QED BY <1>2, <2>1 DEF Lost, On, WaitsFor
<1>6. Reached(g, v) /\ Awaited(v) /\ Acyclic(v)
  <2>1. On(v) \subseteq Needed(g)
    BY <1>5 DEF Track, Reached
  <2> QED BY <1>2, <1>3, <1>4, <2>1, TrackShrinks
<1>7. Met(g, v, {})
  <2>1. Range(g.top) \subseteq Node /\ \A c \in Node : w.waiting_parents[c] \subseteq Node
    BY NeededFacts, AskedFacts DEF WalkType
  <2> QED BY <1>2, <1>4, <1>5, <2>1 DEF Track, Met
<1>8. Remembered(g, v, F, {})
  BY <1>2, <1>4, <1>5 DEF Track, Remembered
<1>9. Moving(g, v, F)
  BY <1>2, <1>4 DEF Track, Moving
<1>10. Blamed(g, v)
  BY <1>2, <1>5 DEF Track, Blamed
<1> QED BY <1>1, <1>6, <1>7, <1>8, <1>9, <1>10 DEF Track

\* At the start nothing was looked at, and all top targets are left.
LEMMA NewWalkTrack ==
  ASSUME NEW g \in Builds
  PROVE  Track(g, NewWalk(g), {}, {})
<1>1. PICK v : v = NewWalk(g)
  OBVIOUS
<1>2. /\ \A n \in Node : v.state[n] = NoState
      /\ \A n \in Node : v.waiting_parents[n] = {} /\ v.waiting_s_e[n] = {}
      /\ v.candidates = <<>> /\ v.stopped = FALSE /\ v.pending_children = {}
      /\ v.top_targets_left = Reverse(g.top)
  BY <1>1 DEF NewWalk
<1>3. Range(v.top_targets_left) = Range(g.top)
  <2>1. g.top \in Seq(Node)
    BY BuildType
  <2>2. PICK s, r : s = g.top /\ r = Reverse(s)
    OBVIOUS
  <2>3. /\ Len(s) \in Nat /\ DOMAIN s = 1 .. Len(s) /\ DOMAIN r = 1 .. Len(s)
        /\ \A i \in 1 .. Len(s) : r[i] = s[Len(s) - i + 1]
    BY <2>1, <2>2 DEF Reverse
  <2>4. \A i \in 1 .. Len(s) : /\ Len(s) - i + 1 \in 1 .. Len(s)
                               /\ Len(s) - (Len(s) - i + 1) + 1 = i
    BY <2>3
  <2>5. \A i \in 1 .. Len(s) : r[Len(s) - i + 1] = s[i]
    BY <2>3, <2>4
  <2>6. Range(r) = Range(s)
    BY <2>3, <2>4, <2>5 DEF Range
  <2> QED BY <1>2, <2>2, <2>6
<1>4. On(v) = {} /\ FailedOf(v) = {}
  BY <1>2 DEF On, Range, FailedOf, NoState, Failed
<1>5. Reached(g, v)
  BY <1>2, <1>3, <1>4 DEF Reached
<1>6. Met(g, v, {})
  BY <1>2, <1>3, <1>4 DEF Met
<1>7. \A n \in Node : v.state[n] # Pending /\ v.state[n] # Executing
  BY <1>2 DEF NoState, Pending, Executing
<1>8. Remembered(g, v, {}, {}) /\ Moving(g, v, {})
  BY <1>2, <1>7 DEF Remembered, Moving
<1>9. Blamed(g, v) /\ Awaited(v)
  BY <1>2, <1>4 DEF Blamed, Awaited
<1>10. Acyclic(v)
  BY <1>7 DEF Acyclic
<1> QED BY <1>1, <1>5, <1>6, <1>8, <1>9, <1>10 DEF Track

\* Nodes of which each depends on another one of them are on a cycle.
LEMMA OnCycle ==
  ASSUME NEW g \in Builds, NEW S \in SUBSET Node, S # {},
         \A n \in S : \E c \in S : c \in Deps(g, {n})
  PROVE  \E n \in S : n \in Below(g, Deps(g, {n}))
<1> DEFINE R(n) == Below(g, Deps(g, {n}))
           T == {R(n) : n \in S}
<1>1. \A n \in Node : Deps(g, {n}) \in SUBSET Node
  BY DepsFacts, AskedFacts
<1>2. \A n \in Node : R(n) \in SUBSET Node /\ Deps(g, {n}) \subseteq R(n)
  BY <1>1, BelowFacts
<1>3. ASSUME NEW n \in Node, NEW c \in Deps(g, {n}) PROVE R(c) \subseteq R(n)
  <2>1. PICK N, C : N = Deps(g, {n}) /\ C = Deps(g, {c})
    OBVIOUS
  <2>2. N \in SUBSET Node /\ c \in Node /\ C \in SUBSET Node
    BY <1>1, <2>1
  <2>3. /\ Below(g, N) \in SUBSET Node /\ N \subseteq Below(g, N)
        /\ \A m \in Below(g, N) : Deps(g, {m}) \subseteq Below(g, N)
    BY <2>2, BelowFacts
  <2>4. PICK M : M = Below(g, N)
    OBVIOUS
  <2>5. M \in SUBSET Node /\ N \subseteq M /\ \A m \in M : Deps(g, {m}) \subseteq M
    BY <2>3, <2>4
  <2>6. C \subseteq M
    BY <2>1, <2>5
  <2>7. Below(g, C) \subseteq M
    BY <2>2, <2>5, <2>6, BelowFacts
  <2> QED BY <2>1, <2>4, <2>7
<1>4. T # {} /\ T \subseteq SUBSET Node
  BY <1>2
<1>5. PICK s \in T : \A r \in T : r \subseteq s => r = s
  <2> HIDE DEF T
  <2>1. IsWellFoundedOn(StrictSubsetOrdering(Node), SUBSET Node)
    BY NodeAssumption, FS_StrictSubsetOrderingWellFounded, FS_FiniteSubsetsOfFinite
  <2>2. PICK x \in T : \A y \in T : ~ (<<y, x>> \in StrictSubsetOrdering(Node))
    BY <1>4, <2>1, WFMin
  <2> QED BY <1>4, <2>2 DEF StrictSubsetOrdering
<1> HIDE DEF R
<1>6. PICK n \in S : s = R(n)
  OBVIOUS
<1>7. PICK c \in S : c \in Deps(g, {n})
  OBVIOUS
<1>8. R(c) \in T /\ R(c) \subseteq s
  BY <1>3, <1>6, <1>7
<1>9. R(c) = R(n)
  BY <1>5, <1>6, <1>8
<1>10. c \in R(c)
  BY <1>2, <1>7, <1>9
<1> QED BY <1>10 DEF R

\* What the walk is like when nothing is left to do.
LEMMA LeftOver ==
  ASSUME NEW g \in Builds, WrittenOnly(g), NEW w, Sound(g, w), Track(g, w, {}, {}),
         w.candidates = <<>>, w.stopped \/ w.top_targets_left = <<>>,
         NEW n \in Node, w.waiting_parents[n] # {} \/ (~w.stopped /\ n \in Range(g.top))
  PROVE  w.waiting_parents[n] # {} \/ ~(w.state[n] > Executing)
           => w.state[n] \in {Pending, Failed}
<1>1. On(w) = {} /\ (w.stopped \/ Range(w.top_targets_left) = {})
  BY DEF On, Range
<1>2. w.state[n] # NoState
  BY <1>1 DEF Track, Met
<1>3. n \notin SideEffects(g, Node)
  <2>1. CASE w.waiting_parents[n] # {}
    BY <2>1, NobodyWaits
  <2>2. CASE n \in Range(g.top)
    BY <2>2, NeededFacts, WrittenFacts
  <2> QED BY <2>1, <2>2
<1>4. w.state[n] # Executing
  BY <1>3 DEF Track, Moving
<1>5. w.waiting_parents[n] # {} => w.state[n] \in {NoState, Pending, Executing, Failed}
  BY DEF Track, Moving
<1>6. w.state[n] \in NodeState
  BY DEF Sound, WalkType
<1> QED BY <1>2, <1>4, <1>5, <1>6 DEF NodeState, NoState, Pending, Executing, Failed

\* A top target that was not dealt with depends on a node that failed, or the
\* end is a cycle.
LEMMA EndsDone ==
  ASSUME NEW g \in Builds, WrittenOnly(g), NEW w, Sound(g, w), Track(g, w, {}, {}),
         w.candidates = <<>>, ~w.stopped, w.top_targets_left = <<>>,
         ~ReportsCycle(w), NEW t \in Range(g.top)
  PROVE  w.state[t] > Executing \/ \E d \in Below(g, {t}) : w.state[d] = Failed
<1> SUFFICES ASSUME ~(w.state[t] > Executing), \A d \in Below(g, {t}) : w.state[d] # Failed
             PROVE  FALSE
  OBVIOUS
<1> DEFINE L == Below(g, {t})
           S == {n \in L : w.state[n] = Pending}
<1>1. /\ t \in Node /\ L \in SUBSET Node /\ t \in L
      /\ \A n \in L : Deps(g, {n}) \subseteq L
  <2>1. t \in Node
    BY NeededFacts
  <2> QED BY <2>1, BelowFacts
<1>2. w.state[t] = Pending
  BY <1>1, LeftOver
<1>3. S \in SUBSET {n \in Node : w.state[n] = Pending} /\ S # {}
  BY <1>1, <1>2
<1>4. PICK n \in S : \A c \in S \ w.pending_children : n \notin w.waiting_parents[c]
  BY <1>3 DEF Track, Acyclic
<1>5. FailedOf(w) \cap Deps(g, {n}) = {}
  BY <1>1, <1>4 DEF FailedOf
<1>6. ~Lost(g, w, n)
  BY <1>5 DEF Lost, Track, Blamed
<1>7. WaitsFor(w, n) # {}
  <2>1. On(w) = {}
    BY DEF On, Range
  <2> QED BY <1>1, <1>4, <1>6, <2>1 DEF Track, Remembered
<1>8. PICK c \in Node : n \in w.waiting_parents[c]
  BY <1>7 DEF WaitsFor
<1>9. c \in L
  <2>1. c \in g.children[n] \cup Revealed(g, n)
    BY <1>8 DEF Sound, WaitsForDeps
  <2> QED BY <1>1, <1>4, <2>1, DepsOfNode
<1>10. w.state[c] = Pending
  BY <1>8, <1>9, LeftOver
<1>11. c \in w.pending_children
  BY <1>4, <1>8, <1>9, <1>10
<1> QED BY <1>10, <1>11 DEF ReportsCycle, Pending, Executed

\* With what failed cleared, what is left is a cycle.
LEMMA EndsCycle ==
  ASSUME NEW g \in Builds, WrittenOnly(g), NEW w, Sound(g, w), Track(g, w, {}, {}),
         w.candidates = <<>>, w.stopped \/ w.top_targets_left = <<>>,
         ReportsCycle(w),
         FailedOf(w) = {} \/ (g.on_error = "stop" /\ SideEffects(g, Node) = {})
  PROVE  \E n \in Needed(g) : n \in Below(g, Deps(g, {n}))
<1> DEFINE S == {c \in Node : w.waiting_parents[c] # {}}
<1>1. S # {}
  <2>1. w.pending_children \subseteq Node
    BY DEF Sound, WalkType
  <2> QED BY <2>1 DEF ReportsCycle, Track, Awaited
<1>2. ASSUME NEW n \in S PROVE w.state[n] = Pending
  <2>1. w.state[n] \in {Pending, Failed}
    BY LeftOver
  <2>2. ASSUME w.state[n] = Failed PROVE FALSE
    <3>1. n \in FailedOf(w)
      BY <2>2 DEF FailedOf
    <3> QED BY <3>1 DEF Track, Blamed
  <2> QED BY <2>1, <2>2
<1>3. \A n \in Node : ~Lost(g, w, n)
  BY DEF Lost
<1>4. ASSUME NEW n \in S PROVE \E c \in S : c \in Deps(g, {n})
  <2>1. On(w) = {}
    BY DEF On, Range
  <2>2. WaitsFor(w, n) # {}
    BY <1>2, <1>3, <2>1 DEF Track, Remembered
  <2>3. PICK c \in Node : n \in w.waiting_parents[c]
    BY <2>2 DEF WaitsFor
  <2>4. c \in g.children[n] \cup Revealed(g, n)
    BY <2>3 DEF Sound, WaitsForDeps
  <2> QED BY <2>3, <2>4, DepsOfNode
<1>5. S \subseteq Needed(g)
  <2> SUFFICES ASSUME NEW c \in S PROVE c \in Needed(g)
    OBVIOUS
  <2>1. PICK p \in Node : p \in w.waiting_parents[c]
    BY DEF Sound, WalkType
  <2>2. p \in Needed(g)
    BY <2>1 DEF Track, Reached
  <2>3. c \in g.children[p] \cup Revealed(g, p)
    BY <2>1 DEF Sound, WaitsForDeps
  <2> QED BY <2>1, <2>2, <2>3, DepsOfNode, NeededFacts
<1> HIDE DEF S
<1>6. S \in SUBSET Node
  BY DEF S
<1>7. \E n \in S : n \in Below(g, Deps(g, {n}))
  BY <1>1, <1>4, <1>6, OnCycle
<1> QED BY <1>5, <1>7

\* A stack of a batch exists: while top targets are left there is a next candidate.
LEMMA CandidateLeft ==
  ASSUME NEW g \in Builds, NEW w \in WalkType, NextCandidate(g, w) = {}
  PROVE  w.candidates = <<>> /\ w.top_targets_left = <<>>
<1>1. w.candidates = <<>>
  BY DEF NextCandidate
<1>2. \A S \in SUBSET Node : SetToSeqs(S) # {}
  <2> SUFFICES ASSUME NEW S \in SUBSET Node PROVE SetToSeqs(S) # {}
    OBVIOUS
  <2>1. IsFiniteSet(S)
    BY NodesFinite
  <2>2. ExistsBijection(1 .. Cardinality(S), S)
    BY <2>1, FS_CountingElements, FS_NatBijection, FS_CardinalityType
  <2>3. PICK f \in Bijection(1 .. Cardinality(S), S) : TRUE
    BY <2>2 DEF ExistsBijection
  <2>4. f \in SetToSeqs(S)
    BY <2>3 DEF SetToSeqs, Bijection, Injection, IsInjective
  <2> QED BY <2>4
<1>3. ASSUME w.top_targets_left # <<>> PROVE FALSE
  <2>1. PICK t : t = Last(w.top_targets_left)
    OBVIOUS
  <2>2. t \in Node
    BY <1>3, <2>1, PopType DEF WalkType
  <2>3. g.alt[t] \in SUBSET Node
    BY <2>2, BuildType
  <2>4. Pushed(<<t>>, g.alt[t]) # {}
    BY <1>2, <2>3 DEF Pushed
  <2>5. PoppedTop(g, w) = {}
    BY <1>1, <1>3 DEF NextCandidate
  <2> QED BY <2>1, <2>4, <2>5 DEF PoppedTop
<1> QED BY <1>1, <1>3

=============================================================================
