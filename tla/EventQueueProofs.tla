-------------------------- MODULE EventQueueProofs --------------------------
(***************************************************************************)
(* Proofs about EventQueue, for any generators, intervals and windows.      *)
(***************************************************************************)
EXTENDS EventQueue, TLAPS

\* Between events no member of the queue is due before the end of what the
\* last event covered, unless its time is about to be drawn again; inside
\* one, none is due before the event started.
Ahead ==
  /\ pc \in {"fill", "track"} => ~needReset
  /\ pc = "fill" => \A id \in Queue : at[id] >= 0
  /\ pc \in {"idle", "track"} => covered >= now
  /\ pc = "track" => covered = now + window
  /\ pc \in {"idle", "track"} => \A id \in Queue :
       id \in Tracks \/ ~needReset => now + at[id] >= covered

\* A waiting track is due when it was stopped.
Place ==
  \A tr \in Tracks :
    /\ tr \in Queue => now + at[tr] = stopped[tr]
    /\ stopped[tr] = None =>
         tr \notin Queue /\ resumed[tr] = {} /\ tr \notin lost

\* A generator is due one interval after its last vertex.
Spaced ==
  ~needReset => \A g \in Gens :
    g \in Queue /\ last[g] # None => (now + at[g]) - last[g] \in Gaps

IInv ==
  /\ TypeOK /\ Ahead /\ Place /\ Spaced
  /\ DeferredKeepsTime /\ DeferredNotLost

-----------------------------------------------------------------------------
\* The initial state satisfies the inductive invariant.
THEOREM InitIInv == Init => IInv
BY QueueAssumption DEF Init, IInv, TypeOK, Ahead, Place, Spaced, DeferredKeepsTime,
   DeferredNotLost, Queue, None, Members

\* Adding a generator disturbs no time but its own, which is drawn afresh.
LEMMA AddKeeps ==
  ASSUME IInv, NEW g \in Gens, AddGenerator(g)
  PROVE  IInv'
<1>1. PICK t \in Garbage : at' = With(at, g, t)
  BY DEF AddGenerator
<1>2. /\ Queue' = Queue \cup {g}
      /\ \A id \in Queue : at'[id] = at[id]
  BY <1>1 DEF With, Queue, AddGenerator
<1>3. TypeOK'
  BY <1>1, <1>2, QueueAssumption
  DEF IInv, TypeOK, AddGenerator, With, Queue, Members
<1>4. Ahead'
  BY <1>2, <1>3, QueueAssumption DEF IInv, TypeOK, Ahead, AddGenerator, Members
<1>5. Place'
  BY <1>2, QueueAssumption DEF IInv, Place, AddGenerator
<1>6. Spaced' /\ DeferredKeepsTime' /\ DeferredNotLost'
  BY <1>2, QueueAssumption
  DEF IInv, Spaced, DeferredKeepsTime, DeferredNotLost, AddGenerator
<1> QED BY <1>3, <1>4, <1>5, <1>6 DEF IInv

\* Clearing moves every waiting track to the lost ones.
LEMMA ClearKeeps == ASSUME IInv, ClearGenerators PROVE IInv'
<1>1. Queue' = {} /\ at' = [id \in {} |-> at[id]]
  BY DEF ClearGenerators, Without, Queue
<1>2. TypeOK'
  BY <1>1 DEF IInv, TypeOK, ClearGenerators, Queue
<1>3. Ahead' /\ Spaced'
  BY <1>1 DEF IInv, TypeOK, Ahead, Spaced, ClearGenerators
<1>4. Place' /\ DeferredKeepsTime' /\ DeferredNotLost'
  BY <1>1
  DEF IInv, Place, DeferredKeepsTime, DeferredNotLost, ClearGenerators
<1> QED BY <1>2, <1>3, <1>4 DEF IInv

\* Setting the window happens between events, where no time depends on it.
LEMMA WindowKeeps ==
  ASSUME IInv, NEW w \in Windows, SetEventWindow(w)
  PROVE  IInv'
<1>1. TypeOK'
  BY QueueAssumption DEF IInv, TypeOK, SetEventWindow, Queue
<1>2. Ahead' /\ Place' /\ Spaced' /\ DeferredKeepsTime' /\ DeferredNotLost'
  BY DEF IInv, TypeOK, Ahead, Place, Spaced, DeferredKeepsTime,
     DeferredNotLost, SetEventWindow, Queue
<1> QED BY <1>1, <1>2 DEF IInv

-----------------------------------------------------------------------------
\* What the reset loop leaves: the same members, the tracks at their times,
\* and nobody due before the clock.
LEMMA ResetFacts ==
  ASSUME IInv, pc = "idle", NEW q \in ResetQueues
  PROVE  /\ q \in [Queue -> Int]
         /\ \A id \in Queue : q[id] >= 0
         /\ ~needReset => q = at
         /\ \A id \in Queue \cap Tracks : q[id] = at[id]
         /\ needReset => \A g \in Queue \cap Gens : q[g] \in Gaps
<1> USE DEF IInv
<1>1. CASE needReset
  <2>1. PICK draw \in [Queue \cap Gens -> Gaps] :
          q = [id \in Queue |-> IF id \in Gens THEN draw[id] ELSE at[id]]
    BY <1>1 DEF ResetQueues
  <2>2. \A id \in Queue : /\ id \in Gens => q[id] \in Gaps
                          /\ id \notin Gens => q[id] = at[id] /\ id \in Tracks
    BY <2>1 DEF TypeOK, Members
  <2>3. \A id \in Queue \cap Tracks : at[id] >= 0
    BY DEF TypeOK, Ahead
  <2>4. q \in [Queue -> Int] /\ \A id \in Queue : q[id] >= 0
    <3>1. \A id \in Queue : q[id] \in Int /\ q[id] >= 0
      <4> TAKE id \in Queue
      <4>1. CASE id \in Gens
        <5>1. q[id] \in Nat
          BY <2>2, <4>1, QueueAssumption
        <5> QED BY <5>1
      <4>2. CASE id \notin Gens
        <5>1. at[id] \in Int
          BY DEF TypeOK
        <5> QED BY <2>2, <2>3, <4>2, <5>1
      <4> QED BY <4>1, <4>2
    <3> QED BY <2>1, <3>1
  <2>5. \A id \in Queue \cap Tracks : id \notin Gens
    BY QueueAssumption
  <2> QED BY <1>1, <2>2, <2>4, <2>5
<1>2. CASE ~needReset
  <2>1. q = at
    BY <1>2 DEF ResetQueues
  <2>2. \A id \in Queue : at[id] >= 0
    BY <1>2 DEF TypeOK, Ahead
  <2> QED BY <1>2, <2>1, <2>2 DEF TypeOK
<1> QED BY <1>1, <1>2

\* An event that starts moves the clock and the whole queue together.
LEMMA StartKeeps == ASSUME IInv, StartEvent PROVE IInv'
<1> USE DEF IInv
<1>1. PICK q \in ResetQueues :
       \/ /\ Queue = {} /\ pc' = "fatal"
          /\ UNCHANGED <<at, now, last>>
       \/ \E top \in Queue :
            /\ \A id \in Queue : q[top] <= q[id]
            /\ now' = now + q[top]
            /\ at' = Shift(q, q[top])
            /\ last' = IF needReset THEN [g \in Gens |-> None] ELSE last
            /\ pc' = "fill"
  BY DEF StartEvent
<1>2. /\ pc = "idle" /\ events < MaxEvents /\ events' = events + 1
      /\ utc' = now /\ ext' = None /\ needReset' = FALSE
      /\ UNCHANGED <<window, covered, stopped, resumed, lost>>
  BY DEF StartEvent
<1>3. events' \in 0 .. MaxEvents
  BY <1>2, QueueAssumption DEF TypeOK
<1>4. CASE /\ Queue = {} /\ pc' = "fatal"
           /\ UNCHANGED <<at, now, last>>
  <2>1. Queue' = Queue
    BY <1>4 DEF Queue
  <2>2. TypeOK'
    BY <1>2, <1>4, <1>3, <2>1 DEF TypeOK
  <2>3. Ahead' /\ Place' /\ Spaced' /\ DeferredKeepsTime' /\ DeferredNotLost'
    BY <1>2, <1>4, <2>1
    DEF Ahead, Place, Spaced, DeferredKeepsTime, DeferredNotLost
  <2> QED BY <2>2, <2>3
<1>5. CASE \E top \in Queue :
            /\ \A id \in Queue : q[top] <= q[id]
            /\ now' = now + q[top]
            /\ at' = Shift(q, q[top])
            /\ last' = IF needReset THEN [g \in Gens |-> None] ELSE last
            /\ pc' = "fill"
  <2>1. PICK top \in Queue :
            /\ \A id \in Queue : q[top] <= q[id]
            /\ now' = now + q[top]
            /\ at' = Shift(q, q[top])
            /\ last' = IF needReset THEN [g \in Gens |-> None] ELSE last
            /\ pc' = "fill"
    BY <1>5
  <2>2. /\ q \in [Queue -> Int]
        /\ \A id \in Queue : q[id] >= 0
        /\ ~needReset => q = at
        /\ \A id \in Queue \cap Tracks : q[id] = at[id]
        /\ needReset => \A g \in Queue \cap Gens : q[g] \in Gaps
    BY <1>2, ResetFacts
  <2>3. /\ Queue' = Queue
        /\ at' \in [Queue -> Int]
        /\ \A id \in Queue : at'[id] = q[id] - q[top]
    BY <2>1, <2>2 DEF Shift, Queue
  <2>4. TypeOK'
    <3>1. now' \in Nat /\ last' \in [Gens -> Nat \cup {None}]
      BY <2>1, <2>2 DEF TypeOK
    <3>2. Queue' \subseteq Members /\ at' \in [Queue' -> Int]
      BY <2>3 DEF TypeOK
    <3> QED BY <1>2, <1>3, <2>1, <3>1, <3>2 DEF TypeOK
  <2>5. Ahead'
    BY <1>2, <2>1, <2>2, <2>3 DEF Ahead, TypeOK
  <2>6. Place'
    BY <1>2, <2>1, <2>2, <2>3 DEF Place, TypeOK
  <2>7. Spaced'
    BY <1>2, <2>1, <2>2, <2>3 DEF Spaced, TypeOK
  <2>8. DeferredKeepsTime' /\ DeferredNotLost'
    BY <1>2, <2>3 DEF DeferredKeepsTime, DeferredNotLost
  <2> QED BY <2>4, <2>5, <2>6, <2>7, <2>8
<1> QED BY <1>1, <1>4, <1>5

\* A generator that fires is due again one interval later.
LEMMA FireGenKeeps ==
  ASSUME IInv, NEW id \in Gens, Fire(id)
  PROVE  IInv'
<1> USE DEF IInv
<1>1. /\ pc = "fill" /\ id \in Queue /\ id \notin Tracks
      /\ UNCHANGED <<pc, needReset, window, now, utc, events, covered, stopped,
                     lost, resumed>>
      /\ last' = [last EXCEPT ![id] = now + at[id]]
      /\ ext' = IF id \in Triggers THEN 0 ELSE ext
  BY QueueAssumption DEF Fire, Earliest
<1>2. PICK gap \in Gaps : at' = [at EXCEPT ![id] = ResetTime(@, gap)]
  BY QueueAssumption DEF Fire
<1>3. /\ at[id] \in Nat /\ at \in [Queue -> Int] /\ now \in Nat
  BY <1>1 DEF TypeOK, Ahead
<1>4. /\ Queue' = Queue
      /\ at' \in [Queue -> Int]
      /\ at'[id] = at[id] + gap
      /\ \A x \in Queue \ {id} : at'[x] = at[x]
  BY <1>1, <1>2, <1>3, QueueAssumption DEF Queue, ResetTime
<1>5. TypeOK'
  BY <1>1, <1>3, <1>4 DEF TypeOK, None
<1>6. Ahead'
  BY <1>1, <1>3, <1>4, QueueAssumption DEF Ahead, TypeOK
<1>7. Place'
  BY <1>1, <1>4 DEF Place
<1>8. Spaced'
  BY <1>1, <1>3, <1>4, QueueAssumption DEF Spaced, TypeOK
<1>9. DeferredKeepsTime' /\ DeferredNotLost'
  BY <1>1, <1>4 DEF DeferredKeepsTime, DeferredNotLost
<1> QED BY <1>5, <1>6, <1>7, <1>8, <1>9

\* A deferred track fires when it was stopped, and leaves the queue.
LEMMA FireTrackKeeps ==
  ASSUME IInv, NEW id \in Tracks, Fire(id)
  PROVE  IInv'
<1> USE DEF IInv
<1>1. /\ pc = "fill" /\ id \in Queue /\ id \notin Gens
      /\ UNCHANGED <<pc, needReset, window, now, utc, events, covered, stopped,
                     lost, last, ext>>
      /\ at' = Without(at, {id})
      /\ resumed' = [resumed EXCEPT ![id] = @ \cup {now + at[id]}]
  BY QueueAssumption DEF Fire, Earliest, UsedUp
<1>2. /\ Queue' = Queue \ {id}
      /\ at' \in [Queue' -> Int]
      /\ \A x \in Queue' : at'[x] = at[x]
  BY <1>1 DEF Queue, Without, TypeOK
<1>3. now + at[id] = stopped[id] /\ now + at[id] \in Nat
  BY <1>1 DEF TypeOK, Ahead, Place
<1>4. /\ resumed'[id] = resumed[id] \cup {stopped[id]}
      /\ \A tr \in Tracks \ {id} : resumed'[tr] = resumed[tr]
  BY <1>1, <1>3 DEF TypeOK
<1>5. TypeOK'
  BY <1>1, <1>2, <1>3 DEF TypeOK
<1>6. Ahead' /\ Spaced'
  BY <1>1, <1>2 DEF Ahead, Spaced
<1>7. stopped[id] # None
  BY <1>3 DEF None
<1>8. Place'
  BY <1>1, <1>2, <1>4, <1>7 DEF Place
<1>9. DeferredKeepsTime' /\ DeferredNotLost'
  BY <1>1, <1>2, <1>4, <1>7 DEF DeferredKeepsTime, DeferredNotLost
<1> QED BY <1>5, <1>6, <1>8, <1>9

\* When the loop ends everything up to the window's end has fired.
LEMMA FilledKeeps == ASSUME IInv, Filled PROVE IInv'
<1> USE DEF IInv
<1>1. TypeOK'
  BY DEF TypeOK, Filled, Queue
<1>2. Ahead'
  BY DEF TypeOK, Ahead, Filled, Due, Queue
<1>3. Place' /\ Spaced' /\ DeferredKeepsTime' /\ DeferredNotLost'
  BY DEF Place, Spaced, DeferredKeepsTime, DeferredNotLost, Filled, Queue
<1> QED BY <1>1, <1>2, <1>3

\* A track is deferred only from the window's end on, and to its own time.
LEMMA DeferKeeps ==
  ASSUME IInv, NEW tr \in Tracks, NEW late \in Late, Defer(tr, window + late)
  PROVE  IInv'
<1> USE DEF IInv
<1> DEFINE t == window + late
<1>1. /\ pc = "track" /\ stopped[tr] = None /\ t \in Nat /\ t >= window
      /\ at' = With(at, tr, t)
      /\ stopped' = [stopped EXCEPT ![tr] = now + t]
      /\ UNCHANGED <<pc, needReset, window, now, utc, ext, events, covered,
                     resumed, lost, last>>
  BY QueueAssumption DEF Defer, Deferred, TypeOK
<1>2. /\ tr \notin Queue /\ resumed[tr] = {} /\ tr \notin lost
      /\ now + t \in Nat
  BY <1>1 DEF Place, TypeOK
<1> HIDE DEF t
<1>3. /\ Queue' = Queue \cup {tr}
      /\ at' \in [Queue' -> Int]
      /\ at'[tr] = t
      /\ \A x \in Queue : at'[x] = at[x]
  BY <1>1, <1>2 DEF Queue, With, TypeOK
<1>4. /\ stopped'[tr] = now + t
      /\ \A x \in Tracks \ {tr} : stopped'[x] = stopped[x]
  BY <1>1 DEF TypeOK
<1>5. TypeOK'
  BY <1>1, <1>2, <1>3 DEF TypeOK, Members
<1>6. Ahead'
  BY <1>1, <1>3 DEF Ahead, TypeOK
<1>7. Place' /\ Spaced'
  BY <1>1, <1>2, <1>3, <1>4, QueueAssumption DEF Place, Spaced, None
<1>8. DeferredKeepsTime' /\ DeferredNotLost'
  BY <1>1, <1>2, <1>3, <1>4 DEF DeferredKeepsTime, DeferredNotLost
<1> QED BY <1>5, <1>6, <1>7, <1>8

\* The end of an event leaves everything where it is.
LEMMA EndKeeps == ASSUME IInv, EndEvent PROVE IInv'
<1>1. TypeOK' /\ Ahead'
  BY DEF IInv, TypeOK, Ahead, EndEvent, Queue
<1>2. Place' /\ Spaced' /\ DeferredKeepsTime' /\ DeferredNotLost'
  BY DEF IInv, Place, Spaced, DeferredKeepsTime, DeferredNotLost, EndEvent, Queue
<1> QED BY <1>1, <1>2 DEF IInv

-----------------------------------------------------------------------------
\* Every step keeps the inductive invariant.
THEOREM NextIInv == IInv /\ [Next]_vars => IInv'
<1> SUFFICES ASSUME IInv, [Next]_vars PROVE IInv'
  OBVIOUS
<1>1. ASSUME NEW g \in Gens, AddGenerator(g) PROVE IInv'
  BY <1>1, AddKeeps
<1>2. CASE ClearGenerators
  BY <1>2, ClearKeeps
<1>3. ASSUME NEW w \in Windows, SetEventWindow(w) PROVE IInv'
  BY <1>3, WindowKeeps
<1>4. CASE StartEvent
  BY <1>4, StartKeeps
<1>5. ASSUME NEW id \in Members, Fire(id) PROVE IInv'
  BY <1>5, FireGenKeeps, FireTrackKeeps DEF Members
<1>6. CASE Filled
  BY <1>6, FilledKeeps
<1>7. ASSUME NEW tr \in Tracks, NEW late \in Late, Defer(tr, window + late)
      PROVE IInv'
  BY <1>7, DeferKeeps
<1>8. CASE EndEvent
  BY <1>8, EndKeeps
<1>9. CASE UNCHANGED vars
  BY <1>9
  DEF vars, IInv, TypeOK, Ahead, Place, Spaced, DeferredKeepsTime,
      DeferredNotLost, Queue
<1> QED
  BY <1>1, <1>2, <1>3, <1>4, <1>5, <1>6, <1>7, <1>8, <1>9 DEF Next

\* The inductive invariant holds throughout.
THEOREM InvariantIInv == Spec => []IInv
BY InitIInv, NextIInv, PTL DEF Spec

\* All values stay in their types: no time is negative that must not be, and
\* the clock never goes back, though times are kept relative to the event.
THEOREM TypeCorrect == Spec => []TypeOK
<1>1. IInv => TypeOK
  BY DEF IInv
<1> QED BY <1>1, InvariantIInv, PTL

\* GLG4Gen_DeferTrack resumes a track at the very time it was stopped.
THEOREM KeepsTime == Spec => []DeferredKeepsTime
<1>1. IInv => DeferredKeepsTime
  BY DEF IInv
<1> QED BY <1>1, InvariantIInv, PTL

\* No deferred track is lost, or fired twice, except by /generator/clear.
THEOREM NotLost == Spec => []DeferredNotLost
<1>1. IInv => DeferredNotLost
  BY DEF IInv
<1> QED BY <1>1, InvariantIInv, PTL

\* GeneratePrimaries never covers a stretch of time twice: each event starts
\* no earlier than the window of the one before it ended.
THEOREM Disjoint == Spec => NoOverlap
<1>1. ASSUME IInv, [Next]_vars
      PROVE  [events' > events /\ pc' = "fill" /\ ~needReset
                => now' >= covered]_vars
  <2>1. SUFFICES ASSUME Next, events' > events, pc' = "fill", ~needReset
                 PROVE  now' >= covered
    BY <1>1
  <2>2. events \in Int
    BY <1>1, QueueAssumption DEF IInv, TypeOK
  <2>3. StartEvent
    BY <2>1, <2>2 DEF Next, AddGenerator, ClearGenerators, SetEventWindow, Fire,
       Filled, Defer, EndEvent
  <2>4. PICK q \in ResetQueues, top \in Queue : now' = now + q[top]
    BY <2>1, <2>3 DEF StartEvent
  <2>5. q = at /\ pc = "idle"
    BY <2>1, <2>3, <2>4 DEF ResetQueues, StartEvent
  <2> QED BY <1>1, <2>1, <2>4, <2>5 DEF IInv, Ahead
<1> QED BY <1>1, InvariantIInv, PTL DEF Spec, NoOverlap

\* A generator's vertices are one drawn interval apart, whatever the events
\* they fall into.
THEOREM Spacing == Spec => GapsKept
<1> DEFINE Step == \A g \in Gens :
       last'[g] # last[g] /\ last[g] # None /\ last'[g] # None
         => last'[g] - last[g] \in Gaps
<1>1. ASSUME IInv, [Next]_vars PROVE [Step]_vars
  <2>1. SUFFICES ASSUME Next, NEW g \in Gens, last'[g] # last[g],
                        last[g] # None, last'[g] # None
                 PROVE  last'[g] - last[g] \in Gaps
    BY <1>1
  <2>2. ~StartEvent
    BY <2>1 DEF StartEvent
  <2>3. PICK id \in Members : Fire(id)
    BY <2>1, <2>2 DEF Next, AddGenerator, ClearGenerators, SetEventWindow,
       Filled, Defer, EndEvent
  <2>4. id = g /\ last'[g] = now + at[g] /\ g \in Queue /\ pc = "fill"
    BY <1>1, <2>1, <2>3 DEF Fire, Earliest, IInv, TypeOK
  <2> QED BY <1>1, <2>1, <2>4 DEF IInv, Ahead, Spaced
<1> QED BY <1>1, InvariantIInv, PTL DEF Spec, GapsKept

-----------------------------------------------------------------------------
(* The relative times implement the timeline.                              *)

\* Starting an event draws the times that are yet to be drawn and moves
\* nothing else.
LEMMA StartOpens == ASSUME IInv, StartEvent PROVE Line!Open
<1> USE DEF IInv
<1>1. PICK q \in ResetQueues :
       \/ /\ Queue = {} /\ pc' = "fatal"
          /\ UNCHANGED <<at, now, last>>
       \/ \E top \in Queue :
            /\ \A id \in Queue : q[top] <= q[id]
            /\ now' = now + q[top]
            /\ at' = Shift(q, q[top])
            /\ pc' = "fill"
  BY DEF StartEvent
<1>2. pc = "idle" /\ ~needReset' /\ window' = window
  BY DEF StartEvent
<1>3. CASE /\ Queue = {} /\ pc' = "fatal"
           /\ UNCHANGED <<at, now, last>>
  BY <1>2, <1>3 DEF Line!Open, Queue
<1>4. CASE \E top \in Queue :
            /\ \A id \in Queue : q[top] <= q[id]
            /\ now' = now + q[top]
            /\ at' = Shift(q, q[top])
            /\ pc' = "fill"
  <2>1. PICK top \in Queue :
            /\ \A id \in Queue : q[top] <= q[id]
            /\ now' = now + q[top]
            /\ at' = Shift(q, q[top])
            /\ pc' = "fill"
    BY <1>4
  <2>2. /\ q \in [Queue -> Int]
        /\ ~needReset => q = at
        /\ \A id \in Queue \cap Tracks : q[id] = at[id]
        /\ needReset => \A g \in Queue \cap Gens : q[g] \in Gaps
    BY <1>2, ResetFacts
  <2>3. Queue' = Queue /\ now \in Nat /\ Queue \subseteq Members
    BY <2>1, <2>2 DEF Shift, Queue, TypeOK
  <2>4. \A id \in Queue : now' + at'[id] = now + q[id]
    BY <2>1, <2>2, <2>3 DEF Shift
  <2>5. now' = now' + at'[top] /\ \A id \in Queue : now' <= now' + at'[id]
    BY <2>1, <2>2, <2>3, <2>4
  <2>6. \A id \in Queue :
          \/ now' + at'[id] = now + at[id] /\ (id \in Gens => ~needReset)
          \/ (now' + at'[id]) - now \in Gaps /\ id \in Gens /\ needReset
    <3> TAKE id \in Queue
    <3>1. CASE ~needReset
      BY <2>2, <2>4, <3>1
    <3>2. CASE needReset /\ id \in Gens
      <4>1. q[id] \in Gaps /\ (now + q[id]) - now = q[id]
        BY <2>2, <2>3, <3>2
      <4> QED BY <2>4, <3>2, <4>1
    <3>3. CASE id \notin Gens
      BY <2>2, <2>3, <2>4, <3>3 DEF Members
    <3> QED BY <3>1, <3>2, <3>3
  <2> DEFINE d == [id \in Queue |-> now + at[id]]
             e == [id \in Queue' |-> now' + at'[id]]
  <2>7. /\ DOMAIN d = Queue /\ DOMAIN e = Queue
        /\ \A id \in Queue : d[id] = now + at[id] /\ e[id] = now' + at'[id]
    BY <2>3
  <2>8. /\ \A id \in DOMAIN d :
             \/ e[id] = d[id] /\ (id \in Gens => ~needReset)
             \/ e[id] - now \in Gaps /\ id \in Gens /\ needReset
        /\ now' \in {e[id] : id \in DOMAIN d}
        /\ \A id \in DOMAIN d : now' <= e[id]
    BY <2>5, <2>6, <2>7
  <2>9. DOMAIN d # {} /\ DOMAIN e = DOMAIN d
    BY <2>1, <2>7
  <2> QED BY <1>2, <2>1, <2>8, <2>9 DEF Line!Open
<1> QED BY <1>1, <1>3, <1>4

\* What fires is the earliest on the timeline and is due.
LEMMA FireTakes ==
  ASSUME IInv, NEW id \in Members, Fire(id)
  PROVE  Line!Take(id)
<1> USE DEF IInv
<1> DEFINE d == [x \in Queue |-> now + at[x]]
           e == [x \in Queue' |-> now' + at'[x]]
<1>1. /\ pc = "fill" /\ id \in Queue /\ \A x \in Queue : at[id] <= at[x]
      /\ at[id] <= window /\ UNCHANGED <<pc, now, window, needReset>>
      /\ now \in Nat /\ window \in Nat /\ at \in [Queue -> Int]
  BY DEF Fire, Earliest, Due, TypeOK
<1>2. /\ id \in DOMAIN d /\ d[id] <= now + window
      /\ \A x \in DOMAIN d : d[id] <= d[x]
  BY <1>1
<1>3. CASE id \in Gens
  <2>1. PICK gap \in Gaps : at' = [at EXCEPT ![id] = at[id] + gap]
    BY <1>1, <1>3, QueueAssumption DEF Fire, ResetTime, TypeOK
  <2>2. Queue' = Queue /\ gap \in Nat
    BY <2>1, QueueAssumption DEF Queue
  <2>3. e = [d EXCEPT ![id] = @ + gap]
    <3>1. \A x \in Queue :
            e[x] = IF x = id THEN d[x] + gap ELSE d[x]
      BY <1>1, <2>1, <2>2
    <3>2. [d EXCEPT ![id] = @ + gap]
            = [x \in Queue |-> IF x = id THEN d[id] + gap ELSE d[x]]
      BY Zenon
    <3> QED BY <2>2, <3>1, <3>2
  <2> QED BY <1>1, <1>2, <1>3, <2>3 DEF Line!Take
<1>4. CASE id \in Tracks
  <2>1. at' = Without(at, {id})
    BY <1>4, QueueAssumption DEF Fire, UsedUp
  <2>2. Queue' = Queue \ {id} /\ \A x \in Queue' : at'[x] = at[x]
    BY <2>1 DEF Queue, Without
  <2>3. e = [x \in DOMAIN d \ {id} |-> d[x]]
    BY <1>1, <2>2
  <2> QED BY <1>1, <1>2, <1>4, <2>3 DEF Line!Take
<1> QED BY <1>3, <1>4 DEF Members

\* The other steps: each is the step of the timeline named after it.
LEMMA OthersMap ==
  ASSUME IInv
  PROVE  /\ \A g \in Gens : AddGenerator(g) => Line!Add(g)
         /\ ClearGenerators => Line!Clear
         /\ \A w \in Windows : SetEventWindow(w) => Line!SetWindow(w)
         /\ Filled => Line!Close
         /\ \A tr \in Tracks, late \in Late :
              Defer(tr, window + late) => Line!Postpone(tr)
         /\ EndEvent => Line!End
<1> USE DEF IInv
<1> DEFINE d == [x \in Queue |-> now + at[x]]
           e == [x \in Queue' |-> now' + at'[x]]
<1>1. ASSUME NEW g \in Gens, AddGenerator(g) PROVE Line!Add(g)
  <2>1. Queue' = Queue \cup {g} /\ \A x \in Queue : at'[x] = at[x]
    BY <1>1 DEF AddGenerator, With, Queue
  <2> QED BY <1>1, <2>1 DEF AddGenerator, Line!Add
<1>2. ASSUME ClearGenerators PROVE Line!Clear
  <2>1. Queue' = {}
    BY <1>2 DEF ClearGenerators, Without, Queue
  <2> QED BY <1>2, <2>1 DEF ClearGenerators, Line!Clear
<1>3. ASSUME NEW w \in Windows, SetEventWindow(w) PROVE Line!SetWindow(w)
  BY <1>3 DEF SetEventWindow, Line!SetWindow, Queue
<1>4. ASSUME Filled PROVE Line!Close
  <2>1. \A x \in Queue : now + at[x] > now + window
    BY <1>4 DEF Filled, Due, TypeOK
  <2> QED BY <1>4, <2>1 DEF Filled, Line!Close, Queue
<1>5. ASSUME NEW tr \in Tracks, NEW late \in Late, Defer(tr, window + late)
      PROVE  Line!Postpone(tr)
  <2>1. /\ pc = "track" /\ tr \notin Queue /\ at' = With(at, tr, window + late)
        /\ UNCHANGED <<pc, now, window, needReset>>
    BY <1>5 DEF Defer, Deferred, Place
  <2>2. /\ Queue' = Queue \cup {tr} /\ at'[tr] = window + late
        /\ \A x \in Queue : at'[x] = at[x]
    BY <2>1 DEF With, Queue
  <2>3. now' + at'[tr] >= now + window
    BY <2>1, <2>2, QueueAssumption DEF TypeOK
  <2>4. DOMAIN e = DOMAIN d \cup {tr} /\ e[tr] >= now + window
    BY <2>2, <2>3
  <2>5. \A x \in DOMAIN d : e[x] = d[x]
    BY <2>1, <2>2
  <2> QED BY <2>1, <2>4, <2>5 DEF Line!Postpone
<1>6. ASSUME EndEvent PROVE Line!End
  BY <1>6 DEF EndEvent, Line!End, Queue
<1> QED BY <1>1, <1>2, <1>3, <1>4, <1>5, <1>6

\* The queue of relative times, seen in absolute time, is a timeline.
THEOREM Implements == Spec => ImplementsTimeline
<1>1. Init => Line!Init
  BY DEF Init, Line!Init, Queue
<1>2. ASSUME IInv, [Next]_vars PROVE [Line!Next]_(Line!vars)
  <2>1. CASE StartEvent
    BY <1>2, <2>1, StartOpens DEF Line!Next
  <2>2. ASSUME NEW id \in Members, Fire(id) PROVE Line!Next
    BY <1>2, <2>2, FireTakes DEF Members, Line!Next
  <2>3. CASE UNCHANGED vars
    BY <2>3 DEF vars, Line!vars, Queue
  <2> QED BY <1>2, <2>1, <2>2, <2>3, OthersMap DEF Next, Line!Next
<1> QED BY <1>1, <1>2, InvariantIInv, PTL DEF Spec, ImplementsTimeline, Line!Spec
=============================================================================
