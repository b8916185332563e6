----------------------------- MODULE EventQueue -----------------------------
(***************************************************************************)
(* The primary generator (gen/GLG4PrimaryGeneratorAction.cc): a priority    *)
(* queue of generators (gen/GLG4GenList.hh), each with the time of the next *)
(* vertex it will make, relative to the start of the current event.         *)
(*                                                                         *)
(* For each event GeneratePrimaries makes the earliest time the start of    *)
(* the event, moves every generator's time back by it, and then lets every  *)
(* generator fire that is due inside the event window: pile-up.  While the  *)
(* event is tracked, GLG4DeferTrackProc takes tracks that outlive the       *)
(* window and puts each in the queue as a generator that fires once         *)
(* (GLG4Gen_DeferTrack), for a later event.  Between events the commands of *)
(* GLG4PrimaryGeneratorMessenger add and clear generators and change the    *)
(* window.                                                                  *)
(*                                                                         *)
(* Times are whole numbers of some unit.  Definitions named Wrong... are    *)
(* plausible mistakes in the one that follows; no specification uses them.  *)
(***************************************************************************)
EXTENDS Integers, FiniteSets

CONSTANTS
  Gens,         \* repeatable generators that can be added
  Triggers,     \* those among them made by Gen_RandomTrigger
  Tracks,       \* identities of deferred tracks
  Gaps,         \* what a GLG4TimeGen can draw
  Garbage,      \* values of nextTime in a new generator: not initialised
  Windows,      \* event windows the commands set
  Late,         \* how long after the window's end a track can be stopped
  MaxEvents     \* bound on the events of all runs

ASSUME QueueAssumption ==
  /\ Triggers \subseteq Gens
  /\ Gens \cap Tracks = {}
  /\ IsFiniteSet(Gens) /\ IsFiniteSet(Tracks)
  /\ Gaps \subseteq Nat
  /\ Garbage \subseteq Int
  /\ Windows \subseteq Nat
  /\ Late \subseteq Nat /\ MaxEvents \in Nat

VARIABLES
  pc,           \* "idle" between events, "fill", "track", or "fatal"
  at,           \* the queue: NextTime() of each generator in it
  needReset,    \* needReset
  window,       \* myEventWindow
  now,          \* myUniversalTime
  utc,          \* eventInfo->utc of the current event, less the run's start
  ext,          \* eventInfo->extTriggerTime, for a set of triggers
  (* history *)
  events,       \* events started
  covered,      \* time up to which the last event has drawn everything
  stopped,      \* the absolute time at which each deferred track was stopped
  resumed,      \* the absolute times at which it was put into an event
  lost,         \* deferred tracks dropped by a clear
  last          \* the absolute time of each generator's last vertex

vars == <<pc, at, needReset, window, now, utc, ext, events, covered, stopped,
          resumed, lost, last>>

Members == Gens \cup Tracks
Queue == DOMAIN at
Earliest(id) == id \in Queue /\ \A x \in Queue : at[id] <= at[x]
None == 0 - 1        \* no time; all times compared with it are Nat

With(f, id, t) == [x \in DOMAIN f \cup {id} |-> IF x = id THEN t ELSE f[x]]
Without(f, S) == [x \in DOMAIN f \ S |-> f[x]]

-----------------------------------------------------------------------------
(* Commands, between runs.                                                 *)

\* /generator/add: SetState, then AddGenerator.  The generator's time is not
\* drawn until the next event.
AddGenerator(g) ==
  /\ pc = "idle" /\ g \notin Queue
  /\ \E t \in Garbage : at' = With(at, g, t)
  /\ needReset' = TRUE
  /\ UNCHANGED <<pc, window, now, utc, ext, events, covered, stopped, resumed,
                 lost, last>>

\* /generator/clear empties the queue, deferred tracks included.
ClearGenerators ==
  /\ pc = "idle"
  /\ at' = Without(at, Queue)
  /\ lost' = lost \cup (Queue \cap Tracks)
  /\ needReset' = TRUE
  /\ UNCHANGED <<pc, window, now, utc, ext, events, covered, stopped, resumed,
                 last>>

\* /generator/event_window.
SetEventWindow(w) ==
  /\ pc = "idle" /\ w > 0
  /\ window' = w
  /\ UNCHANGED <<pc, at, needReset, now, utc, ext, events, covered, stopped,
                 resumed, lost, last>>

-----------------------------------------------------------------------------
(* GeneratePrimaries.                                                      *)

\* The queue after the reset loop: every repeatable generator draws its
\* first time; ResetTime of a deferred track does nothing.
WrongResetQueues == {at}
ResetQueues ==
  IF needReset
  THEN {[id \in Queue |-> IF id \in Gens THEN draw[id] ELSE at[id]] :
          draw \in [Queue \cap Gens -> Gaps]}
  ELSE {at}

\* SubtractTime on every member of the queue.
WrongShift(q, t) == [id \in DOMAIN q |-> IF id \in Gens THEN q[id] - t ELSE q[id]]
Shift(q, t) == [id \in DOMAIN q |-> q[id] - t]

\* Up to the pile-up loop.  The event is stamped before the clock moves.
StartEvent ==
  /\ pc = "idle" /\ events < MaxEvents
  /\ events' = events + 1
  /\ utc' = now
  /\ ext' = None
  /\ needReset' = FALSE
  /\ \E q \in ResetQueues :
       \/ /\ Queue = {}
          /\ pc' = "fatal"
          /\ UNCHANGED <<at, now, last>>
       \/ \E top \in Queue :
            /\ \A id \in Queue : q[top] <= q[id]
            /\ now' = now + q[top]
            /\ at' = Shift(q, q[top])
            /\ last' = IF needReset THEN [g \in Gens |-> None] ELSE last
            /\ pc' = "fill"
  /\ UNCHANGED <<window, covered, stopped, resumed, lost>>

\* What becomes of a repeatable generator that fired at its time t.
WrongResetTime(t, gap) == gap
ResetTime(t, gap) == gap + t

\* A deferred track is not IsRepeatable(): it leaves the queue.
WrongUsedUp(id) == at
UsedUp(id) == Without(at, {id})

\* One turn of the pile-up loop.  A repeatable generator draws its next time
\* from the vertex it just made.
Due(id) == at[id] <= window
Fire(id) ==
  /\ pc = "fill" /\ Earliest(id) /\ Due(id)
  /\ \/ /\ id \in Gens
        /\ \E gap \in Gaps : at' = [at EXCEPT ![id] = ResetTime(@, gap)]
        /\ last' = [last EXCEPT ![id] = now + at[id]]
        /\ ext' = IF id \in Triggers THEN 0 ELSE ext
        /\ UNCHANGED resumed
     \/ /\ id \in Tracks
        /\ at' = UsedUp(id)
        /\ resumed' = [resumed EXCEPT ![id] = @ \cup {now + at[id]}]
        /\ UNCHANGED <<last, ext>>
  /\ UNCHANGED <<pc, needReset, window, now, utc, events, covered, stopped,
                 lost>>

\* The loop ends: nothing in the queue is due, or nothing is left.
Filled ==
  /\ pc = "fill" /\ \A id \in Queue : ~Due(id)
  /\ pc' = "track"
  /\ covered' = now + window
  /\ UNCHANGED <<at, needReset, window, now, utc, ext, events, stopped, resumed,
                 lost, last>>

-----------------------------------------------------------------------------
(* Tracking the event.                                                     *)

\* GLG4DeferTrackProc stops a track that has reached the end of the window,
\* or that was made after it, and DeferTrackToLaterEvent queues it with its
\* time in the current event.
WrongDeferred(t) == t - window
Deferred(t) == t
Defer(tr, t) ==
  /\ pc = "track" /\ stopped[tr] = None
  /\ at' = With(at, tr, Deferred(t))
  /\ stopped' = [stopped EXCEPT ![tr] = now + t]
  /\ UNCHANGED <<pc, needReset, window, now, utc, ext, events, covered, resumed,
                 lost, last>>

EndEvent ==
  /\ pc = "track"
  /\ pc' = "idle"
  /\ UNCHANGED <<at, needReset, window, now, utc, ext, events, covered, stopped,
                 resumed, lost, last>>

-----------------------------------------------------------------------------
Init ==
  /\ pc = "idle"
  /\ at = [id \in {} |-> 0]
  /\ needReset = TRUE
  /\ window = 0
  /\ now = 0 /\ utc = 0
  /\ ext = None
  /\ events = 0 /\ covered = 0
  /\ stopped = [tr \in Tracks |-> None]
  /\ resumed = [tr \in Tracks |-> {}]
  /\ lost = {}
  /\ last = [g \in Gens |-> None]

Next ==
  \/ \E g \in Gens : AddGenerator(g)
  \/ ClearGenerators
  \/ \E w \in Windows : SetEventWindow(w)
  \/ StartEvent
  \/ \E id \in Members : Fire(id)
  \/ Filled
  \/ \E tr \in Tracks, late \in Late : Defer(tr, window + late)
  \/ EndEvent

Spec == Init /\ [][Next]_vars

-----------------------------------------------------------------------------
(* Properties.                                                             *)

\* Type invariant of the queue and the clock.
TypeOK ==
  /\ pc \in {"idle", "fill", "track", "fatal"}
  /\ Queue \subseteq Members /\ at \in [Queue -> Int]
  /\ needReset \in BOOLEAN
  /\ window \in Nat /\ now \in Nat /\ utc \in Nat
  /\ ext \in {None, 0}
  /\ events \in 0 .. MaxEvents /\ covered \in Nat
  /\ stopped \in [Tracks -> Nat \cup {None}]
  /\ resumed \in [Tracks -> SUBSET Nat]
  /\ lost \subseteq Tracks
  /\ last \in [Gens -> Nat \cup {None}]

\* A deferred track continues at the moment at which it was stopped, however
\* many events go by, and whatever is added to the queue, in between.
DeferredKeepsTime == \A tr \in Tracks : resumed[tr] \subseteq {stopped[tr]}

\* A track taken out of an event is waiting in the queue, or has been put
\* into a later event, or was dropped by a clear: one of the three.
DeferredNotLost ==
  \A tr \in Tracks : stopped[tr] # None =>
    \/ tr \in Queue    /\ resumed[tr] = {} /\ tr \notin lost
    \/ tr \notin Queue /\ resumed[tr] # {} /\ tr \notin lost
    \/ tr \notin Queue /\ resumed[tr] = {} /\ tr \in lost

\* The stretch of time an event covers is not covered again by a later one:
\* pile-up is found in one event and never split over two.  Adding or
\* clearing generators starts their times afresh and is excepted.
NoOverlap ==
  [][events' > events /\ pc' = "fill" /\ ~needReset => now' >= covered]_vars

\* The rate of a generator does not depend on the event structure: from one
\* of its vertices to the next, in the same event or many events later, is
\* one draw of its time generator.
GapsKept ==
  [][\A g \in Gens :
       last'[g] # last[g] /\ last[g] # None /\ last'[g] # None
         => last'[g] - last[g] \in Gaps]_vars

\* Seen in absolute time the queue is a timeline on which nothing ever moves.
Line == INSTANCE Timeline WITH due <- [id \in Queue |-> now + at[id]],
                               start <- now
ImplementsTimeline == Line!Spec
=============================================================================
