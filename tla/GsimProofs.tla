----------------------------- MODULE GsimProofs -----------------------------
(***************************************************************************)
(* Proofs about Gsim, for any detector, file of vertices, commands and     *)
(* bounds: the types, the order in which a run simulates the entries of    *)
(* the file, that it stops after a Ctrl-C, the trajectories, the photons of *)
(* an event and the limit on them.                                         *)
(***************************************************************************)
EXTENDS Gsim, SequenceTheorems, FiniteSetTheorems, WellFoundedInduction, TLAPS

TrackRecord ==
  [kind : Kinds, steps : Nat, info : Nat, before : Seq(Nat), now : Seq(Nat),
   stored : BOOLEAN]

RunFields ==
  {"initial", "maxpe", "nabort", "runAborted", "left", "used", "aborted", "late"}
EventFields ==
  {"entries", "tracks", "stack", "at", "centroid", "kept", "aborted", "made"}
FileFields == {"current", "fMaxEvent", "fDS"}

UserTypes ==
  /\ storeTrajectory \in BOOLEAN /\ chroma \in BOOLEAN /\ signal \in BOOLEAN
  /\ asked \in BOOLEAN
  /\ keep \subseteq Kinds /\ discard \subseteq Kinds
  /\ max_pe \in Nat /\ runs \in Nat /\ number \in Nat
RunTypes ==
  /\ DOMAIN run = RunFields
  /\ run.initial \in BOOLEAN /\ run.runAborted \in BOOLEAN
  /\ run.used \in Seq(Nat) /\ run.late \in Nat
FileTypes ==
  /\ DOMAIN file = FileFields
  /\ file.current \in Nat /\ file.fMaxEvent \in Nat /\ file.fDS \in 0 .. Entries
EventTypes ==
  /\ DOMAIN event = EventFields
  /\ event.tracks \in Seq(TrackRecord)
  /\ event.stack \subseteq DOMAIN event.tracks
  /\ event.at \in Nat
  /\ event.at # Nothing => event.at \in DOMAIN event.tracks
  /\ event.aborted \in BOOLEAN
PcTypes ==
  \/ pc \in {"idle", "next", "begin", "stack"} /\ event.at = Nothing
  \/ pc \in {"track", "stopped", "suspended"} /\ event.at # Nothing

Types == UserTypes /\ RunTypes /\ FileTypes /\ EventTypes /\ PcTypes

-----------------------------------------------------------------------------
(* Types.                                                                  *)

\* The entries that are read are natural numbers, and the last one is in the
\* file.
LEMMA ReadFacts ==
  ASSUME Types, NEW n \in 1 .. Entries + 1, n = 1 \/ file.current + n <= Entries
  PROVE  /\ Read(n) \in Seq(Nat)
         /\ Read(n) # <<>> => Last(Read(n)) + 1 \in 0 .. Entries
         /\ Len(Read(n)) <= n
<1>1. file.current \in Nat /\ file.fDS \in 0 .. Entries /\ Entries \in Nat
  BY GsimAssumption DEF Types, FileTypes
<1>2. CASE file.current < Entries
  <2>1. Read(n) = [i \in 1 .. n |-> file.current + i - 1]
    BY <1>2 DEF Read
  <2>2. Read(n) \in Seq(Nat) /\ Len(Read(n)) = n
    BY <1>1, <2>1
  <2>3. Last(Read(n)) = file.current + n - 1
    BY <1>1, <2>1, <2>2 DEF Last
  <2> QED BY <1>1, <1>2, <2>2, <2>3
<1>3. CASE file.current >= Entries /\ file.fDS = Nothing
  BY <1>1, <1>3 DEF Read
<1>4. CASE file.current >= Entries /\ file.fDS # Nothing
  <2>1. Read(n) = <<file.fDS - 1>> /\ file.fDS - 1 \in Nat
    BY <1>1, <1>4 DEF Read, Nothing
  <2> QED BY <1>1, <2>1 DEF Last
<1> QED BY <1>1, <1>2, <1>3, <1>4

\* A new track.
LEMMA NewTrackFacts ==
  ASSUME NEW kind \in Kinds
  PROVE  NewTrack(kind) \in TrackRecord
BY DEF NewTrack, TrackRecord

\* The initial state has the types.
LEMMA InitTypes == Init => Types
<1> SUFFICES ASSUME Init PROVE Types
  OBVIOUS
<1>1. UserTypes
  BY GsimAssumption DEF Init, UserTypes
<1>2. FileTypes
  <2>1. PICK skip \in Offsets, n \in Limits :
          file = [current |-> skip, fMaxEvent |-> IF n > 0 THEN n + skip ELSE 0,
                  fDS |-> Nothing]
    BY DEF Init
  <2> QED BY <2>1, GsimAssumption DEF FileFields, FileTypes, Nothing
<1>3. RunTypes
  BY <1>1 DEF Init, RunFields, NewRun, RunTypes, UserTypes
<1>4. EventTypes /\ PcTypes
  BY DEF Init, EventFields, NewEvent, EventTypes, PcTypes, Nothing
<1> QED BY <1>1, <1>2, <1>3, <1>4 DEF Types

\* An event begins.
LEMMA NextEventTypes ==
  ASSUME Types, NextEvent
  PROVE  Types'
<1>1. PICK n \in 1 .. Entries + 1 : GenerateEvent(n)
  BY DEF NextEvent
<1>2. /\ Read(n) \in Seq(Nat)
      /\ Read(n) # <<>> => Last(Read(n)) + 1 \in 0 .. Entries
  BY <1>1, ReadFacts DEF GenerateEvent
<1>3. n \in Nat
  BY GsimAssumption
<1>4. RunTypes'
  BY <1>1, <1>2 DEF GenerateEvent, Types, RunTypes, RunFields
<1>5. FileTypes'
  BY <1>1, <1>2, <1>3 DEF GenerateEvent, Types, FileTypes, FileFields
<1>6. event' = [NewEvent EXCEPT
                  !.entries = Read(n),
                  !.tracks = [i \in DOMAIN Read(n) |-> NewTrack("charged")],
                  !.stack = DOMAIN Read(n)]
  BY <1>1 DEF GenerateEvent
<1>7. DOMAIN Read(n) = 1 .. Len(Read(n)) /\ Len(Read(n)) \in Nat
  BY <1>2
<1>8. /\ [i \in DOMAIN Read(n) |-> NewTrack("charged")] \in Seq(TrackRecord)
      /\ DOMAIN [i \in DOMAIN Read(n) |-> NewTrack("charged")] = DOMAIN Read(n)
  BY <1>7, NewTrackFacts DEF Kinds
<1>9. /\ DOMAIN event' = EventFields /\ event'.at = Nothing
      /\ event'.tracks = [i \in DOMAIN Read(n) |-> NewTrack("charged")]
      /\ event'.stack = DOMAIN Read(n) /\ event'.aborted \in BOOLEAN
  BY <1>6 DEF EventFields, NewEvent
<1>10. EventTypes'
  BY <1>8, <1>9 DEF EventTypes, Nothing
<1>11. UserTypes'
  <2>1. /\ storeTrajectory' = storeTrajectory /\ chroma' = chroma /\ signal' = signal
        /\ asked' = asked /\ keep' = keep /\ discard' = discard /\ max_pe' = max_pe
        /\ runs' = runs /\ number' = number + 1
    BY <1>1 DEF GenerateEvent, user
  <2> QED BY <2>1 DEF Types, UserTypes
<1>12. PcTypes'
  BY <1>1, <1>9 DEF GenerateEvent, PcTypes
<1> QED BY <1>4, <1>5, <1>10, <1>11, <1>12 DEF Types

\* The event and the track that is tracked, after PreUserTrackingAction.
LEMMA PreEffect ==
  ASSUME Types, NEW t \in event.stack, PreUserTrackingAction(t)
  PROVE  /\ EventTypes' /\ event'.at = t /\ t # Nothing /\ storeTrajectory' \in BOOLEAN
         /\ event'.stack = event.stack \ {t}
         /\ event'.kept = event.kept /\ event'.aborted = event.aborted
         /\ DOMAIN event'.tracks = DOMAIN event.tracks
         /\ \A u \in DOMAIN event.tracks : u # t => event'.tracks[u] = event.tracks[u]
         /\ event'.tracks[t] =
              [event.tracks[t] EXCEPT
                 !.stored = GetStoreParticleTraj(event.tracks[t].kind), !.now = <<>>]
<1> DEFINE stored == GetStoreParticleTraj(event.tracks[t].kind)
           old == event.tracks[t]
           new == [old EXCEPT !.stored = stored, !.now = <<>>]
<1>1. event' = [event EXCEPT !.stack = @ \ {t}, !.at = t, !.tracks[t].stored = stored,
                             !.tracks[t].now = <<>>]
  BY DEF PreUserTrackingAction
<1>2. /\ event.tracks \in Seq(TrackRecord) /\ t \in DOMAIN event.tracks
      /\ DOMAIN event = EventFields /\ t \in Nat /\ t # Nothing
  BY DEF Types, EventTypes, Nothing
<1>3. old \in TrackRecord
  BY <1>2
<1>4. stored \in BOOLEAN
  <2>1. CASE run.initial
    BY <2>1 DEF GetStoreParticleTraj
  <2>2. CASE ~run.initial
    BY <2>2 DEF GetStoreParticleTraj
  <2> QED BY <2>1, <2>2
<1>5. new \in TrackRecord
  <2>1. \A b \in BOOLEAN, steps \in Seq(Nat) :
          [old EXCEPT !.stored = b, !.now = steps] \in TrackRecord
    BY <1>3 DEF TrackRecord
  <2>2. <<>> \in Seq(Nat)
    OBVIOUS
  <2> QED BY <1>4, <2>1, <2>2
<1>6. event'.tracks = [event.tracks EXCEPT ![t] = new]
  BY <1>1, <1>2, <1>3 DEF EventFields, TrackRecord
<1>7. /\ event'.stack = event.stack \ {t} /\ event'.at = t
      /\ event'.kept = event.kept /\ event'.aborted = event.aborted
      /\ DOMAIN event' = EventFields
  BY <1>1, <1>2 DEF EventFields
<1>8. event'.tracks \in Seq(TrackRecord) /\ DOMAIN event'.tracks = DOMAIN event.tracks
  BY <1>2, <1>5, <1>6
<1>9. EventTypes'
  BY <1>2, <1>7, <1>8 DEF Types, EventTypes
<1>10. storeTrajectory' = stored
  BY DEF PreUserTrackingAction
<1> QED BY <1>2, <1>4, <1>6, <1>7, <1>8, <1>9, <1>10

\* What a step makes of the track.
LEMMA SteppedFacts ==
  ASSUME Types, event.at # Nothing
  PROVE  /\ DOMAIN Stepped = EventFields /\ Stepped.at = event.at
         /\ Stepped.stack = event.stack /\ Stepped.kept = event.kept
         /\ Stepped.aborted = event.aborted
         /\ Stepped.tracks \in Seq(TrackRecord)
         /\ Len(Stepped.tracks) = Len(event.tracks)
         /\ \A u \in DOMAIN event.tracks :
              u # event.at => Stepped.tracks[u] = event.tracks[u]
         /\ Stepped.tracks[event.at].kind = Track.kind
         /\ Stepped.tracks[event.at].steps = Track.steps + 1
         /\ Stepped.tracks[event.at].before = Track.before
         /\ Stepped.tracks[event.at].stored = Track.stored
         /\ Stepped.tracks[event.at].now =
              IF Track.stored THEN AppendStep(Track.now, Track.steps + 1) ELSE Track.now
<1> DEFINE info == IF Track.kind = "charged" THEN Track.info + 1 ELSE Track.info
           now == IF Track.stored THEN AppendStep(Track.now, Track.steps + 1)
                  ELSE Track.now
           old == Track
           new == [old EXCEPT !.steps = old.steps + 1, !.info = info, !.now = now]
<1>1. /\ event.tracks \in Seq(TrackRecord) /\ event.at \in DOMAIN event.tracks
      /\ DOMAIN event = EventFields
  BY DEF Types, EventTypes
<1>2. old \in TrackRecord
  BY <1>1 DEF Track
<1>3. /\ old.steps \in Nat /\ old.steps + 1 \in Nat /\ old.info \in Nat
      /\ old.now \in Seq(Nat)
  BY <1>2 DEF TrackRecord
<1>4. info \in Nat
  BY <1>3
<1>5. now \in Seq(Nat)
  BY <1>3 DEF AppendStep
<1>6. new \in TrackRecord
  <2> HIDE DEF old, info, now
  <2> QED BY <1>2, <1>3, <1>4, <1>5 DEF TrackRecord
<1>7. Stepped.tracks = [event.tracks EXCEPT ![event.at] = new]
  BY <1>1, <1>2 DEF Stepped, Track, EventFields, TrackRecord
<1>8. /\ DOMAIN Stepped = EventFields /\ Stepped.at = event.at
      /\ Stepped.stack = event.stack /\ Stepped.kept = event.kept
      /\ Stepped.aborted = event.aborted
  BY <1>1 DEF Stepped, EventFields
<1>9. /\ new.kind = old.kind /\ new.steps = old.steps + 1 /\ new.before = old.before
      /\ new.stored = old.stored /\ new.now = now
  <2> HIDE DEF old, info, now
  <2> QED BY <1>2 DEF TrackRecord
<1>10. Stepped.tracks[event.at] = new
  BY <1>1, <1>7
<1>11. Stepped.tracks \in Seq(TrackRecord) /\ Len(Stepped.tracks) = Len(event.tracks)
  <2> HIDE DEF new
  <2> QED BY <1>1, <1>6, <1>7
<1>12. \A u \in DOMAIN event.tracks :
         u # event.at => Stepped.tracks[u] = event.tracks[u]
  <2> HIDE DEF new
  <2> QED BY <1>1, <1>7
<1> QED BY <1>8, <1>9, <1>10, <1>11, <1>12

Stepping == PhotonStep \/ \E then \in {"track", "stopped", "suspended"} : ChargedStep(then)
NewNumber == Len(event.tracks) + 1

\* A step changes the track that is tracked, and may add one to the stack.
LEMMA StepEffect ==
  ASSUME Types, Stepping
  PROVE  /\ event.at # Nothing /\ EventTypes'
         /\ event'.at = event.at /\ event'.kept = event.kept
         /\ event'.aborted = event.aborted
         /\ \A u \in DOMAIN event.tracks : event'.tracks[u] = Stepped.tracks[u]
         /\ \/ /\ DOMAIN event'.tracks = DOMAIN event.tracks
               /\ event'.stack = event.stack
            \/ /\ DOMAIN event'.tracks = DOMAIN event.tracks \cup {NewNumber}
               /\ event'.stack = event.stack \cup {NewNumber}
               /\ NewNumber \in Nat /\ NewNumber \notin DOMAIN event.tracks
               /\ NewNumber # event.at
               /\ event'.tracks[NewNumber] = NewTrack("opticalphoton")
<1>1. pc = "track"
  BY DEF Stepping, PhotonStep, ChargedStep
<1>2. event.at # Nothing /\ event.at \in DOMAIN event.tracks
  BY <1>1 DEF Types, PcTypes, EventTypes
<1>3. /\ event.tracks \in Seq(TrackRecord) /\ event.stack \subseteq DOMAIN event.tracks
      /\ event.at \in Nat /\ event.aborted \in BOOLEAN
  BY DEF Types, EventTypes
<1>4. \/ event' = Stepped \/ event' = Secondary(Stepped)
      \/ event' = [Stepped EXCEPT !.made = @ \cup {Photon}]
  BY DEF Stepping, PhotonStep, ChargedStep
<1>5. CASE event'.tracks = Stepped.tracks /\ DOMAIN event' = EventFields
           /\ event'.at = Stepped.at /\ event'.kept = Stepped.kept
           /\ event'.aborted = Stepped.aborted /\ event'.stack = Stepped.stack
  <2>1. /\ event'.tracks \in Seq(TrackRecord) /\ DOMAIN event'.tracks = DOMAIN event.tracks
        /\ event'.stack = event.stack /\ event'.at = event.at
        /\ event'.kept = event.kept /\ event'.aborted = event.aborted
    BY <1>2, <1>3, <1>5, SteppedFacts
  <2>2. EventTypes'
    BY <1>2, <1>3, <1>5, <2>1 DEF EventTypes
  <2> QED BY <1>2, <1>5, <2>1, <2>2
<1>6. CASE event' = Secondary(Stepped)
  <2> DEFINE track == NewTrack("opticalphoton")
  <2>1. track \in TrackRecord
    BY NewTrackFacts DEF Kinds
  <2>2. /\ event'.tracks = Append(Stepped.tracks, track)
        /\ event'.stack = event.stack \cup {NewNumber}
        /\ event'.at = event.at /\ event'.kept = event.kept
        /\ event'.aborted = event.aborted /\ DOMAIN event' = EventFields
    <3> HIDE DEF track
    <3>1. event' = [Stepped EXCEPT !.tracks = Append(@, track),
                                   !.stack = @ \cup {Len(Stepped.tracks) + 1}]
      BY <1>6 DEF Secondary, track
    <3> QED BY <1>2, <3>1, SteppedFacts DEF EventFields, NewNumber
  <2>3. /\ event'.tracks \in Seq(TrackRecord)
        /\ DOMAIN event'.tracks = DOMAIN event.tracks \cup {NewNumber}
        /\ NewNumber \in Nat /\ NewNumber \notin DOMAIN event.tracks
        /\ event'.tracks[NewNumber] = track
        /\ \A u \in DOMAIN event.tracks : event'.tracks[u] = Stepped.tracks[u]
    <3> HIDE DEF track
    <3> QED BY <1>2, <1>3, <2>1, <2>2, SteppedFacts DEF NewNumber
  <2>4. EventTypes'
    BY <1>2, <1>3, <2>2, <2>3 DEF EventTypes
  <2> QED BY <1>2, <2>2, <2>3, <2>4
<1>7. CASE event' = Stepped
  BY <1>2, <1>5, <1>7, SteppedFacts
<1>8. CASE event' = [Stepped EXCEPT !.made = @ \cup {Photon}]
  BY <1>2, <1>5, <1>8, SteppedFacts DEF EventFields
<1> QED BY <1>4, <1>6, <1>7, <1>8

Ends == pc = "stopped" \/ Exceeds(Count(hits))
Merged == MergeTrajectory(Track.before, Track.now)

\* PostUserTrackingAction puts the track into the event, or, if it is suspended,
\* back on the stack.
LEMMA PostEffect ==
  ASSUME Types, PostUserTrackingAction
  PROVE  /\ event.at # Nothing /\ event.at \in DOMAIN event.tracks /\ EventTypes'
         /\ event'.at = Nothing
         /\ DOMAIN event'.tracks = DOMAIN event.tracks
         /\ \A u \in DOMAIN event.tracks :
              u # event.at => event'.tracks[u] = event.tracks[u]
         /\ event'.tracks[event.at] = [Track EXCEPT !.before = Merged]
         /\ event'.kept = IF Track.stored /\ Ends
                          THEN event.kept \cup {[id |-> event.at, steps |-> Merged]}
                          ELSE event.kept
         /\ event.aborted => event'.aborted
         /\ event'.stack \subseteq event.stack \cup {event.at}
         /\ ~event'.aborted =>
              event'.stack = IF Ends THEN event.stack ELSE event.stack \cup {event.at}
<1> DEFINE t == event.at
           abort == Exceeds(Count(hits))
           again == pc = "suspended" /\ ~abort
           old == Track
           new == [old EXCEPT !.before = Merged]
<1>1. /\ event.at # Nothing /\ t \in DOMAIN event.tracks /\ DOMAIN event = EventFields
      /\ event.tracks \in Seq(TrackRecord) /\ event.stack \subseteq DOMAIN event.tracks
      /\ t \in Nat /\ event.aborted \in BOOLEAN
  BY DEF PostUserTrackingAction, Types, PcTypes, EventTypes
<1>2. pc \in {"stopped", "suspended"}
  BY DEF PostUserTrackingAction
<1>3. event' = [event EXCEPT
                  !.at = Nothing,
                  !.centroid = @ + Track.info,
                  !.aborted = @ \/ abort,
                  !.stack = IF abort THEN {} ELSE IF again THEN @ \cup {t} ELSE @,
                  !.tracks[t].before = Merged,
                  !.kept = IF Track.stored /\ ~again
                           THEN @ \cup {[id |-> t, steps |-> Merged]} ELSE @]
  BY DEF PostUserTrackingAction, Merged
<1>4. old \in TrackRecord /\ old = event.tracks[t]
  BY <1>1 DEF Track
<1>5. Merged \in Seq(Nat)
  <2>1. Track.before \in Seq(Nat) /\ Track.now \in Seq(Nat)
    BY <1>4 DEF TrackRecord
  <2>2. Tail(<<>>) = <<>> /\ <<>> \in Seq(Nat)
    OBVIOUS
  <2>3. Tail(Track.now) \in Seq(Nat)
    BY <2>1, <2>2, HeadTailProperties
  <2> QED BY <2>1, <2>3 DEF Merged, MergeTrajectory
<1>6. new \in TrackRecord
  <2> HIDE DEF old
  <2> QED BY <1>4, <1>5 DEF TrackRecord
<1>7. Ends <=> ~again
  BY <1>2 DEF Ends
<1>8. event'.tracks = [event.tracks EXCEPT ![t] = new]
  <2> HIDE DEF old, abort, again
  <2> QED BY <1>1, <1>3, <1>4 DEF EventFields, TrackRecord
<1>9. /\ event'.at = Nothing /\ DOMAIN event' = EventFields
      /\ event'.aborted = (event.aborted \/ abort)
      /\ event'.stack = IF abort THEN {} ELSE IF again THEN event.stack \cup {t}
                                              ELSE event.stack
      /\ event'.kept = IF Track.stored /\ ~again
                       THEN event.kept \cup {[id |-> t, steps |-> Merged]}
                       ELSE event.kept
  <2> HIDE DEF old, abort, again
  <2> QED BY <1>1, <1>3 DEF EventFields
<1>10. /\ event'.tracks \in Seq(TrackRecord) /\ DOMAIN event'.tracks = DOMAIN event.tracks
       /\ event'.tracks[t] = new
       /\ \A u \in DOMAIN event.tracks : u # t => event'.tracks[u] = event.tracks[u]
  <2> HIDE DEF new
  <2> QED BY <1>1, <1>6, <1>8
<1>11. event'.aborted \in BOOLEAN /\ event'.stack \subseteq DOMAIN event.tracks
  <2> HIDE DEF abort, again
  <2> QED BY <1>1, <1>9
<1>12. EventTypes'
  BY <1>9, <1>10, <1>11 DEF EventTypes, Nothing
<1> QED BY <1>1, <1>7, <1>9, <1>10, <1>12

\* What is left of the actions: they change no track.
Quiet ==
  \/ StoreTrajectory \/ SwitchChroma \/ Signal
  \/ \E kind \in Named, b \in BOOLEAN : SetStoreParticleTraj(kind, b)
  \/ BeginOfEventAction
Tracking ==
  \/ \E t \in event.stack : PreUserTrackingAction(t)
  \/ Stepping \/ PostUserTrackingAction

\* Every step is one of those that the following lemmas speak of.
LEMMA NextCases ==
  Next => \/ Quiet \/ (\E n \in 1 .. MaxEvents : BeginOfRunAction(n)) \/ NextEvent
          \/ Tracking \/ EndOfEventAction \/ EndOfRunAction
BY DEF Next, Quiet, Tracking, Stepping

\* Commands of the macro, the signal and the beginning of an event leave the run,
\* the file, the event and what was delivered alone.
LEMMA QuietEffect ==
  ASSUME Types, Quiet
  PROVE  /\ UserTypes' /\ run' = run /\ file' = file /\ event' = event /\ ds' = ds
         /\ number' = number
         /\ pc' = pc \/ (pc = "begin" /\ pc' = "stack")
         /\ signal => signal'
<1>1. CASE StoreTrajectory
  BY <1>1 DEF StoreTrajectory, Types, UserTypes
<1>2. CASE SwitchChroma
  BY <1>2 DEF SwitchChroma, Types, UserTypes
<1>3. CASE Signal
  BY <1>3 DEF Signal, Types, UserTypes, user
<1>4. CASE \E kind \in Named, b \in BOOLEAN : SetStoreParticleTraj(kind, b)
  BY <1>4, GsimAssumption DEF SetStoreParticleTraj, Types, UserTypes
<1>5. CASE BeginOfEventAction
  BY <1>5 DEF BeginOfEventAction, Types, UserTypes, user
<1> QED BY <1>1, <1>2, <1>3, <1>4, <1>5 DEF Quiet

\* While tracks are tracked, nothing outside the event changes but what the run
\* counts and the flag.
LEMMA TrackingEffect ==
  ASSUME Types, Tracking
  PROVE  /\ EventTypes' /\ PcTypes' /\ UserTypes' /\ RunTypes' /\ file' = file
         /\ pc' # "next" /\ pc # "next" /\ ds' = ds
         /\ run'.used = run.used /\ run'.late = run.late
         /\ run'.initial = run.initial /\ run'.runAborted = run.runAborted
         /\ UNCHANGED <<user, signal, number>>
<1>1. CASE \E t \in event.stack : PreUserTrackingAction(t)
  <2>1. PICK t \in event.stack : PreUserTrackingAction(t)
    BY <1>1
  <2>2. EventTypes' /\ event'.at # Nothing /\ storeTrajectory' \in BOOLEAN
    BY <2>1, PreEffect
  <2> QED
    BY <2>1, <2>2 DEF PreUserTrackingAction, Types, UserTypes, RunTypes, PcTypes, user
<1>2. CASE Stepping
  BY <1>2, StepEffect
     DEF Stepping, PhotonStep, ChargedStep, Types, UserTypes, RunTypes, PcTypes, user
<1>3. CASE PostUserTrackingAction
  BY <1>3, PostEffect
     DEF PostUserTrackingAction, Types, UserTypes, RunTypes, RunFields, PcTypes, user
<1> QED BY <1>1, <1>2, <1>3 DEF Tracking

\* The end of an event.
LEMMA EndOfEventEffect ==
  ASSUME Types, EndOfEventAction
  PROVE  /\ Types' /\ pc = "stack" /\ pc' = "next" /\ file' = file
         /\ storeTrajectory' = run.initial
         /\ run'.used = run.used /\ run'.late = run.late /\ run'.initial = run.initial
         /\ run'.runAborted = (run.runAborted \/ signal)
         /\ event.stack = {} /\ event.at = Nothing
         /\ event'.tracks = event.tracks /\ event'.stack = {} /\ event'.at = Nothing
         /\ event'.kept = event.kept /\ event'.aborted = event.aborted
         /\ ds'.aborted = event.aborted /\ ds'.tracks = event.kept
         /\ UNCHANGED <<user, signal, number>>
<1>1. PICK reply, hs :
        /\ event' = [event EXCEPT !.made = @ \cup DOMAIN reply]
        /\ \E noise \in Noises(hs) : ds' = MakeEvent(hs, noise)
  BY DEF EndOfEventAction
<1>2. /\ DOMAIN event' = EventFields /\ event'.tracks = event.tracks
      /\ event'.stack = event.stack /\ event'.at = event.at
      /\ event'.aborted = event.aborted /\ event'.kept = event.kept
  BY <1>1 DEF Types, EventTypes, EventFields
<1>3. /\ pc = "stack" /\ pc' = "next" /\ file' = file /\ storeTrajectory' = run.initial
      /\ event.stack = {} /\ UNCHANGED <<user, signal, number>>
  BY DEF EndOfEventAction, Restored
<1>4. event.at = Nothing
  BY <1>3 DEF Types, PcTypes
<1>5. run' = [run EXCEPT !.runAborted = @ \/ signal,
                         !.aborted = IF event.aborted THEN @ + 1 ELSE @]
  BY DEF EndOfEventAction, TermRequested
<1>6. /\ DOMAIN run' = RunFields
      /\ run'.used = run.used /\ run'.late = run.late /\ run'.initial = run.initial
      /\ run'.runAborted = (run.runAborted \/ signal)
  BY <1>5 DEF Types, RunTypes, RunFields
<1>7. RunTypes'
  BY <1>6 DEF Types, RunTypes, UserTypes
<1>8. EventTypes' /\ PcTypes'
  BY <1>2, <1>3, <1>4 DEF Types, EventTypes, PcTypes
<1>9. UserTypes' /\ FileTypes'
  BY <1>3 DEF Types, UserTypes, RunTypes, FileTypes, user
<1>10. ds'.aborted = event.aborted /\ ds'.tracks = event.kept
  BY <1>1 DEF MakeEvent
<1> QED BY <1>2, <1>3, <1>4, <1>6, <1>7, <1>8, <1>9, <1>10 DEF Types

\* A run begins with the flag as the user left it.
LEMMA BeginOfRunEffect ==
  ASSUME Types, NEW n \in 1 .. MaxEvents, BeginOfRunAction(n)
  PROVE  /\ Types' /\ pc = "idle" /\ pc' = "next"
         /\ run'.used = <<>> /\ run'.late = 0 /\ run'.initial = storeTrajectory
         /\ event' = event /\ file' = file /\ ds' = ds
         /\ UNCHANGED <<storeTrajectory, keep, discard, asked>>
<1>1. run' = [NewRun EXCEPT !.left = n]
  BY DEF BeginOfRunAction
<1>2. /\ DOMAIN run' = RunFields /\ run'.initial = storeTrajectory
      /\ run'.runAborted \in BOOLEAN /\ run'.used = <<>> /\ run'.late = 0
  BY <1>1 DEF NewRun, RunFields
<1>3. RunTypes'
  BY <1>2 DEF RunTypes, Types, UserTypes
<1>4. /\ pc = "idle" /\ pc' = "next" /\ event' = event /\ file' = file /\ ds' = ds
      /\ runs' = runs + 1
      /\ UNCHANGED <<storeTrajectory, keep, discard, asked, chroma, max_pe, signal, number>>
  BY DEF BeginOfRunAction, Idle
<1>5. UserTypes'
  BY <1>4 DEF Types, UserTypes
<1>6. FileTypes' /\ EventTypes' /\ PcTypes'
  BY <1>4 DEF Types, FileTypes, EventTypes, PcTypes
<1> QED BY <1>2, <1>3, <1>4, <1>5, <1>6 DEF Types

\* After a run nothing is left of its last event.
LEMMA EndOfRunEffect ==
  ASSUME Types, EndOfRunAction
  PROVE  /\ Types' /\ pc = "next" /\ pc' = "idle" /\ run' = run /\ file' = file
         /\ event' = NewEvent /\ ds' = NoDS
         /\ UNCHANGED <<storeTrajectory, user, signal>>
<1>1. /\ pc = "next" /\ pc' = "idle" /\ run' = run /\ file' = file
      /\ event' = NewEvent /\ ds' = NoDS
      /\ UNCHANGED <<storeTrajectory, user, signal, number>>
  BY DEF EndOfRunAction
<1>2. EventTypes' /\ PcTypes'
  BY <1>1 DEF NewEvent, EventTypes, EventFields, PcTypes, Nothing
<1>3. UserTypes'
  BY <1>1 DEF Types, UserTypes, user
<1>4. FileTypes' /\ RunTypes'
  BY <1>1 DEF Types, FileTypes, RunTypes
<1> QED BY <1>1, <1>2, <1>3, <1>4 DEF Types

\* Every step keeps the types.
LEMMA NextTypes ==
  ASSUME Types, [Next]_vars
  PROVE  Types'
<1>1. CASE Quiet
  <2>1. UserTypes' /\ run' = run /\ file' = file /\ event' = event
        /\ (pc' = pc \/ (pc = "begin" /\ pc' = "stack"))
    BY <1>1, QuietEffect
  <2> QED BY <2>1 DEF Types, RunTypes, FileTypes, EventTypes, PcTypes
<1>2. CASE \E n \in 1 .. MaxEvents : BeginOfRunAction(n)
  BY <1>2, BeginOfRunEffect
<1>3. CASE NextEvent
  BY <1>3, NextEventTypes
<1>4. CASE Tracking
  <2>1. EventTypes' /\ PcTypes' /\ UserTypes' /\ RunTypes' /\ file' = file
    BY <1>4, TrackingEffect
  <2> QED BY <2>1 DEF Types, FileTypes
<1>5. CASE EndOfEventAction
  BY <1>5, EndOfEventEffect
<1>6. CASE EndOfRunAction
  BY <1>6, EndOfRunEffect
<1>7. CASE UNCHANGED vars
  BY <1>7 DEF vars, user, Types, UserTypes, RunTypes, FileTypes, EventTypes, PcTypes
<1> QED BY <1>1, <1>2, <1>3, <1>4, <1>5, <1>6, <1>7, NextCases

\* The types hold in every state.
LEMMA TypesHold == Spec => []Types
BY InitTypes, NextTypes, PTL DEF Spec

\* The type invariant of Gsim: the entry that the generator holds is one of the
\* file, and a track is being tracked in the states that say so.
THEOREM TypeCorrect == Spec => []TypeOK
<1>1. Types => TypeOK
  <2> SUFFICES ASSUME Types PROVE TypeOK
    OBVIOUS
  <2>1. {storeTrajectory, chroma, signal, asked} \subseteq BOOLEAN
    BY Zenon DEF Types, UserTypes
  <2> QED
    BY <2>1 DEF Types, UserTypes, FileTypes, EventTypes, PcTypes, TypeOK
<1> QED BY <1>1, TypesHold, PTL

-----------------------------------------------------------------------------
(* A run after a Ctrl-C.                                                   *)

\* The one event that may begin after the signal has stopped the run by the
\* time the next one could begin.
Late ==
  /\ run.late \in {0, 1}
  /\ run.late = 1 => signal
  /\ run.late = 1 /\ pc = "next" => run.runAborted

\* Every step keeps it.
LEMMA NextLate ==
  ASSUME Types, Late, [Next]_vars
  PROVE  Late'
<1>1. CASE Quiet
  BY <1>1, QuietEffect DEF Late
<1>2. CASE \E n \in 1 .. MaxEvents : BeginOfRunAction(n)
  BY <1>2, BeginOfRunEffect DEF Late
<1>3. CASE NextEvent
  <2>1. PICK n \in 1 .. Entries + 1 : GenerateEvent(n)
    BY <1>3 DEF NextEvent
  <2>2. pc = "next" /\ ~run.runAborted /\ run.late = 0
    BY <1>3 DEF NextEvent, Late
  <2>3. run'.late = (IF signal THEN 1 ELSE 0) /\ pc' = "begin" /\ signal' = signal
    BY <2>1, <2>2 DEF GenerateEvent, Types, RunTypes, RunFields
  <2> QED BY <2>3 DEF Late
<1>4. CASE Tracking
  BY <1>4, TrackingEffect DEF Late
<1>5. CASE EndOfEventAction
  BY <1>5, EndOfEventEffect DEF Late
<1>6. CASE EndOfRunAction
  BY <1>6, EndOfRunEffect DEF Late
<1>7. CASE UNCHANGED vars
  BY <1>7 DEF vars, Late
<1> QED BY <1>1, <1>2, <1>3, <1>4, <1>5, <1>6, <1>7, NextCases

\* After a Ctrl-C a run begins at most one more event, wherever the signal comes.
THEOREM StopsAfterSignalAlways == Spec => []StopsAfterSignal
<1>1. Init => Late
  BY DEF Init, NewRun, Late
<1>2. Late => StopsAfterSignal
  BY DEF Late, StopsAfterSignal
<1> QED BY <1>1, <1>2, NextLate, TypesHold, PTL DEF Spec

-----------------------------------------------------------------------------
(* The entries of a run.                                                   *)

\* Entries that follow one another.
Consecutive(s) == \A i \in 1 .. Len(s) - 1 : s[i + 1] = s[i] + 1

\* Entries that go on where the ones before them ended.
LEMMA ConsecutiveConcat ==
  ASSUME NEW used \in Seq(Nat), NEW read \in Seq(Nat), NEW c \in Nat, NEW n \in Nat,
         n >= 1, Len(read) = n, \A i \in 1 .. n : read[i] = c + i - 1,
         Consecutive(used), used # <<>> => used[Len(used)] = c - 1
  PROVE  /\ Consecutive(used \o read)
         /\ used \o read # <<>>
         /\ (used \o read)[Len(used \o read)] = c + n - 1
<1> DEFINE all == used \o read
           m == Len(used)
<1>1. /\ m \in Nat /\ Len(all) = m + n /\ all \in Seq(Nat)
      /\ \A i \in 1 .. m : all[i] = used[i]
      /\ used # <<>> <=> m > 0
  OBVIOUS
<1>2. ASSUME NEW j \in 1 .. n
      PROVE  all[m + j] = c + j - 1
  <2>1. m + j \in 1 .. Len(all) /\ m + j > m /\ (m + j) - m = j
    BY <1>1
  <2>2. all[m + j] = read[j]
    BY <1>1, <2>1
  <2> QED BY <2>2
<1>3. \A i \in 1 .. m - 1 : used[i + 1] = used[i] + 1
  BY DEF Consecutive
<1>4. m > 0 => all[m] = c - 1
  BY <1>1
<1> HIDE DEF all, m
<1>5. ASSUME NEW i \in 1 .. m + n - 1
      PROVE  all[i + 1] = all[i] + 1
  <2>1. CASE i < m
    <3>1. i \in 1 .. m /\ i + 1 \in 1 .. m /\ i \in 1 .. m - 1
      BY <1>1, <2>1
    <3> QED BY <1>1, <1>3, <3>1
  <2>2. CASE i = m
    <3>1. all[m] = c - 1
      BY <1>1, <1>4, <2>2
    <3>2. all[m + 1] = c + 1 - 1
      BY <1>2
    <3> QED BY <2>2, <3>1, <3>2
  <2>3. CASE i > m
    <3> DEFINE j == i - m
    <3>1. j \in 1 .. n /\ j + 1 \in 1 .. n /\ i = m + j /\ i + 1 = m + (j + 1)
      BY <1>1, <2>3
    <3> HIDE DEF j
    <3>2. all[m + j] = c + j - 1 /\ all[m + (j + 1)] = c + (j + 1) - 1
      BY <1>2, <3>1
    <3> QED BY <3>1, <3>2
  <2> QED BY <1>1, <2>1, <2>2, <2>3
<1>6. Consecutive(all)
  BY <1>1, <1>5 DEF Consecutive
<1>7. all[m + n] = c + n - 1
  BY <1>2
<1>8. all # <<>>
  BY <1>1
<1> QED BY <1>1, <1>6, <1>7, <1>8 DEF all

\* As long as the run goes on, the file stands behind the last entry used, and
\* has more.
Order ==
  /\ Consecutive(run.used)
  /\ run.used # <<>> /\ ~run.runAborted =>
       /\ run.used[Len(run.used)] = file.current - 1
       /\ file.current < Entries

\* What one event reads continues the run's entries.
LEMMA NextEventOrder ==
  ASSUME Types, Order, NextEvent
  PROVE  Order'
<1>1. PICK n \in 1 .. Entries + 1 : GenerateEvent(n)
  BY DEF NextEvent
<1> DEFINE current == file.current
           used == run.used
<1>2. /\ n \in Nat /\ n >= 1 /\ Entries \in Nat /\ current \in Nat
      /\ used \in Seq(Nat) /\ Read(n) \in Seq(Nat) /\ Len(Read(n)) <= n
      /\ n = 1 \/ current + n <= Entries
  BY <1>1, ReadFacts, GsimAssumption DEF Types, FileTypes, RunTypes, GenerateEvent
<1>3. /\ file'.current = current + n
      /\ run'.used = used \o Read(n)
      /\ run'.runAborted =
           (run.runAborted \/ \E c \in current + 1 .. current + n : OutOfEvents(c))
  BY <1>1 DEF GenerateEvent, Types, FileTypes, FileFields, RunTypes, RunFields
<1>4. ~run.runAborted
  BY DEF NextEvent
<1>5. ~run'.runAborted => current + n < Entries
  <2>1. current + n >= Entries => OutOfEvents(current + n)
    BY DEF OutOfEvents
  <2>2. current + n \in current + 1 .. current + n /\ current + n \in Nat
    BY <1>2
  <2>3. ~run'.runAborted => ~OutOfEvents(current + n)
    BY <1>3, <2>2
  <2> QED BY <1>2, <2>1, <2>2, <2>3
<1>6. CASE current < Entries
  <2>1. Read(n) = [i \in 1 .. n |-> current + i - 1]
    BY <1>6 DEF Read
  <2>2. Len(Read(n)) = n /\ \A i \in 1 .. n : Read(n)[i] = current + i - 1
    BY <1>2, <2>1
  <2>3. Consecutive(used) /\ (used # <<>> => used[Len(used)] = current - 1)
    BY <1>4 DEF Order
  <2>4. /\ Consecutive(used \o Read(n))
        /\ (used \o Read(n))[Len(used \o Read(n))] = current + n - 1
    <3> DEFINE read == Read(n)
    <3>1. /\ read \in Seq(Nat) /\ Len(read) = n /\ n \in Nat /\ n >= 1
          /\ \A i \in 1 .. n : read[i] = current + i - 1
          /\ used \in Seq(Nat) /\ current \in Nat
      BY <1>2, <2>2
    <3> HIDE DEF used, current, read
    <3>2. /\ Consecutive(used \o read)
          /\ (used \o read)[Len(used \o read)] = current + n - 1
      BY <2>3, <3>1, ConsecutiveConcat
    <3> QED BY <3>2 DEF read
  <2>5. Consecutive(run.used)'
    BY <1>3, <2>4 DEF Consecutive
  <2>6. run'.used[Len(run'.used)] = file'.current - 1
    <3> HIDE DEF used, current
    <3> QED BY <1>2, <1>3, <2>4
  <2>7. ~run'.runAborted => file'.current < Entries
    BY <1>3, <1>5
  <2> QED BY <2>5, <2>6, <2>7 DEF Order
<1>7. CASE current >= Entries
  <2>1. n = 1
    BY <1>2, <1>7
  <2>2. used = <<>>
    BY <1>2, <1>4, <1>7 DEF Order
  <2>3. run'.runAborted
    BY <1>2, <1>5, <1>7
  <2>4. run'.used = Read(n)
    BY <1>2, <1>3, <2>2
  <2>5. Len(run'.used) <= 1 /\ Len(run'.used) \in Nat
    BY <1>2, <2>1, <2>4
  <2>6. 1 .. Len(run'.used) - 1 = {}
    BY <2>5
  <2>7. Consecutive(run.used)'
    BY <2>6 DEF Consecutive
  <2> QED BY <2>3, <2>7 DEF Order
<1> QED BY <1>2, <1>6, <1>7

\* Nothing else takes an entry from the file.
LEMMA NextOrder ==
  ASSUME Types, Order, [Next]_vars
  PROVE  Order'
<1>1. CASE Quiet
  BY <1>1, QuietEffect DEF Order, Consecutive
<1>2. CASE \E n \in 1 .. MaxEvents : BeginOfRunAction(n)
  BY <1>2, BeginOfRunEffect DEF Order, Consecutive
<1>3. CASE NextEvent
  BY <1>3, NextEventOrder
<1>4. CASE Tracking
  BY <1>4, TrackingEffect DEF Order, Consecutive
<1>5. CASE EndOfEventAction
  BY <1>5, EndOfEventEffect DEF Order, Consecutive, Types, RunTypes
<1>6. CASE EndOfRunAction
  BY <1>6, EndOfRunEffect DEF Order, Consecutive
<1>7. CASE UNCHANGED vars
  BY <1>7 DEF vars, Order, Consecutive
<1> QED BY <1>1, <1>2, <1>3, <1>4, <1>5, <1>6, <1>7, NextCases

\* A run simulates entries one after the other, none twice and none left out.
THEOREM EntriesInOrderAlways == Spec => []EntriesInOrder
<1>1. Init => Order
  BY DEF Init, NewRun, Order, Consecutive
<1>2. Order => EntriesInOrder
  BY DEF Order, Consecutive, EntriesInOrder
<1> QED BY <1>1, <1>2, NextOrder, TypesHold, PTL DEF Spec

-----------------------------------------------------------------------------
(* The trajectories of an event.                                           *)

\* The points of a track of k steps; the same once it has taken a step; those
\* since it was tracked on after b steps.
Path(k) == [i \in 1 .. k + 1 |-> i - 1]
Whole(k) == IF k > 0 THEN Path(k) ELSE <<>>
Since(b, k) == IF k > b THEN [i \in 1 .. k - b + 1 |-> b + i - 1] ELSE <<>>

\* A step goes to the end of the part that is tracked.
LEMMA AppendStepFacts ==
  ASSUME NEW b \in Nat, NEW k \in Nat, b <= k
  PROVE  AppendStep(Since(b, k), k + 1) = Since(b, k + 1)
<1>1. CASE k = b
  <2>1. Since(b, k) = <<>>
    BY <1>1 DEF Since
  <2>2. AppendStep(Since(b, k), k + 1) = <<k, k + 1>>
    BY <2>1 DEF AppendStep
  <2>3. Since(b, k + 1) = [i \in 1 .. 2 |-> k + i - 1]
    BY <1>1 DEF Since
  <2>4. [i \in 1 .. 2 |-> k + i - 1] = <<k, k + 1>>
    OBVIOUS
  <2> QED BY <2>2, <2>3, <2>4
<1>2. CASE k > b
  <2> DEFINE old == [i \in 1 .. k - b + 1 |-> b + i - 1]
             new == [i \in 1 .. (k + 1) - b + 1 |-> b + i - 1]
  <2>1. Since(b, k) = old /\ Since(b, k + 1) = new
    BY <1>2 DEF Since
  <2>2. /\ old \in Seq(Nat) /\ Len(old) = k - b + 1 /\ old # <<>>
        /\ new \in Seq(Nat) /\ Len(new) = k - b + 2
    BY <1>2
  <2>3. AppendStep(old, k + 1) = Append(old, k + 1)
    BY <2>2 DEF AppendStep
  <2>4. Append(old, k + 1) \in Seq(Nat) /\ Len(Append(old, k + 1)) = k - b + 2
    BY <2>2
  <2>5. ASSUME NEW i \in 1 .. k - b + 2
        PROVE  Append(old, k + 1)[i] = new[i]
    <3>1. CASE i <= k - b + 1
      BY <2>2, <3>1
    <3>2. CASE i = k - b + 2
      BY <2>2, <3>2
    <3> QED BY <3>1, <3>2
  <2>6. Append(old, k + 1) = new
    <3> HIDE DEF old, new
    <3> QED BY <2>2, <2>4, <2>5, SeqEqual
  <2> QED BY <2>1, <2>3, <2>6
<1> QED BY <1>1, <1>2

\* The parts of a track that was suspended are merged into its whole path.
LEMMA MergeFacts ==
  ASSUME NEW b \in Nat, NEW k \in Nat, b < k
  PROVE  MergeTrajectory(Whole(b), Since(b, k)) = Path(k)
<1> DEFINE since == [i \in 1 .. k - b + 1 |-> b + i - 1]
<1>1. /\ Since(b, k) = since /\ since \in Seq(Nat) /\ Len(since) = k - b + 1
      /\ since # <<>>
  BY DEF Since
<1>2. Path(k) \in Seq(Nat) /\ Len(Path(k)) = k + 1
  BY DEF Path
<1>3. CASE b = 0
  <2>1. Whole(b) = <<>>
    BY <1>3 DEF Whole
  <2>2. since = Path(k)
    BY <1>3 DEF Path
  <2> QED BY <1>1, <2>1, <2>2 DEF MergeTrajectory
<1>4. CASE b > 0
  <2>1. Whole(b) = Path(b) /\ Path(b) \in Seq(Nat) /\ Len(Path(b)) = b + 1
    BY <1>4 DEF Whole, Path
  <2> DEFINE tail == Tail(since)
             all == Path(b) \o tail
  <2>2. \A i \in 1 .. k - b + 1 : since[i] = b + i - 1
    OBVIOUS
  <2>3. /\ tail \in Seq(Nat) /\ Len(tail) = k - b
        /\ \A i \in 1 .. k - b : tail[i] = since[i + 1]
    <3> HIDE DEF since
    <3>1. /\ tail \in Seq(Nat) /\ Len(tail) = Len(since) - 1
          /\ \A i \in 1 .. Len(tail) : tail[i] = since[i + 1]
      BY <1>1, HeadTailProperties
    <3> HIDE DEF tail
    <3> QED BY <1>1, <3>1
  <2>4. /\ all \in Seq(Nat) /\ Len(all) = k + 1
        /\ \A i \in 1 .. k + 1 :
             all[i] = IF i <= b + 1 THEN Path(b)[i] ELSE tail[i - (b + 1)]
    <3>1. /\ all \in Seq(Nat) /\ Len(all) = Len(Path(b)) + Len(tail)
          /\ \A i \in 1 .. Len(Path(b)) + Len(tail) :
               all[i] = IF i <= Len(Path(b)) THEN Path(b)[i] ELSE tail[i - Len(Path(b))]
      <4> HIDE DEF tail
      <4> QED BY <2>1, <2>3, ConcatProperties
    <3>2. Len(Path(b)) = b + 1 /\ Len(tail) = k - b /\ (b + 1) + (k - b) = k + 1
      BY <2>1, <2>3
    <3> HIDE DEF tail, all
    <3> QED BY <3>1, <3>2
  <2> HIDE DEF since, tail, all
  <2>5. ASSUME NEW i \in 1 .. k + 1
        PROVE  all[i] = Path(k)[i]
    <3>1. CASE i <= b + 1
      BY <2>4, <3>1 DEF Path
    <3>2. CASE i > b + 1
      <4>1. /\ i - (b + 1) \in 1 .. k - b
            /\ (i - (b + 1)) + 1 \in 1 .. k - b + 1
            /\ b + ((i - (b + 1)) + 1) - 1 = i - 1
        BY <3>2
      <4>2. all[i] = tail[i - (b + 1)]
        BY <2>4, <3>2
      <4>3. tail[i - (b + 1)] = since[(i - (b + 1)) + 1]
        BY <2>3, <4>1
      <4>4. since[(i - (b + 1)) + 1] = i - 1
        BY <2>2, <4>1
      <4> QED BY <4>2, <4>3, <4>4 DEF Path
    <3> QED BY <3>1, <3>2
  <2>6. all = Path(k)
    BY <1>2, <2>4, <2>5, SeqEqual
  <2>7. Whole(b) # <<>>
    BY <2>1
  <2> QED BY <1>1, <2>1, <2>6, <2>7 DEF MergeTrajectory, all, tail
<1> QED BY <1>3, <1>4

\* What is known of a track that waits, and of the one that is tracked.
Waiting(track) ==
  track.before = IF Wanted(track.kind) THEN Whole(track.steps) ELSE <<>>
OnTrack(track) ==
  /\ track.stored <=> Wanted(track.kind)
  /\ track.stored =>
       \E b \in 0 .. track.steps :
         /\ track.before = Whole(b) /\ track.now = Since(b, track.steps)
         /\ pc # "track" => b < track.steps
  /\ ~track.stored => track.before = <<>> /\ track.now = <<>>

\* The tracks whose trajectories the event keeps.
Finished ==
  {t \in DOMAIN event.tracks :
     t \notin event.stack /\ t # event.at /\ Wanted(event.tracks[t].kind)}
Paths(tracks, ts) == {[id |-> t, steps |-> Path(tracks[t].steps)] : t \in ts}

\* The flag is the user's whenever Gsim has not set it for a track.
Flags ==
  /\ pc # "idle" => (run.initial <=> asked)
  /\ pc \in {"idle", "next", "begin"} => (storeTrajectory <=> asked)
Trajectories ==
  /\ Flags
  /\ pc = "idle" => event.tracks = <<>> /\ event.kept = {} /\ ds = NoDS
  /\ event.at \notin event.stack
  /\ \A t \in event.stack : Waiting(event.tracks[t])
  /\ event.at # Nothing => OnTrack(event.tracks[event.at])
  /\ ~event.aborted => event.kept = Paths(event.tracks, Finished)
  /\ Delivered => /\ pc = "next" /\ event.stack = {} /\ event.at = Nothing
                  /\ ds.tracks = event.kept /\ ds.aborted = event.aborted

\* Gsim asks for the trajectories of the particles that the user wants.
LEMMA AsksForWanted ==
  ASSUME Types, Flags, pc # "idle", NEW kind
  PROVE  GetStoreParticleTraj(kind) <=> Wanted(kind)
<1>1. CASE asked
  BY <1>1 DEF Flags, GetStoreParticleTraj, Wanted
<1>2. CASE ~asked
  BY <1>2 DEF Flags, GetStoreParticleTraj, Wanted
<1> QED BY <1>1, <1>2

\* Nothing changes that trajectories depend on.
LEMMA SameTrajectories ==
  ASSUME Trajectories, event' = event, ds' = ds, run'.initial = run.initial, pc' = pc,
         UNCHANGED <<asked, keep, discard, storeTrajectory>>
  PROVE  Trajectories'
BY DEF Trajectories, Flags, Waiting, OnTrack, Finished, Wanted, Delivered

\* Without an event, the flag is the user's.
LEMMA IdleTrajectories ==
  ASSUME Types', pc' = "idle", storeTrajectory' <=> asked',
         event'.tracks = <<>>, event'.kept = {}, ds' = NoDS
  PROVE  Trajectories'
<1>1. event'.stack = {} /\ event'.at = Nothing
  BY DEF Types, EventTypes, PcTypes
<1>2. Flags' /\ ~Delivered'
  BY DEF Flags, Delivered
<1>3. Finished' = {}
  BY DEF Finished
<1>4. Paths(event.tracks, Finished)' = {}
  BY <1>3 DEF Paths
<1> QED BY <1>1, <1>2, <1>4 DEF Trajectories

\* The commands of the macro.
LEMMA QuietTrajectories ==
  ASSUME Types, Types', Trajectories, Quiet
  PROVE  Trajectories'
<1>1. CASE StoreTrajectory
  <2>1. pc = "idle" /\ pc' = "idle" /\ (storeTrajectory' <=> asked')
        /\ event' = event /\ ds' = ds
    BY <1>1 DEF StoreTrajectory, Idle
  <2> QED BY <2>1, IdleTrajectories DEF Trajectories
<1>2. CASE SwitchChroma
  BY <1>2, SameTrajectories DEF SwitchChroma
<1>3. CASE Signal
  BY <1>3, SameTrajectories DEF Signal, user
<1>4. CASE \E kind \in Named, b \in BOOLEAN : SetStoreParticleTraj(kind, b)
  <2>1. pc = "idle" /\ pc' = "idle" /\ storeTrajectory' = storeTrajectory
        /\ asked' = asked /\ event' = event /\ ds' = ds
    BY <1>4 DEF SetStoreParticleTraj, Idle
  <2> QED BY <2>1, IdleTrajectories DEF Trajectories, Flags
<1>5. CASE BeginOfEventAction
  <2>1. pc = "begin" /\ pc' = "stack" /\ event' = event /\ ds' = ds /\ run' = run
        /\ UNCHANGED <<asked, keep, discard, storeTrajectory>>
    BY <1>5 DEF BeginOfEventAction, user
  <2>2. event.at = Nothing
    BY <2>1 DEF Types, PcTypes
  <2>3. ~Delivered
    BY <2>1 DEF Trajectories
  <2>4. Flags' /\ ~Delivered'
    BY <2>1, <2>3 DEF Trajectories, Flags, Delivered
  <2>5. Finished' = Finished
    BY <2>1 DEF Finished, Wanted
  <2>6. \A t \in event'.stack : Waiting(event.tracks[t])'
    BY <2>1 DEF Trajectories, Waiting, Wanted
  <2> QED BY <2>1, <2>2, <2>4, <2>5, <2>6 DEF Trajectories, Paths
<1> QED BY <1>1, <1>2, <1>3, <1>4, <1>5 DEF Quiet

\* An event begins with tracks of no steps, all of them on the stack.
LEMMA NextEventTrajectories ==
  ASSUME Types, Types', Trajectories, NextEvent
  PROVE  Trajectories'
<1>1. PICK n \in 1 .. Entries + 1 : GenerateEvent(n)
  BY DEF NextEvent
<1>2. /\ event'.tracks = [i \in DOMAIN Read(n) |-> NewTrack("charged")]
      /\ event'.stack = DOMAIN Read(n) /\ event'.at = Nothing /\ event'.kept = {}
  <2>1. event' = [NewEvent EXCEPT
                    !.entries = Read(n),
                    !.tracks = [i \in DOMAIN Read(n) |-> NewTrack("charged")],
                    !.stack = DOMAIN Read(n)]
    BY <1>1 DEF GenerateEvent
  <2> QED BY <2>1 DEF NewEvent
<1>3. /\ pc = "next" /\ pc' = "begin" /\ ds' = NoDS /\ run'.initial = run.initial
      /\ UNCHANGED <<asked, keep, discard, storeTrajectory>>
  BY <1>1 DEF NextEvent, GenerateEvent, user, Types, RunTypes, RunFields
<1>4. Flags' /\ ~Delivered'
  BY <1>3 DEF Trajectories, Flags, Delivered
<1>5. Finished' = {}
  BY <1>2 DEF Finished
<1>6. Paths(event.tracks, Finished)' = {}
  BY <1>5 DEF Paths
<1>7. ASSUME NEW t \in event'.stack
      PROVE  Waiting(event.tracks[t])'
  <2>1. event'.tracks[t] = NewTrack("charged")
    BY <1>2
  <2>2. event'.tracks[t].before = <<>> /\ event'.tracks[t].steps = 0
    BY <2>1 DEF NewTrack
  <2> QED BY <2>2 DEF Waiting, Whole
<1>8. event'.at \notin event'.stack
  BY <1>2 DEF Types, EventTypes, Nothing
<1> QED BY <1>2, <1>3, <1>4, <1>6, <1>7, <1>8 DEF Trajectories

\* A track is taken from the stack: nothing is known of the part that is to come.
LEMMA PreTrajectories ==
  ASSUME Types, Trajectories, NEW t \in event.stack, PreUserTrackingAction(t)
  PROVE  Trajectories'
<1> DEFINE old == event.tracks[t]
           new == event'.tracks[t]
<1>1. /\ event.tracks \in Seq(TrackRecord) /\ t \in DOMAIN event.tracks
      /\ event.at = Nothing /\ t # Nothing
  BY DEF PreUserTrackingAction, Types, EventTypes, PcTypes, Nothing
<1>2. old \in TrackRecord
  BY <1>1
<1>3. /\ pc = "stack" /\ pc' = "track" /\ run' = run /\ ds' = ds
      /\ UNCHANGED <<asked, keep, discard>>
  BY DEF PreUserTrackingAction, user
<1>4. new = [old EXCEPT !.stored = GetStoreParticleTraj(old.kind), !.now = <<>>]
  BY PreEffect
<1>5. /\ new.kind = old.kind /\ new.steps = old.steps /\ new.before = old.before
      /\ new.stored = GetStoreParticleTraj(old.kind) /\ new.now = <<>>
  <2> HIDE DEF old, new
  <2> QED BY <1>2, <1>4 DEF TrackRecord
<1>6. ~Delivered /\ ~Delivered' /\ Flags'
  BY <1>3 DEF Trajectories, Flags, Delivered
<1>7. OnTrack(event.tracks[event.at])'
  <2>1. new.stored <=> Wanted(old.kind)
    BY <1>3, <1>5, AsksForWanted DEF Trajectories
  <2>2. old.before = IF Wanted(old.kind) THEN Whole(old.steps) ELSE <<>>
    BY DEF Trajectories, Waiting
  <2>3. old.steps \in Nat
    BY <1>2 DEF TrackRecord
  <2>4. Since(old.steps, old.steps) = <<>>
    BY <2>3 DEF Since
  <2>5. event'.at = t
    BY PreEffect
  <2>6. Wanted(event.tracks[t].kind)' <=> Wanted(old.kind)
    BY <1>3, <1>5 DEF Wanted
  <2>7. new.stored =>
          \E b \in 0 .. new.steps :
            new.before = Whole(b) /\ new.now = Since(b, new.steps)
    BY <1>5, <2>1, <2>2, <2>3, <2>4
  <2>8. ~new.stored => new.before = <<>> /\ new.now = <<>>
    BY <1>5, <2>1, <2>2
  <2> QED BY <1>3, <1>5, <2>1, <2>5, <2>6, <2>7, <2>8 DEF OnTrack
<1>8. \A u \in event'.stack : Waiting(event.tracks[u])'
  <2> SUFFICES ASSUME NEW u \in event'.stack PROVE Waiting(event.tracks[u])'
    OBVIOUS
  <2>1. u \in event.stack /\ u # t /\ u \in DOMAIN event.tracks
    BY PreEffect DEF Types, EventTypes
  <2>2. event'.tracks[u] = event.tracks[u]
    BY <2>1, PreEffect
  <2>3. Waiting(event.tracks[u])
    BY <2>1 DEF Trajectories
  <2> QED BY <1>3, <2>2, <2>3 DEF Waiting, Wanted
<1>9. Finished' = Finished
  <2>1. \A u \in DOMAIN event.tracks : event'.tracks[u].kind = event.tracks[u].kind
    BY <1>5, PreEffect
  <2>2. /\ DOMAIN event'.tracks = DOMAIN event.tracks /\ event'.at = t
        /\ event'.stack = event.stack \ {t}
    BY PreEffect
  <2>3. \A u \in DOMAIN event.tracks : u # event.at
    BY <1>1 DEF Nothing
  <2> QED BY <1>3, <2>1, <2>2, <2>3 DEF Finished, Wanted
<1>10. Paths(event.tracks, Finished)' = Paths(event.tracks, Finished)
  <2>1. \A u \in DOMAIN event.tracks : event'.tracks[u].steps = event.tracks[u].steps
    BY <1>5, PreEffect
  <2>2. Finished \subseteq DOMAIN event.tracks
    BY DEF Finished
  <2> QED BY <1>9, <2>1, <2>2 DEF Paths
<1>11. event'.kept = event.kept /\ event'.aborted = event.aborted
       /\ event'.at \notin event'.stack
  BY PreEffect
<1> QED BY <1>3, <1>6, <1>7, <1>8, <1>10, <1>11 DEF Trajectories

\* A step is added to the part that is tracked.
LEMMA SteppingTrajectories ==
  ASSUME Types, Trajectories, Stepping
  PROVE  Trajectories'
<1> DEFINE t == event.at
           old == event.tracks[t]
           new == event'.tracks[t]
<1>1. /\ event.tracks \in Seq(TrackRecord) /\ event.stack \subseteq DOMAIN event.tracks
      /\ t # Nothing /\ t \in DOMAIN event.tracks
  BY StepEffect DEF Types, EventTypes
<1>2. old \in TrackRecord /\ Track = old
  BY <1>1 DEF Track
<1>3. /\ pc = "track" /\ pc' \in {"track", "stopped", "suspended"} /\ ds' = ds
      /\ run' = run /\ UNCHANGED <<asked, keep, discard>>
  BY DEF Stepping, PhotonStep, ChargedStep, user
<1>4. ~Delivered /\ ~Delivered' /\ Flags'
  BY <1>3 DEF Trajectories, Flags, Delivered
<1>5. /\ new.kind = old.kind /\ new.steps = old.steps + 1 /\ new.before = old.before
      /\ new.stored = old.stored
      /\ new.now = IF old.stored THEN AppendStep(old.now, old.steps + 1) ELSE old.now
  BY <1>1, <1>2, StepEffect, SteppedFacts
<1>6. \A u \in DOMAIN event.tracks : u # t => event'.tracks[u] = event.tracks[u]
  BY <1>1, StepEffect, SteppedFacts
<1>7. old.steps \in Nat /\ old.stored \in BOOLEAN
  BY <1>2 DEF TrackRecord
<1>8. OnTrack(event.tracks[event.at])'
  <2>1. OnTrack(old)
    BY <1>1 DEF Trajectories
  <2>2. event'.at = t
    BY StepEffect
  <2>3. Wanted(event.tracks[t].kind)' <=> Wanted(old.kind)
    BY <1>3, <1>5, <2>2 DEF Wanted
  <2>4. CASE old.stored
    <3>1. PICK b \in 0 .. old.steps :
            old.before = Whole(b) /\ old.now = Since(b, old.steps)
      BY <2>1, <2>4 DEF OnTrack
    <3>2. new.now = Since(b, new.steps)
      BY <1>5, <1>7, <2>4, <3>1, AppendStepFacts
    <3>3. b \in 0 .. new.steps /\ b < new.steps
      BY <1>5, <1>7, <3>1
    <3> HIDE DEF old, new
    <3>4. new.stored /\ new.before = Whole(b) /\ Wanted(old.kind)
      BY <1>5, <2>1, <2>4, <3>1 DEF OnTrack
    <3> QED BY <2>2, <2>3, <3>2, <3>3, <3>4 DEF OnTrack, new
  <2>5. CASE ~old.stored
    BY <1>5, <2>1, <2>2, <2>3, <2>5 DEF OnTrack
  <2> QED BY <2>4, <2>5
<1>9. \A u \in event'.stack : Waiting(event.tracks[u])'
  <2> SUFFICES ASSUME NEW u \in event'.stack PROVE Waiting(event.tracks[u])'
    OBVIOUS
  <2>1. CASE u \in event.stack /\ u # t
    <3>1. Waiting(event.tracks[u]) /\ event'.tracks[u] = event.tracks[u]
      BY <1>1, <1>6, <2>1 DEF Trajectories
    <3> QED BY <1>3, <3>1 DEF Waiting, Wanted
  <2>2. CASE u = NewNumber /\ event'.tracks[u] = NewTrack("opticalphoton")
    <3>1. event'.tracks[u].before = <<>> /\ event'.tracks[u].steps = 0
      BY <2>2 DEF NewTrack
    <3> QED BY <3>1 DEF Waiting, Whole
  <2>3. u \in event.stack => u # t
    BY DEF Trajectories
  <2> QED BY <2>1, <2>2, <2>3, StepEffect
<1>10. Finished' = Finished
  <2>1. \A u \in DOMAIN event.tracks : event'.tracks[u].kind = event.tracks[u].kind
    BY <1>5, <1>6
  <2>2. event'.at = t
    BY StepEffect
  <2>3. CASE DOMAIN event'.tracks = DOMAIN event.tracks /\ event'.stack = event.stack
    BY <1>3, <2>1, <2>2, <2>3 DEF Finished, Wanted
  <2>4. CASE /\ DOMAIN event'.tracks = DOMAIN event.tracks \cup {NewNumber}
             /\ event'.stack = event.stack \cup {NewNumber}
             /\ NewNumber \notin DOMAIN event.tracks
    BY <1>1, <1>3, <2>1, <2>2, <2>4 DEF Finished, Wanted
  <2> QED BY <2>3, <2>4, StepEffect
<1>11. Paths(event.tracks, Finished)' = Paths(event.tracks, Finished)
  <2>1. \A u \in Finished : event'.tracks[u].steps = event.tracks[u].steps
    BY <1>6 DEF Finished
  <2> QED BY <1>10, <2>1 DEF Paths
<1>12. event'.kept = event.kept /\ event'.aborted = event.aborted
  BY StepEffect
<1>13. event'.at \notin event'.stack
  BY <1>1, StepEffect DEF Trajectories
<1> QED BY <1>3, <1>4, <1>8, <1>9, <1>11, <1>12, <1>13 DEF Trajectories

\* A part of a track ends: the track has its whole path so far.
LEMMA PostTrajectories ==
  ASSUME Types, Types', Trajectories, PostUserTrackingAction
  PROVE  Trajectories'
<1> DEFINE t == event.at
           old == event.tracks[t]
           new == event'.tracks[t]
<1>1. /\ event.tracks \in Seq(TrackRecord) /\ event.stack \subseteq DOMAIN event.tracks
      /\ t # Nothing /\ t \in DOMAIN event.tracks
  BY PostEffect DEF Types, EventTypes
<1>2. old \in TrackRecord /\ Track = old
  BY <1>1 DEF Track
<1>3. /\ pc \in {"stopped", "suspended"} /\ pc' = "stack" /\ ds' = ds
      /\ run'.initial = run.initial /\ UNCHANGED <<asked, keep, discard>>
  BY DEF PostUserTrackingAction, Types, RunTypes, RunFields, user
<1>4. ~Delivered /\ ~Delivered' /\ Flags'
  BY <1>3 DEF Trajectories, Flags, Delivered
<1>5. new = [old EXCEPT !.before = Merged]
  BY <1>2, PostEffect
<1>6. /\ new.kind = old.kind /\ new.steps = old.steps /\ new.before = Merged
      /\ old.steps \in Nat /\ old.stored \in BOOLEAN
  <2> HIDE DEF old, new
  <2> QED BY <1>2, <1>5 DEF TrackRecord
<1>7. (old.stored <=> Wanted(old.kind)) /\ Merged = IF Wanted(old.kind) THEN Path(old.steps) ELSE <<>>
  <2>1. OnTrack(old)
    BY <1>1 DEF Trajectories
  <2>2. CASE old.stored
    <3>1. PICK b \in 0 .. old.steps :
            old.before = Whole(b) /\ old.now = Since(b, old.steps) /\ b < old.steps
      BY <1>3, <2>1, <2>2 DEF OnTrack
    <3>2. Merged = Path(old.steps)
      BY <1>2, <1>6, <3>1, MergeFacts DEF Merged
    <3> QED BY <2>1, <2>2, <3>2 DEF OnTrack
  <2>3. CASE ~old.stored
    <3>1. old.before = <<>> /\ old.now = <<>> /\ ~Wanted(old.kind)
      BY <2>1, <2>3 DEF OnTrack
    <3>2. Merged = <<>>
      BY <1>2, <3>1 DEF Merged, MergeTrajectory
    <3> QED BY <2>3, <3>1, <3>2
  <2> QED BY <2>2, <2>3
<1>8. Wanted(old.kind) => old.steps > 0
  BY <1>1, <1>3, <1>6 DEF Trajectories, OnTrack
<1>9. event'.at = Nothing
  BY PostEffect
<1>10. \A u \in DOMAIN event.tracks : u # t => event'.tracks[u] = event.tracks[u]
  BY PostEffect
<1>11. \A u \in event'.stack : Waiting(event.tracks[u])'
  <2> SUFFICES ASSUME NEW u \in event'.stack PROVE Waiting(event.tracks[u])'
    OBVIOUS
  <2>1. CASE u = t
    <3>1. new.before = IF Wanted(old.kind) THEN Whole(old.steps) ELSE <<>>
      BY <1>6, <1>7, <1>8 DEF Whole
    <3>2. Wanted(event.tracks[u].kind)' <=> Wanted(old.kind)
      BY <1>3, <1>6, <2>1 DEF Wanted
    <3> QED BY <1>6, <2>1, <3>1, <3>2 DEF Waiting
  <2>2. CASE u # t
    <3>1. u \in event.stack
      BY <2>2, PostEffect
    <3>2. Waiting(event.tracks[u]) /\ event'.tracks[u] = event.tracks[u]
      BY <1>1, <1>10, <2>2, <3>1 DEF Trajectories
    <3> QED BY <1>3, <3>2 DEF Waiting, Wanted
  <2> QED BY <2>1, <2>2
<1>12. ASSUME ~event'.aborted
       PROVE  event'.kept = Paths(event.tracks, Finished)'
  <2>1. ~event.aborted /\ event.kept = Paths(event.tracks, Finished)
    BY <1>12, PostEffect DEF Trajectories
  <2>2. \A u \in DOMAIN event.tracks :
          event'.tracks[u].kind = event.tracks[u].kind
          /\ event'.tracks[u].steps = event.tracks[u].steps
    BY <1>6, <1>10
  <2>3. DOMAIN event'.tracks = DOMAIN event.tracks /\ \A u \in DOMAIN event.tracks : u # Nothing
    BY <1>1, PostEffect DEF Nothing
  <2>4. Finished \subseteq DOMAIN event.tracks /\ t \notin Finished
    BY DEF Finished
  <2>5. CASE Ends /\ Wanted(old.kind)
    <3>1. event'.stack = event.stack
      BY <1>12, <2>5, PostEffect
    <3>2. Finished' = Finished \cup {t}
      BY <1>1, <1>3, <1>9, <2>2, <2>3, <2>5, <3>1 DEF Finished, Wanted, Trajectories
    <3>3. event'.kept = event.kept \cup {[id |-> t, steps |-> Path(old.steps)]}
      BY <1>2, <1>7, <2>5, PostEffect
    <3>4. Paths(event.tracks, Finished)' =
            Paths(event.tracks, Finished) \cup {[id |-> t, steps |-> Path(old.steps)]}
      BY <1>1, <2>2, <2>4, <3>2 DEF Paths
    <3> QED BY <2>1, <3>3, <3>4
  <2>6. CASE ~(Ends /\ Wanted(old.kind))
    <3>1. event'.stack = event.stack \/ event'.stack = event.stack \cup {t}
      BY <1>12, PostEffect
    <3>2. Finished' = Finished
      <4>1. CASE Ends
        <5>1. event'.stack = event.stack /\ ~Wanted(old.kind)
          BY <1>12, <2>6, <4>1, PostEffect
        <5> QED BY <1>3, <1>9, <2>2, <2>3, <5>1 DEF Finished, Wanted
      <4>2. CASE ~Ends
        <5>1. event'.stack = event.stack \cup {t}
          BY <1>12, <4>2, PostEffect
        <5> QED BY <1>3, <1>9, <2>2, <2>3, <5>1 DEF Finished, Wanted
      <4> QED BY <4>1, <4>2
    <3>3. event'.kept = event.kept
      BY <1>2, <1>7, <2>6, PostEffect
    <3>4. Paths(event.tracks, Finished)' = Paths(event.tracks, Finished)
      BY <2>2, <2>4, <3>2 DEF Paths
    <3> QED BY <2>1, <3>3, <3>4
  <2> QED BY <2>5, <2>6
<1>13. event'.at \notin event'.stack
  BY <1>9 DEF Types, EventTypes, Nothing
<1> QED BY <1>3, <1>4, <1>9, <1>11, <1>12, <1>13 DEF Trajectories

\* The processors are given what the event kept.
LEMMA EndOfEventTrajectories ==
  ASSUME Types, Types', Trajectories, EndOfEventAction
  PROVE  Trajectories'
<1>1. /\ pc = "stack" /\ pc' = "next" /\ run'.initial = run.initial
      /\ storeTrajectory' = run.initial /\ UNCHANGED <<asked, keep, discard>>
  BY EndOfEventEffect DEF user
<1>2. /\ event'.tracks = event.tracks /\ event'.stack = {} /\ event'.at = Nothing
      /\ event.stack = {} /\ event.at = Nothing
      /\ event'.kept = event.kept /\ event'.aborted = event.aborted
      /\ ds'.tracks = event.kept /\ ds'.aborted = event.aborted
  BY EndOfEventEffect
<1>3. Flags'
  BY <1>1 DEF Trajectories, Flags
<1>4. Finished' = Finished
  BY <1>1, <1>2 DEF Finished, Wanted
<1>5. Paths(event.tracks, Finished)' = Paths(event.tracks, Finished)
  BY <1>2, <1>4 DEF Paths
<1> QED BY <1>1, <1>2, <1>3, <1>5 DEF Trajectories

\* What the trajectories rest on is preserved by every step.
LEMMA NextTrajectories ==
  ASSUME Types, Types', Trajectories, [Next]_vars
  PROVE  Trajectories'
<1>1. CASE Quiet
  BY <1>1, QuietTrajectories
<1>2. CASE \E n \in 1 .. MaxEvents : BeginOfRunAction(n)
  <2>1. /\ pc = "idle" /\ pc' = "next" /\ event' = event /\ ds' = ds
        /\ run'.initial = storeTrajectory
        /\ UNCHANGED <<storeTrajectory, keep, discard, asked>>
    BY <1>2, BeginOfRunEffect
  <2>2. Flags' /\ ~Delivered'
    BY <2>1 DEF Trajectories, Flags, Delivered
  <2>3. event.at = Nothing /\ Finished' = Finished
    BY <2>1 DEF Types, PcTypes, Finished, Wanted
  <2>4. \A t \in event'.stack : Waiting(event.tracks[t])'
    BY <2>1 DEF Trajectories, Waiting, Wanted
  <2> QED BY <2>1, <2>2, <2>3, <2>4 DEF Trajectories, Paths
<1>3. CASE NextEvent
  BY <1>3, NextEventTrajectories
<1>4. CASE Tracking
  BY <1>4, PreTrajectories, SteppingTrajectories, PostTrajectories DEF Tracking
<1>5. CASE EndOfEventAction
  BY <1>5, EndOfEventTrajectories
<1>6. CASE EndOfRunAction
  <2>1. /\ pc' = "idle" /\ event' = NewEvent /\ ds' = NoDS /\ pc = "next"
        /\ UNCHANGED <<storeTrajectory, asked>>
    BY <1>6, EndOfRunEffect DEF user
  <2>2. event'.tracks = <<>> /\ event'.kept = {}
    BY <2>1 DEF NewEvent
  <2>3. storeTrajectory' <=> asked'
    BY <2>1 DEF Trajectories, Flags
  <2> QED BY <2>1, <2>2, <2>3, IdleTrajectories
<1>7. CASE UNCHANGED vars
  BY <1>7, SameTrajectories DEF vars, user
<1> QED BY <1>1, <1>2, <1>3, <1>4, <1>5, <1>6, <1>7, NextCases

\* The trajectories of an event are those of the particles the user asks for,
\* whole, in every event of every run.
THEOREM TracksAsAskedAlways == Spec => []TracksAsAsked
<1>1. Init => Trajectories
  <2> SUFFICES ASSUME Init PROVE Trajectories
    OBVIOUS
  <2>1. event.tracks = <<>> /\ event.kept = {} /\ event.stack = {} /\ event.at = Nothing
    BY DEF Init, NewEvent
  <2>2. Finished = {}
    BY <2>1 DEF Finished
  <2> QED BY <2>1, <2>2 DEF Init, Trajectories, Flags, Delivered, Paths
<1>2. Types /\ Trajectories => TracksAsAsked
  <2> SUFFICES ASSUME Types, Trajectories, Delivered, ~ds.aborted
               PROVE  ds.tracks = Paths(event.tracks, {t \in DOMAIN event.tracks :
                                                         Wanted(event.tracks[t].kind)})
    BY DEF TracksAsAsked, Paths, Path
  <2>1. event.stack = {} /\ event.at = Nothing /\ ds.tracks = Paths(event.tracks, Finished)
    BY DEF Trajectories
  <2>2. \A t \in DOMAIN event.tracks : t # Nothing
    BY DEF Types, EventTypes, Nothing
  <2>3. Finished = {t \in DOMAIN event.tracks : Wanted(event.tracks[t].kind)}
    BY <2>1, <2>2 DEF Finished
  <2> QED BY <2>1, <2>3
<1> QED BY <1>1, <1>2, InitTypes, NextTypes, NextTrajectories, TypesHold, PTL DEF Spec

-----------------------------------------------------------------------------
(* Folds over finite sets.  FoldSeq and its kin all come down to MapThen-   *)
(* FoldSet: a function on the subsets of a set that picks an element of each *)
(* and goes on with the rest.                                              *)

\* A set of subsets of a finite set has a least one, which stands in for
\* induction on finite sets.
LEMMA LeastSubset ==
  ASSUME NEW S, IsFiniteSet(S), NEW T, T \subseteq SUBSET S, T # {}
  PROVE  \E s \in T : \A r \in T : r \subseteq s => r = s
<1>1. IsWellFoundedOn(StrictSubsetOrdering(S), SUBSET S)
  BY FS_StrictSubsetOrderingWellFounded, FS_FiniteSubsetsOfFinite
<1>2. PICK x \in T : \A y \in T : ~ (<<y, x>> \in StrictSubsetOrdering(S))
  BY <1>1, WFMin
<1> QED BY <1>2 DEF StrictSubsetOrdering

\* The function f folds the subsets of S: pick[s] is the element of s that comes
\* first, step[x][v] what x makes of v.
FoldOf(f, S, base, pick, step) ==
  f = [s \in SUBSET S |-> IF s = {} THEN base ELSE step[pick[s]][f[s \ {pick[s]}]]]
Picks(pick, S) == \A s \in SUBSET S : s # {} => pick[s] \in s

\* There is one such function at most,
LEMMA FoldUnique ==
  ASSUME NEW S, IsFiniteSet(S), NEW base, NEW pick, NEW step, Picks(pick, S),
         NEW f, NEW g, FoldOf(f, S, base, pick, step), FoldOf(g, S, base, pick, step)
  PROVE  f = g
<1> DEFINE T == {s \in SUBSET S : f[s] # g[s]}
<1>1. SUFFICES ASSUME T # {} PROVE FALSE
  <2>1. f = [s \in SUBSET S |-> f[s]] /\ g = [s \in SUBSET S |-> g[s]]
    BY DEF FoldOf
  <2> QED BY <2>1
<1>2. PICK s \in T : \A r \in T : r \subseteq s => r = s
  <2>1. T \subseteq SUBSET S
    OBVIOUS
  <2> HIDE DEF T
  <2> QED BY <1>1, <2>1, LeastSubset
<1>3. s # {} /\ s \in SUBSET S
  BY <1>2 DEF FoldOf
<1>4. pick[s] \in s /\ s \ {pick[s]} \in SUBSET S /\ s \ {pick[s]} \notin T
  BY <1>2, <1>3 DEF Picks
<1>5. f[s \ {pick[s]}] = g[s \ {pick[s]}]
  BY <1>4
<1>6. /\ f[s] = step[pick[s]][f[s \ {pick[s]}]]
      /\ g[s] = step[pick[s]][g[s \ {pick[s]}]]
  BY <1>3 DEF FoldOf
<1> QED BY <1>2, <1>5, <1>6

\* it folds the subsets of a subset as well,
LEMMA FoldRestricts ==
  ASSUME NEW S, NEW base, NEW pick, NEW step, Picks(pick, S),
         NEW f, FoldOf(f, S, base, pick, step), NEW T \in SUBSET S
  PROVE  Picks(pick, T) /\ FoldOf([s \in SUBSET T |-> f[s]], T, base, pick, step)
<1> DEFINE g == [s \in SUBSET T |-> f[s]]
<1>1. Picks(pick, T)
  BY DEF Picks
<1>2. ASSUME NEW s \in SUBSET T
      PROVE  g[s] = IF s = {} THEN base ELSE step[pick[s]][g[s \ {pick[s]}]]
  <2>1. f[s] = IF s = {} THEN base ELSE step[pick[s]][f[s \ {pick[s]}]]
    BY DEF FoldOf
  <2>2. s \ {pick[s]} \in SUBSET T
    OBVIOUS
  <2> QED BY <2>1, <2>2
<1>3. g = [s \in SUBSET T |-> IF s = {} THEN base ELSE step[pick[s]][g[s \ {pick[s]}]]]
  BY <1>2
<1> QED BY <1>1, <1>3 DEF FoldOf

\* and there is one.
LEMMA FoldExists ==
  ASSUME NEW S, IsFiniteSet(S), NEW base, NEW pick, NEW step, Picks(pick, S)
  PROVE  \E f : FoldOf(f, S, base, pick, step)
<1> DEFINE Has(t) == \E f : FoldOf(f, t, base, pick, step)
           The(t) == CHOOSE f : FoldOf(f, t, base, pick, step)
           T == {t \in SUBSET S : ~Has(t)}
<1>1. SUFFICES ASSUME T # {} PROVE FALSE
  OBVIOUS
<1>2. PICK t \in T : \A r \in T : r \subseteq t => r = t
  <2>1. T \subseteq SUBSET S
    OBVIOUS
  <2> HIDE DEF T
  <2> QED BY <1>1, <2>1, LeastSubset
<1>3. \A r \in SUBSET t : r # t => Has(r)
  BY <1>2
<1> DEFINE value(s) ==
             IF s = {} THEN base
             ELSE step[pick[s]][The(s \ {pick[s]})[s \ {pick[s]}]]
           g == [s \in SUBSET t |-> value(s)]
<1>4. ASSUME NEW s \in SUBSET t, s # {}
      PROVE  pick[s] \in s /\ s \ {pick[s]} \in SUBSET t /\ s \ {pick[s]} # t
             /\ FoldOf(The(s \ {pick[s]}), s \ {pick[s]}, base, pick, step)
             /\ IsFiniteSet(s \ {pick[s]}) /\ Picks(pick, s \ {pick[s]})
  <2>1. pick[s] \in s /\ s \in SUBSET S
    BY <1>2, <1>4 DEF Picks
  <2>2. s \ {pick[s]} \in SUBSET t /\ s \ {pick[s]} # t
    BY <2>1
  <2>3. Has(s \ {pick[s]})
    BY <1>3, <2>2
  <2>4. IsFiniteSet(s \ {pick[s]})
    BY <2>1, FS_Subset
  <2>5. Picks(pick, s \ {pick[s]})
    BY <2>1 DEF Picks
  <2> QED BY <2>1, <2>2, <2>3, <2>4, <2>5
<1>5. ASSUME NEW s \in SUBSET t, s # {}
      PROVE  The(s \ {pick[s]})[s \ {pick[s]}] = g[s \ {pick[s]}]
  <2> DEFINE r == s \ {pick[s]}
             h == The(r)
  <2>1. /\ r \in SUBSET t /\ FoldOf(h, r, base, pick, step)
        /\ IsFiniteSet(r) /\ Picks(pick, r)
    BY <1>4, <1>5
  <2>2. h[r] = IF r = {} THEN base ELSE step[pick[r]][h[r \ {pick[r]}]]
    <3> HIDE DEF h, r
    <3> QED BY <2>1 DEF FoldOf
  <2>3. CASE r = {}
    BY <2>1, <2>2, <2>3
  <2>4. CASE r # {}
    <3> DEFINE q == r \ {pick[r]}
               k == [u \in SUBSET q |-> h[u]]
    <3>1. /\ pick[r] \in r /\ q \in SUBSET r /\ IsFiniteSet(q) /\ Picks(pick, q)
          /\ FoldOf(The(q), q, base, pick, step)
      BY <1>4, <2>1, <2>4
    <3>2. FoldOf(k, q, base, pick, step)
      <4> HIDE DEF h, r
      <4> QED BY <2>1, <3>1, FoldRestricts
    <3>3. k = The(q)
      <4> HIDE DEF k, q, The
      <4> QED BY <3>1, <3>2, FoldUnique
    <3>4. h[q] = The(q)[q]
      <4>1. k[q] = h[q]
        OBVIOUS
      <4> HIDE DEF k
      <4> QED BY <3>3, <4>1
    <3>5. g[r] = step[pick[r]][The(q)[q]]
      BY <2>1, <2>4
    <3> QED BY <2>2, <2>4, <3>4, <3>5
  <2> QED BY <2>3, <2>4
<1>6. g = [s \in SUBSET t |-> IF s = {} THEN base ELSE step[pick[s]][g[s \ {pick[s]}]]]
  <2>1. \A s \in SUBSET t : s # {} =>
          value(s) = step[pick[s]][g[s \ {pick[s]}]]
    <3> SUFFICES ASSUME NEW s \in SUBSET t, s # {}
                 PROVE  value(s) = step[pick[s]][g[s \ {pick[s]}]]
      OBVIOUS
    <3>1. The(s \ {pick[s]})[s \ {pick[s]}] = g[s \ {pick[s]}]
      BY <1>5
    <3>2. value(s) = step[pick[s]][The(s \ {pick[s]})[s \ {pick[s]}]]
      OBVIOUS
    <3> HIDE DEF g, The, value
    <3> QED BY <3>1, <3>2
  <2>2. value({}) = base
    OBVIOUS
  <2>3. g = [s \in SUBSET t |-> value(s)]
    OBVIOUS
  <2>4. \A s \in SUBSET t :
          g[s] = IF s = {} THEN base ELSE step[pick[s]][g[s \ {pick[s]}]]
    <3> HIDE DEF g, value
    <3> QED BY <2>1, <2>2, <2>3
  <2>5. g = [s \in SUBSET t |-> g[s]]
    OBVIOUS
  <2> HIDE DEF g
  <2> QED BY <2>4, <2>5
<1> QED
  <2>1. Has(t)
    <3> HIDE DEF g
    <3> QED BY <1>6 DEF FoldOf
  <2> QED BY <1>2, <2>1

\* What holds of the empty set, and of a set if it holds without its first
\* element, holds of all subsets.
LEMMA SubsetInduction ==
  ASSUME NEW S, IsFiniteSet(S), NEW pick, Picks(pick, S), NEW f, NEW V,
         f[{}] \in V[{}],
         \A s \in SUBSET S : s # {} /\ f[s \ {pick[s]}] \in V[s \ {pick[s]}] => f[s] \in V[s]
  PROVE  \A s \in SUBSET S : f[s] \in V[s]
<1> DEFINE T == {s \in SUBSET S : f[s] \notin V[s]}
<1>1. SUFFICES ASSUME T # {} PROVE FALSE
  OBVIOUS
<1>2. PICK s \in T : \A r \in T : r \subseteq s => r = s
  <2>1. T \subseteq SUBSET S
    OBVIOUS
  <2> HIDE DEF T
  <2> QED BY <1>1, <2>1, LeastSubset
<1>3. s # {} /\ s \in SUBSET S /\ f[s] \notin V[s]
  BY <1>2
<1>4. pick[s] \in s
  BY <1>3 DEF Picks
<1>5. s \ {pick[s]} \in SUBSET S /\ s \ {pick[s]} \notin T
  BY <1>2, <1>3, <1>4
<1>6. f[s \ {pick[s]}] \in V[s \ {pick[s]}]
  BY <1>5
<1> QED BY <1>3, <1>6

-----------------------------------------------------------------------------
(* Hits.                                                                   *)

PhotonName == Nat \X Nat \X Nat
HitRecord == [id : Pmts, photons : SUBSET PhotonName, dark : Nat]
PhotonsOf(hs, s) == UNION {hs[i].photons : i \in s}

\* The list hs has the photons M, each of them and each PMT once.
HitList(hs, M) ==
  /\ hs \in Seq(HitRecord)
  /\ \A i, j \in DOMAIN hs : i # j =>
       hs[i].id # hs[j].id /\ hs[i].photons \cap hs[j].photons = {}
  /\ \A i \in DOMAIN hs : IsFiniteSet(hs[i].photons)
  /\ PhotonsOf(hs, DOMAIN hs) = M

\* The function with which Count adds up.
TallyOf(hs, f) ==
  f = [s \in SUBSET DOMAIN hs |->
         IF s = {} THEN 0
         ELSE Cardinality(hs[CHOOSE i \in s : TRUE].photons)
              + f[s \ {CHOOSE i \in s : TRUE}]]

\* Adding up the sizes of disjoint sets gives the size of their union.
LEMMA CountFacts ==
  ASSUME NEW hs, NEW M, HitList(hs, M)
  PROVE  IsFiniteSet(M) /\ Count(hs) = Cardinality(M)
<1> DEFINE S == DOMAIN hs
           P(s) == PhotonsOf(hs, s)
           pick == [s \in SUBSET S |-> CHOOSE i \in s : TRUE]
           step == [i \in S |-> [n \in Nat |-> Cardinality(hs[i].photons) + n]]
           V == [s \in SUBSET S |-> {n \in Nat : IsFiniteSet(P(s)) /\ n = Cardinality(P(s))}]
<1>1. IsFiniteSet(S)
  <2>1. S = 1 .. Len(hs) /\ Len(hs) \in Nat
    BY DEF HitList
  <2> QED BY <2>1, FS_Interval
<1>2. Picks(pick, S)
  BY DEF Picks
<1>3. ASSUME NEW s \in SUBSET S, s # {}, NEW n \in V[s \ {pick[s]}]
      PROVE  Cardinality(hs[pick[s]].photons) + n \in V[s] /\ n \in Nat
  <2> DEFINE i == pick[s]
             r == s \ {i}
  <2>1. i \in s /\ i \in S /\ r \in SUBSET S
    BY <1>2, <1>3 DEF Picks
  <2>2. n \in Nat /\ IsFiniteSet(P(r)) /\ n = Cardinality(P(r))
    BY <1>3, <2>1
  <2>3. IsFiniteSet(hs[i].photons)
    BY <2>1 DEF HitList
  <2>4. P(s) = hs[i].photons \cup P(r)
    <3> HIDE DEF i
    <3> QED BY <2>1 DEF PhotonsOf
  <2>5. hs[i].photons \cap P(r) = {}
    <3> HIDE DEF i
    <3> QED BY <2>1 DEF PhotonsOf, HitList
  <2>6. IsFiniteSet(P(s)) /\ Cardinality(P(s)) = Cardinality(hs[i].photons) + n
    <3>1. IsFiniteSet(hs[i].photons \cap P(r)) /\ Cardinality(hs[i].photons \cap P(r)) = 0
      BY <2>5, FS_EmptySet
    <3>2. Cardinality(hs[i].photons) \in Nat
      BY <2>3, FS_CardinalityType
    <3>3. Cardinality(P(r)) \in Nat
      BY <2>2
    <3>4. /\ IsFiniteSet(hs[i].photons \cup P(r))
          /\ Cardinality(hs[i].photons \cup P(r)) =
               Cardinality(hs[i].photons) + Cardinality(P(r))
                 - Cardinality(hs[i].photons \cap P(r))
      <4> HIDE DEF i, r, P
      <4> QED BY <2>2, <2>3, FS_Union
    <3> HIDE DEF i, r, P
    <3> QED BY <2>2, <2>4, <3>1, <3>2, <3>3, <3>4
  <2>7. Cardinality(P(s)) \in Nat
    BY <2>6, FS_CardinalityType
  <2> QED BY <2>2, <2>6, <2>7
<1>4. V[{}] = {0}
  <2>1. P({}) = {}
    BY DEF PhotonsOf
  <2>2. IsFiniteSet(P({})) /\ Cardinality(P({})) = 0
    BY <2>1, FS_EmptySet
  <2> QED BY <2>2
<1>5. PICK f : FoldOf(f, S, 0, pick, step)
  <2> HIDE DEF S, pick, step
  <2> QED BY <1>1, <1>2, FoldExists
<1>6. \A s \in SUBSET S : f[s] \in V[s]
  <2>1. f[{}] \in V[{}]
    BY <1>4, <1>5 DEF FoldOf
  <2>2. ASSUME NEW s \in SUBSET S, s # {}, f[s \ {pick[s]}] \in V[s \ {pick[s]}]
        PROVE  f[s] \in V[s]
    <3>1. f[s] = step[pick[s]][f[s \ {pick[s]}]]
      BY <1>5, <2>2 DEF FoldOf
    <3>2. Cardinality(hs[pick[s]].photons) + f[s \ {pick[s]}] \in V[s] /\ f[s \ {pick[s]}] \in Nat
      <4> HIDE DEF pick, V, S
      <4> QED BY <1>3, <2>2
    <3>3. pick[s] \in S
      BY <1>2, <2>2 DEF Picks
    <3>4. step[pick[s]][f[s \ {pick[s]}]] = Cardinality(hs[pick[s]].photons) + f[s \ {pick[s]}]
      <4> HIDE DEF pick, V, S
      <4> QED BY <3>2, <3>3
    <3> QED BY <3>1, <3>2, <3>4
  <2> HIDE DEF S, pick, V
  <2> QED BY <1>1, <1>2, <2>1, <2>2, SubsetInduction
<1>7. TallyOf(hs, f)
  <2>1. \A s \in SUBSET S : s # {} => f[s] = Cardinality(hs[pick[s]].photons) + f[s \ {pick[s]}]
    <3> SUFFICES ASSUME NEW s \in SUBSET S, s # {}
                 PROVE  f[s] = Cardinality(hs[pick[s]].photons) + f[s \ {pick[s]}]
      OBVIOUS
    <3>1. f[s] = step[pick[s]][f[s \ {pick[s]}]]
      BY <1>5 DEF FoldOf
    <3>2. pick[s] \in S /\ s \ {pick[s]} \in SUBSET S
      BY <1>2 DEF Picks
    <3>3. f[s \ {pick[s]}] \in Nat
      BY <1>6, <3>2
    <3> HIDE DEF pick, S
    <3> QED BY <3>1, <3>2, <3>3
  <2>2. f[{}] = 0
    BY <1>5 DEF FoldOf
  <2>3. f = [s \in SUBSET S |-> f[s]]
    BY <1>5 DEF FoldOf
  <2>4. \A s \in SUBSET S : f[s] =
          IF s = {} THEN 0
          ELSE Cardinality(hs[CHOOSE i \in s : TRUE].photons) + f[s \ {CHOOSE i \in s : TRUE}]
    BY <2>1, <2>2
  <2> QED BY <2>3, <2>4 DEF TallyOf
<1> DEFINE c == CHOOSE g : TallyOf(hs, g)
<1>8. TallyOf(hs, c)
  BY <1>7
<1>9. \A s \in SUBSET S : c[s] \in V[s]
  <2> HIDE DEF c
  <2>1. c[{}] \in V[{}]
    BY <1>4, <1>8 DEF TallyOf
  <2>2. ASSUME NEW s \in SUBSET S, s # {}, c[s \ {pick[s]}] \in V[s \ {pick[s]}]
        PROVE  c[s] \in V[s]
    <3>1. c[s] = Cardinality(hs[pick[s]].photons) + c[s \ {pick[s]}]
      BY <1>8, <2>2 DEF TallyOf
    <3> HIDE DEF pick, V, S
    <3> QED BY <1>3, <2>2, <3>1
  <2> HIDE DEF S, pick, V
  <2> QED BY <1>1, <1>2, <2>1, <2>2, SubsetInduction
<1>10. Count(hs) = c[S]
  BY DEF Count, FoldSeq, FoldFunction, FoldFunctionOnSet, MapThenFoldSet, TallyOf
<1>11. c[S] \in V[S]
  BY <1>9
<1> HIDE DEF c
<1> QED BY <1>10, <1>11 DEF HitList

\* If each step keeps what V allows, there is a function that folds and keeps it.
LEMMA FoldRule ==
  ASSUME NEW S, IsFiniteSet(S), NEW base, NEW pick, NEW step, Picks(pick, S), NEW V,
         base \in V[{}],
         \A s \in SUBSET S : s # {} =>
           \A v \in V[s \ {pick[s]}] : step[pick[s]][v] \in V[s]
  PROVE  \E f : FoldOf(f, S, base, pick, step) /\ \A s \in SUBSET S : f[s] \in V[s]
<1>1. PICK f : FoldOf(f, S, base, pick, step)
  BY FoldExists
<1>2. f[{}] \in V[{}]
  BY <1>1 DEF FoldOf
<1>3. \A s \in SUBSET S : s # {} /\ f[s \ {pick[s]}] \in V[s \ {pick[s]}] => f[s] \in V[s]
  BY <1>1 DEF FoldOf
<1>4. \A s \in SUBSET S : f[s] \in V[s]
  BY <1>2, <1>3, SubsetInduction
<1> QED BY <1>1, <1>4

\* A photon that is detected is in the list once.
LEMMA DetectFacts ==
  ASSUME NEW hs, NEW M, HitList(hs, M), NEW pmt \in Pmts,
         NEW photon \in PhotonName, photon \notin M
  PROVE  HitList(DetectPhoton(hs, pmt, photon), M \cup {photon})
<1> DEFINE new == DetectPhoton(hs, pmt, photon)
           D == DOMAIN hs
<1>1. /\ hs \in Seq(HitRecord) /\ D = 1 .. Len(hs) /\ Len(hs) \in Nat
      /\ \A i \in D : hs[i] \in HitRecord /\ IsFiniteSet(hs[i].photons)
      /\ \A i \in D : photon \notin hs[i].photons
  BY DEF HitList, PhotonsOf
<1>2. IsFiniteSet({photon})
  BY FS_Singleton
<1>3. CASE \E k \in D : hs[k].id = pmt
  <2>1. PICK k \in D : hs[k].id = pmt
    BY <1>3
  <2>2. \A i \in D : hs[i].id = pmt => i = k
    BY <2>1 DEF HitList
  <2> DEFINE hit(i) == IF i = k THEN [hs[k] EXCEPT !.photons = @ \cup {photon}] ELSE hs[i]
  <2>3. new = [i \in D |-> hit(i)]
    BY <1>3, <2>1, <2>2 DEF DetectPhoton
  <2>4. /\ hit(k) \in HitRecord /\ hit(k).id = hs[k].id
        /\ hit(k).photons = hs[k].photons \cup {photon}
    BY <1>1, <2>1 DEF HitRecord
  <2>5. IsFiniteSet(hit(k).photons)
    <3>1. IsFiniteSet(hs[k].photons)
      BY <1>1, <2>1
    <3>2. IsFiniteSet(hs[k].photons \cup {photon})
      BY <1>2, <3>1, FS_Union
    <3> QED BY <2>4, <3>2
  <2>6. \A i \in D : i # k => hit(i) = hs[i]
    OBVIOUS
  <2> HIDE DEF hit
  <2>7. new \in Seq(HitRecord) /\ DOMAIN new = D /\ \A i \in D : new[i] = hit(i)
    BY <1>1, <2>3, <2>4, <2>6
  <2>8. \A i, j \in D : i # j =>
          new[i].id # new[j].id /\ new[i].photons \cap new[j].photons = {}
    BY <1>1, <2>4, <2>6, <2>7 DEF HitList
  <2>9. \A i \in D : IsFiniteSet(new[i].photons)
    BY <1>1, <2>5, <2>6, <2>7
  <2>10. PhotonsOf(new, D) = PhotonsOf(hs, D) \cup {photon}
    BY <2>1, <2>4, <2>6, <2>7 DEF PhotonsOf
  <2> QED BY <2>7, <2>8, <2>9, <2>10 DEF HitList
<1>4. CASE ~ \E k \in D : hs[k].id = pmt
  <2> DEFINE hit == [id |-> pmt, photons |-> {photon}, dark |-> 0]
             n == Len(hs) + 1
  <2>1. hit \in HitRecord /\ hit.id = pmt /\ hit.photons = {photon}
    BY DEF HitRecord
  <2>2. new = Append(hs, hit)
    BY <1>4 DEF DetectPhoton
  <2> HIDE DEF hit
  <2>3. /\ new \in Seq(HitRecord) /\ DOMAIN new = D \cup {n} /\ n \notin D
        /\ new[n] = hit /\ \A i \in D : new[i] = hs[i]
    BY <1>1, <2>1, <2>2
  <2>4. \A i, j \in DOMAIN new : i # j =>
          new[i].id # new[j].id /\ new[i].photons \cap new[j].photons = {}
    BY <1>1, <1>4, <2>1, <2>3 DEF HitList
  <2>5. \A i \in DOMAIN new : IsFiniteSet(new[i].photons)
    BY <1>1, <1>2, <2>1, <2>3
  <2>6. PhotonsOf(new, DOMAIN new) = PhotonsOf(hs, D) \cup {photon}
    BY <2>1, <2>3 DEF PhotonsOf
  <2> QED BY <2>3, <2>4, <2>5, <2>6 DEF HitList
<1> QED BY <1>3, <1>4

\* Noise adds no photon, and no PMT twice.
LEMMA AddNoiseFacts ==
  ASSUME NEW hs, NEW M, HitList(hs, M), NEW pmt \in Pmts
  PROVE  HitList(AddNoise(hs, pmt), M)
<1> DEFINE new == AddNoise(hs, pmt)
           D == DOMAIN hs
<1>1. /\ hs \in Seq(HitRecord) /\ D = 1 .. Len(hs) /\ Len(hs) \in Nat
      /\ \A i \in D : hs[i] \in HitRecord /\ IsFiniteSet(hs[i].photons)
  BY DEF HitList
<1>2. CASE \E k \in D : hs[k].id = pmt
  <2> DEFINE hit(i) == IF hs[i].id = pmt THEN [hs[i] EXCEPT !.dark = @ + 1] ELSE hs[i]
  <2>1. new = [i \in D |-> hit(i)]
    BY <1>2 DEF AddNoise
  <2>2. \A i \in D : /\ hit(i) \in HitRecord /\ hit(i).id = hs[i].id
                     /\ hit(i).photons = hs[i].photons
    <3> SUFFICES ASSUME NEW i \in D
                 PROVE  /\ hit(i) \in HitRecord /\ hit(i).id = hs[i].id
                        /\ hit(i).photons = hs[i].photons
      OBVIOUS
    <3>1. hs[i] \in HitRecord /\ hs[i].dark + 1 \in Nat
      BY <1>1 DEF HitRecord
    <3>2. \A r \in HitRecord : r.dark + 1 \in Nat =>
            LET q == [r EXCEPT !.dark = @ + 1]
            IN  q \in HitRecord /\ q.id = r.id /\ q.photons = r.photons
      BY DEF HitRecord
    <3>3. CASE hs[i].id = pmt
      BY <3>1, <3>2, <3>3
    <3>4. CASE hs[i].id # pmt
      BY <3>1, <3>4
    <3> QED BY <3>3, <3>4
  <2> HIDE DEF hit
  <2>3. new \in Seq(HitRecord) /\ DOMAIN new = D /\ \A i \in D : new[i] = hit(i)
    BY <1>1, <2>1, <2>2
  <2>4. PhotonsOf(new, D) = PhotonsOf(hs, D)
    BY <2>2, <2>3 DEF PhotonsOf
  <2> QED BY <1>1, <2>2, <2>3, <2>4 DEF HitList
<1>3. CASE ~ \E k \in D : hs[k].id = pmt
  <2> DEFINE hit == [id |-> pmt, photons |-> {}, dark |-> 1]
             n == Len(hs) + 1
  <2>1. hit \in HitRecord /\ hit.id = pmt /\ hit.photons = {} /\ IsFiniteSet({})
    BY FS_EmptySet DEF HitRecord
  <2>2. new = Append(hs, hit)
    BY <1>3 DEF AddNoise
  <2> HIDE DEF hit
  <2>3. /\ new \in Seq(HitRecord) /\ DOMAIN new = D \cup {n} /\ n \notin D
        /\ new[n] = hit /\ \A i \in D : new[i] = hs[i]
    BY <1>1, <2>1, <2>2
  <2>4. \A i, j \in DOMAIN new : i # j =>
          new[i].id # new[j].id /\ new[i].photons \cap new[j].photons = {}
    BY <1>1, <1>3, <2>1, <2>3 DEF HitList
  <2>5. PhotonsOf(new, DOMAIN new) = PhotonsOf(hs, D)
    BY <2>1, <2>3 DEF PhotonsOf
  <2>6. \A i \in DOMAIN new : IsFiniteSet(new[i].photons)
    BY <1>1, <2>1, <2>3
  <2>7. PhotonsOf(new, DOMAIN new) = M
    BY <2>5 DEF HitList
  <2> QED BY <2>3, <2>4, <2>6, <2>7 DEF HitList
<1> QED BY <1>2, <1>3

\* The function with which MakePhotonHitData goes through the answers.
RepliesOf(hs, reply, f) ==
  f = [s \in SUBSET DOMAIN reply |->
         IF s = {} THEN hs
         ELSE DetectPhoton(f[s \ {CHOOSE p \in s : TRUE}],
                           reply[CHOOSE p \in s : TRUE], CHOOSE p \in s : TRUE)]

\* Chroma's answers add the photons they are about, in whatever order.
LEMMA ReplyFacts ==
  ASSUME NEW hs, NEW M, HitList(hs, M), NEW S \in SUBSET PhotonName, IsFiniteSet(S),
         S \cap M = {}, NEW reply \in [S -> Pmts]
  PROVE  HitList(MakePhotonHitData(hs, reply), M \cup S)
<1> DEFINE pick == [s \in SUBSET S |-> CHOOSE p \in s : TRUE]
           step == [p \in S |-> [h \in Seq(HitRecord) |-> DetectPhoton(h, reply[p], p)]]
           V == [s \in SUBSET S |-> {h \in Seq(HitRecord) : HitList(h, M \cup s)}]
<1>1. Picks(pick, S)
  BY DEF Picks
<1>2. ASSUME NEW s \in SUBSET S, s # {}, NEW h \in V[s \ {pick[s]}]
      PROVE  /\ DetectPhoton(h, reply[pick[s]], pick[s]) \in V[s]
             /\ pick[s] \in S /\ h \in Seq(HitRecord)
  <2> DEFINE p == pick[s]
             r == s \ {p}
  <2>1. p \in s /\ p \in S /\ r \in SUBSET S /\ s = r \cup {p} /\ p \notin r
    BY <1>1, <1>2 DEF Picks
  <2>2. HitList(h, M \cup r) /\ h \in Seq(HitRecord)
    BY <1>2, <2>1
  <2>3. p \in PhotonName /\ p \notin M \cup r /\ reply[p] \in Pmts
    BY <2>1
  <2>4. HitList(DetectPhoton(h, reply[p], p), (M \cup r) \cup {p})
    <3> HIDE DEF p, r
    <3> QED BY <2>2, <2>3, DetectFacts
  <2>5. (M \cup r) \cup {p} = M \cup s
    BY <2>1
  <2>6. DetectPhoton(h, reply[p], p) \in Seq(HitRecord)
    BY <2>4 DEF HitList
  <2> QED BY <2>1, <2>2, <2>4, <2>5, <2>6
<1>3. hs \in V[{}]
  <2>1. M \cup {} = M /\ hs \in Seq(HitRecord)
    BY DEF HitList
  <2> QED BY <2>1
<1>4. \A s \in SUBSET S : s # {} =>
        \A h \in V[s \ {pick[s]}] :
          /\ step[pick[s]][h] = DetectPhoton(h, reply[pick[s]], pick[s])
          /\ step[pick[s]][h] \in V[s]
  <2> SUFFICES ASSUME NEW s \in SUBSET S, s # {}, NEW h \in V[s \ {pick[s]}]
               PROVE  /\ step[pick[s]][h] = DetectPhoton(h, reply[pick[s]], pick[s])
                      /\ step[pick[s]][h] \in V[s]
    OBVIOUS
  <2> HIDE DEF pick, V
  <2> QED BY <1>2
<1>5. PICK f : FoldOf(f, S, hs, pick, step) /\ \A s \in SUBSET S : f[s] \in V[s]
  <2> HIDE DEF pick, step, V
  <2> QED BY <1>1, <1>3, <1>4, FoldRule
<1>6. RepliesOf(hs, reply, f)
  <2>1. \A s \in SUBSET S : s # {} => f[s] = DetectPhoton(f[s \ {pick[s]}], reply[pick[s]], pick[s])
    <3> SUFFICES ASSUME NEW s \in SUBSET S, s # {}
                 PROVE  f[s] = DetectPhoton(f[s \ {pick[s]}], reply[pick[s]], pick[s])
      OBVIOUS
    <3>1. f[s] = step[pick[s]][f[s \ {pick[s]}]]
      BY <1>5 DEF FoldOf
    <3>2. f[s \ {pick[s]}] \in V[s \ {pick[s]}]
      BY <1>5
    <3> HIDE DEF pick, step, V
    <3> QED BY <1>4, <3>1, <3>2
  <2>2. f[{}] = hs
    BY <1>5 DEF FoldOf
  <2>3. f = [s \in SUBSET S |-> f[s]]
    BY <1>5 DEF FoldOf
  <2>4. DOMAIN reply = S
    OBVIOUS
  <2>5. \A s \in SUBSET S : f[s] =
          IF s = {} THEN hs
          ELSE DetectPhoton(f[s \ {CHOOSE p \in s : TRUE}],
                            reply[CHOOSE p \in s : TRUE], CHOOSE p \in s : TRUE)
    BY <2>1, <2>2
  <2> QED BY <2>3, <2>4, <2>5 DEF RepliesOf
<1> DEFINE c == CHOOSE g : RepliesOf(hs, reply, g)
<1>7. RepliesOf(hs, reply, c)
  BY <1>6
<1>8. \A s \in SUBSET S : c[s] \in V[s]
  <2> HIDE DEF c
  <2>1. c[{}] \in V[{}]
    BY <1>3, <1>7 DEF RepliesOf
  <2>2. ASSUME NEW s \in SUBSET S, s # {}, c[s \ {pick[s]}] \in V[s \ {pick[s]}]
        PROVE  c[s] \in V[s]
    <3>1. c[s] = DetectPhoton(c[s \ {pick[s]}], reply[pick[s]], pick[s])
      BY <1>7, <2>2 DEF RepliesOf
    <3> HIDE DEF pick, V
    <3> QED BY <1>2, <2>2, <3>1
  <2> HIDE DEF pick, V
  <2> QED BY <1>1, <2>1, <2>2, SubsetInduction
<1>9. MakePhotonHitData(hs, reply) = c[S]
  BY DEF MakePhotonHitData, FoldSet, MapThenFoldSet, RepliesOf
<1>10. c[S] \in V[S]
  BY <1>8
<1> HIDE DEF c
<1> QED BY <1>9, <1>10

\* A finite set of numbers has a greatest one.
LEMMA MaxFacts ==
  ASSUME NEW S, IsFiniteSet(S), S # {}, \A x \in S : x \in Int
  PROVE  Max(S) \in S
<1> DEFINE Above(k) == {x \in S : x >= k}
           T == {Above(k) : k \in S}
<1>2. PICK U \in T : \A r \in T : r \subseteq U => r = U
  <2>1. T \subseteq SUBSET S
    OBVIOUS
  <2>2. T # {}
    <3>1. PICK k \in S : TRUE
      OBVIOUS
    <3>2. Above(k) \in T
      BY <3>1
    <3> QED BY <3>2
  <2> HIDE DEF T, Above
  <2>3. \E s \in T : \A r \in T : r \subseteq s => r = s
    BY <2>1, <2>2, LeastSubset
  <2> QED BY <2>3
<1>3. PICK k \in S : U = Above(k)
  BY <1>2
<1>4. ASSUME NEW y \in S PROVE k >= y
  <2> SUFFICES ASSUME ~(k >= y) PROVE FALSE
    OBVIOUS
  <2>2. Above(y) \in T
    OBVIOUS
  <2>4. k \in Int /\ y \in Int
    OBVIOUS
  <2>5. ASSUME NEW x \in Above(y) PROVE x \in Above(k)
    <3>1. x \in S /\ x \in Int /\ x >= y
      OBVIOUS
    <3> QED BY <2>4, <3>1
  <2>3. k \in U /\ k \notin Above(y)
    BY <1>3, <2>4
  <2> QED BY <1>2, <1>3, <2>2, <2>3, <2>5
<1>5. \E x \in S : \A y \in S : x >= y
  BY <1>4
<1> QED BY <1>5 DEF Max

\* The function with which MakeEvent adds noise.
NoiseOf(hs, noise, f) ==
  f = [s \in SUBSET DOMAIN noise |->
         IF s = {} THEN hs ELSE AddNoise(f[s \ {Max(s)}], noise[Max(s)])]

\* Noise, however much, adds no photon, and no PMT twice.
LEMMA NoiseFacts ==
  ASSUME NEW hs, NEW M, HitList(hs, M), NEW n \in Nat, NEW noise \in [1 .. n -> Pmts]
  PROVE  HitList(FoldLeft(AddNoise, hs, noise), M)
<1> DEFINE S == 1 .. n
           pick == [s \in SUBSET S |-> Max(s)]
           step == [i \in S |-> [h \in Seq(HitRecord) |-> AddNoise(h, noise[i])]]
           V == [s \in SUBSET S |-> {h \in Seq(HitRecord) : HitList(h, M)}]
<1>1. Picks(pick, S) /\ IsFiniteSet(S)
  <2>1. IsFiniteSet(S)
    BY FS_Interval
  <2>2. ASSUME NEW s \in SUBSET S, s # {} PROVE pick[s] \in s
    <3>1. \A x \in s : x \in Int
      OBVIOUS
    <3>2. IsFiniteSet(s)
      <4> HIDE DEF S
      <4> QED BY <2>1, FS_Subset
    <3>3. Max(s) \in s
      BY <2>2, <3>1, <3>2, MaxFacts
    <3> QED BY <3>3
  <2> QED BY <2>1, <2>2 DEF Picks
<1>2. ASSUME NEW s \in SUBSET S, s # {}, NEW h \in V[s \ {pick[s]}]
      PROVE  /\ AddNoise(h, noise[pick[s]]) \in V[s]
             /\ pick[s] \in S /\ h \in Seq(HitRecord)
  <2>1. pick[s] \in S /\ s \ {pick[s]} \in SUBSET S
    BY <1>1, <1>2 DEF Picks
  <2>2. HitList(h, M) /\ h \in Seq(HitRecord)
    BY <1>2, <2>1
  <2>3. noise[pick[s]] \in Pmts
    BY <2>1
  <2>4. HitList(AddNoise(h, noise[pick[s]]), M)
    <3> HIDE DEF pick
    <3> QED BY <2>2, <2>3, AddNoiseFacts
  <2>5. AddNoise(h, noise[pick[s]]) \in Seq(HitRecord)
    BY <2>4 DEF HitList
  <2> QED BY <2>1, <2>2, <2>4, <2>5
<1>3. hs \in V[{}]
  BY DEF HitList
<1>4. \A s \in SUBSET S : s # {} =>
        \A h \in V[s \ {pick[s]}] :
          /\ step[pick[s]][h] = AddNoise(h, noise[pick[s]])
          /\ step[pick[s]][h] \in V[s]
  <2> SUFFICES ASSUME NEW s \in SUBSET S, s # {}, NEW h \in V[s \ {pick[s]}]
               PROVE  /\ step[pick[s]][h] = AddNoise(h, noise[pick[s]])
                      /\ step[pick[s]][h] \in V[s]
    OBVIOUS
  <2> HIDE DEF pick, V, S
  <2> QED BY <1>2
<1>5. PICK f : FoldOf(f, S, hs, pick, step) /\ \A s \in SUBSET S : f[s] \in V[s]
  <2> HIDE DEF pick, step, V, S
  <2> QED BY <1>1, <1>3, <1>4, FoldRule
<1>6. NoiseOf(hs, noise, f)
  <2>1. \A s \in SUBSET S : s # {} => f[s] = AddNoise(f[s \ {pick[s]}], noise[pick[s]])
    <3> SUFFICES ASSUME NEW s \in SUBSET S, s # {}
                 PROVE  f[s] = AddNoise(f[s \ {pick[s]}], noise[pick[s]])
      OBVIOUS
    <3>1. f[s] = step[pick[s]][f[s \ {pick[s]}]]
      BY <1>5 DEF FoldOf
    <3>2. f[s \ {pick[s]}] \in V[s \ {pick[s]}]
      BY <1>5
    <3> HIDE DEF pick, step, V, S
    <3> QED BY <1>4, <3>1, <3>2
  <2>2. f[{}] = hs
    BY <1>5 DEF FoldOf
  <2>3. f = [s \in SUBSET S |-> f[s]]
    BY <1>5 DEF FoldOf
  <2>4. DOMAIN noise = S
    OBVIOUS
  <2>5. \A s \in SUBSET S : f[s] =
          IF s = {} THEN hs ELSE AddNoise(f[s \ {Max(s)}], noise[Max(s)])
    BY <2>1, <2>2
  <2> QED BY <2>3, <2>4, <2>5 DEF NoiseOf
<1> DEFINE c == CHOOSE g : NoiseOf(hs, noise, g)
<1>7. NoiseOf(hs, noise, c)
  BY <1>6
<1>8. \A s \in SUBSET S : c[s] \in V[s]
  <2> HIDE DEF c
  <2>1. c[{}] \in V[{}]
    BY <1>3, <1>7 DEF NoiseOf
  <2>2. ASSUME NEW s \in SUBSET S, s # {}, c[s \ {pick[s]}] \in V[s \ {pick[s]}]
        PROVE  c[s] \in V[s]
    <3>1. c[s] = AddNoise(c[s \ {pick[s]}], noise[pick[s]])
      BY <1>7, <2>2 DEF NoiseOf
    <3> HIDE DEF pick, V, S
    <3> QED BY <1>2, <2>2, <3>1
  <2> HIDE DEF pick, V, S
  <2> QED BY <1>1, <2>1, <2>2, SubsetInduction
<1>9. FoldLeft(AddNoise, hs, noise) = c[S]
  BY DEF FoldLeft, MapThenFoldSet, NoiseOf
<1>10. c[S] \in V[S]
  BY <1>8
<1> HIDE DEF c
<1> QED BY <1>9, <1>10

-----------------------------------------------------------------------------
(* The photons of an event.                                                *)

\* A photon comes from a step that one of the event's tracks has taken.
From(ev, p) ==
  p \in PhotonName /\ p[2] \in DOMAIN ev.tracks /\ p[3] <= ev.tracks[p[2]].steps
KindOf(ev, p) == ev.tracks[p[2]].kind

\* Photons are detected on the tracks of optical photons; what is sent to Chroma
\* are steps of charged ones.
Made(ev) == \A p \in ev.made : From(ev, p) /\ KindOf(ev, p) = "opticalphoton"
Sent(ev, ms) ==
  IsFiniteSet(ms) /\ \A p \in ms : From(ev, p) /\ KindOf(ev, p) = "charged"
InEvent == pc \in {"stack", "track", "stopped", "suspended"}
Photons ==
  /\ InEvent => /\ HitList(hits, event.made) /\ Made(event)
                /\ chroma => Sent(event, message)
  /\ pc = "begin" => event.made = {}

\* The limit is passed at the end of a track only, and ends the event.
Over(n) == run.maxpe > 0 /\ n > run.maxpe
Limit ==
  /\ run.maxpe \in Nat /\ run.nabort \in Nat /\ run.aborted \in Nat
  /\ run.nabort = run.aborted + IF pc = "stack" /\ event.aborted THEN 1 ELSE 0
  /\ pc \in {"begin", "track", "stopped", "suspended"} => ~event.aborted
  /\ pc = "track" => ~Over(Cardinality(event.made))
  /\ pc = "stack" => /\ event.aborted <=> Over(Cardinality(event.made))
                     /\ event.aborted => event.stack = {}

\* The event that was delivered.
Result ==
  Delivered =>
    /\ pc = "next"
    /\ ds.aborted <=> Over(Cardinality(Tracked))
    /\ ds.aborted => ds.pmts = <<>>
    /\ ~ds.aborted => HitList(ds.pmts, event.made) /\ ds.numPE = Cardinality(event.made)
HitInv == Photons /\ Limit /\ Result

\* Tracks only get longer and more.
Grown(ev, new) ==
  \A u \in DOMAIN ev.tracks :
    /\ u \in DOMAIN new.tracks /\ new.tracks[u].kind = ev.tracks[u].kind
    /\ ev.tracks[u].steps \in Nat /\ new.tracks[u].steps \in Nat
    /\ ev.tracks[u].steps <= new.tracks[u].steps

\* So a photon's track stays where it was.
LEMMA GrownFrom ==
  ASSUME NEW ev, NEW new, Grown(ev, new), NEW p, From(ev, p)
  PROVE  From(new, p) /\ KindOf(new, p) = KindOf(ev, p)
<1>1. p[3] \in Nat
  BY DEF From, PhotonName
<1> QED BY <1>1 DEF From, Grown, KindOf

\* A hit collection that was cleared.
LEMMA NoHits == HitList(<<>>, {})
<1>1. <<>> \in Seq(HitRecord) /\ DOMAIN <<>> = {}
  OBVIOUS
<1>2. PhotonsOf(<<>>, DOMAIN <<>>) = {}
  BY <1>1 DEF PhotonsOf
<1> QED BY <1>1, <1>2 DEF HitList

\* Nothing changes that the hits depend on.
LEMMA SameHits ==
  ASSUME HitInv, event' = event, ds' = ds, run' = run, pc' = pc,
         InEvent => hits' = hits /\ message' = message /\ chroma' = chroma
  PROVE  HitInv'
<1>1. Photons'
  BY DEF HitInv, Photons, InEvent
<1>2. Limit'
  BY DEF HitInv, Limit, Over
<1>3. Result'
  BY DEF HitInv, Result, Delivered, Over, Tracked
<1> QED BY <1>1, <1>2, <1>3 DEF HitInv

\* Commands, the signal, and the beginning of an event, which clears the hits.
LEMMA QuietHits ==
  ASSUME Types, HitInv, Quiet
  PROVE  HitInv'
<1>1. CASE StoreTrajectory
  BY <1>1, SameHits DEF StoreTrajectory
<1>2. CASE SwitchChroma
  <2>1. pc = "idle" /\ UNCHANGED <<pc, run, event, ds>>
    BY <1>2 DEF SwitchChroma, Idle
  <2> QED BY <2>1, SameHits DEF InEvent
<1>3. CASE Signal
  BY <1>3, SameHits DEF Signal, user
<1>4. CASE \E kind \in Named, b \in BOOLEAN : SetStoreParticleTraj(kind, b)
  BY <1>4, SameHits DEF SetStoreParticleTraj
<1>5. CASE BeginOfEventAction
  <2>1. /\ pc = "begin" /\ pc' = "stack" /\ event' = event /\ ds' = ds /\ run' = run
        /\ hits' = <<>> /\ chroma' = chroma /\ (chroma => message' = {})
    BY <1>5 DEF BeginOfEventAction, Clear, user
  <2>2. event.made = {} /\ ~event.aborted /\ ~Delivered /\ run.maxpe \in Nat
    BY <2>1 DEF HitInv, Photons, Limit, Result
  <2>3. Cardinality({}) = 0 /\ IsFiniteSet({})
    BY FS_EmptySet
  <2>4. Photons'
    BY <2>1, <2>2, <2>3, NoHits DEF Photons, Made, Sent
  <2>5. Limit'
    BY <2>1, <2>2, <2>3 DEF HitInv, Limit, Over
  <2>6. Result'
    BY <2>1, <2>2 DEF Result, Delivered
  <2> QED BY <2>4, <2>5, <2>6 DEF HitInv
<1> QED BY <1>1, <1>2, <1>3, <1>4, <1>5 DEF Quiet

\* A run begins.
LEMMA BeginOfRunHits ==
  ASSUME Types, HitInv, NEW n \in 1 .. MaxEvents, BeginOfRunAction(n)
  PROVE  HitInv'
<1>1. /\ pc = "idle" /\ pc' = "next" /\ event' = event /\ ds' = ds
      /\ run' = [NewRun EXCEPT !.left = n]
  BY DEF BeginOfRunAction, Idle
<1>2. run'.maxpe = max_pe /\ run'.nabort = 0 /\ run'.aborted = 0 /\ max_pe \in Nat
  BY <1>1 DEF NewRun, Types, UserTypes
<1>3. Limit'
  BY <1>1, <1>2 DEF Limit
<1>4. Photons' /\ Result'
  BY <1>1 DEF HitInv, Photons, InEvent, Result, Delivered
<1> QED BY <1>3, <1>4 DEF HitInv

\* An event begins.
LEMMA NextEventHits ==
  ASSUME Types, HitInv, NextEvent
  PROVE  HitInv'
<1>1. PICK n \in 1 .. Entries + 1 : GenerateEvent(n)
  BY DEF NextEvent
<1>2. event'.made = {} /\ ~event'.aborted
  <2>1. event' = [NewEvent EXCEPT
                    !.entries = Read(n),
                    !.tracks = [i \in DOMAIN Read(n) |-> NewTrack("charged")],
                    !.stack = DOMAIN Read(n)]
    BY <1>1 DEF GenerateEvent
  <2> QED BY <2>1 DEF NewEvent
<1>3. /\ pc = "next" /\ pc' = "begin" /\ ds' = NoDS
      /\ run'.maxpe = run.maxpe /\ run'.nabort = run.nabort /\ run'.aborted = run.aborted
  BY <1>1 DEF NextEvent, GenerateEvent, Types, RunTypes, RunFields
<1>4. Limit'
  BY <1>2, <1>3 DEF HitInv, Limit
<1>5. Photons' /\ Result'
  BY <1>2, <1>3 DEF Photons, InEvent, Result, Delivered
<1> QED BY <1>4, <1>5 DEF HitInv

\* A track is taken from the stack: the limit was not passed.
LEMMA PreHits ==
  ASSUME Types, HitInv, NEW t \in event.stack, PreUserTrackingAction(t)
  PROVE  HitInv'
<1>1. /\ pc = "stack" /\ pc' = "track" /\ ds' = ds /\ run' = run
      /\ UNCHANGED <<hits, message, chroma>>
  BY DEF PreUserTrackingAction, user
<1>2. event'.made = event.made /\ event'.aborted = event.aborted
  <2>1. event' = [event EXCEPT !.stack = @ \ {t}, !.at = t,
                    !.tracks[t].stored = GetStoreParticleTraj(event.tracks[t].kind),
                    !.tracks[t].now = <<>>]
    BY DEF PreUserTrackingAction
  <2>2. DOMAIN event = EventFields
    BY DEF Types, EventTypes
  <2> QED BY <2>1, <2>2 DEF EventFields
<1>3. Grown(event, event')
  <2>1. event.tracks \in Seq(TrackRecord) /\ t \in DOMAIN event.tracks
    BY DEF Types, EventTypes
  <2>2. \A u \in DOMAIN event.tracks : event.tracks[u] \in TrackRecord
    BY <2>1
  <2>3. event'.tracks[t].kind = event.tracks[t].kind
        /\ event'.tracks[t].steps = event.tracks[t].steps
    BY <2>1, <2>2, PreEffect DEF TrackRecord
  <2>4. SUFFICES ASSUME NEW u \in DOMAIN event.tracks
                  PROVE  /\ u \in DOMAIN event'.tracks
                         /\ event'.tracks[u].kind = event.tracks[u].kind
                         /\ event.tracks[u].steps \in Nat
                         /\ event'.tracks[u].steps = event.tracks[u].steps
    BY <2>1 DEF Grown
  <2>5. event.tracks[u] \in TrackRecord
    BY <2>2
  <2>6. event.tracks[u].steps \in Nat
    BY <2>5 DEF TrackRecord
  <2>7. DOMAIN event'.tracks = DOMAIN event.tracks
    BY PreEffect
  <2>8. u # t => event'.tracks[u] = event.tracks[u]
    BY PreEffect
  <2> QED BY <2>3, <2>6, <2>7, <2>8
<1>4. ~event.aborted /\ ~Over(Cardinality(event.made))
  BY <1>1 DEF HitInv, Limit
<1>5. Made(event') /\ (chroma => Sent(event', message))
  BY <1>1, <1>2, <1>3, GrownFrom DEF HitInv, Photons, InEvent, Made, Sent
<1>6. Photons'
  BY <1>1, <1>2, <1>5 DEF HitInv, Photons, InEvent
<1>7. Limit'
  BY <1>1, <1>2, <1>4 DEF HitInv, Limit, Over
<1>8. Result'
  BY <1>1 DEF HitInv, Result, Delivered
<1> QED BY <1>6, <1>7, <1>8 DEF HitInv

\* The photon of this step was not seen before.
LEMMA PhotonFacts ==
  ASSUME Types, event.at # Nothing
  PROVE  /\ Photon \in PhotonName /\ ~From(event, Photon)
         /\ \A ev : Grown(event, ev) /\ ev.tracks[event.at].steps = Track.steps + 1 =>
              From(ev, Photon) /\ KindOf(ev, Photon) = Track.kind
<1>1. /\ event.at \in DOMAIN event.tracks /\ event.tracks \in Seq(TrackRecord)
      /\ event.at \in Nat /\ number \in Nat
  BY DEF Types, EventTypes, UserTypes
<1>2. event.tracks[event.at] \in TrackRecord
  BY <1>1
<1>3. Track.steps \in Nat
  BY <1>2 DEF Track, TrackRecord
<1>4. /\ Photon \in PhotonName /\ Photon[2] = event.at /\ Photon[3] = Track.steps + 1
  BY <1>1, <1>3 DEF Photon, PhotonName
<1> QED BY <1>1, <1>3, <1>4 DEF From, KindOf, Track, Grown

\* After a step the tracks are there, one of them longer.
LEMMA StepGrown ==
  ASSUME Types, Stepping
  PROVE  /\ Grown(event, event') /\ event.at # Nothing
         /\ event'.tracks[event.at].steps = Track.steps + 1
<1>1. /\ event.at # Nothing /\ EventTypes'
      /\ \A u \in DOMAIN event.tracks : event'.tracks[u] = Stepped.tracks[u]
      /\ DOMAIN event.tracks \subseteq DOMAIN event'.tracks
  BY StepEffect
<1>2. /\ event.at \in DOMAIN event.tracks /\ event.tracks \in Seq(TrackRecord)
  BY <1>1 DEF Types, EventTypes
<1>3. ASSUME NEW u \in DOMAIN event.tracks
      PROVE  event.tracks[u].steps \in Nat
  <2>1. event.tracks[u] \in TrackRecord
    BY <1>2
  <2> QED BY <2>1 DEF TrackRecord
<1>4. /\ Stepped.tracks[event.at].kind = Track.kind
      /\ Stepped.tracks[event.at].steps = Track.steps + 1
      /\ \A u \in DOMAIN event.tracks :
           u # event.at => Stepped.tracks[u] = event.tracks[u]
  BY <1>1, SteppedFacts
<1>5. event'.tracks[event.at].steps = Track.steps + 1
  BY <1>1, <1>2, <1>4
<1>6. ASSUME NEW u \in DOMAIN event.tracks
      PROVE  /\ event'.tracks[u].kind = event.tracks[u].kind
             /\ event'.tracks[u].steps \in {event.tracks[u].steps, event.tracks[u].steps + 1}
  <2>1. event'.tracks[u] = Stepped.tracks[u]
    BY <1>1
  <2>2. CASE u = event.at
    BY <1>4, <2>1, <2>2 DEF Track
  <2>3. CASE u # event.at
    BY <1>4, <2>1, <2>3
  <2> QED BY <2>2, <2>3
<1>7. Grown(event, event')
  BY <1>1, <1>3, <1>6 DEF Grown
<1> QED BY <1>1, <1>5, <1>7

\* A step: a photon may be detected, or one sent to Chroma.
LEMMA SteppingHits ==
  ASSUME Types, HitInv, Stepping
  PROVE  HitInv'
<1>1. /\ pc = "track" /\ pc' \in {"track", "stopped", "suspended"} /\ ds' = ds /\ run' = run
      /\ chroma' = chroma
  BY DEF Stepping, PhotonStep, ChargedStep, user
<1>2. /\ HitList(hits, event.made) /\ Made(event) /\ (chroma => Sent(event, message))
      /\ ~event.aborted /\ ~Over(Cardinality(event.made)) /\ ~Delivered
  BY <1>1 DEF HitInv, Photons, InEvent, Limit, Result
<1>3. /\ Grown(event, event') /\ event.at # Nothing /\ event'.aborted = event.aborted
      /\ event'.tracks[event.at].steps = Track.steps + 1
  BY StepGrown, StepEffect
<1>4. /\ Photon \in PhotonName /\ ~From(event, Photon)
      /\ From(event', Photon) /\ KindOf(event', Photon) = Track.kind
  BY <1>3, PhotonFacts
<1>5. \A p : From(event, p) => From(event', p) /\ KindOf(event', p) = KindOf(event, p)
  BY <1>3, GrownFrom
<1>6. Stepped.made = event.made /\ DOMAIN Stepped = EventFields
      /\ Secondary(Stepped).made = event.made
  BY <1>3, SteppedFacts DEF Stepped, Secondary, Types, EventTypes, EventFields
<1>7. Result'
  BY <1>1, <1>2 DEF Result, Delivered
<1>8. CASE PhotonStep
  <2>1. Track.kind = "opticalphoton" /\ message' = message /\ pc' = "stopped"
    BY <1>8 DEF PhotonStep
  <2>2. chroma' => Sent(event', message')
    BY <1>1, <1>2, <1>5, <2>1 DEF Sent
  <2>3. CASE event' = Stepped /\ hits' = hits
    <3>1. event'.made = event.made
      BY <1>6, <2>3
    <3>2. Made(event')
      BY <1>2, <1>5, <3>1 DEF Made
    <3>3. Photons'
      BY <1>1, <1>2, <2>1, <2>2, <2>3, <3>1, <3>2 DEF Photons
    <3>4. Limit'
      BY <1>1, <1>2, <1>3, <2>1 DEF HitInv, Limit
    <3> QED BY <1>7, <3>3, <3>4 DEF HitInv
  <2>4. CASE \E pmt \in Pmts : /\ event' = [Stepped EXCEPT !.made = @ \cup {Photon}]
                               /\ hits' = DetectPhoton(hits, pmt, Photon)
    <3>1. PICK pmt \in Pmts : /\ event' = [Stepped EXCEPT !.made = @ \cup {Photon}]
                              /\ hits' = DetectPhoton(hits, pmt, Photon)
      BY <2>4
    <3>2. event'.made = event.made \cup {Photon}
      BY <1>6, <3>1 DEF EventFields
    <3>3. Photon \notin event.made
      BY <1>2, <1>4 DEF Made
    <3>4. HitList(hits', event'.made)
      BY <1>2, <1>4, <3>1, <3>2, <3>3, DetectFacts
    <3>5. Made(event')
      BY <1>2, <1>4, <1>5, <2>1, <3>2 DEF Made
    <3>6. Photons'
      BY <2>1, <2>2, <3>4, <3>5 DEF Photons
    <3>7. Limit'
      BY <1>1, <1>2, <1>3, <2>1 DEF HitInv, Limit
    <3> QED BY <1>7, <3>6, <3>7 DEF HitInv
  <2> QED BY <1>8, <2>3, <2>4 DEF PhotonStep
<1>9. CASE \E then \in {"track", "stopped", "suspended"} : ChargedStep(then)
  <2>1. /\ Track.kind = "charged" /\ hits' = hits
        /\ message' = message \/ message' = message \cup {Photon}
        /\ event' = Stepped \/ event' = Secondary(Stepped)
    BY <1>9 DEF ChargedStep
  <2>2. event'.made = event.made
    BY <1>6, <2>1
  <2>3. Made(event')
    BY <1>2, <1>5, <2>2 DEF Made
  <2>4. chroma' => Sent(event', message')
    <3> SUFFICES ASSUME chroma PROVE Sent(event', message')
      BY <1>1
    <3>1. IsFiniteSet(message) /\ \A p \in message : From(event, p) /\ KindOf(event, p) = "charged"
      BY <1>2 DEF Sent
    <3>2. IsFiniteSet(message \cup {Photon})
      BY <3>1, FS_Singleton, FS_Union
    <3> QED BY <1>4, <1>5, <2>1, <3>1, <3>2 DEF Sent
  <2>5. Photons'
    BY <1>1, <1>2, <2>1, <2>2, <2>3, <2>4 DEF Photons
  <2>6. Limit'
    BY <1>1, <1>2, <1>3, <2>2 DEF HitInv, Limit, Over
  <2> QED BY <1>7, <2>5, <2>6 DEF HitInv
<1> QED BY <1>8, <1>9 DEF Stepping

\* The end of a track is where the limit is looked at.
LEMMA PostHits ==
  ASSUME Types, HitInv, PostUserTrackingAction
  PROVE  HitInv'
<1> DEFINE abort == Exceeds(Count(hits))
<1>1. /\ pc \in {"stopped", "suspended"} /\ pc' = "stack" /\ ds' = ds
      /\ UNCHANGED <<hits, message, chroma>>
      /\ run' = [run EXCEPT !.nabort = IF abort THEN @ + 1 ELSE @]
  BY DEF PostUserTrackingAction, user
<1>2. /\ HitList(hits, event.made) /\ Made(event) /\ (chroma => Sent(event, message))
      /\ ~event.aborted /\ ~Delivered
  BY <1>1 DEF HitInv, Photons, InEvent, Limit, Result
<1>3. /\ event'.made = event.made /\ event'.aborted = (event.aborted \/ abort)
      /\ abort => event'.stack = {}
  <2>1. DOMAIN event = EventFields
    BY DEF Types, EventTypes
  <2> QED BY <2>1 DEF PostUserTrackingAction, EventFields
<1>4. Grown(event, event')
  <2>1. /\ event.at \in DOMAIN event.tracks /\ DOMAIN event'.tracks = DOMAIN event.tracks
        /\ \A u \in DOMAIN event.tracks :
             u # event.at => event'.tracks[u] = event.tracks[u]
        /\ event'.tracks[event.at] = [Track EXCEPT !.before = Merged]
    BY PostEffect
  <2>2. \A u \in DOMAIN event.tracks : event.tracks[u] \in TrackRecord
    BY DEF Types, EventTypes
  <2>3. /\ event'.tracks[event.at].kind = event.tracks[event.at].kind
        /\ event'.tracks[event.at].steps = event.tracks[event.at].steps
    BY <2>1, <2>2 DEF Track, TrackRecord
  <2>4. SUFFICES ASSUME NEW u \in DOMAIN event.tracks
                  PROVE  /\ u \in DOMAIN event'.tracks
                         /\ event'.tracks[u].kind = event.tracks[u].kind
                         /\ event.tracks[u].steps \in Nat
                         /\ event'.tracks[u].steps = event.tracks[u].steps
    BY <2>1 DEF Grown
  <2>5. event.tracks[u] \in TrackRecord
    BY <2>2
  <2>6. event.tracks[u].steps \in Nat
    BY <2>5 DEF TrackRecord
  <2>7. u # event.at => event'.tracks[u] = event.tracks[u]
    BY <2>1
  <2> QED BY <2>1, <2>3, <2>6, <2>7
<1>5. Made(event') /\ (chroma => Sent(event', message))
  BY <1>2, <1>3, <1>4, GrownFrom DEF Made, Sent
<1>6. Photons'
  BY <1>1, <1>2, <1>3, <1>5 DEF Photons
<1>7. /\ run'.maxpe = run.maxpe /\ run'.aborted = run.aborted
      /\ run'.nabort = IF abort THEN run.nabort + 1 ELSE run.nabort
  <2> HIDE DEF abort
  <2> QED BY <1>1 DEF Types, RunTypes, RunFields
<1>8. abort <=> Over(Cardinality(event.made))
  <2>1. Count(hits) = Cardinality(event.made)
    BY <1>2, CountFacts
  <2> QED BY <2>1 DEF Exceeds, Over
<1>9. run.nabort = run.aborted /\ run.nabort \in Nat /\ run.maxpe \in Nat
  BY <1>1 DEF HitInv, Limit
<1>10. Limit'
  <2> HIDE DEF abort
  <2>1. event'.aborted <=> abort
    BY <1>2, <1>3
  <2>2. abort <=> Over(Cardinality(event.made))'
    BY <1>3, <1>7, <1>8 DEF Over
  <2>3. event'.aborted => event'.stack = {}
    BY <1>3, <2>1
  <2>4. run'.nabort = run'.aborted + IF event'.aborted THEN 1 ELSE 0
    <3>1. CASE abort
      BY <1>7, <1>9, <2>1, <3>1
    <3>2. CASE ~abort
      BY <1>7, <1>9, <2>1, <3>2
    <3> QED BY <3>1, <3>2
  <2>5. run'.nabort \in Nat /\ run'.aborted \in Nat /\ run'.maxpe \in Nat
    BY <1>7, <1>9
  <2> QED BY <1>1, <2>1, <2>2, <2>3, <2>4, <2>5 DEF Limit
<1>11. Result'
  BY <1>1, <1>2 DEF Result, Delivered
<1> QED BY <1>6, <1>10, <1>11 DEF HitInv

\* What the processors are given: the photons of the event, with Chroma's.
LEMMA EndOfEventHits ==
  ASSUME Types, HitInv, EndOfEventAction
  PROVE  HitInv'
<1>1. PICK reply \in IF chroma THEN Replies ELSE {<<>>} :
        LET hs == MakePhotonHitData(hits, reply)
        IN  /\ hits' = hs
            /\ event' = [event EXCEPT !.made = @ \cup DOMAIN reply]
            /\ \E noise \in Noises(hs) : ds' = MakeEvent(hs, noise)
  BY DEF EndOfEventAction
<1> DEFINE hs == MakePhotonHitData(hits, reply)
           S == DOMAIN reply
<1>2. /\ pc = "stack" /\ pc' = "next" /\ event'.tracks = event.tracks
      /\ ds'.aborted = event.aborted
  BY EndOfEventEffect
<1>3. event'.made = event.made \cup S
  BY <1>1 DEF Types, EventTypes, EventFields
<1>4. /\ HitList(hits, event.made) /\ Made(event) /\ (chroma => Sent(event, message))
      /\ event.aborted <=> Over(Cardinality(event.made))
  BY <1>2 DEF HitInv, Photons, InEvent, Limit
<1>5. /\ reply \in [S -> Pmts] /\ S \in SUBSET PhotonName /\ IsFiniteSet(S)
      /\ \A p \in S : From(event, p) /\ KindOf(event, p) = "charged"
  <2>1. CASE chroma
    <3>1. reply \in Replies
      BY <1>1, <2>1
    <3>2. PICK R \in SUBSET message : reply \in [R -> Pmts]
      BY <3>1 DEF Replies
    <3>3. S = R
      BY <3>2
    <3>4. IsFiniteSet(message) /\ \A p \in message : From(event, p) /\ KindOf(event, p) = "charged"
      BY <1>4, <2>1 DEF Sent
    <3>5. IsFiniteSet(R)
      BY <3>4, FS_Subset
    <3> QED BY <3>2, <3>3, <3>4, <3>5 DEF From
  <2>2. CASE ~chroma
    <3>1. reply = <<>> /\ S = {}
      BY <1>1, <2>2
    <3> QED BY <3>1, FS_EmptySet
  <2> QED BY <2>1, <2>2
<1>6. S \cap event.made = {}
  BY <1>4, <1>5 DEF Made
<1>7. HitList(hs, event'.made)
  <2> HIDE DEF S
  <2> QED BY <1>3, <1>4, <1>5, <1>6, ReplyFacts
<1>8. PICK noise \in Noises(hs) : ds' = MakeEvent(hs, noise)
  BY <1>1
<1>9. \E n \in Nat : noise \in [1 .. n -> Pmts]
  <2>1. CASE noise \in {<<>>}
    <3>1. noise = <<>> /\ 1 .. 0 = {}
      BY <2>1
    <3> QED BY <3>1
  <2>2. CASE \E n \in 0 .. MaxNoise : noise \in [1 .. n -> Pmts]
    <3>1. PICK n \in 0 .. MaxNoise : noise \in [1 .. n -> Pmts]
      BY <2>2
    <3>2. n \in Nat
      BY GsimAssumption
    <3> QED BY <3>1, <3>2
  <2> QED BY <1>8, <2>1, <2>2 DEF Noises
<1>10. HitList(FoldLeft(AddNoise, hs, noise), event'.made)
  <2> HIDE DEF hs
  <2> QED BY <1>7, <1>9, NoiseFacts
<1>11. /\ ds'.pmts = IF event.aborted THEN <<>> ELSE FoldLeft(AddNoise, hs, noise)
       /\ ds'.numPE = IF event.aborted THEN 0 ELSE Count(hs)
  <2> HIDE DEF hs
  <2> QED BY <1>8 DEF MakeEvent
<1>12. Count(hs) = Cardinality(event'.made)
  <2> HIDE DEF hs
  <2> QED BY <1>7, CountFacts
<1>13. Tracked' = event.made
  BY <1>2, <1>3, <1>4, <1>5 DEF Tracked, Made, KindOf
<1>14. /\ run'.maxpe = run.maxpe /\ run'.nabort = run.nabort
       /\ run'.aborted = IF event.aborted THEN run.aborted + 1 ELSE run.aborted
  <2>1. run' = [run EXCEPT !.runAborted = @ \/ TermRequested,
                           !.aborted = IF event.aborted THEN @ + 1 ELSE @]
    BY DEF EndOfEventAction
  <2> QED BY <2>1 DEF Types, RunTypes, RunFields
<1>15. Limit'
  BY <1>2, <1>14 DEF HitInv, Limit
<1>16. Photons'
  BY <1>2 DEF Photons, InEvent
<1>17. Result'
  <2> HIDE DEF hs
  <2> QED BY <1>2, <1>4, <1>10, <1>11, <1>12, <1>13, <1>14 DEF Result, Over
<1> QED BY <1>15, <1>16, <1>17 DEF HitInv

\* The hits of an event are kept apart from those of the others by every step.
LEMMA NextHits ==
  ASSUME Types, HitInv, [Next]_vars
  PROVE  HitInv'
<1>1. CASE Quiet
  BY <1>1, QuietHits
<1>2. CASE \E n \in 1 .. MaxEvents : BeginOfRunAction(n)
  BY <1>2, BeginOfRunHits
<1>3. CASE NextEvent
  BY <1>3, NextEventHits
<1>4. CASE Tracking
  BY <1>4, PreHits, SteppingHits, PostHits DEF Tracking
<1>5. CASE EndOfEventAction
  BY <1>5, EndOfEventHits
<1>6. CASE EndOfRunAction
  <2>1. pc = "next" /\ pc' = "idle" /\ run' = run /\ ds' = NoDS
    BY <1>6, EndOfRunEffect
  <2>2. Limit'
    BY <2>1 DEF HitInv, Limit
  <2> QED BY <2>1, <2>2 DEF HitInv, Photons, InEvent, Result, Delivered
<1>7. CASE UNCHANGED vars
  BY <1>7, SameHits DEF vars, user
<1> QED BY <1>1, <1>2, <1>3, <1>4, <1>5, <1>6, <1>7, NextCases

\* The invariant holds throughout.
LEMMA HitInvHolds == Spec => []HitInv
<1>1. Init => HitInv
  <2> SUFFICES ASSUME Init PROVE HitInv
    OBVIOUS
  <2>1. pc = "idle" /\ ds = NoDS /\ run = NewRun /\ max_pe \in Nat
    BY GsimAssumption DEF Init
  <2>2. run.maxpe = max_pe /\ run.nabort = 0 /\ run.aborted = 0
    BY <2>1 DEF NewRun
  <2> QED BY <2>1, <2>2 DEF HitInv, Photons, InEvent, Limit, Result, Delivered
<1> QED BY <1>1, NextHits, TypesHold, PTL DEF Spec

\* The photons of an event are those that were detected in it, each once, with
\* those that Chroma detected for its steps.
THEOREM OwnPhotonsAlways == Spec => []OwnPhotons
<1>1. HitInv => OwnPhotons
  <2> SUFFICES ASSUME HitInv, Delivered, ~ds.aborted PROVE OwnPhotons
    BY DEF OwnPhotons
  <2>1. HitList(ds.pmts, event.made) /\ ds.numPE = Cardinality(event.made)
    BY DEF HitInv, Result
  <2>2. UNION {p.photons : p \in Range0(ds.pmts)} = PhotonsOf(ds.pmts, DOMAIN ds.pmts)
    BY DEF Range0, PhotonsOf
  <2> QED BY <2>1, <2>2 DEF OwnPhotons, HitList
<1> QED BY <1>1, HitInvHolds, PTL

\* An event lists a PMT once.
THEOREM PmtsOnceAlways == Spec => []PmtsOnce
<1>1. HitInv => PmtsOnce
  <2> SUFFICES ASSUME HitInv, Delivered PROVE PmtsOnce
    BY DEF PmtsOnce
  <2>1. ds.pmts = <<>> \/ HitList(ds.pmts, event.made)
    BY DEF HitInv, Result
  <2> QED BY <2>1 DEF PmtsOnce, HitList
<1> QED BY <1>1, HitInvHolds, PTL

\* An event is aborted exactly when more photons than the limit are detected in
\* it, and the run counts it once.
THEOREM AbortedAtLimitAlways == Spec => []AbortedAtLimit
<1>1. HitInv => AbortedAtLimit
  BY DEF HitInv, Result, Limit, AbortedAtLimit, Over
<1> QED BY <1>1, HitInvHolds, PTL

=============================================================================
