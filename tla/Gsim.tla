-------------------------------- MODULE Gsim --------------------------------
(***************************************************************************)
(* The simulation (core/Gsim.cc): the callbacks that Geant4 makes while it  *)
(* runs events, from a file of vertices (gen/VertexFile_Gen.cc), and the    *)
(* event that each of them ends in.  What outlives an event, and so can     *)
(* leak into the next one, is the collection of hits, the message to the    *)
(* Chroma server, the tracking manager's flag, which Gsim turns on and off  *)
(* for each track, and the position in the file.                           *)
(*                                                                         *)
(* Geant4 is external: it tracks the tracks of an event one at a time, in   *)
(* any order here; a charged particle is suspended when it makes Cherenkov  *)
(* photons (physics/PhysicsList.cc), and tracked on later: PreUserTracking- *)
(* Action and PostUserTrackingAction are called for every part of it.       *)
(*                                                                         *)
(* Definitions named Wrong... are plausible mistakes in the one that        *)
(* follows; no specification uses them.                                     *)
(***************************************************************************)
EXTENDS Naturals, SequencesExt, FiniteSets

CONSTANTS
  Pmts,         \* the detector's PMTs
  Entries,      \* entries in the vertex file: 0 .. Entries - 1
  Offsets,      \* NOFFSET: entries that the generator's state can skip
  Named,        \* kinds of particles that the trajectory commands name
  Limits,       \* NEVENTS and max_pe: 0 is no limit
  MaxRuns,      \* bound on runs
  MaxEvents,    \* bound on the events of one beamOn
  MaxSteps,     \* bound on the steps of a charged track
  MaxTracks,    \* bound on the tracks of an event
  MaxNoise      \* bound on the noise hits of an event

Kinds == {"charged", "opticalphoton"}

ASSUME GsimAssumption ==
  /\ IsFiniteSet(Pmts)
  /\ Named \subseteq Kinds
  /\ Offsets \subseteq Nat /\ Limits \subseteq Nat
  /\ {Entries, MaxRuns, MaxEvents, MaxSteps, MaxTracks,
      MaxNoise} \subseteq Nat

Nothing == 0        \* no track, no entry

VARIABLES
  pc,               \* "idle" between runs, "next" between events, "begin",
                    \* "stack" between tracks, "track", or how the track
                    \* stopped: "stopped", "suspended"
  storeTrajectory,  \* fpTrackingManager->GetStoreTrajectory()
  keep, discard,    \* fStoreParticleTraj, fDiscardParticleTraj
  chroma,           \* fChroma->isActive()
  max_pe,           \* MC.max_pe in the database, 0 if it is not there
  file,             \* the generator: fCurrentEvent, fMaxEvent, and what fDS holds
  signal,           \* SignalHandler::IsTermRequested()
  run,              \* the run: see NewRun
  event,            \* the event: see NewEvent
  hits,             \* the HitPMTCollection
  message,          \* the steps in the message to Chroma
  ds,               \* the event the processors have just been given, or NoDS
  (* history *)
  asked,            \* the user's /tracking/storeTrajectory
  runs, number      \* runs and events so far

user == <<keep, discard, chroma, max_pe, asked, runs>>
vars == <<pc, storeTrajectory, file, signal, run, event, hits, message, ds,
          user, number>>

\* fInitialStoreTrajectoryState, maxpe, nabort; runAborted and the events left
\* belong to Geant4.  used: the entries simulated; aborted: events aborted;
\* late: events begun since a signal was pending (history).
NewRun == [initial |-> storeTrajectory, maxpe |-> max_pe, nabort |-> 0,
           runAborted |-> FALSE, left |-> 0, used |-> <<>>, aborted |-> 0,
           late |-> 0]

\* tracks: the tracks by track number; stack: those to be tracked; at: the one
\* that is; centroid: the steps in eventInfo->energyCentroid; kept: the
\* trajectories of the event.  made: the photons detected (history).
NewEvent == [entries |-> <<>>, tracks |-> <<>>, stack |-> {}, at |-> Nothing,
             centroid |-> 0, kept |-> {}, aborted |-> FALSE, made |-> {}]

\* A track: its steps, those in trackInfo->energyCentroid, and the steps of its
\* trajectory: in what was tracked before it was suspended, and since.
NewTrack(kind) == [kind |-> kind, steps |-> 0, info |-> 0, before |-> <<>>,
                   now |-> <<>>, stored |-> FALSE]

NoDS == [number |-> 0]

-----------------------------------------------------------------------------
(* Commands of the macro, between runs.                                    *)

Idle == pc = "idle" /\ runs < MaxRuns

\* /tracking/storeTrajectory, a command of Geant4.
StoreTrajectory ==
  /\ Idle
  /\ storeTrajectory' = ~storeTrajectory
  /\ asked' = storeTrajectory'
  /\ UNCHANGED <<pc, keep, discard, chroma, max_pe, file, signal, run, event,
                 hits, message, ds, runs, number>>

\* /tracking/storeParticleTraj and /tracking/discardParticleTraj.
SetStoreParticleTraj(kind, gDoStore) ==
  /\ Idle
  /\ keep' = IF gDoStore THEN keep \cup {kind} ELSE keep
  /\ discard' = IF gDoStore THEN discard ELSE discard \cup {kind}
  /\ UNCHANGED <<pc, storeTrajectory, chroma, max_pe, file, signal, run, event,
                 hits, message, ds, asked, runs, number>>

\* /chroma/activate and /chroma/deactivate.
SwitchChroma ==
  /\ Idle
  /\ chroma' = ~chroma
  /\ UNCHANGED <<pc, storeTrajectory, keep, discard, max_pe, file, signal, run,
                 event, hits, message, ds, asked, runs, number>>

\* The first Ctrl-C, at any time.
Signal ==
  /\ ~signal
  /\ signal' = TRUE
  /\ UNCHANGED <<pc, storeTrajectory, user, file, run, event, hits, message,
                 ds, number>>

-----------------------------------------------------------------------------
(* Runs and the vertices of an event.                                      *)

\* /run/beamOn: Geant4 starts a run of n events, and BeginOfRunAction.
BeginOfRunAction(n) ==
  /\ Idle
  /\ run' = [NewRun EXCEPT !.left = n]
  /\ runs' = runs + 1
  /\ pc' = "next"
  /\ UNCHANGED <<storeTrajectory, keep, discard, chroma, max_pe, file, signal,
                 event, hits, message, ds, asked, number>>

\* VertexFile_Gen::GenerateEvent of n entries, one after the other, the second
\* and later ones as pile-up of the first: only as long as there are entries,
\* as then ResetTime puts the next one out of the window.  GetEntry past the
\* end leaves in fDS what it holds.
WrongRead(n) == [i \in 1 .. n |-> file.current + i - 1]
Read(n) ==
  IF file.current < Entries THEN [i \in 1 .. n |-> file.current + i - 1]
  ELSE IF file.fDS = Nothing THEN <<>> ELSE <<file.fDS - 1>>

WrongOutOfEvents(current) == current > Entries
OutOfEvents(current) ==
  current >= Entries \/ (file.fMaxEvent > 0 /\ current >= file.fMaxEvent)

\* A piled-up entry that reaches NEVENTS aborts the run, and the next one can
\* pile up still.
GenerateEvent(n) ==
  /\ n = 1 \/ file.current + n <= Entries
  /\ LET current == file.current + n
         entries == Read(n)
     IN  /\ file' = [file EXCEPT !.current = current,
                       !.fDS = IF entries = <<>> THEN @ ELSE Last(entries) + 1]
         /\ event' = [NewEvent EXCEPT
                        !.entries = entries,
                        !.tracks = [i \in DOMAIN entries |-> NewTrack("charged")],
                        !.stack = DOMAIN entries]
         /\ run' = [run EXCEPT
                      !.left = @ - 1,
                      !.runAborted = @ \/ \E c \in file.current + 1 .. current :
                                            OutOfEvents(c),
                      !.used = @ \o entries,
                      !.late = IF signal THEN @ + 1 ELSE @]
  /\ pc' = "begin"
  /\ number' = number + 1
  /\ ds' = NoDS
  /\ UNCHANGED <<storeTrajectory, user, signal, hits, message>>

\* Geant4's loop over the events of the run.
NextEvent ==
  /\ pc = "next" /\ run.left > 0 /\ ~run.runAborted
  /\ \E n \in 1 .. Entries + 1 : GenerateEvent(n)

EndOfRunAction ==
  /\ pc = "next" /\ (run.left = 0 \/ run.runAborted)
  /\ pc' = "idle"
  /\ event' = NewEvent /\ ds' = NoDS
  /\ UNCHANGED <<storeTrajectory, user, file, signal, run, hits, message,
                 number>>

-----------------------------------------------------------------------------
(* Hits.                                                                   *)

\* GLG4HitPMTCollection::Clear.
WrongClear == hits
Clear == <<>>

\* GLG4HitPMTCollection::DetectPhoton.  hs lists each PMT's photons.
DetectPhoton(hs, pmt, photon) ==
  IF \E i \in DOMAIN hs : hs[i].id = pmt
  THEN [i \in DOMAIN hs |->
          IF hs[i].id = pmt THEN [hs[i] EXCEPT !.photons = @ \cup {photon}]
          ELSE hs[i]]
  ELSE Append(hs, [id |-> pmt, photons |-> {photon}, dark |-> 0])

Count(hs) == FoldSeq(LAMBDA h, n : Cardinality(h.photons) + n, 0, hs)

\* BeginOfEventAction.
BeginOfEventAction ==
  /\ pc = "begin"
  /\ hits' = Clear
  /\ message' = IF chroma THEN {} ELSE message
  /\ pc' = "stack"
  /\ UNCHANGED <<storeTrajectory, user, file, signal, run, event, ds, number>>

-----------------------------------------------------------------------------
(* Tracks.                                                                 *)

Track == event.tracks[event.at]

GetStoreParticleTraj(kind) ==
  IF run.initial THEN kind \notin discard ELSE kind \in keep

\* PreUserTrackingAction: of one track, or of the rest of a suspended one.
PreUserTrackingAction(t) ==
  /\ pc = "stack" /\ t \in event.stack
  /\ LET stored == GetStoreParticleTraj(event.tracks[t].kind)
     IN  /\ storeTrajectory' = stored
         /\ event' = [event EXCEPT
                        !.stack = @ \ {t}, !.at = t,
                        !.tracks[t].stored = stored,
                        !.tracks[t].now = <<>>]
  /\ pc' = "track"
  /\ UNCHANGED <<user, file, signal, run, hits, message, ds, number>>

\* Trajectory::AppendStep: the first step comes with the point it starts at.
AppendStep(steps, s) == IF steps = <<>> THEN <<s - 1, s>> ELSE Append(steps, s)

\* A step of the track, after which the track is in state then, and the event
\* with it: UserSteppingAction adds a step to the track's centroid, unless it
\* is an optical photon's.
Stepped ==
  [event EXCEPT
     !.tracks[event.at].steps = @ + 1,
     !.tracks[event.at].info = IF Track.kind = "charged" THEN @ + 1 ELSE @,
     !.tracks[event.at].now =
        IF Track.stored THEN AppendStep(@, Track.steps + 1) ELSE @]

\* A photon is named by its event and the track and step it comes from.
Photon == <<number, event.at, Track.steps + 1>>

\* An optical photon is detected or lost: GLG4PMTSD::SimpleHit.
PhotonStep ==
  /\ pc = "track" /\ Track.kind = "opticalphoton"
  /\ \/ /\ event' = Stepped
        /\ hits' = hits
     \/ \E pmt \in Pmts :
          /\ event' = [Stepped EXCEPT !.made = @ \cup {Photon}]
          /\ hits' = DetectPhoton(hits, pmt, Photon)
  /\ pc' = "stopped"
  /\ UNCHANGED <<storeTrajectory, user, file, signal, run, message, ds, number>>

\* A charged particle's step.  It can make an optical photon: a Cherenkov
\* photon suspends the track, if it goes on, and one from scintillation does
\* not.
Secondary(ev) ==
  [ev EXCEPT !.tracks = Append(@, NewTrack("opticalphoton")),
             !.stack = @ \cup {Len(ev.tracks) + 1}]

ChargedStep(then) ==
  /\ pc = "track" /\ Track.kind = "charged"
  /\ then # "stopped" => Track.steps + 1 < MaxSteps
  /\ \/ /\ then # "suspended"
        /\ event' = Stepped
        /\ message' = message
     \/ /\ Len(event.tracks) < MaxTracks
        /\ then = "track" => ~chroma
        /\ event' = Secondary(Stepped)
        /\ message' = message
     \/ /\ chroma /\ then # "suspended"      \* GLG4Scint: storeStepInfo
        /\ event' = Stepped
        /\ message' = message \cup {Photon}
  /\ pc' = then
  /\ UNCHANGED <<storeTrajectory, user, file, signal, run, hits, ds, number>>

\* Trajectory::MergeTrajectory, of the parts of a track that was suspended.
\* The second part starts at the point where the first one ends.
WrongMergeTrajectory(first, second) == first \o second
MergeTrajectory(first, second) ==
  IF first = <<>> THEN second ELSE first \o Tail(second)

\* The limit on photoelectrons.
WrongExceeds(nhits) == run.maxpe > 0 /\ nhits >= run.maxpe
Exceeds(nhits) == run.maxpe > 0 /\ nhits > run.maxpe

\* PostUserTrackingAction, and what Geant4 does with the track then.  It adds
\* the whole centroid of the track to the event's, also when the track is only
\* suspended.  AbortCurrentEvent kills the track and everything in the stack.
PostUserTrackingAction ==
  /\ pc \in {"stopped", "suspended"}
  /\ LET t == event.at
         abort == Exceeds(Count(hits))
         trajectory == MergeTrajectory(Track.before, Track.now)
         again == pc = "suspended" /\ ~abort
     IN  /\ event' = [event EXCEPT
                        !.at = Nothing,
                        !.centroid = @ + Track.info,
                        !.aborted = @ \/ abort,
                        !.stack = IF abort THEN {}
                                  ELSE IF again THEN @ \cup {t} ELSE @,
                        !.tracks[t].before = trajectory,
                        !.kept = IF Track.stored /\ ~again
                                 THEN @ \cup {[id |-> t, steps |-> trajectory]}
                                 ELSE @]
         /\ run' = [run EXCEPT !.nabort = IF abort THEN @ + 1 ELSE @]
  /\ pc' = "stack"
  /\ UNCHANGED <<storeTrajectory, user, file, signal, hits, message, ds, number>>

-----------------------------------------------------------------------------
(* The end of an event.                                                    *)

\* Chroma's answers: it may detect a photon for a step that was sent to it.
Replies == UNION {[S -> Pmts] : S \in SUBSET message}

\* MakePhotonHitData.
MakePhotonHitData(hs, reply) ==
  FoldSet(LAMBDA p, h : DetectPhoton(h, reply[p], p), hs, DOMAIN reply)

\* A noise hit: on a PMT of the event, or on one that gets a place in the list.
WrongAddNoise(pmts, pmt) == Append(pmts, [id |-> pmt, photons |-> {}, dark |-> 1])
AddNoise(pmts, pmt) ==
  IF \E i \in DOMAIN pmts : pmts[i].id = pmt
  THEN [i \in DOMAIN pmts |->
          IF pmts[i].id = pmt THEN [pmts[i] EXCEPT !.dark = @ + 1] ELSE pmts[i]]
  ELSE Append(pmts, [id |-> pmt, photons |-> {}, dark |-> 1])

\* Noise comes between the first hit and the last: there is none unless two
\* photons are detected.
Noises(hs) ==
  IF Count(hs) < 2 THEN {<<>>}
  ELSE UNION {[1 .. n -> Pmts] : n \in 0 .. MaxNoise}

\* MakeEvent.  An aborted event keeps its tracks, and nothing else.
MakeEvent(hs, noise) ==
  [number |-> number, entries |-> event.entries, tracks |-> event.kept,
   aborted |-> event.aborted,
   numPE |-> IF event.aborted THEN 0 ELSE Count(hs),
   centroid |-> IF event.aborted THEN 0 ELSE event.centroid,
   pmts |-> IF event.aborted THEN <<>>
            ELSE FoldLeft(AddNoise, hs, noise)]

\* The flag as the user set it, for the next run to read.
WrongRestored == storeTrajectory
Restored == run.initial

\* Soft abort of the run after a Ctrl-C.
WrongTermRequested == FALSE
TermRequested == signal

\* EndOfEventAction, processors included: what they make of the event is their
\* business.
EndOfEventAction ==
  /\ pc = "stack" /\ event.stack = {}
  /\ \E reply \in IF chroma THEN Replies ELSE {<<>>} :
       LET hs == MakePhotonHitData(hits, reply)
       IN  /\ hits' = hs
           /\ event' = [event EXCEPT !.made = @ \cup DOMAIN reply]
           /\ \E noise \in Noises(hs) : ds' = MakeEvent(hs, noise)
  /\ run' = [run EXCEPT !.runAborted = @ \/ TermRequested,
                        !.aborted = IF event.aborted THEN @ + 1 ELSE @]
  /\ storeTrajectory' = Restored
  /\ pc' = "next"
  /\ UNCHANGED <<user, file, signal, message, number>>

-----------------------------------------------------------------------------
Init ==
  /\ pc = "idle" /\ storeTrajectory = FALSE /\ asked = FALSE
  /\ keep = {} /\ discard = {} /\ chroma = FALSE
  /\ max_pe \in Limits
  /\ \E skip \in Offsets, n \in Limits :
       file = [current |-> skip, fMaxEvent |-> IF n > 0 THEN n + skip ELSE 0,
               fDS |-> Nothing]
  /\ signal = FALSE
  /\ runs = 0 /\ number = 0
  /\ run = NewRun /\ event = NewEvent
  /\ hits = <<>> /\ message = {} /\ ds = NoDS

Next ==
  \/ StoreTrajectory \/ SwitchChroma \/ Signal
  \/ \E kind \in Named, b \in BOOLEAN : SetStoreParticleTraj(kind, b)
  \/ \E n \in 1 .. MaxEvents : BeginOfRunAction(n)
  \/ NextEvent \/ BeginOfEventAction
  \/ \E t \in event.stack : PreUserTrackingAction(t)
  \/ PhotonStep
  \/ \E then \in {"track", "stopped", "suspended"} : ChargedStep(then)
  \/ PostUserTrackingAction
  \/ EndOfEventAction \/ EndOfRunAction

Spec == Init /\ [][Next]_vars

-----------------------------------------------------------------------------
(* Properties.                                                             *)

Range0(f) == {f[i] : i \in DOMAIN f}

TypeOK ==
  /\ pc \in {"idle", "next", "begin", "stack", "track", "stopped", "suspended"}
  /\ {storeTrajectory, chroma, signal, asked} \subseteq BOOLEAN
  /\ keep \subseteq Kinds /\ discard \subseteq Kinds
  /\ max_pe \in Nat /\ runs \in Nat /\ number \in Nat
  /\ file.current \in Nat /\ file.fMaxEvent \in Nat
  /\ file.fDS \in 0 .. Entries
  /\ event.stack \subseteq DOMAIN event.tracks
  /\ pc \in {"track", "stopped", "suspended"} <=> event.at # Nothing

\* An event has just been given to the processors.
Delivered == ds # NoDS

\* The photons of an event are those that were detected in it, each once: none
\* is left from an event before it, in the hit collection or in the message to
\* Chroma, and none is dropped, unless the event was aborted (BeginOfEvent-
\* Action, DetectPhoton, MakePhotonHitData, MakeEvent).
OwnPhotons ==
  Delivered /\ ~ds.aborted =>
    /\ UNION {p.photons : p \in Range0(ds.pmts)} = event.made
    /\ ds.numPE = Cardinality(event.made)

\* An event lists a PMT once, with its photons and its noise, whether a photon
\* or noise hit it first: the processors look a PMT up by its identifier
\* (MakeEvent's map from identifiers to places).
PmtsOnce ==
  Delivered => \A i, j \in DOMAIN ds.pmts : ds.pmts[i].id = ds.pmts[j].id => i = j

\* The trajectories of an event are those of the particles that the user asks
\* for, in every event of every run, though Gsim sets the flag the user set to
\* something else for each track (PreUserTrackingAction, EndOfEventAction).
\* Each has every step of its track once and in order, also if the track was
\* suspended (MergeTrajectory).
Wanted(kind) == IF asked THEN kind \notin discard ELSE kind \in keep
TracksAsAsked ==
  Delivered /\ ~ds.aborted =>
    ds.tracks = {[id |-> t, steps |-> [i \in 1 .. event.tracks[t].steps + 1 |-> i - 1]] :
                   t \in {t \in DOMAIN event.tracks : Wanted(event.tracks[t].kind)}}

\* An event is aborted, and loses its PMTs, exactly when more photons than
\* max_pe are detected while it is tracked, and EndOfRunAction reports as many
\* events as were aborted, though the limit is looked at after every track.
Tracked == {p \in event.made : event.tracks[p[2]].kind = "opticalphoton"}
AbortedAtLimit ==
  /\ Delivered => /\ ds.aborted <=> /\ run.maxpe > 0
                                     /\ Cardinality(Tracked) > run.maxpe
                  /\ ds.aborted => ds.pmts = <<>>
  /\ pc = "next" => run.nabort = run.aborted

\* A run simulates entries of the file one after the other, none twice and none
\* left out, over events and pile-up; it ends with the last one.
EntriesInOrder ==
  \A i \in 1 .. Len(run.used) - 1 : run.used[i + 1] = run.used[i] + 1

\* After a Ctrl-C a run begins at most one more event.
StopsAfterSignal == run.late <= 1

\* The energy centroid of an event counts every step of its charged tracks
\* once: "the average position of all steps in this event, weighted by the
\* energy lost in that step" (DS/MCSummary.hh).
CentroidCountsOnce ==
  Delivered /\ ~ds.aborted =>
    ds.centroid = FoldSeq(LAMBDA t, n : t.info + n, 0, event.tracks)
=============================================================================
