------------------------------ MODULE Timeline ------------------------------
(***************************************************************************)
(* What the primary generator's queue amounts to, in absolute time: each    *)
(* generator has a due time that does not change until it fires, an event   *)
(* starts at the earliest due time and takes everything that is due within  *)
(* the window, and what outlives the window becomes due when it stopped.    *)
(***************************************************************************)
EXTENDS Integers

CONSTANTS Gens, Tracks, Gaps, Windows

VARIABLES
  pc,           \* "idle", "fill", "track", or "fatal"
  due,          \* absolute time of each member of the queue
  start,        \* absolute start of the current event
  window,
  needReset     \* the due times of the generators are yet to be drawn

vars == <<pc, due, start, window, needReset>>

Init ==
  /\ pc = "idle" /\ due = [id \in {} |-> 0]
  /\ start = 0 /\ window = 0 /\ needReset = TRUE

\* A generator is added: its due time means nothing yet.
Add(g) ==
  /\ pc = "idle" /\ DOMAIN due' = DOMAIN due \cup {g} /\ needReset'
  /\ \A id \in DOMAIN due : due'[id] = due[id]
  /\ UNCHANGED <<pc, start, window>>

Clear ==
  /\ pc = "idle" /\ DOMAIN due' = {} /\ needReset'
  /\ UNCHANGED <<pc, start, window>>

SetWindow(w) ==
  /\ pc = "idle" /\ window' = w
  /\ UNCHANGED <<pc, due, start, needReset>>

\* The event starts at the earliest due time.
Open ==
  /\ pc = "idle" /\ ~needReset' /\ UNCHANGED window
  /\ \/ /\ DOMAIN due # {} /\ pc' = "fill"
        /\ DOMAIN due' = DOMAIN due
        /\ \A id \in DOMAIN due :
             \/ due'[id] = due[id] /\ (id \in Gens => ~needReset)
             \/ due'[id] - start \in Gaps /\ id \in Gens /\ needReset
        /\ start' \in {due'[id] : id \in DOMAIN due}
        /\ \A id \in DOMAIN due : start' <= due'[id]
     \/ /\ DOMAIN due = {} /\ pc' = "fatal"
        /\ UNCHANGED <<due, start>>

\* Something due in the window becomes part of the event, the earliest first.
Take(id) ==
  /\ pc = "fill" /\ id \in DOMAIN due /\ due[id] <= start + window
  /\ \A x \in DOMAIN due : due[id] <= due[x]
  /\ \/ /\ id \in Gens
        /\ \E gap \in Gaps : due' = [due EXCEPT ![id] = @ + gap]
     \/ /\ id \in Tracks
        /\ due' = [x \in DOMAIN due \ {id} |-> due[x]]
  /\ UNCHANGED <<pc, start, window, needReset>>

Close ==
  /\ pc = "fill" /\ \A id \in DOMAIN due : due[id] > start + window
  /\ pc' = "track"
  /\ UNCHANGED <<due, start, window, needReset>>

\* A track that lives beyond the window is due again when it was stopped.
Postpone(tr) ==
  /\ pc = "track" /\ tr \notin DOMAIN due
  /\ DOMAIN due' = DOMAIN due \cup {tr} /\ due'[tr] >= start + window
  /\ \A id \in DOMAIN due : due'[id] = due[id]
  /\ UNCHANGED <<pc, start, window, needReset>>

End ==
  /\ pc = "track" /\ pc' = "idle"
  /\ UNCHANGED <<due, start, window, needReset>>

Next ==
  \/ \E g \in Gens : Add(g)
  \/ Clear
  \/ \E w \in Windows : SetWindow(w)
  \/ Open
  \/ \E id \in Gens \cup Tracks : Take(id)
  \/ Close
  \/ \E tr \in Tracks : Postpone(tr)
  \/ End

Spec == Init /\ [][Next]_vars
=============================================================================
