----------------------------- MODULE RemoteLoop -----------------------------
(***************************************************************************)
(* What the outnet processor promises the event loop it is part of, without *)
(* sockets: each event is given to a remote event loop, and DSEvent returns *)
(* with an event that at least one remote loop has processed, and that no   *)
(* more than a bounded number of them have, or else the client process has *)
(* failed.  A remote loop may process an event late, when the client has    *)
(* long had the answer of another one.                                      *)
(***************************************************************************)
EXTENDS Naturals, Sequences

CONSTANTS Clients, NEvents, MaxServed

VARIABLES
  ev,         \* events each client has submitted
  served,     \* how often each was processed remotely
  got,        \* the events each client has back
  failed      \* clients that gave up

vars == <<ev, served, got, failed>>

Init ==
  /\ ev = [c \in Clients |-> 0]
  /\ served = [ds \in Clients \X (1 .. NEvents) |-> 0]
  /\ got = [c \in Clients |-> <<>>]
  /\ failed = {}

\* DSEvent is called: the previous event is back.
Submit(c) ==
  /\ c \notin failed /\ ev[c] < NEvents /\ Len(got[c]) = ev[c]
  /\ ev' = [ev EXCEPT ![c] = @ + 1]
  /\ UNCHANGED <<served, got, failed>>

Serve(c, e) ==
  /\ e \in 1 .. ev[c] /\ served[<<c, e>>] < MaxServed
  /\ served' = [served EXCEPT ![<<c, e>>] = @ + 1]
  /\ UNCHANGED <<ev, got, failed>>

\* DSEvent returns OK.
Return(c) ==
  /\ c \notin failed /\ ev[c] = Len(got[c]) + 1
  /\ served[<<c, ev[c]>>] >= 1
  /\ got' = [got EXCEPT ![c] = Append(@, <<c, ev[c]>>)]
  /\ UNCHANGED <<ev, served, failed>>

Fail(c) ==
  /\ failed' = failed \cup {c}
  /\ UNCHANGED <<ev, served, got>>

Next ==
  \E c \in Clients :
    \/ Submit(c) \/ Return(c) \/ Fail(c)
    \/ \E e \in 1 .. NEvents : Serve(c, e)

Spec == Init /\ [][Next]_vars
=============================================================================
