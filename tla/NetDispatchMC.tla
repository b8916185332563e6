--------------------------- MODULE NetDispatchMC ---------------------------
(* NetDispatch on a few clients and servers.                               *)
EXTENDS NetDispatch, TLC

CONSTANTS s1, s2

\* mac/client.mac lists the ports of the servers ratserve started.
OneHost == <<s1>>
TwoHosts == <<s1, s2>>

=============================================================================
