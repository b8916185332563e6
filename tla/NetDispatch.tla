---------------------------- MODULE NetDispatch ----------------------------
(***************************************************************************)
(* Farming events out over the network: the outnet processor               *)
(* (io/OutNetProc.cc), one per client process, and the innet producer      *)
(* (io/InNetProducer.cc), one per server process.                          *)
(*                                                                         *)
(* A client works through its events in order.  DSEvent sends the event on *)
(* the current socket, waits for the processed event to come back, and on  *)
(* a failure asks PickServer for another connection and tries again.       *)
(* PickServer connects to every host of the list, reads the header each    *)
(* server sends (its load), keeps the connection with the least load and   *)
(* closes the others.                                                      *)
(*                                                                         *)
(* A server is one loop: accept at most one connection and send it the     *)
(* header, then serve at most one socket that has something to read.       *)
(*                                                                         *)
(* TSocket, TServerSocket and TMonitor are external (ROOT).  A connection  *)
(* is a record: whether each process holds its end open, whether an end    *)
(* has been reset (its next Recv returns -1), and what is in flight in     *)
(* either direction.                                                       *)
(*                                                                         *)
(* A definition named Wrong... is a plausible mistake in the one that       *)
(* follows it; no specification uses it.                                   *)
(***************************************************************************)
EXTENDS Integers, Sequences, FiniteSets, LoadHeader

CONSTANTS
  Clients,      \* client processes
  Foreign,      \* the clients whose DS::Root the servers cannot read
  Servers,      \* host:port pairs
  HostList,     \* fHostlist with its port ranges written out
  NEvents,      \* events each client sends
  Retries,      \* 5 in OutNetProc::DSEvent
  Conns,        \* connection identities; a bound on simultaneous connections
  None,         \* a null TSocket pointer
  MaxFaults     \* bound on failures of the environment

ASSUME NetAssumption ==
  /\ Foreign \subseteq Clients
  /\ HostList \in Seq(Servers)
  /\ NEvents \in Nat /\ Retries \in Nat /\ MaxFaults \in Nat
  /\ None \notin Conns
  /\ IsFiniteSet(Conns) /\ Cardinality(Conns) \in Loads

VARIABLES
  (* client, per process *)
  pc,           \* where the client is
  ev,           \* the event it is working on
  retries,      \* DSEvent's local; -1 is written 0 - 1
  sock,         \* fSocket
  host,         \* PickServer: position in the host list
  probe,        \* PickServer: the connection being tried
  best,         \* PickServer: minLoadSocket
  minLoad,      \* PickServer: minLoad
  (* server, per process *)
  spc,          \* where the server is
  sockets,      \* Listen's list of sockets, also those its TMonitor watches
  backlog,      \* connections the kernel holds for Accept
  job,          \* the socket whose event is being answered
  error,        \* Listen's error flag
  (* network *)
  conn,         \* the connections in use
  faults,       \* failures so far
  (* history *)
  offers,       \* the loads each PickServer has been told so far
  served,       \* how often a DS went through a server's event loop
  got           \* what each client took back for its events, in order

clientVars == <<pc, ev, retries, sock, host, probe, best, minLoad>>
serverVars == <<spc, sockets, backlog, job, error>>
vars == <<clientVars, serverVars, conn, faults, offers, served, got>>

Event == 1 .. NEvents
DS == Clients \X Event          \* the DS::Root of each client and event
Live == DOMAIN conn
Up(s) == spc[s] # "down"

-----------------------------------------------------------------------------
(* The network.                                                            *)

\* A connection just made: it waits in the server's backlog.
NewConn(c, s) ==
  [client |-> c, server |-> s, copen |-> TRUE, sopen |-> TRUE,
   creset |-> FALSE, sreset |-> FALSE, up |-> <<>>, down |-> <<>>]

\* close() by the client: unread data in its buffer turns the close into a
\* reset, which the server's next Recv reports as -1 instead of 0.
ClientClosed(k) ==
  [k EXCEPT !.copen = FALSE, !.sreset = @ \/ k.down # <<>>, !.down = <<>>]

ServerClosed(k) ==
  [k EXCEPT !.sopen = FALSE, !.creset = @ \/ k.up # <<>>, !.up = <<>>]

\* The connections cs after the client, or the server, closed its end of K;
\* one that both processes have closed is forgotten.
Forget(cs) ==
  [k \in {x \in DOMAIN cs : cs[x].copen \/ cs[x].sopen} |-> cs[k]]
CloseClientEnds(cs, K) ==
  Forget([k \in DOMAIN cs |-> IF k \in K THEN ClientClosed(cs[k]) ELSE cs[k]])
CloseServerEnds(cs, K) ==
  Forget([k \in DOMAIN cs |-> IF k \in K THEN ServerClosed(cs[k]) ELSE cs[k]])

\* Which free identity a connection gets does not matter.
Fresh == CHOOSE k \in Conns : k \notin Live

OfClient(c) == {k \in Live : conn[k].client = c}
OfServer(s) == {k \in Live : conn[k].server = s}

\* What the client's Recv on k finds: it blocks until one of these holds.
ClientHasData(k) == ~conn[k].creset /\ conn[k].down # <<>>
ClientSeesEnd(k) ==
  conn[k].creset \/ (~conn[k].sopen /\ conn[k].down = <<>>)

\* A client whose end the network broke has no way to tell the server.
ServerHasData(k) == ~conn[k].sreset /\ conn[k].up # <<>>
ServerSeesClose(k) ==
  /\ ~conn[k].sreset /\ ~conn[k].creset
  /\ ~conn[k].copen /\ conn[k].up = <<>>

-----------------------------------------------------------------------------
(* The client.                                                             *)

\* TMessages from a server: the header, the processed event, or the null
\* object a server sends back when it could not read what it was sent.
Header(load) == [kind |-> "header", load |-> load]
Answer(ds) == [kind |-> "event", ds |-> ds]
NullAnswer == [kind |-> "null"]
NoJob == [sock |-> None, answer |-> NullAnswer]

\* PickServer is called: its locals are set up.
StartPick(c) ==
  /\ pc' = [pc EXCEPT ![c] = "pick"]
  /\ host' = [host EXCEPT ![c] = 1]
  /\ probe' = [probe EXCEPT ![c] = None]
  /\ best' = [best EXCEPT ![c] = None]
  /\ minLoad' = [minLoad EXCEPT ![c] = 0]
  /\ offers' = [offers EXCEPT ![c] = {}]

\* The process ends: the system closes all its connections.
EndClient(c, how) ==
  /\ pc' = [pc EXCEPT ![c] = how]
  /\ conn' = CloseClientEnds(conn, OfClient(c))
  /\ UNCHANGED <<ev, retries, sock, host, probe, best, minLoad, offers>>

\* PickServer, one host and port: Connect() makes the socket.  A server that
\* is down leaves an invalid socket, which Connect reports as null.
Connect(c) ==
  /\ pc[c] = "pick" /\ host[c] <= Len(HostList)
  /\ LET s == HostList[host[c]] IN
     \/ /\ Up(s) /\ Conns \ Live # {}
        /\ conn' = [k \in Live \cup {Fresh} |->
                      IF k = Fresh THEN NewConn(c, s) ELSE conn[k]]
        /\ backlog' = [backlog EXCEPT ![s] = Append(@, Fresh)]
        /\ probe' = [probe EXCEPT ![c] = Fresh]
        /\ pc' = [pc EXCEPT ![c] = "header"]
        /\ UNCHANGED host
     \/ /\ ~Up(s)
        /\ host' = [host EXCEPT ![c] = @ + 1]
        /\ UNCHANGED <<pc, probe, conn, backlog>>
  /\ UNCHANGED <<ev, retries, sock, best, minLoad, spc, sockets, job, error,
                 faults, offers, served, got>>

\* load < minLoad, on the doubles Connect has read out of the two headers.
Less(load, other) ==
  BytesBelow(ReadLoadBytes(HeaderBytes(load)), ReadLoadBytes(HeaderBytes(other)))

\* The connections after the client has received what was waiting on k.
Taken(k) == [conn EXCEPT ![k].down = Tail(@)]

\* The socket PickServer deletes: the one it had found so far, or the new one.
WrongLoser(c, k, better) == IF better THEN best[c] ELSE None
Loser(c, k, better) == IF better THEN best[c] ELSE k

\* Connect's Recv of the header, and what PickServer does with the result.
ReadHeader(c) ==
  /\ pc[c] = "header"
  /\ LET k == probe[c] IN
     \/ /\ ClientHasData(k)
        /\ LET load == Head(conn[k].down).load
               better == best[c] = None \/ Less(load, minLoad[c])
           IN /\ best' = [best EXCEPT ![c] = IF better THEN k ELSE @]
              /\ minLoad' = [minLoad EXCEPT ![c] = IF better THEN load ELSE @]
              /\ conn' = CloseClientEnds(Taken(k), {Loser(c, k, better)})
              /\ offers' = [offers EXCEPT ![c] = @ \cup {load}]
     \/ /\ ClientSeesEnd(k)
        /\ conn' = CloseClientEnds(conn, {k})
        /\ UNCHANGED <<best, minLoad, offers>>
  /\ host' = [host EXCEPT ![c] = @ + 1]
  /\ probe' = [probe EXCEPT ![c] = None]
  /\ pc' = [pc EXCEPT ![c] = "pick"]
  /\ UNCHANGED <<ev, retries, sock, serverVars, faults, served, got>>

\* PickServer has tried every host.  It assigns fSocket without closing the
\* socket it held; with no server found it throws ParamInvalid, which nothing
\* catches.  It was called by SetS (no event yet) or by DSEvent.
PickDone(c) ==
  /\ pc[c] = "pick" /\ host[c] > Len(HostList)
  /\ \/ /\ best[c] # None
        /\ sock' = [sock EXCEPT ![c] = best[c]]
        /\ best' = [best EXCEPT ![c] = None]
        /\ pc' = [pc EXCEPT ![c] = IF ev[c] = 0 THEN "idle" ELSE "send"]
        /\ UNCHANGED <<ev, retries, host, probe, minLoad, conn, offers>>
     \/ best[c] = None /\ EndClient(c, "dead")
  /\ UNCHANGED <<serverVars, faults, served, got>>

\* The event loop hands the next event to DSEvent.
NextEvent(c) ==
  /\ pc[c] = "idle" /\ ev[c] < NEvents
  /\ ev' = [ev EXCEPT ![c] = @ + 1]
  /\ retries' = [retries EXCEPT ![c] = Retries]
  /\ pc' = [pc EXCEPT ![c] = "send"]
  /\ UNCHANGED <<sock, host, probe, best, minLoad, serverVars, conn, faults,
                 offers, served, got>>

\* The run is over and the process exits.
Finish(c) ==
  /\ pc[c] = "idle" /\ ev[c] = NEvents
  /\ EndClient(c, "done")
  /\ UNCHANGED <<serverVars, faults, served, got>>

\* The two uses of DSEvent's counter: whether SendObject is tried, and
\* whether a failed Recv is.
WrongMaySend(c) == retries[c] > 0
MaySend(c) == retries[c] >= 0
MayResend(c) == retries[c] > 0
WrongCounted(c) == retries
Counted(c) == [retries EXCEPT ![c] = @ - 1]

\* The while loop around SendObject, one evaluation of its condition.  The
\* condition fails without sending once the retries are used up.  A send on
\* a connection the server has closed is accepted by the system and lost; the
\* reset it provokes may come back at once or too late for the next Recv.
Send(c) ==
  /\ pc[c] = "send"
  /\ LET k == sock[c] IN
     \/ /\ ~MaySend(c)
        /\ pc' = [pc EXCEPT ![c] = "recv"]
        /\ UNCHANGED <<retries, host, probe, best, minLoad, conn, offers>>
     \/ /\ MaySend(c) /\ conn[k].creset
        /\ retries' = Counted(c)
        /\ StartPick(c)
        /\ UNCHANGED conn
     \/ /\ MaySend(c) /\ ~conn[k].creset
        /\ \E reset \in BOOLEAN :
             /\ reset => ~conn[k].sopen
             /\ conn' = [conn EXCEPT ![k].creset = reset,
                                     ![k].up = IF conn[k].sopen /\ ~conn[k].sreset
                                               THEN Append(@, <<c, ev[c]>>) ELSE @]
        /\ pc' = [pc EXCEPT ![c] = "recv"]
        /\ UNCHANGED <<retries, host, probe, best, minLoad, offers>>
  /\ UNCHANGED <<ev, sock, serverVars, faults, served, got>>

\* Recv of the processed event: replace the client's copy, reconnect and send
\* again, or give up with Log::Die.
Recv(c) ==
  /\ pc[c] = "recv"
  /\ LET k == sock[c] IN
     \/ /\ ClientHasData(k) /\ Head(conn[k].down).kind = "event"
        /\ got' = [got EXCEPT ![c] = Append(@, Head(conn[k].down).ds)]
        /\ conn' = Taken(k)
        /\ pc' = [pc EXCEPT ![c] = "idle"]
        /\ UNCHANGED <<ev, retries, sock, host, probe, best, minLoad, offers>>
     \/ /\ ClientHasData(k) /\ Head(conn[k].down).kind # "event"
        /\ EndClient(c, "dead")
        /\ UNCHANGED got
     \/ /\ ClientSeesEnd(k) /\ MayResend(c)
        /\ retries' = Counted(c)
        /\ StartPick(c)
        /\ UNCHANGED <<ev, sock, conn, got>>
     \/ /\ ClientSeesEnd(k) /\ ~MayResend(c)
        /\ EndClient(c, "dead")
        /\ UNCHANGED got
  /\ UNCHANGED <<serverVars, faults, served>>

ClientStep(c) ==
  \/ Connect(c) \/ ReadHeader(c) \/ PickDone(c)
  \/ NextEvent(c) \/ Finish(c) \/ Send(c) \/ Recv(c)

-----------------------------------------------------------------------------
(* The server.                                                             *)

\* A message sent by the server on k: it is lost, and may provoke a reset,
\* when the client's end is gone.
Down(k, m) ==
  \E reset \in BOOLEAN :
    /\ reset => ~conn[k].copen
    /\ conn' = [conn EXCEPT ![k].sreset = reset,
                            ![k].down = IF conn[k].copen /\ ~conn[k].creset
                                        THEN Append(@, m) ELSE @]

\* "Use number of clients as our load measure".
WrongLoad(s) == Cardinality(sockets[s]) - 1
Load(s) == Cardinality(sockets[s])

\* The loop head and srv->Accept(): with a connection waiting, the header is
\* sent to it.
Accept(s) ==
  /\ spc[s] = "accept" /\ ~error[s]
  /\ \/ /\ backlog[s] = <<>>
        /\ UNCHANGED <<sockets, backlog, conn>>
     \/ /\ backlog[s] # <<>>
        /\ backlog' = [backlog EXCEPT ![s] = Tail(@)]
        /\ LET k == Head(backlog[s]) IN
           \/ /\ conn[k].sreset
              /\ conn' = CloseServerEnds(conn, {k})
              /\ UNCHANGED sockets
           \/ /\ ~conn[k].sreset
              /\ Down(k, Header(Load(s)))
              /\ sockets' = [sockets EXCEPT ![s] = @ \cup {k}]
  /\ spc' = [spc EXCEPT ![s] = "select"]
  /\ UNCHANGED <<clientVars, job, error, faults, offers, served, got>>

ServerReady(k) == conn[k].sreset \/ ServerHasData(k) \/ ServerSeesClose(k)

\* ReadObject yields a DS::Root, or 0 for the clients of another version.
Readable(ds) == ds[1] \notin Foreign
WrongResult(ds) == Answer(ds)
Result(ds) == IF Readable(ds) THEN Answer(ds) ELSE NullAnswer

\* The sockets and connections after the client of k has disconnected.
WrongDisconnected(s, k) == [sockets |-> sockets, conn |-> conn]
Disconnected(s, k) ==
  [sockets |-> [sockets EXCEPT ![s] = @ \ {k}],
   conn |-> CloseServerEnds(conn, {k})]

\* monitor.Select returns a socket with something to read, or none after
\* 50 ms; Recv, and for an event the server's own event loop.
Select(s) ==
  /\ spc[s] = "select"
  /\ \/ /\ \A k \in sockets[s] : ~ServerReady(k)
        /\ spc' = [spc EXCEPT ![s] = "accept"]
        /\ UNCHANGED <<sockets, job, error, conn, served>>
     \/ \E k \in sockets[s] :
          \/ /\ ServerSeesClose(k)
             /\ sockets' = Disconnected(s, k).sockets
             /\ conn' = Disconnected(s, k).conn
             /\ spc' = [spc EXCEPT ![s] = "accept"]
             /\ UNCHANGED <<job, error, served>>
          \/ /\ conn[k].sreset
             /\ error' = [error EXCEPT ![s] = TRUE]
             /\ spc' = [spc EXCEPT ![s] = "accept"]
             /\ UNCHANGED <<sockets, job, conn, served>>
          \/ /\ ServerHasData(k)
             /\ LET ds == Head(conn[k].up) IN
                /\ job' = [job EXCEPT ![s] = [sock |-> k, answer |-> Result(ds)]]
                /\ error' = [error EXCEPT ![s] = ~Readable(ds)]
                /\ served' = [served EXCEPT ![ds] =
                                IF Readable(ds) THEN @ + 1 ELSE @]
             /\ conn' = [conn EXCEPT ![k].up = Tail(@)]
             /\ spc' = [spc EXCEPT ![s] = "reply"]
             /\ UNCHANGED sockets
  /\ UNCHANGED <<clientVars, backlog, faults, offers, got>>

\* sockWithData: the socket the event came from.
WrongJobSocket(s) == CHOOSE k \in sockets[s] : TRUE
JobSocket(s) == job[s].sock

\* SendObject of the processed event, also when there is none; a connection
\* that cannot be written to is closed and dropped from the list.
Reply(s) ==
  /\ spc[s] = "reply"
  /\ LET k == JobSocket(s) IN
     \/ /\ conn[k].sreset
        /\ sockets' = [sockets EXCEPT ![s] = @ \ {k}]
        /\ conn' = CloseServerEnds(conn, {k})
     \/ /\ ~conn[k].sreset
        /\ Down(k, job[s].answer)
        /\ UNCHANGED sockets
  /\ spc' = [spc EXCEPT ![s] = "accept"]
  /\ job' = [job EXCEPT ![s] = NoJob]
  /\ UNCHANGED <<clientVars, backlog, error, faults, offers, served, got>>

\* The server process is gone, and every connection it held with it.
EndServer(s) ==
  /\ spc' = [spc EXCEPT ![s] = "down"]
  /\ sockets' = [sockets EXCEPT ![s] = {}]
  /\ backlog' = [backlog EXCEPT ![s] = <<>>]
  /\ job' = [job EXCEPT ![s] = NoJob]
  /\ error' = [error EXCEPT ![s] = FALSE]
  /\ conn' = CloseServerEnds(conn, OfServer(s))

\* Listen returns false and Log::Die ends the process.
StopOnError(s) ==
  /\ spc[s] = "accept" /\ error[s]
  /\ EndServer(s)
  /\ UNCHANGED <<clientVars, faults, offers, served, got>>

ServerStep(s) == Accept(s) \/ Select(s) \/ Reply(s) \/ StopOnError(s)

-----------------------------------------------------------------------------
(* The environment: at most MaxFaults of the following.                    *)

Fault == faults < MaxFaults /\ faults' = faults + 1

\* A client process is killed.
KillClient(c) ==
  /\ Fault /\ pc[c] \notin {"done", "dead"}
  /\ EndClient(c, "dead")
  /\ UNCHANGED <<serverVars, served, got>>

\* A server process is killed: at any point of its loop.
KillServer(s) ==
  /\ Fault /\ Up(s)
  /\ EndServer(s)
  /\ UNCHANGED <<clientVars, offers, served, got>>

\* Ctrl-C: the loop condition sees it at the head of the loop only.
InterruptServer(s) ==
  /\ Fault /\ spc[s] = "accept"
  /\ EndServer(s)
  /\ UNCHANGED <<clientVars, offers, served, got>>

\* Accept returns 0: the listening socket failed.
AcceptFails(s) ==
  /\ Fault /\ spc[s] = "accept" /\ ~error[s]
  /\ error' = [error EXCEPT ![s] = TRUE]
  /\ UNCHANGED <<clientVars, spc, sockets, backlog, job, conn, offers, served, got>>

\* Somebody starts the server again.
StartServer(s) ==
  /\ Fault /\ ~Up(s)
  /\ spc' = [spc EXCEPT ![s] = "accept"]
  /\ UNCHANGED <<clientVars, sockets, backlog, job, error, conn, offers, served, got>>

\* The network breaks one end of a connection.
BreakClientEnd(k) ==
  /\ Fault /\ conn[k].copen /\ ~conn[k].creset
  /\ conn' = [conn EXCEPT ![k].creset = TRUE, ![k].down = <<>>]
  /\ UNCHANGED <<clientVars, serverVars, offers, served, got>>

BreakServerEnd(k) ==
  /\ Fault /\ conn[k].sopen /\ ~conn[k].sreset
  /\ conn' = [conn EXCEPT ![k].sreset = TRUE, ![k].up = <<>>]
  /\ UNCHANGED <<clientVars, serverVars, offers, served, got>>

Environment ==
  \/ \E c \in Clients : KillClient(c)
  \/ \E s \in Servers : KillServer(s) \/ InterruptServer(s)
                          \/ AcceptFails(s) \/ StartServer(s)
  \/ \E k \in Live : BreakClientEnd(k) \/ BreakServerEnd(k)

-----------------------------------------------------------------------------
\* A client is created by /rat/proc and calls PickServer from /rat/procset
\* host; the servers are already listening.
Init ==
  /\ pc = [c \in Clients |-> "pick"]
  /\ ev = [c \in Clients |-> 0]
  /\ retries = [c \in Clients |-> 0]
  /\ sock = [c \in Clients |-> None]
  /\ host = [c \in Clients |-> 1]
  /\ probe = [c \in Clients |-> None]
  /\ best = [c \in Clients |-> None]
  /\ minLoad = [c \in Clients |-> 0]
  /\ spc = [s \in Servers |-> "accept"]
  /\ sockets = [s \in Servers |-> {}]
  /\ backlog = [s \in Servers |-> <<>>]
  /\ job = [s \in Servers |-> NoJob]
  /\ error = [s \in Servers |-> FALSE]
  /\ conn = [k \in {} |-> NewConn(k, k)]
  /\ faults = 0
  /\ offers = [c \in Clients |-> {}]
  /\ served = [ds \in DS |-> 0]
  /\ got = [c \in Clients |-> <<>>]

Next ==
  \/ \E c \in Clients : ClientStep(c)
  \/ \E s \in Servers : ServerStep(s)
  \/ Environment

Spec == Init /\ [][Next]_vars

\* Both programs are single loops that the system keeps running; nobody
\* owes a fault or a restart.  Select's choice among ready sockets is left
\* free: a finite number of events cannot starve a socket for ever.
FairSpec ==
  /\ Spec
  /\ \A c \in Clients : WF_vars(ClientStep(c))
  /\ \A s \in Servers : WF_vars(ServerStep(s))

-----------------------------------------------------------------------------
(* Properties.                                                             *)

Message == [kind : {"header"}, load : Loads] \cup [kind : {"event"}, ds : DS]
             \cup {NullAnswer}
Connection ==
  [client : Clients, server : Servers, copen : BOOLEAN, sopen : BOOLEAN,
   creset : BOOLEAN, sreset : BOOLEAN, up : Seq(DS), down : Seq(Message)]

\* Type invariant of both processors and of the connections between them.
TypeOK ==
  /\ pc \in [Clients -> {"pick", "header", "idle", "send", "recv", "done",
                         "dead"}]
  /\ ev \in [Clients -> 0 .. NEvents]
  /\ retries \in [Clients -> (0 - 1) .. Retries]
  /\ sock \in [Clients -> Conns \cup {None}]
  /\ host \in [Clients -> 1 .. Len(HostList) + 1]
  /\ probe \in [Clients -> Conns \cup {None}]
  /\ best \in [Clients -> Conns \cup {None}]
  /\ minLoad \in [Clients -> Loads]
  /\ spc \in [Servers -> {"accept", "select", "reply", "down"}]
  /\ sockets \in [Servers -> SUBSET Conns]
  /\ backlog \in [Servers -> Seq(Conns)]
  /\ job \in [Servers -> [sock : Conns \cup {None}, answer : Message]]
  /\ error \in [Servers -> BOOLEAN]
  /\ Live \subseteq Conns
  /\ conn \in [Live -> Connection]
  /\ faults \in 0 .. MaxFaults
  /\ offers \in [Clients -> SUBSET Loads]
  /\ served \in [DS -> Nat]
  /\ got \in [Clients -> Seq(DS)]

\* An event the server of k has read from it and not answered yet.
InJob(k) == \E s \in Servers : job[s].sock = k

\* What a client waiting in DSEvent is about to take for its event is the
\* answer to that event: an answer to an attempt it gave up on, or to an
\* earlier event, never reaches it.
AnswerIsForEvent ==
  \A c \in Clients : pc[c] = "recv" /\ ClientHasData(sock[c]) =>
    Head(conn[sock[c]].down) =
      IF c \in Foreign THEN NullAnswer ELSE Answer(<<c, ev[c]>>)

\* Requests and answers on one connection alternate: at most one message is
\* under way on it, in either direction or inside the server, so the blocking
\* sends of the two loops cannot fill the buffers against each other.
OneInFlight ==
  \A k \in Live :
    Len(conn[k].up) + Len(conn[k].down) + (IF InJob(k) THEN 1 ELSE 0) <= 1

\* The client takes back every event once, in order, and only after some
\* server's event loop has processed it, whatever failed on the way.
TakenWasServed ==
  \A c \in Clients : \A i \in 1 .. Len(got[c]) :
    got[c][i] = <<c, i>> /\ served[<<c, i>>] >= 1

\* A socket PickServer leaves behind, or fails to close, is never a working
\* connection: it would be counted in its server's load for good.
AbandonedIsBroken ==
  \A k \in Live :
    LET c == conn[k].client IN
    conn[k].copen /\ k \notin {sock[c], probe[c], best[c]}
      => conn[k].creset \/ ~conn[k].sopen

\* Although what Connect reads out of a header is not the load that was put
\* into it, the connection PickServer is about to settle on is one with the
\* least load of those it was offered.
PicksLeastLoaded ==
  \A c \in Clients : \A load \in offers[c] :
    pc[c] \in {"pick", "header"} => minLoad[c] <= load

\* Every client gets through all its events or dies; it does not wait for
\* ever.
Completes == \A c \in Clients : <>(pc[c] \in {"done", "dead"})

\* A server drops every connection its client has closed, so that its load
\* goes down again.
LoadSettles ==
  <>[](\A s \in Servers : \A k \in sockets[s] :
          Up(s) => conn[k].copen \/ conn[k].creset)

\* The processor keeps the promise of RemoteLoop: every step of the sockets,
\* servers and failures is a step of that specification or changes nothing
\* it can see.
Remote == INSTANCE RemoteLoop WITH
            MaxServed <- Retries + 1,
            failed <- {c \in Clients : pc[c] = "dead"}
ImplementsRemoteLoop == Remote!Spec

-----------------------------------------------------------------------------
(* What documentation and comments say, and the code does not do.          *)

\* OutNetProc.cc "Get event back after processing": a client that waits for
\* an event on a connection that works has sent the event there.
AwaitsSentEvent ==
  \A c \in Clients :
    LET k == sock[c] IN
    pc[c] = "recv" /\ ~conn[k].creset /\ conn[k].sopen /\ ~conn[k].sreset
      => conn[k].up # <<>> \/ InJob(k) \/ conn[k].down # <<>>
=============================================================================
