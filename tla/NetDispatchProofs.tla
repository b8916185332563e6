------------------------- MODULE NetDispatchProofs -------------------------
(***************************************************************************)
(* Proofs about NetDispatch, for any clients, servers, host lists, numbers *)
(* of events, retries and failures: the types, that one message at a time  *)
(* is under way on a connection, that a client takes only the answer to    *)
(* the event it works on, that what it takes was processed, that it leaves *)
(* no working connection behind, that it settles on a least loaded server, *)
(* and that all this implements RemoteLoop.                                *)
(***************************************************************************)
EXTENDS NetDispatch, FiniteSetTheorems, SequenceTheorems, TLAPS

-----------------------------------------------------------------------------
(* The inductive invariant.                                                *)

\* The client c has its end of k open.
Own(c, k) == k \in Live /\ conn[k].client = c /\ conn[k].copen

\* The server has not accepted k yet.
Queued(k) == \E s \in Servers : \E i \in 1 .. Len(backlog[s]) : backlog[s][i] = k

\* Nothing is under way on k, and nothing will be until the client sends.
Quiet(k) ==
  Own(conn[k].client, k) /\ conn[k].up = <<>> /\ conn[k].down = <<>>
    /\ ~InJob(k) /\ ~Queued(k)

\* What a client knows of its connections: of the one whose header it waits
\* for, the best one so far, and the one it works with.
Probing(c) ==
  pc[c] = "header" =>
    LET k == probe[c] IN
    /\ host[c] <= Len(HostList)
    /\ Own(c, k) /\ k # best[c] /\ conn[k].up = <<>> /\ ~InJob(k)
    /\ \A i \in 1 .. Len(conn[k].down) : conn[k].down[i].kind = "header"
Chosen(c) ==
  /\ pc[c] \in {"pick", "header"} /\ best[c] # None =>
       Own(c, best[c]) /\ Quiet(best[c])
  /\ pc[c] \in {"idle", "send"} => Own(c, sock[c]) /\ Quiet(sock[c])
Waiting(c) ==
  pc[c] = "recv" =>
    LET k == sock[c] IN
    /\ Own(c, k) /\ ~Queued(k)
    /\ \A i \in 1 .. Len(conn[k].up) : conn[k].up[i] = <<c, ev[c]>>
    /\ \A s \in Servers : job[s].sock = k => job[s].answer = Result(<<c, ev[c]>>)
    /\ \A i \in 1 .. Len(conn[k].down) : conn[k].down[i] = Result(<<c, ev[c]>>)

\* How far a client is with its events.
Progress(c) ==
  /\ pc[c] = "idle" => Len(got[c]) = ev[c]
  /\ pc[c] \in {"send", "recv"} => Len(got[c]) = ev[c] - 1
  /\ pc[c] \in {"pick", "header"} => Len(got[c]) = IF ev[c] = 0 THEN 0 ELSE ev[c] - 1
  /\ \A i \in 1 .. Len(got[c]) : got[c][i] = <<c, i>> /\ served[<<c, i>>] >= 1

\* The connections of a server: those that it has not accepted, the accepted
\* ones, and the one that it owes an answer.
Backlog(s) ==
  /\ \A i \in 1 .. Len(backlog[s]) :
       LET k == backlog[s][i] IN
       /\ k \in Live /\ conn[k].server = s /\ conn[k].sopen /\ k \notin sockets[s]
       /\ conn[k].up = <<>> /\ conn[k].down = <<>>
  /\ \A i, j \in 1 .. Len(backlog[s]) : backlog[s][i] = backlog[s][j] => i = j
Accepted(s) ==
  /\ IsFiniteSet(sockets[s])
  /\ \A k \in sockets[s] : k \in Live /\ conn[k].server = s /\ conn[k].sopen
Answering(s) ==
  /\ spc[s] = "reply" => job[s].sock \in sockets[s]
  /\ spc[s] # "reply" => job[s] = NoJob
  /\ job[s].answer.kind = "event" => served[job[s].answer.ds] >= 1

\* The messages of a connection.
Flight(k) ==
  /\ Len(conn[k].up) + Len(conn[k].down) <= 1
  /\ InJob(k) => conn[k].up = <<>> /\ conn[k].down = <<>>
  /\ \A i \in 1 .. Len(conn[k].down) :
       conn[k].down[i].kind = "event" => served[conn[k].down[i].ds] >= 1

ClientOk(c) == Probing(c) /\ Chosen(c) /\ Waiting(c) /\ Progress(c)

IInv ==
  /\ TypeOK
  /\ \A c \in Clients : ClientOk(c)
  /\ \A s \in Servers : Backlog(s) /\ Accepted(s) /\ Answering(s)
  /\ \A k \in Live : Flight(k)

-----------------------------------------------------------------------------
(* Messages and connections.                                               *)

\* What the kinds of messages carry.
LEMMA MessageFacts ==
  /\ NullAnswer \in Message /\ NullAnswer.kind = "null"
  /\ \A load \in Loads : Header(load) \in Message /\ Header(load).kind = "header"
  /\ \A ds \in DS : /\ Result(ds) \in Message
                    /\ Result(ds).kind # "header"
                    /\ Result(ds).kind = "event" => Result(ds).ds = ds /\ Readable(ds)
  /\ \A m \in Message : /\ m.kind = "header" => m.load \in Loads
                        /\ m.kind = "event" => m.ds \in DS
  /\ NoJob.sock = None /\ NoJob.answer = NullAnswer
<1>1. NullAnswer \in Message /\ NullAnswer.kind = "null"
  BY DEF NullAnswer, Message
<1>2. \A load \in Loads : Header(load) \in Message /\ Header(load).kind = "header"
  BY DEF Header, Message
<1>3. \A ds \in DS : /\ Answer(ds) \in Message /\ Answer(ds).kind = "event"
                     /\ Answer(ds).ds = ds
  BY DEF Answer, Message
<1>4. \A m \in Message : /\ m.kind = "header" => m.load \in Loads
                         /\ m.kind = "event" => m.ds \in DS
  BY DEF NullAnswer, Message
<1>5. NoJob.sock = None /\ NoJob.answer = NullAnswer
  BY DEF NoJob
<1> QED BY <1>1, <1>2, <1>3, <1>4, <1>5 DEF Result

ConnFields ==
  {"client", "server", "copen", "sopen", "creset", "sreset", "up", "down"}

\* A record of connections, field by field.
LEMMA ConnectionFacts ==
  ASSUME NEW k
  PROVE  /\ k \in Connection =>
              /\ DOMAIN k = ConnFields
              /\ k.client \in Clients /\ k.server \in Servers
              /\ k.copen \in BOOLEAN /\ k.sopen \in BOOLEAN
              /\ k.creset \in BOOLEAN /\ k.sreset \in BOOLEAN
              /\ k.up \in Seq(DS) /\ k.down \in Seq(Message)
BY DEF Connection, ConnFields

\* What closing an end makes of a connection.
LEMMA ClosedFacts ==
  ASSUME NEW k \in Connection
  PROVE  /\ ClientClosed(k) \in Connection /\ ServerClosed(k) \in Connection
         /\ ClientClosed(k).client = k.client /\ ClientClosed(k).server = k.server
         /\ ~ClientClosed(k).copen /\ ClientClosed(k).sopen = k.sopen
         /\ ClientClosed(k).up = k.up /\ ClientClosed(k).down = <<>>
         /\ ClientClosed(k).creset = k.creset
         /\ ServerClosed(k).client = k.client /\ ServerClosed(k).server = k.server
         /\ ~ServerClosed(k).sopen /\ ServerClosed(k).copen = k.copen
         /\ ServerClosed(k).down = k.down /\ ServerClosed(k).up = <<>>
<1>1. /\ k.sreset \in BOOLEAN /\ k.creset \in BOOLEAN
      /\ k.up \in Seq(DS) /\ k.down \in Seq(Message)
  BY ConnectionFacts
<1> DEFINE sreset == k.sreset \/ k.down # <<>>
           creset == k.creset \/ k.up # <<>>
<1>2. sreset \in BOOLEAN /\ creset \in BOOLEAN
  OBVIOUS
<1>3. <<>> \in Seq(DS) /\ <<>> \in Seq(Message)
  OBVIOUS
<1>4. /\ ClientClosed(k) = [k EXCEPT !.copen = FALSE, !.sreset = sreset, !.down = <<>>]
      /\ ServerClosed(k) = [k EXCEPT !.sopen = FALSE, !.creset = creset, !.up = <<>>]
  BY DEF ClientClosed, ServerClosed, Connection
<1> HIDE DEF sreset, creset
<1>5. FALSE \in BOOLEAN
  OBVIOUS
<1>6. ClientClosed(k) \in Connection /\ ServerClosed(k) \in Connection
  BY <1>2, <1>3, <1>4, <1>5 DEF Connection
<1> QED BY <1>4, <1>6 DEF Connection

\* The connections after some of their ends were closed.
LEMMA CloseClientFacts ==
  ASSUME NEW D \in SUBSET Conns, NEW cs \in [D -> Connection], NEW K,
         NEW now, now = CloseClientEnds(cs, K)
  PROVE  /\ DOMAIN now \subseteq D /\ now \in [DOMAIN now -> Connection]
         /\ \A k \in D : k \in DOMAIN now <=> cs[k].sopen \/ (cs[k].copen /\ k \notin K)
         /\ \A k \in DOMAIN now : now[k] = IF k \in K THEN ClientClosed(cs[k]) ELSE cs[k]
<1> DEFINE all == [k \in D |-> IF k \in K THEN ClientClosed(cs[k]) ELSE cs[k]]
           left == {k \in D : all[k].copen \/ all[k].sopen}
           kept == [k \in left |-> all[k]]
<1>1. now = kept
  BY DEF CloseClientEnds, Forget
<1>2. \A k \in D : /\ cs[k] \in Connection
                   /\ cs[k].copen \in BOOLEAN /\ cs[k].sopen \in BOOLEAN
  BY ConnectionFacts
<1>3. ASSUME NEW k \in D
      PROVE  /\ all[k] \in Connection
             /\ all[k].copen \/ all[k].sopen <=> cs[k].sopen \/ (cs[k].copen /\ k \notin K)
  <2>1. CASE k \in K
    BY <1>2, <2>1, ClosedFacts
  <2>2. CASE k \notin K
    BY <1>2, <2>2
  <2> QED BY <2>1, <2>2
<1>4. DOMAIN kept = left /\ left \subseteq D /\ \A k \in left : kept[k] = all[k]
  OBVIOUS
<1>5. kept \in [left -> Connection]
  BY <1>3
<1>6. \A k \in D : k \in left <=> cs[k].sopen \/ (cs[k].copen /\ k \notin K)
  BY <1>3
<1> QED BY <1>1, <1>4, <1>5, <1>6

\* What is left of the connections cs, over D, when servers close the ends in K.
ServerEndsClosed(D, cs, K, now) ==
  /\ DOMAIN now \subseteq D /\ now \in [DOMAIN now -> Connection]
  /\ \A k \in D : k \in DOMAIN now <=> cs[k].copen \/ (cs[k].sopen /\ k \notin K)
  /\ \A k \in DOMAIN now : now[k] = IF k \in K THEN ServerClosed(cs[k]) ELSE cs[k]
\* The same for the ends that servers close.
LEMMA CloseServerFacts ==
  ASSUME NEW D \in SUBSET Conns, NEW cs \in [D -> Connection], NEW K,
         NEW now, now = CloseServerEnds(cs, K)
  PROVE  ServerEndsClosed(D, cs, K, now)
<1> DEFINE all == [k \in D |-> IF k \in K THEN ServerClosed(cs[k]) ELSE cs[k]]
           left == {k \in D : all[k].copen \/ all[k].sopen}
           kept == [k \in left |-> all[k]]
<1>1. now = kept
  BY DEF CloseServerEnds, Forget
<1>2. \A k \in D : /\ cs[k] \in Connection
                   /\ cs[k].copen \in BOOLEAN /\ cs[k].sopen \in BOOLEAN
  BY ConnectionFacts
<1>3. ASSUME NEW k \in D
      PROVE  /\ all[k] \in Connection
             /\ all[k].copen \/ all[k].sopen <=> cs[k].copen \/ (cs[k].sopen /\ k \notin K)
  <2>1. CASE k \in K
    BY <1>2, <2>1, ClosedFacts
  <2>2. CASE k \notin K
    BY <1>2, <2>2
  <2> QED BY <2>1, <2>2
<1>4. DOMAIN kept = left /\ left \subseteq D /\ \A k \in left : kept[k] = all[k]
  OBVIOUS
<1>5. kept \in [left -> Connection]
  BY <1>3
<1>6. \A k \in D : k \in left <=> cs[k].copen \/ (cs[k].sopen /\ k \notin K)
  BY <1>3
<1> QED BY <1>1, <1>4, <1>5, <1>6 DEF ServerEndsClosed

-----------------------------------------------------------------------------
(* What a step leaves as it was.                                           *)

\* A step loses messages of k, or leaves them, and starts nothing new on k.
Fewer(k) ==
  /\ conn'[k].up \in {conn[k].up, <<>>} /\ conn'[k].down \in {conn[k].down, <<>>}
  /\ \A s \in Servers : job'[s].sock = k => job'[s] = job[s]

\* Nobody unlearns that an event was processed.
ServedGrows == \A ds \in DS : served'[ds] \in Nat /\ served'[ds] >= served[ds]

\* A step that leaves the variables of c alone.
ClientSame(c) ==
  /\ pc'[c] = pc[c] /\ ev'[c] = ev[c] /\ sock'[c] = sock[c] /\ probe'[c] = probe[c]
  /\ best'[c] = best[c] /\ host'[c] = host[c] /\ got'[c] = got[c]

\* The progress of a client that a step leaves alone.
LEMMA ProgressKeeps ==
  ASSUME TypeOK, NEW c \in Clients, Progress(c), ClientSame(c), ServedGrows
  PROVE  Progress(c)'
<1>1. \A i \in 1 .. Len(got[c]) : got[c][i] = <<c, i>> /\ served'[<<c, i>>] >= 1
  <2> SUFFICES ASSUME NEW i \in 1 .. Len(got[c])
               PROVE  got[c][i] = <<c, i>> /\ served'[<<c, i>>] >= 1
    OBVIOUS
  <2>1. got[c][i] = <<c, i>> /\ served[<<c, i>>] >= 1
    BY DEF Progress
  <2>2. got[c] \in Seq(DS)
    BY DEF TypeOK
  <2>3. <<c, i>> \in DS
    BY <2>1, <2>2
  <2>4. /\ served[<<c, i>>] \in Nat /\ served'[<<c, i>>] \in Nat
        /\ served'[<<c, i>>] >= served[<<c, i>>]
    BY <2>3 DEF TypeOK, ServedGrows
  <2>5. served'[<<c, i>>] >= 1
    BY <2>1, <2>4
  <2> QED BY <2>1, <2>5
<1> QED BY <1>1 DEF Progress, ClientSame

\* The connections that the invariant of a client speaks of.
Knows(c, k) ==
  \/ pc[c] = "header" /\ k = probe[c]
  \/ pc[c] \in {"pick", "header"} /\ k = best[c]
  \/ pc[c] \in {"idle", "send", "recv"} /\ k = sock[c]

\* What is known of a client stays true when its own variables stay and its
\* connections lose messages at most.
LEMMA ClientKeeps ==
  ASSUME TypeOK, NEW c \in Clients, ClientOk(c), ClientSame(c), ServedGrows,
         \A k \in Live : Own(c, k) /\ Knows(c, k) =>
           Own(c, k)' /\ Fewer(k) /\ (Queued(k)' => Queued(k))
  PROVE  ClientOk(c)'
<1>1. \A k : Own(c, k) /\ Knows(c, k) => Own(c, k)' /\ Fewer(k) /\ (Queued(k)' => Queued(k))
  BY DEF Own
<1>2. \A k : Own(c, k) /\ Knows(c, k) => (InJob(k)' => InJob(k))
  BY <1>1 DEF Fewer, InJob
<1>3. Probing(c)'
  <2>1. CASE pc[c] = "header"
    <3>1. PICK k : k = probe[c] /\ k = probe'[c]
      BY DEF ClientSame
    <3>2. /\ host[c] <= Len(HostList)
          /\ Own(c, k) /\ k # best[c] /\ conn[k].up = <<>> /\ ~InJob(k)
          /\ \A i \in 1 .. Len(conn[k].down) : conn[k].down[i].kind = "header"
      BY <2>1, <3>1 DEF ClientOk, Probing
    <3>3. Own(c, k)' /\ Fewer(k) /\ ~InJob(k)'
      BY <1>1, <1>2, <2>1, <3>1, <3>2 DEF Knows
    <3>4. /\ conn'[k].up = <<>>
          /\ \A i \in 1 .. Len(conn'[k].down) : conn'[k].down[i].kind = "header"
      BY <3>2, <3>3 DEF Fewer
    <3> QED BY <3>1, <3>2, <3>3, <3>4 DEF Probing, ClientSame
  <2>2. CASE pc[c] # "header"
    BY <2>2 DEF Probing, ClientSame
  <2> QED BY <2>1, <2>2
<1>4. ASSUME NEW k, Own(c, k), Quiet(k), Knows(c, k)
      PROVE  (Own(c, k) /\ Quiet(k))'
  <2>1. Own(c, k)' /\ Fewer(k) /\ ~InJob(k)' /\ ~Queued(k)'
    BY <1>1, <1>2, <1>4 DEF Quiet
  <2>2. conn'[k].client = c
    BY <2>1 DEF Own
  <2> QED BY <1>4, <2>1, <2>2 DEF Quiet, Fewer
<1>5. Chosen(c)'
  <2>1. CASE pc[c] \in {"pick", "header"} /\ best[c] # None
    <3>1. PICK k : k = best[c] /\ k = best'[c]
      BY DEF ClientSame
    <3>2. (Own(c, k) /\ Quiet(k))'
      BY <1>4, <2>1, <3>1 DEF ClientOk, Chosen, Knows
    <3> QED BY <2>1, <3>1, <3>2 DEF Chosen, ClientSame
  <2>2. CASE pc[c] \in {"idle", "send"}
    <3>1. PICK k : k = sock[c] /\ k = sock'[c]
      BY DEF ClientSame
    <3>2. (Own(c, k) /\ Quiet(k))'
      BY <1>4, <2>2, <3>1 DEF ClientOk, Chosen, Knows
    <3> QED BY <2>2, <3>1, <3>2 DEF Chosen, ClientSame
  <2> QED BY <2>1, <2>2 DEF Chosen, ClientSame
<1>6. Waiting(c)'
  <2>1. CASE pc[c] = "recv"
    <3>1. PICK k : k = sock[c] /\ k = sock'[c]
      BY DEF ClientSame
    <3>2. PICK ds : ds = <<c, ev[c]>> /\ ds = <<c, ev'[c]>>
      BY DEF ClientSame
    <3>3. /\ Own(c, k) /\ ~Queued(k)
          /\ \A i \in 1 .. Len(conn[k].up) : conn[k].up[i] = ds
          /\ \A s \in Servers : job[s].sock = k => job[s].answer = Result(ds)
          /\ \A i \in 1 .. Len(conn[k].down) : conn[k].down[i] = Result(ds)
      BY <2>1, <3>1, <3>2 DEF ClientOk, Waiting
    <3>4. Own(c, k)' /\ Fewer(k) /\ ~Queued(k)'
      BY <1>1, <2>1, <3>1, <3>3 DEF Knows
    <3>5. /\ \A i \in 1 .. Len(conn'[k].up) : conn'[k].up[i] = ds
          /\ \A i \in 1 .. Len(conn'[k].down) : conn'[k].down[i] = Result(ds)
      BY <3>3, <3>4 DEF Fewer
    <3>6. \A s \in Servers : job'[s].sock = k => job'[s].answer = Result(ds)
      BY <3>3, <3>4 DEF Fewer
    <3> QED BY <3>1, <3>2, <3>4, <3>5, <3>6 DEF Waiting
  <2>2. CASE pc[c] # "recv"
    BY <2>2 DEF Waiting, ClientSame
  <2> QED BY <2>1, <2>2
<1>7. Progress(c)'
  BY ProgressKeeps DEF ClientOk
<1> QED BY <1>3, <1>5, <1>6, <1>7 DEF ClientOk

\* A step that leaves the variables of s alone.
ServerSame(s) ==
  /\ spc'[s] = spc[s] /\ sockets'[s] = sockets[s] /\ backlog'[s] = backlog[s]
  /\ job'[s] = job[s]

\* A connection that a server waits for or holds stays open, and no queued one
\* gets a message.
LEMMA ServerKeeps ==
  ASSUME TypeOK, NEW s \in Servers, Backlog(s), Accepted(s), Answering(s),
         ServerSame(s), ServedGrows,
         \A k \in Live : conn[k].server = s /\ conn[k].sopen =>
           /\ k \in Live' /\ conn'[k].server = s /\ conn'[k].sopen
           /\ Queued(k) => Fewer(k)
  PROVE  Backlog(s)' /\ Accepted(s)' /\ Answering(s)'
<1>1. Accepted(s)'
  BY DEF Accepted, ServerSame
<1>2. Backlog(s)'
  <2>1. ASSUME NEW i \in 1 .. Len(backlog[s])
        PROVE  LET k == backlog[s][i] IN
               /\ k \in Live' /\ conn'[k].server = s /\ conn'[k].sopen
               /\ k \notin sockets[s] /\ conn'[k].up = <<>> /\ conn'[k].down = <<>>
    <3>1. PICK k : k = backlog[s][i]
      OBVIOUS
    <3>2. /\ k \in Live /\ conn[k].server = s /\ conn[k].sopen /\ k \notin sockets[s]
          /\ conn[k].up = <<>> /\ conn[k].down = <<>> /\ Queued(k)
      BY <3>1 DEF Backlog, Queued
    <3>3. k \in Live' /\ conn'[k].server = s /\ conn'[k].sopen /\ Fewer(k)
      BY <3>2
    <3> QED BY <3>1, <3>2, <3>3 DEF Fewer
  <2>2. \A i, j \in 1 .. Len(backlog[s]) : backlog[s][i] = backlog[s][j] => i = j
    BY DEF Backlog
  <2> QED BY <2>1, <2>2 DEF Backlog, ServerSame
<1>3. Answering(s)'
  <2>1. job[s].answer.kind = "event" =>
          /\ job[s].answer.ds \in DS
          /\ served[job[s].answer.ds] \in Nat /\ served[job[s].answer.ds] >= 1
    BY MessageFacts DEF Answering, TypeOK
  <2>2. job[s].answer.kind = "event" => served'[job[s].answer.ds] >= 1
    BY <2>1 DEF ServedGrows
  <2> QED BY <2>2 DEF Answering, ServerSame
<1> QED BY <1>1, <1>2, <1>3

\* A connection that loses messages at most.
LEMMA FlightKeeps ==
  ASSUME TypeOK, NEW k \in Live, k \in Live', Flight(k), Fewer(k), ServedGrows
  PROVE  Flight(k)'
<1>1. InJob(k)' => InJob(k)
  BY DEF InJob, Fewer
<1>2. conn[k].up \in Seq(DS) /\ conn[k].down \in Seq(Message)
  BY ConnectionFacts DEF TypeOK
<1>3. PICK up, down : up = conn[k].up /\ down = conn[k].down
  OBVIOUS
<1>4. Len(conn'[k].up) + Len(conn'[k].down) <= 1
  <2>1. Len(up) \in Nat /\ Len(down) \in Nat
    BY <1>2, <1>3
  <2>2. Len(up) + Len(down) <= 1
    BY <1>3 DEF Flight
  <2>3. /\ Len(conn'[k].up) = Len(up) \/ Len(conn'[k].up) = 0
        /\ Len(conn'[k].down) = Len(down) \/ Len(conn'[k].down) = 0
    BY <1>3 DEF Fewer
  <2>4. ASSUME NEW m \in Nat, NEW n \in Nat, m + n <= 1, NEW x, NEW y,
               x = m \/ x = 0, y = n \/ y = 0
        PROVE  x + y <= 1
    BY <2>4
  <2> QED BY <2>1, <2>2, <2>3, <2>4
<1>5. InJob(k)' => conn'[k].up = <<>> /\ conn'[k].down = <<>>
  BY <1>1 DEF Flight, Fewer
<1>6. ASSUME NEW i \in 1 .. Len(conn'[k].down), conn'[k].down[i].kind = "event"
      PROVE  served'[conn'[k].down[i].ds] >= 1
  <2>1. conn'[k].down = conn[k].down
    BY <1>6 DEF Fewer
  <2>2. conn[k].down[i] \in Message /\ served[conn[k].down[i].ds] >= 1
    BY <1>2, <1>6, <2>1 DEF Flight
  <2>3. conn[k].down[i].ds \in DS
    BY <1>6, <2>1, <2>2, MessageFacts
  <2>4. served[conn[k].down[i].ds] \in Nat
    BY <2>3 DEF TypeOK
  <2> QED BY <2>1, <2>2, <2>3, <2>4 DEF ServedGrows
<1> QED BY <1>4, <1>5, <1>6 DEF Flight

\* What a client, a server and a connection need of a step not to notice it.
Unseen(c) ==
  ClientSame(c) /\ \A k \in Live : Own(c, k) /\ Knows(c, k) =>
    Own(c, k)' /\ Fewer(k) /\ (Queued(k)' => Queued(k))
Undisturbed(s) ==
  ServerSame(s) /\ \A k \in Live : conn[k].server = s /\ conn[k].sopen =>
    /\ k \in Live' /\ conn'[k].server = s /\ conn'[k].sopen
    /\ Queued(k) => Fewer(k)

\* A step keeps the invariant when each part of it is unseen or is shown again.
LEMMA KeepAll ==
  ASSUME IInv, TypeOK', ServedGrows,
         \A c \in Clients : Unseen(c) \/ ClientOk(c)',
         \A s \in Servers : Undisturbed(s) \/ (Backlog(s) /\ Accepted(s) /\ Answering(s))',
         \A k \in Live' : (k \in Live /\ Fewer(k)) \/ Flight(k)'
  PROVE  IInv'
<1>1. TypeOK
  BY DEF IInv
<1>2. ASSUME NEW c \in Clients PROVE ClientOk(c)'
  <2>1. CASE Unseen(c)
    BY <1>1, <2>1, ClientKeeps DEF Unseen, IInv
  <2> QED BY <2>1
<1>3. ASSUME NEW s \in Servers PROVE (Backlog(s) /\ Accepted(s) /\ Answering(s))'
  <2>1. CASE Undisturbed(s)
    <3>1. Backlog(s) /\ Accepted(s) /\ Answering(s)
      BY DEF IInv
    <3>2. ServerSame(s)
      BY <2>1 DEF Undisturbed
    <3>3. \A k \in Live : conn[k].server = s /\ conn[k].sopen =>
            /\ k \in Live' /\ conn'[k].server = s /\ conn'[k].sopen
            /\ Queued(k) => Fewer(k)
      BY <2>1 DEF Undisturbed
    <3> QED BY <1>1, <3>1, <3>2, <3>3, ServerKeeps
  <2> QED BY <2>1
<1>4. ASSUME NEW k \in Live' PROVE Flight(k)'
  <2>1. CASE k \in Live /\ Fewer(k)
    BY <1>1, <2>1, FlightKeeps DEF IInv
  <2> QED BY <2>1
<1> QED BY <1>2, <1>3, <1>4 DEF IInv

\* The initial state.
LEMMA InitInv == Init => IInv
<1> SUFFICES ASSUME Init PROVE IInv
  OBVIOUS
<1> USE NetAssumption
<1>1. Live = {}
  BY DEF Init, Live
<1>2. TypeOK
  <2>1. /\ pc \in [Clients -> {"pick", "header", "idle", "send", "recv", "done", "dead"}]
        /\ ev \in [Clients -> 0 .. NEvents] /\ retries \in [Clients -> (0 - 1) .. Retries]
        /\ sock \in [Clients -> Conns \cup {None}]
        /\ probe \in [Clients -> Conns \cup {None}]
        /\ best \in [Clients -> Conns \cup {None}] /\ minLoad \in [Clients -> Loads]
        /\ got \in [Clients -> Seq(DS)] /\ offers \in [Clients -> SUBSET Loads]
    BY DEF Init, Loads
  <2>2. host \in [Clients -> 1 .. Len(HostList) + 1]
    <3>1. Len(HostList) \in Nat
      OBVIOUS
    <3> QED BY <3>1 DEF Init
  <2>3. job \in [Servers -> [sock : Conns \cup {None}, answer : Message]]
    BY MessageFacts DEF Init, NoJob
  <2>4. /\ spc \in [Servers -> {"accept", "select", "reply", "down"}]
        /\ sockets \in [Servers -> SUBSET Conns] /\ backlog \in [Servers -> Seq(Conns)]
        /\ error \in [Servers -> BOOLEAN]
    BY DEF Init
  <2>5. /\ Live \subseteq Conns /\ conn \in [Live -> Connection]
        /\ faults \in 0 .. MaxFaults /\ served \in [DS -> Nat]
    BY <1>1 DEF Init
  <2> QED BY <2>1, <2>2, <2>3, <2>4, <2>5 DEF TypeOK
<1>3. ASSUME NEW c \in Clients PROVE ClientOk(c)
  BY DEF Init, ClientOk, Probing, Chosen, Waiting, Progress
<1>4. ASSUME NEW s \in Servers PROVE Backlog(s) /\ Accepted(s) /\ Answering(s)
  <2>1. IsFiniteSet({})
    BY FS_EmptySet
  <2> QED BY <2>1, MessageFacts DEF Init, Backlog, Accepted, Answering
<1> QED BY <1>1, <1>2, <1>3, <1>4 DEF IInv

-----------------------------------------------------------------------------
(* Steps of the clients.                                                   *)

\* The types, by the part of the system they belong to.
ClientTypes ==
  /\ pc \in [Clients -> {"pick", "header", "idle", "send", "recv", "done", "dead"}]
  /\ ev \in [Clients -> 0 .. NEvents]
  /\ retries \in [Clients -> (0 - 1) .. Retries]
  /\ sock \in [Clients -> Conns \cup {None}]
  /\ host \in [Clients -> 1 .. Len(HostList) + 1]
  /\ probe \in [Clients -> Conns \cup {None}]
  /\ best \in [Clients -> Conns \cup {None}]
  /\ minLoad \in [Clients -> Loads]
  /\ offers \in [Clients -> SUBSET Loads]
  /\ got \in [Clients -> Seq(DS)]
ServerTypes ==
  /\ spc \in [Servers -> {"accept", "select", "reply", "down"}]
  /\ sockets \in [Servers -> SUBSET Conns]
  /\ backlog \in [Servers -> Seq(Conns)]
  /\ job \in [Servers -> [sock : Conns \cup {None}, answer : Message]]
  /\ error \in [Servers -> BOOLEAN]
ConnTypes == Live \subseteq Conns /\ conn \in [Live -> Connection]
CountTypes == faults \in 0 .. MaxFaults /\ served \in [DS -> Nat]

\* TypeOK is made of these parts.
LEMMA TypeParts ==
  /\ TypeOK <=> ClientTypes /\ ServerTypes /\ ConnTypes /\ CountTypes
  /\ TypeOK' <=> ClientTypes' /\ ServerTypes' /\ ConnTypes' /\ CountTypes'
<1>1. TypeOK <=> ClientTypes /\ ServerTypes /\ ConnTypes /\ CountTypes
  BY DEF TypeOK, ClientTypes, ServerTypes, ConnTypes, CountTypes
<1>2. TypeOK' <=> ClientTypes' /\ ServerTypes' /\ ConnTypes' /\ CountTypes'
  BY DEF TypeOK, ClientTypes, ServerTypes, ConnTypes, CountTypes
<1> QED BY <1>1, <1>2

\* The types of a connection in use.
LEMMA LiveFacts ==
  ASSUME IInv, NEW k \in Live
  PROVE  /\ k \in Conns /\ k # None /\ conn[k] \in Connection
         /\ conn[k].client \in Clients /\ conn[k].server \in Servers
         /\ conn[k].copen \in BOOLEAN /\ conn[k].sopen \in BOOLEAN
         /\ conn[k].creset \in BOOLEAN /\ conn[k].sreset \in BOOLEAN
         /\ conn[k].up \in Seq(DS) /\ conn[k].down \in Seq(Message)
<1>1. k \in Conns /\ conn[k] \in Connection
  BY DEF IInv, TypeOK
<1> QED BY <1>1, ConnectionFacts, NetAssumption

\* A step without the servers that takes messages away from connections, and
\* closes only ends of clients.
Losing ==
  /\ Live' \subseteq Live
  /\ \A k \in Live : conn[k].sopen => k \in Live'
  /\ \A k \in Live' :
       /\ conn'[k].client = conn[k].client /\ conn'[k].server = conn[k].server
       /\ conn'[k].sopen = conn[k].sopen
       /\ conn'[k].up \in {conn[k].up, <<>>} /\ conn'[k].down \in {conn[k].down, <<>>}

\* Such a step keeps the invariant when it keeps that of the clients that
\* notice it.
LEMMA LosingInv ==
  ASSUME IInv, TypeOK', Losing, UNCHANGED serverVars, UNCHANGED served,
         \A c \in Clients :
           \/ ClientOk(c)'
           \/ ClientSame(c) /\ \A k \in Live : Own(c, k) => Own(c, k)'
  PROVE  IInv'
<1>1. \A k \in Live' : k \in Live /\ Fewer(k)
  BY DEF Losing, Fewer, serverVars
<1>2. \A k : Queued(k)' <=> Queued(k)
  BY DEF Queued, serverVars
<1>3. ServedGrows
  BY DEF IInv, TypeOK, ServedGrows
<1>4. \A c \in Clients : Unseen(c) \/ ClientOk(c)'
  BY <1>1, <1>2 DEF Unseen, Own
<1>5. \A s \in Servers : Undisturbed(s)
  BY <1>1 DEF Undisturbed, ServerSame, serverVars, Losing
<1> QED BY <1>1, <1>3, <1>4, <1>5, KeepAll

\* Closing ends of clients on connections that lost messages before is a
\* Losing step, and the ends that are not closed stay.
LEMMA CloseIsLosing ==
  ASSUME IInv, NEW cs \in [Live -> Connection], NEW K, conn' = CloseClientEnds(cs, K),
         \A k \in Live :
           /\ cs[k].client = conn[k].client /\ cs[k].server = conn[k].server
           /\ cs[k].sopen = conn[k].sopen /\ cs[k].copen = conn[k].copen
           /\ cs[k].up \in {conn[k].up, <<>>} /\ cs[k].down \in {conn[k].down, <<>>}
  PROVE  /\ Losing /\ ConnTypes'
         /\ \A c, k : Own(c, k) /\ k \notin K => Own(c, k)' /\ conn'[k] = cs[k]
<1>1. Live \in SUBSET Conns
  BY DEF IInv, TypeOK
<1>2. /\ Live' \subseteq Live /\ conn' \in [Live' -> Connection]
      /\ \A k \in Live : k \in Live' <=> cs[k].sopen \/ (cs[k].copen /\ k \notin K)
      /\ \A k \in Live' : conn'[k] = IF k \in K THEN ClientClosed(cs[k]) ELSE cs[k]
  <2>1. PICK D : D = Live
    OBVIOUS
  <2>2. /\ DOMAIN conn' \subseteq D /\ conn' \in [DOMAIN conn' -> Connection]
        /\ \A k \in D : k \in DOMAIN conn' <=> cs[k].sopen \/ (cs[k].copen /\ k \notin K)
        /\ \A k \in DOMAIN conn' : conn'[k] = IF k \in K THEN ClientClosed(cs[k]) ELSE cs[k]
    <3>1. D \in SUBSET Conns /\ cs \in [D -> Connection]
      BY <1>1, <2>1
    <3>2. PICK now : now = CloseClientEnds(cs, K) /\ now = conn'
      OBVIOUS
    <3>3. /\ DOMAIN now \subseteq D /\ now \in [DOMAIN now -> Connection]
          /\ \A k \in D : k \in DOMAIN now <=> cs[k].sopen \/ (cs[k].copen /\ k \notin K)
          /\ \A k \in DOMAIN now : now[k] = IF k \in K THEN ClientClosed(cs[k]) ELSE cs[k]
      BY <3>1, <3>2, CloseClientFacts
    <3> QED BY <3>2, <3>3
  <2>3. DOMAIN conn' = Live'
    BY DEF Live
  <2> QED BY <2>1, <2>2, <2>3
<1>3. \A k \in Live : cs[k] \in Connection
  OBVIOUS
<1>4. Losing
  <2>1. ASSUME NEW k \in Live'
        PROVE  /\ conn'[k].client = conn[k].client /\ conn'[k].server = conn[k].server
               /\ conn'[k].sopen = conn[k].sopen
               /\ conn'[k].up \in {conn[k].up, <<>>} /\ conn'[k].down \in {conn[k].down, <<>>}
    BY <1>2, <1>3, ClosedFacts
  <2> QED BY <1>2, <2>1 DEF Losing
<1>5. ConnTypes'
  BY <1>1, <1>2 DEF ConnTypes
<1>6. \A c, k : Own(c, k) /\ k \notin K => Own(c, k)' /\ conn'[k] = cs[k]
  BY <1>2 DEF Own
<1> QED BY <1>4, <1>5, <1>6

\* The end of a client process, for whatever reason.
LEMMA EndClientInv ==
  ASSUME IInv, NEW c \in Clients, NEW how \in {"done", "dead"}, EndClient(c, how),
         UNCHANGED <<serverVars, served, got>>, faults' \in 0 .. MaxFaults
  PROVE  IInv'
<1>1. /\ pc' = [pc EXCEPT ![c] = how] /\ conn' = CloseClientEnds(conn, OfClient(c))
      /\ UNCHANGED <<ev, retries, sock, host, probe, best, minLoad, offers>>
  BY DEF EndClient
<1>2. ClientTypes /\ ServerTypes /\ ConnTypes /\ CountTypes
  BY TypeParts DEF IInv
<1>3. /\ Losing /\ ConnTypes'
      /\ \A d, k : Own(d, k) /\ k \notin OfClient(c) => Own(d, k)'
  <2>1. conn \in [Live -> Connection]
    BY <1>2 DEF ConnTypes
  <2> QED BY <1>1, <2>1, CloseIsLosing
<1>4. TypeOK'
  <2>1. ClientTypes'
    BY <1>1, <1>2 DEF ClientTypes
  <2>2. ServerTypes' /\ CountTypes'
    BY <1>2 DEF ServerTypes, CountTypes, serverVars
  <2> QED BY <1>3, <2>1, <2>2, TypeParts
<1>5. ClientOk(c)'
  <2>1. pc'[c] = how
    BY <1>1, <1>2 DEF ClientTypes
  <2>2. Progress(c)'
    BY <2>1 DEF IInv, ClientOk, Progress
  <2> QED BY <2>1, <2>2 DEF ClientOk, Probing, Chosen, Waiting
<1>6. ASSUME NEW d \in Clients, d # c
      PROVE  ClientSame(d) /\ \A k \in Live : Own(d, k) => Own(d, k)'
  BY <1>1, <1>2, <1>3, <1>6 DEF ClientTypes, ClientSame, Own, OfClient
<1> QED BY <1>3, <1>4, <1>5, <1>6, LosingInv

\* A step that leaves the connections and servers alone.
LEMMA IdleFacts ==
  ASSUME IInv, UNCHANGED <<conn, serverVars>>
  PROVE  /\ Losing /\ ConnTypes' /\ ServerTypes'
         /\ \A c, k : Own(c, k)' <=> Own(c, k)
         /\ \A k : Quiet(k)' <=> Quiet(k)
<1>1. conn' = conn /\ job' = job /\ backlog' = backlog /\ Live' = Live
  BY DEF serverVars, Live
<1>2. Losing
  BY <1>1 DEF Losing
<1>3. ConnTypes /\ ServerTypes
  BY TypeParts DEF IInv
<1>4. ConnTypes' /\ ServerTypes'
  BY <1>1, <1>3 DEF ConnTypes, ServerTypes, serverVars
<1>5. \A c, k : Own(c, k)' <=> Own(c, k)
  BY <1>1 DEF Own
<1>6. \A k : Quiet(k)' <=> Quiet(k)
  BY <1>1 DEF Quiet, Own, InJob, Queued
<1> QED BY <1>2, <1>4, <1>5, <1>6

\* The event loop's call of DSEvent.
LEMMA NextEventInv == ASSUME IInv, NEW c \in Clients, NextEvent(c) PROVE IInv'
<1>1. /\ pc[c] = "idle" /\ ev[c] < NEvents /\ ev' = [ev EXCEPT ![c] = @ + 1]
      /\ retries' = [retries EXCEPT ![c] = Retries]
      /\ pc' = [pc EXCEPT ![c] = "send"]
      /\ UNCHANGED <<sock, host, probe, best, minLoad, offers, served, got, faults>>
      /\ UNCHANGED <<conn, serverVars>>
  BY DEF NextEvent
<1>2. ClientTypes /\ CountTypes
  BY TypeParts DEF IInv
<1>3. /\ Losing /\ ConnTypes' /\ ServerTypes'
      /\ \A d, k : Own(d, k)' <=> Own(d, k)
      /\ \A k : Quiet(k)' <=> Quiet(k)
  BY <1>1, IdleFacts
<1>4. TypeOK'
  <2>1. ev[c] + 1 \in 0 .. NEvents /\ Retries \in (0 - 1) .. Retries
    BY <1>1, <1>2, NetAssumption DEF ClientTypes
  <2>2. ClientTypes'
    BY <1>1, <1>2, <2>1 DEF ClientTypes
  <2>3. CountTypes'
    BY <1>1, <1>2 DEF CountTypes
  <2> QED BY <1>3, <2>2, <2>3, TypeParts
<1>5. ClientOk(c)'
  <2>1. pc'[c] = "send" /\ ev'[c] = ev[c] + 1 /\ got' = got
    BY <1>1, <1>2 DEF ClientTypes
  <2>2. (Own(c, sock[c]) /\ Quiet(sock[c]))'
    <3>1. PICK k : k = sock[c] /\ k = sock'[c]
      BY <1>1
    <3>2. Own(c, k) /\ Quiet(k)
      BY <1>1, <3>1 DEF IInv, ClientOk, Chosen
    <3>3. Own(c, k)' /\ Quiet(k)'
      BY <1>3, <3>2
    <3> QED BY <3>1, <3>3
  <2>3. Len(got[c]) = ev[c] /\ ev[c] \in Nat
    BY <1>1, <1>2, NetAssumption DEF IInv, ClientOk, Progress, ClientTypes
  <2>4. Len(got'[c]) = ev'[c] - 1
    BY <2>1, <2>3
  <2>5. Progress(c)'
    BY <1>1, <2>1, <2>4 DEF IInv, ClientOk, Progress
  <2> QED BY <2>1, <2>2, <2>5 DEF ClientOk, Probing, Chosen, Waiting
<1>6. ASSUME NEW d \in Clients, d # c PROVE ClientSame(d)
  BY <1>1, <1>2, <1>6 DEF ClientSame, ClientTypes
<1> QED BY <1>1, <1>3, <1>4, <1>5, <1>6, LosingInv

\* PickServer's end: the best connection becomes the current one.
LEMMA PickDoneInv == ASSUME IInv, NEW c \in Clients, PickDone(c) PROVE IInv'
<1>1. CASE best[c] = None /\ EndClient(c, "dead")
  <2>1. UNCHANGED <<serverVars, served, got>> /\ faults' = faults
    BY DEF PickDone
  <2>2. faults' \in 0 .. MaxFaults
    BY <2>1 DEF IInv, TypeOK
  <2> QED BY <1>1, <2>1, <2>2, EndClientInv
<1>2. CASE best[c] # None
  <2>1. /\ pc[c] = "pick" /\ sock' = [sock EXCEPT ![c] = best[c]]
        /\ best' = [best EXCEPT ![c] = None]
        /\ pc' = [pc EXCEPT ![c] = IF ev[c] = 0 THEN "idle" ELSE "send"]
        /\ UNCHANGED <<ev, retries, host, probe, minLoad, offers, faults, served, got>>
        /\ UNCHANGED <<conn, serverVars>>
    BY <1>2 DEF PickDone
  <2>2. ClientTypes /\ CountTypes
    BY TypeParts DEF IInv
  <2>3. /\ Losing /\ ConnTypes' /\ ServerTypes'
        /\ \A d, k : Own(d, k)' <=> Own(d, k)
        /\ \A k : Quiet(k)' <=> Quiet(k)
    BY <2>1, IdleFacts
  <2>4. TypeOK'
    <3>1. ClientTypes'
      BY <2>1, <2>2 DEF ClientTypes
    <3>2. CountTypes'
      BY <2>1, <2>2 DEF CountTypes
    <3> QED BY <2>3, <3>1, <3>2, TypeParts
  <2>5. ClientOk(c)'
    <3>1. /\ pc'[c] = IF ev[c] = 0 THEN "idle" ELSE "send"
          /\ ev' = ev /\ got' = got /\ sock'[c] = best[c]
      BY <2>1, <2>2 DEF ClientTypes
    <3>2. (Own(c, sock[c]) /\ Quiet(sock[c]))'
      <4>1. PICK k : k = best[c] /\ k = sock'[c]
        BY <3>1
      <4>2. Own(c, k) /\ Quiet(k)
        BY <1>2, <2>1, <4>1 DEF IInv, ClientOk, Chosen
      <4>3. Own(c, k)' /\ Quiet(k)'
        BY <2>3, <4>2
      <4> QED BY <4>1, <4>3
    <3>3. Progress(c)'
      BY <2>1, <3>1 DEF IInv, ClientOk, Progress
    <3> QED BY <3>1, <3>2, <3>3 DEF ClientOk, Probing, Chosen, Waiting
  <2>6. ASSUME NEW d \in Clients, d # c PROVE ClientSame(d)
    BY <2>1, <2>2, <2>6 DEF ClientSame, ClientTypes
  <2> QED BY <2>1, <2>3, <2>4, <2>5, <2>6, LosingInv
<1> QED BY <1>1, <1>2 DEF PickDone

\* A failed attempt starts another PickServer.
LEMMA RetryInv ==
  ASSUME IInv, NEW c \in Clients, pc[c] \in {"send", "recv"}, retries[c] >= 0,
         retries' = Counted(c), StartPick(c),
         UNCHANGED <<ev, sock, conn, serverVars, faults, served, got>>
  PROVE  IInv'
<1>1. /\ pc' = [pc EXCEPT ![c] = "pick"] /\ host' = [host EXCEPT ![c] = 1]
      /\ probe' = [probe EXCEPT ![c] = None] /\ best' = [best EXCEPT ![c] = None]
      /\ minLoad' = [minLoad EXCEPT ![c] = 0] /\ offers' = [offers EXCEPT ![c] = {}]
      /\ retries' = [retries EXCEPT ![c] = @ - 1]
  BY DEF StartPick, Counted
<1>2. ClientTypes /\ CountTypes
  BY TypeParts DEF IInv
<1>3. /\ Losing /\ ConnTypes' /\ ServerTypes'
      /\ \A d, k : Own(d, k)' <=> Own(d, k)
  BY IdleFacts
<1>4. TypeOK'
  <2>1. retries[c] - 1 \in (0 - 1) .. Retries
    BY <1>2, NetAssumption DEF ClientTypes
  <2>2. 1 \in 1 .. Len(HostList) + 1
    BY NetAssumption
  <2>3. 0 \in Loads /\ {} \in SUBSET Loads
    BY DEF Loads
  <2>4. ClientTypes'
    BY <1>1, <1>2, <2>1, <2>2, <2>3 DEF ClientTypes
  <2>5. CountTypes'
    BY <1>2 DEF CountTypes
  <2> QED BY <1>3, <2>4, <2>5, TypeParts
<1>5. ClientOk(c)'
  <2>1. pc'[c] = "pick" /\ best'[c] = None /\ ev' = ev /\ got' = got
    BY <1>1, <1>2 DEF ClientTypes
  <2>2. Len(got[c]) = ev[c] - 1
    BY DEF IInv, ClientOk, Progress
  <2>3. Len(got[c]) \in Nat /\ ev[c] \in Nat
    BY <1>2, NetAssumption DEF ClientTypes
  <2>4. ev[c] # 0
    BY <2>2, <2>3
  <2>5. Progress(c)'
    BY <2>1, <2>2, <2>4 DEF IInv, ClientOk, Progress
  <2> QED BY <2>1, <2>5 DEF ClientOk, Probing, Chosen, Waiting
<1>6. ASSUME NEW d \in Clients, d # c PROVE ClientSame(d)
  BY <1>1, <1>2, <1>6 DEF ClientSame, ClientTypes
<1> QED BY <1>3, <1>4, <1>5, <1>6, LosingInv

\* A change of one connection.
LEMMA PutFacts ==
  ASSUME IInv, NEW k \in Live, NEW r \in Connection, conn' = [conn EXCEPT ![k] = r]
  PROVE  /\ Live' = Live /\ ConnTypes' /\ conn'[k] = r
         /\ \A j \in Live : j # k => conn'[j] = conn[j]
<1>1. Live \subseteq Conns /\ conn \in [Live -> Connection]
  BY DEF IInv, TypeOK
<1>2. DOMAIN conn' = Live
  BY <1>1
<1>3. Live' = Live
  BY <1>2 DEF Live
<1>4. conn' \in [Live -> Connection] /\ conn'[k] = r
  BY <1>1
<1>5. \A j \in Live : j # k => conn'[j] = conn[j]
  BY <1>1
<1> QED BY <1>1, <1>3, <1>4, <1>5 DEF ConnTypes

\* The connections after the message waiting on k was received: at most one
\* was under way.
LEMMA TakenFacts ==
  ASSUME IInv, NEW k \in Live, conn[k].down # <<>>
  PROVE  /\ Head(conn[k].down) = conn[k].down[1] /\ Head(conn[k].down) \in Message
         /\ 1 \in 1 .. Len(conn[k].down)
         /\ conn[k].up = <<>> /\ ~InJob(k) /\ ~Queued(k)
         /\ Taken(k) \in [Live -> Connection]
         /\ Taken(k) = [conn EXCEPT ![k] = Taken(k)[k]]
         /\ Taken(k)[k].down = <<>> /\ Taken(k)[k].up = <<>>
         /\ Taken(k)[k].client = conn[k].client /\ Taken(k)[k].server = conn[k].server
         /\ Taken(k)[k].copen = conn[k].copen /\ Taken(k)[k].sopen = conn[k].sopen
         /\ \A j \in Live : j # k => Taken(k)[j] = conn[j]
<1>1. PICK down : down = conn[k].down
  OBVIOUS
<1>2. down \in Seq(Message) /\ down # <<>> /\ conn[k].up \in Seq(DS)
  BY <1>1, LiveFacts
<1>3. PICK n, m : n = Len(down) /\ m = Len(conn[k].up)
  OBVIOUS
<1>4. n \in Nat /\ m \in Nat /\ n # 0
  BY <1>2, <1>3
<1>5. m + n <= 1
  BY <1>1, <1>3 DEF IInv, Flight
<1>6. n = 1 /\ m = 0
  BY <1>4, <1>5
<1>7. /\ Head(down) = down[1] /\ Head(down) \in Message /\ 1 \in 1 .. Len(down)
      /\ Tail(down) = <<>> /\ Tail(down) \in Seq(Message)
  <2>1. Head(down) = down[1] /\ 1 \in 1 .. Len(down)
    BY <1>3, <1>6
  <2>2. /\ Head(down) \in Message /\ Tail(down) \in Seq(Message)
        /\ Len(Tail(down)) = n - 1
    BY <1>2, <1>3, HeadTailProperties
  <2>3. Len(Tail(down)) \notin Nat \ {0}
    BY <1>6, <2>2
  <2>4. Tail(down) = <<>>
    BY <2>2, <2>3, EmptySeq
  <2> QED BY <2>1, <2>2, <2>4
<1>8. conn[k].up = <<>>
  <2>1. Len(conn[k].up) \notin Nat \ {0}
    BY <1>3, <1>6
  <2> QED BY <1>2, <2>1, EmptySeq
<1>9. ~InJob(k)
  BY DEF IInv, Flight
<1>10. ~Queued(k)
  BY DEF IInv, Backlog, Queued
<1>11. conn \in [Live -> Connection] /\ conn[k] \in Connection
  BY DEF IInv, TypeOK
<1>12. PICK r : r = [conn[k] EXCEPT !.down = <<>>]
  OBVIOUS
<1>13. r \in Connection
  BY <1>7, <1>11, <1>12 DEF Connection
<1>14. /\ r.down = <<>> /\ r.up = conn[k].up /\ r.client = conn[k].client
       /\ r.server = conn[k].server /\ r.copen = conn[k].copen /\ r.sopen = conn[k].sopen
  BY <1>11, <1>12 DEF Connection
<1>15. Taken(k) = [conn EXCEPT ![k] = r]
  BY <1>1, <1>7, <1>11, <1>12 DEF Taken
<1>16. Taken(k)[k] = r /\ Taken(k) \in [Live -> Connection]
  BY <1>11, <1>13, <1>15
<1>17. \A j \in Live : j # k => Taken(k)[j] = conn[j]
  BY <1>11, <1>15
<1> QED BY <1>1, <1>7, <1>8, <1>9, <1>10, <1>14, <1>15, <1>16, <1>17

\* A connection that a client keeps stays quiet while the servers do nothing.
LEMMA KeptQuiet ==
  ASSUME NEW c, NEW k, Own(c, k)', ~InJob(k), ~Queued(k), UNCHANGED serverVars,
         conn'[k].up = <<>>, conn'[k].down = <<>>
  PROVE  Quiet(k)'
<1>1. ~InJob(k)' /\ ~Queued(k)'
  BY DEF InJob, Queued, serverVars
<1> QED BY <1>1 DEF Quiet, Own

\* The wait for the processed event.
LEMMA RecvInv == ASSUME IInv, NEW c \in Clients, Recv(c) PROVE IInv'
<1>1. PICK k : k = sock[c]
  OBVIOUS
<1>2. pc[c] = "recv" /\ UNCHANGED <<serverVars, faults, served>>
  BY DEF Recv
<1>3. /\ Own(c, k) /\ k \in Live /\ ~Queued(k)
      /\ \A i \in 1 .. Len(conn[k].down) : conn[k].down[i] = Result(<<c, ev[c]>>)
  BY <1>1, <1>2 DEF IInv, ClientOk, Waiting, Own
<1>4. ClientTypes /\ CountTypes /\ ServerTypes
  BY TypeParts DEF IInv
<1>5. faults' \in 0 .. MaxFaults
  BY <1>2, <1>4 DEF CountTypes
<1>6. CASE EndClient(c, "dead") /\ UNCHANGED got
  BY <1>2, <1>5, <1>6, EndClientInv
<1>7. CASE MayResend(c) /\ retries' = Counted(c) /\ StartPick(c) /\ UNCHANGED <<ev, sock, conn, got>>
  <2>1. retries[c] >= 0
    BY <1>4, <1>7 DEF MayResend, ClientTypes
  <2> QED BY <1>2, <1>7, <2>1, RetryInv
<1>8. CASE /\ ClientHasData(k) /\ Head(conn[k].down).kind = "event"
           /\ got' = [got EXCEPT ![c] = Append(@, Head(conn[k].down).ds)]
           /\ conn' = Taken(k) /\ pc' = [pc EXCEPT ![c] = "idle"]
           /\ UNCHANGED <<ev, retries, sock, host, probe, best, minLoad, offers>>
  <2>1. conn[k].down # <<>>
    BY <1>8 DEF ClientHasData
  <2>2. /\ Head(conn[k].down) = conn[k].down[1] /\ 1 \in 1 .. Len(conn[k].down)
        /\ ~InJob(k) /\ Taken(k) \in [Live -> Connection]
        /\ Taken(k)[k].down = <<>> /\ Taken(k)[k].up = <<>> /\ conn[k].up = <<>>
        /\ Taken(k)[k].client = conn[k].client /\ Taken(k)[k].server = conn[k].server
        /\ Taken(k)[k].copen = conn[k].copen /\ Taken(k)[k].sopen = conn[k].sopen
        /\ \A j \in Live : j # k => Taken(k)[j] = conn[j]
    BY <1>3, <2>1, TakenFacts
  <2>3. Len(got[c]) = ev[c] - 1 /\ got[c] \in Seq(DS) /\ ev[c] \in 0 .. NEvents
    BY <1>2, <1>4 DEF IInv, ClientOk, Progress, ClientTypes
  <2>4. PICK ds : ds = <<c, ev[c]>>
    OBVIOUS
  <2>5. ds \in DS
    BY <2>3, <2>4, NetAssumption DEF DS, Event
  <2>6. Head(conn[k].down).ds = ds /\ served[ds] >= 1
    <3>1. Head(conn[k].down) = Result(ds)
      BY <1>3, <2>2, <2>4
    <3>2. Result(ds).ds = ds
      BY <1>8, <2>5, <3>1, MessageFacts
    <3>3. Flight(k)
      BY <1>3 DEF IInv
    <3>4. served[conn[k].down[1].ds] >= 1
      BY <1>8, <2>2, <3>3 DEF Flight
    <3> QED BY <2>2, <3>1, <3>2, <3>4
  <2>7. Live' = Live /\ ConnTypes'
    <3>1. Live' = Live
      BY <1>8, <2>2 DEF Live
    <3>2. Live \subseteq Conns
      BY DEF IInv, TypeOK
    <3> QED BY <1>8, <2>2, <3>1, <3>2 DEF ConnTypes
  <2>8. Losing /\ \A d, j : Own(d, j) => Own(d, j)'
    BY <1>8, <2>2, <2>7 DEF Losing, Own
  <2>9. got' = [got EXCEPT ![c] = Append(got[c], ds)]
    BY <1>8, <2>6
  <2>10. TypeOK'
    <3>1. Append(got[c], ds) \in Seq(DS)
      BY <2>3, <2>5
    <3>2. ClientTypes'
      BY <1>4, <1>8, <2>9, <3>1 DEF ClientTypes
    <3>3. ServerTypes' /\ CountTypes'
      BY <1>2, <1>4 DEF ServerTypes, CountTypes, serverVars
    <3> QED BY <2>7, <3>2, <3>3, TypeParts
  <2>11. ClientOk(c)'
    <3>1. /\ pc'[c] = "idle" /\ ev' = ev /\ sock'[c] = k /\ served' = served
          /\ got'[c] = Append(got[c], ds)
      BY <1>1, <1>2, <1>4, <1>8, <2>9 DEF ClientTypes
    <3>2. (Own(c, sock[c]) /\ Quiet(sock[c]))'
      <4>1. Own(c, k)'
        BY <1>3, <2>8
      <4>2. Quiet(k)'
        BY <1>2, <1>3, <1>8, <2>2, <4>1, KeptQuiet
      <4> QED BY <3>1, <4>1, <4>2
    <3>3. Len(got'[c]) = ev[c]
      BY <2>3, <3>1
    <3>4. ASSUME NEW i \in 1 .. Len(got'[c])
          PROVE  got'[c][i] = <<c, i>> /\ served'[<<c, i>>] >= 1
      <4>1. CASE i = ev[c]
        <5>1. got'[c][i] = ds
          BY <2>3, <3>1, <4>1
        <5> QED BY <2>4, <2>6, <3>1, <4>1, <5>1
      <4>2. CASE i # ev[c]
        <5>1. i \in 1 .. Len(got[c])
          BY <2>3, <3>3, <4>2
        <5>2. got'[c][i] = got[c][i]
          BY <2>3, <3>1, <5>1
        <5> QED BY <3>1, <5>1, <5>2 DEF IInv, ClientOk, Progress
      <4> QED BY <4>1, <4>2
    <3>5. Progress(c)'
      BY <3>1, <3>3, <3>4 DEF Progress
    <3> QED BY <3>1, <3>2, <3>5 DEF ClientOk, Probing, Chosen, Waiting
  <2>12. ASSUME NEW d \in Clients, d # c PROVE ClientSame(d)
    BY <1>4, <1>8, <2>9, <2>12 DEF ClientSame, ClientTypes
  <2> QED BY <1>2, <2>8, <2>10, <2>11, <2>12, LosingInv
<1> QED BY <1>1, <1>6, <1>7, <1>8 DEF Recv

\* The send loop.
LEMMA SendInv == ASSUME IInv, NEW c \in Clients, Send(c) PROVE IInv'
<1>1. PICK k : k = sock[c]
  OBVIOUS
<1>2. pc[c] = "send" /\ UNCHANGED <<ev, sock, serverVars, faults, served, got>>
  BY DEF Send
<1>3. /\ Own(c, k) /\ k \in Live /\ Quiet(k) /\ conn[k].client = c
      /\ conn[k].up = <<>> /\ conn[k].down = <<>> /\ ~InJob(k) /\ ~Queued(k)
  BY <1>1, <1>2 DEF IInv, ClientOk, Chosen, Quiet, Own
<1>4. ClientTypes /\ CountTypes /\ ServerTypes
  BY TypeParts DEF IInv
<1>5. ServerTypes' /\ CountTypes'
  BY <1>2, <1>4 DEF ServerTypes, CountTypes, serverVars
<1>6. ~InJob(k)' /\ ~Queued(k)'
  BY <1>2, <1>3 DEF InJob, Queued, serverVars
<1>7. PICK ds : ds = <<c, ev[c]>>
  OBVIOUS
<1>8. ASSUME pc' = [pc EXCEPT ![c] = "recv"],
             UNCHANGED <<retries, host, probe, best, minLoad, offers>>,
             Own(c, k)', conn'[k].down = <<>>, conn'[k].up \in {<<>>, <<ds>>}
      PROVE  ClientTypes' /\ ClientOk(c)' /\ \A d \in Clients : d # c => ClientSame(d)
  <2>1. ClientTypes'
    BY <1>2, <1>4, <1>8 DEF ClientTypes
  <2>2. pc'[c] = "recv" /\ ev' = ev /\ sock'[c] = k /\ got' = got /\ served' = served
    BY <1>1, <1>2, <1>4, <1>8 DEF ClientTypes
  <2>3. Progress(c)'
    BY <1>2, <2>2 DEF IInv, ClientOk, Progress
  <2>4. Waiting(c)'
    <3>1. /\ \A i \in 1 .. Len(conn'[k].down) : conn'[k].down[i] = Result(ds)
          /\ \A i \in 1 .. Len(conn'[k].up) : conn'[k].up[i] = ds
      BY <1>8
    <3>2. \A s \in Servers : job'[s].sock # k
      BY <1>6 DEF InJob
    <3> QED BY <1>6, <1>7, <1>8, <2>2, <3>1, <3>2 DEF Waiting
  <2>5. \A d \in Clients : d # c => ClientSame(d)
    BY <1>2, <1>4, <1>8 DEF ClientSame, ClientTypes
  <2> QED BY <2>1, <2>2, <2>3, <2>4, <2>5 DEF ClientOk, Probing, Chosen
<1>9. CASE /\ ~MaySend(c) /\ pc' = [pc EXCEPT ![c] = "recv"]
           /\ UNCHANGED <<retries, host, probe, best, minLoad, conn, offers>>
  <2>1. /\ Losing /\ ConnTypes' /\ \A d, j : Own(d, j)' <=> Own(d, j)
    BY <1>2, <1>9, IdleFacts
  <2>2. ClientTypes' /\ ClientOk(c)' /\ \A d \in Clients : d # c => ClientSame(d)
    BY <1>3, <1>8, <1>9, <2>1
  <2>3. TypeOK'
    BY <1>5, <2>1, <2>2, TypeParts
  <2> QED BY <1>2, <2>1, <2>2, <2>3, LosingInv
<1>10. CASE /\ MaySend(c) /\ retries' = Counted(c) /\ StartPick(c) /\ UNCHANGED conn
  BY <1>2, <1>10, RetryInv DEF MaySend
<1>11. ASSUME NEW reset \in BOOLEAN,
              conn' = [conn EXCEPT ![k].creset = reset,
                                   ![k].up = IF conn[k].sopen /\ ~conn[k].sreset
                                             THEN Append(@, <<c, ev[c]>>) ELSE @],
              pc' = [pc EXCEPT ![c] = "recv"],
              UNCHANGED <<retries, host, probe, best, minLoad, offers>>
       PROVE  IInv'
  <2>1. PICK u : u = IF conn[k].sopen /\ ~conn[k].sreset THEN <<ds>> ELSE <<>>
    OBVIOUS
  <2>2. PICK r : r = [conn[k] EXCEPT !.creset = reset, !.up = u]
    OBVIOUS
  <2>3. conn \in [Live -> Connection] /\ conn[k] \in Connection
    BY <1>3 DEF IInv, TypeOK
  <2>4. u \in Seq(DS) /\ u \in {<<>>, <<ds>>}
    <3>1. Len(got[c]) = ev[c] - 1 /\ Len(got[c]) \in Nat /\ ev[c] \in 0 .. NEvents
      BY <1>2, <1>4 DEF IInv, ClientOk, Progress, ClientTypes
    <3>2. ds \in DS
      BY <1>7, <3>1, NetAssumption DEF DS, Event
    <3> QED BY <2>1, <3>2
  <2>5. r \in Connection
    BY <2>2, <2>3, <2>4 DEF Connection
  <2>6. /\ r.up = u /\ r.down = conn[k].down /\ r.client = conn[k].client
        /\ r.server = conn[k].server /\ r.copen = conn[k].copen /\ r.sopen = conn[k].sopen
    BY <2>2, <2>3 DEF Connection
  <2>7. conn' = [conn EXCEPT ![k] = r]
    <3>1. Append(<<>>, ds) = <<ds>>
      OBVIOUS
    <3>2. u = IF conn[k].sopen /\ ~conn[k].sreset
              THEN Append(conn[k].up, <<c, ev[c]>>) ELSE conn[k].up
      BY <1>3, <1>7, <2>1, <3>1
    <3> QED BY <1>11, <2>2, <2>3, <3>2 DEF Connection
  <2>8. /\ Live' = Live /\ ConnTypes' /\ conn'[k] = r
        /\ \A j \in Live : j # k => conn'[j] = conn[j]
    BY <1>3, <2>5, <2>7, PutFacts
  <2>9. Own(c, k)'
    BY <1>3, <2>6, <2>8 DEF Own
  <2>10. ClientTypes' /\ ClientOk(c)' /\ \A d \in Clients : d # c => ClientSame(d)
    BY <1>3, <1>8, <1>11, <2>4, <2>6, <2>8, <2>9
  <2>11. TypeOK'
    BY <1>5, <2>8, <2>10, TypeParts
  <2>12. ServedGrows
    BY <1>2, <1>4 DEF ServedGrows, CountTypes
  <2>13. \A j \in Live : j # k => Fewer(j)
    BY <1>2, <2>8 DEF Fewer, serverVars
  <2>14. \A j : Queued(j)' <=> Queued(j)
    BY <1>2 DEF Queued, serverVars
  <2>15. ASSUME NEW d \in Clients, d # c PROVE Unseen(d)
    <3>1. ASSUME NEW j \in Live, Own(d, j) PROVE Own(d, j)' /\ Fewer(j)
      BY <1>3, <2>8, <2>13, <2>15, <3>1 DEF Own
    <3> QED BY <2>10, <2>14, <2>15, <3>1 DEF Unseen
  <2>16. ASSUME NEW s \in Servers PROVE Undisturbed(s)
    BY <1>2, <1>3, <2>6, <2>8, <2>13 DEF Undisturbed, ServerSame, serverVars
  <2>17. Flight(k)'
    <3>1. Len(u) <= 1
      <4>1. Len(<<ds>>) <= 1 /\ Len(<<>>) <= 1
        OBVIOUS
      <4>2. CASE u = <<>>
        BY <4>1, <4>2, Zenon
      <4>3. CASE u = <<ds>>
        BY <4>1, <4>3, Zenon
      <4> QED BY <2>4, <4>2, <4>3
    <3>2. conn'[k].down = <<>> /\ conn'[k].up = u
      BY <1>3, <2>6, <2>8
    <3>3. Len(u) + Len(<<>>) <= 1
      BY <2>4, <3>1
    <3> QED BY <1>6, <3>2, <3>3 DEF Flight
  <2> QED BY <2>8, <2>10, <2>11, <2>12, <2>13, <2>15, <2>16, <2>17, KeepAll
<1> QED BY <1>1, <1>9, <1>10, <1>11 DEF Send

\* The header, or the end of the connection instead.
LEMMA ReadHeaderInv == ASSUME IInv, NEW c \in Clients, ReadHeader(c) PROVE IInv'
<1>1. PICK k : k = probe[c]
  OBVIOUS
<1>2. /\ pc[c] = "header" /\ UNCHANGED <<ev, retries, sock, serverVars, faults, served, got>>
      /\ host' = [host EXCEPT ![c] = @ + 1] /\ probe' = [probe EXCEPT ![c] = None]
      /\ pc' = [pc EXCEPT ![c] = "pick"]
  BY DEF ReadHeader
<1>3. /\ Own(c, k) /\ k \in Live /\ k # best[c] /\ conn[k].client = c
      /\ \A i \in 1 .. Len(conn[k].down) : conn[k].down[i].kind = "header"
  BY <1>1, <1>2 DEF IInv, ClientOk, Probing, Own
<1>4. ClientTypes /\ CountTypes /\ ServerTypes
  BY TypeParts DEF IInv
<1>5. ServerTypes' /\ CountTypes'
  BY <1>2, <1>4 DEF ServerTypes, CountTypes, serverVars
<1>6. ASSUME NEW b \in Conns \cup {None}, best' = [best EXCEPT ![c] = b],
             b # None => Own(c, b)' /\ Quiet(b)'
      PROVE  ClientOk(c)'
  <2>1. pc'[c] = "pick" /\ best'[c] = b /\ ev' = ev /\ got' = got /\ served' = served
    BY <1>2, <1>4, <1>6 DEF ClientTypes
  <2>2. Progress(c)'
    BY <1>2, <2>1 DEF IInv, ClientOk, Progress
  <2>3. Chosen(c)'
    BY <1>6, <2>1 DEF Chosen
  <2> QED BY <2>1, <2>2, <2>3 DEF ClientOk, Probing, Waiting
<1>7. ASSUME NEW b \in Conns \cup {None}, best' = [best EXCEPT ![c] = b],
             minLoad' \in [Clients -> Loads], offers' \in [Clients -> SUBSET Loads]
      PROVE  ClientTypes' /\ \A d \in Clients : d # c => ClientSame(d)
  <2>1. host[c] + 1 \in 1 .. Len(HostList) + 1
    <3>1. host[c] <= Len(HostList)
      BY <1>2 DEF IInv, ClientOk, Probing
    <3>2. Len(HostList) \in Nat /\ host[c] \in 1 .. Len(HostList) + 1
      BY <1>4, NetAssumption DEF ClientTypes
    <3>3. PICK n : n = Len(HostList)
      OBVIOUS
    <3> QED BY <3>1, <3>2, <3>3
  <2>2. ClientTypes'
    BY <1>2, <1>4, <1>7, <2>1 DEF ClientTypes
  <2>3. \A d \in Clients : d # c => ClientSame(d)
    BY <1>2, <1>4, <1>7 DEF ClientSame, ClientTypes
  <2> QED BY <2>2, <2>3
<1>8. CASE ClientHasData(k) /\ ~ClientSeesEnd(k)
  <2>1. PICK load : load = Head(conn[k].down).load
    OBVIOUS
  <2>2. PICK better \in BOOLEAN : better = (best[c] = None \/ Less(load, minLoad[c]))
    OBVIOUS
  <2>3. PICK lost : lost = Loser(c, k, better)
    OBVIOUS
  <2>4. PICK b : b = IF better THEN k ELSE best[c]
    OBVIOUS
  <2>5. /\ best' = [best EXCEPT ![c] = b]
        /\ minLoad' = [minLoad EXCEPT ![c] = IF better THEN load ELSE @]
        /\ conn' = CloseClientEnds(Taken(k), {lost})
        /\ offers' = [offers EXCEPT ![c] = @ \cup {load}]
    BY <1>1, <1>8, <2>1, <2>2, <2>3, <2>4 DEF ReadHeader
  <2>6. conn[k].down # <<>>
    BY <1>8 DEF ClientHasData
  <2>7. /\ Head(conn[k].down) = conn[k].down[1] /\ Head(conn[k].down) \in Message
        /\ 1 \in 1 .. Len(conn[k].down) /\ ~InJob(k) /\ ~Queued(k) /\ conn[k].up = <<>>
        /\ Taken(k) \in [Live -> Connection]
        /\ Taken(k)[k].down = <<>> /\ Taken(k)[k].up = <<>>
        /\ Taken(k)[k].client = conn[k].client /\ Taken(k)[k].server = conn[k].server
        /\ Taken(k)[k].copen = conn[k].copen /\ Taken(k)[k].sopen = conn[k].sopen
        /\ \A j \in Live : j # k => Taken(k)[j] = conn[j]
    BY <1>3, <2>6, TakenFacts
  <2>8. load \in Loads
    <3>1. Head(conn[k].down).kind = "header"
      BY <1>3, <2>7
    <3> QED BY <2>1, <2>7, <3>1, MessageFacts
  <2>9. /\ Losing /\ ConnTypes'
        /\ \A d, j : Own(d, j) /\ j # lost => Own(d, j)' /\ conn'[j] = Taken(k)[j]
    <3>1. PICK cs : cs = Taken(k)
      OBVIOUS
    <3>2. \A j \in Live :
            /\ cs[j].client = conn[j].client /\ cs[j].server = conn[j].server
            /\ cs[j].sopen = conn[j].sopen /\ cs[j].copen = conn[j].copen
            /\ cs[j].up \in {conn[j].up, <<>>} /\ cs[j].down \in {conn[j].down, <<>>}
      BY <2>7, <3>1
    <3>3. cs \in [Live -> Connection] /\ conn' = CloseClientEnds(cs, {lost})
      BY <2>5, <2>7, <3>1
    <3>4. /\ Losing /\ ConnTypes'
          /\ \A d, j : Own(d, j) /\ j \notin {lost} => Own(d, j)' /\ conn'[j] = cs[j]
      BY <3>2, <3>3, CloseIsLosing
    <3> QED BY <3>1, <3>4
  <2>10. k \in Conns /\ k # None /\ best[c] \in Conns \cup {None}
    BY <1>3, <1>4, LiveFacts DEF ClientTypes
  <2>11. b \in Conns \cup {None} /\ b # None /\ b # lost
    BY <1>3, <2>2, <2>3, <2>4, <2>10 DEF Loser
  <2>12. lost \in {k, best[c]} /\ (lost # None => Own(c, lost))
    <3>1. best[c] # None => Own(c, best[c])
      BY <1>2 DEF IInv, ClientOk, Chosen
    <3> QED BY <1>3, <2>2, <2>3, <3>1 DEF Loser
  <2>13. Own(c, b) /\ ~InJob(b) /\ ~Queued(b) /\ Taken(k)[b].up = <<>> /\ Taken(k)[b].down = <<>>
    <3>1. CASE better
      BY <1>3, <2>4, <2>7, <3>1
    <3>2. CASE ~better
      <4>1. b = best[c] /\ b # k
        BY <1>3, <2>4, <3>2
      <4>2. Own(c, b) /\ Quiet(b)
        BY <1>2, <2>11, <4>1 DEF IInv, ClientOk, Chosen
      <4> QED BY <2>7, <4>1, <4>2 DEF Quiet, Own
    <3> QED BY <2>2, <3>1, <3>2
  <2>14. Own(c, b)' /\ Quiet(b)'
    <3>1. Own(c, b)' /\ conn'[b] = Taken(k)[b]
      BY <2>9, <2>11, <2>13
    <3>2. conn'[b].up = <<>> /\ conn'[b].down = <<>>
      BY <2>13, <3>1
    <3> QED BY <1>2, <2>13, <3>1, <3>2, KeptQuiet
  <2>15. ClientOk(c)'
    BY <1>6, <2>5, <2>11, <2>14
  <2>16. minLoad' \in [Clients -> Loads] /\ offers' \in [Clients -> SUBSET Loads]
    BY <1>4, <2>5, <2>8 DEF ClientTypes
  <2>17. ClientTypes' /\ \A d \in Clients : d # c => ClientSame(d)
    BY <1>7, <2>5, <2>11, <2>16
  <2>18. TypeOK'
    BY <1>5, <2>9, <2>17, TypeParts
  <2>19. ASSUME NEW d \in Clients, d # c, NEW j, Own(d, j) PROVE Own(d, j)'
    <3>1. CASE j = None
      BY <2>19, <3>1, LiveFacts DEF Own
    <3>2. CASE j # None
      <4>1. j # lost
        BY <2>12, <2>19, <3>2 DEF Own
      <4> QED BY <2>9, <2>19, <4>1
    <3> QED BY <3>1, <3>2
  <2> QED BY <1>2, <2>9, <2>15, <2>17, <2>18, <2>19, LosingInv
<1>9. CASE ClientSeesEnd(k)
  <2> SUFFICES ASSUME conn' = CloseClientEnds(conn, {k}), UNCHANGED <<best, minLoad, offers>>
               PROVE  IInv'
    BY <1>1, <1>8, <1>9 DEF ReadHeader, ClientHasData, ClientSeesEnd
  <2>1. /\ Losing /\ ConnTypes'
        /\ \A d, j : Own(d, j) /\ j # k => Own(d, j)' /\ conn'[j] = conn[j]
    <3>1. conn \in [Live -> Connection]
      BY DEF IInv, TypeOK
    <3>2. /\ Losing /\ ConnTypes'
          /\ \A d, j : Own(d, j) /\ j \notin {k} => Own(d, j)' /\ conn'[j] = conn[j]
      BY <3>1, CloseIsLosing
    <3> QED BY <3>2
  <2>2. PICK b : b = best[c]
    OBVIOUS
  <2>3. b \in Conns \cup {None} /\ best' = [best EXCEPT ![c] = b]
    BY <1>4, <2>2 DEF ClientTypes
  <2>4. ASSUME b # None PROVE Own(c, b)' /\ Quiet(b)'
    <3>1. Own(c, b) /\ Quiet(b)
      BY <1>2, <2>2, <2>4 DEF IInv, ClientOk, Chosen
    <3>2. Own(c, b)' /\ conn'[b] = conn[b]
      BY <1>3, <2>1, <2>2, <3>1
    <3>3. ~InJob(b) /\ ~Queued(b) /\ conn'[b].up = <<>> /\ conn'[b].down = <<>>
      BY <3>1, <3>2 DEF Quiet
    <3> QED BY <1>2, <3>2, <3>3, KeptQuiet
  <2>5. ClientOk(c)'
    BY <1>6, <2>3, <2>4
  <2>6. minLoad' \in [Clients -> Loads] /\ offers' \in [Clients -> SUBSET Loads]
    BY <1>4 DEF ClientTypes
  <2>7. ClientTypes' /\ \A d \in Clients : d # c => ClientSame(d)
    BY <1>7, <2>3, <2>6
  <2>8. TypeOK'
    BY <1>5, <2>1, <2>7, TypeParts
  <2>9. ASSUME NEW d \in Clients, d # c, NEW j, Own(d, j) PROVE Own(d, j)'
    BY <1>3, <2>1, <2>9 DEF Own
  <2> QED BY <1>2, <2>1, <2>5, <2>7, <2>8, <2>9, LosingInv
<1> QED BY <1>1, <1>8, <1>9 DEF ReadHeader

\* A server that is down is passed over; another gets a new connection.
LEMMA ConnectInv == ASSUME IInv, NEW c \in Clients, Connect(c) PROVE IInv'
<1>1. PICK s : s = HostList[host[c]]
  OBVIOUS
<1>2. /\ pc[c] = "pick" /\ host[c] <= Len(HostList)
      /\ UNCHANGED <<ev, retries, sock, best, minLoad, spc, sockets, job, error,
                     faults, offers, served, got>>
  BY DEF Connect
<1>3. ClientTypes /\ CountTypes /\ ServerTypes /\ ConnTypes
  BY TypeParts DEF IInv
<1>4. host[c] \in 1 .. Len(HostList) /\ host[c] + 1 \in 1 .. Len(HostList) + 1
  <2>1. host[c] \in 1 .. Len(HostList) + 1 /\ Len(HostList) \in Nat
    BY <1>3, NetAssumption DEF ClientTypes
  <2>2. PICK n : n = Len(HostList)
    OBVIOUS
  <2> QED BY <1>2, <2>1, <2>2
<1>5. s \in Servers
  BY <1>1, <1>4, NetAssumption
<1>6. CASE /\ ~Up(s) /\ host' = [host EXCEPT ![c] = @ + 1]
           /\ UNCHANGED <<pc, probe, conn, backlog>>
  <2>1. UNCHANGED <<conn, serverVars>> /\ UNCHANGED served
    BY <1>2, <1>6 DEF serverVars
  <2>2. /\ Losing /\ ConnTypes' /\ ServerTypes'
        /\ \A d, k : Own(d, k)' <=> Own(d, k)
        /\ \A k : Quiet(k)' <=> Quiet(k)
    BY <2>1, IdleFacts
  <2>3. ClientTypes' /\ CountTypes'
    BY <1>2, <1>3, <1>4, <1>6 DEF ClientTypes, CountTypes
  <2>4. TypeOK'
    BY <2>2, <2>3, TypeParts
  <2>5. ClientOk(c)'
    <3>1. Chosen(c)'
      <4>1. PICK b : b = best[c] /\ b = best'[c]
        BY <1>2
      <4>2. b # None => Own(c, b)' /\ Quiet(b)'
        BY <1>2, <2>2, <4>1 DEF IInv, ClientOk, Chosen
      <4> QED BY <1>2, <1>6, <4>1, <4>2 DEF Chosen
    <3>2. Progress(c)'
      BY <1>2, <1>6 DEF IInv, ClientOk, Progress
    <3> QED BY <1>2, <1>6, <3>1, <3>2 DEF ClientOk, Probing, Waiting
  <2>6. ASSUME NEW d \in Clients, d # c PROVE ClientSame(d)
    BY <1>2, <1>3, <1>6, <2>6 DEF ClientSame, ClientTypes
  <2> QED BY <2>1, <2>2, <2>4, <2>5, <2>6, LosingInv
<1>7. ASSUME Conns \ Live # {},
             conn' = [k \in Live \cup {Fresh} |->
                        IF k = Fresh THEN NewConn(c, s) ELSE conn[k]],
             backlog' = [backlog EXCEPT ![s] = Append(@, Fresh)],
             probe' = [probe EXCEPT ![c] = Fresh],
             pc' = [pc EXCEPT ![c] = "header"], UNCHANGED host
      PROVE  IInv'
  <2>1. PICK f : f = Fresh
    OBVIOUS
  <2>2. f \in Conns /\ f \notin Live /\ f # None
    BY <1>7, <2>1, NetAssumption DEF Fresh
  <2>3. PICK new : new = NewConn(c, s)
    OBVIOUS
  <2>4. /\ new \in Connection /\ new.client = c /\ new.server = s /\ new.copen /\ new.sopen
        /\ new.up = <<>> /\ new.down = <<>>
    <3>1. <<>> \in Seq(DS) /\ <<>> \in Seq(Message) /\ TRUE \in BOOLEAN /\ FALSE \in BOOLEAN
      OBVIOUS
    <3> QED BY <1>5, <2>3, <3>1 DEF NewConn, Connection
  <2>5. /\ Live' = Live \cup {f} /\ ConnTypes' /\ conn'[f] = new
        /\ \A j \in Live : conn'[j] = conn[j]
    <3>1. conn' = [k \in Live \cup {f} |-> IF k = f THEN new ELSE conn[k]]
      BY <1>7, <2>1, <2>3
    <3>2. Live' = Live \cup {f}
      BY <3>1 DEF Live
    <3>3. conn'[f] = new /\ \A j \in Live : conn'[j] = conn[j]
      BY <2>2, <3>1
    <3>4. conn' \in [Live \cup {f} -> Connection]
      BY <1>3, <2>4, <3>1 DEF ConnTypes
    <3> QED BY <1>3, <2>2, <3>2, <3>3, <3>4 DEF ConnTypes
  <2>6. /\ backlog[s] \in Seq(Conns) /\ backlog'[s] = Append(backlog[s], f)
        /\ Len(backlog[s]) \in Nat
        /\ \A t \in Servers : t # s => backlog'[t] = backlog[t]
    BY <1>3, <1>5, <1>7, <2>1 DEF ServerTypes
  <2>7. TypeOK'
    <3>1. ClientTypes'
      BY <1>2, <1>3, <1>7, <2>1, <2>2 DEF ClientTypes
    <3>2. ServerTypes'
      <4>1. Append(backlog[s], f) \in Seq(Conns)
        BY <2>2, <2>6
      <4>2. backlog' \in [Servers -> Seq(Conns)]
        BY <1>3, <1>7, <2>1, <4>1 DEF ServerTypes
      <4> QED BY <1>2, <1>3, <4>2 DEF ServerTypes
    <3>3. CountTypes'
      BY <1>2, <1>3 DEF CountTypes
    <3> QED BY <2>5, <3>1, <3>2, <3>3, TypeParts
  <2>8. /\ Len(backlog'[s]) = Len(backlog[s]) + 1
        /\ \A i \in 1 .. Len(backlog'[s]) :
             backlog'[s][i] = IF i \in 1 .. Len(backlog[s]) THEN backlog[s][i] ELSE f
    BY <2>2, <2>6
  <2>9. \A j \in Live : Queued(j)' => Queued(j)
    <3> SUFFICES ASSUME NEW j \in Live, NEW t \in Servers,
                        NEW i \in 1 .. Len(backlog'[t]), backlog'[t][i] = j
                 PROVE  Queued(j)
      BY DEF Queued
    <3>1. i \in 1 .. Len(backlog[t]) /\ backlog[t][i] = j
      BY <2>2, <2>6, <2>8
    <3> QED BY <3>1 DEF Queued
  <2>10. ~InJob(f)' /\ f \notin sockets[s]
         /\ \A i \in 1 .. Len(backlog[s]) : backlog[s][i] # f
    <3>1. \A t \in Servers : Accepted(t) /\ Answering(t) /\ Backlog(t)
      BY DEF IInv
    <3>2. \A t \in Servers : f \notin sockets[t]
      BY <2>2, <3>1 DEF Accepted
    <3>3. \A t \in Servers : job[t].sock # f
      BY <2>2, <3>1, <3>2, MessageFacts DEF Answering
    <3>4. \A i \in 1 .. Len(backlog[s]) : backlog[s][i] # f
      BY <1>5, <2>2, <3>1 DEF Backlog
    <3> QED BY <1>2, <1>5, <3>2, <3>3, <3>4 DEF InJob
  <2>11. \A j \in Live : Fewer(j)
    BY <1>2, <2>5 DEF Fewer
  <2>12. ServedGrows
    BY <1>2, <1>3 DEF ServedGrows, CountTypes
  <2>13. ClientOk(c)'
    <3>1. /\ pc'[c] = "header" /\ probe'[c] = f /\ best' = best /\ ev' = ev /\ got' = got
          /\ served' = served /\ host' = host
      BY <1>2, <1>3, <1>7, <2>1 DEF ClientTypes
    <3>2. PICK b : b = best[c]
      OBVIOUS
    <3>3. b # None => Own(c, b) /\ Quiet(b)
      BY <1>2, <3>2 DEF IInv, ClientOk, Chosen
    <3>4. f # b
      BY <2>2, <3>3 DEF Own
    <3>5. b # None => (Own(c, b) /\ Quiet(b))'
      <4>1. ASSUME b # None PROVE (Own(c, b) /\ Quiet(b))'
        <5>1. b \in Live /\ conn'[b] = conn[b] /\ b \in Live' /\ conn[b].client = c
          BY <2>5, <3>3, <4>1 DEF Own
        <5>2. ~InJob(b)' /\ ~Queued(b)'
          BY <1>2, <2>9, <3>3, <4>1, <5>1 DEF Quiet, InJob
        <5> QED BY <3>3, <4>1, <5>1, <5>2 DEF Own, Quiet
      <4> QED BY <4>1
    <3>6. Probing(c)'
      <4>1. Own(c, f)'
        BY <2>4, <2>5 DEF Own
      <4>2. conn'[f].up = <<>> /\ \A i \in 1 .. Len(conn'[f].down) : conn'[f].down[i].kind = "header"
        BY <2>4, <2>5
      <4> QED BY <1>2, <2>10, <3>1, <3>2, <3>4, <4>1, <4>2 DEF Probing
    <3>7. Progress(c)'
      BY <1>2, <3>1 DEF IInv, ClientOk, Progress
    <3> QED BY <3>1, <3>2, <3>5, <3>6, <3>7 DEF ClientOk, Chosen, Waiting
  <2>14. ASSUME NEW d \in Clients, d # c PROVE Unseen(d)
    <3>1. ClientSame(d)
      BY <1>2, <1>3, <1>7, <2>14 DEF ClientSame, ClientTypes
    <3> QED BY <2>5, <2>9, <2>11, <3>1 DEF Unseen, Own
  <2>15. ASSUME NEW t \in Servers, t # s PROVE Undisturbed(t)
    BY <1>2, <2>5, <2>6, <2>11, <2>15 DEF Undisturbed, ServerSame
  <2>16. (Backlog(s) /\ Accepted(s) /\ Answering(s))'
    <3>1. Backlog(s) /\ Accepted(s) /\ Answering(s)
      BY <1>5 DEF IInv
    <3>2. Accepted(s)'
      BY <1>2, <2>5, <3>1 DEF Accepted
    <3>3. Answering(s)'
      BY <1>2, <3>1 DEF Answering
    <3>4. ASSUME NEW i \in 1 .. Len(backlog'[s])
          PROVE  LET k == backlog'[s][i] IN
                 /\ k \in Live' /\ conn'[k].server = s /\ conn'[k].sopen
                 /\ k \notin sockets'[s] /\ conn'[k].up = <<>> /\ conn'[k].down = <<>>
      <4>1. CASE i \in 1 .. Len(backlog[s])
        BY <1>2, <2>5, <2>8, <3>1, <4>1 DEF Backlog
      <4>2. CASE i \notin 1 .. Len(backlog[s])
        BY <1>2, <2>4, <2>5, <2>8, <2>10, <4>2
      <4> QED BY <4>1, <4>2
    <3>5. ASSUME NEW i \in 1 .. Len(backlog'[s]), NEW j \in 1 .. Len(backlog'[s]),
                 backlog'[s][i] = backlog'[s][j]
          PROVE  i = j
      <4>1. CASE i \in 1 .. Len(backlog[s]) /\ j \in 1 .. Len(backlog[s])
        BY <2>8, <3>1, <3>5, <4>1 DEF Backlog
      <4>2. CASE i \notin 1 .. Len(backlog[s]) /\ j \notin 1 .. Len(backlog[s])
        BY <2>6, <2>8, <4>2
      <4>3. CASE ~(i \in 1 .. Len(backlog[s]) <=> j \in 1 .. Len(backlog[s]))
        BY <2>8, <2>10, <3>5, <4>3
      <4> QED BY <4>1, <4>2, <4>3
    <3> QED BY <3>2, <3>3, <3>4, <3>5 DEF Backlog
  <2>17. Flight(f)'
    <3>1. Len(<<>>) + Len(<<>>) <= 1 /\ \A i \in 1 .. Len(<<>>) : FALSE
      OBVIOUS
    <3> QED BY <2>4, <2>5, <2>10, <3>1 DEF Flight
  <2> QED BY <2>5, <2>7, <2>11, <2>12, <2>13, <2>14, <2>15, <2>16, <2>17, KeepAll
<1> QED BY <1>1, <1>6, <1>7 DEF Connect

-----------------------------------------------------------------------------
(* Steps of the servers.                                                   *)

\* A step of s that touches one of its connections, k, and no client.
LEMMA TouchInv ==
  ASSUME IInv, TypeOK', UNCHANGED clientVars, UNCHANGED got, ServedGrows,
         NEW s \in Servers, (Backlog(s) /\ Accepted(s) /\ Answering(s))',
         \A t \in Servers : t # s => ServerSame(t),
         NEW k \in Live, conn[k].server = s, Live' \subseteq Live,
         \A j \in Live : j # k =>
           /\ conn[j].copen \/ conn[j].sopen => j \in Live'
           /\ j \in Live' => conn'[j] = conn[j]
           /\ Queued(j)' => Queued(j)
           /\ job'[s].sock = j => job'[s] = job[s],
         k \in Live' => Fewer(k) \/ Flight(k)',
         \A c \in Clients : Own(c, k) /\ Knows(c, k) =>
           \/ ClientOk(c)'
           \/ Own(c, k)' /\ Fewer(k) /\ (Queued(k)' => Queued(k))
  PROVE  IInv'
<1>1. \A j \in Live : j # k /\ j \in Live' => Fewer(j)
  BY DEF Fewer, ServerSame
<1>2. \A c \in Clients : ClientSame(c)
  BY DEF ClientSame, clientVars
<1>3. ASSUME NEW c \in Clients PROVE Unseen(c) \/ ClientOk(c)'
  BY <1>1, <1>2 DEF Unseen, Own
<1>4. ASSUME NEW t \in Servers, t # s PROVE Undisturbed(t)
  BY <1>1, <1>4 DEF Undisturbed
<1>5. \A j \in Live' : (j \in Live /\ Fewer(j)) \/ Flight(j)'
  BY <1>1
<1> QED BY <1>3, <1>4, <1>5, KeepAll

\* The types after a step of a server that counts no failure.
LEMMA ServerTypesStep ==
  ASSUME IInv, UNCHANGED <<clientVars, offers, got>>, ServerTypes', ConnTypes', CountTypes'
  PROVE  TypeOK'
<1>1. ClientTypes
  BY TypeParts DEF IInv
<1>2. ClientTypes'
  BY <1>1 DEF ClientTypes, clientVars
<1> QED BY <1>2, TypeParts

\* Closing a server's end of one connection.
LEMMA DropFacts ==
  ASSUME IInv, NEW k \in Live, conn' = CloseServerEnds(conn, {k})
  PROVE  /\ Live' \subseteq Live /\ ConnTypes'
         /\ \A j \in Live : j # k =>
              /\ conn[j].copen \/ conn[j].sopen => j \in Live'
              /\ j \in Live' => conn'[j] = conn[j]
         /\ \A c : Own(c, k) => Own(c, k)'
         /\ k \in Live' => /\ conn'[k].up \in {conn[k].up, <<>>}
                           /\ conn'[k].down \in {conn[k].down, <<>>}
<1>1. PICK D, cs, now, K : D = Live /\ cs = conn /\ now = conn' /\ K = {k}
  OBVIOUS
<1>2. D \in SUBSET Conns /\ cs \in [D -> Connection] /\ now = CloseServerEnds(cs, K)
  BY <1>1 DEF IInv, TypeOK
<1>3. ServerEndsClosed(D, cs, K, now)
  BY <1>2, CloseServerFacts
<1>4. /\ Live' \subseteq Live /\ conn' \in [Live' -> Connection]
      /\ \A j \in Live : j \in Live' <=> conn[j].copen \/ (conn[j].sopen /\ j # k)
      /\ \A j \in Live' : conn'[j] = IF j = k THEN ServerClosed(conn[j]) ELSE conn[j]
  BY <1>1, <1>3 DEF Live, ServerEndsClosed
<1>5. ConnTypes'
  BY <1>4 DEF ConnTypes, IInv, TypeOK
<1>6. \A j \in Live : conn[j] \in Connection
  BY DEF IInv, TypeOK
<1>7. ASSUME k \in Live'
      PROVE  /\ conn'[k].up \in {conn[k].up, <<>>} /\ conn'[k].down \in {conn[k].down, <<>>}
             /\ conn'[k].client = conn[k].client /\ conn'[k].copen = conn[k].copen
  <2>1. conn'[k] = ServerClosed(conn[k]) /\ conn[k] \in Connection
    BY <1>4, <1>6, <1>7
  <2> QED BY <2>1, ClosedFacts
<1>8. \A c : Own(c, k) => Own(c, k)'
  BY <1>4, <1>7 DEF Own
<1> QED BY <1>4, <1>5, <1>7, <1>8

\* The end of a server process, for whatever reason.
LEMMA EndServerInv ==
  ASSUME IInv, NEW s \in Servers, EndServer(s), UNCHANGED <<clientVars, offers, served, got>>,
         faults' \in 0 .. MaxFaults
  PROVE  IInv'
<1>1. /\ spc' = [spc EXCEPT ![s] = "down"] /\ sockets' = [sockets EXCEPT ![s] = {}]
      /\ backlog' = [backlog EXCEPT ![s] = <<>>] /\ job' = [job EXCEPT ![s] = NoJob]
      /\ error' = [error EXCEPT ![s] = FALSE]
      /\ conn' = CloseServerEnds(conn, OfServer(s))
  BY DEF EndServer
<1>2. ServerTypes /\ ConnTypes /\ CountTypes
  BY TypeParts DEF IInv
<1>3. PICK D, cs, now, K : D = Live /\ cs = conn /\ now = conn' /\ K = OfServer(s)
  OBVIOUS
<1>4. D \in SUBSET Conns /\ cs \in [D -> Connection] /\ now = CloseServerEnds(cs, K)
  BY <1>1, <1>2, <1>3 DEF ConnTypes
<1>5. ServerEndsClosed(D, cs, K, now)
  BY <1>4, CloseServerFacts
<1>6. /\ Live' \subseteq Live /\ conn' \in [Live' -> Connection]
      /\ \A j \in Live : j \in Live' <=> conn[j].copen \/ (conn[j].sopen /\ conn[j].server # s)
      /\ \A j \in Live' : conn'[j] = IF conn[j].server = s THEN ServerClosed(conn[j]) ELSE conn[j]
  BY <1>3, <1>5 DEF Live, OfServer, ServerEndsClosed
<1>7. ConnTypes'
  BY <1>2, <1>6 DEF ConnTypes
<1>8. \A j \in Live' :
        /\ conn'[j].up \in {conn[j].up, <<>>} /\ conn'[j].down \in {conn[j].down, <<>>}
        /\ conn'[j].client = conn[j].client /\ conn'[j].copen = conn[j].copen
  <2>1. \A j \in Live : conn[j] \in Connection
    BY <1>2 DEF ConnTypes
  <2> QED BY <1>6, <2>1, ClosedFacts
<1>9. NoJob.sock = None /\ NoJob.answer = NullAnswer /\ NullAnswer.kind = "null"
      /\ NoJob \in [sock : Conns \cup {None}, answer : Message]
  BY MessageFacts DEF NoJob
<1>10. ServerTypes' /\ CountTypes'
  BY <1>1, <1>2, <1>9 DEF ServerTypes, CountTypes
<1>11. TypeOK'
  BY <1>7, <1>10, ServerTypesStep
<1>12. ServedGrows
  BY <1>2 DEF ServedGrows, CountTypes
<1>13. \A j \in Live' : j \in Live /\ Fewer(j)
  <2>1. \A j \in Live : j # None
    BY LiveFacts
  <2>2. \A t \in Servers : job'[t] = IF t = s THEN NoJob ELSE job[t]
    BY <1>1, <1>2 DEF ServerTypes
  <2> QED BY <1>6, <1>8, <1>9, <2>1, <2>2 DEF Fewer
<1>14. \A j : Queued(j)' => Queued(j)
  <2>1. \A t \in Servers : backlog'[t] = IF t = s THEN <<>> ELSE backlog[t]
    BY <1>1, <1>2 DEF ServerTypes
  <2>2. \A i \in 1 .. Len(<<>>) : FALSE
    OBVIOUS
  <2> QED BY <2>1, <2>2 DEF Queued
<1>15. ASSUME NEW c \in Clients PROVE Unseen(c)
  <2>1. ClientSame(c)
    BY DEF ClientSame, clientVars
  <2>2. \A j \in Live : Own(c, j) => Own(c, j)' /\ Fewer(j)
    BY <1>6, <1>8, <1>13 DEF Own
  <2> QED BY <1>14, <2>1, <2>2 DEF Unseen
<1>16. ASSUME NEW t \in Servers, t # s PROVE Undisturbed(t)
  <2>1. ServerSame(t)
    BY <1>1, <1>2, <1>16 DEF ServerSame, ServerTypes
  <2> QED BY <1>6, <1>13, <1>16, <2>1 DEF Undisturbed
<1>17. (Backlog(s) /\ Accepted(s) /\ Answering(s))'
  <2>1. /\ spc'[s] = "down" /\ sockets'[s] = {} /\ backlog'[s] = <<>> /\ job'[s] = NoJob
    BY <1>1, <1>2 DEF ServerTypes
  <2>2. IsFiniteSet({})
    BY FS_EmptySet
  <2> QED BY <1>9, <2>1, <2>2 DEF Backlog, Accepted, Answering
<1> QED BY <1>11, <1>12, <1>13, <1>15, <1>16, <1>17, KeepAll

\* A step of a server that moves its own flags only.
LEMMA FlagsInv ==
  ASSUME IInv, NEW s \in Servers,
         UNCHANGED <<clientVars, conn, sockets, backlog, job, offers, served, got>>,
         faults' \in 0 .. MaxFaults, error' \in [Servers -> BOOLEAN],
         NEW at \in {"accept", "select", "down"}, spc' = [spc EXCEPT ![s] = at],
         spc[s] # "reply"
  PROVE  IInv'
<1>1. ServerTypes /\ ConnTypes /\ CountTypes
  BY TypeParts DEF IInv
<1>2. Live' = Live
  BY DEF Live
<1>3. ServerTypes' /\ ConnTypes' /\ CountTypes'
  BY <1>1, <1>2 DEF ServerTypes, ConnTypes, CountTypes
<1>4. TypeOK'
  BY <1>3, ServerTypesStep
<1>5. ServedGrows
  BY <1>1 DEF ServedGrows, CountTypes
<1>6. \A k \in Live : Fewer(k)
  BY DEF Fewer
<1>7. \A c \in Clients : Unseen(c)
  BY <1>2, <1>6 DEF Unseen, Own, ClientSame, clientVars, Queued
<1>8. ASSUME NEW t \in Servers, t # s PROVE Undisturbed(t)
  <2>1. ServerSame(t)
    BY <1>1, <1>8 DEF ServerSame, ServerTypes
  <2> QED BY <1>2, <1>6, <2>1 DEF Undisturbed
<1>9. (Backlog(s) /\ Accepted(s) /\ Answering(s))'
  <2>1. Backlog(s) /\ Accepted(s) /\ Answering(s)
    BY DEF IInv
  <2>2. spc'[s] = at
    BY <1>1 DEF ServerTypes
  <2> QED BY <1>2, <2>1, <2>2 DEF Backlog, Accepted, Answering
<1> QED BY <1>2, <1>4, <1>5, <1>6, <1>7, <1>8, <1>9, KeepAll

\* A message from a server on a connection with nothing waiting in it.
LEMMA DownFacts ==
  ASSUME IInv, NEW k \in Live, NEW m \in Message, conn[k].down = <<>>, Down(k, m)
  PROVE  /\ Live' = Live /\ ConnTypes'
         /\ \A j \in Live : j # k => conn'[j] = conn[j]
         /\ conn'[k].down \in {<<>>, <<m>>} /\ conn'[k].up = conn[k].up
         /\ conn'[k].client = conn[k].client /\ conn'[k].server = conn[k].server
         /\ conn'[k].copen = conn[k].copen /\ conn'[k].sopen = conn[k].sopen
<1>1. PICK reset \in BOOLEAN :
        conn' = [conn EXCEPT ![k].sreset = reset,
                             ![k].down = IF conn[k].copen /\ ~conn[k].creset
                                         THEN Append(@, m) ELSE @]
  BY DEF Down
<1>2. PICK d : d = IF conn[k].copen /\ ~conn[k].creset THEN <<m>> ELSE <<>>
  OBVIOUS
<1>3. PICK r : r = [conn[k] EXCEPT !.sreset = reset, !.down = d]
  OBVIOUS
<1>4. conn \in [Live -> Connection] /\ conn[k] \in Connection
  BY DEF IInv, TypeOK
<1>5. d \in Seq(Message) /\ d \in {<<>>, <<m>>}
  BY <1>2
<1>6. r \in Connection
  BY <1>3, <1>4, <1>5 DEF Connection
<1>7. /\ r.down = d /\ r.up = conn[k].up /\ r.client = conn[k].client
      /\ r.server = conn[k].server /\ r.copen = conn[k].copen /\ r.sopen = conn[k].sopen
  BY <1>3, <1>4 DEF Connection
<1>8. conn' = [conn EXCEPT ![k] = r]
  <2>1. Append(<<>>, m) = <<m>>
    OBVIOUS
  <2>2. d = IF conn[k].copen /\ ~conn[k].creset THEN Append(conn[k].down, m) ELSE conn[k].down
    BY <1>2, <2>1
  <2> QED BY <1>1, <1>3, <1>4, <2>2 DEF Connection
<1> QED BY <1>5, <1>6, <1>7, <1>8, PutFacts

\* Connection k leaves the head of s's backlog and, at most, joins its sockets;
\* of the others only a connection closed at both ends may go.
Popped(s, k) ==
  /\ backlog[s] # <<>> /\ k = Head(backlog[s]) /\ backlog' = [backlog EXCEPT ![s] = Tail(@)]
  /\ sockets'[s] \subseteq sockets[s] \cup {k}
  /\ \A j \in Live : j # k =>
       /\ conn[j].copen \/ conn[j].sopen => j \in Live'
       /\ j \in Live' => conn'[j] = conn[j]

\* Taking the first connection out of the backlog.
LEMMA PopFacts ==
  ASSUME IInv, NEW s \in Servers, NEW k, Popped(s, k)
  PROVE  /\ Backlog(s)' /\ \A j : Queued(j)' => Queued(j)
         /\ k \in Live /\ Queued(k) /\ conn[k].server = s /\ conn[k].sopen
         /\ k \notin sockets[s] /\ conn[k].up = <<>> /\ conn[k].down = <<>>
<1> USE DEF Popped
<1>1. Backlog(s) /\ backlog \in [Servers -> Seq(Conns)]
  BY DEF IInv, TypeOK
<1>2. PICK b, rest : b = backlog[s] /\ rest = Tail(backlog[s])
  OBVIOUS
<1>3. PICK n : n = Len(rest)
  OBVIOUS
<1>4. /\ n \in Nat /\ Len(b) = n + 1 /\ \A i \in 1 .. n : rest[i] = b[i + 1]
  <2>1. b \in Seq(Conns) /\ b # <<>>
    BY <1>1, <1>2
  <2>2. /\ Tail(b) \in Seq(Conns) /\ Len(Tail(b)) = Len(b) - 1 /\ Len(b) \in Nat
        /\ \A i \in 1 .. Len(Tail(b)) : Tail(b)[i] = b[i + 1]
    BY <2>1, HeadTailProperties, LenProperties
  <2>3. rest = Tail(b) /\ n = Len(Tail(b)) /\ n \in Nat
    BY <1>2, <1>3, <2>2, LenProperties
  <2>4. \A i \in 1 .. n : rest[i] = b[i + 1]
    BY <2>2, <2>3
  <2>5. Len(b) = n + 1
    BY <2>2, <2>3
  <2> QED BY <2>3, <2>4, <2>5
<1>5. k = b[1] /\ 1 \in 1 .. Len(b)
  BY <1>2, <1>4
<1>6. backlog'[s] = rest /\ \A t \in Servers : t # s => backlog'[t] = backlog[t]
  BY <1>1, <1>2
<1>7. /\ k \in Live /\ Queued(k) /\ conn[k].server = s /\ conn[k].sopen
      /\ k \notin sockets[s] /\ conn[k].up = <<>> /\ conn[k].down = <<>>
  <2>1. 1 \in 1 .. Len(backlog[s]) /\ backlog[s][1] = k
    BY <1>2, <1>5
  <2>2. Queued(k)
    BY <2>1 DEF Queued
  <2> QED BY <1>1, <2>1, <2>2 DEF Backlog
<1>8. \A j : Queued(j)' => Queued(j)
  <2> SUFFICES ASSUME NEW j, NEW t \in Servers, NEW i \in 1 .. Len(backlog'[t]), backlog'[t][i] = j
               PROVE  Queued(j)
    BY DEF Queued
  <2>1. CASE t = s
    <3>1. i \in 1 .. n /\ i + 1 \in 1 .. Len(b)
      BY <1>3, <1>4, <1>6, <2>1
    <3>2. b[i + 1] = j
      BY <1>4, <1>6, <2>1, <3>1
    <3> QED BY <1>2, <3>1, <3>2 DEF Queued
  <2>2. CASE t # s
    BY <1>6, <2>2 DEF Queued
  <2> QED BY <2>1, <2>2
<1>9. ASSUME NEW i \in 1 .. n
      PROVE  LET j == rest[i] IN
             /\ j \in Live' /\ conn'[j].server = s /\ conn'[j].sopen /\ j \notin sockets'[s]
             /\ conn'[j].up = <<>> /\ conn'[j].down = <<>>
  <2>1. PICK j : j = rest[i]
    OBVIOUS
  <2>2. i + 1 \in 1 .. Len(b) /\ j = b[i + 1] /\ i + 1 # 1
    BY <1>4, <2>1
  <2>3. j # k
    BY <1>1, <1>2, <1>5, <2>2 DEF Backlog
  <2>4. /\ j \in Live /\ conn[j].server = s /\ conn[j].sopen /\ j \notin sockets[s]
        /\ conn[j].up = <<>> /\ conn[j].down = <<>>
    BY <1>1, <1>2, <2>2 DEF Backlog
  <2>5. j \in Live' /\ conn'[j] = conn[j] /\ j \notin sockets'[s]
    BY <2>3, <2>4
  <2> QED BY <2>1, <2>4, <2>5
<1>10. ASSUME NEW i \in 1 .. n, NEW j \in 1 .. n, rest[i] = rest[j]
       PROVE  i = j
  <2>1. i + 1 \in 1 .. Len(b) /\ j + 1 \in 1 .. Len(b) /\ b[i + 1] = b[j + 1]
    BY <1>4, <1>10
  <2>2. i + 1 = j + 1
    BY <1>1, <1>2, <2>1 DEF Backlog
  <2> QED BY <2>2
<1>11. Backlog(s)'
  <2>1. \A i \in 1 .. Len(backlog'[s]) :
          LET j == backlog'[s][i] IN
          /\ j \in Live' /\ conn'[j].server = s /\ conn'[j].sopen /\ j \notin sockets'[s]
          /\ conn'[j].up = <<>> /\ conn'[j].down = <<>>
    BY <1>3, <1>6, <1>9
  <2>2. \A i, j \in 1 .. Len(backlog'[s]) : backlog'[s][i] = backlog'[s][j] => i = j
    <3> SUFFICES ASSUME NEW i \in 1 .. Len(backlog'[s]), NEW j \in 1 .. Len(backlog'[s]),
                        backlog'[s][i] = backlog'[s][j]
                 PROVE  i = j
      OBVIOUS
    <3>1. i \in 1 .. n /\ j \in 1 .. n /\ rest[i] = rest[j]
      BY <1>3, <1>6
    <3> QED BY <1>10, <3>1
  <2> QED BY <2>1, <2>2 DEF Backlog
<1> QED BY <1>7, <1>8, <1>11

\* The loads are the numbers a header has room for.
LEMMA LoadsFacts ==
  /\ \A n \in Loads : n \in Nat /\ n <= 4095
  /\ \A n \in Nat : n <= 4095 => n \in Loads
BY DEF Loads

\* The number of sockets a server holds is one of them.
LEMMA SocketsFit == ASSUME NEW K \in SUBSET Conns PROVE Cardinality(K) \in Loads
<1>1. IsFiniteSet(Conns) /\ Cardinality(Conns) \in Nat /\ Cardinality(Conns) <= 4095
  BY NetAssumption, LoadsFacts
<1>2. IsFiniteSet(K) /\ Cardinality(K) <= Cardinality(Conns)
  BY <1>1, FS_Subset
<1>3. Cardinality(K) \in Nat
  BY <1>2, FS_CardinalityType
<1>4. Cardinality(K) <= 4095
  BY <1>1, <1>2, <1>3
<1> QED BY <1>3, <1>4, LoadsFacts

\* The head of the server's loop.
LEMMA AcceptInv == ASSUME IInv, NEW s \in Servers, Accept(s) PROVE IInv'
<1>1. /\ spc[s] = "accept" /\ spc' = [spc EXCEPT ![s] = "select"]
      /\ UNCHANGED <<clientVars, job, error, faults, offers, served, got>>
  BY DEF Accept
<1>2. ServerTypes /\ ConnTypes /\ CountTypes
  BY TypeParts DEF IInv
<1>3. CASE UNCHANGED <<sockets, backlog, conn>>
  <2>1. faults' \in 0 .. MaxFaults /\ error' \in [Servers -> BOOLEAN]
    BY <1>1, <1>2 DEF ServerTypes, CountTypes
  <2> QED BY <1>1, <1>3, <2>1, FlagsInv
<1>4. ASSUME backlog[s] # <<>>, backlog' = [backlog EXCEPT ![s] = Tail(@)],
             NEW k, k = Head(backlog[s]), NEW K, K \subseteq {k},
             sockets' = [sockets EXCEPT ![s] = @ \cup K],
             Live' \subseteq Live, ConnTypes',
             \A j \in Live : j # k =>
               /\ conn[j].copen \/ conn[j].sopen => j \in Live'
               /\ j \in Live' => conn'[j] = conn[j],
             k \in K => k \in Live' /\ conn'[k].server = conn[k].server
                          /\ conn'[k].sopen = conn[k].sopen,
             k \in Live' => /\ conn'[k].up \in {conn[k].up, <<>>}
                            /\ \/ conn'[k].down \in {conn[k].down, <<>>}
                               \/ \E load \in Loads : conn'[k].down = <<Header(load)>>,
             \A c : Own(c, k) => Own(c, k)'
      PROVE  IInv'
  <2>1. sockets'[s] = sockets[s] \cup K /\ spc'[s] = "select"
        /\ \A t \in Servers : t # s => ServerSame(t)
    BY <1>1, <1>2, <1>4 DEF ServerTypes, ServerSame
  <2>2. /\ Backlog(s)' /\ \A j : Queued(j)' => Queued(j)
        /\ k \in Live /\ Queued(k) /\ conn[k].server = s /\ conn[k].sopen
        /\ k \notin sockets[s] /\ conn[k].up = <<>> /\ conn[k].down = <<>>
    <3>1. sockets'[s] \subseteq sockets[s] \cup {k}
      BY <1>4, <2>1
    <3>2. Popped(s, k)
      BY <1>4, <3>1 DEF Popped
    <3> QED BY <3>2, PopFacts
  <2>3. TypeOK'
    <3>1. backlog[s] \in Seq(Conns) /\ Tail(backlog[s]) \in Seq(Conns) /\ k \in Conns
      BY <1>2, <1>4, <2>2, HeadTailProperties DEF ServerTypes, ConnTypes
    <3>2. backlog' \in [Servers -> Seq(Conns)]
      BY <1>2, <1>4, <3>1 DEF ServerTypes
    <3>3. sockets' \in [Servers -> SUBSET Conns]
      BY <1>2, <1>4, <3>1 DEF ServerTypes
    <3>4. ServerTypes'
      BY <1>1, <1>2, <3>2, <3>3 DEF ServerTypes
    <3>5. CountTypes'
      BY <1>1, <1>2 DEF CountTypes
    <3> QED BY <1>1, <1>4, <3>4, <3>5, ServerTypesStep
  <2>4. ServedGrows
    BY <1>1, <1>2 DEF ServedGrows, CountTypes
  <2>5. Accepted(s) /\ Answering(s)
    BY DEF IInv
  <2>6. Accepted(s)'
    <3>1. IsFiniteSet(sockets[s] \cup K)
      <4>1. CASE K = {}
        BY <2>5, <4>1 DEF Accepted
      <4>2. CASE K = {k}
        BY <2>5, <4>2, FS_AddElement DEF Accepted
      <4> QED BY <1>4, <4>1, <4>2
    <3>2. ASSUME NEW j \in sockets[s] \cup K
          PROVE  j \in Live' /\ conn'[j].server = s /\ conn'[j].sopen
      <4>1. CASE j \in K
        BY <1>4, <2>2, <4>1
      <4>2. CASE j \notin K
        <5>1. j \in Live /\ conn[j].server = s /\ conn[j].sopen /\ j # k
          BY <2>2, <2>5, <4>2 DEF Accepted
        <5> QED BY <1>4, <5>1
      <4> QED BY <4>1, <4>2
    <3> QED BY <2>1, <3>1, <3>2 DEF Accepted
  <2>7. job[s] = NoJob
    BY <1>1, <2>5 DEF Answering
  <2>8. Answering(s)'
    BY <1>1, <2>1, <2>7, MessageFacts DEF Answering
  <2>9. ~InJob(k)
    <3> SUFFICES ASSUME NEW t \in Servers, job[t].sock = k PROVE FALSE
      BY DEF InJob
    <3>1. k # None
      BY <2>2, LiveFacts
    <3>2. job[t] # NoJob
      BY <3>1, MessageFacts
    <3>3. k \in sockets[t]
      BY <3>2 DEF IInv, Answering
    <3>4. conn[k].server = t
      BY <3>3 DEF IInv, Accepted
    <3> QED BY <2>2, <2>7, <3>2, <3>4
  <2>10. ~InJob(k)'
    BY <1>1, <2>9 DEF InJob
  <2>11. k \in Live' => Flight(k)'
    <3>1. ASSUME k \in Live' PROVE Flight(k)'
      <4>1. conn'[k].up = <<>>
        BY <1>4, <2>2, <3>1
      <4>2. \A m : Len(<<m>>) = 1 /\ Len(<<>>) = 0 /\ <<m>>[1] = m
        OBVIOUS
      <4>3. CASE conn'[k].down = <<>>
        BY <2>10, <4>1, <4>2, <4>3 DEF Flight
      <4>4. ASSUME NEW load \in Loads, conn'[k].down = <<Header(load)>> PROVE Flight(k)'
        <5>1. Header(load).kind # "event"
          BY MessageFacts
        <5> QED BY <2>10, <4>1, <4>2, <4>4, <5>1 DEF Flight
      <4> QED BY <1>4, <2>2, <3>1, <4>3, <4>4
    <3> QED BY <3>1
  <2>12. ASSUME NEW c \in Clients, Own(c, k), Knows(c, k) PROVE ClientOk(c)'
    <3>1. ClientSame(c) /\ served' = served
      BY <1>1 DEF ClientSame, clientVars
    <3>2. ClientOk(c)
      BY DEF IInv
    <3>3. pc[c] = "header" /\ k = probe[c]
      <4>1. ~Quiet(k)
        BY <2>2 DEF Quiet
      <4>2. k # None
        BY <2>2, LiveFacts
      <4> QED BY <2>2, <2>12, <3>2, <4>1, <4>2 DEF Knows, ClientOk, Chosen, Waiting
    <3>4. k # best[c] /\ host[c] <= Len(HostList)
      BY <3>2, <3>3 DEF ClientOk, Probing
    <3>5. Probing(c)'
      <4>1. Own(c, k)'
        BY <1>4, <2>12
      <4>2. k \in Live'
        BY <4>1 DEF Own
      <4>3. conn'[k].up = <<>>
        BY <1>4, <2>2, <4>2
      <4>4. \A i \in 1 .. Len(conn'[k].down) : conn'[k].down[i].kind = "header"
        <5>1. CASE conn'[k].down = <<>>
          BY <5>1
        <5>2. ASSUME NEW load \in Loads, conn'[k].down = <<Header(load)>>
              PROVE  \A i \in 1 .. Len(conn'[k].down) : conn'[k].down[i].kind = "header"
          <6>1. Header(load).kind = "header"
            BY MessageFacts
          <6>2. \A m : \A i \in 1 .. Len(<<m>>) : <<m>>[i] = m
            OBVIOUS
          <6> QED BY <5>2, <6>1, <6>2
        <5> QED BY <1>4, <2>2, <4>2, <5>1, <5>2
      <4> QED BY <2>10, <3>1, <3>3, <3>4, <4>1, <4>3, <4>4 DEF Probing, ClientSame
    <3>6. Chosen(c)'
      <4>1. PICK b : b = best[c] /\ b = best'[c]
        BY <3>1 DEF ClientSame
      <4>2. ASSUME b # None PROVE Own(c, b)' /\ Quiet(b)'
        <5>1. Own(c, b) /\ Quiet(b)
          BY <3>2, <3>3, <4>1, <4>2 DEF ClientOk, Chosen
        <5>2. b \in Live /\ b # k /\ b \in Live' /\ conn'[b] = conn[b]
          BY <1>4, <3>4, <4>1, <5>1 DEF Own
        <5>3. ~InJob(b)' /\ ~Queued(b)'
          BY <1>1, <2>2, <5>1 DEF Quiet, InJob
        <5> QED BY <5>1, <5>2, <5>3 DEF Own, Quiet
      <4> QED BY <3>1, <3>3, <4>1, <4>2 DEF Chosen, ClientSame
    <3>7. Progress(c)'
      BY <3>1, <3>2 DEF ClientOk, Progress, ClientSame
    <3> QED BY <3>1, <3>3, <3>5, <3>6, <3>7 DEF ClientOk, Waiting, ClientSame
  <2> QED
    BY <1>1, <1>4, <2>1, <2>2, <2>3, <2>4, <2>6, <2>8, <2>11, <2>12, TouchInv
<1>5. CASE backlog[s] # <<>> /\ ~UNCHANGED <<sockets, backlog, conn>>
  <2>1. PICK k : k = Head(backlog[s])
    OBVIOUS
  <2>2. k \in Live /\ conn[k].down = <<>>
    <3>1. backlog[s] \in Seq(Conns)
      BY <1>2 DEF ServerTypes
    <3>2. 1 \in 1 .. Len(backlog[s]) /\ Head(backlog[s]) = backlog[s][1]
      BY <1>5, <3>1, EmptySeq
    <3> QED BY <2>1, <3>2 DEF IInv, Backlog
  <2>3. backlog' = [backlog EXCEPT ![s] = Tail(@)]
    BY <1>5 DEF Accept
  <2>4. CASE conn' = CloseServerEnds(conn, {k}) /\ UNCHANGED sockets
    <3> PICK K : K = {}
      OBVIOUS
    <3>1. sockets' = [sockets EXCEPT ![s] = @ \cup K]
      BY <1>2, <2>4 DEF ServerTypes
    <3>2. /\ Live' \subseteq Live /\ ConnTypes'
          /\ \A j \in Live : j # k =>
               /\ conn[j].copen \/ conn[j].sopen => j \in Live'
               /\ j \in Live' => conn'[j] = conn[j]
          /\ \A c : Own(c, k) => Own(c, k)'
          /\ k \in Live' => /\ conn'[k].up \in {conn[k].up, <<>>}
                            /\ conn'[k].down \in {conn[k].down, <<>>}
      BY <2>2, <2>4, DropFacts
    <3>3. K \subseteq {k} /\ k \notin K
      OBVIOUS
    <3> QED BY <1>4, <1>5, <2>1, <2>3, <3>1, <3>2, <3>3
  <2>5. CASE Down(k, Header(Load(s))) /\ sockets' = [sockets EXCEPT ![s] = @ \cup {k}]
    <3>1. Load(s) \in Loads /\ Header(Load(s)) \in Message
      <4>1. sockets[s] \in SUBSET Conns
        BY <1>2 DEF ServerTypes
      <4>2. Cardinality(sockets[s]) \in Loads
        BY <4>1, SocketsFit
      <4>3. Load(s) \in Loads
        BY <4>2 DEF Load
      <4> QED BY <4>3, MessageFacts
    <3>2. /\ Live' = Live /\ ConnTypes'
          /\ \A j \in Live : j # k => conn'[j] = conn[j]
          /\ conn'[k].down \in {<<>>, <<Header(Load(s))>>} /\ conn'[k].up = conn[k].up
          /\ conn'[k].client = conn[k].client /\ conn'[k].server = conn[k].server
          /\ conn'[k].copen = conn[k].copen /\ conn'[k].sopen = conn[k].sopen
      BY <2>2, <2>5, <3>1, DownFacts
    <3>3. \A c : Own(c, k) => Own(c, k)'
      BY <3>2 DEF Own
    <3> QED BY <1>4, <1>5, <2>1, <2>2, <2>3, <2>5, <3>1, <3>2, <3>3
  <2> QED BY <1>5, <2>1, <2>4, <2>5 DEF Accept
<1> QED BY <1>3, <1>5 DEF Accept

\* The request at the head of a connection is alone on it.
LEMMA RequestFacts ==
  ASSUME IInv, NEW k \in Live, conn[k].up # <<>>
  PROVE  /\ Head(conn[k].up) = conn[k].up[1] /\ Head(conn[k].up) \in DS
         /\ 1 \in 1 .. Len(conn[k].up) /\ Tail(conn[k].up) = <<>>
         /\ conn[k].down = <<>> /\ ~InJob(k) /\ ~Queued(k)
<1>1. PICK up : up = conn[k].up
  OBVIOUS
<1>2. up \in Seq(DS) /\ up # <<>> /\ conn[k].down \in Seq(Message)
  BY <1>1, LiveFacts
<1>3. PICK n, m : n = Len(up) /\ m = Len(conn[k].down)
  OBVIOUS
<1>4. n \in Nat /\ m \in Nat /\ n # 0
  BY <1>2, <1>3
<1>5. n + m <= 1
  BY <1>1, <1>3 DEF IInv, Flight
<1>6. n = 1 /\ m = 0
  BY <1>4, <1>5
<1>7. Head(up) = up[1] /\ 1 \in 1 .. Len(up)
  BY <1>3, <1>6
<1>8. Head(up) \in DS /\ Tail(up) \in Seq(DS) /\ Len(Tail(up)) = n - 1
  BY <1>2, <1>3, HeadTailProperties
<1>9. Tail(up) = <<>> /\ conn[k].down = <<>>
  <2>1. Len(Tail(up)) \notin Nat \ {0} /\ Len(conn[k].down) \notin Nat \ {0}
    BY <1>3, <1>6, <1>8
  <2> QED BY <1>2, <1>8, <2>1, EmptySeq
<1>10. ~InJob(k)
  BY <1>1, <1>2 DEF IInv, Flight
<1>11. ~Queued(k)
  BY <1>1, <1>2 DEF IInv, Backlog, Queued
<1> QED BY <1>1, <1>7, <1>8, <1>9, <1>10, <1>11

\* What is left to a server that drops one of its sockets.
LEMMA DropInv ==
  ASSUME IInv, NEW s \in Servers, NEW k \in sockets[s],
         sockets'[s] = sockets[s] \ {k}, backlog'[s] = backlog[s],
         job'[s] = NoJob, spc'[s] = "accept",
         \A j \in Live : j # k =>
           /\ conn[j].copen \/ conn[j].sopen => j \in Live'
           /\ j \in Live' => conn'[j] = conn[j]
  PROVE  Backlog(s)' /\ Accepted(s)' /\ Answering(s)'
<1>1. Backlog(s) /\ Accepted(s)
  BY DEF IInv
<1>2. Accepted(s)'
  <2>1. IsFiniteSet(sockets[s] \ {k})
    BY <1>1, FS_RemoveElement DEF Accepted
  <2> QED BY <1>1, <2>1 DEF Accepted
<1>3. ASSUME NEW i \in 1 .. Len(backlog[s])
      PROVE  LET j == backlog[s][i] IN
             /\ j \in Live' /\ conn'[j].server = s /\ conn'[j].sopen /\ j \notin sockets'[s]
             /\ conn'[j].up = <<>> /\ conn'[j].down = <<>>
  <2>1. PICK j : j = backlog[s][i]
    OBVIOUS
  <2>2. /\ j \in Live /\ conn[j].server = s /\ conn[j].sopen /\ j \notin sockets[s]
        /\ conn[j].up = <<>> /\ conn[j].down = <<>>
    BY <1>1, <2>1 DEF Backlog
  <2>3. j # k
    BY <2>2
  <2>4. j \in Live' /\ conn'[j] = conn[j] /\ j \notin sockets'[s]
    BY <2>2, <2>3
  <2> QED BY <2>1, <2>2, <2>4
<1>4. \A i, j \in 1 .. Len(backlog[s]) : backlog[s][i] = backlog[s][j] => i = j
  BY <1>1 DEF Backlog
<1>5. Backlog(s)'
  BY <1>3, <1>4 DEF Backlog
<1>6. Answering(s)'
  BY MessageFacts DEF Answering
<1> QED BY <1>2, <1>5, <1>6

\* Select, and serving the socket it returned.
LEMMA SelectInv == ASSUME IInv, NEW s \in Servers, Select(s) PROVE IInv'
<1>1. spc[s] = "select" /\ UNCHANGED <<clientVars, backlog, faults, offers, got>>
  BY DEF Select
<1>2. ServerTypes /\ ConnTypes /\ CountTypes
  BY TypeParts DEF IInv
<1>3. Backlog(s) /\ Accepted(s) /\ Answering(s) /\ job[s] = NoJob
  BY <1>1 DEF IInv, Answering
<1>4. \A j : Queued(j)' <=> Queued(j)
  BY <1>1 DEF Queued
<1>5. \A c \in Clients : ClientSame(c)
  BY <1>1 DEF ClientSame, clientVars
<1>7. ASSUME UNCHANGED <<sockets, job, conn, served>>, error' \in [Servers -> BOOLEAN],
             spc' = [spc EXCEPT ![s] = "accept"]
      PROVE  IInv'
  <2>1. faults' \in 0 .. MaxFaults
    BY <1>1, <1>2 DEF CountTypes
  <2> QED BY <1>1, <1>7, <2>1, FlagsInv
<1>8. ASSUME NEW k \in sockets[s], sockets' = [sockets EXCEPT ![s] = @ \ {k}],
             conn' = CloseServerEnds(conn, {k}),
             spc' = [spc EXCEPT ![s] = "accept"], UNCHANGED <<job, error, served>>
      PROVE  IInv'
  <2>1. k \in Live /\ conn[k].server = s
    BY <1>3 DEF Accepted
  <2>2. /\ Live' \subseteq Live /\ ConnTypes'
        /\ \A j \in Live : j # k =>
             /\ conn[j].copen \/ conn[j].sopen => j \in Live'
             /\ j \in Live' => conn'[j] = conn[j]
        /\ \A c : Own(c, k) => Own(c, k)'
        /\ k \in Live' => /\ conn'[k].up \in {conn[k].up, <<>>}
                          /\ conn'[k].down \in {conn[k].down, <<>>}
    BY <1>8, <2>1, DropFacts
  <2>3. ServerTypes' /\ CountTypes'
    BY <1>1, <1>2, <1>8 DEF ServerTypes, CountTypes
  <2>4. TypeOK'
    BY <1>1, <2>2, <2>3, ServerTypesStep
  <2>5. ServedGrows
    BY <1>2, <1>8 DEF ServedGrows, CountTypes
  <2>6. sockets'[s] = sockets[s] \ {k} /\ spc'[s] = "accept"
        /\ \A t \in Servers : t # s => ServerSame(t)
    BY <1>1, <1>2, <1>8 DEF ServerTypes, ServerSame
  <2>7. k \in Live' => Fewer(k)
    BY <1>8, <2>2 DEF Fewer
  <2>8. \A c \in Clients : Own(c, k) => Own(c, k)' /\ Fewer(k)
    BY <2>2, <2>7 DEF Own
  <2>9. (Backlog(s) /\ Accepted(s) /\ Answering(s))'
    BY <1>1, <1>3, <1>8, <2>1, <2>2, <2>6, DropInv
  <2> QED BY <1>1, <1>4, <1>8, <2>1, <2>2, <2>4, <2>5, <2>6, <2>7, <2>8, <2>9, TouchInv
<1>9. ASSUME NEW k \in sockets[s], ServerHasData(k),
             job' = [job EXCEPT ![s] = [sock |-> k, answer |-> Result(Head(conn[k].up))]],
             error' = [error EXCEPT ![s] = ~Readable(Head(conn[k].up))],
             served' = [served EXCEPT ![Head(conn[k].up)] =
                          IF Readable(Head(conn[k].up)) THEN @ + 1 ELSE @],
             conn' = [conn EXCEPT ![k].up = Tail(@)],
             spc' = [spc EXCEPT ![s] = "reply"], UNCHANGED sockets
      PROVE  IInv'
  <2>1. k \in Live /\ conn[k].server = s /\ k # None
    BY <1>3, LiveFacts DEF Accepted
  <2>2. PICK ds : ds = Head(conn[k].up)
    OBVIOUS
  <2>3. /\ ds = conn[k].up[1] /\ ds \in DS /\ 1 \in 1 .. Len(conn[k].up)
        /\ Tail(conn[k].up) = <<>> /\ conn[k].down = <<>> /\ conn[k].up # <<>>
        /\ ~InJob(k) /\ ~Queued(k)
    BY <1>9, <2>1, <2>2, RequestFacts DEF ServerHasData
  <2>4. Result(ds) \in Message
        /\ (Result(ds).kind = "event" => Result(ds).ds = ds /\ Readable(ds))
    BY <2>3, MessageFacts
  <2>5. PICK r : r = [conn[k] EXCEPT !.up = <<>>]
    OBVIOUS
  <2>6. r \in Connection /\ conn' = [conn EXCEPT ![k] = r] /\ r.up = <<>>
        /\ r.down = conn[k].down /\ r.client = conn[k].client /\ r.server = conn[k].server
        /\ r.copen = conn[k].copen /\ r.sopen = conn[k].sopen
    <3>1. conn[k] \in Connection /\ <<>> \in Seq(DS)
      BY <2>1, LiveFacts
    <3>2. conn' = [conn EXCEPT ![k] = r]
      BY <1>9, <2>3, <2>5
    <3> QED BY <2>5, <3>1, <3>2 DEF Connection
  <2>7. /\ Live' = Live /\ ConnTypes' /\ conn'[k] = r
        /\ \A j \in Live : j # k => conn'[j] = conn[j]
    BY <2>1, <2>6, PutFacts
  <2>8. /\ job'[s] = [sock |-> k, answer |-> Result(ds)] /\ spc'[s] = "reply"
        /\ \A t \in Servers : t # s => job'[t] = job[t] /\ ServerSame(t)
    BY <1>1, <1>2, <1>9, <2>2 DEF ServerTypes, ServerSame
  <2>9. ServedGrows /\ CountTypes' /\ (Readable(ds) => served'[ds] >= 1)
    <3>1. served[ds] \in Nat /\ served \in [DS -> Nat]
      BY <1>2, <2>3 DEF CountTypes
    <3>2. PICK n \in Nat : n = IF Readable(ds) THEN served[ds] + 1 ELSE served[ds]
      BY <3>1
    <3>3. served' = [served EXCEPT ![ds] = n]
      BY <1>9, <2>2, <3>2
    <3>4. n >= served[ds] /\ (Readable(ds) => n >= 1)
      BY <3>1, <3>2
    <3>5. \A e \in DS : served'[e] = IF e = ds THEN n ELSE served[e]
      BY <3>1, <3>3
    <3>6. served' \in [DS -> Nat]
      BY <3>1, <3>3
    <3>7. \A e \in DS : served[e] \in Nat /\ served[e] >= served[e]
      BY <3>1
    <3>8. ServedGrows
      BY <3>4, <3>5, <3>7 DEF ServedGrows
    <3> QED BY <1>1, <1>2, <2>3, <3>4, <3>5, <3>6, <3>8 DEF CountTypes
  <2>10. TypeOK'
    <3>1. [sock |-> k, answer |-> Result(ds)] \in [sock : Conns \cup {None}, answer : Message]
      BY <2>1, <2>4, LiveFacts
    <3>2. job' \in [Servers -> [sock : Conns \cup {None}, answer : Message]]
      BY <1>2, <1>9, <2>2, <3>1 DEF ServerTypes
    <3>3. error' \in [Servers -> BOOLEAN]
      BY <1>2, <1>9 DEF ServerTypes
    <3>4. ServerTypes'
      BY <1>1, <1>2, <1>9, <3>2, <3>3 DEF ServerTypes
    <3> QED BY <1>1, <2>7, <2>9, <3>4, ServerTypesStep
  <2>11. (Backlog(s) /\ Accepted(s) /\ Answering(s))'
    <3>1. Accepted(s)'
      BY <1>3, <1>9, <2>6, <2>7 DEF Accepted
    <3>2. \A i \in 1 .. Len(backlog[s]) : backlog[s][i] # k
      BY <2>3 DEF Queued
    <3>3. Backlog(s)'
      BY <1>1, <1>3, <1>9, <2>7, <3>2 DEF Backlog
    <3>4. job'[s].sock = k /\ job'[s].answer = Result(ds)
      BY <2>8
    <3>5. Answering(s)'
      BY <1>9, <2>4, <2>8, <2>9, <3>4 DEF Answering
    <3> QED BY <3>1, <3>3, <3>5
  <2>12. Flight(k)'
    <3>1. conn'[k].up = <<>> /\ conn'[k].down = <<>>
      BY <2>3, <2>6, <2>7
    <3>2. Len(<<>>) + Len(<<>>) <= 1 /\ \A i \in 1 .. Len(<<>>) : FALSE
      OBVIOUS
    <3> QED BY <3>1, <3>2 DEF Flight
  <2>13. ASSUME NEW c \in Clients, Own(c, k), Knows(c, k) PROVE ClientOk(c)'
    <3>1. ClientOk(c) /\ ClientSame(c)
      BY <1>5 DEF IInv
    <3>2. pc[c] = "recv" /\ k = sock[c]
      <4>1. ~Quiet(k)
        BY <2>3 DEF Quiet
      <4> QED BY <2>1, <2>3, <2>13, <3>1, <4>1 DEF Knows, ClientOk, Chosen, Probing
    <3>3. ds = <<c, ev[c]>>
      BY <2>3, <3>1, <3>2 DEF ClientOk, Waiting
    <3>4. Waiting(c)'
      <4>1. Own(c, k)' /\ ~Queued(k)'
        BY <1>4, <2>3, <2>6, <2>7, <2>13 DEF Own
      <4>2. /\ \A i \in 1 .. Len(conn'[k].up) : conn'[k].up[i] = ds
            /\ \A i \in 1 .. Len(conn'[k].down) : conn'[k].down[i] = Result(ds)
        BY <2>3, <2>6, <2>7
      <4>3. \A t \in Servers : job'[t].sock = k => job'[t].answer = Result(ds)
        BY <2>3, <2>8 DEF InJob
      <4>4. sock'[c] = k /\ ds = <<c, ev'[c]>>
        BY <3>1, <3>2, <3>3 DEF ClientSame
      <4> QED BY <4>1, <4>2, <4>3, <4>4 DEF Waiting
    <3>5. Progress(c)'
      BY <2>9, <3>1, ProgressKeeps DEF IInv, ClientOk
    <3> QED BY <3>1, <3>2, <3>4, <3>5 DEF ClientOk, Probing, Chosen, ClientSame
  <2>14. \A j \in Live : j # k =>
           /\ j \in Live' /\ conn'[j] = conn[j] /\ (Queued(j)' => Queued(j))
           /\ job'[s].sock = j => job'[s] = job[s]
    BY <1>4, <2>7, <2>8
  <2> QED BY <1>1, <2>1, <2>7, <2>8, <2>9, <2>10, <2>11, <2>12, <2>13, <2>14, TouchInv
<1>10. CASE /\ \A k \in sockets[s] : ~ServerReady(k)
            /\ spc' = [spc EXCEPT ![s] = "accept"]
            /\ UNCHANGED <<sockets, job, error, conn, served>>
  <2>1. error' \in [Servers -> BOOLEAN]
    BY <1>2, <1>10 DEF ServerTypes
  <2> QED BY <1>7, <1>10, <2>1
<1>11. ASSUME NEW k \in sockets[s], conn[k].sreset, error' = [error EXCEPT ![s] = TRUE],
              spc' = [spc EXCEPT ![s] = "accept"], UNCHANGED <<sockets, job, conn, served>>
       PROVE  IInv'
  <2>1. error' \in [Servers -> BOOLEAN]
    BY <1>2, <1>11 DEF ServerTypes
  <2> QED BY <1>7, <1>11, <2>1
<1>12. ASSUME NEW k \in sockets[s], sockets' = Disconnected(s, k).sockets,
              conn' = Disconnected(s, k).conn,
              spc' = [spc EXCEPT ![s] = "accept"], UNCHANGED <<job, error, served>>
       PROVE  IInv'
  <2>1. sockets' = [sockets EXCEPT ![s] = @ \ {k}] /\ conn' = CloseServerEnds(conn, {k})
    BY <1>12 DEF Disconnected
  <2> QED BY <1>8, <1>12, <2>1
<1> QED BY <1>9, <1>10, <1>11, <1>12 DEF Select

\* The reply to the client the event came from.
LEMMA ReplyInv == ASSUME IInv, NEW s \in Servers, Reply(s) PROVE IInv'
<1>1. /\ spc[s] = "reply" /\ spc' = [spc EXCEPT ![s] = "accept"]
      /\ job' = [job EXCEPT ![s] = NoJob]
      /\ UNCHANGED <<clientVars, backlog, error, faults, offers, served, got>>
  BY DEF Reply
<1>2. ServerTypes /\ ConnTypes /\ CountTypes
  BY TypeParts DEF IInv
<1>3. PICK k : k = job[s].sock
  OBVIOUS
<1>4. /\ k \in sockets[s] /\ k \in Live /\ conn[k].server = s /\ conn[k].sopen
      /\ InJob(k) /\ conn[k].up = <<>> /\ conn[k].down = <<>>
  <2>1. k \in sockets[s]
    BY <1>1, <1>3 DEF IInv, Answering
  <2>2. k \in Live /\ conn[k].server = s /\ conn[k].sopen
    BY <2>1 DEF IInv, Accepted
  <2>3. InJob(k)
    BY <1>3 DEF InJob
  <2> QED BY <2>1, <2>2, <2>3 DEF IInv, Flight
<1>5. PICK m \in Message : m = job[s].answer
  BY <1>2 DEF ServerTypes
<1>6. /\ spc'[s] = "accept" /\ job'[s] = NoJob /\ backlog'[s] = backlog[s]
      /\ \A t \in Servers : t # s => spc'[t] = spc[t] /\ job'[t] = job[t]
  BY <1>1, <1>2 DEF ServerTypes
<1>7. \A j \in Live : job'[s].sock # j
  BY <1>6, MessageFacts, LiveFacts
<1>8. ~InJob(k)'
  <2> SUFFICES ASSUME NEW t \in Servers, job'[t].sock = k PROVE FALSE
    BY DEF InJob
  <2>1. t # s
    BY <1>4, <1>7
  <2>2. job[t].sock = k /\ k # None
    BY <1>4, <1>6, <2>1, LiveFacts
  <2>3. k \in sockets[t]
    BY <2>2, MessageFacts DEF IInv, Answering
  <2> QED BY <1>4, <2>1, <2>3 DEF IInv, Accepted
<1>9. \A j : Queued(j)' <=> Queued(j)
  BY <1>1 DEF Queued
<1>10. ServedGrows /\ CountTypes'
  BY <1>1, <1>2 DEF ServedGrows, CountTypes
<1>11. ~Queued(k)
  BY <1>4 DEF Queued, IInv, Backlog, Accepted
<1>12. ASSUME sockets' \in [Servers -> SUBSET Conns] PROVE ServerTypes'
  <2>1. NoJob \in [sock : Conns \cup {None}, answer : Message]
    BY MessageFacts DEF NoJob
  <2> QED BY <1>1, <1>2, <1>12, <2>1 DEF ServerTypes
<1>13. CASE sockets' = [sockets EXCEPT ![s] = @ \ {k}] /\ conn' = CloseServerEnds(conn, {k})
  <2>1. /\ Live' \subseteq Live /\ ConnTypes'
        /\ \A j \in Live : j # k =>
             /\ conn[j].copen \/ conn[j].sopen => j \in Live'
             /\ j \in Live' => conn'[j] = conn[j]
        /\ \A c : Own(c, k) => Own(c, k)'
        /\ k \in Live' => /\ conn'[k].up \in {conn[k].up, <<>>}
                          /\ conn'[k].down \in {conn[k].down, <<>>}
    BY <1>4, <1>13, DropFacts
  <2>2. sockets' \in [Servers -> SUBSET Conns]
    BY <1>2, <1>13 DEF ServerTypes
  <2>3. TypeOK'
    BY <1>1, <1>10, <1>12, <2>1, <2>2, ServerTypesStep
  <2>4. sockets'[s] = sockets[s] \ {k} /\ \A t \in Servers : t # s => ServerSame(t)
    BY <1>1, <1>2, <1>6, <1>13 DEF ServerTypes, ServerSame
  <2>5. k \in Live' => Fewer(k)
    BY <1>4, <1>8, <2>1 DEF Fewer, InJob
  <2>6. \A c \in Clients : Own(c, k) => Own(c, k)' /\ Fewer(k)
    BY <2>1, <2>5 DEF Own
  <2>7. (Backlog(s) /\ Accepted(s) /\ Answering(s))'
    BY <1>4, <1>6, <2>1, <2>4, DropInv
  <2> QED BY <1>1, <1>4, <1>7, <1>9, <1>10, <2>1, <2>3, <2>4, <2>5, <2>6, <2>7, TouchInv
<1>14. CASE Down(k, m) /\ UNCHANGED sockets
  <2>1. /\ Live' = Live /\ ConnTypes'
        /\ \A j \in Live : j # k => conn'[j] = conn[j]
        /\ conn'[k].down \in {<<>>, <<m>>} /\ conn'[k].up = conn[k].up
        /\ conn'[k].client = conn[k].client /\ conn'[k].server = conn[k].server
        /\ conn'[k].copen = conn[k].copen /\ conn'[k].sopen = conn[k].sopen
    BY <1>4, <1>14, DownFacts
  <2>2. TypeOK'
    <3>1. sockets' \in [Servers -> SUBSET Conns]
      BY <1>2, <1>14 DEF ServerTypes
    <3> QED BY <1>1, <1>10, <1>12, <2>1, <3>1, ServerTypesStep
  <2>3. \A t \in Servers : t # s => ServerSame(t)
    BY <1>1, <1>6, <1>14 DEF ServerSame
  <2>4. (Backlog(s) /\ Accepted(s) /\ Answering(s))'
    <3>1. Backlog(s) /\ Accepted(s)
      BY DEF IInv
    <3>2. Accepted(s)'
      BY <1>14, <2>1, <3>1 DEF Accepted
    <3>3. \A i \in 1 .. Len(backlog[s]) : backlog[s][i] # k
      BY <1>11 DEF Queued
    <3>4. Backlog(s)'
      BY <1>6, <1>14, <2>1, <3>1, <3>3 DEF Backlog
    <3>5. Answering(s)'
      BY <1>6, MessageFacts DEF Answering
    <3> QED BY <3>2, <3>4, <3>5
  <2>5. \A n : Len(<<n>>) = 1 /\ \A i \in 1 .. Len(<<n>>) : <<n>>[i] = n
    OBVIOUS
  <2>6. Len(<<>>) = 0 /\ \A i \in 1 .. Len(<<>>) : FALSE
    OBVIOUS
  <2>7. Flight(k)'
    <3>1. conn'[k].up = <<>>
      BY <1>4, <2>1
    <3>2. CASE conn'[k].down = <<>>
      BY <1>8, <2>6, <3>1, <3>2 DEF Flight
    <3>3. CASE conn'[k].down = <<m>>
      <4>1. m.kind = "event" => served'[m.ds] >= 1
        BY <1>1, <1>5 DEF IInv, Answering
      <4>2. Len(conn'[k].up) + Len(conn'[k].down) <= 1
        BY <2>5, <2>6, <3>1, <3>3
      <4>3. \A i \in 1 .. Len(conn'[k].down) : conn'[k].down[i] = m
        BY <2>5, <3>3, Zenon
      <4> QED BY <1>8, <4>1, <4>2, <4>3 DEF Flight
    <3> QED BY <2>1, <3>2, <3>3
  <2>8. ASSUME NEW c \in Clients, Own(c, k), Knows(c, k) PROVE ClientOk(c)'
    <3>1. ClientOk(c) /\ ClientSame(c)
      BY <1>1 DEF IInv, ClientSame, clientVars
    <3>2. pc[c] = "recv" /\ k = sock[c]
      <4>1. ~Quiet(k) /\ k # None
        BY <1>4, LiveFacts DEF Quiet
      <4> QED BY <1>4, <2>8, <3>1, <4>1 DEF Knows, ClientOk, Chosen, Probing
    <3>3. PICK ds : ds = <<c, ev[c]>>
      OBVIOUS
    <3>4. m = Result(ds)
      BY <1>3, <1>5, <3>1, <3>2, <3>3 DEF ClientOk, Waiting
    <3>5. Waiting(c)'
      <4>1. Own(c, k)' /\ ~Queued(k)'
        BY <1>4, <1>9, <1>11, <2>1, <2>8 DEF Own
      <4>2. \A i \in 1 .. Len(conn'[k].up) : conn'[k].up[i] = ds
        BY <1>4, <2>1, <2>6
      <4>3. \A i \in 1 .. Len(conn'[k].down) : conn'[k].down[i] = Result(ds)
        <5>1. CASE conn'[k].down = <<>>
          BY <2>6, <5>1
        <5>2. CASE conn'[k].down = <<m>>
          <6>1. \A i \in 1 .. Len(conn'[k].down) : conn'[k].down[i] = m
            BY <2>5, <5>2, Zenon
          <6> QED BY <3>4, <6>1
        <5> QED BY <2>1, <5>1, <5>2
      <4>4. \A t \in Servers : job'[t].sock # k
        BY <1>8 DEF InJob
      <4>5. sock'[c] = k /\ ds = <<c, ev'[c]>>
        BY <3>1, <3>2, <3>3 DEF ClientSame
      <4> QED BY <4>1, <4>2, <4>3, <4>4, <4>5 DEF Waiting
    <3>6. Progress(c)'
      BY <1>10, <3>1, ProgressKeeps DEF IInv, ClientOk
    <3> QED BY <3>1, <3>2, <3>5, <3>6 DEF ClientOk, Probing, Chosen, ClientSame
  <2> QED BY <1>1, <1>4, <1>7, <1>9, <1>10, <2>1, <2>2, <2>3, <2>4, <2>7, <2>8, TouchInv
<1> QED BY <1>3, <1>5, <1>13, <1>14 DEF Reply, JobSocket

-----------------------------------------------------------------------------
(* Failures, and the theorems.                                             *)

\* The network breaks the client's end of a connection.
LEMMA BreakClientEndInv == ASSUME IInv, NEW k \in Live, BreakClientEnd(k) PROVE IInv'
<1>1. /\ conn' = [conn EXCEPT ![k].creset = TRUE, ![k].down = <<>>]
      /\ UNCHANGED <<clientVars, serverVars, offers, served, got>> /\ faults' \in 0 .. MaxFaults
  BY NetAssumption DEF BreakClientEnd, Fault, IInv, TypeOK
<1>2. PICK r : r = [conn[k] EXCEPT !.creset = TRUE, !.down = <<>>]
  OBVIOUS
<1>3. conn[k] \in Connection /\ conn \in [Live -> Connection]
  BY DEF IInv, TypeOK
<1>4. TRUE \in BOOLEAN /\ <<>> \in Seq(Message)
  OBVIOUS
<1>5. /\ r \in Connection /\ conn' = [conn EXCEPT ![k] = r] /\ r.up = conn[k].up
      /\ r.down = <<>> /\ r.client = conn[k].client /\ r.server = conn[k].server
      /\ r.copen = conn[k].copen /\ r.sopen = conn[k].sopen
  BY <1>1, <1>2, <1>3, <1>4 DEF Connection
<1>6. /\ Live' = Live /\ ConnTypes' /\ conn'[k] = r
      /\ \A j \in Live : j # k => conn'[j] = conn[j]
  BY <1>5, PutFacts
<1>7. Losing /\ \A c, j : Own(c, j) => Own(c, j)'
  BY <1>5, <1>6 DEF Losing, Own
<1>8. TypeOK'
  <2>1. ServerTypes /\ CountTypes
    BY TypeParts DEF IInv
  <2>2. ServerTypes' /\ CountTypes'
    BY <1>1, <2>1 DEF ServerTypes, CountTypes, serverVars
  <2> QED BY <1>1, <1>6, <2>2, ServerTypesStep
<1>9. \A c \in Clients : ClientSame(c)
  BY <1>1 DEF ClientSame, clientVars
<1> QED BY <1>1, <1>7, <1>8, <1>9, LosingInv

\* The network breaks the server's end of a connection.
LEMMA BreakServerEndInv == ASSUME IInv, NEW k \in Live, BreakServerEnd(k) PROVE IInv'
<1>1. /\ conn' = [conn EXCEPT ![k].sreset = TRUE, ![k].up = <<>>]
      /\ UNCHANGED <<clientVars, serverVars, offers, served, got>> /\ faults' \in 0 .. MaxFaults
  BY NetAssumption DEF BreakServerEnd, Fault, IInv, TypeOK
<1>2. PICK r : r = [conn[k] EXCEPT !.sreset = TRUE, !.up = <<>>]
  OBVIOUS
<1>3. conn[k] \in Connection /\ conn \in [Live -> Connection]
  BY DEF IInv, TypeOK
<1>4. TRUE \in BOOLEAN /\ <<>> \in Seq(DS)
  OBVIOUS
<1>5. /\ r \in Connection /\ conn' = [conn EXCEPT ![k] = r] /\ r.down = conn[k].down
      /\ r.up = <<>> /\ r.client = conn[k].client /\ r.server = conn[k].server
      /\ r.copen = conn[k].copen /\ r.sopen = conn[k].sopen
  BY <1>1, <1>2, <1>3, <1>4 DEF Connection
<1>6. /\ Live' = Live /\ ConnTypes' /\ conn'[k] = r
      /\ \A j \in Live : j # k => conn'[j] = conn[j]
  BY <1>5, PutFacts
<1>7. Losing /\ \A c, j : Own(c, j) => Own(c, j)'
  BY <1>5, <1>6 DEF Losing, Own
<1>8. TypeOK'
  <2>1. ServerTypes /\ CountTypes
    BY TypeParts DEF IInv
  <2>2. ServerTypes' /\ CountTypes'
    BY <1>1, <2>1 DEF ServerTypes, CountTypes, serverVars
  <2> QED BY <1>1, <1>6, <2>2, ServerTypesStep
<1>9. \A c \in Clients : ClientSame(c)
  BY <1>1 DEF ClientSame, clientVars
<1> QED BY <1>1, <1>7, <1>8, <1>9, LosingInv

\* A client's own step.
LEMMA ClientStepInv == ASSUME IInv, NEW c \in Clients, ClientStep(c) PROVE IInv'
<1>1. CASE Finish(c)
  <2>1. EndClient(c, "done") /\ UNCHANGED <<serverVars, served, got>> /\ faults' = faults
    BY <1>1 DEF Finish
  <2>2. faults' \in 0 .. MaxFaults
    BY <2>1 DEF IInv, TypeOK
  <2> QED BY <2>1, <2>2, EndClientInv
<1> QED
  BY <1>1, ConnectInv, ReadHeaderInv, PickDoneInv, NextEventInv, SendInv, RecvInv
  DEF ClientStep

\* A server's own step.
LEMMA ServerStepInv == ASSUME IInv, NEW s \in Servers, ServerStep(s) PROVE IInv'
<1>1. CASE StopOnError(s)
  <2>1. EndServer(s) /\ UNCHANGED <<clientVars, offers, served, got>> /\ faults' = faults
    BY <1>1 DEF StopOnError
  <2>2. faults' \in 0 .. MaxFaults
    BY <2>1 DEF IInv, TypeOK
  <2> QED BY <2>1, <2>2, EndServerInv
<1> QED BY <1>1, AcceptInv, SelectInv, ReplyInv DEF ServerStep

\* A failure of the environment.
LEMMA EnvironmentInv == ASSUME IInv, Environment PROVE IInv'
<1>1. Fault => faults' \in 0 .. MaxFaults
  BY NetAssumption DEF Fault, IInv, TypeOK
<1>2. ASSUME NEW c \in Clients, KillClient(c) PROVE IInv'
  BY <1>1, <1>2, EndClientInv DEF KillClient
<1>3. ASSUME NEW s \in Servers, KillServer(s) \/ InterruptServer(s) PROVE IInv'
  BY <1>1, <1>3, EndServerInv DEF KillServer, InterruptServer
<1>4. ASSUME NEW s \in Servers, AcceptFails(s) PROVE IInv'
  <2>1. /\ faults' \in 0 .. MaxFaults /\ spc[s] = "accept" /\ error' = [error EXCEPT ![s] = TRUE]
        /\ UNCHANGED <<clientVars, spc, conn, sockets, backlog, job, offers, served, got>>
    BY <1>1, <1>4 DEF AcceptFails
  <2>2. error' \in [Servers -> BOOLEAN] /\ spc' = [spc EXCEPT ![s] = "accept"]
    BY <2>1 DEF IInv, TypeOK
  <2>3. "accept" \in {"accept", "select", "down"} /\ spc[s] # "reply"
    BY <2>1
  <2> QED BY <2>1, <2>2, <2>3, FlagsInv
<1>5. ASSUME NEW s \in Servers, StartServer(s) PROVE IInv'
  <2>1. /\ faults' \in 0 .. MaxFaults /\ spc[s] = "down" /\ spc' = [spc EXCEPT ![s] = "accept"]
        /\ UNCHANGED <<clientVars, error, conn, sockets, backlog, job, offers, served, got>>
    BY <1>1, <1>5 DEF StartServer, Up
  <2>2. error' \in [Servers -> BOOLEAN]
    BY <2>1 DEF IInv, TypeOK
  <2>3. "accept" \in {"accept", "select", "down"} /\ spc[s] # "reply"
    BY <2>1
  <2> QED BY <2>1, <2>2, <2>3, FlagsInv
<1> QED
  BY <1>2, <1>3, <1>4, <1>5, BreakClientEndInv, BreakServerEndInv DEF Environment

\* The invariant holds in every state.
LEMMA Invariant == Spec => []IInv
<1>1. IInv /\ [Next]_vars => IInv'
  <2>1. ASSUME IInv, Next PROVE IInv'
    BY <2>1, ClientStepInv, ServerStepInv, EnvironmentInv DEF Next
  <2>2. ASSUME IInv, UNCHANGED vars PROVE IInv'
    <3>1. /\ UNCHANGED clientVars /\ UNCHANGED serverVars
          /\ UNCHANGED <<conn, faults, offers, served, got>>
      BY <2>2 DEF vars
    <3>2. Losing /\ ConnTypes' /\ ServerTypes' /\ \A d, k : Own(d, k)' <=> Own(d, k)
      BY <2>2, <3>1, IdleFacts
    <3>3. CountTypes
      BY <2>2, TypeParts DEF IInv
    <3>4. CountTypes'
      BY <3>1, <3>3 DEF CountTypes
    <3>5. TypeOK'
      BY <2>2, <3>1, <3>2, <3>4, ServerTypesStep
    <3>6. \A c \in Clients : ClientSame(c)
      BY <3>1 DEF ClientSame, clientVars
    <3> QED BY <2>2, <3>1, <3>2, <3>5, <3>6, LosingInv
  <2> QED BY <2>1, <2>2
<1> QED BY <1>1, InitInv, PTL DEF Spec

\* The types of both processors and of the connections between them, for any
\* clients, servers, host list, events, retries and failures
\* (OutNetProc::DSEvent, PickServer, InNetProducer::Listen).
THEOREM TypeCorrect == Spec => []TypeOK
<1>1. IInv => TypeOK
  BY DEF IInv
<1> QED BY <1>1, Invariant, PTL

\* Listen and DSEvent never have two messages under way on one connection,
\* whatever fails, so that their blocking sends cannot fill the buffers
\* against each other.
THEOREM OneInFlightAlways == Spec => []OneInFlight
<1>1. IInv => OneInFlight
  <2> SUFFICES ASSUME IInv, NEW k \in Live
               PROVE  Len(conn[k].up) + Len(conn[k].down) + (IF InJob(k) THEN 1 ELSE 0) <= 1
    BY DEF OneInFlight
  <2>1. Flight(k)
    BY DEF IInv
  <2>2. CASE InJob(k)
    <3>1. conn[k].up = <<>> /\ conn[k].down = <<>>
      BY <2>1, <2>2 DEF Flight
    <3>2. Len(<<>>) + Len(<<>>) + 1 <= 1
      OBVIOUS
    <3> QED BY <2>2, <3>1, <3>2
  <2>3. CASE ~InJob(k)
    <3>1. PICK m, n : m = Len(conn[k].up) /\ n = Len(conn[k].down)
      OBVIOUS
    <3>2. m \in Nat /\ n \in Nat
      <4>1. conn[k].up \in Seq(DS) /\ conn[k].down \in Seq(Message)
        BY LiveFacts
      <4> QED BY <3>1, <4>1, LenProperties
    <3>3. m + n <= 1
      BY <2>1, <3>1 DEF Flight
    <3>4. m + n + 0 <= 1
      BY <3>2, <3>3
    <3> QED BY <2>3, <3>1, <3>4
  <2> QED BY <2>2, <2>3
<1> QED BY <1>1, Invariant, PTL

\* What DSEvent takes off the socket is the answer to the event that it is
\* working on: no reconnect and no retry lets an older answer through.
THEOREM AnswerIsForEventAlways == Spec => []AnswerIsForEvent
<1>1. IInv => AnswerIsForEvent
  <2> SUFFICES ASSUME IInv, NEW c \in Clients, pc[c] = "recv", ClientHasData(sock[c])
               PROVE  Head(conn[sock[c]].down) =
                        IF c \in Foreign THEN NullAnswer ELSE Answer(<<c, ev[c]>>)
    BY DEF AnswerIsForEvent
  <2>1. PICK k : k = sock[c]
    OBVIOUS
  <2>2. PICK ds : ds = <<c, ev[c]>>
    OBVIOUS
  <2>3. /\ k \in Live /\ conn[k].down # <<>>
        /\ \A i \in 1 .. Len(conn[k].down) : conn[k].down[i] = Result(ds)
    BY <2>1, <2>2 DEF IInv, ClientOk, Waiting, Own, ClientHasData
  <2>4. Head(conn[k].down) = Result(ds)
    BY <2>3, TakenFacts
  <2>5. ds[1] = c
    BY <2>2
  <2> QED BY <2>1, <2>2, <2>4, <2>5 DEF Result, Readable
<1> QED BY <1>1, Invariant, PTL

\* A client has taken back each of its events once, in order, and each after
\* some server's event loop had processed it.
THEOREM TakenWasServedAlways == Spec => []TakenWasServed
<1>1. IInv => TakenWasServed
  BY DEF IInv, ClientOk, Progress, TakenWasServed
<1> QED BY <1>1, Invariant, PTL

-----------------------------------------------------------------------------
(* Connections left behind.                                                *)

\* If the client has its end of k open, the connection does not work any more.
Gone(c, k) == Own(c, k) => conn[k].creset \/ ~conn[k].sopen

\* The connections that a client still has a use for: while it looks for a
\* server those it looks at, then the one it settled on.
InUse(c) ==
  IF pc[c] \in {"pick", "header"} THEN {probe[c], best[c]}
  ELSE IF pc[c] \in {"idle", "send", "recv"} THEN {sock[c]} ELSE {}
Left(c) ==
  /\ pc[c] = "pick" => probe[c] = None
  /\ \A k : k \notin InUse(c) => Gone(c, k)
LInv == \A c \in Clients : Left(c)

\* A connection that the client has, it had before, and it was not repaired.
Fades(k) ==
  k \in Live' =>
    /\ k \in Live /\ conn'[k].client = conn[k].client /\ (conn'[k].copen => conn[k].copen)
    /\ conn[k].creset \/ ~conn[k].sopen => conn'[k].creset \/ ~conn'[k].sopen

\* A connection that is gone stays so.
LEMMA GoneKeeps == ASSUME NEW c, NEW k, Fades(k), Gone(c, k) PROVE Gone(c, k)'
BY DEF Fades, Gone, Own

\* A client whose variables stay leaves no connection behind.
LEMMA LeftKeeps ==
  ASSUME NEW c \in Clients, Left(c), \A k : Fades(k),
         pc'[c] = pc[c], sock'[c] = sock[c], probe'[c] = probe[c], best'[c] = best[c]
  PROVE  Left(c)'
<1>1. \A k : Gone(c, k) => Gone(c, k)'
  BY GoneKeeps
<1>2. InUse(c)' = InUse(c)
  BY DEF InUse
<1> QED BY <1>1, <1>2 DEF Left

\* Closing clients' ends: what was closed is not the client's any more.
LEMMA ClosedFades ==
  ASSUME IInv, NEW cs \in [Live -> Connection], NEW K, conn' = CloseClientEnds(cs, K),
         \A k \in Live :
           /\ cs[k].client = conn[k].client /\ cs[k].copen = conn[k].copen
           /\ cs[k].sopen = conn[k].sopen /\ cs[k].creset = conn[k].creset
  PROVE  (\A k : Fades(k)) /\ \A c : \A k \in K : ~Own(c, k)'
<1>1. Live \in SUBSET Conns
  BY DEF IInv, TypeOK
<1>2. PICK D, now : D = Live /\ now = conn'
  OBVIOUS
<1>3. D \in SUBSET Conns /\ cs \in [D -> Connection] /\ now = CloseClientEnds(cs, K)
  BY <1>1, <1>2
<1>4. /\ DOMAIN now \subseteq D /\ now \in [DOMAIN now -> Connection]
      /\ \A k \in D : k \in DOMAIN now <=> cs[k].sopen \/ (cs[k].copen /\ k \notin K)
      /\ \A k \in DOMAIN now : now[k] = IF k \in K THEN ClientClosed(cs[k]) ELSE cs[k]
  BY <1>3, CloseClientFacts
<1>5. /\ Live' \subseteq Live
      /\ \A k \in Live' : conn'[k] = IF k \in K THEN ClientClosed(cs[k]) ELSE cs[k]
  BY <1>2, <1>4 DEF Live
<1>6. ASSUME NEW k \in Live'
      PROVE  /\ conn'[k].client = conn[k].client /\ conn'[k].creset = conn[k].creset
             /\ conn'[k].sopen = conn[k].sopen /\ (conn'[k].copen => conn[k].copen)
             /\ k \in K => ~conn'[k].copen
  <2>1. k \in Live /\ cs[k] \in Connection
    BY <1>5
  <2>2. CASE k \in K
    <3>1. conn'[k] = ClientClosed(cs[k])
      BY <1>5, <2>2
    <3> QED BY <2>1, <3>1, ClosedFacts
  <2>3. CASE k \notin K
    BY <1>5, <2>1, <2>3
  <2> QED BY <2>2, <2>3
<1> QED BY <1>5, <1>6 DEF Fades, Own

\* Closing servers' ends.
LEMMA DroppedFades ==
  ASSUME IInv, NEW K, conn' = CloseServerEnds(conn, K)
  PROVE  \A k : Fades(k)
<1>1. PICK D, cs, now : D = Live /\ cs = conn /\ now = conn'
  OBVIOUS
<1>2. D \in SUBSET Conns /\ cs \in [D -> Connection] /\ now = CloseServerEnds(cs, K)
  BY <1>1 DEF IInv, TypeOK
<1>3. ServerEndsClosed(D, cs, K, now)
  BY <1>2, CloseServerFacts
<1>4. /\ Live' \subseteq Live
      /\ \A k \in Live' : conn'[k] = IF k \in K THEN ServerClosed(conn[k]) ELSE conn[k]
  BY <1>1, <1>3 DEF Live, ServerEndsClosed
<1>5. ASSUME NEW k \in Live' PROVE Fades(k)
  <2>1. k \in Live /\ conn[k] \in Connection
    BY <1>4, LiveFacts
  <2>2. CASE k \in K
    <3>1. conn'[k] = ServerClosed(conn[k])
      BY <1>4, <2>2
    <3> QED BY <2>1, <3>1, ClosedFacts DEF Fades
  <2>3. CASE k \notin K
    BY <1>4, <2>1, <2>3 DEF Fades
  <2> QED BY <2>2, <2>3
<1> QED BY <1>5 DEF Fades

\* A connection that is changed in place.
LEMMA PutFades ==
  ASSUME IInv, NEW k \in Live, Live' = Live, \A j \in Live : j # k => conn'[j] = conn[j],
         conn'[k].client = conn[k].client, conn'[k].copen = conn[k].copen,
         conn[k].creset \/ ~conn[k].sopen => conn'[k].creset \/ ~conn'[k].sopen
  PROVE  \A j : Fades(j)
BY DEF Fades

\* A step that leaves the connections alone.
LEMMA SameFades == ASSUME UNCHANGED conn PROVE \A j : Fades(j)
<1>1. Live' = Live
  BY DEF Live
<1> QED BY <1>1 DEF Fades

\* A message of a server.
LEMMA DownFades == ASSUME IInv, NEW k, NEW m, Down(k, m) PROVE \A j : Fades(j)
<1>1. PICK reset \in BOOLEAN :
        conn' = [conn EXCEPT ![k].sreset = reset,
                             ![k].down = IF conn[k].copen /\ ~conn[k].creset
                                         THEN Append(@, m) ELSE @]
  BY DEF Down
<1>2. PICK d : d = IF conn[k].copen /\ ~conn[k].creset
                   THEN Append(conn[k].down, m) ELSE conn[k].down
  OBVIOUS
<1>3. conn \in [Live -> Connection]
  BY DEF IInv, TypeOK
<1>4. PICK r : r = [conn[k] EXCEPT !.sreset = reset, !.down = d]
  OBVIOUS
<1>5. CASE k \in Live
  <2>1. conn[k] \in Connection
    BY <1>3, <1>5
  <2>2. conn' = [conn EXCEPT ![k] = r]
    BY <1>1, <1>2, <1>3, <1>4, <1>5 DEF Connection
  <2>3. Live' = Live /\ conn'[k] = r /\ \A j \in Live : j # k => conn'[j] = conn[j]
    BY <1>3, <1>5, <2>2 DEF Live
  <2>4. r.client = conn[k].client /\ r.copen = conn[k].copen /\ r.sopen = conn[k].sopen
        /\ r.creset = conn[k].creset
    BY <1>4, <2>1 DEF Connection
  <2> QED BY <1>5, <2>3, <2>4, PutFades
<1>6. CASE k \notin Live
  BY <1>1, <1>3, <1>6, SameFades
<1> QED BY <1>5, <1>6

\* No step of a server gives a client a connection or repairs one.
LEMMA ServerFades == ASSUME IInv, NEW s \in Servers, ServerStep(s)
                     PROVE  UNCHANGED clientVars /\ \A k : Fades(k)
<1>1. CASE Accept(s)
  <2>1. UNCHANGED clientVars
    BY <1>1 DEF Accept
  <2>2. CASE UNCHANGED conn
    BY <2>1, <2>2, SameFades
  <2>3. ASSUME NEW k, conn' = CloseServerEnds(conn, {k}) PROVE \A j : Fades(j)
    BY <2>3, DroppedFades
  <2>4. ASSUME NEW k, NEW m, Down(k, m) PROVE \A j : Fades(j)
    BY <2>4, DownFades
  <2> QED BY <1>1, <2>1, <2>2, <2>3, <2>4 DEF Accept
<1>2. CASE Select(s)
  <2>1. UNCHANGED clientVars
    BY <1>2 DEF Select
  <2>2. CASE UNCHANGED conn
    BY <2>1, <2>2, SameFades
  <2>3. ASSUME NEW k, conn' = Disconnected(s, k).conn PROVE \A j : Fades(j)
    <3>1. conn' = CloseServerEnds(conn, {k})
      BY <2>3 DEF Disconnected
    <3> QED BY <3>1, DroppedFades
  <2>4. ASSUME NEW k \in sockets[s], conn' = [conn EXCEPT ![k].up = Tail(@)] PROVE \A j : Fades(j)
    <3>1. k \in Live
      BY DEF IInv, Accepted
    <3>2. conn \in [Live -> Connection] /\ conn[k] \in Connection
      BY <3>1 DEF IInv, TypeOK
    <3>3. PICK up : up = Tail(conn[k].up)
      OBVIOUS
    <3>4. PICK r : r = [conn[k] EXCEPT !.up = up]
      OBVIOUS
    <3>5. conn' = [conn EXCEPT ![k] = r]
      BY <2>4, <3>1, <3>2, <3>3, <3>4
    <3>6. Live' = Live /\ conn'[k] = r /\ \A j \in Live : j # k => conn'[j] = conn[j]
      BY <3>1, <3>2, <3>5 DEF Live
    <3>7. r.client = conn[k].client /\ r.copen = conn[k].copen /\ r.sopen = conn[k].sopen
          /\ r.creset = conn[k].creset
      BY <3>2, <3>4 DEF Connection
    <3> QED BY <3>1, <3>6, <3>7, PutFades
  <2> QED BY <1>2, <2>1, <2>2, <2>3, <2>4 DEF Select
<1>3. CASE Reply(s)
  <2>1. UNCHANGED clientVars
    BY <1>3 DEF Reply
  <2>2. ASSUME NEW k, conn' = CloseServerEnds(conn, {k}) PROVE \A j : Fades(j)
    BY <2>2, DroppedFades
  <2>3. ASSUME NEW k, NEW m, Down(k, m) PROVE \A j : Fades(j)
    BY <2>3, DownFades
  <2> QED BY <1>3, <2>1, <2>2, <2>3 DEF Reply
<1>4. CASE StopOnError(s)
  BY <1>4, DroppedFades DEF StopOnError, EndServer
<1> QED BY <1>1, <1>2, <1>3, <1>4 DEF ServerStep

\* Nor does a failure other than that of a client.
LEMMA FailureFades ==
  ASSUME IInv, Environment, \A c \in Clients : ~KillClient(c)
  PROVE  UNCHANGED clientVars /\ \A k : Fades(k)
<1>1. ASSUME NEW s \in Servers, KillServer(s) \/ InterruptServer(s)
      PROVE  UNCHANGED clientVars /\ \A k : Fades(k)
  BY <1>1, DroppedFades DEF KillServer, InterruptServer, EndServer
<1>2. ASSUME NEW s \in Servers, AcceptFails(s) \/ StartServer(s)
      PROVE  UNCHANGED clientVars /\ \A k : Fades(k)
  BY <1>2, SameFades DEF AcceptFails, StartServer
<1>3. conn \in [Live -> Connection]
  BY DEF IInv, TypeOK
<1>4. ASSUME NEW k \in Live, BreakClientEnd(k) PROVE UNCHANGED clientVars /\ \A j : Fades(j)
  <2>1. conn' = [conn EXCEPT ![k].creset = TRUE, ![k].down = <<>>] /\ UNCHANGED clientVars
    BY <1>4 DEF BreakClientEnd
  <2>2. Live' = Live /\ \A j \in Live : j # k => conn'[j] = conn[j]
    BY <1>3, <2>1 DEF Live
  <2>3. conn[k] \in Connection
    BY <1>3
  <2>4. conn'[k] = [conn[k] EXCEPT !.creset = TRUE, !.down = <<>>]
    BY <1>3, <2>1
  <2>5. conn'[k].client = conn[k].client /\ conn'[k].copen = conn[k].copen /\ conn'[k].creset
    BY <2>3, <2>4 DEF Connection
  <2> QED BY <2>1, <2>2, <2>5, PutFades
<1>5. ASSUME NEW k \in Live, BreakServerEnd(k) PROVE UNCHANGED clientVars /\ \A j : Fades(j)
  <2>1. conn' = [conn EXCEPT ![k].sreset = TRUE, ![k].up = <<>>] /\ UNCHANGED clientVars
    BY <1>5 DEF BreakServerEnd
  <2>2. Live' = Live /\ \A j \in Live : j # k => conn'[j] = conn[j]
    BY <1>3, <2>1 DEF Live
  <2>3. conn[k] \in Connection
    BY <1>3
  <2>4. conn'[k] = [conn[k] EXCEPT !.sreset = TRUE, !.up = <<>>]
    BY <1>3, <2>1
  <2>5. conn'[k].client = conn[k].client /\ conn'[k].copen = conn[k].copen
        /\ conn'[k].sopen = conn[k].sopen /\ conn'[k].creset = conn[k].creset
    BY <2>3, <2>4 DEF Connection
  <2> QED BY <2>1, <2>2, <2>5, PutFades
<1> QED BY <1>1, <1>2, <1>4, <1>5 DEF Environment

\* A client that ends has no connection left.
LEMMA EndClientLeft ==
  ASSUME IInv, LInv, NEW c \in Clients, NEW how \in {"done", "dead"}, EndClient(c, how)
  PROVE  LInv'
<1>1. /\ pc' = [pc EXCEPT ![c] = how] /\ conn' = CloseClientEnds(conn, OfClient(c))
      /\ UNCHANGED <<sock, probe, best>>
  BY DEF EndClient
<1>2. pc \in [Clients -> {"pick", "header", "idle", "send", "recv", "done", "dead"}]
  BY DEF IInv, TypeOK
<1>3. (\A k : Fades(k)) /\ \A d : \A k \in OfClient(c) : ~Own(d, k)'
  <2>1. conn \in [Live -> Connection]
    BY DEF IInv, TypeOK
  <2> QED BY <1>1, <2>1, ClosedFades
<1>4. \A k : ~Own(c, k)'
  BY <1>3 DEF Own, Fades, OfClient
<1>5. Left(c)'
  <2>1. pc'[c] = how
    BY <1>1, <1>2
  <2> QED BY <1>4, <2>1 DEF Left, Gone
<1>6. ASSUME NEW d \in Clients, d # c PROVE Left(d)'
  <2>1. pc'[d] = pc[d] /\ sock'[d] = sock[d] /\ probe'[d] = probe[d] /\ best'[d] = best[d]
    BY <1>1, <1>2, <1>6
  <2> QED BY <1>3, <2>1, LeftKeeps DEF LInv
<1> QED BY <1>5, <1>6 DEF LInv

\* The client c alone moves: it is enough to look at c.
LEMMA OneMoves ==
  ASSUME IInv, LInv, NEW c \in Clients, Left(c)', \A d \in Clients : d # c =>
           /\ pc'[d] = pc[d] /\ sock'[d] = sock[d] /\ probe'[d] = probe[d] /\ best'[d] = best[d]
           /\ \A k : Gone(d, k) => Gone(d, k)'
  PROVE  LInv'
<1>1. ASSUME NEW d \in Clients, d # c PROVE Left(d)'
  <2>1. InUse(d)' = InUse(d)
    BY <1>1 DEF InUse
  <2> QED BY <1>1, <2>1 DEF LInv, Left
<1> QED BY <1>1 DEF LInv

\* DSEvent's failed attempts leave a socket that does not work.
LEMMA RetryLeft ==
  ASSUME IInv, LInv, NEW c \in Clients, pc[c] \in {"send", "recv"}, StartPick(c),
         Gone(c, sock[c]), UNCHANGED <<sock, conn>>
  PROVE  LInv'
<1>1. /\ pc' = [pc EXCEPT ![c] = "pick"] /\ probe' = [probe EXCEPT ![c] = None]
      /\ best' = [best EXCEPT ![c] = None]
  BY DEF StartPick
<1>2. ClientTypes
  BY TypeParts DEF IInv
<1>3. \A d, k : Gone(d, k) => Gone(d, k)'
  BY SameFades, GoneKeeps
<1>4. pc'[c] = "pick" /\ probe'[c] = None
  BY <1>1, <1>2 DEF ClientTypes
<1>5. \A k : Gone(c, k)
  BY DEF LInv, Left, InUse
<1>6. Left(c)'
  BY <1>3, <1>4, <1>5 DEF Left
<1>7. \A d \in Clients : d # c =>
        pc'[d] = pc[d] /\ sock'[d] = sock[d] /\ probe'[d] = probe[d] /\ best'[d] = best[d]
  BY <1>1, <1>2 DEF ClientTypes
<1> QED BY <1>3, <1>6, <1>7, OneMoves

\* Receiving does not change who has a connection.
LEMMA TakenFields ==
  ASSUME IInv, NEW k \in Live
  PROVE  /\ DOMAIN Taken(k) = Live
         /\ \A j \in Live : /\ Taken(k)[j].client = conn[j].client
                            /\ Taken(k)[j].copen = conn[j].copen
                            /\ Taken(k)[j].sopen = conn[j].sopen
                            /\ Taken(k)[j].creset = conn[j].creset
<1>1. conn \in [Live -> Connection] /\ conn[k] \in Connection
  BY DEF IInv, TypeOK
<1>2. PICK d : d = Tail(conn[k].down)
  OBVIOUS
<1>3. PICK r : r = [conn[k] EXCEPT !.down = d]
  OBVIOUS
<1>4. Taken(k) = [conn EXCEPT ![k] = r]
  BY <1>1, <1>2, <1>3 DEF Taken
<1>5. /\ r.client = conn[k].client /\ r.copen = conn[k].copen
      /\ r.sopen = conn[k].sopen /\ r.creset = conn[k].creset
  BY <1>1, <1>3 DEF Connection
<1>6. \A j \in Live : Taken(k)[j] = IF j = k THEN r ELSE conn[j]
  BY <1>1, <1>4
<1>7. DOMAIN Taken(k) = Live
  BY <1>1, <1>4
<1> QED BY <1>5, <1>6, <1>7

\* The connection PickServer makes is the one it then tries.
LEMMA ConnectLeft == ASSUME IInv, LInv, NEW c \in Clients, Connect(c) PROVE LInv'
<1>1. ClientTypes /\ ConnTypes
  BY TypeParts DEF IInv
<1>2. Left(c) /\ pc[c] = "pick" /\ UNCHANGED <<sock, best>> /\ probe[c] = None
  BY DEF LInv, Left, Connect
<1>3. CASE UNCHANGED <<pc, probe, conn>>
  BY <1>2, <1>3, SameFades, LeftKeeps DEF LInv
<1>4. ASSUME Conns \ Live # {}, NEW s,
             conn' = [k \in Live \cup {Fresh} |->
                        IF k = Fresh THEN NewConn(c, s) ELSE conn[k]],
             probe' = [probe EXCEPT ![c] = Fresh], pc' = [pc EXCEPT ![c] = "header"]
      PROVE  LInv'
  <2>1. PICK f : f = Fresh
    OBVIOUS
  <2>2. f \notin Live
    BY <1>4, <2>1 DEF Fresh
  <2>3. conn' = [k \in Live \cup {f} |-> IF k = f THEN NewConn(c, s) ELSE conn[k]]
    BY <1>4, <2>1
  <2>4. /\ Live' = Live \cup {f} /\ conn'[f] = NewConn(c, s)
        /\ \A j \in Live : conn'[j] = conn[j]
    BY <2>2, <2>3 DEF Live
  <2>5. conn'[f].client = c
    BY <2>4 DEF NewConn
  <2>6. \A k : k # f => Fades(k)
    BY <2>4 DEF Fades
  <2>7. \A d, k : k # f /\ Gone(d, k) => Gone(d, k)'
    BY <2>6, GoneKeeps
  <2>8. \A d : d # c => \A k : Gone(d, k) => Gone(d, k)'
    <3>1. \A d : d # c => Gone(d, f)'
      BY <2>5 DEF Gone, Own
    <3> QED BY <2>7, <3>1
  <2>9. pc'[c] = "header" /\ probe'[c] = f /\ best'[c] = best[c]
    BY <1>1, <1>2, <1>4, <2>1 DEF ClientTypes
  <2>10. Gone(c, None)
    BY LiveFacts DEF Gone, Own
  <2>11. Left(c)'
    <3>1. \A k : k \notin {f, best[c]} => Gone(c, k)
      BY <1>2, <2>10 DEF Left, InUse
    <3>2. InUse(c)' = {f, best[c]}
      BY <2>9 DEF InUse
    <3> QED BY <2>7, <2>9, <3>1, <3>2 DEF Left
  <2>12. \A d \in Clients : d # c =>
           pc'[d] = pc[d] /\ sock'[d] = sock[d] /\ probe'[d] = probe[d] /\ best'[d] = best[d]
    BY <1>1, <1>2, <1>4 DEF ClientTypes
  <2> QED BY <2>8, <2>11, <2>12, OneMoves
<1> QED BY <1>3, <1>4 DEF Connect

\* PickServer closes the loser, or the connection that sent no header.
LEMMA ReadHeaderLeft == ASSUME IInv, LInv, NEW c \in Clients, ReadHeader(c) PROVE LInv'
<1>1. PICK k : k = probe[c]
  OBVIOUS
<1>2. /\ pc[c] = "header" /\ UNCHANGED sock
      /\ probe' = [probe EXCEPT ![c] = None] /\ pc' = [pc EXCEPT ![c] = "pick"]
  BY DEF ReadHeader
<1>3. ClientTypes /\ Left(c)
  BY TypeParts DEF IInv, LInv
<1>4. Own(c, k) /\ k \in Live
  BY <1>1, <1>2 DEF IInv, ClientOk, Probing, Own
<1>5. ASSUME NEW b, NEW lost, {k, best[c]} \subseteq {b, lost},
             best' = [best EXCEPT ![c] = b],
             \A j : Fades(j), ~Own(c, lost)'
      PROVE  LInv'
  <2>1. pc'[c] = "pick" /\ probe'[c] = None /\ best'[c] = b
    BY <1>2, <1>3, <1>5 DEF ClientTypes
  <2>2. \A d, j : Gone(d, j) => Gone(d, j)'
    BY <1>5, GoneKeeps
  <2>3. Left(c)'
    <3>1. InUse(c) = {k, best[c]} /\ InUse(c)' = {None, b}
      BY <1>1, <1>2, <2>1 DEF InUse
    <3>2. Gone(c, lost)'
      BY <1>5 DEF Gone
    <3>3. ASSUME NEW j, j \notin {None, b} PROVE Gone(c, j)'
      <4>1. CASE j = lost
        BY <3>2, <4>1
      <4>2. CASE j # lost
        <5>1. j \notin InUse(c)
          BY <1>5, <3>1, <3>3, <4>2
        <5> QED BY <1>3, <2>2, <5>1 DEF Left
      <4> QED BY <4>1, <4>2
    <3> QED BY <2>1, <3>1, <3>3 DEF Left
  <2>4. \A d \in Clients : d # c =>
          pc'[d] = pc[d] /\ sock'[d] = sock[d] /\ probe'[d] = probe[d] /\ best'[d] = best[d]
    BY <1>2, <1>3, <1>5 DEF ClientTypes
  <2> QED BY <2>2, <2>3, <2>4, OneMoves
<1>6. ASSUME NEW better \in BOOLEAN, ClientHasData(k),
             better => best' = [best EXCEPT ![c] = k],
             ~better => best' = [best EXCEPT ![c] = @],
             conn' = CloseClientEnds(Taken(k), {Loser(c, k, better)})
      PROVE  LInv'
  <2>1. PICK lost : lost = Loser(c, k, better)
    OBVIOUS
  <2>2. PICK b : b = IF better THEN k ELSE best[c]
    OBVIOUS
  <2>3. PICK cs : cs = Taken(k)
    OBVIOUS
  <2>4. cs \in [Live -> Connection]
    BY <1>4, <1>6, <2>3, TakenFacts DEF ClientHasData
  <2>5. \A j \in Live :
          /\ cs[j].client = conn[j].client /\ cs[j].copen = conn[j].copen
          /\ cs[j].sopen = conn[j].sopen /\ cs[j].creset = conn[j].creset
    BY <1>4, <2>3, TakenFields
  <2>6. PICK K : K = {lost}
    OBVIOUS
  <2>7. conn' = CloseClientEnds(cs, K)
    BY <1>6, <2>1, <2>3, <2>6
  <2>8. (\A j : Fades(j)) /\ \A d : \A j \in K : ~Own(d, j)'
    BY <2>4, <2>5, <2>7, ClosedFades
  <2>9. {k, best[c]} \subseteq {b, lost} /\ best' = [best EXCEPT ![c] = b]
    BY <1>3, <1>6, <2>1, <2>2 DEF Loser, ClientTypes
  <2> QED BY <1>5, <2>6, <2>8, <2>9
<1>7. ASSUME ClientSeesEnd(k), conn' = CloseClientEnds(conn, {k}), UNCHANGED best
      PROVE  LInv'
  <2>1. conn \in [Live -> Connection]
    BY DEF IInv, TypeOK
  <2>2. (\A j : Fades(j)) /\ \A d : \A j \in {k} : ~Own(d, j)'
    BY <1>7, <2>1, ClosedFades
  <2>3. best' = [best EXCEPT ![c] = best[c]]
    BY <1>3, <1>7 DEF ClientTypes
  <2> QED BY <1>5, <2>2, <2>3
<1>8. CASE ClientHasData(k) /\ ~ClientSeesEnd(k)
  <2>1. PICK better \in BOOLEAN :
          better = (best[c] = None \/ Less(Head(conn[k].down).load, minLoad[c]))
    OBVIOUS
  <2>2. /\ best' = [best EXCEPT ![c] = IF better THEN k ELSE @]
        /\ conn' = CloseClientEnds(Taken(k), {Loser(c, k, better)})
    BY <1>1, <1>8, <2>1 DEF ReadHeader
  <2> QED BY <1>6, <1>8, <2>1, <2>2
<1>9. CASE ClientSeesEnd(k)
  <2>1. ~ClientHasData(k)
    BY <1>9 DEF ClientHasData, ClientSeesEnd
  <2> QED BY <1>1, <1>7, <1>9, <2>1 DEF ReadHeader
<1> QED BY <1>1, <1>8, <1>9 DEF ReadHeader

\* A step of a client leaves no working connection behind.
LEMMA ClientStepLeft == ASSUME IInv, LInv, NEW c \in Clients, ClientStep(c) PROVE LInv'
<1>1. ClientTypes /\ Left(c)
  BY TypeParts DEF IInv, LInv
<1>2. ASSUME NEW how \in {"done", "dead"}, EndClient(c, how) PROVE LInv'
  BY <1>2, EndClientLeft
<1>3. ASSUME UNCHANGED conn, InUse(c)' = InUse(c), pc'[c] # "pick",
             \A d \in Clients : d # c =>
               pc'[d] = pc[d] /\ sock'[d] = sock[d] /\ probe'[d] = probe[d] /\ best'[d] = best[d]
      PROVE  LInv'
  <2>1. \A d, j : Gone(d, j) => Gone(d, j)'
    BY <1>3, SameFades, GoneKeeps
  <2>2. Left(c)'
    BY <1>1, <1>3, <2>1 DEF Left
  <2> QED BY <1>3, <2>1, <2>2, OneMoves
<1>4. CASE PickDone(c)
  <2>1. CASE best[c] # None
    <3>1. /\ pc[c] = "pick" /\ sock' = [sock EXCEPT ![c] = best[c]]
          /\ best' = [best EXCEPT ![c] = None] /\ UNCHANGED <<probe, conn>>
          /\ pc' = [pc EXCEPT ![c] = IF ev[c] = 0 THEN "idle" ELSE "send"]
      BY <1>4, <2>1 DEF PickDone
    <3>2. InUse(c) = {None, best[c]} /\ InUse(c)' = {best[c]}
      BY <1>1, <3>1 DEF ClientTypes, InUse, Left
    <3>3. Gone(c, None)
      BY LiveFacts DEF Gone, Own
    <3>4. \A d, j : Gone(d, j) => Gone(d, j)'
      BY <3>1, SameFades, GoneKeeps
    <3>5. pc'[c] # "pick"
      BY <1>1, <3>1 DEF ClientTypes
    <3>6. Left(c)'
      BY <1>1, <3>2, <3>3, <3>4, <3>5 DEF Left
    <3>7. \A d \in Clients : d # c =>
            pc'[d] = pc[d] /\ sock'[d] = sock[d] /\ probe'[d] = probe[d] /\ best'[d] = best[d]
      BY <1>1, <3>1 DEF ClientTypes
    <3> QED BY <3>4, <3>6, <3>7, OneMoves
  <2> QED BY <1>2, <1>4, <2>1 DEF PickDone
<1>5. CASE NextEvent(c)
  BY <1>1, <1>3, <1>5 DEF NextEvent, ClientTypes, InUse
<1>6. CASE Finish(c)
  BY <1>2, <1>6 DEF Finish
<1>7. CASE Send(c)
  <2>1. PICK k : k = sock[c]
    OBVIOUS
  <2>2. pc[c] = "send" /\ UNCHANGED sock
    BY <1>7 DEF Send
  <2>3. k \in Live /\ conn \in [Live -> Connection] /\ conn[k] \in Connection
    BY <2>1, <2>2 DEF IInv, TypeOK, ClientOk, Chosen, Own
  <2>4. ASSUME pc' = [pc EXCEPT ![c] = "recv"], UNCHANGED <<probe, best>>, \A j : Fades(j)
        PROVE  LInv'
    <3>1. \A d, j : Gone(d, j) => Gone(d, j)'
      BY <2>4, GoneKeeps
    <3>2. InUse(c)' = InUse(c) /\ pc'[c] # "pick"
      BY <1>1, <2>2, <2>4 DEF ClientTypes, InUse
    <3>3. Left(c)'
      BY <1>1, <3>1, <3>2 DEF Left
    <3>4. \A d \in Clients : d # c =>
            pc'[d] = pc[d] /\ sock'[d] = sock[d] /\ probe'[d] = probe[d] /\ best'[d] = best[d]
      BY <1>1, <2>2, <2>4 DEF ClientTypes
    <3> QED BY <3>1, <3>3, <3>4, OneMoves
  <2>5. CASE pc' = [pc EXCEPT ![c] = "recv"] /\ UNCHANGED <<probe, best, conn>>
    BY <2>4, <2>5, SameFades
  <2>6. CASE conn[k].creset /\ StartPick(c) /\ UNCHANGED conn
    <3>1. Gone(c, sock[c])
      BY <2>1, <2>6 DEF Gone
    <3> QED BY <2>2, <2>6, <3>1, RetryLeft
  <2>7. ASSUME NEW reset \in BOOLEAN, ~conn[k].creset,
               conn' = [conn EXCEPT ![k].creset = reset,
                                    ![k].up = IF conn[k].sopen /\ ~conn[k].sreset
                                              THEN Append(@, <<c, ev[c]>>) ELSE @],
               pc' = [pc EXCEPT ![c] = "recv"], UNCHANGED <<probe, best>>
        PROVE  LInv'
    <3>1. PICK u : u = IF conn[k].sopen /\ ~conn[k].sreset
                       THEN Append(conn[k].up, <<c, ev[c]>>) ELSE conn[k].up
      OBVIOUS
    <3>2. PICK r : r = [conn[k] EXCEPT !.creset = reset, !.up = u]
      OBVIOUS
    <3>3. conn' = [conn EXCEPT ![k] = r]
      BY <2>3, <2>7, <3>1, <3>2 DEF Connection
    <3>4. Live' = Live /\ conn'[k] = r /\ \A j \in Live : j # k => conn'[j] = conn[j]
      BY <2>3, <3>3 DEF Live
    <3>5. r.client = conn[k].client /\ r.copen = conn[k].copen /\ r.sopen = conn[k].sopen
      BY <2>3, <3>2 DEF Connection
    <3>6. \A j : Fades(j)
      BY <2>3, <2>7, <3>4, <3>5, PutFades
    <3> QED BY <2>4, <2>7, <3>6
  <2> QED BY <1>7, <2>1, <2>5, <2>6, <2>7 DEF Send
<1>8. CASE Recv(c)
  <2>1. PICK k : k = sock[c]
    OBVIOUS
  <2>2. pc[c] = "recv"
    BY <1>8 DEF Recv
  <2>3. k \in Live
    BY <2>1, <2>2 DEF IInv, ClientOk, Waiting, Own
  <2>4. CASE /\ conn' = Taken(k) /\ pc' = [pc EXCEPT ![c] = "idle"]
             /\ UNCHANGED <<sock, probe, best>>
    <3>1. \A j : Fades(j)
      BY <2>3, <2>4, TakenFields DEF Fades, Live
    <3>2. \A d, j : Gone(d, j) => Gone(d, j)'
      BY <3>1, GoneKeeps
    <3>3. InUse(c)' = InUse(c) /\ pc'[c] # "pick"
      BY <1>1, <2>2, <2>4 DEF ClientTypes, InUse
    <3>4. Left(c)'
      BY <1>1, <3>2, <3>3 DEF Left
    <3>5. \A d \in Clients : d # c =>
            pc'[d] = pc[d] /\ sock'[d] = sock[d] /\ probe'[d] = probe[d] /\ best'[d] = best[d]
      BY <1>1, <2>4 DEF ClientTypes
    <3> QED BY <3>2, <3>4, <3>5, OneMoves
  <2>5. CASE EndClient(c, "dead")
    BY <1>2, <2>5
  <2>6. CASE ClientSeesEnd(k) /\ StartPick(c) /\ UNCHANGED <<sock, conn>>
    <3>1. Gone(c, sock[c])
      BY <2>1, <2>6 DEF Gone, ClientSeesEnd
    <3> QED BY <2>2, <2>6, <3>1, RetryLeft
  <2> QED BY <1>8, <2>1, <2>4, <2>5, <2>6 DEF Recv
<1> QED BY <1>4, <1>5, <1>6, <1>7, <1>8, ConnectLeft, ReadHeaderLeft DEF ClientStep

\* PickServer and DSEvent never leave a working connection behind, which its
\* server would count in its load for good, however often they retry.
THEOREM AbandonedIsBrokenAlways == Spec => []AbandonedIsBroken
<1>1. Init => LInv
  BY DEF Init, LInv, Left, Gone, Own, Live
<1>2. IInv /\ LInv /\ [Next]_vars => LInv'
  <2> SUFFICES ASSUME IInv, LInv, [Next]_vars PROVE LInv'
    OBVIOUS
  <2>1. ASSUME UNCHANGED clientVars, \A k : Fades(k) PROVE LInv'
    BY <2>1, LeftKeeps DEF LInv, clientVars
  <2>2. CASE \E s \in Servers : ServerStep(s)
    BY <2>1, <2>2, ServerFades
  <2>3. CASE \E c \in Clients : KillClient(c)
    BY <2>3, EndClientLeft DEF KillClient
  <2>4. CASE Environment /\ \A c \in Clients : ~KillClient(c)
    BY <2>1, <2>4, FailureFades
  <2>5. CASE UNCHANGED vars
    BY <2>1, <2>5, SameFades DEF vars
  <2> QED BY <2>2, <2>3, <2>4, <2>5, ClientStepLeft DEF Next
<1>3. IInv /\ LInv => AbandonedIsBroken
  <2> SUFFICES ASSUME IInv, LInv, NEW k \in Live, NEW c, c = conn[k].client, conn[k].copen,
                      k \notin {sock[c], probe[c], best[c]}
               PROVE  conn[k].creset \/ ~conn[k].sopen
    BY DEF AbandonedIsBroken
  <2>1. c \in Clients /\ Own(c, k)
    BY LiveFacts DEF Own
  <2>2. k \notin InUse(c)
    BY DEF InUse
  <2> QED BY <2>1, <2>2 DEF LInv, Left, Gone
<1> QED BY <1>1, <1>2, <1>3, Invariant, PTL DEF Spec

-----------------------------------------------------------------------------
(* The load in a header.                                                   *)

\* The first six bytes of a load's double, which are all that Connect sees.
LEMMA TwoToFacts ==
  /\ TwoTo(0) = 1 /\ TwoTo(1) = 2 /\ TwoTo(2) = 4 /\ TwoTo(3) = 8
  /\ TwoTo(4) = 16 /\ TwoTo(5) = 32 /\ TwoTo(6) = 64 /\ TwoTo(7) = 128
  /\ TwoTo(8) = 256 /\ TwoTo(9) = 512 /\ TwoTo(10) = 1024 /\ TwoTo(11) = 2048
  /\ TwoTo(12) = 4096
BY DEF TwoTo, PowersOfTwo

\* The powers of two that a load needs.
LEMMA TwoToRange ==
  \A e \in 0 .. 11 :
    /\ TwoTo(e) \in Nat /\ TwoTo(e + 1) = 2 * TwoTo(e) /\ TwoTo(12 - e) \in Nat
    /\ TwoTo(12 - e) > 0 /\ TwoTo(e) * TwoTo(12 - e) = 4096
<1> SUFFICES ASSUME NEW e \in 0 .. 11
             PROVE  /\ TwoTo(e) \in Nat /\ TwoTo(e + 1) = 2 * TwoTo(e) /\ TwoTo(12 - e) \in Nat
                    /\ TwoTo(12 - e) > 0 /\ TwoTo(e) * TwoTo(12 - e) = 4096
  OBVIOUS
<1>1. PICK d : d = e + 1 OBVIOUS
<1>2. PICK f : f = 12 - e OBVIOUS
<1>3. \/ e = 0 \/ e = 1 \/ e = 2 \/ e = 3 \/ e = 4 \/ e = 5
      \/ e = 6 \/ e = 7 \/ e = 8 \/ e = 9 \/ e = 10 \/ e = 11
  OBVIOUS
<1>4. /\ TwoTo(e) \in Nat /\ TwoTo(d) = 2 * TwoTo(e) /\ TwoTo(f) \in Nat
      /\ TwoTo(f) > 0 /\ TwoTo(e) * TwoTo(f) = 4096
  BY <1>1, <1>2, <1>3, TwoToFacts
<1> QED BY <1>1, <1>2, <1>4

\* Log2 is what its comment says.
LEMMA Log2Facts ==
  ASSUME NEW n \in Loads, n # 0
  PROVE  Log2(n) \in 0 .. 11 /\ TwoTo(Log2(n)) <= n /\ n < TwoTo(Log2(n) + 1)
<1>1. \E e \in 0 .. 11 : TwoTo(e) <= n /\ n < TwoTo(e + 1)
  <2>1. n \in 1 .. 4095
    BY DEF Loads
  <2>2. \E e \in 0 .. 11 : TwoTo(e) <= n /\ n < 2 * TwoTo(e)
    <3>0. \A e \in Nat : e <= 11 => e \in 0 .. 11
      OBVIOUS
    <3>1. \/ 1 <= n /\ n < 2
          \/ 2 <= n /\ n < 4
          \/ 4 <= n /\ n < 8
          \/ 8 <= n /\ n < 16
          \/ 16 <= n /\ n < 32
          \/ 32 <= n /\ n < 64
          \/ 64 <= n /\ n < 128
          \/ 128 <= n /\ n < 256
          \/ 256 <= n /\ n < 512
          \/ 512 <= n /\ n < 1024
          \/ 1024 <= n /\ n < 2048
          \/ 2048 <= n /\ n < 4096
      BY <2>1
    <3>2. CASE 1 <= n /\ n < 2
      BY <3>2, <3>0, TwoToFacts
    <3>3. CASE 2 <= n /\ n < 4
      BY <3>3, <3>0, TwoToFacts
    <3>4. CASE 4 <= n /\ n < 8
      BY <3>4, <3>0, TwoToFacts
    <3>5. CASE 8 <= n /\ n < 16
      BY <3>5, <3>0, TwoToFacts
    <3>6. CASE 16 <= n /\ n < 32
      BY <3>6, <3>0, TwoToFacts
    <3>7. CASE 32 <= n /\ n < 64
      BY <3>7, <3>0, TwoToFacts
    <3>8. CASE 64 <= n /\ n < 128
      BY <3>8, <3>0, TwoToFacts
    <3>9. CASE 128 <= n /\ n < 256
      BY <3>9, <3>0, TwoToFacts
    <3>10. CASE 256 <= n /\ n < 512
      BY <3>10, <3>0, TwoToFacts
    <3>11. CASE 512 <= n /\ n < 1024
      BY <3>11, <3>0, TwoToFacts
    <3>12. CASE 1024 <= n /\ n < 2048
      BY <3>12, <3>0, TwoToFacts
    <3>13. CASE 2048 <= n /\ n < 4096
      BY <3>13, <3>0, TwoToFacts
    <3> QED BY <3>1, <3>2, <3>3, <3>4, <3>5, <3>6, <3>7, <3>8, <3>9, <3>10, <3>11, <3>12, <3>13
  <2> QED BY <2>2, TwoToRange
<1> QED BY <1>1 DEF Log2

\* The mantissa of n, in the twelve bits it needs.
Mantissa(n) == (n - TwoTo(Log2(n))) * TwoTo(12 - Log2(n))

\* A positive factor keeps the order.
LEMMA Scale ==
  ASSUME NEW a \in Nat, NEW b \in Nat, NEW c \in Nat, c > 0
  PROVE  a * c < b * c <=> a < b
<1>1. a < b => a * c < b * c
  <2> SUFFICES ASSUME a < b PROVE a * c < b * c
    OBVIOUS
  <2>1. PICK d \in Nat : b = a + 1 + d
    <3>1. b - a - 1 \in Nat /\ b = a + 1 + (b - a - 1)
      OBVIOUS
    <3> QED BY <3>1
  <2>2. b * c = a * c + c + d * c
    BY <2>1
  <2>3. a * c \in Nat /\ d * c \in Nat
    OBVIOUS
  <2> QED BY <2>2, <2>3
<1>2. b <= a => b * c <= a * c
  <2> SUFFICES ASSUME b <= a PROVE b * c <= a * c
    OBVIOUS
  <2>1. PICK d \in Nat : a = b + d
    <3>1. a - b \in Nat /\ a = b + (a - b)
      OBVIOUS
    <3> QED BY <3>1
  <2>2. a * c = b * c + d * c
    BY <2>1
  <2>3. b * c \in Nat /\ d * c \in Nat
    OBVIOUS
  <2> QED BY <2>2, <2>3
<1>3. a * c \in Nat /\ b * c \in Nat
  OBVIOUS
<1> QED BY <1>1, <1>2, <1>3

\* The mantissa of a load fits into its bits.
LEMMA MantissaFacts ==
  ASSUME NEW n \in Loads, n # 0
  PROVE  Mantissa(n) \in 0 .. 4095
<1>1. n \in Nat
  BY DEF Loads
<1>2. PICK e \in 0 .. 11 : e = Log2(n) /\ TwoTo(e) <= n /\ n < TwoTo(e + 1)
  BY Log2Facts
<1>3. PICK p \in Nat, q \in Nat : p = TwoTo(e) /\ q = TwoTo(12 - e) /\ q > 0 /\ p * q = 4096
        /\ TwoTo(e + 1) = 2 * p
  BY TwoToRange
<1>4. PICK a \in Nat : a = n - p /\ a < p
  <2>1. n - p \in Nat /\ n - p < p
    BY <1>1, <1>2, <1>3
  <2> QED BY <2>1
<1>5. a * q < 4096 /\ a * q \in Nat
  BY <1>3, <1>4, Scale
<1>6. Mantissa(n) = a * q
  BY <1>2, <1>3, <1>4 DEF Mantissa
<1> QED BY <1>5, <1>6

\* Of two loads with the same exponent the larger has the larger mantissa.
LEMMA MantissaOrder ==
  ASSUME NEW m \in Loads, NEW n \in Loads, m # 0, n # 0, Log2(m) = Log2(n)
  PROVE  Mantissa(m) < Mantissa(n) <=> m < n
<1>1. m \in Nat /\ n \in Nat
  BY DEF Loads
<1>2. PICK e \in 0 .. 11 : e = Log2(n) /\ TwoTo(e) <= n /\ TwoTo(e) <= m
  BY Log2Facts
<1>3. PICK p \in Nat, q \in Nat : p = TwoTo(e) /\ q = TwoTo(12 - e) /\ q > 0
  BY TwoToRange
<1>4. PICK a \in Nat, b \in Nat : a = m - p /\ b = n - p /\ (a < b <=> m < n)
  <2>1. m - p \in Nat /\ n - p \in Nat /\ (m - p < n - p <=> m < n)
    BY <1>1, <1>2, <1>3
  <2> QED BY <2>1
<1>5. a * q < b * q <=> a < b
  BY <1>3, <1>4, Scale
<1> QED BY <1>2, <1>3, <1>4, <1>5 DEF Mantissa

\* The exponent grows with the load.
LEMMA Log2Order ==
  ASSUME NEW m \in Loads, NEW n \in Loads, m # 0, n # 0, Log2(m) < Log2(n)
  PROVE  m < n
<1>1. m \in Nat /\ n \in Nat
  BY DEF Loads
<1>2. PICK d \in 0 .. 11, e \in 0 .. 11 :
        d = Log2(m) /\ e = Log2(n) /\ m < TwoTo(d + 1) /\ TwoTo(e) <= n
  BY Log2Facts
<1>3. d + 1 \in 1 .. 11 /\ e \in 1 .. 11 /\ d + 1 <= e
  BY <1>2
<1>4. \A x, y \in 1 .. 11 : x <= y => TwoTo(x) <= TwoTo(y) /\ TwoTo(x) \in Nat
  BY TwoToFacts
<1>5. TwoTo(d + 1) <= TwoTo(e) /\ TwoTo(d + 1) \in Nat /\ TwoTo(e) \in Nat
  BY <1>3, <1>4
<1> QED BY <1>1, <1>2, <1>5

\* The bytes of a double that say which load it is.
High(n) == DoubleBytes(n)[1]
Middle(n) == DoubleBytes(n)[2]
Low(n) == DoubleBytes(n)[3]
Value(n) == High(n) * 65536 + Middle(n) * 256 + Low(n)

\* Three bytes of the double are not 0, and as one number they are its value.
LEMMA DoubleFacts ==
  ASSUME NEW n \in Loads
  PROVE  /\ DoubleBytes(n) = <<High(n), Middle(n), Low(n), 0, 0, 0, 0, 0>>
         /\ High(n) \in Nat /\ Middle(n) \in 0 .. 255 /\ Low(n) \in 0 .. 255
         /\ Value(n) = IF n = 0 THEN 0 ELSE (1023 + Log2(n)) * 4096 + Mantissa(n)
<1>1. CASE n = 0
  <2>1. DoubleBytes(n) = <<0, 0, 0, 0, 0, 0, 0, 0>>
    BY <1>1 DEF DoubleBytes
  <2>2. High(n) = 0 /\ Middle(n) = 0 /\ Low(n) = 0
    BY <2>1 DEF High, Middle, Low
  <2> QED BY <1>1, <2>1, <2>2 DEF Value
<1>2. CASE n # 0
  <2>1. PICK e \in 0 .. 11 : e = Log2(n)
    BY <1>2, Log2Facts
  <2>2. PICK m \in 0 .. 4095 : m = Mantissa(n)
    BY <1>2, MantissaFacts
  <2>3. m = (n - TwoTo(e)) * TwoTo(12 - e)
    BY <2>1, <2>2 DEF Mantissa
  <2>4. DoubleBytes(n) = <<(1023 + e) \div 16, ((1023 + e) % 16) * 16 + m \div 256,
                           m % 256, 0, 0, 0, 0, 0>>
    BY <1>2, <2>1, <2>3 DEF DoubleBytes
  <2>5. /\ High(n) = (1023 + e) \div 16
        /\ Middle(n) = ((1023 + e) % 16) * 16 + m \div 256 /\ Low(n) = m % 256
    BY <2>4 DEF High, Middle, Low
  <2>6. PICK k \in Nat : k = 1023 + e
    OBVIOUS
  <2>7. k \div 16 \in Nat /\ k % 16 \in 0 .. 15 /\ k = 16 * (k \div 16) + (k % 16)
    OBVIOUS
  <2>8. m \div 256 \in 0 .. 15 /\ m % 256 \in 0 .. 255 /\ m = 256 * (m \div 256) + (m % 256)
    OBVIOUS
  <2>9. /\ High(n) = k \div 16 /\ Middle(n) = (k % 16) * 16 + m \div 256
        /\ Low(n) = m % 256
    BY <2>5, <2>6
  <2>11. /\ High(n) \in Nat /\ Middle(n) \in 0 .. 255 /\ Low(n) \in 0 .. 255
         /\ Value(n) = k * 4096 + m
    <3>1. PICK q \in Nat : q = k \div 16
      BY <2>7
    <3>2. PICK r \in 0 .. 15 : r = k % 16
      BY <2>7
    <3>3. PICK s \in 0 .. 15 : s = m \div 256
      BY <2>8
    <3>4. PICK t \in 0 .. 255 : t = m % 256
      BY <2>8
    <3>5. k = 16 * q + r
      BY <2>7, <3>1, <3>2
    <3>6. m = 256 * s + t
      BY <2>8, <3>3, <3>4
    <3>7. High(n) = q /\ Middle(n) = r * 16 + s /\ Low(n) = t
      BY <2>9, <3>1, <3>2, <3>3, <3>4
    <3>8. /\ r * 16 + s \in 0 .. 255
          /\ q * 65536 + (r * 16 + s) * 256 + t = (16 * q + r) * 4096 + (256 * s + t)
      OBVIOUS
    <3>9. Value(n) = (16 * q + r) * 4096 + (256 * s + t)
      BY <3>7, <3>8 DEF Value
    <3> QED BY <3>5, <3>6, <3>7, <3>8, <3>9
  <2>12. DoubleBytes(n) = <<High(n), Middle(n), Low(n), 0, 0, 0, 0, 0>>
    BY <2>4, <2>5
  <2> QED BY <1>2, <2>1, <2>2, <2>6, <2>11, <2>12
<1> QED BY <1>1, <1>2

\* The larger load has the larger double.
LEMMA ValueOrder ==
  ASSUME NEW m \in Loads, NEW n \in Loads
  PROVE  Value(m) < Value(n) <=> m < n
<1>1. m \in Nat /\ n \in Nat
  BY DEF Loads
<1>2. \A k \in Loads : k # 0 =>
        /\ Mantissa(k) \in 0 .. 4095 /\ Log2(k) \in 0 .. 11
        /\ Value(k) = (1023 + Log2(k)) * 4096 + Mantissa(k) /\ Value(k) > 0 /\ Value(k) \in Nat
  <2> SUFFICES ASSUME NEW k \in Loads, k # 0
               PROVE  /\ Mantissa(k) \in 0 .. 4095 /\ Log2(k) \in 0 .. 11
                      /\ Value(k) = (1023 + Log2(k)) * 4096 + Mantissa(k)
                      /\ Value(k) > 0 /\ Value(k) \in Nat
    OBVIOUS
  <2>1. Mantissa(k) \in 0 .. 4095 /\ Log2(k) \in 0 .. 11
    BY MantissaFacts, Log2Facts
  <2>2. Value(k) = (1023 + Log2(k)) * 4096 + Mantissa(k)
    BY DoubleFacts
  <2>3. ASSUME NEW e \in 0 .. 11, NEW a \in 0 .. 4095
        PROVE  (1023 + e) * 4096 + a > 0 /\ (1023 + e) * 4096 + a \in Nat
    OBVIOUS
  <2>a. PICK e : e = Log2(k)
    OBVIOUS
  <2>b. PICK a : a = Mantissa(k)
    OBVIOUS
  <2>4. e \in 0 .. 11 /\ a \in 0 .. 4095
    BY <2>1, <2>a, <2>b
  <2>5. Value(k) = (1023 + e) * 4096 + a
    BY <2>2, <2>a, <2>b
  <2>6. Value(k) > 0 /\ Value(k) \in Nat
    BY <2>3, <2>4, <2>5
  <2> QED BY <2>1, <2>2, <2>6
<1>3. \A k \in Loads : k = 0 => Value(k) = 0
  BY DoubleFacts
<1>4. CASE m = 0 \/ n = 0
  <2>1. m = 0 => Value(m) = 0
    BY <1>3
  <2>2. n = 0 => Value(n) = 0
    BY <1>3
  <2>3. (m # 0 => Value(m) > 0 /\ Value(m) \in Nat) /\ (n # 0 => Value(n) > 0 /\ Value(n) \in Nat)
    BY <1>2
  <2> QED BY <1>1, <1>4, <2>1, <2>2, <2>3
<1>5. CASE m # 0 /\ n # 0
  <2>1. PICK d, e : d = Log2(m) /\ e = Log2(n)
    OBVIOUS
  <2>2. PICK a, b : a = Mantissa(m) /\ b = Mantissa(n)
    OBVIOUS
  <2>6. d \in 0 .. 11 /\ e \in 0 .. 11 /\ a \in 0 .. 4095 /\ b \in 0 .. 4095
    BY <1>2, <1>5, <2>1, <2>2
  <2>3. Value(m) = (1023 + d) * 4096 + a /\ Value(n) = (1023 + e) * 4096 + b
    BY <1>2, <1>5, <2>1, <2>2
  <2>4. (1023 + d) * 4096 + a < (1023 + e) * 4096 + b <=> d < e \/ (d = e /\ a < b)
    BY <2>6
  <2>5. (d < e => m < n) /\ (e < d => n < m) /\ (d = e => (a < b <=> m < n))
    BY <1>5, <2>1, <2>2, Log2Order, MantissaOrder
  <2> QED BY <1>1, <2>3, <2>4, <2>5, <2>6
<1> QED BY <1>4, <1>5

\* The elements of a concatenation.
LEMMA JoinFacts ==
  ASSUME NEW v \in Seq(Nat), NEW d \in Seq(Nat)
  PROVE  /\ v \o d \in Seq(Nat) /\ Len(v \o d) = Len(v) + Len(d)
         /\ \A i \in 1 .. Len(v) : (v \o d)[i] = v[i]
         /\ \A i \in 1 .. Len(d) : (v \o d)[Len(v) + i] = d[i]
<1>1. v \o d \in Seq(Nat) /\ Len(v \o d) = Len(v) + Len(d)
  OBVIOUS
<1>2. Len(v) \in Nat /\ Len(d) \in Nat
  OBVIOUS
<1>3. ASSUME NEW i \in 1 .. Len(v) PROVE (v \o d)[i] = v[i]
  BY <1>2
<1>4. ASSUME NEW i \in 1 .. Len(d) PROVE (v \o d)[Len(v) + i] = d[i]
  BY <1>2
<1> QED BY <1>1, <1>3, <1>4

\* The elements of a part of a sequence.
LEMMA PartFacts ==
  ASSUME NEW b \in Seq(Nat), NEW n \in Nat, NEW m \in Nat, n + m <= Len(b)
  PROVE  /\ SubSeq(b, n + 1, n + m) \in Seq(Nat) /\ Len(SubSeq(b, n + 1, n + m)) = m
         /\ \A i \in 1 .. m : SubSeq(b, n + 1, n + m)[i] = b[n + i]
<1>1. PICK p : p = n + 1
  OBVIOUS
<1>2. PICK q : q = n + m
  OBVIOUS
<1>3. p \in Nat \ {0} /\ q \in Nat /\ q <= Len(b) /\ Len(b) \in Nat /\ p <= q + 1
  BY <1>1, <1>2
<1>4. \A i \in p .. q : b[i] \in Nat
  BY <1>3
<1>5. /\ SubSeq(b, p, q) \in Seq(Nat)
      /\ Len(SubSeq(b, p, q)) = IF p <= q THEN q - p + 1 ELSE 0
      /\ \A i \in 1 .. q - p + 1 : SubSeq(b, p, q)[i] = b[p + i - 1]
  BY <1>3, <1>4, SubSeqProperties
<1>6. q - p + 1 = m /\ (p <= q \/ m = 0)
  BY <1>1, <1>2
<1>7. Len(SubSeq(b, p, q)) = m
  BY <1>5, <1>6
<1>8. \A i \in 1 .. m : p + i - 1 = n + i
  BY <1>1
<1>9. \A i \in 1 .. m : SubSeq(b, p, q)[i] = b[n + i]
  BY <1>5, <1>6, <1>8
<1> QED BY <1>1, <1>2, <1>5, <1>7, <1>9

\* What Connect reads as the load: two characters of the version, and the
\* first six bytes of the load.
LEMMA ReadFacts ==
  ASSUME NEW n \in Loads
  PROVE  ReadLoadBytes(HeaderBytes(n)) = <<46, 48, High(n), Middle(n), Low(n), 0, 0, 0>>
<1>a. High(n) \in Nat /\ Middle(n) \in Nat /\ Low(n) \in Nat
  BY DoubleFacts
<1>1. PICK h \in Nat, m \in Nat, l \in Nat : h = High(n) /\ m = Middle(n) /\ l = Low(n)
  BY <1>a
<1>2. PICK d : d = DoubleBytes(n)
  OBVIOUS
<1>3. d = <<h, m, l, 0, 0, 0, 0, 0>>
  <2>1. DoubleBytes(n) = <<High(n), Middle(n), Low(n), 0, 0, 0, 0, 0>>
    BY DoubleFacts
  <2> QED BY <1>1, <1>2, <2>1
<1>4. d \in Seq(Nat) /\ Len(d) = 8 /\ d[1] = h /\ d[2] = m /\ d[3] = l
      /\ d[4] = 0 /\ d[5] = 0 /\ d[6] = 0
  BY <1>3
<1>5. PICK v : v = <<Len(Version)>> \o Version
  OBVIOUS
<1>6. v = <<5, 49, 46, 48, 46, 48>>
  <2>1. Version = <<49, 46, 48, 46, 48>> /\ Version \in Seq(Nat) /\ Len(Version) = 5
    BY DEF Version
  <2>2. <<Len(Version)>> = <<5>> /\ <<5>> \in Seq(Nat) /\ Len(<<5>>) = 1
    BY <2>1
  <2>3. /\ v \in Seq(Nat) /\ Len(v) = 6
        /\ v[1] = <<5>>[1] /\ \A i \in 1 .. 5 : v[1 + i] = Version[i]
    <3>1. PICK x : x = <<5>> /\ x \in Seq(Nat) /\ Len(x) = 1
      BY <2>2
    <3>2. PICK y : y = Version /\ y \in Seq(Nat) /\ Len(y) = 5
      BY <2>1
    <3>3. v = x \o y
      BY <1>5, <2>2, <3>1, <3>2
    <3>4. /\ x \o y \in Seq(Nat) /\ Len(x \o y) = Len(x) + Len(y)
          /\ \A i \in 1 .. Len(x) : (x \o y)[i] = x[i]
          /\ \A i \in 1 .. Len(y) : (x \o y)[Len(x) + i] = y[i]
      BY <3>1, <3>2, JoinFacts
    <3> QED BY <3>1, <3>2, <3>3, <3>4
  <2>4. v[1] = 5 /\ v[1 + 1] = 49 /\ v[1 + 2] = 46 /\ v[1 + 3] = 48 /\ v[1 + 4] = 46
        /\ v[1 + 5] = 48
    BY <2>1, <2>3
  <2> QED BY <2>3, <2>4
<1>7. v \in Seq(Nat) /\ Len(v) = 6 /\ v[5] = 46 /\ v[6] = 48
  BY <1>6
<1>8. PICK b : b = v \o d
  OBVIOUS
<1>9. /\ b \in Seq(Nat) /\ Len(b) = 14
      /\ (\A i \in 1 .. 6 : b[i] = v[i]) /\ (\A i \in 1 .. 8 : b[6 + i] = d[i])
  <2>1. /\ v \o d \in Seq(Nat) /\ Len(v \o d) = Len(v) + Len(d)
        /\ \A i \in 1 .. Len(v) : (v \o d)[i] = v[i]
        /\ \A i \in 1 .. Len(d) : (v \o d)[Len(v) + i] = d[i]
    BY <1>4, <1>7, JoinFacts
  <2>2. Len(v) = 6 /\ Len(d) = 8
    BY <1>4, <1>7
  <2>3. b \in Seq(Nat) /\ Len(b) = Len(v) + Len(d)
    BY <1>8, <2>1
  <2>4. (\A i \in 1 .. Len(v) : b[i] = v[i]) /\ (\A i \in 1 .. Len(d) : b[Len(v) + i] = d[i])
    BY <1>8, <2>1
  <2>5. (\A i \in 1 .. 6 : b[i] = v[i]) /\ (\A i \in 1 .. 8 : b[6 + i] = d[i])
    BY <2>2, <2>4
  <2> QED BY <2>2, <2>3, <2>5
<1>10. /\ b[5] = 46 /\ b[6] = 48 /\ b[6 + 1] = h /\ b[6 + 2] = m /\ b[6 + 3] = l
       /\ b[6 + 4] = 0 /\ b[6 + 5] = 0 /\ b[6 + 6] = 0
  BY <1>4, <1>7, <1>9
<1>11. PICK r : r = SubSeq(b, 5, 12)
  OBVIOUS
<1>12. r \in Seq(Nat) /\ Len(r) = 8 /\ \A i \in 1 .. 8 : r[i] = b[4 + i]
  <2>1. SubSeq(b, 4 + 1, 4 + 8) \in Seq(Nat) /\ Len(SubSeq(b, 4 + 1, 4 + 8)) = 8
        /\ \A i \in 1 .. 8 : SubSeq(b, 4 + 1, 4 + 8)[i] = b[4 + i]
    <3>1. b \in Seq(Nat) /\ 4 \in Nat /\ 8 \in Nat /\ 4 + 8 <= Len(b)
      BY <1>9
    <3> QED BY <3>1, PartFacts
  <2>2. 4 + 1 = 5 /\ 4 + 8 = 12
    OBVIOUS
  <2> QED BY <1>11, <2>1, <2>2
<1>13. r = <<46, 48, h, m, l, 0, 0, 0>>
  <2>1. /\ r[1] = b[4 + 1] /\ r[2] = b[4 + 2] /\ r[3] = b[4 + 3] /\ r[4] = b[4 + 4]
        /\ r[5] = b[4 + 5] /\ r[6] = b[4 + 6] /\ r[7] = b[4 + 7] /\ r[8] = b[4 + 8]
    BY <1>12
  <2>2. /\ r[1] = 46 /\ r[2] = 48 /\ r[3] = h /\ r[4] = m /\ r[5] = l
        /\ r[6] = 0 /\ r[7] = 0 /\ r[8] = 0
    BY <1>10, <2>1
  <2> QED BY <1>12, <2>2
<1>14. r = ReadLoadBytes(HeaderBytes(n))
  BY <1>2, <1>5, <1>8, <1>11 DEF ReadLoadBytes, HeaderBytes
<1> QED BY <1>1, <1>13, <1>14

\* The comparison that PickServer makes of two doubles it has read wrongly is
\* the one it means to make of the loads that were sent.
LEMMA LoadOrder ==
  ASSUME NEW m \in Loads, NEW n \in Loads
  PROVE  BytesBelow(ReadLoadBytes(HeaderBytes(m)), ReadLoadBytes(HeaderBytes(n))) <=> m < n
<1>a. \A k \in Loads : High(k) \in Nat /\ Middle(k) \in 0 .. 255 /\ Low(k) \in 0 .. 255
  BY DoubleFacts
<1>1. PICK a \in Nat, b \in 0 .. 255, c \in 0 .. 255 :
        a = High(m) /\ b = Middle(m) /\ c = Low(m)
  BY <1>a
<1>2. PICK x \in Nat, y \in 0 .. 255, z \in 0 .. 255 :
        x = High(n) /\ y = Middle(n) /\ z = Low(n)
  BY <1>a
<1>3. PICK d : d = <<46, 48, a, b, c, 0, 0, 0>>
  OBVIOUS
<1>4. PICK f : f = <<46, 48, x, y, z, 0, 0, 0>>
  OBVIOUS
<1>5. d = ReadLoadBytes(HeaderBytes(m)) /\ f = ReadLoadBytes(HeaderBytes(n))
  BY <1>1, <1>2, <1>3, <1>4, ReadFacts
<1>6. /\ DOMAIN d = 1 .. 8 /\ d[1] = f[1] /\ d[2] = f[2]
      /\ d[3] = a /\ f[3] = x /\ d[4] = b /\ f[4] = y /\ d[5] = c /\ f[5] = z
      /\ d[6] = f[6] /\ d[7] = f[7] /\ d[8] = f[8]
      /\ d[1] \in Nat /\ d[2] \in Nat /\ d[6] \in Nat /\ d[7] \in Nat /\ d[8] \in Nat
  BY <1>3, <1>4
<1>7. BytesBelow(d, f) <=> a < x \/ (a = x /\ b < y) \/ (a = x /\ b = y /\ c < z)
  <2>1. ASSUME BytesBelow(d, f)
        PROVE  a < x \/ (a = x /\ b < y) \/ (a = x /\ b = y /\ c < z)
    <3>1. PICK i \in 1 .. 8 : d[i] < f[i] /\ \A j \in 1 .. (i - 1) : d[j] = f[j]
      BY <1>6, <2>1 DEF BytesBelow
    <3>2. i = 3 \/ i = 4 \/ i = 5
      BY <1>6, <3>1
    <3>3. CASE i = 3
      BY <1>6, <3>1, <3>3
    <3>4. CASE i = 4
      BY <1>6, <3>1, <3>4
    <3>5. CASE i = 5
      BY <1>6, <3>1, <3>5
    <3> QED BY <3>2, <3>3, <3>4, <3>5
  <2>2. ASSUME a < x PROVE BytesBelow(d, f)
    <3>1. 3 \in DOMAIN d /\ d[3] < f[3] /\ \A j \in 1 .. (3 - 1) : d[j] = f[j]
      BY <1>6, <2>2
    <3> QED BY <3>1 DEF BytesBelow
  <2>3. ASSUME a = x, b < y PROVE BytesBelow(d, f)
    <3>1. 4 \in DOMAIN d /\ d[4] < f[4] /\ \A j \in 1 .. (4 - 1) : d[j] = f[j]
      BY <1>6, <2>3
    <3> QED BY <3>1 DEF BytesBelow
  <2>4. ASSUME a = x, b = y, c < z PROVE BytesBelow(d, f)
    <3>1. 5 \in DOMAIN d /\ d[5] < f[5] /\ \A j \in 1 .. (5 - 1) : d[j] = f[j]
      BY <1>6, <2>4
    <3> QED BY <3>1 DEF BytesBelow
  <2> QED BY <2>1, <2>2, <2>3, <2>4
<1>8. a < x \/ (a = x /\ b < y) \/ (a = x /\ b = y /\ c < z)
        <=> a * 65536 + b * 256 + c < x * 65536 + y * 256 + z
  OBVIOUS
<1>9. Value(m) = a * 65536 + b * 256 + c /\ Value(n) = x * 65536 + y * 256 + z
  BY <1>1, <1>2 DEF Value
<1> QED BY <1>5, <1>7, <1>8, <1>9, ValueOrder

-----------------------------------------------------------------------------
(* PickServer's choice.                                                    *)

\* Connect has been told no load yet, or minLoad is the least of them.
Offered(c) ==
  pc[c] \in {"pick", "header"} =>
    /\ best[c] = None => offers[c] = {}
    /\ \A load \in offers[c] : minLoad[c] <= load

\* Reading a header keeps the least load.
LEMMA ReadHeaderOffered ==
  ASSUME IInv, NEW c \in Clients, Offered(c), ReadHeader(c)
  PROVE  Offered(c)'
<1>1. PICK k : k = probe[c]
  OBVIOUS
<1>2. ClientTypes /\ pc[c] = "header"
  BY TypeParts DEF IInv, ReadHeader
<1>3. /\ k \in Live /\ \A i \in 1 .. Len(conn[k].down) : conn[k].down[i].kind = "header"
  BY <1>1, <1>2 DEF IInv, ClientOk, Probing, Own
<1>4. /\ (best[c] = None => offers[c] = {}) /\ (\A load \in offers[c] : minLoad[c] <= load)
      /\ minLoad[c] \in Loads /\ offers[c] \subseteq Loads
  BY <1>2 DEF Offered, ClientTypes
<1>5. CASE UNCHANGED <<best, minLoad, offers>>
  BY <1>4, <1>5 DEF Offered
<1>6. CASE ClientHasData(k)
  <2>1. PICK load : load = Head(conn[k].down).load
    OBVIOUS
  <2>2. PICK better \in BOOLEAN : better = (best[c] = None \/ Less(load, minLoad[c]))
    OBVIOUS
  <2>3. ~ClientSeesEnd(k)
    BY <1>6 DEF ClientHasData, ClientSeesEnd
  <2>4. /\ best' = [best EXCEPT ![c] = IF better THEN k ELSE @]
        /\ minLoad' = [minLoad EXCEPT ![c] = IF better THEN load ELSE @]
        /\ offers' = [offers EXCEPT ![c] = @ \cup {load}]
    BY <1>1, <1>6, <2>1, <2>2, <2>3 DEF ReadHeader
  <2>5. load \in Loads
    <3>1. conn[k].down \in Seq(Message) /\ conn[k].down # <<>>
      BY <1>3, <1>6, LiveFacts DEF ClientHasData
    <3>2. /\ Head(conn[k].down) \in Message /\ Head(conn[k].down) = conn[k].down[1]
          /\ 1 \in 1 .. Len(conn[k].down)
      BY <3>1
    <3>3. Head(conn[k].down).kind = "header"
      BY <1>3, <3>2
    <3> QED BY <2>1, <3>2, <3>3, MessageFacts
  <2>6. k # None
    BY <1>3, LiveFacts
  <2>7. /\ Less(load, minLoad[c]) => load < minLoad[c]
        /\ ~Less(load, minLoad[c]) => minLoad[c] <= load
    <3>1. PICK other \in Loads : other = minLoad[c]
      BY <1>4
    <3>2. Less(load, other) => load < other
      BY <2>5, LoadOrder DEF Less
    <3>3. ~Less(load, other) => ~(load < other)
      BY <2>5, LoadOrder DEF Less
    <3>4. load < other \/ other <= load
      BY <2>5, LoadsFacts
    <3> QED BY <3>1, <3>2, <3>3, <3>4
  <2>8. offers'[c] = offers[c] \cup {load}
    BY <1>2, <2>4 DEF ClientTypes
  <2>9. CASE better
    <3>1. best'[c] = k /\ minLoad'[c] = load
      BY <1>2, <2>4, <2>9 DEF ClientTypes
    <3>a. best[c] = None \/ Less(load, minLoad[c])
      BY <2>2, <2>9
    <3>3. \A other \in offers[c] : load <= other
      <4>1. CASE best[c] = None
        BY <1>4, <4>1
      <4>2. CASE Less(load, minLoad[c])
        <5>1. load < minLoad[c]
          BY <2>7, <4>2
        <5>2. \A other \in Loads : minLoad[c] <= other => load <= other
          BY <1>4, <2>5, <5>1, LoadsFacts
        <5> QED BY <1>4, <5>2
      <4> QED BY <3>a, <4>1, <4>2
    <3>4. load <= load
      BY <2>5, LoadsFacts
    <3> QED BY <2>6, <2>8, <3>1, <3>3, <3>4 DEF Offered
  <2>10. CASE ~better
    <3>1. best'[c] = best[c] /\ minLoad'[c] = minLoad[c]
      BY <1>2, <2>4, <2>10 DEF ClientTypes
    <3>a. best[c] # None /\ ~Less(load, minLoad[c])
      BY <2>2, <2>10
    <3>3. minLoad[c] <= load
      BY <2>7, <3>a
    <3> QED BY <1>4, <2>8, <3>1, <3>3, <3>a DEF Offered
  <2> QED BY <2>2, <2>9, <2>10
<1> QED BY <1>1, <1>5, <1>6 DEF ReadHeader

\* The other steps of clients leave the choice, or start a new one.
LEMMA ClientOffered ==
  ASSUME IInv, NEW c \in Clients, Offered(c), ClientStep(c)
  PROVE  Offered(c)'
<1>1. ClientTypes
  BY TypeParts DEF IInv
<1>2. ASSUME StartPick(c) PROVE Offered(c)'
  BY <1>1, <1>2 DEF StartPick, ClientTypes, Offered
<1>3. ASSUME NEW how, how \notin {"pick", "header"}, pc' = [pc EXCEPT ![c] = how]
      PROVE  Offered(c)'
  BY <1>1, <1>3 DEF ClientTypes, Offered
<1>4. ASSUME EndClient(c, "dead") \/ EndClient(c, "done") PROVE Offered(c)'
  BY <1>3, <1>4 DEF EndClient
<1>5. CASE Connect(c)
  <2>1. UNCHANGED <<best, minLoad, offers>> /\ pc[c] = "pick"
    BY <1>5 DEF Connect
  <2> QED BY <2>1 DEF Offered
<1>6. CASE ReadHeader(c)
  BY <1>6, ReadHeaderOffered
<1>7. CASE PickDone(c)
  BY <1>3, <1>4, <1>7 DEF PickDone
<1>8. CASE NextEvent(c) \/ Finish(c)
  BY <1>3, <1>4, <1>8 DEF NextEvent, Finish
<1>9. CASE Send(c)
  BY <1>2, <1>3, <1>9 DEF Send
<1>10. CASE Recv(c)
  BY <1>2, <1>3, <1>4, <1>10 DEF Recv
<1> QED BY <1>5, <1>6, <1>7, <1>8, <1>9, <1>10 DEF ClientStep

\* A step of a client leaves the choice of the others alone.
LEMMA OthersOffered ==
  ASSUME IInv, NEW c \in Clients, ClientStep(c) \/ KillClient(c),
         NEW d \in Clients, d # c
  PROVE  /\ pc'[d] = pc[d] /\ best'[d] = best[d] /\ minLoad'[d] = minLoad[d]
         /\ offers'[d] = offers[d]
<1>1. ClientTypes
  BY TypeParts DEF IInv
<1>2. CASE Connect(c)
  BY <1>1, <1>2 DEF Connect, ClientTypes
<1>3. CASE ReadHeader(c)
  BY <1>1, <1>3 DEF ReadHeader, ClientTypes
<1>4. CASE PickDone(c) \/ NextEvent(c) \/ Finish(c) \/ KillClient(c)
  BY <1>1, <1>4 DEF PickDone, NextEvent, Finish, KillClient, EndClient, ClientTypes
<1>5. CASE Send(c)
  BY <1>1, <1>5 DEF Send, StartPick, ClientTypes
<1>6. CASE Recv(c)
  BY <1>1, <1>6 DEF Recv, StartPick, EndClient, ClientTypes
<1> QED BY <1>2, <1>3, <1>4, <1>5, <1>6 DEF ClientStep

\* PickServer settles on a connection with the least load of those it was
\* offered, although what it compares is not the loads that were sent.
THEOREM PicksLeastLoadedAlways == Spec => []PicksLeastLoaded
<1> DEFINE OInv == \A c \in Clients : Offered(c)
<1>1. Init => OInv
  BY DEF Init, Offered
<1>2. IInv /\ OInv /\ [Next]_vars => OInv'
  <2> SUFFICES ASSUME IInv, OInv, [Next]_vars, NEW d \in Clients PROVE Offered(d)'
    OBVIOUS
  <2>1. ASSUME UNCHANGED clientVars, UNCHANGED offers PROVE Offered(d)'
    BY <2>1 DEF clientVars, Offered
  <2>2. ASSUME NEW c \in Clients, ClientStep(c) PROVE Offered(d)'
    <3>1. CASE c = d
      BY <2>2, <3>1, ClientOffered
    <3>2. CASE c # d
      BY <2>2, <3>2, OthersOffered DEF Offered
    <3> QED BY <3>1, <3>2
  <2>3. ASSUME NEW c \in Clients, KillClient(c) PROVE Offered(d)'
    <3>1. CASE c = d
      <4>1. pc'[d] = "dead"
        BY <2>3, <3>1, TypeParts DEF IInv, ClientTypes, KillClient, EndClient
      <4> QED BY <4>1 DEF Offered
    <3>2. CASE c # d
      BY <2>3, <3>2, OthersOffered DEF Offered
    <3> QED BY <3>1, <3>2
  <2>4. CASE \E s \in Servers : ServerStep(s)
    BY <2>1, <2>4 DEF ServerStep, Accept, Select, Reply, StopOnError
  <2>5. CASE Environment /\ \A c \in Clients : ~KillClient(c)
    BY <2>1, <2>5 DEF Environment, KillServer, InterruptServer, AcceptFails, StartServer,
                      BreakClientEnd, BreakServerEnd
  <2>6. CASE UNCHANGED vars
    BY <2>1, <2>6 DEF vars
  <2> QED BY <2>2, <2>3, <2>4, <2>5, <2>6 DEF Next, Environment
<1>3. OInv => PicksLeastLoaded
  BY DEF Offered, PicksLeastLoaded
<1> QED BY <1>1, <1>2, <1>3, Invariant, PTL DEF Spec

-----------------------------------------------------------------------------
(* What the processor promises.                                            *)

\* The connections with a request for the event e of c on its way.
Requests(c, e) == {k \in Live : conn[k].up # <<>> /\ conn[k].up[1] = <<c, e>>}

\* How often DSEvent may still send the event it works on.
Attempts(c) ==
  IF pc[c] \in {"pick", "header", "send"} THEN retries[c] + 1
  ELSE IF pc[c] = "recv" /\ retries[c] > 0 THEN retries[c] ELSE 0

\* An event that was processed, is on its way or may still be sent uses up one
\* of the attempts; none is processed before the client comes to it.
Within(c, e) ==
  served[<<c, e>>] + Cardinality(Requests(c, e))
    + (IF e = ev[c] THEN Attempts(c) ELSE 0) <= Retries + 1
Unsent(c, e) == e > ev[c] => served[<<c, e>>] = 0 /\ Requests(c, e) = {}
MInv == \A c \in Clients, e \in Event : Within(c, e) /\ Unsent(c, e)

\* The types of these numbers.
LEMMA RequestTypes ==
  ASSUME IInv, NEW c \in Clients, NEW e \in Event
  PROVE  /\ served[<<c, e>>] \in Nat /\ Attempts(c) \in Nat /\ ev[c] \in Nat
         /\ IsFiniteSet(Requests(c, e)) /\ Cardinality(Requests(c, e)) \in Nat
<1>1. ClientTypes /\ CountTypes /\ ConnTypes
  BY TypeParts DEF IInv
<1>2. <<c, e>> \in DS
  BY DEF DS
<1>3. retries[c] \in Int /\ retries[c] >= 0 - 1 /\ ev[c] \in Nat
  BY <1>1, NetAssumption DEF ClientTypes
<1>4. Attempts(c) \in Nat
  <2>1. PICK r \in Int : r = retries[c]
    BY <1>3
  <2>2. r + 1 \in Nat /\ (r > 0 => r \in Nat)
    BY <1>3, <2>1
  <2> QED BY <2>1, <2>2 DEF Attempts
<1>5. IsFiniteSet(Requests(c, e))
  <2>1. IsFiniteSet(Conns) /\ Requests(c, e) \in SUBSET Conns
    BY <1>1, NetAssumption DEF Requests, ConnTypes
  <2> QED BY <2>1, FS_Subset
<1>6. Cardinality(Requests(c, e)) \in Nat
  BY <1>5, FS_CardinalityType
<1> QED BY <1>1, <1>2, <1>3, <1>4, <1>5, <1>6 DEF CountTypes

\* What a step leaves of the requests on a connection.
Dries(k) ==
  k \in Live' => conn'[k].up = <<>> \/ (k \in Live /\ conn'[k].up = conn[k].up)

\* No request is new.
LEMMA DriesKeeps ==
  ASSUME NEW c, NEW e, \A k : Dries(k)
  PROVE  Requests(c, e)' \subseteq Requests(c, e)
BY DEF Dries, Requests

\* A step that sends nothing and processes nothing.
LEMMA WithinKeeps ==
  ASSUME IInv, NEW c \in Clients, NEW e \in Event, Within(c, e), Unsent(c, e),
         Requests(c, e)' \subseteq Requests(c, e),
         served'[<<c, e>>] = served[<<c, e>>], ev'[c] = ev[c],
         Attempts(c)' \in Nat, Attempts(c)' <= Attempts(c)
  PROVE  Within(c, e)' /\ Unsent(c, e)'
<1>1. PICK T, S : T = Requests(c, e)' /\ S = Requests(c, e)
  OBVIOUS
<1>2. IsFiniteSet(S) /\ T \in SUBSET S
  BY <1>1, RequestTypes
<1>3. Cardinality(T) <= Cardinality(S) /\ IsFiniteSet(T)
  BY <1>2, FS_Subset
<1>a. Cardinality(T) \in Nat
  BY <1>3, FS_CardinalityType
<1>4. PICK m, n : m = Cardinality(Requests(c, e)') /\ n = Cardinality(Requests(c, e))
  OBVIOUS
<1>5. m <= n /\ m \in Nat
  BY <1>1, <1>3, <1>4, <1>a
<1>6. /\ served[<<c, e>>] \in Nat /\ n \in Nat /\ Attempts(c) \in Nat /\ ev[c] \in Nat
  BY <1>4, RequestTypes
<1>7. PICK s \in Nat : s = served[<<c, e>>] /\ s = served'[<<c, e>>]
  BY <1>6
<1>8. PICK a \in Nat : a = Attempts(c)
  BY <1>6
<1>b. PICK b \in Nat : b = Attempts(c)'
  OBVIOUS
<1>9. s + n + (IF e = ev[c] THEN a ELSE 0) <= Retries + 1
  BY <1>4, <1>7, <1>8 DEF Within
<1>10. s + m + (IF e = ev[c] THEN b ELSE 0) <= Retries + 1
  <2>1. CASE e = ev[c]
    <3>1. s + n + a <= Retries + 1 /\ b <= a
      BY <1>8, <1>9, <1>b, <2>1
    <3>2. s + m + b <= Retries + 1
      BY <1>5, <1>6, <3>1, NetAssumption
    <3> QED BY <2>1, <3>2
  <2>2. CASE e # ev[c]
    <3>1. s + n <= Retries + 1
      BY <1>6, <1>9, <2>2
    <3>2. s + m + 0 <= Retries + 1
      BY <1>5, <1>6, <3>1, NetAssumption
    <3> QED BY <2>2, <3>2
  <2> QED BY <2>1, <2>2
<1>11. Within(c, e)'
  BY <1>4, <1>7, <1>b, <1>10 DEF Within
<1>12. Unsent(c, e)'
  BY DEF Unsent
<1> QED BY <1>11, <1>12

\* The same of a step that leaves the client alone, for all its events.
LEMMA ClientWithin ==
  ASSUME IInv, MInv, NEW c \in Clients, \A k : Dries(k), UNCHANGED served,
         ev'[c] = ev[c], Attempts(c)' \in Nat, Attempts(c)' <= Attempts(c)
  PROVE  \A e \in Event : Within(c, e)' /\ Unsent(c, e)'
BY DriesKeeps, WithinKeeps DEF MInv

\* The same of a step that leaves all clients alone.
LEMMA IdleWithin ==
  ASSUME IInv, MInv, NEW c \in Clients, \A k : Dries(k), UNCHANGED served,
         pc'[c] = pc[c], ev'[c] = ev[c], retries'[c] = retries[c]
  PROVE  \A e \in Event : Within(c, e)' /\ Unsent(c, e)'
<1> SUFFICES ASSUME NEW e \in Event PROVE Within(c, e)' /\ Unsent(c, e)'
  OBVIOUS
<1>1. Attempts(c)' = Attempts(c)
  BY DEF Attempts
<1>2. Attempts(c) \in Nat
  BY RequestTypes
<1>3. Attempts(c)' \in Nat /\ Attempts(c)' <= Attempts(c)
  BY <1>1, <1>2
<1> QED BY <1>3, ClientWithin

-----------------------------------------------------------------------------
(* Steps that send nothing.                                                *)

LEMMA SameDries == ASSUME UNCHANGED conn PROVE \A j : Dries(j)
<1>1. Live' = Live
  BY DEF Live
<1> QED BY <1>1 DEF Dries

\* A message that is taken from a connection, or none, is no new request.
LEMMA PutDries ==
  ASSUME IInv, NEW k, NEW r, conn' = [conn EXCEPT ![k] = r],
         k \in Live => r.up \in {conn[k].up, <<>>}
  PROVE  \A j : Dries(j)
<1>1. conn \in [Live -> Connection]
  BY DEF IInv, TypeOK
<1>2. DOMAIN conn' = Live /\ \A j \in Live : conn'[j] = IF j = k THEN r ELSE conn[j]
  BY <1>1
<1>3. Live' = Live
  BY <1>2 DEF Live
<1> QED BY <1>2, <1>3 DEF Dries

\* Neither is a loss.
LEMMA LosingDries == ASSUME Losing PROVE \A j : Dries(j)
BY DEF Losing, Dries

\* Neither does a client that closes send one.
LEMMA CloseDries ==
  ASSUME IInv, NEW K, conn' = CloseClientEnds(conn, K)
  PROVE  \A j : Dries(j)
<1>1. conn \in [Live -> Connection]
  BY DEF IInv, TypeOK
<1> QED BY <1>1, CloseIsLosing, LosingDries

\* Nor a server.
LEMMA ServerCloseDries ==
  ASSUME IInv, NEW K, conn' = CloseServerEnds(conn, K)
  PROVE  \A j : Dries(j)
<1>1. PICK D, cs, now : D = Live /\ cs = conn /\ now = conn'
  OBVIOUS
<1>2. D \in SUBSET Conns /\ cs \in [D -> Connection] /\ now = CloseServerEnds(cs, K)
  BY <1>1 DEF IInv, TypeOK
<1>3. ServerEndsClosed(D, cs, K, now)
  BY <1>2, CloseServerFacts
<1>4. /\ Live' \subseteq Live
      /\ \A j \in Live' : conn'[j] = IF j \in K THEN ServerClosed(conn[j]) ELSE conn[j]
  BY <1>1, <1>3 DEF Live, ServerEndsClosed
<1>5. \A j \in Live : ServerClosed(conn[j]).up = <<>>
  <2>1. \A j \in Live : conn[j] \in Connection
    BY DEF IInv, TypeOK
  <2> QED BY <2>1, ClosedFacts
<1> QED BY <1>4, <1>5 DEF Dries

\* An answer is no request.
LEMMA DownDries == ASSUME IInv, NEW k, NEW m, Down(k, m) PROVE \A j : Dries(j)
<1>1. PICK reset \in BOOLEAN :
        conn' = [conn EXCEPT ![k].sreset = reset,
                             ![k].down = IF conn[k].copen /\ ~conn[k].creset
                                         THEN Append(@, m) ELSE @]
  BY DEF Down
<1>2. PICK d : d = IF conn[k].copen /\ ~conn[k].creset
                   THEN Append(conn[k].down, m) ELSE conn[k].down
  OBVIOUS
<1>3. conn \in [Live -> Connection]
  BY DEF IInv, TypeOK
<1>4. PICK r : r = [conn[k] EXCEPT !.sreset = reset, !.down = d]
  OBVIOUS
<1>5. CASE k \in Live
  <2>1. conn[k] \in Connection
    BY <1>3, <1>5
  <2>2. conn' = [conn EXCEPT ![k] = r]
    BY <1>1, <1>2, <1>3, <1>4, <1>5, <2>1 DEF Connection
  <2>3. r.up = conn[k].up
    BY <1>4, <2>1 DEF Connection
  <2> QED BY <2>2, <2>3, PutDries
<1>6. CASE k \notin Live
  <2>1. conn' = conn
    BY <1>1, <1>3, <1>6
  <2> QED BY <2>1, SameDries
<1> QED BY <1>5, <1>6

\* What a client's step leaves of the others.
LEMMA OthersWait ==
  ASSUME IInv, NEW c \in Clients, ClientStep(c) \/ KillClient(c), NEW d \in Clients, d # c
  PROVE  pc'[d] = pc[d] /\ ev'[d] = ev[d] /\ retries'[d] = retries[d]
<1>1. ClientTypes
  BY TypeParts DEF IInv
<1>2. CASE Connect(c) \/ ReadHeader(c)
  BY <1>1, <1>2 DEF Connect, ReadHeader, ClientTypes
<1>3. CASE PickDone(c) \/ NextEvent(c) \/ Finish(c) \/ KillClient(c)
  BY <1>1, <1>3 DEF PickDone, NextEvent, Finish, KillClient, EndClient, ClientTypes
<1>4. CASE Send(c)
  BY <1>1, <1>4 DEF Send, StartPick, Counted, ClientTypes
<1>5. CASE Recv(c)
  BY <1>1, <1>5 DEF Recv, StartPick, EndClient, Counted, ClientTypes
<1> QED BY <1>2, <1>3, <1>4, <1>5 DEF ClientStep

\* A step of a client that sends nothing, processes nothing and starts no event.
LEMMA ClientRests ==
  ASSUME IInv, MInv, NEW c \in Clients, ClientStep(c) \/ KillClient(c),
         \A k : Dries(k), UNCHANGED served, ev'[c] = ev[c],
         Attempts(c)' \in Nat, Attempts(c)' <= Attempts(c)
  PROVE  MInv'
<1>1. \A e \in Event : Within(c, e)' /\ Unsent(c, e)'
  BY ClientWithin
<1>2. \A d \in Clients : d # c => \A e \in Event : Within(d, e)' /\ Unsent(d, e)'
  BY OthersWait, IdleWithin
<1> QED BY <1>1, <1>2 DEF MInv

\* The attempts left, as numbers.
LEMMA AttemptFacts ==
  ASSUME IInv, NEW c \in Clients
  PROVE  /\ retries[c] \in Int /\ retries[c] >= 0 - 1
         /\ pc[c] \in {"pick", "header", "send"} => Attempts(c) = retries[c] + 1
         /\ pc[c] = "recv" /\ retries[c] > 0 => Attempts(c) = retries[c]
         /\ pc[c] = "recv" /\ ~(retries[c] > 0) => Attempts(c) = 0
         /\ pc[c] \in {"idle", "done", "dead"} => Attempts(c) = 0
         /\ Attempts(c) \in Nat
<1>1. retries[c] \in (0 - 1) .. Retries
  BY TypeParts DEF IInv, ClientTypes
<1>2. retries[c] \in Int /\ retries[c] >= 0 - 1
  BY <1>1, NetAssumption
<1>3. /\ pc[c] \in {"pick", "header", "send"} => Attempts(c) = retries[c] + 1
      /\ pc[c] = "recv" /\ retries[c] > 0 => Attempts(c) = retries[c]
      /\ pc[c] = "recv" /\ ~(retries[c] > 0) => Attempts(c) = 0
      /\ pc[c] \in {"idle", "done", "dead"} => Attempts(c) = 0
  BY DEF Attempts
<1>4. Attempts(c) \in Nat
  <2>1. PICK r \in Int : r = retries[c]
    BY <1>2
  <2>2. r + 1 \in Nat /\ (r > 0 => r \in Nat)
    BY <1>2, <2>1
  <2> QED BY <2>1, <2>2 DEF Attempts
<1> QED BY <1>2, <1>3, <1>4

\* A client process that ends.
LEMMA EndWithin ==
  ASSUME IInv, MInv, NEW c \in Clients, ClientStep(c) \/ KillClient(c),
         EndClient(c, "dead") \/ EndClient(c, "done"), UNCHANGED served
  PROVE  MInv'
<1>1. conn' = CloseClientEnds(conn, OfClient(c)) /\ ev' = ev
  BY DEF EndClient
<1>2. pc'[c] \in {"done", "dead"}
  BY TypeParts DEF IInv, ClientTypes, EndClient
<1>3. Attempts(c)' = 0
  BY <1>2 DEF Attempts
<1>4. 0 \in Nat /\ 0 <= Attempts(c)
  BY AttemptFacts
<1> QED BY <1>1, <1>3, <1>4, CloseDries, ClientRests

\* A failed attempt costs one.
LEMMA RetryWithin ==
  ASSUME IInv, MInv, NEW c \in Clients, ClientStep(c),
         \/ pc[c] = "send" /\ MaySend(c)
         \/ pc[c] = "recv" /\ MayResend(c),
         retries' = Counted(c), StartPick(c), UNCHANGED <<conn, ev, served>>
  PROVE  MInv'
<1>1. pc'[c] = "pick" /\ retries'[c] = retries[c] - 1
  BY TypeParts DEF IInv, ClientTypes, StartPick, Counted
<1>2. Attempts(c)' = retries'[c] + 1
  BY <1>1 DEF Attempts
<1>3. PICK r \in Int : r = retries[c]
  BY AttemptFacts
<1>4. r - 1 + 1 = r /\ r <= r + 1 /\ r <= r
  OBVIOUS
<1>5. Attempts(c)' = r
  BY <1>1, <1>2, <1>3, <1>4
<1>6. r \in Nat
  BY <1>3 DEF MaySend, MayResend
<1>7. r <= Attempts(c)
  BY <1>3, <1>4, AttemptFacts DEF MayResend
<1> QED BY <1>5, <1>6, <1>7, SameDries, ClientRests

\* Steps that neither send nor count, of a client between two of the pcs at
\* which it may send equally often.
LEMMA SameAttempts ==
  ASSUME IInv, MInv, NEW c \in Clients, ClientStep(c), \A k : Dries(k),
         pc[c] \in {"pick", "header", "send"}, UNCHANGED <<ev, retries, served>>,
         pc'[c] \in {"pick", "header", "send", "idle"}
  PROVE  MInv'
<1>1. PICK r \in Int : r = retries[c]
  BY AttemptFacts
<1>2. Attempts(c) = r + 1 /\ r + 1 \in Nat /\ Attempts(c)' \in {r + 1, 0}
  BY <1>1, AttemptFacts DEF Attempts
<1>3. Attempts(c)' \in Nat /\ Attempts(c)' <= Attempts(c)
  BY <1>2
<1> QED BY <1>3, ClientRests

\* Looking for a server sends no request.
LEMMA PickWithin ==
  ASSUME IInv, MInv, NEW c \in Clients, ClientStep(c),
         Connect(c) \/ ReadHeader(c) \/ PickDone(c)
  PROVE  MInv'
<1>1. ClientTypes
  BY TypeParts DEF IInv
<1>2. CASE Connect(c)
  <2>1. /\ pc[c] = "pick" /\ pc'[c] \in {"pick", "header"}
        /\ UNCHANGED <<ev, retries, served>>
    BY <1>1, <1>2 DEF Connect, ClientTypes
  <2>2. \A k : Dries(k)
    <3>1. CASE UNCHANGED conn
      BY <3>1, SameDries
    <3>2. ASSUME NEW s, conn' = [k \in Live \cup {Fresh} |->
                                   IF k = Fresh THEN NewConn(c, s) ELSE conn[k]]
          PROVE  \A k : Dries(k)
      <4>1. PICK f : f = Fresh
        OBVIOUS
      <4>2. NewConn(c, s).up = <<>>
        BY DEF NewConn
      <4>3. /\ Live' = Live \cup {f}
            /\ \A j \in Live' : conn'[j] = IF j = f THEN NewConn(c, s) ELSE conn[j]
        BY <3>2, <4>1 DEF Live
      <4> QED BY <4>2, <4>3 DEF Dries
    <3> QED BY <1>2, <3>1, <3>2 DEF Connect
  <2> QED BY <2>1, <2>2, SameAttempts
<1>3. CASE ReadHeader(c)
  <2>1. PICK k : k = probe[c]
    OBVIOUS
  <2>2. /\ pc[c] = "header" /\ pc'[c] = "pick" /\ UNCHANGED <<ev, retries, served>>
    BY <1>1, <1>3 DEF ReadHeader, ClientTypes
  <2>3. k \in Live
    BY <2>1, <2>2 DEF IInv, ClientOk, Probing, Own
  <2>4. ASSUME ClientHasData(k), NEW K, conn' = CloseClientEnds(Taken(k), K)
        PROVE  \A j : Dries(j)
    <3>1. PICK cs : cs = Taken(k)
      OBVIOUS
    <3>2. conn[k].down # <<>>
      BY <2>4 DEF ClientHasData
    <3>3. /\ cs \in [Live -> Connection]
          /\ \A j \in Live :
               /\ cs[j].client = conn[j].client /\ cs[j].server = conn[j].server
               /\ cs[j].sopen = conn[j].sopen /\ cs[j].copen = conn[j].copen
               /\ cs[j].up \in {conn[j].up, <<>>} /\ cs[j].down \in {conn[j].down, <<>>}
      BY <2>3, <3>1, <3>2, TakenFacts
    <3>4. conn' = CloseClientEnds(cs, K)
      BY <2>4, <3>1
    <3> QED BY <3>3, <3>4, CloseIsLosing, LosingDries
  <2>5. ASSUME NEW K, conn' = CloseClientEnds(conn, K) PROVE \A j : Dries(j)
    BY <2>5, CloseDries
  <2>6. \A j : Dries(j)
    BY <1>3, <2>1, <2>4, <2>5 DEF ReadHeader
  <2> QED BY <2>2, <2>6, SameAttempts
<1>4. CASE PickDone(c)
  <2>1. CASE best[c] # None
    <3>1. /\ pc[c] = "pick" /\ pc'[c] \in {"idle", "send"}
          /\ UNCHANGED <<ev, retries, served, conn>>
      BY <1>1, <1>4, <2>1 DEF PickDone, ClientTypes
    <3> QED BY <3>1, SameDries, SameAttempts
  <2>2. CASE best[c] = None
    BY <1>4, <2>2, EndWithin DEF PickDone
  <2> QED BY <2>1, <2>2
<1> QED BY <1>2, <1>3, <1>4

\* A new event has all its attempts before it.
LEMMA NextEventWithin ==
  ASSUME IInv, MInv, NEW c \in Clients, ClientStep(c), NextEvent(c)
  PROVE  MInv'
<1>1. ClientTypes
  BY TypeParts DEF IInv
<1>2. /\ pc[c] = "idle" /\ pc'[c] = "send" /\ ev'[c] = ev[c] + 1 /\ retries'[c] = Retries
      /\ UNCHANGED <<served, conn>>
  BY <1>1 DEF NextEvent, ClientTypes
<1>3. \A d \in Clients : d # c => \A e \in Event : Within(d, e)' /\ Unsent(d, e)'
  BY <1>2, SameDries, OthersWait, IdleWithin
<1>4. ASSUME NEW e \in Event PROVE Within(c, e)' /\ Unsent(c, e)'
  <2>1. Requests(c, e)' = Requests(c, e) /\ served'[<<c, e>>] = served[<<c, e>>]
    BY <1>2 DEF Requests, Live
  <2>2. Within(c, e) /\ Unsent(c, e)
    BY DEF MInv
  <2>3. PICK s \in Nat : s = served[<<c, e>>]
    BY RequestTypes
  <2>4. PICK n \in Nat : n = Cardinality(Requests(c, e))
    BY RequestTypes
  <2>5. PICK v \in Nat : v = ev[c]
    BY RequestTypes
  <2>6. e \in Nat
    BY DEF Event
  <2>7. n = Cardinality(Requests(c, e)')
    BY <2>1, <2>4
  <2>8. CASE e = v + 1
    <3>1. e > ev[c]
      BY <2>5, <2>6, <2>8
    <3>2. s = 0 /\ Requests(c, e) = {}
      BY <2>2, <2>3, <3>1 DEF Unsent
    <3>3. n = 0
      BY <2>4, <3>2, FS_EmptySet
    <3>4. Attempts(c)' = Retries + 1
      BY <1>2 DEF Attempts
    <3>5. e = ev'[c]
      BY <1>2, <2>5, <2>8
    <3>6. 0 + 0 + (Retries + 1) <= Retries + 1
      BY NetAssumption
    <3>7. Within(c, e)'
      BY <2>1, <2>3, <2>7, <3>2, <3>3, <3>4, <3>5, <3>6 DEF Within
    <3>8. ~(e > ev'[c])
      BY <2>6, <3>5
    <3> QED BY <3>7, <3>8 DEF Unsent
  <2>9. CASE e # v + 1
    <3>1. Attempts(c) = 0
      BY <1>2, AttemptFacts
    <3>2. s + n + 0 <= Retries + 1
      BY <2>2, <2>3, <2>4, <3>1 DEF Within
    <3>3. e # ev'[c]
      BY <1>2, <2>5, <2>9
    <3>4. Within(c, e)'
      BY <2>1, <2>3, <2>7, <3>2, <3>3 DEF Within
    <3>5. e > ev'[c] => e > ev[c]
      BY <1>2, <2>5, <2>6
    <3>6. Unsent(c, e)'
      BY <2>1, <2>2, <3>5 DEF Unsent
    <3> QED BY <3>4, <3>6
  <2> QED BY <2>8, <2>9
<1> QED BY <1>3, <1>4 DEF MInv

\* The request that a server reads is one of those counted.
LEMMA RequestIs ==
  ASSUME NEW d, NEW e, NEW j \in Live, conn[j].up # <<>>, conn[j].up[1] = <<d, e>>
  PROVE  j \in Requests(d, e)
BY DEF Requests

\* An attempt that is made is on its way.
LEMMA SendWithin ==
  ASSUME IInv, MInv, NEW c \in Clients, ClientStep(c), Send(c)
  PROVE  MInv'
<1>1. PICK k : k = sock[c]
  OBVIOUS
<1>2. ClientTypes
  BY TypeParts DEF IInv
<1>3. /\ pc[c] = "send" /\ ev' = ev /\ UNCHANGED served
      /\ \/ ~MaySend(c) /\ pc' = [pc EXCEPT ![c] = "recv"] /\ UNCHANGED <<retries, conn>>
         \/ MaySend(c) /\ retries' = Counted(c) /\ StartPick(c) /\ UNCHANGED conn
         \/ MaySend(c) /\ pc' = [pc EXCEPT ![c] = "recv"] /\ retries' = retries
              /\ \E reset \in BOOLEAN :
                   conn' = [conn EXCEPT ![k].creset = reset,
                                        ![k].up = IF conn[k].sopen /\ ~conn[k].sreset
                                                  THEN Append(@, <<c, ev[c]>>) ELSE @]
  BY <1>1 DEF Send
<1>4. PICK r \in Int : r = retries[c]
  BY AttemptFacts
<1>5. Attempts(c) = r + 1 /\ r >= 0 - 1
  BY <1>3, <1>4, AttemptFacts
<1>6. CASE ~MaySend(c) /\ pc' = [pc EXCEPT ![c] = "recv"] /\ UNCHANGED <<retries, conn>>
  <2>1. pc'[c] = "recv" /\ ~(retries'[c] > 0)
    BY <1>2, <1>4, <1>6 DEF ClientTypes, MaySend
  <2>2. Attempts(c)' = 0
    BY <2>1 DEF Attempts
  <2>3. 0 \in Nat /\ 0 <= Attempts(c)
    BY AttemptFacts
  <2> QED BY <1>3, <1>6, <2>2, <2>3, SameDries, ClientRests
<1>7. CASE MaySend(c) /\ retries' = Counted(c) /\ StartPick(c) /\ UNCHANGED conn
  BY <1>3, <1>7, RetryWithin
<1>8. ASSUME MaySend(c), pc' = [pc EXCEPT ![c] = "recv"], retries' = retries,
             NEW reset \in BOOLEAN,
             conn' = [conn EXCEPT ![k].creset = reset,
                                  ![k].up = IF conn[k].sopen /\ ~conn[k].sreset
                                            THEN Append(@, <<c, ev[c]>>) ELSE @]
      PROVE  MInv'
  <2>1. k \in Live /\ conn[k].up = <<>> /\ conn \in [Live -> Connection] /\ conn[k] \in Connection
    BY <1>1, <1>3 DEF IInv, TypeOK, ClientOk, Chosen, Own, Quiet
  <2>2. PICK u : u = IF conn[k].sopen /\ ~conn[k].sreset
                     THEN Append(conn[k].up, <<c, ev[c]>>) ELSE conn[k].up
    OBVIOUS
  <2>3. PICK q : q = [conn[k] EXCEPT !.creset = reset, !.up = u]
    OBVIOUS
  <2>4. conn' = [conn EXCEPT ![k] = q] /\ q.up = u
    BY <1>8, <2>1, <2>2, <2>3 DEF Connection
  <2>5. r \in Nat /\ Attempts(c)' = r
    <3>1. pc'[c] = "recv" /\ retries'[c] = r /\ r >= 0
      BY <1>2, <1>4, <1>8 DEF ClientTypes, MaySend
    <3>2. r > 0 \/ r = 0
      BY <3>1
    <3> QED BY <1>4, <3>1, <3>2 DEF Attempts
  <2>6. CASE u = <<>>
    <3>1. \A j : Dries(j)
      BY <2>1, <2>4, <2>6, PutDries
    <3>2. Attempts(c)' \in Nat /\ Attempts(c)' <= Attempts(c)
      BY <1>5, <2>5
    <3> QED BY <1>3, <3>1, <3>2, ClientRests
  <2>7. CASE u # <<>>
    <3>1. u = <<<<c, ev[c]>>>>
      BY <2>1, <2>2, <2>7
    <3>2. u[1] = <<c, ev[c]>>
      BY <3>1
    <3>3. Live' = Live /\ conn'[k].up = u /\ \A j \in Live : j # k => conn'[j] = conn[j]
      BY <2>1, <2>4 DEF Live
    <3>4. ASSUME NEW d, NEW e, <<d, e>> # <<c, ev[c]>>
          PROVE  Requests(d, e)' \subseteq Requests(d, e)
      <4>1. SUFFICES ASSUME NEW j \in Requests(d, e)' PROVE j \in Requests(d, e)
        OBVIOUS
      <4>2. j \in Live' /\ conn'[j].up # <<>> /\ conn'[j].up[1] = <<d, e>>
        BY <4>1 DEF Requests
      <4>3. j # k
        <5>1. PICK a, b : a = <<d, e>> /\ b = <<c, ev[c]>>
          OBVIOUS
        <5>2. a # b /\ conn'[j].up[1] = a /\ conn'[k].up[1] = b
          BY <3>2, <3>3, <3>4, <4>2, <5>1
        <5> QED BY <5>2
      <4>4. j \in Live /\ conn'[j] = conn[j]
        BY <3>3, <4>2, <4>3
      <4>5. conn[j].up # <<>> /\ conn[j].up[1] = <<d, e>>
        BY <4>2, <4>4
      <4>6. j \in Live
        BY <4>4
      <4> QED BY <4>5, <4>6, RequestIs
    <3>6. ASSUME NEW d \in Clients, NEW e \in Event, <<d, e>> # <<c, ev[c]>>
          PROVE  Within(d, e)' /\ Unsent(d, e)'
      <4>1. Attempts(d)' \in Nat /\ Attempts(d)' <= Attempts(d)
        <5>1. CASE d = c
          BY <1>5, <2>5, <5>1
        <5>2. CASE d # c
          <6>1. Attempts(d)' = Attempts(d)
            BY <5>2, OthersWait DEF Attempts
          <6>2. Attempts(d) \in Nat
            BY AttemptFacts
          <6> QED BY <6>1, <6>2
        <5> QED BY <5>1, <5>2
      <4>2. Requests(d, e)' \subseteq Requests(d, e) /\ Within(d, e) /\ Unsent(d, e)
        BY <3>4, <3>6 DEF MInv
      <4> QED BY <1>3, <4>1, <4>2, WithinKeeps
    <3>7. ASSUME NEW e \in Event, e = ev[c] PROVE Within(c, e)' /\ Unsent(c, e)'
      <4>1. PICK S, T : S = Requests(c, e) /\ T = Requests(c, e)'
        OBVIOUS
      <4>a. /\ k \notin Requests(c, e)
            /\ \A j : j \in Requests(c, e)' => j \in Requests(c, e) \/ j = k
        <5>1. PICK x : x = ev[c]
          OBVIOUS
        <5>2. /\ k \notin Requests(c, x)
              /\ \A j : j \in Requests(c, x)' => j \in Requests(c, x) \/ j = k
          <6>1. x' = x
            BY <1>3, <5>1
          <6> QED BY <2>1, <3>3, <5>1 DEF Requests
        <5>3. e = x
          BY <3>7, <5>1
        <5> QED BY <5>2, <5>3
      <4>b. k \notin S /\ T \in SUBSET (S \cup {k})
        BY <4>1, <4>a
      <4>2. IsFiniteSet(S) /\ k \notin S /\ T \in SUBSET (S \cup {k})
        BY <4>1, <4>b, RequestTypes
      <4>3. IsFiniteSet(S \cup {k}) /\ Cardinality(S \cup {k}) = Cardinality(S) + 1
        BY <4>2, FS_AddElement
      <4>4. IsFiniteSet(T) /\ Cardinality(T) <= Cardinality(S \cup {k})
        BY <4>2, <4>3, FS_Subset
      <4>5. Cardinality(T) \in Nat /\ Cardinality(S) \in Nat
        BY <4>2, <4>4, FS_CardinalityType
      <4>6. PICK n \in Nat : n = Cardinality(S)
        BY <4>5
      <4>7. PICK m \in Nat : m = Cardinality(T)
        BY <4>5
      <4>8. m <= n + 1
        BY <4>3, <4>4, <4>6, <4>7
      <4>9. PICK s \in Nat : s = served[<<c, e>>]
        BY RequestTypes
      <4>10. s + n + (r + 1) <= Retries + 1
        BY <1>5, <3>7, <4>1, <4>6, <4>9 DEF MInv, Within
      <4>11. s + m + r <= Retries + 1
        BY <2>5, <4>8, <4>10, NetAssumption
      <4>12. Within(c, e)'
        <5>1. Attempts(c)' = r /\ e = ev'[c]
          BY <1>3, <2>5, <3>7
        <5>2. s = served'[<<c, e>>]
          BY <1>3, <4>9
        <5>3. m = Cardinality(Requests(c, e)')
          BY <4>1, <4>7
        <5>4. PICK z : z = IF e = ev'[c] THEN Attempts(c)' ELSE 0
          OBVIOUS
        <5>5. z = r
          BY <5>1, <5>4
        <5>6. s + m + z <= Retries + 1
          BY <4>11, <5>5
        <5> QED BY <5>2, <5>3, <5>4, <5>6 DEF Within
      <4>13. ~(e > ev'[c])
        <5>1. ev[c] \in Nat
          BY RequestTypes
        <5>2. ev'[c] = e
          BY <1>3, <3>7
        <5> QED BY <3>7, <5>1, <5>2
      <4> QED BY <4>12, <4>13 DEF Unsent
    <3>8. \A d \in Clients, e \in Event : Within(d, e)' /\ Unsent(d, e)'
      BY <3>6, <3>7
    <3> QED BY <3>8 DEF MInv
  <2> QED BY <2>6, <2>7
<1> QED BY <1>3, <1>6, <1>7, <1>8

\* The wait for the processed event, which ends it or costs an attempt.
LEMMA RecvWithin ==
  ASSUME IInv, MInv, NEW c \in Clients, ClientStep(c), Recv(c)
  PROVE  MInv'
<1>1. PICK k : k = sock[c]
  OBVIOUS
<1>2. pc[c] = "recv" /\ UNCHANGED served
  BY DEF Recv
<1>3. k \in Live
  BY <1>1, <1>2 DEF IInv, ClientOk, Waiting, Own
<1>4. CASE EndClient(c, "dead")
  BY <1>2, <1>4, EndWithin
<1>5. CASE MayResend(c) /\ retries' = Counted(c) /\ StartPick(c) /\ UNCHANGED <<ev, sock, conn, got>>
  BY <1>2, <1>5, RetryWithin
<1>6. CASE /\ ClientHasData(k) /\ conn' = Taken(k) /\ pc' = [pc EXCEPT ![c] = "idle"]
           /\ UNCHANGED ev
  <2>1. conn[k].down # <<>>
    BY <1>6 DEF ClientHasData
  <2>2. conn' = [conn EXCEPT ![k] = Taken(k)[k]] /\ Taken(k)[k].up = <<>>
    BY <1>3, <1>6, <2>1, TakenFacts
  <2>3. PICK r : r = Taken(k)[k]
    OBVIOUS
  <2>4. \A j : Dries(j)
    BY <2>2, <2>3, PutDries
  <2>5. pc'[c] = "idle"
    BY <1>6, TypeParts DEF IInv, ClientTypes
  <2>6. Attempts(c)' = 0
    BY <2>5 DEF Attempts
  <2>7. 0 \in Nat /\ 0 <= Attempts(c)
    BY AttemptFacts
  <2> QED BY <1>2, <1>6, <2>4, <2>6, <2>7, ClientRests
<1> QED BY <1>1, <1>4, <1>5, <1>6 DEF Recv

\* A step of a client keeps the count.
LEMMA ClientStepWithin ==
  ASSUME IInv, MInv, NEW c \in Clients, ClientStep(c) PROVE MInv'
<1>1. CASE Connect(c) \/ ReadHeader(c) \/ PickDone(c)
  BY <1>1, PickWithin
<1>2. CASE NextEvent(c)
  BY <1>2, NextEventWithin
<1>3. CASE Finish(c)
  BY <1>3, EndWithin DEF Finish
<1>4. CASE Send(c)
  BY <1>4, SendWithin
<1>5. CASE Recv(c)
  BY <1>5, RecvWithin
<1> QED BY <1>1, <1>2, <1>3, <1>4, <1>5 DEF ClientStep

\* A step that leaves the clients alone, sends no request and processes none.
LEMMA QuietWithin ==
  ASSUME IInv, MInv, \A k : Dries(k), UNCHANGED <<served, pc, ev, retries>>
  PROVE  MInv'
BY IdleWithin DEF MInv

\* A server that processes a request takes it off its connection.
LEMMA ServeWithin ==
  ASSUME IInv, MInv, NEW k \in Live, ServerHasData(k),
         conn' = [conn EXCEPT ![k].up = Tail(@)],
         served' = [served EXCEPT ![Head(conn[k].up)] =
                      IF Readable(Head(conn[k].up)) THEN @ + 1 ELSE @],
         UNCHANGED <<pc, ev, retries>>
  PROVE  /\ MInv'
         /\ \/ UNCHANGED served
            \/ \E c \in Clients, e \in Event :
                 /\ e <= ev[c] /\ served[<<c, e>>] < Retries + 1
                 /\ served' = [served EXCEPT ![<<c, e>>] = @ + 1]
<1>1. conn[k].up # <<>>
  BY DEF ServerHasData
<1>2. PICK ds : ds = Head(conn[k].up)
  OBVIOUS
<1>3. ds = conn[k].up[1] /\ ds \in DS /\ Tail(conn[k].up) = <<>>
  BY <1>1, <1>2, RequestFacts
<1>4. PICK c \in Clients, e \in Event : ds = <<c, e>>
  BY <1>3 DEF DS
<1>5. conn \in [Live -> Connection] /\ conn[k] \in Connection /\ served \in [DS -> Nat]
  BY DEF IInv, TypeOK
<1>6. PICK q : q = [conn[k] EXCEPT !.up = <<>>]
  OBVIOUS
<1>7. conn' = [conn EXCEPT ![k] = q] /\ q.up = <<>>
  BY <1>3, <1>5, <1>6 DEF Connection
<1>8. Live' = Live /\ conn'[k].up = <<>>
  BY <1>5, <1>7 DEF Live
<1>9. \A j : Dries(j)
  BY <1>7, PutDries
<1>10. CASE ~Readable(ds)
  <2>1. served' = served
    BY <1>2, <1>3, <1>5, <1>10
  <2> QED BY <1>9, <2>1, QuietWithin
<1>11. CASE Readable(ds)
  <2>1. served' = [served EXCEPT ![ds] = @ + 1]
    BY <1>2, <1>11
  <2>2. served'[ds] = served[ds] + 1 /\ \A x \in DS : x # ds => served'[x] = served[x]
    BY <1>3, <1>5, <2>1
  <2>3. ASSUME NEW d \in Clients PROVE Attempts(d)' = Attempts(d) /\ Attempts(d) \in Nat
    <3>1. Attempts(d)' = Attempts(d)
      BY DEF Attempts
    <3> QED BY <3>1, AttemptFacts
  <2>4. PICK S, T : S = Requests(c, e) /\ T = Requests(c, e)'
    OBVIOUS
  <2>5. k \in S
    BY <1>1, <1>3, <1>4, <2>4 DEF Requests
  <2>6. T \in SUBSET (S \ {k})
    <3>1. \A j : j \in Requests(c, e)' => j \in Requests(c, e) /\ j # k
      <4>1. Requests(c, e)' \subseteq Requests(c, e)
        BY <1>9, DriesKeeps
      <4>2. k \notin Requests(c, e)'
        BY <1>8 DEF Requests
      <4> QED BY <4>1, <4>2
    <3> QED BY <2>4, <3>1
  <2>7. IsFiniteSet(S)
    BY <2>4, RequestTypes
  <2>8. IsFiniteSet(S \ {k}) /\ Cardinality(S \ {k}) = Cardinality(S) - 1
    BY <2>5, <2>7, FS_RemoveElement
  <2>9. IsFiniteSet(T) /\ Cardinality(T) <= Cardinality(S \ {k})
    BY <2>6, <2>8, FS_Subset
  <2>10. Cardinality(T) \in Nat /\ Cardinality(S) \in Nat
    BY <2>7, <2>9, FS_CardinalityType
  <2>11. PICK n \in Nat : n = Cardinality(S)
    BY <2>10
  <2>12. PICK m \in Nat : m = Cardinality(T)
    BY <2>10
  <2>13. m <= n - 1
    BY <2>8, <2>9, <2>11, <2>12
  <2>14. PICK s \in Nat : s = served[ds]
    BY <1>3, <1>5
  <2>15. PICK a \in Nat : a = IF e = ev[c] THEN Attempts(c) ELSE 0
    BY <2>3
  <2>16. s + n + a <= Retries + 1
    <3>1. Within(c, e)
      BY DEF MInv
    <3> QED BY <1>4, <2>4, <2>11, <2>14, <2>15, <3>1 DEF Within
  <2>17. s + 1 + m + a <= Retries + 1
    BY <2>13, <2>16, NetAssumption
  <2>18. Within(c, e)'
    <3>1. served'[<<c, e>>] = s + 1
      BY <1>4, <2>2, <2>14
    <3>2. Cardinality(Requests(c, e)') = m
      BY <2>4, <2>12
    <3>3. (IF e = ev'[c] THEN Attempts(c)' ELSE 0) = a
      <4>1. Attempts(c)' = Attempts(c) /\ ev'[c] = ev[c]
        BY <2>3
      <4> QED BY <2>15, <4>1
    <3>4. Within(c, e)' <=> served'[<<c, e>>] + Cardinality(Requests(c, e)')
                              + (IF e = ev'[c] THEN Attempts(c)' ELSE 0) <= Retries + 1
      BY DEF Within
    <3> QED BY <2>17, <3>1, <3>2, <3>3, <3>4
  <2>19. e <= ev[c]
    <3>1. Unsent(c, e)
      BY DEF MInv
    <3>2. ~(e > ev[c])
      <4>1. Requests(c, e) # {}
        BY <2>4, <2>5
      <4> QED BY <3>1, <4>1 DEF Unsent
    <3>3. e \in Nat
      BY DEF Event
    <3>4. ev[c] \in Nat
      BY RequestTypes
    <3> QED BY <3>2, <3>3, <3>4
  <2>20. Unsent(c, e)'
    <3>1. ~(e > ev'[c])
      <4>1. e \in Nat
        BY DEF Event
      <4>2. ev[c] \in Nat
        BY RequestTypes
      <4> QED BY <2>19, <4>1, <4>2
    <3> QED BY <3>1 DEF Unsent
  <2>21. ASSUME NEW d \in Clients, NEW f \in Event, <<d, f>> # <<c, e>>
         PROVE  Within(d, f)' /\ Unsent(d, f)'
    <3>1. <<d, f>> \in DS
      BY DEF DS
    <3>2. served'[<<d, f>>] = served[<<d, f>>]
      <4>1. PICK x : x = <<d, f>>
        OBVIOUS
      <4>2. x \in DS /\ x # ds
        BY <1>4, <2>21, <3>1, <4>1
      <4>3. served'[x] = served[x]
        BY <2>2, <4>2
      <4> QED BY <4>1, <4>3
    <3>3. Requests(d, f)' \subseteq Requests(d, f)
      BY <1>9, DriesKeeps
    <3>4. Within(d, f) /\ Unsent(d, f)
      BY DEF MInv
    <3>5. Attempts(d)' \in Nat /\ Attempts(d)' <= Attempts(d)
      <4>1. Attempts(d)' = Attempts(d) /\ Attempts(d) \in Nat
        BY <2>3
      <4> QED BY <4>1
    <3> QED BY <3>2, <3>3, <3>4, <3>5, WithinKeeps
  <2>22. MInv'
    <3> SUFFICES ASSUME NEW d \in Clients, NEW f \in Event
                 PROVE  Within(d, f)' /\ Unsent(d, f)'
      BY DEF MInv
    <3>1. CASE d = c /\ f = e
      BY <2>18, <2>20, <3>1
    <3>2. CASE ~(d = c /\ f = e)
      BY <2>21, <3>2
    <3> QED BY <3>1, <3>2
  <2>23. served[<<c, e>>] < Retries + 1
    <3>1. s < Retries + 1
      BY <2>17, NetAssumption
    <3> QED BY <1>4, <2>14, <3>1
  <2>24. served' = [served EXCEPT ![<<c, e>>] = @ + 1]
    BY <1>4, <2>1
  <2> QED BY <2>19, <2>22, <2>23, <2>24
<1> QED BY <1>10, <1>11

\* What the steps of servers and failures mean to the event loops.
Processes ==
  \/ UNCHANGED served
  \/ \E c \in Clients, e \in Event :
       /\ e <= ev[c] /\ served[<<c, e>>] < Retries + 1
       /\ served' = [served EXCEPT ![<<c, e>>] = @ + 1]

\* A step of a server keeps it, and processes what it was asked for.
LEMMA ServerStepWithin ==
  ASSUME IInv, MInv, NEW s \in Servers, ServerStep(s)
  PROVE  MInv' /\ Processes
<1>1. UNCHANGED <<pc, ev, retries>>
  BY DEF ServerStep, Accept, Select, Reply, StopOnError, clientVars
<1>2. CASE Accept(s)
  <2>1. UNCHANGED served
    BY <1>2 DEF Accept
  <2>2. \/ UNCHANGED conn
        \/ \E k : conn' = CloseServerEnds(conn, {k}) \/ Down(k, Header(Load(s)))
    BY <1>2 DEF Accept
  <2>3. \A k : Dries(k)
    <3>1. ASSUME NEW k, conn' = CloseServerEnds(conn, {k}) PROVE \A j : Dries(j)
      <4>1. PICK K : K = {k}
        OBVIOUS
      <4> QED BY <3>1, <4>1, ServerCloseDries
    <3>2. ASSUME NEW k, Down(k, Header(Load(s))) PROVE \A j : Dries(j)
      <4>1. PICK msg : msg = Header(Load(s))
        OBVIOUS
      <4> QED BY <3>2, <4>1, DownDries
    <3> QED BY <2>2, <3>1, <3>2, SameDries
  <2> QED BY <1>1, <2>1, <2>3, QuietWithin DEF Processes
<1>3. CASE Select(s)
  <2>1. CASE UNCHANGED <<conn, served>>
    BY <1>1, <2>1, SameDries, QuietWithin DEF Processes
  <2>2. ASSUME NEW k \in sockets[s], conn' = Disconnected(s, k).conn, UNCHANGED served
        PROVE  MInv' /\ Processes
    <3>1. PICK K : K = {k}
      OBVIOUS
    <3>2. conn' = CloseServerEnds(conn, K)
      BY <2>2, <3>1 DEF Disconnected
    <3>3. \A j : Dries(j)
      BY <3>2, ServerCloseDries
    <3> QED BY <1>1, <2>2, <3>3, QuietWithin DEF Processes
  <2>3. ASSUME NEW k \in sockets[s], ServerHasData(k),
               conn' = [conn EXCEPT ![k].up = Tail(@)],
               served' = [served EXCEPT ![Head(conn[k].up)] =
                            IF Readable(Head(conn[k].up)) THEN @ + 1 ELSE @]
        PROVE  MInv' /\ Processes
    <3>1. k \in Live
      BY DEF IInv, Accepted
    <3> QED BY <1>1, <2>3, <3>1, ServeWithin DEF Processes
  <2> QED BY <1>3, <2>1, <2>2, <2>3 DEF Select
<1>4. CASE Reply(s)
  <2>1. UNCHANGED served
    BY <1>4 DEF Reply
  <2>2. PICK k, msg : k = JobSocket(s) /\ msg = job[s].answer
    OBVIOUS
  <2>3. conn' = CloseServerEnds(conn, {k}) \/ Down(k, msg)
    BY <1>4, <2>2 DEF Reply
  <2>4. \A j : Dries(j)
    <3>1. PICK K : K = {k}
      OBVIOUS
    <3> QED BY <2>3, <3>1, ServerCloseDries, DownDries
  <2> QED BY <1>1, <2>1, <2>4, QuietWithin DEF Processes
<1>5. CASE StopOnError(s)
  <2>1. UNCHANGED served /\ conn' = CloseServerEnds(conn, OfServer(s))
    BY <1>5 DEF StopOnError, EndServer
  <2>2. \A j : Dries(j)
    BY <2>1, ServerCloseDries
  <2> QED BY <1>1, <2>1, <2>2, QuietWithin DEF Processes
<1> QED BY <1>2, <1>3, <1>4, <1>5 DEF ServerStep

\* The failures that no client causes.
LEMMA FailureWithin ==
  ASSUME IInv, MInv,
         \/ \E s \in Servers : KillServer(s) \/ InterruptServer(s)
                              \/ AcceptFails(s) \/ StartServer(s)
         \/ \E k \in Live : BreakClientEnd(k) \/ BreakServerEnd(k)
  PROVE  MInv' /\ UNCHANGED <<pc, ev, got, served>>
<1>1. UNCHANGED <<pc, ev, retries, got, served>>
  BY DEF KillServer, InterruptServer, AcceptFails, StartServer, BreakClientEnd,
    BreakServerEnd, clientVars
<1>2. ASSUME NEW s \in Servers, KillServer(s) \/ InterruptServer(s)
                                \/ AcceptFails(s) \/ StartServer(s)
      PROVE  \A j : Dries(j)
  <2>1. CASE KillServer(s) \/ InterruptServer(s)
    <3>1. conn' = CloseServerEnds(conn, OfServer(s))
      BY <2>1 DEF KillServer, InterruptServer, EndServer
    <3> QED BY <3>1, ServerCloseDries
  <2>2. CASE AcceptFails(s) \/ StartServer(s)
    <3>1. UNCHANGED conn
      BY <2>2 DEF AcceptFails, StartServer
    <3> QED BY <3>1, SameDries
  <2> QED BY <1>2, <2>1, <2>2
<1>3. ASSUME NEW k \in Live, BreakClientEnd(k) \/ BreakServerEnd(k)
      PROVE  \A j : Dries(j)
  <2>1. conn \in [Live -> Connection] /\ conn[k] \in Connection
    BY DEF IInv, TypeOK
  <2>2. CASE BreakClientEnd(k)
    <3>1. PICK q : q = [conn[k] EXCEPT !.creset = TRUE, !.down = <<>>]
      OBVIOUS
    <3>2. conn' = [conn EXCEPT ![k] = q] /\ q.up = conn[k].up
      BY <2>1, <2>2, <3>1 DEF BreakClientEnd, Connection
    <3> QED BY <3>2, PutDries
  <2>3. CASE BreakServerEnd(k)
    <3>1. PICK q : q = [conn[k] EXCEPT !.sreset = TRUE, !.up = <<>>]
      OBVIOUS
    <3>2. conn' = [conn EXCEPT ![k] = q] /\ q.up = <<>>
      BY <2>1, <2>3, <3>1 DEF BreakServerEnd, Connection
    <3> QED BY <3>2, PutDries
  <2> QED BY <1>3, <2>2, <2>3
<1>4. \A j : Dries(j)
  BY <1>2, <1>3
<1> QED BY <1>1, <1>4, QuietWithin

\* At first nothing is under way.
LEMMA InitWithin == Init => MInv
<1> SUFFICES ASSUME Init, NEW c \in Clients, NEW e \in Event
             PROVE  Within(c, e) /\ Unsent(c, e)
  BY DEF MInv
<1>1. Requests(c, e) = {}
  BY DEF Init, Requests, Live
<1>2. served[<<c, e>>] = 0
  <2>1. <<c, e>> \in DS
    BY DEF DS
  <2> QED BY <2>1 DEF Init
<1>3. Cardinality(Requests(c, e)) = 0
  BY <1>1, FS_EmptySet
<1>4. PICK a : a = IF e = ev[c] THEN Attempts(c) ELSE 0
  OBVIOUS
<1>5. a = 0
  <2>1. ev[c] = 0 /\ e # 0
    BY DEF Init, Event
  <2> QED BY <1>4, <2>1
<1>6. 0 + 0 + a <= Retries + 1
  BY <1>5, NetAssumption
<1> QED BY <1>1, <1>2, <1>3, <1>4, <1>6 DEF Within, Unsent

\* No step lets an event be processed more often than DSEvent may send it.
LEMMA NextWithin == ASSUME IInv, MInv, Next PROVE MInv'
<1>1. ASSUME NEW c \in Clients, ClientStep(c) PROVE MInv'
  BY <1>1, ClientStepWithin
<1>2. ASSUME NEW s \in Servers, ServerStep(s) PROVE MInv'
  BY <1>2, ServerStepWithin
<1>3. ASSUME NEW c \in Clients, KillClient(c) PROVE MInv'
  BY <1>3, EndWithin DEF KillClient
<1>4. CASE \/ \E s \in Servers : KillServer(s) \/ InterruptServer(s)
                                 \/ AcceptFails(s) \/ StartServer(s)
           \/ \E k \in Live : BreakClientEnd(k) \/ BreakServerEnd(k)
  BY <1>4, FailureWithin
<1> QED BY <1>1, <1>2, <1>3, <1>4 DEF Next, Environment

\* The clients that have died, as RemoteLoop sees them.
Dead == {c \in Clients : pc[c] = "dead"}

\* A step that ends a client process.
LEMMA EndMaps ==
  ASSUME IInv, NEW c \in Clients, EndClient(c, "dead") \/ EndClient(c, "done"),
         pc[c] # "dead", UNCHANGED <<served, got>>
  PROVE  Remote!Fail(c) \/ UNCHANGED Remote!vars
<1>1. pc \in [Clients -> {"pick", "header", "idle", "send", "recv", "done", "dead"}]
  BY DEF IInv, TypeOK
<1>2. CASE EndClient(c, "dead")
  <2>1. Dead' = Dead \cup {c}
    BY <1>1, <1>2 DEF Dead, EndClient
  <2>2. UNCHANGED ev
    BY <1>2 DEF EndClient
  <2> QED BY <2>1, <2>2 DEF Remote!Fail, Dead
<1>3. CASE EndClient(c, "done")
  <2>1. Dead' = Dead
    BY <1>1, <1>3 DEF Dead, EndClient
  <2>2. UNCHANGED ev
    BY <1>3 DEF EndClient
  <2> QED BY <2>1, <2>2 DEF Remote!vars, Dead
<1> QED BY <1>2, <1>3

\* The steps of a client.
LEMMA ClientMaps ==
  ASSUME IInv, NEW c \in Clients, ClientStep(c)
  PROVE  Remote!Next \/ UNCHANGED Remote!vars
<1>1. ClientTypes
  BY TypeParts DEF IInv
<1>2. ASSUME EndClient(c, "dead") \/ EndClient(c, "done"), pc[c] # "dead",
             UNCHANGED <<served, got>>
      PROVE  Remote!Next \/ UNCHANGED Remote!vars
  BY <1>2, EndMaps DEF Remote!Next
<1>3. ASSUME pc[c] # "dead", pc'[c] # "dead", \A d \in Clients : d # c => pc'[d] = pc[d]
      PROVE  Dead' = Dead
  BY <1>3 DEF Dead
<1>4. ASSUME pc[c] # "dead", pc'[c] # "dead", UNCHANGED <<ev, served, got>>
      PROVE  UNCHANGED Remote!vars
  <2>1. Dead' = Dead
    BY <1>3, <1>4, OthersWait
  <2> QED BY <1>4, <2>1 DEF Remote!vars, Dead
<1>5. CASE Connect(c) \/ ReadHeader(c)
  <2>1. pc[c] # "dead" /\ pc'[c] # "dead" /\ UNCHANGED <<ev, served, got>>
    BY <1>1, <1>5 DEF Connect, ReadHeader, ClientTypes
  <2> QED BY <1>4, <2>1
<1>6. CASE PickDone(c)
  <2>1. CASE best[c] # None
    <3>1. pc[c] # "dead" /\ pc'[c] # "dead" /\ UNCHANGED <<ev, served, got>>
      BY <1>1, <1>6, <2>1 DEF PickDone, ClientTypes
    <3> QED BY <1>4, <3>1
  <2>2. CASE best[c] = None
    BY <1>2, <1>6, <2>2 DEF PickDone
  <2> QED BY <2>1, <2>2
<1>7. CASE NextEvent(c)
  <2>1. /\ pc[c] = "idle" /\ pc'[c] = "send" /\ ev[c] < NEvents
        /\ ev' = [ev EXCEPT ![c] = @ + 1] /\ UNCHANGED <<served, got>>
    BY <1>1, <1>7 DEF NextEvent, ClientTypes
  <2>2. Len(got[c]) = ev[c]
    BY <2>1 DEF IInv, ClientOk, Progress
  <2>3. Dead' = Dead /\ c \notin Dead
    <3>1. Dead' = Dead
      BY <1>3, <2>1, OthersWait
    <3> QED BY <2>1, <3>1 DEF Dead
  <2>4. Remote!Submit(c)
    BY <2>1, <2>2, <2>3 DEF Remote!Submit, Dead
  <2> QED BY <2>4 DEF Remote!Next
<1>8. CASE Finish(c)
  BY <1>2, <1>8 DEF Finish
<1>9. CASE Send(c)
  <2>1. pc[c] # "dead" /\ pc'[c] # "dead" /\ UNCHANGED <<ev, served, got>>
    BY <1>1, <1>9 DEF Send, StartPick, ClientTypes
  <2> QED BY <1>4, <2>1
<1>10. CASE Recv(c)
  <2>1. PICK k : k = sock[c]
    OBVIOUS
  <2>2. pc[c] = "recv" /\ UNCHANGED served
    BY <1>10 DEF Recv
  <2>3. CASE EndClient(c, "dead") /\ UNCHANGED got
    BY <1>2, <2>2, <2>3
  <2>4. CASE StartPick(c) /\ UNCHANGED <<ev, got>>
    <3>1. pc'[c] # "dead"
      BY <1>1, <2>4 DEF StartPick, ClientTypes
    <3> QED BY <1>4, <2>2, <2>4, <3>1
  <2>5. CASE /\ ClientHasData(k) /\ Head(conn[k].down).kind = "event"
             /\ got' = [got EXCEPT ![c] = Append(@, Head(conn[k].down).ds)]
             /\ pc' = [pc EXCEPT ![c] = "idle"] /\ UNCHANGED ev
    <3>1. /\ k \in Live
          /\ \A i \in 1 .. Len(conn[k].down) : conn[k].down[i] = Result(<<c, ev[c]>>)
      BY <2>1, <2>2 DEF IInv, ClientOk, Waiting, Own
    <3>2. conn[k].down # <<>>
      BY <2>5 DEF ClientHasData
    <3>3. Head(conn[k].down) = conn[k].down[1] /\ 1 \in 1 .. Len(conn[k].down)
      BY <3>1, <3>2, TakenFacts
    <3>4. ev[c] \in 0 .. NEvents /\ got[c] \in Seq(DS) /\ Len(got[c]) = ev[c] - 1
      BY <1>1, <2>2 DEF IInv, ClientOk, Progress, ClientTypes
    <3>5. PICK ds : ds = <<c, ev[c]>>
      OBVIOUS
    <3>6. ds \in DS
      BY <3>4, <3>5, NetAssumption DEF DS, Event
    <3>7. Head(conn[k].down).ds = ds /\ served[ds] >= 1
      <4>1. Head(conn[k].down) = Result(ds)
        BY <3>1, <3>3, <3>5
      <4>2. Result(ds).ds = ds
        BY <2>5, <3>6, <4>1, MessageFacts
      <4>3. Flight(k)
        BY <3>1 DEF IInv
      <4>4. served[conn[k].down[1].ds] >= 1
        BY <2>5, <3>3, <4>3 DEF Flight
      <4> QED BY <3>3, <4>1, <4>2, <4>4
    <3>8. Dead' = Dead /\ c \notin Dead
      <4>1. pc'[c] = "idle"
        BY <1>1, <2>5 DEF ClientTypes
      <4>2. Dead' = Dead
        BY <1>3, <2>2, <4>1, OthersWait
      <4> QED BY <2>2, <4>2 DEF Dead
    <3>9. ev[c] = Len(got[c]) + 1
      BY <3>4, NetAssumption
    <3>10. got' = [got EXCEPT ![c] = Append(@, <<c, ev[c]>>)]
      BY <2>5, <3>5, <3>7
    <3>11. served[<<c, ev[c]>>] >= 1
      BY <3>5, <3>7
    <3>12. Remote!Return(c)
      BY <2>2, <2>5, <3>8, <3>9, <3>10, <3>11 DEF Remote!Return, Dead
    <3> QED BY <3>12 DEF Remote!Next
  <2> QED BY <1>10, <2>1, <2>3, <2>4, <2>5 DEF Recv
<1> QED BY <1>5, <1>6, <1>7, <1>8, <1>9, <1>10 DEF ClientStep

\* The steps of a server: one of its event loop serves an event.
LEMMA ServerMaps ==
  ASSUME IInv, MInv, NEW s \in Servers, ServerStep(s)
  PROVE  Remote!Next \/ UNCHANGED Remote!vars
<1>1. UNCHANGED <<pc, ev, got>>
  BY DEF ServerStep, Accept, Select, Reply, StopOnError, clientVars
<1>2. Processes
  BY ServerStepWithin
<1>3. CASE UNCHANGED served
  BY <1>1, <1>3 DEF Remote!vars
<1>4. ASSUME NEW c \in Clients, NEW e \in Event, e <= ev[c],
             served[<<c, e>>] < Retries + 1,
             served' = [served EXCEPT ![<<c, e>>] = @ + 1]
      PROVE  Remote!Next
  <2>1. ev[c] \in Nat
    BY RequestTypes
  <2>2. e \in 1 .. ev[c] /\ e \in 1 .. NEvents
    BY <1>4, <2>1, NetAssumption DEF Event
  <2>3. {d \in Clients : pc[d] = "dead"}' = {d \in Clients : pc[d] = "dead"}
    BY <1>1
  <2>4. Remote!Serve(c, e)
    BY <1>1, <1>4, <2>2, <2>3 DEF Remote!Serve
  <2> QED BY <2>2, <2>4 DEF Remote!Next
<1> QED BY <1>2, <1>3, <1>4 DEF Processes

\* What DSEvent promises the event loop it is part of holds whatever the
\* sockets, the servers and the failures do: an event it returns was
\* processed, and none is processed more than Retries + 1 times.
THEOREM Implements == Spec => ImplementsRemoteLoop
<1>1. Init => Remote!Init
  BY DEF Init, Remote!Init, DS, Event
<1>2. ASSUME IInv, MInv, [Next]_vars PROVE MInv' /\ [Remote!Next]_(Remote!vars)
  <2>1. CASE UNCHANGED vars
    <3>1. UNCHANGED <<pc, ev, retries, conn, served, got>>
      BY <2>1 DEF vars, clientVars
    <3>2. MInv'
      BY <1>2, <3>1, SameDries, QuietWithin
    <3> QED BY <3>1, <3>2 DEF Remote!vars
  <2>2. ASSUME NEW c \in Clients, ClientStep(c) PROVE [Remote!Next]_(Remote!vars)
    BY <1>2, <2>2, ClientMaps
  <2>3. ASSUME NEW s \in Servers, ServerStep(s) PROVE [Remote!Next]_(Remote!vars)
    BY <1>2, <2>3, ServerMaps
  <2>4. ASSUME NEW c \in Clients, KillClient(c) PROVE [Remote!Next]_(Remote!vars)
    <3>1. EndClient(c, "dead") /\ pc[c] # "dead" /\ UNCHANGED <<served, got>>
      BY <2>4 DEF KillClient
    <3> QED BY <1>2, <3>1, EndMaps DEF Remote!Next
  <2>5. ASSUME \/ \E s \in Servers : KillServer(s) \/ InterruptServer(s)
                                     \/ AcceptFails(s) \/ StartServer(s)
               \/ \E k \in Live : BreakClientEnd(k) \/ BreakServerEnd(k)
        PROVE  [Remote!Next]_(Remote!vars)
    <3>1. UNCHANGED <<pc, ev, got, served>>
      BY <1>2, <2>5, FailureWithin
    <3>2. Dead' = Dead
      BY <3>1 DEF Dead
    <3>3. UNCHANGED Remote!vars
      BY <3>1, <3>2 DEF Remote!vars, Dead
    <3> QED BY <3>3
  <2>6. CASE Next
    <3>1. MInv'
      BY <1>2, <2>6, NextWithin
    <3> QED BY <2>2, <2>3, <2>4, <2>5, <2>6, <3>1 DEF Next, Environment
  <2> QED BY <1>2, <2>1, <2>6
<1> QED BY <1>1, <1>2, InitWithin, Invariant, PTL DEF Spec, ImplementsRemoteLoop, Remote!Spec
=============================================================================
