----------------------------- MODULE Transport ------------------------------
(***************************************************************************)
(* NetClient over TCP to the agent's HandleClient threads.  The callers    *)
(* are the threads of the Qt client; each holds service_mutex_ from before *)
(* its request is sent until the answer has been read.  A packet is a      *)
(* header and, when it has a payload, a second piece; each connection has  *)
(* a pipe of Capacity pieces in each direction, so that a sender can block *)
(* on a reader.  A connection may be cut at any moment, with any of what   *)
(* is under way lost; both sides come to know (nothing here models a peer  *)
(* that vanishes in silence: neither side has a timeout for it).           *)
(***************************************************************************)
EXTENDS Naturals, Sequences, FiniteSets

CONSTANTS
  Callers,
  MaxRequests,
  MaxConnections,
  Capacity,     \* pieces a pipe holds: the socket buffers
  LongRequests, \* requests with a payload
  LongAnswers   \* requests whose answer has a payload

Requests == 1 .. MaxRequests
Connections == 1 .. MaxConnections

ASSUME BoundsAssumption ==
  /\ MaxRequests \in Nat \ {0}
  /\ MaxConnections \in Nat \ {0}
  /\ Capacity \in Nat \ {0}
  /\ LongRequests \subseteq Requests
  /\ LongAnswers \subseteq Requests

VARIABLES
  \* NetClient and its callers
  sock_, opened, issued, on, req, got, executed, failed,
  todo,   \* pieces of the request still to be sent by the call in progress
  begun,  \* the request the answer's header belongs to, 0 before the header
  \* the connections
  link,   \* pipes, and which ends are open
  \* the agent's threads, one per connection
  agent

exchange == <<sock_, opened, issued, on, req, got, executed, failed>>
vars == <<exchange, todo, begun, link, agent>>

(* A piece of the packet of request r: PacketHeader.data_size says, in the *)
(* header, whether a payload follows.                                      *)
Piece(r, part, more) == [req |-> r, part |-> part, more |-> more]
Packet(r, long) ==
  IF r \in long THEN <<Piece(r, "header", TRUE), Piece(r, "payload", FALSE)>>
  ELSE <<Piece(r, "header", FALSE)>>

Pieces == [req : Requests, part : {"header", "payload"}, more : BOOLEAN]
Pipes == UNION {[1 .. n -> Pieces] : n \in 0 .. Capacity}
Links == [up : Pipes, down : Pipes, client : BOOLEAN, server : BOOLEAN,
          cut : BOOLEAN]

NoLink == [up |-> <<>>, down |-> <<>>, client |-> FALSE, server |-> FALSE,
           cut |-> FALSE]
NewLink == [NoLink EXCEPT !.client = TRUE, !.server = TRUE]
NoThread == [at |-> "none", req |-> 0, todo |-> <<>>]

TypeOK ==
  /\ sock_ \in {0} \cup Connections /\ opened \in {0} \cup Connections
  /\ issued \in {0} \cup Requests
  /\ on \in [Requests -> {0} \cup Connections]
  /\ req \in [Callers -> {0} \cup Requests]
  /\ got \in [Callers -> {0} \cup Requests]
  /\ executed \in [Requests -> 0 .. 1] /\ failed \subseteq Connections
  /\ Len(todo) <= 2 /\ begun \in {0} \cup Requests
  /\ link \in [Connections -> Links]
  /\ \A k \in Connections :
       /\ agent[k].at \in {"none", "header", "payload", "run", "write", "gone"}
       /\ agent[k].req \in {0} \cup Requests /\ Len(agent[k].todo) <= 2

Init ==
  /\ sock_ = 0 /\ opened = 0 /\ issued = 0
  /\ on = [r \in Requests |-> 0]
  /\ req = [c \in Callers |-> 0]
  /\ got = [c \in Callers |-> 0]
  /\ executed = [r \in Requests |-> 0] /\ failed = {}
  /\ todo = <<>> /\ begun = 0
  /\ link = [k \in Connections |-> NoLink]
  /\ agent = [k \in Connections |-> NoThread]

-----------------------------------------------------------------------------
(* The client.  service_mutex_ is free when no call is in progress. *)
NoMutex == TRUE
MutexFree == \A c \in Callers : req[c] = 0

Prefixes(s) == {SubSeq(s, 1, n) : n \in 0 .. Len(s)}

(* closesocket: what was sent may still arrive, unless unread data turns   *)
(* the close into a reset.                                                 *)
Closed(k, links) ==
  IF k = 0 THEN {links}
  ELSE {[links EXCEPT ![k].client = FALSE, ![k].down = <<>>, ![k].up = up] :
          up \in IF links[k].down = <<>> THEN {links[k].up}
                 ELSE Prefixes(links[k].up)}

Begin(c, k) ==
  /\ issued < MaxRequests
  /\ issued' = issued + 1
  /\ on' = [on EXCEPT ![issued'] = k]
  /\ req' = [req EXCEPT ![c] = issued']
  /\ todo' = Packet(issued', LongRequests)
  /\ begun' = 0

SendAndReceive(c) ==
  /\ MutexFree /\ req[c] = 0
  /\ sock_ # 0
  /\ Begin(c, sock_)
  /\ UNCHANGED <<sock_, opened, got, executed, failed, link, agent>>

(* ConnectToService: Connect and FetchCapabilities under one lock. *)
Connect(c) ==
  /\ MutexFree /\ req[c] = 0
  /\ opened < MaxConnections
  /\ opened' = opened + 1
  /\ sock_' = opened'
  /\ \E links \in Closed(sock_, link) : link' = [links EXCEPT ![opened'] = NewLink]
  /\ agent' = [agent EXCEPT ![opened'].at = "header"]
  /\ Begin(c, opened')
  /\ UNCHANGED <<got, executed, failed>>

(* Disconnect; also a Connect that fails, which closes the old socket first. *)
Disconnect ==
  /\ MutexFree
  /\ sock_' = 0
  /\ link' \in Closed(sock_, link)
  /\ UNCHANGED <<opened, issued, on, req, got, executed, failed, todo, begun, agent>>

(* The end of a call; the socket is left open when it failed. *)
Return(c, answer) ==
  /\ got' = [got EXCEPT ![c] = answer]
  /\ req' = [req EXCEPT ![c] = 0]
  /\ failed' = IF answer = 0 THEN failed \cup {on[req[c]]} ELSE failed
  /\ todo' = <<>> /\ begun' = 0
  /\ UNCHANGED <<sock_, opened, issued, on, executed>>

RoomForOneMore(pipe) == Len(pipe) <= Capacity
Room(pipe) == Len(pipe) < Capacity

Broken(k) == link[k].cut \/ ~link[k].server

(* SendAll blocks while the pipe is full.  A send on a broken connection   *)
(* fails, or succeeds for the last time and is lost.                       *)
SendPiece(c) ==
  LET k == on[req[c]] IN
  /\ req[c] # 0 /\ todo # <<>>
  /\ todo' = Tail(todo)
  /\ \/ /\ ~Broken(k) /\ Room(link[k].up)
        /\ link' = [link EXCEPT ![k].up = Append(@, Head(todo))]
     \/ /\ Broken(k)
        /\ UNCHANGED link
  /\ UNCHANGED <<exchange, begun, agent>>

SendFails(c) ==
  /\ req[c] # 0 /\ todo # <<>>
  /\ Broken(on[req[c]])
  /\ Return(c, 0)
  /\ UNCHANGED <<link, agent>>

(* ReceivePacket.  The command of the answer is not compared with the      *)
(* request's: whatever packet comes next is the answer.                    *)
ReceivePiece(c) ==
  LET k == on[req[c]]
      piece == Head(link[k].down) IN
  /\ req[c] # 0 /\ todo = <<>>
  /\ link[k].down # <<>>
  /\ link' = [link EXCEPT ![k].down = Tail(@)]
  /\ IF piece.more
     THEN begun' = piece.req /\ UNCHANGED <<exchange, todo>>
     ELSE Return(c, IF begun = 0 THEN piece.req ELSE begun)
  /\ UNCHANGED agent

ReceiveFails(c) ==
  LET k == on[req[c]] IN
  /\ req[c] # 0 /\ todo = <<>>
  /\ link[k].down = <<>> /\ Broken(k)
  /\ Return(c, 0)
  /\ UNCHANGED <<link, agent>>

-----------------------------------------------------------------------------
(* HandleClient, one thread for each accepted connection. *)
WasCut(k) == link[k].cut
ClientGone(k) == link[k].cut \/ ~link[k].client

AfterPiece(piece) ==
  IF piece.more THEN "payload" ELSE "run"

Read(k) ==
  LET piece == Head(link[k].up) IN
  /\ agent[k].at \in {"header", "payload"}
  /\ link[k].up # <<>>
  /\ link' = [link EXCEPT ![k].up = Tail(@)]
  /\ agent' = [agent EXCEPT ![k].at = AfterPiece(piece), ![k].req = piece.req]
  /\ UNCHANGED <<exchange, todo, begun>>

(* The loop ends at the end of the stream, and at a header whose data_size *)
(* is above kMaxPayload; the payload is then left unread.                  *)
Hangup(k) ==
  /\ \/ agent[k].at \in {"header", "payload"}
        /\ link[k].up = <<>> /\ ClientGone(k)
     \/ agent[k].at = "payload"
  /\ agent' = [agent EXCEPT ![k].at = "gone"]
  /\ link' = [link EXCEPT ![k].server = FALSE, ![k].up = <<>>]
  /\ UNCHANGED <<exchange, todo, begun>>

(* Every case of the switch sends exactly one packet before it breaks. *)
AnswersTwice(r) == Packet(r, LongAnswers) \o Packet(r, {})
NoAnswerToFirst(r) == IF r = 1 THEN <<>> ELSE Packet(r, LongAnswers)
Answers(r) == Packet(r, LongAnswers)

Handle(k) ==
  /\ agent[k].at = "run"
  /\ executed' = [executed EXCEPT ![agent[k].req] = @ + 1]
  /\ agent' = [agent EXCEPT ![k].at = "write", ![k].todo = Answers(agent[k].req)]
  /\ UNCHANGED <<sock_, opened, issued, on, req, got, failed, todo, begun, link>>

(* The result of SendPacket is ignored: a thread whose answer cannot be    *)
(* sent returns to reading and ends there.                                 *)
Write(k) ==
  LET lost == ClientGone(k)
      rest == IF lost THEN <<>> ELSE Tail(agent[k].todo) IN
  /\ agent[k].at = "write"
  /\ lost \/ (agent[k].todo # <<>> /\ Room(link[k].down))
  /\ link' = IF lost THEN link
             ELSE [link EXCEPT ![k].down = Append(@, Head(agent[k].todo))]
  /\ agent' = [agent EXCEPT ![k].todo = rest,
                            ![k].at = IF rest = <<>> THEN "header" ELSE @,
                            ![k].req = IF rest = <<>> THEN 0 ELSE @]
  /\ UNCHANGED <<exchange, todo, begun>>

Cut(k) ==
  /\ link[k].client \/ link[k].server
  /\ ~link[k].cut
  /\ \E up \in Prefixes(link[k].up), down \in Prefixes(link[k].down) :
       link' = [link EXCEPT ![k].cut = TRUE, ![k].up = up, ![k].down = down]
  /\ UNCHANGED <<exchange, todo, begun, agent>>

Step(c) == SendPiece(c) \/ SendFails(c) \/ ReceivePiece(c) \/ ReceiveFails(c)
Thread(k) == Read(k) \/ Hangup(k) \/ Handle(k) \/ Write(k)

Next ==
  \/ Disconnect
  \/ \E c \in Callers : SendAndReceive(c) \/ Connect(c) \/ Step(c)
  \/ \E k \in Connections : Thread(k) \/ Cut(k)

(* A thread that can go on does; commands of the agent return. *)
Fairness ==
  /\ \A c \in Callers : WF_vars(Step(c))
  /\ \A k \in Connections : WF_vars(Thread(k))

Spec == Init /\ [][Next]_vars /\ Fairness

-----------------------------------------------------------------------------
(* The transport keeps its promise to the service: one call at a time, no  *)
(* request executed twice or out of order, no call answered with another's *)
(* packet, nothing served by a connection that failed once.                *)
Promise == INSTANCE Exchange WITH
  Callers <- Callers, MaxRequests <- MaxRequests, MaxConnections <- MaxConnections,
  sock_ <- sock_, opened <- opened, issued <- issued, on <- on, req <- req,
  got <- got, executed <- executed, failed <- failed
Promised == Promise!Spec

(* Every call returns, so the mutex the GUI thread waits for comes free,   *)
(* although no call has a timeout.                                         *)
CallsReturn == \A c \in Callers : (req[c] # 0) ~> (req[c] = 0)

(* The agent's thread for a connection the client left, or that was cut,   *)
(* ends, also one that was executing a command then.                       *)
ThreadsEnd ==
  \A k \in Connections :
    (agent[k].at # "none" /\ (link[k].cut \/ ~link[k].client)) ~> (agent[k].at = "gone")
=============================================================================
