-------------------------- MODULE Transport_proofs --------------------------
(***************************************************************************)
(* Proofs about Transport, for every number of callers, requests and       *)
(* connections, every capacity of the pipes and every choice of the        *)
(* requests and answers that have a payload.                               *)
(*                                                                         *)
(* That a call is answered with its own packet is not compared anywhere:   *)
(* it follows from what is under way on each connection.  The invariant    *)
(* says where the pieces of the request and of the answer in progress can  *)
(* be: a connection that has not failed carries nothing but the packets of *)
(* the call in progress, and one that has failed never delivers anything   *)
(* again.                                                                  *)
(***************************************************************************)
EXTENDS Transport, SequenceTheorems, TLAPS

AgentThread == [at : {"none", "header", "payload", "run", "write", "gone"},
            req : {0} \cup Requests, todo : Seq(Pieces)]

(* The types, with the shape TypeOK leaves open. *)
Shape ==
  /\ TypeOK
  /\ todo \in Seq(Pieces)
  /\ agent \in [Connections -> AgentThread]

(* The numbers of requests and connections, and the one call at a time. *)
Numbered ==
  /\ sock_ <= opened
  /\ \A r \in Requests : /\ on[r] # 0 <=> r <= issued
                         /\ on[r] <= opened
                         /\ executed[r] = 1 => on[r] # 0
  /\ \A k \in failed : k <= opened
  /\ \A k \in Connections : link[k].client => k = sock_

OneCall ==
  /\ \A c \in Callers : req[c] # 0 => req[c] = issued /\ sock_ # 0 /\ on[issued] = sock_
  /\ \A c, d \in Callers : req[c] # 0 /\ req[d] # 0 => c = d

(* Of a packet, only the last piece has no more to follow. *)
InOrder(s) == \A i \in 1 .. Len(s) : i < Len(s) => s[i].more
Unfinished(s) == \A i \in 1 .. Len(s) : s[i].more
Of(s, r) == \A i \in 1 .. Len(s) : s[i].req = r

(* r is the request that connection k has to execute next. *)
Turn(k, r) ==
  /\ on[r] = k /\ executed[r] = 0
  /\ \A q \in Requests : q < r /\ on[q] = k => executed[q] = 1

(* A connection on which a call failed delivers nothing any more. *)
FailedIsDead == \A k \in failed : Broken(k) /\ link[k].down = <<>>

(* While the current connection has not failed, only the request of the    *)
(* call in progress can still have to be executed on it.                   *)
Served ==
  sock_ # 0 /\ sock_ \notin failed =>
    \A q \in Requests : on[q] = sock_ /\ (MutexFree \/ q < issued) => executed[q] = 1

(* The caller's side of the call in progress. *)
Sending ==
  /\ todo # <<>> =>
       /\ ~MutexFree /\ begun = 0
       /\ Of(todo, issued) /\ InOrder(todo)
       /\ sock_ \notin failed =>
            /\ executed[issued] = 0
            /\ agent[sock_].at \notin {"run", "write"}
            /\ Unfinished(link[sock_].up)
  /\ begun # 0 => ~MutexFree /\ begun = issued

(* What is under way to the agent, and what its thread does with it. *)
Upwards(k) ==
  /\ InOrder(link[k].up)
  /\ \A i \in 1 .. Len(link[k].up) : Turn(k, link[k].up[i].req)
  /\ agent[k].at \in {"payload", "run"} => agent[k].req # 0 /\ Turn(k, agent[k].req)
  /\ agent[k].at = "run" => link[k].up = <<>>
  /\ ~link[k].server => agent[k].at \in {"none", "gone"}

(* What the thread still has to write, and what is under way to the client. *)
Downwards(k) ==
  /\ agent[k].at = "write" =>
       /\ agent[k].req # 0 /\ executed[agent[k].req] = 1
       /\ agent[k].todo # <<>>
       /\ Of(agent[k].todo, agent[k].req) /\ InOrder(agent[k].todo)
       /\ Unfinished(link[k].down)
       /\ k = sock_ /\ k \notin failed =>
            ~MutexFree /\ todo = <<>> /\ agent[k].req = issued
  /\ link[k].down # <<>> =>
       /\ k = sock_ /\ ~MutexFree /\ todo = <<>> /\ executed[issued] = 1
       /\ Of(link[k].down, issued) /\ InOrder(link[k].down)

UnderWay == \A k \in Connections : Upwards(k) /\ Downwards(k)

IInv ==
  /\ Shape /\ Numbered /\ OneCall /\ FailedIsDead /\ Served /\ Sending
  /\ UnderWay

-----------------------------------------------------------------------------
(* A pipe is a sequence of at most Capacity pieces. *)
LEMMA PipeIsSeq == \A s : s \in Pipes <=> s \in Seq(Pieces) /\ Len(s) <= Capacity
<1> SUFFICES ASSUME NEW s
             PROVE  s \in Pipes <=> s \in Seq(Pieces) /\ Len(s) <= Capacity
  OBVIOUS
<1>1. Capacity \in Nat
  BY BoundsAssumption
<1>2. ASSUME s \in Pipes PROVE s \in Seq(Pieces) /\ Len(s) <= Capacity
  <2>1. PICK n \in 0 .. Capacity : s \in [1 .. n -> Pieces]
    BY <1>2 DEF Pipes
  <2>2. n \in Nat
    BY <1>1
  <2>3. s \in Seq(Pieces)
    BY <2>1, <2>2, SeqDef
  <2>4. 1 .. Len(s) = 1 .. n
    BY <2>1, <2>3, LenProperties
  <2> QED
    BY <1>1, <2>2, <2>3, <2>4, LenProperties
<1>3. ASSUME s \in Seq(Pieces), Len(s) <= Capacity PROVE s \in Pipes
  <2>1. Len(s) \in 0 .. Capacity /\ s \in [1 .. Len(s) -> Pieces]
    BY <1>1, <1>3, LenProperties
  <2> QED
    BY <2>1 DEF Pipes
<1> QED
  BY <1>2, <1>3

LEMMA PieceOfRequest ==
  ASSUME NEW s \in Seq(Pieces), NEW i \in 1 .. Len(s)
  PROVE  s[i].req \in Requests
<1>1. s[i] \in Pieces
  BY ElementOfSeq
<1> QED
  BY <1>1 DEF Pieces

(* What a prefix of a pipe keeps. *)
LEMMA PrefixKeeps ==
  ASSUME NEW s \in Pipes, NEW t \in Prefixes(s)
  PROVE  /\ t \in Pipes /\ Len(t) <= Len(s)
         /\ \A i \in 1 .. Len(t) : i \in 1 .. Len(s) /\ t[i] = s[i]
         /\ s = <<>> => t = <<>>
         /\ InOrder(s) => InOrder(t)
         /\ Unfinished(s) => Unfinished(t)
         /\ \A r : Of(s, r) => Of(t, r)
<1>1. s \in Seq(Pieces) /\ Len(s) <= Capacity /\ Capacity \in Nat /\ Len(s) \in Nat
  BY PipeIsSeq, LenProperties, BoundsAssumption
<1>2. PICK n \in 0 .. Len(s) : t = SubSeq(s, 1, n)
  BY DEF Prefixes
<1>3. \A i \in 1 .. n : s[i] \in Pieces
  BY <1>1, <1>2, ElementOfSeq
<1>4. /\ t \in Seq(Pieces) /\ Len(t) = IF 1 <= n THEN n - 1 + 1 ELSE 0
      /\ \A i \in 1 .. n - 1 + 1 : t[i] = s[1 + i - 1]
  BY <1>1, <1>2, <1>3, SubSeqProperties
<1>5. Len(t) = n /\ \A i \in 1 .. n : t[i] = s[i]
  BY <1>1, <1>2, <1>4
<1>6. t \in Pipes
  <2>1. Len(t) <= Capacity
    BY <1>1, <1>2, <1>5
  <2> QED
    BY <1>4, <2>1, PipeIsSeq, Zenon
<1>7. s = <<>> => t = <<>>
  BY <1>1, <1>4, <1>5, EmptySeq
<1>8. \A i \in 1 .. Len(t) : i \in 1 .. Len(s) /\ t[i] = s[i]
  BY <1>1, <1>5
<1> QED
  BY <1>1, <1>2, <1>5, <1>6, <1>7, <1>8 DEF InOrder, Unfinished, Of

(* What the rest of a sequence of pieces keeps when its first is taken. *)
LEMMA TailKeeps ==
  ASSUME NEW s \in Seq(Pieces), s # <<>>
  PROVE  /\ Head(s) \in Pieces /\ Head(s) = s[1] /\ Len(s) \in Nat \ {0}
         /\ Tail(s) \in Seq(Pieces) /\ Len(Tail(s)) = Len(s) - 1
         /\ s \in Pipes => Tail(s) \in Pipes
         /\ \A i \in 1 .. Len(Tail(s)) : i + 1 \in 1 .. Len(s) /\ Tail(s)[i] = s[i + 1]
         /\ InOrder(s) => InOrder(Tail(s))
         /\ InOrder(s) /\ ~Head(s).more => Tail(s) = <<>>
         /\ InOrder(s) /\ Tail(s) # <<>> => Head(s).more
         /\ Unfinished(s) => Head(s).more /\ Unfinished(Tail(s))
         /\ \A r : Of(s, r) => Head(s).req = r /\ Of(Tail(s), r)
<1>1. /\ Head(s) \in Pieces /\ Tail(s) \in Seq(Pieces) /\ Len(Tail(s)) = Len(s) - 1
      /\ \A i \in 1 .. Len(Tail(s)) : Tail(s)[i] = s[i + 1]
  BY HeadTailProperties
<1>2. Len(s) \in Nat \ {0}
  BY EmptySeq
<1>3. Head(s) = s[1]
  OBVIOUS
<1>4. \A i \in 1 .. Len(Tail(s)) : i + 1 \in 1 .. Len(s)
  BY <1>1, <1>2
<1>5. s \in Pipes => Tail(s) \in Pipes
  <2>1. SUFFICES ASSUME s \in Pipes PROVE Tail(s) \in Pipes
    OBVIOUS
  <2>2. Len(s) <= Capacity
    BY <2>1, PipeIsSeq, Zenon
  <2>3. Len(Tail(s)) <= Capacity
    BY <1>1, <1>2, <2>2, BoundsAssumption
  <2> QED
    BY <1>1, <2>3, PipeIsSeq, Zenon
<1>6. Tail(s) # <<>> => Len(s) > 1
  BY <1>1, <1>2, EmptySeq
<1>8. InOrder(s) => InOrder(Tail(s))
  BY <1>1, <1>2, <1>4 DEF InOrder
<1>9. Len(s) > 1 /\ InOrder(s) => Head(s).more
  BY <1>2, <1>3 DEF InOrder
<1>10. Unfinished(s) => Head(s).more /\ Unfinished(Tail(s))
  BY <1>1, <1>2, <1>3, <1>4 DEF Unfinished
<1>11. \A r : Of(s, r) => Head(s).req = r /\ Of(Tail(s), r)
  BY <1>1, <1>2, <1>3, <1>4 DEF Of
<1> QED
  BY <1>1, <1>2, <1>3, <1>4, <1>5, <1>6, <1>8, <1>9, <1>10, <1>11

(* What a pipe is after a piece was sent into it. *)
LEMMA AppendKeeps ==
  ASSUME NEW s \in Pipes, NEW p \in Pieces, Room(s)
  PROVE  /\ Append(s, p) \in Pipes /\ Append(s, p) # <<>>
         /\ Unfinished(s) => InOrder(Append(s, p))
         /\ Unfinished(s) /\ p.more => Unfinished(Append(s, p))
         /\ \A r : Of(s, r) /\ p.req = r => Of(Append(s, p), r)
         /\ \A i \in 1 .. Len(Append(s, p)) :
              \/ i \in 1 .. Len(s) /\ Append(s, p)[i] = s[i]
              \/ Append(s, p)[i] = p
<1>1. s \in Seq(Pieces) /\ Capacity \in Nat /\ Len(s) \in Nat /\ Len(s) < Capacity
  BY PipeIsSeq, LenProperties, BoundsAssumption DEF Room
<1>2. /\ Append(s, p) \in Seq(Pieces) /\ Append(s, p) # <<>>
      /\ Len(Append(s, p)) = Len(s) + 1
      /\ \A i \in 1 .. Len(s) : Append(s, p)[i] = s[i]
      /\ Append(s, p)[Len(s) + 1] = p
  BY <1>1, AppendProperties
<1>3. Append(s, p) \in Pipes
  <2>1. Len(Append(s, p)) <= Capacity
    BY <1>1, <1>2
  <2> QED
    BY <1>2, <2>1, PipeIsSeq, Zenon
<1>4. \A i \in 1 .. Len(Append(s, p)) :
        \/ i \in 1 .. Len(s) /\ Append(s, p)[i] = s[i]
        \/ i = Len(s) + 1 /\ Append(s, p)[i] = p
  BY <1>1, <1>2
<1>5. Unfinished(s) => InOrder(Append(s, p))
  BY <1>1, <1>2, <1>4 DEF Unfinished, InOrder
<1>6. Unfinished(s) /\ p.more => Unfinished(Append(s, p))
  BY <1>1, <1>2, <1>4 DEF Unfinished
<1>7. \A r : Of(s, r) /\ p.req = r => Of(Append(s, p), r)
  BY <1>1, <1>2, <1>4 DEF Of
<1> QED
  BY <1>2, <1>3, <1>4, <1>5, <1>6, <1>7

(* The empty pipe satisfies every condition on what is under way. *)
LEMMA EmptyKeeps ==
  /\ <<>> \in Pipes /\ <<>> \in Seq(Pieces) /\ Len(<<>>) = 0
  /\ InOrder(<<>>) /\ Unfinished(<<>>) /\ \A r : Of(<<>>, r)
<1>1. <<>> \in Seq(Pieces) /\ Len(<<>>) = 0
  BY EmptySeq
<1>2. <<>> \in Pipes
  <2>1. Len(<<>>) <= Capacity
    BY <1>1, BoundsAssumption
  <2> QED
    BY <1>1, <2>1, PipeIsSeq, Zenon
<1> QED
  BY <1>1, <1>2 DEF InOrder, Unfinished, Of

LEMMA ShortSequences ==
  ASSUME NEW a \in Pieces, NEW b \in Pieces
  PROVE  /\ <<a>> \in Seq(Pieces) /\ Len(<<a>>) = 1 /\ <<a>>[1] = a
         /\ <<a, b>> \in Seq(Pieces) /\ Len(<<a, b>>) = 2
         /\ <<a, b>>[1] = a /\ <<a, b>>[2] = b
         /\ <<a>> # <<>> /\ <<a, b>> # <<>>
  OBVIOUS

(* A packet has one piece or two, all of its request, the last one ending it. *)
LEMMA PacketTyped ==
  ASSUME NEW r \in Requests, NEW long
  PROVE  /\ Packet(r, long) \in Seq(Pieces) /\ Len(Packet(r, long)) <= 2
         /\ Packet(r, long) # <<>>
         /\ Of(Packet(r, long), r) /\ InOrder(Packet(r, long))
<1>1. PICK a \in Pieces, b \in Pieces, c \in Pieces :
        /\ a = Piece(r, "header", TRUE) /\ b = Piece(r, "payload", FALSE)
        /\ c = Piece(r, "header", FALSE)
  BY DEF Piece, Pieces
<1>2. a.more /\ ~b.more /\ ~c.more /\ a.req = r /\ b.req = r /\ c.req = r
  BY <1>1 DEF Piece
<1>3. Of(<<a, b>>, r) /\ InOrder(<<a, b>>)
  BY <1>2, ShortSequences DEF Of, InOrder
<1>4. Of(<<c>>, r) /\ InOrder(<<c>>)
  BY <1>2, ShortSequences DEF Of, InOrder
<1>5. CASE r \in long
  <2>1. Packet(r, long) = <<a, b>>
    BY <1>1, <1>5 DEF Packet
  <2> QED
    BY <1>3, <2>1, ShortSequences
<1>6. CASE r \notin long
  <2>1. Packet(r, long) = <<c>>
    BY <1>1, <1>6 DEF Packet
  <2> QED
    BY <1>4, <2>1, ShortSequences
<1> QED
  BY <1>5, <1>6

-----------------------------------------------------------------------------
LEMMA LinkTyped ==
  ASSUME Shape, NEW k \in Connections
  PROVE  /\ link[k] \in Links /\ link[k].up \in Pipes /\ link[k].down \in Pipes
         /\ link[k].up \in Seq(Pieces) /\ link[k].down \in Seq(Pieces)
         /\ agent[k] \in AgentThread
<1>1. link[k] \in Links
  BY DEF Shape, TypeOK
<1> QED
  BY <1>1, PipeIsSeq DEF Shape, Links

(* The call in progress is that of the last request, on the current        *)
(* connection.                                                             *)
LEMMA CallInProgress ==
  ASSUME IInv, NEW c \in Callers, req[c] # 0
  PROVE  /\ req[c] = issued /\ issued \in Requests
         /\ sock_ \in Connections /\ sock_ # 0
         /\ on[req[c]] = sock_ /\ on[issued] = sock_
         /\ ~MutexFree
         /\ \A d \in Callers : req[d] # 0 <=> d = c
<1>1. req[c] = issued /\ sock_ # 0 /\ on[issued] = sock_
  BY DEF IInv, OneCall
<1>2. issued \in Requests /\ sock_ \in Connections
  BY <1>1 DEF IInv, Shape, TypeOK
<1> QED
  BY <1>1, <1>2 DEF IInv, OneCall, MutexFree

(* What a step leaves alone on a connection stays as the invariant has it. *)
LEMMA UpwardsFrame ==
  ASSUME NEW k \in Connections, Upwards(k),
         link'[k].up = link[k].up, link'[k].server = link[k].server,
         agent'[k] = agent[k], on' = on, executed' = executed
  PROVE  Upwards(k)'
  BY DEF Upwards, Turn, InOrder

LEMMA UpwardsMoves ==
  ASSUME IInv, NEW k \in Connections, Upwards(k),
         link'[k].up = link[k].up, link'[k].server = link[k].server,
         agent'[k] = agent[k],
         \A r \in Requests : Turn(k, r) => Turn(k, r)'
  PROVE  Upwards(k)'
<1>1. link[k].up \in Seq(Pieces) /\ agent[k] \in AgentThread
  BY LinkTyped DEF IInv
<1>2. ASSUME NEW i \in 1 .. Len(link[k].up) PROVE Turn(k, link[k].up[i].req)'
  <2>1. link[k].up[i].req \in Requests
    BY <1>1, <1>2, PieceOfRequest
  <2> QED
    BY <2>1 DEF Upwards, Turn
<1>3. ASSUME agent[k].at \in {"payload", "run"} PROVE agent[k].req # 0 /\ Turn(k, agent[k].req)'
  <2>1. agent[k].req \in Requests
    BY <1>1, <1>3 DEF Upwards, AgentThread
  <2> QED
    BY <1>3, <2>1 DEF Upwards, Turn
<1> QED
  BY <1>2, <1>3 DEF Upwards, Turn, InOrder

LEMMA DownwardsFrame ==
  ASSUME NEW k \in Connections, Downwards(k), IInv,
         link'[k].down = link[k].down, agent'[k] = agent[k],
         k # sock_, k # sock_',
         \A r \in Requests : executed[r] = 1 => executed'[r] = 1
  PROVE  Downwards(k)'
<1>1. agent[k].req \in {0} \cup Requests
  BY LinkTyped DEF IInv, AgentThread
<1> QED
  BY <1>1 DEF Downwards, Of, InOrder, Unfinished

LEMMA SendPieceKeeps ==
  ASSUME IInv, NEW c \in Callers, SendPiece(c)
  PROVE  IInv'
<1> DEFINE k == sock_
<1>1. /\ req[c] # 0 /\ todo # <<>> /\ todo' = Tail(todo)
      /\ UNCHANGED <<sock_, opened, issued, on, req, got, executed, failed, begun, agent>>
  BY DEF SendPiece, exchange
<1>2. /\ req[c] = issued /\ issued \in Requests /\ on[req[c]] = k /\ k \in Connections
      /\ k # 0 /\ ~MutexFree
  BY <1>1, CallInProgress
<1>3. MutexFree' = MutexFree
  BY <1>1 DEF MutexFree
<1>4. todo \in Seq(Pieces) /\ Len(todo) <= 2 /\ begun = 0 /\ Of(todo, issued) /\ InOrder(todo)
  BY <1>1 DEF IInv, Shape, TypeOK, Sending
<1>5. /\ todo' \in Seq(Pieces) /\ Len(todo') <= 2
      /\ Of(todo', issued) /\ InOrder(todo')
      /\ Head(todo) \in Pieces /\ Head(todo).req = issued
      /\ todo' # <<>> => Head(todo).more
  BY <1>1, <1>4, TailKeeps
<1>6. CASE Broken(k) /\ UNCHANGED link
  <2>1. Shape' /\ Numbered' /\ OneCall' /\ FailedIsDead' /\ Served'
    BY <1>1, <1>5, <1>6
       DEF IInv, Shape, TypeOK, Numbered, OneCall, FailedIsDead, Broken, Served, MutexFree
  <2>2. Sending'
    BY <1>1, <1>2, <1>3, <1>4, <1>5, <1>6 DEF IInv, Sending, Of, InOrder, Unfinished
  <2>3. ASSUME NEW j \in Connections PROVE Upwards(j)'
    BY <1>1, <1>6, <2>3, UpwardsFrame DEF IInv, UnderWay
  <2>4. ASSUME NEW j \in Connections PROVE Downwards(j)'
    BY <1>1, <1>3, <1>6, <2>4 DEF IInv, UnderWay, Downwards, Of, InOrder, Unfinished
  <2> QED
    BY <2>1, <2>2, <2>3, <2>4 DEF IInv, UnderWay
<1>7. CASE /\ ~Broken(k) /\ Room(link[k].up)
           /\ link' = [link EXCEPT ![k].up = Append(@, Head(todo))]
  <2>1. /\ link[k].up \in Pipes /\ link[k] \in Links
    BY <1>2, LinkTyped DEF IInv
  <2>2. /\ link'[k].up = Append(link[k].up, Head(todo))
        /\ link'[k].down = link[k].down /\ link'[k].client = link[k].client
        /\ link'[k].server = link[k].server /\ link'[k].cut = link[k].cut
        /\ \A j \in Connections : j # k => link'[j] = link[j]
        /\ DOMAIN link' = Connections
    BY <1>2, <1>7, <2>1 DEF IInv, Shape, TypeOK, Links
  <2>3. link'[k].up \in Pipes
    BY <1>5, <1>7, <2>1, <2>2, AppendKeeps
  <2>4. link' \in [Connections -> Links]
    BY <1>2, <1>7, <2>1, <2>2, <2>3 DEF IInv, Shape, TypeOK, Links
  <2>5. Shape'
    BY <1>1, <1>5, <2>4 DEF IInv, Shape, TypeOK
  <2>6. k \notin failed
    BY <1>7 DEF IInv, FailedIsDead
  <2>7. /\ executed[issued] = 0 /\ agent[k].at \notin {"run", "write"}
        /\ Unfinished(link[k].up)
    BY <1>1, <2>6 DEF IInv, Sending
  <2>8. Numbered' /\ OneCall' /\ Served'
    BY <1>1, <1>2, <2>2 DEF IInv, Numbered, OneCall, Served, MutexFree
  <2>9. FailedIsDead'
    BY <1>1, <2>2, <2>6 DEF IInv, Shape, TypeOK, FailedIsDead, Broken
  <2>10. Sending'
    <3>1. todo' # <<>> => Unfinished(link'[k].up)
      BY <1>5, <1>7, <2>1, <2>2, <2>7, AppendKeeps
    <3> QED
      BY <1>1, <1>2, <1>3, <1>4, <1>5, <2>7, <3>1 DEF IInv, Sending, Of, InOrder, Unfinished
  <2>11. Upwards(k)'
    <3>1. Turn(k, issued)
      BY <1>2, <2>6, <2>7 DEF IInv, Served, Turn
    <3>2. InOrder(link'[k].up)
      BY <1>5, <1>7, <2>1, <2>2, <2>7, AppendKeeps
    <3>3. ASSUME NEW i \in 1 .. Len(link'[k].up) PROVE Turn(k, link'[k].up[i].req)
      <4>1. \/ i \in 1 .. Len(link[k].up) /\ link'[k].up[i] = link[k].up[i]
            \/ link'[k].up[i] = Head(todo)
        BY <1>5, <1>7, <2>1, <2>2, <3>3, AppendKeeps
      <4> QED
        BY <1>2, <1>5, <3>1, <4>1 DEF IInv, UnderWay, Upwards
    <3> QED
      BY <1>1, <1>2, <2>2, <2>7, <3>2, <3>3, SMTT(30) DEF IInv, UnderWay, Upwards, Turn, InOrder
  <2>12. ASSUME NEW j \in Connections PROVE Upwards(j)'
    BY <1>1, <2>2, <2>11, <2>12, UpwardsFrame DEF IInv, UnderWay
  <2>13. ASSUME NEW j \in Connections PROVE Downwards(j)'
    BY <1>1, <1>3, <2>2, <2>13 DEF IInv, UnderWay, Downwards, Of, InOrder, Unfinished
  <2> QED
    BY <2>5, <2>8, <2>9, <2>10, <2>12, <2>13 DEF IInv, UnderWay
<1> QED
  BY <1>2, <1>6, <1>7 DEF SendPiece

(* A call that fails leaves a broken connection from which nothing comes. *)
LEMMA FailKeeps ==
  ASSUME IInv, NEW c \in Callers, req[c] # 0, Return(c, 0),
         Broken(sock_), link[sock_].down = <<>>, UNCHANGED <<link, agent>>
  PROVE  IInv'
<1>1. /\ issued \in Requests /\ sock_ \in Connections /\ on[req[c]] = sock_ /\ ~MutexFree
      /\ \A d \in Callers : req[d] # 0 <=> d = c
  BY CallInProgress
<1>2. /\ UNCHANGED <<sock_, opened, issued, on, executed, link, agent>>
      /\ got' = [got EXCEPT ![c] = 0] /\ req' = [req EXCEPT ![c] = 0]
      /\ todo' = <<>> /\ begun' = 0
  BY DEF Return
<1>3. failed' = failed \cup {sock_}
  BY <1>1 DEF Return
<1>4. MutexFree' /\ req' \in [Callers -> {0} \cup Requests]
  BY <1>1, <1>2 DEF MutexFree, IInv, Shape, TypeOK
<1>5. Shape'
  BY <1>1, <1>2, <1>3, <1>4, EmptyKeeps DEF IInv, Shape, TypeOK
<1>6. Numbered'
  BY <1>1, <1>2, <1>3 DEF IInv, Numbered
<1>7. OneCall'
  BY <1>4 DEF OneCall, MutexFree
<1>8. FailedIsDead'
  BY <1>2, <1>3 DEF IInv, FailedIsDead, Broken
<1>9. Served' /\ Sending'
  BY <1>2, <1>3 DEF Served, Sending
<1>10. ASSUME NEW j \in Connections PROVE Upwards(j)'
  BY <1>2, <1>10, UpwardsFrame DEF IInv, UnderWay
<1>11. ASSUME NEW j \in Connections PROVE Downwards(j)'
  BY <1>2, <1>3, <1>11 DEF IInv, UnderWay, Downwards, Of, InOrder, Unfinished
<1> QED
  BY <1>5, <1>6, <1>7, <1>8, <1>9, <1>10, <1>11 DEF IInv, UnderWay

LEMMA SendFailsKeeps ==
  ASSUME IInv, NEW c \in Callers, SendFails(c)
  PROVE  IInv'
<1>1. req[c] # 0 /\ todo # <<>> /\ Broken(on[req[c]]) /\ Return(c, 0) /\ UNCHANGED <<link, agent>>
  BY DEF SendFails
<1>2. sock_ \in Connections /\ on[req[c]] = sock_
  BY <1>1, CallInProgress
<1>3. link[sock_].down = <<>>
  BY <1>1, <1>2 DEF IInv, UnderWay, Downwards
<1> QED
  BY <1>1, <1>2, <1>3, FailKeeps

LEMMA ReceiveFailsKeeps ==
  ASSUME IInv, NEW c \in Callers, ReceiveFails(c)
  PROVE  IInv'
<1>1. /\ req[c] # 0 /\ link[on[req[c]]].down = <<>> /\ Broken(on[req[c]])
      /\ Return(c, 0) /\ UNCHANGED <<link, agent>>
  BY DEF ReceiveFails
<1>2. on[req[c]] = sock_
  BY <1>1, CallInProgress
<1> QED
  BY <1>1, <1>2, FailKeeps

(* What ReceivePiece takes is of the request of the call in progress, and  *)
(* when nothing more belongs to it, nothing else is under way.             *)
LEMMA Received ==
  ASSUME IInv, NEW c \in Callers, ReceivePiece(c)
  PROVE  LET piece == Head(link[sock_].down) IN
         /\ req[c] # 0 /\ req[c] = issued /\ on[req[c]] = sock_ /\ sock_ \in Connections
         /\ issued \in Requests /\ todo = <<>> /\ ~MutexFree
         /\ link[sock_].down # <<>> /\ sock_ \notin failed
         /\ executed[issued] = 1
         /\ link' = [link EXCEPT ![sock_].down = Tail(@)]
         /\ piece.req = issued /\ begun \in {0, issued}
         /\ ~piece.more => Tail(link[sock_].down) = <<>> /\ agent[sock_].at # "write"
<1> DEFINE pipe == link[sock_].down
<1>1. /\ req[c] # 0 /\ todo = <<>> /\ link[on[req[c]]].down # <<>>
      /\ link' = [link EXCEPT ![on[req[c]]].down = Tail(@)]
  BY DEF ReceivePiece
<1>2. /\ req[c] = issued /\ on[req[c]] = sock_ /\ sock_ \in Connections
      /\ issued \in Requests /\ ~MutexFree
  BY <1>1, CallInProgress
<1>3. sock_ \notin failed /\ begun \in {0, issued}
  BY <1>1, <1>2 DEF IInv, FailedIsDead, Sending
<1>4. executed[issued] = 1 /\ Of(pipe, issued) /\ InOrder(pipe)
  BY <1>1, <1>2 DEF IInv, UnderWay, Downwards
<1>5. pipe \in Seq(Pieces) /\ pipe # <<>>
  BY <1>1, <1>2, LinkTyped DEF IInv
<1>6. Head(pipe).req = issued /\ (~Head(pipe).more => Tail(pipe) = <<>>)
  BY <1>4, <1>5, TailKeeps
<1>7. ~Head(pipe).more => agent[sock_].at # "write"
  <2>1. agent[sock_].at = "write" => Unfinished(pipe)
    BY <1>2 DEF IInv, UnderWay, Downwards
  <2> QED
    BY <1>5, <2>1, TailKeeps
<1> QED
  BY <1>1, <1>2, <1>3, <1>4, <1>6, <1>7

LEMMA ReceivePieceKeeps ==
  ASSUME IInv, NEW c \in Callers, ReceivePiece(c)
  PROVE  IInv'
<1> DEFINE k == sock_
           pipe == link[k].down
           piece == Head(pipe)
<1>1. /\ req[c] # 0 /\ req[c] = issued /\ on[req[c]] = k /\ k \in Connections
      /\ issued \in Requests /\ todo = <<>> /\ ~MutexFree
      /\ pipe # <<>> /\ k \notin failed
      /\ executed[issued] = 1
      /\ link' = [link EXCEPT ![k].down = Tail(@)]
      /\ piece.req = issued /\ begun \in {0, issued}
      /\ ~piece.more => Tail(pipe) = <<>> /\ agent[k].at # "write"
  BY Received
<1>2. /\ link[k] \in Links /\ pipe \in Pipes /\ pipe \in Seq(Pieces)
  BY <1>1, LinkTyped DEF IInv
<1>3. /\ link'[k].up = link[k].up
      /\ link'[k].down = Tail(pipe) /\ link'[k].client = link[k].client
      /\ link'[k].server = link[k].server /\ link'[k].cut = link[k].cut
      /\ \A j \in Connections : j # k => link'[j] = link[j]
      /\ DOMAIN link' = Connections
  BY <1>1, <1>2 DEF IInv, Shape, TypeOK, Links
<1>4. Tail(pipe) \in Pipes
  BY <1>1, <1>2, TailKeeps
<1>5. link' \in [Connections -> Links]
  BY <1>1, <1>2, <1>3, <1>4 DEF IInv, Shape, TypeOK, Links
<1>6. UNCHANGED <<sock_, opened, issued, on, executed, agent>>
  BY <1>1 DEF ReceivePiece, exchange, Return
<1>7. Of(pipe, issued) /\ InOrder(pipe) /\ Of(Tail(pipe), issued) /\ InOrder(Tail(pipe))
  <2>1. Of(pipe, issued) /\ InOrder(pipe)
    BY <1>1 DEF IInv, UnderWay, Downwards
  <2> QED
    BY <1>1, <1>2, <2>1, TailKeeps
<1>8. ASSUME NEW j \in Connections PROVE Upwards(j)'
  BY <1>3, <1>6, <1>8, UpwardsFrame DEF IInv, UnderWay
<1>9. ASSUME NEW j \in Connections, j # k PROVE Downwards(j)'
  BY <1>3, <1>6, <1>9, DownwardsFrame DEF IInv, UnderWay
<1>10. CASE piece.more
  <2>1. begun' = issued /\ UNCHANGED <<req, got, failed, todo>>
    BY <1>1, <1>10 DEF ReceivePiece, exchange
  <2>2. MutexFree' = MutexFree
    BY <2>1 DEF MutexFree
  <2>3. Shape'
    BY <1>1, <1>5, <1>6, <2>1 DEF IInv, Shape, TypeOK
  <2>4. Numbered' /\ OneCall' /\ Served' /\ FailedIsDead' /\ Sending'
    BY <1>1, <1>3, <1>6, <2>1, <2>2
       DEF IInv, Shape, TypeOK, Numbered, OneCall, Served, FailedIsDead, Broken, Sending
  <2>5. Downwards(k)'
    <3>1. Unfinished(pipe) => Unfinished(Tail(pipe))
      BY <1>1, <1>2, TailKeeps
    <3> QED
      BY <1>1, <1>3, <1>6, <1>7, <2>1, <2>2, <3>1
         DEF IInv, UnderWay, Downwards, Of, InOrder, Unfinished
  <2> QED
    BY <1>6, <1>8, <1>9, <2>3, <2>4, <2>5 DEF IInv, UnderWay
<1>11. CASE ~piece.more
  <2>1. /\ got' = [got EXCEPT ![c] = issued] /\ req' = [req EXCEPT ![c] = 0]
        /\ UNCHANGED failed /\ todo' = <<>> /\ begun' = 0
    BY <1>1, <1>11 DEF ReceivePiece, Return, Requests
  <2>2. MutexFree' /\ req' \in [Callers -> {0} \cup Requests]
    BY <1>1, <2>1, CallInProgress DEF MutexFree, IInv, Shape, TypeOK
  <2>3. Shape'
    BY <1>1, <1>5, <1>6, <2>1, <2>2, EmptyKeeps DEF IInv, Shape, TypeOK
  <2>4. Numbered' /\ FailedIsDead'
    BY <1>1, <1>3, <1>6, <2>1
       DEF IInv, Shape, TypeOK, Numbered, FailedIsDead, Broken
  <2>5. OneCall' /\ Sending'
    BY <2>1, <2>2 DEF OneCall, MutexFree, Sending
  <2>6. Served'
    <3> SUFFICES ASSUME NEW q \in Requests, on[q] = k PROVE executed[q] = 1
      BY <1>6 DEF Served
    <3>1. q <= issued
      BY <1>1 DEF IInv, Numbered, Connections
    <3>2. CASE q = issued
      BY <1>1, <3>2
    <3>3. CASE q # issued
      BY <1>1, <3>1, <3>3 DEF IInv, Served, Requests, Connections
    <3> QED
      BY <3>2, <3>3
  <2>7. Downwards(k)'
    BY <1>1, <1>3, <1>6, <1>11 DEF Downwards
  <2> QED
    BY <1>6, <1>8, <1>9, <2>3, <2>4, <2>5, <2>6, <2>7 DEF IInv, UnderWay
<1> QED
  BY <1>10, <1>11

-----------------------------------------------------------------------------
(* A step of the agent or of the network concerns one connection k: the    *)
(* client's state is left alone, and so is every other connection.         *)
LEMMA OneConnection ==
  ASSUME IInv, NEW k \in Connections,
         UNCHANGED <<sock_, opened, issued, on, req, got, executed, failed, todo, begun>>,
         link' \in [Connections -> Links], agent' \in [Connections -> AgentThread],
         Len(agent'[k].todo) <= 2,
         \A j \in Connections : j # k => link'[j] = link[j] /\ agent'[j] = agent[j],
         link'[k].client = link[k].client,
         Broken(k) => Broken(k)' /\ (link[k].down = <<>> => link'[k].down = <<>>),
         k = sock_ /\ k \notin failed /\ todo # <<>> =>
           agent'[k].at \notin {"run", "write"} /\ Unfinished(link'[k].up),
         Upwards(k)', Downwards(k)'
  PROVE  IInv'
<1>1. MutexFree' = MutexFree
  BY DEF MutexFree
<1>2. \A j \in Connections : Len(agent'[j].todo) <= 2 /\ agent'[j] \in AgentThread
  BY DEF IInv, Shape, TypeOK
<1>3. Shape'
  BY <1>2 DEF IInv, Shape, TypeOK, AgentThread
<1>4. Numbered' /\ OneCall' /\ Served'
  BY DEF IInv, Numbered, OneCall, Served, MutexFree
<1>5. FailedIsDead'
  BY DEF IInv, Shape, TypeOK, FailedIsDead, Broken
<1>6. Sending'
  <2>1. todo # <<>> => sock_ \in Connections
    <3>1. ASSUME todo # <<>> PROVE \E c \in Callers : req[c] # 0
      BY <3>1 DEF IInv, Sending, MutexFree
    <3> QED
      BY <3>1, CallInProgress
  <2>2. todo # <<>> /\ sock_ \notin failed =>
          agent'[sock_].at \notin {"run", "write"} /\ Unfinished(link'[sock_].up)
    BY <2>1 DEF IInv, Sending
  <2>3. todo' = todo /\ begun' = begun
    OBVIOUS
  <2> QED
    BY <1>1, <2>2, <2>3 DEF IInv, Sending, Of, InOrder, Unfinished
<1>7. ASSUME NEW j \in Connections, j # k PROVE Upwards(j)' /\ Downwards(j)'
  <2>1. Upwards(j)'
    BY <1>7, UpwardsFrame DEF IInv, UnderWay
  <2>2. Downwards(j)'
    BY <1>1, <1>7, SMTT(30) DEF IInv, UnderWay, Downwards, Of, InOrder, Unfinished
  <2> QED
    BY <2>1, <2>2
<1> QED
  BY <1>3, <1>4, <1>5, <1>6, <1>7 DEF IInv, UnderWay

LEMMA ReadKeeps ==
  ASSUME IInv, NEW k \in Connections, Read(k)
  PROVE  IInv'
<1> DEFINE pipe == link[k].up
           piece == Head(pipe)
<1>1. /\ agent[k].at \in {"header", "payload"} /\ pipe # <<>>
      /\ link' = [link EXCEPT ![k].up = Tail(@)]
      /\ agent' = [agent EXCEPT ![k].at = AfterPiece(piece), ![k].req = piece.req]
      /\ UNCHANGED <<sock_, opened, issued, on, req, got, executed, failed, todo, begun>>
  BY DEF Read, exchange
<1>2. /\ link[k] \in Links /\ pipe \in Pipes /\ pipe \in Seq(Pieces) /\ agent[k] \in AgentThread
  BY LinkTyped DEF IInv
<1>3. /\ piece \in Pieces /\ piece = pipe[1] /\ Len(pipe) \in Nat \ {0}
      /\ Tail(pipe) \in Pipes /\ Tail(pipe) \in Seq(Pieces)
      /\ \A i \in 1 .. Len(Tail(pipe)) : i + 1 \in 1 .. Len(pipe) /\ Tail(pipe)[i] = pipe[i + 1]
  BY <1>1, <1>2, TailKeeps
<1>4. InOrder(pipe) /\ InOrder(Tail(pipe)) /\ (~piece.more => Tail(pipe) = <<>>)
  <2>1. InOrder(pipe)
    BY DEF IInv, UnderWay, Upwards
  <2> QED
    BY <1>1, <1>2, <2>1, TailKeeps
<1>5. /\ link'[k].up = Tail(pipe)
      /\ link'[k].down = link[k].down /\ link'[k].client = link[k].client
      /\ link'[k].server = link[k].server /\ link'[k].cut = link[k].cut
      /\ \A j \in Connections : j # k => link'[j] = link[j]
      /\ DOMAIN link' = Connections
  BY <1>1, <1>2 DEF IInv, Shape, TypeOK, Links
<1>6. link' \in [Connections -> Links]
  BY <1>1, <1>2, <1>3, <1>5 DEF IInv, Shape, TypeOK, Links
<1>7. /\ agent'[k].at = AfterPiece(piece) /\ agent'[k].req = piece.req
      /\ agent'[k].todo = agent[k].todo
      /\ \A j \in Connections : j # k => agent'[j] = agent[j]
      /\ DOMAIN agent' = Connections
  BY <1>1, <1>2 DEF IInv, Shape, AgentThread
<1>8. AfterPiece(piece) \in {"payload", "run"} /\ piece.req \in Requests /\ piece.req # 0
  BY <1>3 DEF AfterPiece, Pieces, Requests
<1>9. agent' \in [Connections -> AgentThread] /\ Len(agent'[k].todo) <= 2
  BY <1>1, <1>2, <1>7, <1>8 DEF IInv, Shape, TypeOK, AgentThread
<1>10. \A i \in 1 .. Len(pipe) : Turn(k, pipe[i].req)
  BY DEF IInv, UnderWay, Upwards
<1>11. Turn(k, piece.req) /\ \A i \in 1 .. Len(Tail(pipe)) : Turn(k, Tail(pipe)[i].req)
  <2>1. 1 \in 1 .. Len(pipe)
    BY <1>3
  <2> QED
    BY <1>3, <1>10, <2>1
<1>12. Upwards(k)'
  <2>1. agent[k].at # "none" /\ agent[k].at # "gone"
    BY <1>1
  <2>2. link[k].server
    BY <2>1 DEF IInv, UnderWay, Upwards
  <2>3. agent'[k].at = "run" => link'[k].up = <<>>
    BY <1>4, <1>5, <1>7 DEF AfterPiece
  <2> QED
    BY <1>1, <1>4, <1>5, <1>7, <1>8, <1>11, <2>2, <2>3, SMTT(30) DEF Upwards, Turn, InOrder
<1>13. Downwards(k)'
  <2>1. agent'[k].at # "write"
    BY <1>7, <1>8
  <2>2. MutexFree' = MutexFree
    BY <1>1 DEF MutexFree
  <2> QED
    BY <1>1, <1>5, <2>1, <2>2 DEF IInv, UnderWay, Downwards, Of, InOrder
<1>14. k = sock_ /\ k \notin failed /\ todo # <<>> =>
         agent'[k].at \notin {"run", "write"} /\ Unfinished(link'[k].up)
  <2>1. SUFFICES ASSUME k = sock_, k \notin failed, todo # <<>>
                 PROVE  agent'[k].at \notin {"run", "write"} /\ Unfinished(Tail(pipe))
    BY <1>5
  <2>2. Unfinished(pipe)
    BY <2>1 DEF IInv, Sending
  <2>3. piece.more /\ Unfinished(Tail(pipe))
    BY <1>1, <1>2, <2>2, TailKeeps
  <2> QED
    BY <1>7, <2>3 DEF AfterPiece
<1>15. Broken(k) => Broken(k)'
  BY <1>5 DEF Broken
<1> QED
  BY <1>1, <1>5, <1>6, <1>7, <1>9, <1>12, <1>13, <1>14, <1>15, OneConnection

LEMMA HangupKeeps ==
  ASSUME IInv, NEW k \in Connections, Hangup(k)
  PROVE  IInv'
<1>1. /\ agent[k].at \in {"header", "payload"}
      /\ link' = [link EXCEPT ![k].server = FALSE, ![k].up = <<>>]
      /\ agent' = [agent EXCEPT ![k].at = "gone"]
      /\ UNCHANGED <<sock_, opened, issued, on, req, got, executed, failed, todo, begun>>
  BY DEF Hangup, exchange
<1>2. /\ link[k] \in Links /\ agent[k] \in AgentThread
  BY LinkTyped DEF IInv
<1>3. /\ link'[k].up = <<>>
      /\ link'[k].down = link[k].down /\ link'[k].client = link[k].client
      /\ ~link'[k].server /\ link'[k].cut = link[k].cut
      /\ \A j \in Connections : j # k => link'[j] = link[j]
      /\ DOMAIN link' = Connections
  BY <1>1, <1>2 DEF IInv, Shape, TypeOK, Links
<1>4. link' \in [Connections -> Links]
  BY <1>1, <1>2, <1>3, EmptyKeeps DEF IInv, Shape, TypeOK, Links
<1>5. /\ agent'[k].at = "gone" /\ agent'[k].req = agent[k].req
      /\ agent'[k].todo = agent[k].todo
      /\ \A j \in Connections : j # k => agent'[j] = agent[j]
      /\ DOMAIN agent' = Connections
  BY <1>1, <1>2 DEF IInv, Shape, AgentThread
<1>6. agent' \in [Connections -> AgentThread] /\ Len(agent'[k].todo) <= 2
  BY <1>1, <1>2, <1>5 DEF IInv, Shape, TypeOK, AgentThread
<1>7. Upwards(k)'
  <2>1. Len(link'[k].up) = 0
    BY <1>3, EmptyKeeps
  <2> QED
    BY <1>3, <1>5, <2>1 DEF Upwards, InOrder
<1>8. Downwards(k)'
  <2>1. MutexFree' = MutexFree
    BY <1>1 DEF MutexFree
  <2> QED
    BY <1>1, <1>3, <1>5, <2>1 DEF IInv, UnderWay, Downwards, Of, InOrder
<1>9. Unfinished(link'[k].up)
  BY <1>3, EmptyKeeps
<1>10. Broken(k)'
  BY <1>3 DEF Broken
<1> QED
  BY <1>1, <1>3, <1>4, <1>5, <1>6, <1>7, <1>8, <1>9, <1>10, OneConnection

LEMMA CutKeeps ==
  ASSUME IInv, NEW k \in Connections, Cut(k)
  PROVE  IInv'
<1>1. PICK up \in Prefixes(link[k].up), down \in Prefixes(link[k].down) :
        /\ link' = [link EXCEPT ![k].cut = TRUE, ![k].up = up, ![k].down = down]
        /\ UNCHANGED <<sock_, opened, issued, on, req, got, executed, failed, todo, begun, agent>>
  BY DEF Cut, exchange
<1>2. /\ link[k] \in Links /\ link[k].up \in Pipes /\ link[k].down \in Pipes
      /\ agent[k] \in AgentThread
  BY LinkTyped DEF IInv
<1>3. /\ up \in Pipes
      /\ \A i \in 1 .. Len(up) : i \in 1 .. Len(link[k].up) /\ up[i] = link[k].up[i]
      /\ link[k].up = <<>> => up = <<>>
      /\ InOrder(link[k].up) => InOrder(up)
      /\ Unfinished(link[k].up) => Unfinished(up)
  BY <1>2, PrefixKeeps
<1>4. /\ down \in Pipes /\ (link[k].down = <<>> => down = <<>>)
      /\ InOrder(link[k].down) => InOrder(down)
      /\ Unfinished(link[k].down) => Unfinished(down)
      /\ Of(link[k].down, issued) => Of(down, issued)
  BY <1>2, PrefixKeeps
<1>5. /\ link'[k].up = up /\ link'[k].down = down /\ link'[k].client = link[k].client
      /\ link'[k].server = link[k].server /\ link'[k].cut
      /\ \A j \in Connections : j # k => link'[j] = link[j]
      /\ DOMAIN link' = Connections
  BY <1>1, <1>2 DEF IInv, Shape, TypeOK, Links
<1>6. link' \in [Connections -> Links]
  BY <1>1, <1>2, <1>3, <1>4, <1>5 DEF IInv, Shape, TypeOK, Links
<1>7. agent' \in [Connections -> AgentThread] /\ Len(agent'[k].todo) <= 2
  BY <1>1 DEF IInv, Shape, TypeOK
<1>8. Upwards(k)'
  BY <1>1, <1>3, <1>5 DEF IInv, UnderWay, Upwards, Turn, InOrder
<1>9. Downwards(k)'
  <2>1. MutexFree' = MutexFree
    BY <1>1 DEF MutexFree
  <2> QED
    BY <1>1, <1>4, <1>5, <2>1 DEF IInv, UnderWay, Downwards, Of, InOrder, Unfinished
<1>10. k = sock_ /\ k \notin failed /\ todo # <<>> =>
         agent'[k].at \notin {"run", "write"} /\ Unfinished(link'[k].up)
  BY <1>1, <1>3, <1>5 DEF IInv, Sending
<1>11. Broken(k)'
  BY <1>5 DEF Broken
<1> QED
  BY <1>1, <1>4, <1>5, <1>6, <1>7, <1>8, <1>9, <1>10, <1>11, OneConnection

LEMMA WriteKeeps ==
  ASSUME IInv, NEW k \in Connections, Write(k)
  PROVE  IInv'
<1> DEFINE out == agent[k].todo
           pipe == link[k].down
<1>1. /\ agent[k].at = "write"
      /\ UNCHANGED <<sock_, opened, issued, on, req, got, executed, failed, todo, begun>>
  BY DEF Write, exchange
<1>2. /\ link[k] \in Links /\ pipe \in Pipes /\ agent[k] \in AgentThread /\ out \in Seq(Pieces)
  BY LinkTyped DEF IInv, AgentThread
<1>3. /\ agent[k].req # 0 /\ executed[agent[k].req] = 1 /\ out # <<>>
      /\ Of(out, agent[k].req) /\ InOrder(out) /\ Unfinished(pipe)
      /\ k = sock_ /\ k \notin failed => ~MutexFree /\ todo = <<>> /\ agent[k].req = issued
      /\ link[k].server /\ Len(out) <= 2
  BY <1>1 DEF IInv, UnderWay, Upwards, Downwards, Shape, TypeOK
<1>4. MutexFree' = MutexFree
  BY <1>1 DEF MutexFree
<1>5. /\ Head(out) \in Pieces /\ Tail(out) \in Seq(Pieces) /\ Len(Tail(out)) = Len(out) - 1
      /\ Len(out) \in Nat
      /\ InOrder(Tail(out)) /\ Of(Tail(out), agent[k].req) /\ Head(out).req = agent[k].req
      /\ Tail(out) # <<>> => Head(out).more
  BY <1>2, <1>3, TailKeeps
<1>6. CASE ClientGone(k)
  <2>1. /\ link' = link
        /\ agent' = [agent EXCEPT ![k].todo = <<>>, ![k].at = "header", ![k].req = 0]
    BY <1>6 DEF Write
  <2>2. /\ agent'[k].at = "header" /\ agent'[k].req = 0 /\ agent'[k].todo = <<>>
        /\ \A j \in Connections : j # k => agent'[j] = agent[j]
        /\ DOMAIN agent' = Connections
    BY <1>2, <2>1 DEF IInv, Shape, AgentThread
  <2>3. agent' \in [Connections -> AgentThread] /\ Len(agent'[k].todo) <= 2
    <3>1. Len(agent'[k].todo) <= 2
      BY <2>2, EmptyKeeps
    <3>2. agent'[k] \in AgentThread
      BY <1>2, <2>1, EmptyKeeps DEF IInv, Shape, AgentThread
    <3>3. agent' \in [Connections -> AgentThread]
      BY <2>1, <2>2, <3>2 DEF IInv, Shape
    <3> QED
      BY <3>1, <3>3
  <2>4. Upwards(k)'
    BY <1>1, <1>3, <2>1, <2>2 DEF IInv, UnderWay, Upwards, Turn, InOrder
  <2>5. Downwards(k)'
    BY <1>1, <1>4, <2>1, <2>2 DEF IInv, UnderWay, Downwards, Of, InOrder
  <2>6. link' \in [Connections -> Links]
    BY <2>1 DEF IInv, Shape, TypeOK
  <2>7. k = sock_ /\ k \notin failed => todo = <<>>
    BY <1>3
  <2>8. Broken(k) => Broken(k)'
    BY <2>1 DEF Broken
  <2> QED
    BY <1>1, <2>1, <2>2, <2>3, <2>4, <2>5, <2>6, <2>7, <2>8, OneConnection
<1>7. CASE ~ClientGone(k)
  <2>1. /\ Room(pipe)
        /\ link' = [link EXCEPT ![k].down = Append(@, Head(out))]
        /\ agent' = [agent EXCEPT ![k].todo = Tail(out),
                                  ![k].at = IF Tail(out) = <<>> THEN "header" ELSE @,
                                  ![k].req = IF Tail(out) = <<>> THEN 0 ELSE @]
    BY <1>7 DEF Write
  <2>2. /\ link'[k].up = link[k].up
        /\ link'[k].down = Append(pipe, Head(out)) /\ link'[k].client = link[k].client
        /\ link'[k].server = link[k].server /\ link'[k].cut = link[k].cut
        /\ \A j \in Connections : j # k => link'[j] = link[j]
        /\ DOMAIN link' = Connections
    BY <1>2, <2>1 DEF IInv, Shape, TypeOK, Links
  <2>3. /\ link'[k].down \in Pipes /\ InOrder(link'[k].down)
        /\ Head(out).more => Unfinished(link'[k].down)
        /\ \A r : Of(pipe, r) /\ Head(out).req = r => Of(link'[k].down, r)
    <3>1. PICK p \in Pieces : p = Head(out)
      BY <1>5
    <3>2. /\ Append(pipe, p) \in Pipes /\ InOrder(Append(pipe, p))
          /\ p.more => Unfinished(Append(pipe, p))
          /\ \A r : Of(pipe, r) /\ p.req = r => Of(Append(pipe, p), r)
      BY <1>2, <1>3, <2>1, AppendKeeps
    <3> QED
      BY <2>2, <3>1, <3>2
  <2>4. link' \in [Connections -> Links]
    BY <1>2, <2>1, <2>2, <2>3 DEF IInv, Shape, TypeOK, Links
  <2>5. /\ agent'[k].todo = Tail(out)
        /\ agent'[k].at = IF Tail(out) = <<>> THEN "header" ELSE "write"
        /\ agent'[k].req = IF Tail(out) = <<>> THEN 0 ELSE agent[k].req
        /\ \A j \in Connections : j # k => agent'[j] = agent[j]
        /\ DOMAIN agent' = Connections
    BY <1>1, <1>2, <2>1 DEF IInv, Shape, AgentThread
  <2>6. agent' \in [Connections -> AgentThread] /\ Len(agent'[k].todo) <= 2
    <3>1. Len(agent'[k].todo) <= 2
      BY <1>3, <1>5, <2>5
    <3>2. agent'[k] \in AgentThread
      BY <1>2, <1>5, <2>1 DEF IInv, Shape, AgentThread
    <3>3. agent' \in [Connections -> AgentThread]
      BY <2>1, <2>5, <3>2, ZenonT(40) DEF IInv, Shape
    <3> QED
      BY <3>1, <3>3
  <2>7. k = sock_ /\ ~Broken(k)
    BY <1>3, <1>7 DEF ClientGone, Broken, IInv, Numbered
  <2>8. k \notin failed
    BY <2>7 DEF IInv, FailedIsDead
  <2>9. ~MutexFree /\ todo = <<>> /\ agent[k].req = issued /\ executed[issued] = 1
    BY <1>3, <2>7, <2>8
  <2>10. Upwards(k)'
    <3>1. agent'[k].at \in {"header", "write"}
      BY <2>5
    <3>2. link'[k].server
      BY <1>3, <2>2
    <3> QED
      BY <1>1, <2>2, <3>1, <3>2 DEF IInv, UnderWay, Upwards, Turn, InOrder
  <2>11. Of(link'[k].down, issued)
    <3>1. Of(pipe, issued)
      BY EmptyKeeps DEF IInv, UnderWay, Downwards
    <3> QED
      BY <1>5, <2>3, <2>9, <3>1
  <2>12. /\ ~MutexFree' /\ todo' = <<>> /\ issued' = issued /\ executed' = executed
         /\ sock_' = sock_
    BY <1>1, <1>4, <2>9
  <2>13. Of(Tail(out), issued) /\ issued # 0
    BY <1>3, <1>5, <2>9
  <2>14. Downwards(k)'
    <3>1. /\ agent'[k].at = "write" =>
               /\ Tail(out) # <<>> /\ agent'[k].req = issued /\ agent'[k].todo = Tail(out)
               /\ Unfinished(link'[k].down)
      BY <1>5, <2>3, <2>5, <2>9
    <3>2. Of(Tail(out), issued) /\ InOrder(Tail(out)) /\ issued # 0
      BY <1>5, <2>13
    <3>3. InOrder(link'[k].down) /\ executed'[issued] = 1
      BY <2>3, <2>9, <2>12
    <3> QED
      BY <2>7, <2>11, <2>12, <3>1, <3>2, <3>3
         DEF Downwards, Of, InOrder, Unfinished
  <2> QED
    BY <1>1, <2>2, <2>4, <2>5, <2>6, <2>7, <2>9, <2>10, <2>14, OneConnection
<1> QED
  BY <1>6, <1>7

(* A command is executed when it is the turn of its request. *)
LEMMA HandleKeeps ==
  ASSUME IInv, NEW k \in Connections, Handle(k)
  PROVE  IInv'
<1> DEFINE r == agent[k].req
<1>1. /\ agent[k].at = "run"
      /\ executed' = [executed EXCEPT ![r] = @ + 1]
      /\ agent' = [agent EXCEPT ![k].at = "write", ![k].todo = Answers(r)]
      /\ UNCHANGED <<sock_, opened, issued, on, req, got, failed, todo, begun, link>>
  BY DEF Handle
<1>2. /\ link[k] \in Links /\ agent[k] \in AgentThread
  BY LinkTyped DEF IInv
<1>3. r # 0 /\ Turn(k, r) /\ link[k].up = <<>> /\ link[k].server
  BY <1>1 DEF IInv, UnderWay, Upwards
<1>4. r \in Requests
  BY <1>2, <1>3 DEF AgentThread
<1>5. /\ on[r] = k /\ executed[r] = 0 /\ executed \in [Requests -> 0 .. 1]
  BY <1>3 DEF Turn, IInv, Shape, TypeOK
<1>6. /\ executed' \in [Requests -> 0 .. 1] /\ executed'[r] = 1
      /\ \A q \in Requests : q # r => executed'[q] = executed[q]
      /\ \A q \in Requests : executed[q] = 1 => executed'[q] = 1
  BY <1>1, <1>4, <1>5
<1>7. /\ Answers(r) \in Seq(Pieces) /\ Answers(r) # <<>> /\ Len(Answers(r)) <= 2
      /\ Of(Answers(r), r) /\ InOrder(Answers(r))
  <2>1. Answers(r) = Packet(r, LongAnswers)
    BY DEF Answers
  <2> QED
    BY <1>4, <2>1, PacketTyped
<1>8. /\ agent'[k].at = "write" /\ agent'[k].req = r /\ agent'[k].todo = Answers(r)
      /\ \A j \in Connections : j # k => agent'[j] = agent[j]
      /\ DOMAIN agent' = Connections
  BY <1>1, <1>2 DEF IInv, Shape, AgentThread
<1>9. agent' \in [Connections -> AgentThread]
  BY <1>1, <1>2, <1>7, <1>8 DEF IInv, Shape, AgentThread
<1>10. MutexFree' = MutexFree
  BY <1>1 DEF MutexFree
<1>11. \A j \in Connections : Len(agent'[j].todo) <= 2 /\ agent'[j] \in AgentThread
  BY <1>7, <1>8, <1>9 DEF IInv, Shape, TypeOK
<1>12. Shape'
  BY <1>1, <1>6, <1>9, <1>11 DEF IInv, Shape, TypeOK, AgentThread
<1>13. Numbered'
  BY <1>1, <1>3, <1>5, <1>6 DEF IInv, Numbered, Connections
<1>14. OneCall' /\ FailedIsDead' /\ Served'
  BY <1>1, <1>6, <1>10 DEF IInv, OneCall, FailedIsDead, Broken, Served
(* With the connection alive, the request executed is that of the call.    *)
<1>15. k = sock_ /\ k \notin failed => ~MutexFree /\ r = issued /\ todo = <<>>
  <2>1. SUFFICES ASSUME k = sock_, k \notin failed
                 PROVE  ~MutexFree /\ r = issued /\ todo = <<>>
    OBVIOUS
  <2>2. ~MutexFree /\ ~(r < issued)
    BY <1>4, <1>5, <2>1 DEF IInv, Served, Connections
  <2>3. r <= issued
    BY <1>3, <1>4, <1>5 DEF IInv, Numbered, Connections
  <2>4. todo = <<>>
    BY <1>1, <2>1 DEF IInv, Sending
  <2> QED
    BY <1>4, <2>2, <2>3, <2>4 DEF IInv, Shape, TypeOK, Requests
<1>16. link[k].down = <<>>
  <2> SUFFICES ASSUME link[k].down # <<>> PROVE FALSE
    OBVIOUS
  <2>1. k = sock_ /\ k \notin failed /\ executed[issued] = 1
    BY DEF IInv, UnderWay, Downwards, FailedIsDead
  <2> QED
    BY <1>5, <1>15, <2>1
<1>17. Sending'
  <2>1. todo # <<>> /\ sock_ \notin failed => sock_ # k /\ sock_ = on[issued] /\ issued \in Requests
    <3>1. ASSUME todo # <<>> PROVE \E c \in Callers : req[c] # 0
      BY <3>1 DEF IInv, Sending, MutexFree
    <3> QED
      BY <1>1, <3>1, CallInProgress DEF IInv, Sending
  <2>2. todo # <<>> /\ sock_ \notin failed => executed'[issued] = 0 /\ agent'[sock_] = agent[sock_]
    <3>1. todo # <<>> /\ sock_ \notin failed => sock_ \in Connections
      BY <2>1 DEF IInv, Shape, TypeOK, Numbered, Requests, Connections
    <3> QED
      BY <1>5, <1>6, <1>8, <2>1, <3>1 DEF IInv, Sending
  <2> QED
    BY <1>1, <1>10, <2>2 DEF IInv, Sending, Of, InOrder, Unfinished
<1>18. ASSUME NEW j \in Connections, j # k PROVE Upwards(j)'
  <2>1. ASSUME NEW q \in Requests, Turn(j, q) PROVE Turn(j, q)'
    BY <1>1, <1>5, <1>6, <1>18, <2>1 DEF Turn
  <2>2. /\ link'[j] = link[j] /\ agent'[j] = agent[j] /\ link[j].up \in Seq(Pieces)
        /\ agent[j] \in AgentThread
    BY <1>1, <1>8, <1>18, LinkTyped DEF IInv
  <2> QED
    BY <1>1, <2>1, <2>2, UpwardsMoves DEF IInv, UnderWay
<1>19. Upwards(k)'
  <2>1. Len(link'[k].up) = 0
    BY <1>1, <1>3, EmptyKeeps
  <2> QED
    BY <1>1, <1>3, <1>8, <2>1 DEF Upwards, InOrder
<1>20. ASSUME NEW j \in Connections, j # k PROVE Downwards(j)'
  <2>1. agent[j] \in AgentThread /\ agent'[j] = agent[j]
    BY <1>8, <1>20, LinkTyped DEF IInv
  <2>2. agent[j].req # 0 /\ executed[agent[j].req] = 1 => executed'[agent[j].req] = 1
    BY <1>6, <2>1 DEF AgentThread
  <2>3. link[j].down # <<>> => executed'[issued] = 1
    <3>1. ASSUME link[j].down # <<>> PROVE issued \in Requests /\ executed[issued] = 1
      <4>1. ~MutexFree /\ executed[issued] = 1
        BY <3>1 DEF IInv, UnderWay, Downwards
      <4> QED
        BY <4>1, CallInProgress DEF MutexFree
    <3> QED
      BY <1>6, <3>1
  <2>4. link'[j] = link[j] /\ Downwards(j)
    BY <1>1 DEF IInv, UnderWay
  <2>5. agent'[j].at = "write" =>
          /\ agent'[j].req # 0 /\ executed'[agent'[j].req] = 1
          /\ agent'[j].todo # <<>>
          /\ Of(agent'[j].todo, agent'[j].req) /\ InOrder(agent'[j].todo)
          /\ Unfinished(link'[j].down)
          /\ j = sock_ /\ j \notin failed =>
               ~MutexFree /\ todo = <<>> /\ agent'[j].req = issued
    BY <2>1, <2>2, <2>4 DEF Downwards
  <2>6. link'[j].down # <<>> =>
          /\ j = sock_ /\ ~MutexFree /\ todo = <<>> /\ executed'[issued] = 1
          /\ Of(link'[j].down, issued) /\ InOrder(link'[j].down)
    BY <2>3, <2>4 DEF Downwards
  <2> QED
    BY <1>1, <1>10, <2>5, <2>6 DEF Downwards, Of, InOrder, Unfinished
<1>21. Downwards(k)'
  <2>1. Unfinished(link'[k].down) /\ link'[k].down = <<>>
    BY <1>1, <1>16, EmptyKeeps
  <2> QED
    BY <1>1, <1>3, <1>6, <1>7, <1>8, <1>10, <1>15, <2>1 DEF Downwards, Of, InOrder, Unfinished
<1> QED
  BY <1>12, <1>13, <1>14, <1>17, <1>18, <1>19, <1>20, <1>21 DEF IInv, UnderWay

-----------------------------------------------------------------------------
(* Between two calls nothing is under way to the client, and on a          *)
(* connection that has not failed nothing at all.                          *)
LEMMA Idle ==
  ASSUME IInv, MutexFree
  PROVE  /\ todo = <<>> /\ begun = 0
         /\ \A j \in Connections : link[j].down = <<>>
         /\ sock_ # 0 /\ sock_ \notin failed =>
              /\ agent[sock_].at \notin {"run", "write"} /\ link[sock_].up = <<>>
              /\ \A q \in Requests : on[q] = sock_ => executed[q] = 1
<1>1. todo = <<>> /\ begun = 0 /\ \A j \in Connections : link[j].down = <<>>
  BY DEF IInv, Sending, UnderWay, Downwards
<1>2. ASSUME sock_ # 0, sock_ \notin failed
      PROVE  /\ agent[sock_].at \notin {"run", "write"} /\ link[sock_].up = <<>>
             /\ \A q \in Requests : on[q] = sock_ => executed[q] = 1
  <2>1. \A q \in Requests : on[q] = sock_ => executed[q] = 1
    BY <1>2 DEF IInv, Served
  <2>2. sock_ \in Connections
    BY <1>2 DEF IInv, Shape, TypeOK
  <2>3. \A q \in Requests : ~Turn(sock_, q)
    BY <2>1 DEF Turn
  <2>4. link[sock_].up \in Seq(Pieces) /\ agent[sock_] \in AgentThread
    BY <2>2, LinkTyped DEF IInv
  <2>5. agent[sock_].at # "write"
    BY <1>2, <2>2 DEF IInv, UnderWay, Downwards
  <2>6. agent[sock_].at # "run"
    BY <2>2, <2>3, <2>4 DEF IInv, UnderWay, Upwards, AgentThread
  <2>7. ASSUME link[sock_].up # <<>> PROVE FALSE
    <3>1. 1 \in 1 .. Len(link[sock_].up)
      BY <2>4, <2>7, EmptySeq
    <3>2. link[sock_].up[1].req \in Requests
      BY <2>4, <3>1, PieceOfRequest
    <3> QED
      BY <2>2, <2>3, <3>1, <3>2 DEF IInv, UnderWay, Upwards
  <2> QED
    BY <2>1, <2>5, <2>6, <2>7
<1> QED
  BY <1>1, <1>2

(* Closing the current socket between two calls. *)
LEMMA ClosedLinks ==
  ASSUME IInv, MutexFree, NEW links \in Closed(sock_, link)
  PROVE  /\ links \in [Connections -> Links]
         /\ \A j \in Connections :
              /\ links[j].down = <<>> /\ ~links[j].client
              /\ links[j].up = link[j].up
              /\ links[j].server = link[j].server /\ links[j].cut = link[j].cut
<1>1. \A j \in Connections : link[j].down = <<>> /\ (link[j].client => j = sock_)
  BY Idle DEF IInv, Numbered
<1>2. link \in [Connections -> Links]
  BY DEF IInv, Shape, TypeOK
<1>3. CASE sock_ = 0
  <2>1. links = link
    BY <1>3 DEF Closed
  <2>2. 0 \notin Connections
    BY DEF Connections
  <2> QED
    BY <1>1, <1>2, <1>3, <2>1, <2>2 DEF Links
<1>4. CASE sock_ # 0
  <2>1. sock_ \in Connections
    BY <1>4 DEF IInv, Shape, TypeOK
  <2>2. links = [link EXCEPT ![sock_].client = FALSE, ![sock_].down = <<>>,
                             ![sock_].up = link[sock_].up]
    BY <1>1, <1>4, <2>1 DEF Closed
  <2>3. link[sock_] \in Links
    BY <1>2, <2>1
  <2>4. /\ links[sock_].down = <<>> /\ ~links[sock_].client
        /\ links[sock_].up = link[sock_].up
        /\ links[sock_].server = link[sock_].server /\ links[sock_].cut = link[sock_].cut
        /\ links[sock_] \in Links
    BY <1>2, <2>1, <2>2, <2>3, EmptyKeeps DEF Links
  <2>5. \A j \in Connections : j # sock_ => links[j] = link[j]
    BY <1>2, <2>1, <2>2
  <2>6. links \in [Connections -> Links]
    BY <1>2, <2>2, <2>4, <2>5
  <2>7. \A j \in Connections : link[j].client \in BOOLEAN
    BY <1>2 DEF Links
  <2> QED
    BY <1>1, <2>4, <2>5, <2>6, <2>7
<1> QED
  BY <1>3, <1>4

LEMMA DisconnectKeeps ==
  ASSUME IInv, Disconnect
  PROVE  IInv'
<1>1. /\ MutexFree /\ sock_' = 0 /\ link' \in Closed(sock_, link)
      /\ UNCHANGED <<opened, issued, on, req, got, executed, failed, todo, begun, agent>>
  BY DEF Disconnect
<1>2. /\ link' \in [Connections -> Links]
      /\ \A j \in Connections :
           /\ link'[j].down = <<>> /\ ~link'[j].client /\ link'[j].up = link[j].up
           /\ link'[j].server = link[j].server /\ link'[j].cut = link[j].cut
  BY <1>1, ClosedLinks
<1>3. todo = <<>> /\ begun = 0 /\ MutexFree'
  BY <1>1, Idle DEF MutexFree
<1>4. Shape'
  BY <1>1, <1>2 DEF IInv, Shape, TypeOK
<1>5. Numbered'
  BY <1>1, <1>2 DEF IInv, Shape, TypeOK, Numbered, Connections
<1>6. OneCall' /\ Served' /\ Sending'
  BY <1>1, <1>3 DEF OneCall, Served, Sending, MutexFree
<1>7. FailedIsDead'
  BY <1>1, <1>2 DEF IInv, Shape, TypeOK, FailedIsDead, Broken
<1>8. ASSUME NEW j \in Connections PROVE Upwards(j)'
  BY <1>1, <1>2, <1>8, UpwardsFrame DEF IInv, UnderWay
<1>9. ASSUME NEW j \in Connections PROVE Downwards(j)'
  <2>1. j # 0 /\ Unfinished(link'[j].down)
    BY <1>2, EmptyKeeps DEF Connections
  <2> QED
    BY <1>1, <1>2, <2>1 DEF IInv, UnderWay, Downwards, Of, InOrder, Unfinished
<1> QED
  BY <1>4, <1>5, <1>6, <1>7, <1>8, <1>9 DEF IInv, UnderWay

(* A call begins on connection k: it is the turn of no request there but   *)
(* the new one.                                                            *)
LEMMA BeginKeeps ==
  ASSUME IInv, MutexFree, NEW c \in Callers, NEW k \in Connections, Begin(c, k),
         sock_' = k, opened' \in {0} \cup Connections, opened <= opened', k <= opened',
         UNCHANGED <<got, executed, failed>>,
         link' \in [Connections -> Links], agent' \in [Connections -> AgentThread],
         \A j \in Connections :
           /\ link'[j].down = <<>>
           /\ link'[j].client => j = k
           /\ Len(agent'[j].todo) <= 2
           /\ link'[j].up = <<>> \/ link'[j].up = link[j].up
           /\ agent'[j] = agent[j] \/ agent'[j].at = "header"
           /\ ~link'[j].server => agent'[j].at \in {"none", "gone"},
         \A j \in failed : Broken(j)',
         k \notin failed =>
           /\ agent'[k].at \notin {"run", "write"} /\ link'[k].up = <<>>
           /\ \A q \in Requests : on[q] = k => executed[q] = 1
  PROVE  IInv'
<1> DEFINE r == issued + 1
<1>1. /\ issued < MaxRequests /\ issued' = r /\ on' = [on EXCEPT ![r] = k]
      /\ req' = [req EXCEPT ![c] = r] /\ todo' = Packet(r, LongRequests) /\ begun' = 0
  BY DEF Begin
<1>2. /\ issued \in {0} \cup Requests /\ on \in [Requests -> {0} \cup Connections]
      /\ req \in [Callers -> {0} \cup Requests] /\ executed \in [Requests -> 0 .. 1]
      /\ sock_ \in {0} \cup Connections /\ opened \in {0} \cup Connections
  BY DEF IInv, Shape, TypeOK
<1>3. r \in Requests /\ r \in Nat \ {0} /\ issued \in Nat /\ k \in Nat \ {0}
  BY <1>1, <1>2, BoundsAssumption DEF Requests, Connections
<1>4. ~(r <= issued)
  BY <1>3
<1>5. on[r] = 0 /\ executed[r] = 0
  <2>1. on[r] = 0
    BY <1>3, <1>4 DEF IInv, Numbered
  <2> QED
    BY <1>2, <1>3, <2>1 DEF IInv, Numbered
<1>6. /\ on'[r] = k /\ \A q \in Requests : q # r => on'[q] = on[q]
      /\ on' \in [Requests -> {0} \cup Connections]
  BY <1>1, <1>2, <1>3
<1>7. /\ req' \in [Callers -> {0} \cup Requests] /\ req'[c] = r
      /\ \A d \in Callers : d # c => req'[d] = 0
  BY <1>1, <1>2, <1>3 DEF MutexFree
<1>8. ~MutexFree'
  BY <1>3, <1>7 DEF MutexFree
<1>9. /\ todo' \in Seq(Pieces) /\ Len(todo') <= 2 /\ todo' # <<>>
      /\ Of(todo', r) /\ InOrder(todo')
  BY <1>1, <1>3, PacketTyped
<1>10. Shape'
  BY <1>1, <1>2, <1>3, <1>6, <1>7, <1>9 DEF IInv, Shape, TypeOK, AgentThread
<1>11. Numbered'
  <2>1. ASSUME NEW q \in Requests
        PROVE  /\ on'[q] # 0 <=> q <= r
               /\ on'[q] <= opened' /\ (executed[q] = 1 => on'[q] # 0)
    <3>1. CASE q = r
      BY <1>3, <1>6, <3>1
    <3>2. CASE q # r
      <4>1. q \in Nat /\ on[q] \in Nat /\ opened \in Nat /\ opened' \in Nat
        BY <1>2 DEF Requests, Connections
      <4>2. on[q] <= opened /\ (on[q] # 0 <=> q <= issued) /\ (executed[q] = 1 => on[q] # 0)
        BY DEF IInv, Numbered
      <4> QED
        BY <1>3, <1>6, <3>2, <4>1, <4>2
    <3> QED
      BY <3>1, <3>2
  <2>2. \A j \in failed : j <= opened'
    BY <1>2 DEF IInv, Shape, TypeOK, Numbered, Connections
  <2> QED
    BY <1>1, <2>1, <2>2 DEF Numbered
<1>12. OneCall'
  BY <1>1, <1>3, <1>6, <1>7 DEF OneCall
<1>13. FailedIsDead'
  BY DEF FailedIsDead, IInv, Shape, TypeOK
<1>14. Served'
  <2> SUFFICES ASSUME k \notin failed, NEW q \in Requests, on'[q] = k, q < r
               PROVE  executed[q] = 1
    BY <1>1, <1>8 DEF Served
  <2>1. q # r
    BY <1>3
  <2> QED
    BY <1>6, <2>1
<1>15. Sending'
  BY <1>1, <1>5, <1>8, <1>9, EmptyKeeps DEF Sending, Of, InOrder, Unfinished
<1>16. ASSUME NEW j \in Connections, NEW q \in Requests, Turn(j, q) PROVE Turn(j, q)'
  <2>1. q # r /\ q <= issued
    BY <1>3, <1>5, <1>16 DEF Turn, IInv, Numbered, Connections
  <2>2. \A p \in Requests : p < q => p # r
    BY <1>3, <2>1 DEF Requests
  <2> QED
    BY <1>6, <1>16, <2>1, <2>2 DEF Turn
<1>17. ASSUME NEW j \in Connections PROVE Upwards(j)'
  <2>1. link[j].up \in Seq(Pieces) /\ agent[j] \in AgentThread /\ Upwards(j)
    BY <1>17, LinkTyped DEF IInv, UnderWay
  <2>2. ASSUME link'[j].up = link[j].up, NEW i \in 1 .. Len(link[j].up)
        PROVE  Turn(j, link[j].up[i].req)'
    <3>1. link[j].up[i].req \in Requests /\ Turn(j, link[j].up[i].req)
      BY <2>1, <2>2, PieceOfRequest DEF Upwards
    <3> QED
      BY <1>16, <2>2, <3>1 DEF Turn
  <2>3. ASSUME agent'[j].at \in {"payload", "run"}
        PROVE  /\ agent'[j] = agent[j] /\ agent[j].req # 0 /\ Turn(j, agent[j].req)'
               /\ agent[j].at = "run" => link'[j].up = <<>>
    <3>1. agent'[j] = agent[j]
      BY <2>3
    <3>2. /\ agent[j].req # 0 /\ Turn(j, agent[j].req)
          /\ agent[j].at = "run" => link[j].up = <<>>
      BY <2>1, <2>3, <3>1 DEF Upwards
    <3>3. agent[j].req \in Requests
      BY <2>1, <3>2 DEF AgentThread
    <3> QED
      BY <1>16, <3>1, <3>2, <3>3
  <2>4. ~link'[j].server => agent'[j].at \in {"none", "gone"}
    OBVIOUS
  <2>5. CASE link'[j].up = <<>>
    <3>1. Len(link'[j].up) = 0
      BY <2>5, EmptyKeeps
    <3> QED
      BY <2>3, <2>4, <2>5, <3>1 DEF Upwards, Turn, InOrder
  <2>6. CASE link'[j].up = link[j].up
    BY <2>1, <2>2, <2>3, <2>4, <2>6 DEF Upwards, Turn, InOrder
  <2> QED
    BY <2>5, <2>6
<1>18. ASSUME NEW j \in Connections PROVE Downwards(j)'
  <2>1. agent'[j].at = "write" => agent'[j] = agent[j] /\ Unfinished(link'[j].down)
    BY <1>18, EmptyKeeps
  <2>2. agent'[j].at = "write" => ~(j = k /\ j \notin failed)
    BY <1>18
  <2> QED
    BY <2>1, <2>2 DEF IInv, UnderWay, Downwards, Of, InOrder, Unfinished
<1> QED
  BY <1>10, <1>11, <1>12, <1>13, <1>14, <1>15, <1>17, <1>18 DEF IInv, UnderWay

LEMMA SendAndReceiveKeeps ==
  ASSUME IInv, NEW c \in Callers, SendAndReceive(c)
  PROVE  IInv'
<1>1. /\ MutexFree /\ sock_ # 0 /\ Begin(c, sock_)
      /\ UNCHANGED <<sock_, opened, got, executed, failed, link, agent>>
  BY DEF SendAndReceive
<1>2. /\ sock_ \in Connections /\ opened \in {0} \cup Connections /\ sock_ <= opened
      /\ link' \in [Connections -> Links] /\ agent' \in [Connections -> AgentThread]
  BY <1>1 DEF IInv, Shape, TypeOK, Numbered
<1>3. ASSUME NEW j \in Connections
      PROVE  /\ link'[j].down = <<>> /\ (link'[j].client => j = sock_)
             /\ Len(agent'[j].todo) <= 2
             /\ ~link'[j].server => agent'[j].at \in {"none", "gone"}
  BY <1>1, <1>3, Idle DEF IInv, Shape, TypeOK, Numbered, UnderWay, Upwards
<1>4. \A j \in failed : Broken(j)'
  BY <1>1 DEF IInv, FailedIsDead, Broken
<1>5. sock_ \notin failed =>
           /\ agent'[sock_].at \notin {"run", "write"} /\ link'[sock_].up = <<>>
           /\ \A q \in Requests : on[q] = sock_ => executed[q] = 1
  BY <1>1, Idle
<1>6. opened <= opened'
  BY <1>1, <1>2 DEF Connections
<1> QED
  BY <1>1, <1>2, <1>3, <1>4, <1>5, <1>6, BeginKeeps

LEMMA ConnectKeeps ==
  ASSUME IInv, NEW c \in Callers, Connect(c)
  PROVE  IInv'
<1> DEFINE k == opened + 1
<1>1. /\ MutexFree /\ opened < MaxConnections /\ opened' = k /\ sock_' = k
      /\ agent' = [agent EXCEPT ![k].at = "header"]
      /\ Begin(c, k)
      /\ UNCHANGED <<got, executed, failed>>
  BY DEF Connect
<1>2. PICK links \in Closed(sock_, link) : link' = [links EXCEPT ![k] = NewLink]
  BY <1>1 DEF Connect
<1>3. /\ opened \in {0} \cup Connections /\ failed \subseteq Connections
      /\ agent \in [Connections -> AgentThread]
      /\ \A j \in Connections : Len(agent[j].todo) <= 2
      /\ on \in [Requests -> {0} \cup Connections]
  BY DEF IInv, Shape, TypeOK
<1>4. k \in Connections /\ k \in Nat /\ opened \in Nat
  BY <1>1, <1>3, BoundsAssumption DEF Connections
<1>5. opened <= opened' /\ k <= opened' /\ ~(k <= opened)
  BY <1>1, <1>4
<1>6. k \notin failed /\ \A q \in Requests : on[q] # k
  BY <1>5 DEF IInv, Numbered
<1>7. /\ links \in [Connections -> Links]
      /\ \A j \in Connections :
           /\ links[j].down = <<>> /\ ~links[j].client /\ links[j].up = link[j].up
           /\ links[j].server = link[j].server /\ links[j].cut = link[j].cut
  BY <1>1, ClosedLinks
<1>8. /\ NewLink \in Links /\ NewLink.up = <<>> /\ NewLink.down = <<>> /\ NewLink.server
  BY EmptyKeeps DEF NewLink, NoLink, Links
<1>9. /\ link' \in [Connections -> Links] /\ link'[k] = NewLink
      /\ \A j \in Connections : j # k => link'[j] = links[j]
  BY <1>2, <1>4, <1>7, <1>8
<1>10. /\ agent' \in [Connections -> AgentThread] /\ agent'[k].at = "header"
       /\ agent'[k].todo = agent[k].todo
       /\ \A j \in Connections : j # k => agent'[j] = agent[j]
  <2>1. agent[k] \in AgentThread
    BY <1>3, <1>4
  <2> QED
    BY <1>1, <1>3, <1>4, <2>1 DEF AgentThread
<1>11. ASSUME NEW j \in Connections
       PROVE  /\ link'[j].down = <<>>
              /\ link'[j].client => j = k
              /\ Len(agent'[j].todo) <= 2
              /\ link'[j].up = <<>> \/ link'[j].up = link[j].up
              /\ agent'[j] = agent[j] \/ agent'[j].at = "header"
              /\ ~link'[j].server => agent'[j].at \in {"none", "gone"}
  <2>1. CASE j = k
    BY <1>3, <1>8, <1>9, <1>10, <2>1
  <2>2. CASE j # k
    BY <1>3, <1>7, <1>9, <1>10, <2>2 DEF IInv, UnderWay, Upwards
  <2> QED
    BY <2>1, <2>2
<1>12. \A j \in failed : Broken(j)'
  BY <1>3, <1>6, <1>7, <1>9 DEF IInv, FailedIsDead, Broken
<1>13. agent'[k].at \notin {"run", "write"} /\ link'[k].up = <<>>
  BY <1>8, <1>9, <1>10
<1> QED
  BY <1>1, <1>3, <1>4, <1>5, <1>6, <1>9, <1>10, <1>11, <1>12, <1>13, BeginKeeps

-----------------------------------------------------------------------------
LEMMA IInvInit == Init => IInv
<1> SUFFICES ASSUME Init PROVE IInv
  OBVIOUS
<1>1. NoLink \in Links /\ NoThread \in AgentThread
  BY EmptyKeeps DEF NoLink, Links, NoThread, AgentThread
<1>2. \A k \in Connections :
        /\ link[k] = NoLink /\ link[k].up = <<>> /\ link[k].down = <<>> /\ ~link[k].client
        /\ agent[k] = NoThread /\ agent[k].at = "none" /\ Len(agent[k].todo) = 0
        /\ agent[k].req = 0
  BY EmptyKeeps DEF Init, NoLink, NoThread
<1>3. Shape
  <2>1. link \in [Connections -> Links] /\ agent \in [Connections -> AgentThread]
    BY <1>1 DEF Init
  <2>2. todo \in Seq(Pieces) /\ Len(todo) <= 2
    BY EmptyKeeps DEF Init
  <2>3. \A k \in Connections : Len(agent[k].todo) <= 2
    BY <1>2
  <2> QED
    BY <1>2, <2>1, <2>2, <2>3 DEF Init, Shape, TypeOK
<1>4. Numbered
  BY <1>2 DEF Init, Numbered, Requests
<1>5. OneCall /\ FailedIsDead /\ Served /\ Sending
  BY DEF Init, OneCall, FailedIsDead, Served, Sending
<1>6. UnderWay
  BY <1>2, EmptyKeeps DEF UnderWay, Upwards, Downwards, InOrder
<1> QED
  BY <1>3, <1>4, <1>5, <1>6 DEF IInv

LEMMA IInvStep == IInv /\ [Next]_vars => IInv'
<1> SUFFICES ASSUME IInv, [Next]_vars PROVE IInv'
  OBVIOUS
<1>1. CASE Disconnect
  BY <1>1, DisconnectKeeps
<1>2. ASSUME NEW c \in Callers, SendAndReceive(c) \/ Connect(c) \/ Step(c)
      PROVE  IInv'
  BY <1>2, SendAndReceiveKeeps, ConnectKeeps, SendPieceKeeps, SendFailsKeeps,
     ReceivePieceKeeps, ReceiveFailsKeeps DEF Step
<1>3. ASSUME NEW k \in Connections, Thread(k) \/ Cut(k)
      PROVE  IInv'
  BY <1>3, ReadKeeps, HangupKeeps, HandleKeeps, WriteKeeps, CutKeeps DEF Thread
<1>4. CASE UNCHANGED vars
  BY <1>4 DEF vars, exchange, IInv, Shape, TypeOK, Numbered, OneCall, FailedIsDead,
     Served, Sending, UnderWay, Upwards, Downwards, Turn, Broken, MutexFree, InOrder,
     Unfinished, Of
<1> QED
  BY <1>1, <1>2, <1>3, <1>4 DEF Next

(* The invariant holds in every reachable state. *)
THEOREM TransportInvariance == Spec => []IInv
  BY IInvInit, IInvStep, PTL DEF Spec

(* Every variable has its type; no pipe holds more than Capacity pieces and *)
(* no request is executed twice.                                            *)
THEOREM TransportTypeCorrect == Spec => []TypeOK
<1>1. IInv => TypeOK
  BY DEF IInv, Shape
<1> QED
  BY TransportInvariance, <1>1, PTL

-----------------------------------------------------------------------------
(* Every step of the transport is a step of the exchange, or none of it.   *)
LEMMA PromiseStep == IInv /\ [Next]_vars => [Promise!Next]_Promise!vars
<1> SUFFICES ASSUME IInv, [Next]_vars PROVE [Promise!Next]_Promise!vars
  OBVIOUS
<1> USE DEF Promise!vars
<1>1. CASE Disconnect
  <2>1. Promise!Disconnect
    BY <1>1 DEF Disconnect, MutexFree, Promise!Disconnect, Promise!Quiet
  <2> QED
    BY <2>1 DEF Promise!Next
<1>2. ASSUME NEW c \in Callers, SendAndReceive(c)
      PROVE  [Promise!Next]_Promise!vars
  <2>1. Promise!Ask(c)
    BY <1>2 DEF SendAndReceive, Begin, MutexFree, Promise!Ask, Promise!Quiet, Promise!Issue
  <2> QED
    BY <2>1 DEF Promise!Next
<1>3. ASSUME NEW c \in Callers, Connect(c)
      PROVE  [Promise!Next]_Promise!vars
  <2>1. Promise!Connect(c)
    BY <1>3 DEF Connect, Begin, MutexFree, Promise!Connect, Promise!Quiet, Promise!Issue
  <2> QED
    BY <2>1 DEF Promise!Next
<1>4. ASSUME NEW c \in Callers, req[c] # 0, Return(c, 0)
      PROVE  [Promise!Next]_Promise!vars
  <2>1. Promise!Fail(c)
    BY <1>4 DEF Return, Promise!Fail
  <2> QED
    BY <2>1 DEF Promise!Next
<1>5. ASSUME NEW c \in Callers, ReceivePiece(c)
      PROVE  [Promise!Next]_Promise!vars
  <2> DEFINE piece == Head(link[sock_].down)
  <2>1. /\ req[c] # 0 /\ req[c] = issued /\ on[req[c]] = sock_ /\ sock_ \notin failed
        /\ issued \in Requests /\ executed[issued] = 1
        /\ piece.req = issued /\ begun \in {0, issued}
    BY <1>5, Received
  <2>2. CASE piece.more
    BY <1>5, <2>1, <2>2 DEF ReceivePiece, exchange
  <2>3. CASE ~piece.more
    <3>1. Return(c, issued)
      BY <1>5, <2>1, <2>3 DEF ReceivePiece
    <3>2. Promise!Succeed(c)
      BY <2>1, <3>1 DEF Return, Promise!Succeed
    <3> QED
      BY <3>2 DEF Promise!Next
  <2> QED
    BY <2>2, <2>3
<1>6. ASSUME NEW k \in Connections, Handle(k)
      PROVE  [Promise!Next]_Promise!vars
  <2> DEFINE r == agent[k].req
  <2>1. r \in Requests /\ Turn(k, r) /\ k # 0
    <3>1. agent[k] \in AgentThread /\ r # 0 /\ Turn(k, r)
      BY <1>6, LinkTyped DEF Handle, IInv, UnderWay, Upwards
    <3> QED
      BY <3>1 DEF AgentThread, Connections
  <2>2. Promise!Execute(r)
    BY <1>6, <2>1 DEF Handle, Turn, Promise!Execute, Promise!Requests, Requests
  <2>3. r \in Promise!Requests
    BY <2>1 DEF Promise!Requests, Requests
  <2> QED
    BY <2>2, <2>3 DEF Promise!Next
<1>7. ASSUME NEW c \in Callers, SendPiece(c)
      PROVE  UNCHANGED Promise!vars
  BY <1>7 DEF SendPiece, exchange
<1>8. ASSUME NEW k \in Connections, Read(k) \/ Hangup(k) \/ Write(k) \/ Cut(k)
      PROVE  UNCHANGED Promise!vars
  BY <1>8 DEF Read, Hangup, Write, Cut, exchange
<1>9. CASE UNCHANGED vars
  BY <1>9 DEF vars, exchange
<1> QED
  BY <1>1, <1>2, <1>3, <1>4, <1>5, <1>6, <1>7, <1>8, <1>9
     DEF Next, Step, Thread, SendFails, ReceiveFails

(* The transport keeps its promise: one call at a time, no request executed *)
(* twice or out of order, every answer the answer to the call it ends, and  *)
(* nothing served by a connection on which a call failed.                   *)
THEOREM PromiseKept == Spec => Promised
<1>1. Init => Promise!Init
  BY DEF Init, Promise!Init, Requests, Promise!Requests
<1> QED
  BY <1>1, PromiseStep, TransportInvariance, PTL DEF Spec, Promised, Promise!Spec

-----------------------------------------------------------------------------
(* Nobody waits for nobody.  A call in progress always has its caller or    *)
(* the agent's thread of its connection able to go on: the two never wait   *)
(* for each other over full or empty pipes.  The guards of the actions say  *)
(* who can.                                                                 *)
CallerCan(c) ==
  LET k == on[req[c]] IN
  \/ Broken(k)                             \* SendFails, ReceiveFails, ReceivePiece
  \/ todo # <<>> /\ Room(link[k].up)       \* SendPiece
  \/ todo = <<>> /\ link[k].down # <<>>    \* ReceivePiece

ThreadCan(k) ==
  \/ agent[k].at \in {"header", "payload"} /\ link[k].up # <<>>               \* Read
  \/ agent[k].at = "run"                                                      \* Handle
  \/ agent[k].at = "write" /\ agent[k].todo # <<>> /\ Room(link[k].down)      \* Write

SomebodyGoesOn == \A c \in Callers : req[c] # 0 => CallerCan(c) \/ ThreadCan(on[req[c]])

(* The last piece of a packet says that there are no more. *)
Ends(s) == s # <<>> /\ ~s[Len(s)].more

(* Where the end of the call in progress is: still with the caller, on its  *)
(* way to the agent, in the handler, in the answer to be written, or on its *)
(* way back.                                                                *)
AgentServes == \A k \in Connections : agent[k].at \in {"none", "gone"} => Broken(k)
EndUnderWay ==
  /\ todo # <<>> => Ends(todo)
  /\ ~MutexFree /\ todo = <<>> /\ ~Broken(sock_) =>
       \/ Ends(link[sock_].up) \/ agent[sock_].at = "run"
       \/ agent[sock_].at = "write" /\ Ends(agent[sock_].todo)
       \/ Ends(link[sock_].down)
OpenHere == sock_ # 0 => link[sock_].client

Progress == AgentServes /\ EndUnderWay /\ OpenHere

-----------------------------------------------------------------------------
LEMMA TailEnds ==
  ASSUME NEW s \in Seq(Pieces), Ends(s)
  PROVE  /\ Tail(s) # <<>> => Ends(Tail(s))
         /\ Tail(s) = <<>> => ~Head(s).more
<1>1. s # <<>> /\ ~s[Len(s)].more
  BY DEF Ends
<1>2. /\ Head(s) = s[1] /\ Len(s) \in Nat \ {0}
      /\ Tail(s) \in Seq(Pieces) /\ Len(Tail(s)) = Len(s) - 1
      /\ \A i \in 1 .. Len(Tail(s)) : Tail(s)[i] = s[i + 1]
  BY <1>1, TailKeeps
<1>3. CASE Tail(s) = <<>>
  <2>1. Len(s) = 1
    BY <1>2, <1>3, EmptySeq
  <2> QED BY <1>1, <1>2, <1>3, <2>1
<1>4. CASE Tail(s) # <<>>
  <2>1. Len(Tail(s)) \in Nat /\ Len(Tail(s)) # 0
    BY <1>2, <1>4, EmptySeq
  <2>2. Tail(s)[Len(Tail(s))] = s[Len(s)]
    BY <1>2, <2>1
  <2> QED BY <1>1, <1>4, <2>2 DEF Ends
<1> QED BY <1>3, <1>4

LEMMA AppendEnds ==
  ASSUME NEW s \in Seq(Pieces), NEW p \in Pieces, ~p.more
  PROVE  Ends(Append(s, p))
<1>1. /\ Append(s, p) # <<>> /\ Len(Append(s, p)) = Len(s) + 1
      /\ Append(s, p)[Len(s) + 1] = p
  BY AppendProperties
<1> QED BY <1>1 DEF Ends

LEMMA UnfinishedNotEnds ==
  ASSUME NEW s \in Seq(Pieces), Unfinished(s)
  PROVE  ~Ends(s)
<1>1. s # <<>> => Len(s) \in 1 .. Len(s)
  BY EmptySeq, LenProperties
<1> QED BY <1>1 DEF Unfinished, Ends

LEMMA PacketEnds ==
  ASSUME NEW r \in Requests, NEW long
  PROVE  Ends(Packet(r, long))
<1>1. PICK a \in Pieces, b \in Pieces, c \in Pieces :
        /\ a = Piece(r, "header", TRUE) /\ b = Piece(r, "payload", FALSE)
        /\ c = Piece(r, "header", FALSE)
  BY DEF Piece, Pieces
<1>2. ~b.more /\ ~c.more
  BY <1>1 DEF Piece
<1>3. Ends(<<a, b>>) /\ Ends(<<c>>)
  BY <1>2, ShortSequences DEF Ends
<1>4. Packet(r, long) = <<a, b>> \/ Packet(r, long) = <<c>>
  BY <1>1 DEF Packet
<1> QED BY <1>3, <1>4

LEMMA ProgressInit == Init => Progress
<1> SUFFICES ASSUME Init PROVE Progress
  OBVIOUS
<1>1. AgentServes
  BY DEF Init, AgentServes, Broken, NoLink
<1>2. EndUnderWay /\ OpenHere
  BY DEF Init, EndUnderWay, OpenHere, MutexFree
<1> QED BY <1>1, <1>2 DEF Progress

(* What a call that ended leaves. *)
LEMMA ReturnProgress ==
  ASSUME IInv, Progress, NEW c \in Callers, NEW answer, req[c] # 0, Return(c, answer),
         UNCHANGED agent,
         \A k \in Connections : /\ link'[k].server = link[k].server
                                /\ link'[k].cut = link[k].cut
                                /\ link'[k].client = link[k].client
  PROVE  Progress'
<1>1. /\ sock_ \in Connections /\ \A d \in Callers : req[d] # 0 <=> d = c
  BY CallInProgress
<1>2. UNCHANGED sock_ /\ todo' = <<>> /\ req' = [req EXCEPT ![c] = 0]
  BY DEF Return
<1>3. MutexFree'
  BY <1>1, <1>2 DEF MutexFree, IInv, Shape, TypeOK
<1>4. EndUnderWay'
  BY <1>2, <1>3 DEF EndUnderWay
<1>5. AgentServes' /\ OpenHere'
  BY <1>1, <1>2 DEF Progress, AgentServes, OpenHere, Broken
<1> QED BY <1>4, <1>5 DEF Progress

LEMMA SendPieceProgress ==
  ASSUME IInv, Progress, NEW c \in Callers, SendPiece(c)
  PROVE  Progress'
<1> DEFINE k == sock_
<1>1. /\ req[c] # 0 /\ todo # <<>> /\ todo' = Tail(todo)
      /\ UNCHANGED <<sock_, req, agent>>
  BY DEF SendPiece, exchange
<1>2. on[req[c]] = k /\ k \in Connections /\ link[k] \in Links /\ link[k].up \in Seq(Pieces)
  BY <1>1, CallInProgress, LinkTyped DEF IInv
<1>3. todo \in Seq(Pieces) /\ Ends(todo) /\ Head(todo) \in Pieces
  BY <1>1, TailKeeps DEF IInv, Shape, Progress, EndUnderWay
<1>4. (todo' # <<>> => Ends(todo')) /\ (todo' = <<>> => ~Head(todo).more)
  BY <1>1, <1>3, TailEnds
<1>5. CASE Broken(k) /\ UNCHANGED link
  BY <1>1, <1>4, <1>5 DEF Progress, AgentServes, EndUnderWay, OpenHere, Broken, MutexFree
<1>6. CASE link' = [link EXCEPT ![k].up = Append(@, Head(todo))]
  <2>1. /\ link'[k].up = Append(link[k].up, Head(todo))
        /\ \A j \in Connections : /\ link'[j].server = link[j].server
                                  /\ link'[j].cut = link[j].cut
                                  /\ link'[j].client = link[j].client
    BY <1>2, <1>6 DEF IInv, Shape, TypeOK, Links
  <2>2. todo' = <<>> => Ends(link'[k].up)
    BY <1>2, <1>3, <1>4, <2>1, AppendEnds
  <2>3. AgentServes' /\ OpenHere'
    BY <1>1, <1>2, <2>1 DEF Progress, AgentServes, OpenHere, Broken
  <2>4. EndUnderWay'
    BY <1>1, <1>4, <2>2 DEF EndUnderWay
  <2> QED BY <2>3, <2>4 DEF Progress
<1> QED BY <1>2, <1>5, <1>6 DEF SendPiece

LEMMA ReceivePieceProgress ==
  ASSUME IInv, Progress, NEW c \in Callers, ReceivePiece(c)
  PROVE  Progress'
<1> DEFINE k == sock_
           pipe == link[k].down
<1>1. /\ req[c] # 0 /\ on[req[c]] = k /\ k \in Connections
      /\ todo = <<>> /\ pipe # <<>>
      /\ link' = [link EXCEPT ![k].down = Tail(@)]
  BY Received
<1>2. link[k] \in Links /\ pipe \in Seq(Pieces)
  BY <1>1, LinkTyped DEF IInv
<1>3. /\ link'[k].up = link[k].up /\ link'[k].down = Tail(pipe)
      /\ \A j \in Connections : /\ link'[j].server = link[j].server
                                /\ link'[j].cut = link[j].cut
                                /\ link'[j].client = link[j].client
  BY <1>1, <1>2 DEF IInv, Shape, TypeOK, Links
<1>4. UNCHANGED agent
  BY DEF ReceivePiece
<1>5. CASE Head(pipe).more
  <2>1. UNCHANGED <<sock_, req, todo>>
    BY <1>1, <1>5 DEF ReceivePiece, exchange
  <2>2. Ends(pipe) => Ends(Tail(pipe))
    BY <1>2, <1>5, TailEnds
  <2>3. AgentServes' /\ OpenHere'
    BY <1>1, <1>3, <1>4, <2>1 DEF Progress, AgentServes, OpenHere, Broken
  <2>4. EndUnderWay'
    BY <1>1, <1>3, <1>4, <2>1, <2>2 DEF Progress, EndUnderWay, MutexFree, Broken
  <2> QED BY <2>3, <2>4 DEF Progress
<1>6. CASE ~Head(pipe).more
  <2>1. PICK answer : Return(c, answer)
    BY <1>1, <1>6 DEF ReceivePiece
  <2> QED BY <1>1, <1>3, <1>4, <2>1, ReturnProgress
<1> QED BY <1>5, <1>6

LEMMA FailProgress ==
  ASSUME IInv, Progress, NEW c \in Callers, SendFails(c) \/ ReceiveFails(c)
  PROVE  Progress'
<1>1. req[c] # 0 /\ Return(c, 0) /\ UNCHANGED <<link, agent>>
  BY DEF SendFails, ReceiveFails
<1> QED BY <1>1, ReturnProgress

LEMMA ReadProgress ==
  ASSUME IInv, Progress, NEW k \in Connections, Read(k)
  PROVE  Progress'
<1> DEFINE pipe == link[k].up
<1>1. /\ agent[k].at \in {"header", "payload"} /\ pipe # <<>>
      /\ link' = [link EXCEPT ![k].up = Tail(@)]
      /\ agent' = [agent EXCEPT ![k].at = AfterPiece(Head(pipe)), ![k].req = Head(pipe).req]
      /\ UNCHANGED <<sock_, req, todo>>
  BY DEF Read, exchange
<1>2. link[k] \in Links /\ pipe \in Seq(Pieces) /\ agent[k] \in AgentThread
  BY LinkTyped DEF IInv
<1>3. /\ link'[k].up = Tail(pipe) /\ link'[k].down = link[k].down
      /\ \A j \in Connections : /\ link'[j].server = link[j].server
                                /\ link'[j].cut = link[j].cut
                                /\ link'[j].client = link[j].client
      /\ \A j \in Connections : j # k => link'[j] = link[j]
  BY <1>1, <1>2 DEF IInv, Shape, TypeOK, Links
<1>4. /\ agent'[k].at = AfterPiece(Head(pipe)) /\ agent'[k].todo = agent[k].todo
      /\ \A j \in Connections : j # k => agent'[j] = agent[j]
  BY <1>1, <1>2 DEF IInv, Shape, AgentThread
<1>5. agent'[k].at \in {"payload", "run"}
  BY <1>4 DEF AfterPiece
<1>6. AgentServes' /\ OpenHere'
  BY <1>1, <1>3, <1>4, <1>5 DEF Progress, AgentServes, OpenHere, Broken, IInv, Shape, TypeOK
<1>7. Ends(pipe) => Ends(Tail(pipe)) \/ agent'[k].at = "run"
  BY <1>2, <1>4, TailEnds DEF AfterPiece
<1>8. EndUnderWay'
  <2> SUFFICES ASSUME ~MutexFree', todo' = <<>>, ~Broken(sock_)'
               PROVE  \/ Ends(link'[sock_].up) \/ agent'[sock_].at = "run"
                      \/ agent'[sock_].at = "write" /\ Ends(agent'[sock_].todo)
                      \/ Ends(link'[sock_].down)
    BY <1>1 DEF Progress, EndUnderWay
  <2>1. sock_ \in Connections
    BY <1>1, CallInProgress DEF MutexFree
  <2>2. /\ \/ Ends(link[sock_].up) \/ agent[sock_].at = "run"
           \/ agent[sock_].at = "write" /\ Ends(agent[sock_].todo)
           \/ Ends(link[sock_].down)
    BY <1>1, <1>3, <2>1 DEF Progress, EndUnderWay, MutexFree, Broken
  <2>3. CASE sock_ = k
    BY <1>1, <1>3, <1>7, <2>2, <2>3
  <2>4. CASE sock_ # k
    BY <1>3, <1>4, <2>1, <2>2, <2>4
  <2> QED BY <2>3, <2>4
<1> QED BY <1>6, <1>8 DEF Progress

LEMMA HandleProgress ==
  ASSUME IInv, Progress, NEW k \in Connections, Handle(k)
  PROVE  Progress'
<1>1. /\ agent[k].at = "run"
      /\ agent' = [agent EXCEPT ![k].at = "write", ![k].todo = Answers(agent[k].req)]
      /\ UNCHANGED <<sock_, req, todo, link>>
  BY DEF Handle
<1>2. agent[k] \in AgentThread /\ agent[k].req # 0
  BY <1>1, LinkTyped DEF IInv, UnderWay, Upwards
<1>3. agent[k].req \in Requests
  BY <1>2 DEF AgentThread
<1>4. /\ agent'[k].at = "write" /\ agent'[k].todo = Answers(agent[k].req)
      /\ \A j \in Connections : j # k => agent'[j] = agent[j]
  BY <1>1, <1>2 DEF IInv, Shape, AgentThread
<1>5. Ends(agent'[k].todo)
  BY <1>3, <1>4, PacketEnds DEF Answers
<1>6. AgentServes' /\ OpenHere'
  BY <1>1, <1>4 DEF Progress, AgentServes, OpenHere, Broken
<1>7. sock_ \in Connections \/ MutexFree
  BY CallInProgress DEF MutexFree
<1>8. EndUnderWay'
  BY <1>1, <1>4, <1>5, <1>7 DEF Progress, EndUnderWay, MutexFree, Broken
<1> QED BY <1>6, <1>8 DEF Progress

LEMMA WriteProgress ==
  ASSUME IInv, Progress, NEW k \in Connections, Write(k)
  PROVE  Progress'
<1> DEFINE lost == ClientGone(k)
           rest == IF lost THEN <<>> ELSE Tail(agent[k].todo)
           piece == Head(agent[k].todo)
<1>1. /\ agent[k].at = "write" /\ (lost \/ (agent[k].todo # <<>> /\ Room(link[k].down)))
      /\ link' = IF lost THEN link ELSE [link EXCEPT ![k].down = Append(@, piece)]
      /\ agent' = [agent EXCEPT ![k].todo = rest,
                                ![k].at = IF rest = <<>> THEN "header" ELSE @,
                                ![k].req = IF rest = <<>> THEN 0 ELSE @]
      /\ UNCHANGED <<sock_, req, todo>>
  BY DEF Write, exchange
<1>2. /\ link[k] \in Links /\ link[k].down \in Seq(Pieces)
      /\ agent[k] \in AgentThread /\ agent[k].todo \in Seq(Pieces)
  BY LinkTyped DEF IInv, AgentThread
<1>3. /\ agent'[k].todo = rest /\ agent'[k].at = (IF rest = <<>> THEN "header" ELSE "write")
      /\ \A j \in Connections : j # k => agent'[j] = agent[j]
  BY <1>1, <1>2 DEF IInv, Shape, AgentThread
<1>4. /\ \A j \in Connections : /\ link'[j].server = link[j].server
                                /\ link'[j].cut = link[j].cut
                                /\ link'[j].client = link[j].client
                                /\ link'[j].up = link[j].up
      /\ \A j \in Connections : j # k => link'[j] = link[j]
      /\ ~lost => link'[k].down = Append(link[k].down, piece)
  BY <1>1, <1>2 DEF IInv, Shape, TypeOK, Links
<1>5. AgentServes' /\ OpenHere'
  <2>1. \A j \in Connections : agent'[j].at \in {"none", "gone"} => agent'[j].at = agent[j].at
    BY <1>3
  <2>2. \A j \in Connections : Broken(j)' <=> Broken(j)
    BY <1>4 DEF Broken
  <2>3. AgentServes'
    BY <2>1, <2>2 DEF Progress, AgentServes
  <2>4. sock_ \in {0} \cup Connections
    BY DEF IInv, Shape, TypeOK
  <2>5. OpenHere'
    BY <1>1, <1>4, <2>4 DEF Progress, OpenHere
  <2> QED BY <2>3, <2>5
<1>6. EndUnderWay'
  <2> SUFFICES ASSUME ~MutexFree', todo' = <<>>, ~Broken(sock_)'
               PROVE  \/ Ends(link'[sock_].up) \/ agent'[sock_].at = "run"
                      \/ agent'[sock_].at = "write" /\ Ends(agent'[sock_].todo)
                      \/ Ends(link'[sock_].down)
    BY <1>1 DEF Progress, EndUnderWay
  <2>1. sock_ \in Connections /\ sock_ # 0
    BY <1>1, CallInProgress DEF MutexFree
  <2>2. ~Broken(sock_) /\ link[sock_].client
    <3>1. sock_' = sock_
      BY <1>1
    <3>2. link'[sock_].server = link[sock_].server /\ link'[sock_].cut = link[sock_].cut
      BY <1>4, <2>1
    <3>3. ~Broken(sock_)
      BY <3>1, <3>2 DEF Broken
    <3> QED BY <2>1, <3>3 DEF Progress, OpenHere
  <2>3. /\ \/ Ends(link[sock_].up) \/ agent[sock_].at = "run"
           \/ agent[sock_].at = "write" /\ Ends(agent[sock_].todo)
           \/ Ends(link[sock_].down)
    BY <1>1, <2>2 DEF Progress, EndUnderWay, MutexFree
  <2>4. CASE sock_ = k
    <3>1. ~lost
      BY <2>2, <2>4 DEF ClientGone, Broken
    <3>2. ~Ends(link[k].down)
      BY <1>1, <1>2, UnfinishedNotEnds DEF IInv, UnderWay, Downwards
    <3>3. CASE Ends(link[k].up)
      BY <1>4, <2>4, <3>3
    <3>4. CASE Ends(agent[k].todo)
      <4>1. piece \in Pieces
        BY <1>2, <3>4, TailKeeps DEF Ends
      <4>2. rest # <<>> => Ends(rest)
        BY <1>2, <3>1, <3>4, TailEnds
      <4>3. rest = <<>> => Ends(link'[k].down)
        BY <1>2, <1>4, <3>1, <3>4, <4>1, TailEnds, AppendEnds
      <4> QED BY <1>3, <2>4, <4>2, <4>3
    <3> QED BY <1>1, <2>3, <2>4, <3>2, <3>3, <3>4
  <2>5. CASE sock_ # k
    BY <1>3, <1>4, <2>1, <2>3, <2>5
  <2> QED BY <2>4, <2>5
<1> QED BY <1>5, <1>6 DEF Progress

(* A connection that one side ends, or that is cut, is broken. *)
LEMMA BrokenProgress ==
  ASSUME IInv, Progress, NEW k \in Connections, Hangup(k) \/ Cut(k)
  PROVE  Progress'
<1>1. UNCHANGED <<sock_, req, todo>>
  BY DEF Hangup, Cut, exchange
<1>2. link[k] \in Links
  BY LinkTyped DEF IInv
<1>3. /\ \A j \in Connections : j # k => link'[j] = link[j] /\ agent'[j] = agent[j]
      /\ link'[k].client = link[k].client
      /\ ~link'[k].server \/ link'[k].cut
  <2>1. CASE Hangup(k)
    BY <1>2, <2>1 DEF Hangup, IInv, Shape, TypeOK, Links
  <2>2. CASE Cut(k)
    <3>1. PICK up, down :
            link' = [link EXCEPT ![k].cut = TRUE, ![k].up = up, ![k].down = down]
      BY <2>2 DEF Cut
    <3>2. /\ \A j \in Connections : j # k => link'[j] = link[j]
          /\ link'[k].client = link[k].client /\ link'[k].cut
      BY <1>2, <3>1 DEF IInv, Shape, TypeOK, Links
    <3>3. UNCHANGED agent
      BY <2>2 DEF Cut
    <3> QED BY <3>2, <3>3
  <2> QED BY <2>1, <2>2
<1>4. Broken(k)'
  BY <1>3 DEF Broken
<1>5. AgentServes' /\ OpenHere'
  BY <1>1, <1>3, <1>4 DEF Progress, AgentServes, OpenHere, Broken, IInv, Shape, TypeOK
<1>6. MutexFree \/ sock_ \in Connections
  BY CallInProgress DEF MutexFree
<1>7. EndUnderWay'
  <2>1. CASE sock_ = k
    BY <1>1, <1>4, <2>1 DEF Progress, EndUnderWay, MutexFree
  <2>2. CASE sock_ # k
    BY <1>1, <1>3, <1>6, <2>2 DEF Progress, EndUnderWay, MutexFree, Broken
  <2> QED BY <2>1, <2>2
<1> QED BY <1>5, <1>7 DEF Progress

LEMMA DisconnectProgress ==
  ASSUME IInv, Progress, Disconnect
  PROVE  Progress'
<1>1. /\ MutexFree /\ sock_' = 0 /\ link' \in Closed(sock_, link)
      /\ UNCHANGED <<req, todo, agent>>
  BY DEF Disconnect
<1>2. \A j \in Connections : link'[j].server = link[j].server /\ link'[j].cut = link[j].cut
  BY <1>1, ClosedLinks
<1>3. MutexFree'
  BY <1>1 DEF MutexFree
<1>4. AgentServes' /\ OpenHere'
  BY <1>1, <1>2 DEF Progress, AgentServes, OpenHere, Broken
<1>5. EndUnderWay'
  BY <1>1, <1>3 DEF Progress, EndUnderWay
<1> QED BY <1>4, <1>5 DEF Progress

(* The request of a call that begins is still with its caller. *)
LEMMA BegunProgress ==
  ASSUME IInv, NEW c \in Callers, NEW k, Begin(c, k)
  PROVE  EndUnderWay'
<1>1. issued' = issued + 1 /\ issued < MaxRequests /\ todo' = Packet(issued', LongRequests)
  BY DEF Begin
<1>2. issued \in Nat /\ issued' \in Requests
  BY <1>1, BoundsAssumption DEF IInv, Shape, TypeOK, Requests
<1>3. Ends(todo') /\ todo' # <<>>
  BY <1>1, <1>2, PacketEnds DEF Ends
<1> QED BY <1>3 DEF EndUnderWay

LEMMA SendAndReceiveProgress ==
  ASSUME IInv, Progress, NEW c \in Callers, SendAndReceive(c)
  PROVE  Progress'
<1>1. Begin(c, sock_) /\ UNCHANGED <<sock_, link, agent>>
  BY DEF SendAndReceive
<1>2. AgentServes' /\ OpenHere'
  BY <1>1 DEF Progress, AgentServes, OpenHere, Broken
<1> QED BY <1>1, <1>2, BegunProgress DEF Progress

LEMMA ConnectProgress ==
  ASSUME IInv, Progress, NEW c \in Callers, Connect(c)
  PROVE  Progress'
<1>1. /\ MutexFree /\ opened < MaxConnections /\ opened' = opened + 1 /\ sock_' = opened'
      /\ agent' = [agent EXCEPT ![opened'].at = "header"]
      /\ Begin(c, opened')
  BY DEF Connect
<1>2. PICK links \in Closed(sock_, link) : link' = [links EXCEPT ![opened'] = NewLink]
  BY DEF Connect
<1>3. /\ links \in [Connections -> Links]
      /\ \A j \in Connections : links[j].server = link[j].server /\ links[j].cut = link[j].cut
  BY <1>1, ClosedLinks
<1>4. opened' \in Connections
  BY <1>1, BoundsAssumption DEF IInv, Shape, TypeOK, Connections
<1>5. /\ link'[opened'] = NewLink
      /\ \A j \in Connections : j # opened' => link'[j] = links[j] /\ agent'[j] = agent[j]
      /\ agent'[opened'].at = "header"
  BY <1>1, <1>2, <1>3, <1>4 DEF IInv, Shape, AgentThread
<1>6. OpenHere'
  BY <1>1, <1>5 DEF OpenHere, NewLink, NoLink
<1>7. AgentServes'
  BY <1>3, <1>5 DEF Progress, AgentServes, Broken
<1> QED BY <1>1, <1>6, <1>7, BegunProgress DEF Progress

LEMMA ProgressStep == IInv /\ Progress /\ [Next]_vars => Progress'
<1> SUFFICES ASSUME IInv, Progress, [Next]_vars PROVE Progress'
  OBVIOUS
<1>1. CASE Disconnect
  BY <1>1, DisconnectProgress
<1>2. ASSUME NEW c \in Callers, SendAndReceive(c) \/ Connect(c) \/ Step(c)
      PROVE  Progress'
  BY <1>2, SendAndReceiveProgress, ConnectProgress, SendPieceProgress, FailProgress,
     ReceivePieceProgress DEF Step
<1>3. ASSUME NEW k \in Connections, Thread(k) \/ Cut(k)
      PROVE  Progress'
  BY <1>3, ReadProgress, HandleProgress, WriteProgress, BrokenProgress DEF Thread
<1>4. CASE UNCHANGED vars
  BY <1>4 DEF vars, exchange, Progress, AgentServes, EndUnderWay, OpenHere, Broken,
     MutexFree, Ends
<1> QED
  BY <1>1, <1>2, <1>3, <1>4 DEF Next

LEMMA CanGoOn ==
  ASSUME IInv, Progress, NEW c \in Callers, req[c] # 0
  PROVE  CallerCan(c) \/ ThreadCan(on[req[c]])
<1> DEFINE k == sock_
<1>1. on[req[c]] = k /\ k \in Connections /\ ~MutexFree
  BY CallInProgress
<1>2. /\ link[k].up \in Seq(Pieces) /\ link[k].down \in Seq(Pieces)
      /\ agent[k] \in AgentThread
  BY <1>1, LinkTyped DEF IInv
<1>3. \A s \in Seq(Pieces) : s # <<>> \/ Room(s)
  BY EmptySeq, BoundsAssumption DEF Room
<1> SUFFICES ASSUME ~Broken(k) PROVE CallerCan(c) \/ ThreadCan(k)
  BY <1>1 DEF CallerCan
<1>4. agent[k].at \in {"header", "payload", "run", "write"}
  BY <1>1, <1>2 DEF Progress, AgentServes, AgentThread
<1>5. k \notin failed
  BY DEF IInv, FailedIsDead
<1>6. link[k].up # <<>> /\ agent[k].at \in {"header", "payload", "run"} => ThreadCan(k)
  BY DEF ThreadCan
<1>7. CASE todo # <<>>
  <2>1. agent[k].at \notin {"run", "write"}
    BY <1>5, <1>7 DEF IInv, Sending
  <2> QED BY <1>1, <1>2, <1>3, <1>4, <1>6, <1>7, <2>1 DEF CallerCan
<1>8. CASE todo = <<>>
  <2>1. agent[k].at = "write" => agent[k].todo # <<>>
    BY <1>1 DEF IInv, UnderWay, Downwards
  <2>2. agent[k].at = "write" => ThreadCan(k) \/ link[k].down # <<>>
    BY <1>2, <1>3, <2>1 DEF ThreadCan
  <2>3. agent[k].at = "run" => ThreadCan(k)
    BY DEF ThreadCan
  <2>4. link[k].down # <<>> => CallerCan(c)
    BY <1>1, <1>8 DEF CallerCan
  <2>5. link[k].up # <<>> \/ agent[k].at \in {"run", "write"} \/ link[k].down # <<>>
    BY <1>1, <1>8 DEF Progress, EndUnderWay, Ends
  <2> QED BY <1>4, <1>6, <2>2, <2>3, <2>4, <2>5
<1> QED BY <1>7, <1>8

(* Whatever the lengths of packets and the room of the pipes, a call never  *)
(* waits for an agent that waits for it: one of the two can go on, or the   *)
(* connection is broken and the call fails.  What CallsReturn needs besides *)
(* fairness.                                                                *)
THEOREM NobodyWaits == Spec => []SomebodyGoesOn
<1>1. Init => IInv /\ Progress
  BY IInvInit, ProgressInit
<1>2. IInv /\ Progress /\ [Next]_vars => IInv' /\ Progress'
  BY IInvStep, ProgressStep
<1>3. IInv /\ Progress => SomebodyGoesOn
  BY CanGoOn DEF SomebodyGoesOn
<1> QED BY <1>1, <1>2, <1>3, PTL DEF Spec
=============================================================================
