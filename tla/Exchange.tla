------------------------------ MODULE Exchange ------------------------------
(***************************************************************************)
(* What the client's transport promises to ClientService: calls are made   *)
(* one at a time; a request is executed by the agent at most once and in   *)
(* the order of its connection, whether or not its caller still waits; a   *)
(* call succeeds only with the answer to its own, executed request; and a  *)
(* connection on which a call failed never serves another one.  A request  *)
(* whose call failed may have been executed, or may still be.              *)
(***************************************************************************)
EXTENDS Naturals

CONSTANTS
  Callers,        \* threads that call ClientService: GUI thread and workers
  MaxRequests,    \* bound: requests of one behaviour
  MaxConnections  \* bound: connections of one behaviour

Requests == 1 .. MaxRequests

VARIABLES
  sock_,     \* the current connection, 0 when there is none
  opened,    \* connections made so far
  issued,    \* requests made so far; they are numbered in this order
  on,        \* the connection each request was made on, 0 before
  req,       \* the request a caller waits for, 0 when it is in no call
  got,       \* the request whose answer the caller's last call returned,
             \* 0 when it failed
  executed,  \* how often the agent executed each request
  failed     \* connections on which a call failed

vars == <<sock_, opened, issued, on, req, got, executed, failed>>

Init ==
  /\ sock_ = 0 /\ opened = 0 /\ issued = 0
  /\ on = [r \in Requests |-> 0]
  /\ req = [c \in Callers |-> 0]
  /\ got = [c \in Callers |-> 0]
  /\ executed = [r \in Requests |-> 0]
  /\ failed = {}

Quiet == \A c \in Callers : req[c] = 0

Issue(c, k) ==
  /\ issued < MaxRequests
  /\ issued' = issued + 1
  /\ on' = [on EXCEPT ![issued'] = k]
  /\ req' = [req EXCEPT ![c] = issued']

Ask(c) ==
  /\ Quiet /\ sock_ # 0
  /\ Issue(c, sock_)
  /\ UNCHANGED <<sock_, opened, got, executed, failed>>

(* A new connection starts with a request for the agent's capabilities. *)
Connect(c) ==
  /\ Quiet
  /\ opened < MaxConnections
  /\ opened' = opened + 1
  /\ sock_' = opened'
  /\ Issue(c, opened')
  /\ UNCHANGED <<got, executed, failed>>

Disconnect ==
  /\ Quiet
  /\ sock_' = 0
  /\ UNCHANGED <<opened, issued, on, req, got, executed, failed>>

Execute(r) ==
  /\ on[r] # 0 /\ executed[r] = 0
  /\ \A q \in Requests : q < r /\ on[q] = on[r] => executed[q] = 1
  /\ executed' = [executed EXCEPT ![r] = 1]
  /\ UNCHANGED <<sock_, opened, issued, on, req, got, failed>>

Succeed(c) ==
  /\ req[c] # 0 /\ executed[req[c]] = 1
  /\ on[req[c]] \notin failed
  /\ got' = [got EXCEPT ![c] = req[c]]
  /\ req' = [req EXCEPT ![c] = 0]
  /\ UNCHANGED <<sock_, opened, issued, on, executed, failed>>

Fail(c) ==
  /\ req[c] # 0
  /\ failed' = failed \cup {on[req[c]]}
  /\ got' = [got EXCEPT ![c] = 0]
  /\ req' = [req EXCEPT ![c] = 0]
  /\ UNCHANGED <<sock_, opened, issued, on, executed>>

Next ==
  \/ Disconnect
  \/ \E c \in Callers : Ask(c) \/ Connect(c) \/ Succeed(c) \/ Fail(c)
  \/ \E r \in Requests : Execute(r)

Spec == Init /\ [][Next]_vars
=============================================================================
