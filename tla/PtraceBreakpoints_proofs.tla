----------------------- MODULE PtraceBreakpoints_proofs -----------------------
(***************************************************************************)
(* Proofs about PtraceBreakpoints for every set of processes, threads and  *)
(* addresses, every pump limit and every counter width: type correctness,  *)
(* Armed, NoParkedThread and RegistrationAttached.  Armed is not inductive *)
(* alone; it needs RegistrationAttached (a table that outlived its process *)
(* would be inherited by the next Set) and Held below (which threads the   *)
(* agent itself has stopped, and why).                                     *)
(***************************************************************************)
EXTENDS PtraceBreakpoints, TLAPS

(* The threads the agent holds stopped: those seized by the Set in progress *)
(* and the one the Poll in progress is stepping, unless its process died.   *)
Held ==
  /\ newly \subseteq tids
  /\ op # "attach" => newly = {}
  /\ \A t \in Threads : run[t] = "stopped" => t \in newly /\ trace[t] \in Mine
  /\ \A t \in Threads : run[t] = "stepping" => op = "step" /\ t = opTid
  /\ op = "step" => run[opTid] = "stepping" \/ Owner[opTid] \in killed

IInv == TypeOK /\ Held /\ RegistrationAttached /\ Armed

-----------------------------------------------------------------------------
(* Type correctness. *)

LEMMA TypeInit == Init => TypeOK
<1> SUFFICES ASSUME Init PROVE TypeOK
  OBVIOUS
<1>1. TargetTypeOK
  BY ThreadAssumption DEF Init, TargetTypeOK, Words, Tracers, RunStates, Reasons
<1>2. 0 \in Count
  BY BoundAssumption DEF Count
<1>3. ManagerTypeOK
  BY <1>2 DEF Init, ManagerTypeOK, Words
<1>4. CallTypeOK
  BY BoundAssumption DEF Init, CallTypeOK
<1> QED BY <1>1, <1>3, <1>4 DEF TypeOK

(* The result of continuing or detaching any set of threads is well typed. *)
LEMMA ContTyped ==
  ASSUME TypeOK, NEW S
  PROVE  /\ ContRun(S) \in [Threads -> RunStates]
         /\ ContWhy(S) \in [Threads -> Reasons]
         /\ ContKid(S) \in [Threads -> Threads \cup {NoThread}]
         /\ DetachRun(S) \in [Threads -> RunStates]
         /\ DetachTrace(S) \in [Threads -> Tracers]
  BY DEF TypeOK, TargetTypeOK, ManagerTypeOK, CallTypeOK, Words, Tracers,
      RunStates, Reasons, Count, ContRun, ContWhy, ContKid, DetachRun, DetachTrace

LEMMA RestoredTyped ==
  ASSUME TypeOK, NEW A, NEW t
  PROVE  Restored(A, t) \in [Procs -> [Addrs -> Words]]
  BY ThreadAssumption DEF TypeOK, TargetTypeOK, ManagerTypeOK, CallTypeOK, Words, Tracers,
      RunStates, Reasons, Count, Restored

LEMMA ForgetTyped ==
  ASSUME TypeOK, NEW A, Forget(A)
  PROVE  /\ bps' \subseteq Addrs
         /\ orig' \in [Addrs -> Words]
         /\ hits' \in [Addrs -> Count]
  BY BoundAssumption DEF TypeOK, TargetTypeOK, ManagerTypeOK, CallTypeOK, Words, Tracers,
      RunStates, Reasons, Count, Forget

LEMMA ClearAllTyped ==
  ASSUME TypeOK, ClearAllLocked
  PROVE  /\ text' \in [Procs -> [Addrs -> Words]]
         /\ trace' \in [Threads -> Tracers]
         /\ run' \in [Threads -> RunStates]
         /\ why' \in [Threads -> Reasons]
         /\ kid' \in [Threads -> Threads \cup {NoThread}]
         /\ attached' \in BOOLEAN
         /\ bps' = {}
         /\ orig' \in [Addrs -> Words]
         /\ hits' \in [Addrs -> Count]
         /\ lastReport' \in [Addrs -> Count]
         /\ tids' = {}
         /\ newly' = {}
<1>1. PICK t \in Threads \cup {NoThread} : text' = Restored(bps, t)
  BY DEF ClearAllLocked
<1>2. text' \in [Procs -> [Addrs -> Words]]
  BY <1>1, RestoredTyped
<1>3. Forget(bps) /\ DetachLocked
  BY DEF ClearAllLocked
<1>4. bps' = {}
  BY <1>3 DEF Forget
<1>5. /\ run' = DetachRun(IF attached THEN tids ELSE {})
      /\ trace' = DetachTrace(IF attached THEN tids ELSE {})
      /\ why' = ContWhy(IF attached THEN tids ELSE {})
      /\ kid' = ContKid(IF attached THEN tids ELSE {})
  BY <1>3 DEF DetachLocked, Detach
<1>6. attached' = FALSE /\ tids' = {} /\ newly' = {}
      /\ lastReport' \in [Addrs -> Count]
  BY <1>3, BoundAssumption DEF DetachLocked, Count
<1> QED BY <1>2, <1>3, <1>4, <1>5, <1>6, ContTyped, ForgetTyped

LEMMA TypeStep == TypeOK /\ [Next]_vars => TypeOK'
<1> SUFFICES ASSUME TypeOK, [Next]_vars PROVE TypeOK'
  OBVIOUS
<1> USE ThreadAssumption, BoundAssumption
<1>1. ASSUME NEW p \in Procs, Kill(p) PROVE TypeOK'
  BY <1>1 DEF TypeOK, TargetTypeOK, ManagerTypeOK, CallTypeOK, Words, Tracers,
      RunStates, Reasons, Count, Kill, Die, manager, call
<1>2. ASSUME NEW t \in Threads, NEW a \in Addrs, Execute(t, a) PROVE TypeOK'
  <2>1. TargetTypeOK'
    <3>1. CASE Die(Owner[t]) /\ UNCHANGED <<text, trace>>
      BY <3>1 DEF TypeOK, TargetTypeOK, Die, RunStates, Reasons
    <3>2. CASE /\ at' = [at EXCEPT ![t] = NoAddr]
               /\ UNCHANGED <<text, trace, run, why, kid, killed>>
      BY <3>2 DEF TypeOK, TargetTypeOK
    <3>3. CASE /\ at' = [at EXCEPT ![t] = a]
               /\ run' = [run EXCEPT ![t] = "event"]
               /\ why' = [why EXCEPT ![t] = "brk"]
               /\ UNCHANGED <<text, trace, kid, killed>>
      BY <3>3 DEF TypeOK, TargetTypeOK, RunStates, Reasons
    <3> QED BY <1>2, <3>1, <3>2, <3>3 DEF Execute
  <2>2. UNCHANGED <<manager, call>>
    BY <1>2 DEF Execute
  <2> QED BY <2>1, <2>2 DEF TypeOK, ManagerTypeOK, CallTypeOK, manager, call
<1>3. ASSUME NEW t \in Threads, Signal(t) PROVE TypeOK'
  BY <1>3 DEF TypeOK, TargetTypeOK, ManagerTypeOK, CallTypeOK, Words, Tracers,
      RunStates, Reasons, Count, Signal, manager, call
<1>4. ASSUME NEW t \in Threads, StartStop(t) PROVE TypeOK'
  BY <1>4 DEF TypeOK, TargetTypeOK, ManagerTypeOK, CallTypeOK, Words, Tracers,
      RunStates, Reasons, Count, StartStop, manager, call
<1>5. ASSUME NEW t \in Threads, ThreadExit(t) PROVE TypeOK'
  BY <1>5 DEF TypeOK, TargetTypeOK, ManagerTypeOK, CallTypeOK, Words, Tracers,
      RunStates, Reasons, Count, ThreadExit, manager, call
<1>6. ASSUME NEW t \in Threads, NEW c \in Threads, Clone(t, c) PROVE TypeOK'
  <2>1. UNCHANGED <<text, at, killed, manager, call>>
    BY <1>6 DEF Clone
  <2>2. CASE trace[t] = "opts"
    <3>1. /\ run' = [run EXCEPT ![t] = "event", ![c] = "starting"]
          /\ why' = [why EXCEPT ![t] = "clone"]
          /\ kid' = [kid EXCEPT ![t] = c]
          /\ trace' = [trace EXCEPT ![c] = "opts"]
      BY <1>6, <2>2 DEF Clone
    <3>2. run' \in [Threads -> RunStates]
      BY <3>1 DEF TypeOK, TargetTypeOK, RunStates
    <3>3. why' \in [Threads -> Reasons] /\ trace' \in [Threads -> Tracers]
      BY <3>1 DEF TypeOK, TargetTypeOK, Reasons, Tracers
    <3>4. kid' \in [Threads -> Threads \cup {NoThread}]
      BY <3>1 DEF TypeOK, TargetTypeOK
    <3> QED
      BY <2>1, <3>2, <3>3, <3>4
      DEF TypeOK, TargetTypeOK, ManagerTypeOK, CallTypeOK, manager, call
  <2>3. CASE trace[t] # "opts"
    BY <1>6, <2>1, <2>3, ZenonT(40)
    DEF TypeOK, TargetTypeOK, ManagerTypeOK, CallTypeOK, Clone, Tracers, RunStates,
        manager, call
  <2> QED BY <2>2, <2>3
<1>7. ASSUME NEW p \in Procs, NEW a \in Addrs, Set(p, a) PROVE TypeOK'
  <2>1. CASE pid # NoProc /\ pid # p
    BY <1>7, <2>1, ClearAllTyped DEF TypeOK, TargetTypeOK, ManagerTypeOK, CallTypeOK, Words, Tracers,
      RunStates, Reasons, Count, Set, ListThreads, call
  <2>2. CASE ~(pid # NoProc /\ pid # p)
    BY <1>7, <2>2 DEF TypeOK, TargetTypeOK, ManagerTypeOK, CallTypeOK, Words, Tracers,
      RunStates, Reasons, Count, Set, ListThreads, call
  <2> QED BY <2>1, <2>2
<1>8. ASSUME NEW a \in Addrs, Clear(a) PROVE TypeOK'
  <2>1. PICK t \in Threads \cup {NoThread} : text' = Restored({a}, t)
    BY <1>8 DEF Clear
  <2>2. text' \in [Procs -> [Addrs -> Words]]
    BY <2>1, RestoredTyped
  <2>3. Forget({a})
    BY <1>8 DEF Clear
  <2>4. CASE bps = {a}
    <3>1. DetachLocked /\ pid' = NoProc /\ UNCHANGED <<at, killed, call>>
      BY <1>8, <2>4 DEF Clear
    <3>2. TargetTypeOK'
      BY <2>2, <3>1, ContTyped DEF TypeOK, TargetTypeOK, DetachLocked, Detach
    <3>3. ManagerTypeOK'
      <4>1. /\ bps' \subseteq Addrs
            /\ orig' \in [Addrs -> Words]
            /\ hits' \in [Addrs -> Count]
        BY <2>3, ForgetTyped
      <4>2. attached' = FALSE /\ tids' = {} /\ newly' = {} /\ pid' = NoProc
        BY <3>1 DEF DetachLocked
      <4>3. lastReport' \in [Addrs -> Count]
        BY <3>1 DEF DetachLocked, Count
      <4> QED BY <4>1, <4>2, <4>3 DEF ManagerTypeOK
    <3>4. op # "attach"
      BY <1>8 DEF Clear
    <3> QED BY <3>1, <3>2, <3>3, <3>4 DEF TypeOK, CallTypeOK, call
  <2>5. CASE bps # {a}
    BY <1>8, <2>2, <2>3, <2>5, ForgetTyped DEF TypeOK, TargetTypeOK, ManagerTypeOK, CallTypeOK, Words, Tracers,
      RunStates, Reasons, Count, Clear, call
  <2> QED BY <2>4, <2>5
<1>9. ASSUME ClearAll PROVE TypeOK'
  BY <1>9, ClearAllTyped DEF TypeOK, TargetTypeOK, ManagerTypeOK, CallTypeOK, Words, Tracers,
      RunStates, Reasons, Count, ClearAll, call
<1>10. ASSUME Poll PROVE TypeOK'
  BY <1>10 DEF TypeOK, TargetTypeOK, ManagerTypeOK, CallTypeOK, Words, Tracers,
      RunStates, Reasons, Count, Poll, target, manager
<1>11. ASSUME Disconnect PROVE TypeOK'
  BY <1>11, ClearAllTyped DEF TypeOK, TargetTypeOK, ManagerTypeOK, CallTypeOK, Words, Tracers,
      RunStates, Reasons, Count, Disconnect
<1>12. ASSUME NEW t \in Threads, AttachThread(t) PROVE TypeOK'
  <2>1. TargetTypeOK'
    <3>1. CASE UNCHANGED <<run, trace, why, kid>>
      BY <1>12, <3>1 DEF AttachThread, TypeOK, TargetTypeOK
    <3>2. CASE Detach(newly)
      BY <1>12, <3>2, ContTyped DEF AttachThread, Detach, TypeOK, TargetTypeOK
    <3> QED BY <1>12, <3>1, <3>2 DEF AttachThread
  <2>2. ManagerTypeOK' /\ CallTypeOK'
    <3>1. CASE AttachFails
      BY <1>12, <3>1
      DEF AttachThread, AttachFails, TypeOK, ManagerTypeOK, CallTypeOK
    <3>2. CASE AttachNext(t)
      BY <1>12, <3>2
      DEF AttachThread, AttachFails, AttachNext, TypeOK, ManagerTypeOK, CallTypeOK
    <3> QED BY <1>12, <3>1, <3>2 DEF AttachThread
  <2> QED BY <2>1, <2>2 DEF TypeOK
<1>13. ASSUME NEW t \in Threads, NEW r \in {"stopped", "event", "running", "dead"},
              NEW S \in SUBSET {u \in Threads : Reapable(u)}, AttachWait(t, S, r)
       PROVE  TypeOK'
  <2> DEFINE D == IF ~(r \in {"stopped", "event"}) /\ t = Main[pid]
                  THEN newly \ S ELSE {}
  <2>1. /\ run' = [u \in Threads |->
               IF u = t THEN r
               ELSE IF u \in S
               THEN IF run[u] = "zombie" THEN "dead" ELSE ContRun(S)[u]
               ELSE DetachRun(D)[u]]
        /\ trace' = [u \in Threads |->
                 IF u = t
                 THEN IF r \in {"stopped", "event"} THEN "opts"
                      ELSE IF r = "running" THEN "bare" ELSE "none"
                 ELSE IF u \in S
                 THEN IF run[u] = "zombie" THEN "none" ELSE trace[u]
                 ELSE DetachTrace(D)[u]]
        /\ why' = [ContWhy(S \cup D) EXCEPT
                       ![t] = IF r = "event" THEN "signal" ELSE "none"]
        /\ kid' = ContKid(S \cup D)
        /\ UNCHANGED <<text, at, killed>>
    BY <1>13 DEF AttachWait
  <2>2. /\ ContRun(S) \in [Threads -> RunStates]
        /\ DetachRun(D) \in [Threads -> RunStates]
        /\ DetachTrace(D) \in [Threads -> Tracers]
        /\ ContWhy(S \cup D) \in [Threads -> Reasons]
        /\ ContKid(S \cup D) \in [Threads -> Threads \cup {NoThread}]
    BY ContTyped
  <2> HIDE DEF D
  <2>3. TargetTypeOK'
    <3>1. run' \in [Threads -> RunStates]
      BY <2>1, <2>2 DEF RunStates
    <3>2. trace' \in [Threads -> Tracers]
      BY <2>1, <2>2 DEF Tracers, TypeOK, TargetTypeOK
    <3>3. why' \in [Threads -> Reasons]
      BY <2>1, <2>2 DEF Reasons
    <3> QED BY <2>1, <2>2, <3>1, <3>2, <3>3 DEF TypeOK, TargetTypeOK
  <2>4. ManagerTypeOK' /\ CallTypeOK'
    <3>1. /\ UNCHANGED <<pid, bps, orig, hits, lastReport, opTid, steps>>
          /\ op = "attach"
          /\ \/ AttachFails
             \/ AttachNext(t) /\ UNCHANGED <<tids, newly>>
             \/ AttachNext(t) /\ tids' = tids \cup {t} /\ newly' = newly \cup {t}
      BY <1>13 DEF AttachWait
    <3>2. CASE AttachFails
      BY <3>1, <3>2 DEF AttachFails, TypeOK, ManagerTypeOK, CallTypeOK
    <3>3. CASE AttachNext(t)
      BY <3>1, <3>3 DEF AttachFails, AttachNext, TypeOK, ManagerTypeOK, CallTypeOK
    <3> QED BY <3>1, <3>2, <3>3
  <2> QED BY <2>3, <2>4 DEF TypeOK
<1>14. ASSUME Plant PROVE TypeOK'
  <2>1. CallTypeOK'
    BY <1>14 DEF TypeOK, CallTypeOK, Plant
  <2>2. CASE tids = {}
    BY <1>14, <2>1, <2>2 DEF Plant, TypeOK, TargetTypeOK, ManagerTypeOK
  <2>3. CASE tids # {} /\ ~Traceable(Main[pid])
    <3>1. TargetTypeOK'
      BY <1>14, <2>3, ContTyped DEF Plant, Detach, TypeOK, TargetTypeOK
    <3>2. ManagerTypeOK'
      BY <1>14, <2>3 DEF Plant, TypeOK, ManagerTypeOK
    <3> QED BY <2>1, <3>1, <3>2 DEF TypeOK
  <2>4. CASE tids # {} /\ Traceable(Main[pid])
    <3>1. pid \in Procs /\ opAddr \in Addrs
      BY <1>14 DEF Plant, TypeOK, CallTypeOK
    <3>2. TargetTypeOK'
      <4>1. text' = [text EXCEPT ![pid][opAddr] = "brk"]
        BY <1>14, <2>4 DEF Plant
      <4>2. text' \in [Procs -> [Addrs -> Words]]
        BY <3>1, <4>1 DEF TypeOK, TargetTypeOK, Words
      <4>3. run' = ContRun(newly) /\ why' = ContWhy(newly) /\ kid' = ContKid(newly)
            /\ UNCHANGED <<trace, at, killed>>
        BY <1>14, <2>4 DEF Plant, ContinueNewlyAttached
      <4> QED BY <4>2, <4>3, ContTyped DEF TypeOK, TargetTypeOK
    <3>3. text[pid][opAddr] \in Words /\ 0 \in Count
      BY <3>1 DEF TypeOK, TargetTypeOK, Count
    <3>4. ManagerTypeOK'
      BY <1>14, <2>4, <3>1, <3>3
      DEF Plant, ContinueNewlyAttached, TypeOK, ManagerTypeOK
    <3> QED BY <2>1, <3>2, <3>4 DEF TypeOK
  <2> QED BY <2>2, <2>3, <2>4
<1>15. ASSUME NEW t \in Threads, HandleExit(t) PROVE TypeOK'
  <2>1. CASE tids' = {}
    <3>1. Forget(bps) /\ pid' = NoProc /\ attached' = FALSE
      BY <1>15, <2>1 DEF HandleExit, DropTable
    <3>2. ManagerTypeOK'
      BY <1>15, <3>1, ForgetTyped DEF HandleExit, TypeOK, ManagerTypeOK
    <3>3. TargetTypeOK' /\ CallTypeOK'
      BY <1>15
      DEF HandleExit, Pumped, TypeOK, TargetTypeOK, CallTypeOK, RunStates, Tracers
    <3> QED BY <3>2, <3>3 DEF TypeOK
  <2>2. CASE tids' # {}
    BY <1>15, <2>2 DEF TypeOK, TargetTypeOK, ManagerTypeOK, CallTypeOK, Words, Tracers,
      RunStates, Reasons, Count, HandleExit, Pumped
  <2> QED BY <2>1, <2>2
<1>16. ASSUME NEW t \in Threads, HandleOther(t) \/ HandleUnread(t) PROVE TypeOK'
  <2>1. CASE HandleOther(t)
    BY <2>1, ContTyped DEF TypeOK, TargetTypeOK, ManagerTypeOK, CallTypeOK, Words, Tracers,
        RunStates, Reasons, Count, HandleOther, Adopt, Pumped
  <2>2. CASE HandleUnread(t)
    <3>1. hits' \in [Addrs -> Count]
      BY <2>2, BoundAssumption DEF HandleUnread, TypeOK, ManagerTypeOK, Count
    <3>2. TargetTypeOK'
      BY <2>2, ContTyped DEF HandleUnread, Adopt, TypeOK, TargetTypeOK, Tracers
    <3> QED
      BY <2>2, <3>1, <3>2
      DEF HandleUnread, Adopt, Pumped, TypeOK, ManagerTypeOK, CallTypeOK
  <2> QED BY <1>16, <2>1, <2>2
<1>17. ASSUME NEW t \in Threads, HandleHit(t) PROVE TypeOK'
  <2>1. HitAddr(at[t]) \in bps
    BY <1>17 DEF HandleHit, HitAddr, Untracked
  <2> QED
    BY <1>17, <2>1, RestoredTyped DEF TypeOK, TargetTypeOK, ManagerTypeOK, CallTypeOK, Words, Tracers,
      RunStates, Reasons, Count, HandleHit, Adopt, Pumped
<1>18. ASSUME FinishStep PROVE TypeOK'
  <2>1. opTid \in Threads /\ opAddr \in Addrs /\ Owner[opTid] \in Procs
    BY <1>18 DEF FinishStep, TypeOK, CallTypeOK
  <2>2. InsertBreakpoint(opAddr, opTid) \in [Procs -> [Addrs -> Words]]
    BY <2>1 DEF InsertBreakpoint, TypeOK, TargetTypeOK, Words
  <2>3. TargetTypeOK'
    <3>1. CASE run[opTid] = "stepping"
      <4>1. /\ run' = [run EXCEPT ![opTid] = "running"]
            /\ at' = [at EXCEPT ![opTid] = NoAddr] \/ at' = at
            /\ text' = InsertBreakpoint(opAddr, opTid)
            /\ UNCHANGED <<trace, why, kid, killed>>
        BY <1>18, <3>1 DEF FinishStep
      <4>2. run' \in [Threads -> RunStates]
        BY <4>1 DEF TypeOK, TargetTypeOK, RunStates
      <4>3. at' \in [Threads -> Addrs \cup {NoAddr}]
        BY <4>1 DEF TypeOK, TargetTypeOK
      <4> QED BY <2>2, <4>1, <4>2, <4>3 DEF TypeOK, TargetTypeOK
    <3>2. CASE run[opTid] = "zombie"
      <4>1. /\ run' = [run EXCEPT ![opTid] = "dead"]
            /\ trace' = [trace EXCEPT ![opTid] = "none"]
            /\ UNCHANGED <<text, at, why, kid, killed>>
        BY <1>18, <3>2 DEF FinishStep
      <4>2. run' \in [Threads -> RunStates]
        BY <4>1 DEF TypeOK, TargetTypeOK, RunStates
      <4>3. trace' \in [Threads -> Tracers]
        BY <4>1 DEF TypeOK, TargetTypeOK, Tracers
      <4> QED BY <4>1, <4>2, <4>3 DEF TypeOK, TargetTypeOK
    <3> QED BY <1>18, <3>1, <3>2 DEF FinishStep
  <2>4. ManagerTypeOK' /\ CallTypeOK'
    BY <1>18 DEF FinishStep, manager, TypeOK, ManagerTypeOK, CallTypeOK
  <2> QED BY <2>3, <2>4 DEF TypeOK
<1>19. ASSUME NEW R \in SUBSET bps, Report(R) PROVE TypeOK'
  BY <1>19 DEF TypeOK, TargetTypeOK, ManagerTypeOK, CallTypeOK, Words, Tracers,
      RunStates, Reasons, Count, Report, target
<1>20. ASSUME TracerExit PROVE TypeOK'
  BY <1>20 DEF TypeOK, TargetTypeOK, ManagerTypeOK, CallTypeOK, Words, Tracers,
      RunStates, Reasons, Count, TracerExit, manager, Alive
<1>21. ASSUME UNCHANGED vars PROVE TypeOK'
  BY <1>21 DEF TypeOK, TargetTypeOK, ManagerTypeOK, CallTypeOK, Words, Tracers,
      RunStates, Reasons, Count, vars, target, manager, call
<1> QED
  BY <1>1, <1>2, <1>3, <1>4, <1>5, <1>6, <1>7, <1>8, <1>9, <1>10, <1>11, <1>12,
     <1>13, <1>14, <1>15, <1>16, <1>17, <1>18, <1>19, <1>20, <1>21
  DEF Next, TargetStep, Request, AgentStep

(* Every field keeps its type and a call in progress keeps its arguments. *)
THEOREM TypeCorrect == Spec => []TypeOK
<1>1. Init => TypeOK
  BY TypeInit
<1>2. TypeOK /\ [Next]_vars => TypeOK'
  BY TypeStep
<1> QED BY <1>1, <1>2, PTL DEF Spec

-----------------------------------------------------------------------------
(* What the agent holds stopped. *)

LEMMA HeldStep == TypeOK /\ Held /\ [Next]_vars => Held'
<1> SUFFICES ASSUME TypeOK, Held, [Next]_vars PROVE Held'
  OBVIOUS
<1> USE DEF Held, Mine
<1>1. ASSUME NEW p \in Procs, Kill(p) PROVE Held'
  BY <1>1 DEF Kill, Die, Alive, TypeOK, TargetTypeOK, CallTypeOK, manager, call
<1>2. ASSUME NEW t \in Threads, NEW a \in Addrs, Execute(t, a) PROVE Held'
  <2>1. CASE Die(Owner[t]) /\ UNCHANGED <<text, trace, manager, call>>
    BY <2>1 DEF Die, Alive, TypeOK, TargetTypeOK, CallTypeOK, manager, call
  <2>2. CASE UNCHANGED <<run, trace, killed, manager, call>>
    BY <2>2 DEF manager, call
  <2>3. CASE /\ run[t] = "running"
             /\ run' = [run EXCEPT ![t] = "event"]
             /\ UNCHANGED <<trace, killed, manager, call>>
    BY <2>3 DEF TypeOK, TargetTypeOK, CallTypeOK, manager, call
  <2> QED BY <1>2, <2>1, <2>2, <2>3 DEF Execute
<1>3. ASSUME NEW t \in Threads, Signal(t) PROVE Held'
  BY <1>3 DEF Signal, TypeOK, TargetTypeOK, CallTypeOK, manager, call
<1>4. ASSUME NEW t \in Threads, StartStop(t) PROVE Held'
  BY <1>4 DEF StartStop, TypeOK, TargetTypeOK, CallTypeOK, manager, call
<1>5. ASSUME NEW t \in Threads, ThreadExit(t) PROVE Held'
  BY <1>5 DEF ThreadExit, TypeOK, TargetTypeOK, CallTypeOK, manager, call
<1>6. ASSUME NEW t \in Threads, NEW c \in Threads, Clone(t, c) PROVE Held'
  BY <1>6 DEF Clone, TypeOK, TargetTypeOK, CallTypeOK, manager, call
<1>7. ASSUME NEW p \in Procs, NEW a \in Addrs, Set(p, a) PROVE Held'
  <2>1. newly' = {} /\ op \notin {"attach", "step"} /\ op' \notin {"step"}
    BY <1>7 DEF Set, ClearAllLocked, DetachLocked, call
  <2>2. \A t \in Threads : run'[t] \notin {"stopped", "stepping"}
    BY <1>7, <2>1
    DEF Set, ClearAllLocked, DetachLocked, Detach, DetachRun, TypeOK, TargetTypeOK
  <2> QED BY <2>1, <2>2
<1>8. ASSUME NEW a \in Addrs, Clear(a) PROVE Held'
  <2>1. newly' = {} /\ op = "idle" /\ op' = op
    BY <1>8 DEF Clear, DetachLocked, call
  <2>2. \A t \in Threads : run'[t] \notin {"stopped", "stepping"}
    BY <1>8, <2>1 DEF Clear, DetachLocked, Detach, DetachRun, TypeOK, TargetTypeOK
  <2> QED BY <2>1, <2>2
<1>9. ASSUME ClearAll \/ Disconnect PROVE Held'
  <2>1. newly' = {} /\ op = "idle" /\ op' \in {"idle", "closing"}
    BY <1>9 DEF ClearAll, Disconnect, ClearAllLocked, DetachLocked, call
  <2>2. \A t \in Threads : run'[t] \notin {"stopped", "stepping"}
    BY <1>9, <2>1
    DEF ClearAll, Disconnect, ClearAllLocked, DetachLocked, Detach, DetachRun,
        TypeOK, TargetTypeOK
  <2> QED BY <2>1, <2>2
<1>10. ASSUME Poll PROVE Held'
  BY <1>10 DEF Poll, target, manager
<1>11. ASSUME NEW t \in Threads, AttachThread(t) PROVE Held'
  <2>1. CASE AttachNext(t) /\ UNCHANGED <<newly, run, trace>> /\ tids \subseteq tids'
    BY <1>11, <2>1 DEF AttachThread, AttachNext
  <2>2. CASE AttachFails /\ Detach(newly)
    <3>1. \A u \in Threads : run'[u] # "stopped" /\ run'[u] # "stepping"
      BY <1>11, <2>2
      DEF AttachThread, Detach, DetachRun, Traceable, TypeOK, TargetTypeOK
    <3> QED BY <2>2, <3>1 DEF AttachFails
  <2> QED BY <1>11, <2>1, <2>2 DEF AttachThread
<1>12. ASSUME NEW t \in Threads, NEW r \in {"stopped", "event", "running", "dead"},
              NEW S \in SUBSET {u \in Threads : Reapable(u)}, AttachWait(t, S, r)
       PROVE  Held'
  <2> DEFINE D == IF ~(r \in {"stopped", "event"}) /\ t = Main[pid]
                  THEN newly \ S ELSE {}
  <2>1. /\ run' = [u \in Threads |->
               IF u = t THEN r
               ELSE IF u \in S
               THEN IF run[u] = "zombie" THEN "dead" ELSE ContRun(S)[u]
               ELSE DetachRun(D)[u]]
        /\ trace' = [u \in Threads |->
                 IF u = t
                 THEN IF r \in {"stopped", "event"} THEN "opts"
                      ELSE IF r = "running" THEN "bare" ELSE "none"
                 ELSE IF u \in S
                 THEN IF run[u] = "zombie" THEN "none" ELSE trace[u]
                 ELSE DetachTrace(D)[u]]
        /\ op = "attach" /\ t \notin tids
    BY <1>12 DEF AttachWait
  <2>2. \A u \in Threads \ {t} :
          run'[u] = "stopped" =>
            u \notin D /\ run[u] = "stopped" /\ trace'[u] = trace[u]
    BY <2>1 DEF ContRun, DetachRun, DetachTrace, Reapable, Traceable
  <2>3. \A u \in Threads : run'[u] # "stepping"
    BY <2>1 DEF ContRun, DetachRun, Reapable, Traceable
  <2>4. CASE r \in {"stopped", "event"}
    <3>1. newly' = newly \cup {t} /\ tids' = tids \cup {t} /\ op' = "attach"
      BY <1>12, <2>4 DEF AttachWait, AttachNext
    <3>2. run'[t] = "stopped" => trace'[t] \in Mine
      BY <2>1, <2>4
    <3> QED BY <2>2, <2>3, <3>1, <3>2
  <2>5. CASE r \notin {"stopped", "event"} /\ t # Main[pid]
    <3>1. UNCHANGED <<newly, tids>> /\ op' = "attach" /\ run'[t] # "stopped"
      BY <1>12, <2>1, <2>5 DEF AttachWait, AttachNext
    <3> QED BY <2>2, <2>3, <3>1
  <2>6. CASE r \notin {"stopped", "event"} /\ t = Main[pid]
    <3>1. AttachFails /\ run'[t] # "stopped"
      BY <1>12, <2>1, <2>6 DEF AttachWait
    <3>2. \A u \in Threads : run[u] = "stopped" => u \in D
      BY <2>6 DEF Reapable
    <3> QED BY <2>2, <2>3, <3>1, <3>2 DEF AttachFails
  <2> QED BY <2>4, <2>5, <2>6
<1>13. ASSUME Plant PROVE Held'
  <2>1. newly' = {} /\ op = "attach" /\ op' = "idle"
    BY <1>13 DEF Plant, ContinueNewlyAttached
  <2>2. \A u \in Threads : run'[u] \notin {"stopped", "stepping"}
    BY <1>13, <2>1
    DEF Plant, ContinueNewlyAttached, ContRun, Detach, DetachRun, Traceable, TypeOK,
        TargetTypeOK
  <2> QED BY <2>1, <2>2
<1>14. ASSUME NEW t \in Threads, HandleExit(t) PROVE Held'
  BY <1>14 DEF HandleExit, Pumped, DropTable, TypeOK, TargetTypeOK
<1>15. ASSUME NEW t \in Threads, HandleOther(t) \/ HandleUnread(t) PROVE Held'
  BY <1>15 DEF HandleOther, HandleUnread, Adopt, Pumped, ContRun, TypeOK, TargetTypeOK
<1>16. ASSUME NEW t \in Threads, HandleHit(t) PROVE Held'
  BY <1>16 DEF HandleHit, Adopt, Pumped, TypeOK, TargetTypeOK
<1>17. ASSUME FinishStep PROVE Held'
  BY <1>17 DEF FinishStep, TypeOK, TargetTypeOK, CallTypeOK, manager
<1>18. ASSUME NEW R \in SUBSET bps, Report(R) PROVE Held'
  BY <1>18 DEF Report, target
<1>19. ASSUME TracerExit PROVE Held'
  BY <1>19 DEF TracerExit, TypeOK, TargetTypeOK, manager
<1>20. ASSUME UNCHANGED vars PROVE Held'
  BY <1>20 DEF vars, target, manager, call
<1> QED
  BY <1>1, <1>2, <1>3, <1>4, <1>5, <1>6, <1>7, <1>8, <1>9, <1>10, <1>11, <1>12,
     <1>13, <1>14, <1>15, <1>16, <1>17, <1>18, <1>19, <1>20
  DEF Next, TargetStep, Request, AgentStep

(* No call returns with a thread it stopped itself still stopped. *)
THEOREM NothingParked == Spec => []NoParkedThread
<1>1. Init => TypeOK /\ Held
  BY TypeInit DEF Init, Held
<1>2. TypeOK /\ Held /\ [Next]_vars => TypeOK' /\ Held'
  BY TypeStep, HeldStep
<1>3. TypeOK /\ Held => NoParkedThread
  BY DEF Held, NoParkedThread
<1> QED BY <1>1, <1>2, <1>3, PTL DEF Spec

-----------------------------------------------------------------------------
(* The table of breakpoints and the text. *)

LEMMA RegistrationStep ==
  TypeOK /\ Held /\ RegistrationAttached /\ [Next]_vars => RegistrationAttached'
<1> SUFFICES ASSUME TypeOK, Held, RegistrationAttached, [Next]_vars
             PROVE  RegistrationAttached'
  OBVIOUS
<1> USE DEF RegistrationAttached
<1>1. CASE UNCHANGED manager
  BY <1>1 DEF manager
<1>2. ASSUME NEW p \in Procs, NEW a \in Addrs, Set(p, a) PROVE RegistrationAttached'
  <2>1. CASE pid # NoProc /\ pid # p
    BY <1>2, <2>1 DEF Set, ClearAllLocked, Forget
  <2>2. CASE ~(pid # NoProc /\ pid # p)
    <3>1. UNCHANGED <<bps, attached, tids, newly>> /\ pid' = p
      BY <1>2, <2>2 DEF Set
    <3>2. CASE pid = NoProc
      BY <3>1, <3>2
    <3>3. CASE pid = p
      BY <3>1, <3>3
    <3> QED BY <2>2, <3>2, <3>3
  <2> QED BY <2>1, <2>2
<1>3. ASSUME NEW a \in Addrs, Clear(a) PROVE RegistrationAttached'
  BY <1>3 DEF Clear, Forget
<1>4. ASSUME ClearAll \/ Disconnect PROVE RegistrationAttached'
  BY <1>4 DEF ClearAll, Disconnect, ClearAllLocked, Forget
<1>5. ASSUME NEW t \in Threads, AttachThread(t) PROVE RegistrationAttached'
  <2>1. UNCHANGED <<bps, pid>>
    BY <1>5 DEF AttachThread
  <2>2. \/ attached' = attached /\ newly' = newly /\ tids \subseteq tids'
        \/ AttachFails
    BY <1>5 DEF AttachThread, AttachNext
  <2> QED BY <2>1, <2>2 DEF AttachFails
<1>6. ASSUME NEW t \in Threads, NEW r \in {"stopped", "event", "running", "dead"},
             NEW S \in SUBSET {u \in Threads : Reapable(u)}, AttachWait(t, S, r)
      PROVE  RegistrationAttached'
  <2>1. UNCHANGED <<bps, pid>>
    BY <1>6 DEF AttachWait
  <2>2. \/ attached' = attached /\ tids' \ newly' = tids \ newly
        \/ AttachFails
    BY <1>6 DEF AttachWait, AttachNext
  <2> QED BY <2>1, <2>2 DEF AttachFails
<1>7. ASSUME Plant PROVE RegistrationAttached'
  <2>1. pid \in Procs
    BY <1>7 DEF Plant, TypeOK, CallTypeOK
  <2> QED
    BY <1>7, <2>1, NoValueAssumption DEF Plant, ContinueNewlyAttached
<1>8. ASSUME NEW t \in Threads, HandleExit(t) PROVE RegistrationAttached'
  BY <1>8 DEF HandleExit, Pumped, DropTable, Forget, Held
<1>9. ASSUME NEW t \in Threads, HandleOther(t) \/ HandleUnread(t) \/ HandleHit(t)
      PROVE  RegistrationAttached'
  BY <1>9 DEF HandleOther, HandleUnread, HandleHit, Adopt, Pumped, Held
<1>10. ASSUME NEW R \in SUBSET bps, Report(R) PROVE RegistrationAttached'
  BY <1>10 DEF Report
<1>11. TargetStep \/ Poll \/ FinishStep \/ TracerExit \/ UNCHANGED vars
         => UNCHANGED <<bps, attached, pid, tids, newly>>
  BY DEF TargetStep, Kill, Execute, Signal, StartStop, ThreadExit, Clone, Poll,
         FinishStep, TracerExit, vars, manager
<1> QED
  BY <1>2, <1>3, <1>4, <1>5, <1>6, <1>7, <1>8, <1>9, <1>10, <1>11
  DEF Next, Request, AgentStep

(* RestoreInstruction through a thread rewrites only the given addresses of *)
(* the process that thread belongs to.                                      *)
LEMMA RestoredElsewhere ==
  ASSUME TypeOK, NEW A, NEW t, NEW p \in Procs, NEW a \in Addrs,
         a \notin A \/ (t \in Threads => Owner[t] # p)
  PROVE  Restored(A, t)[p][a] = text[p][a]
  BY ThreadAssumption DEF Restored, TypeOK, TargetTypeOK

LEMMA ArmedStep ==
  TypeOK /\ Held /\ RegistrationAttached /\ Armed /\ [Next]_vars => Armed'
<1> SUFFICES ASSUME TypeOK, Held, RegistrationAttached, Armed, [Next]_vars,
                    pid' \in Procs \ killed', NEW b \in bps'
             PROVE  \/ text'[pid'][b] = "brk"
                    \/ op' = "step" /\ opAddr' = b /\ Owner[opTid'] = pid'
  BY DEF Armed
<1> USE ThreadAssumption, NoValueAssumption
<1> DEFINE Goal == \/ text'[pid'][b] = "brk"
                   \/ op' = "step" /\ opAddr' = b /\ Owner[opTid'] = pid'
<1>0. killed \subseteq killed' /\ bps' \subseteq Addrs
  <2>1. bps' \subseteq Addrs
    BY TypeStep DEF TypeOK, ManagerTypeOK
  <2>2. killed \subseteq killed'
    BY ZenonT(40) DEF Next, TargetStep, Request, AgentStep, Kill, Die, Execute, Signal, StartStop,
           ThreadExit, Clone, Set, Clear, ClearAll, Poll, Disconnect, AttachThread,
           AttachWait, Plant, HandleExit, HandleOther, HandleUnread, HandleHit, FinishStep, Report,
           TracerExit, vars, target
  <2> QED BY <2>1, <2>2
<1>1. CASE UNCHANGED <<text, pid, op, opAddr, opTid>> /\ bps' \subseteq bps
  BY <1>0, <1>1 DEF Armed
<1>2. CASE UNCHANGED <<text, pid>> /\ op # "step" /\ bps' \subseteq bps
  BY <1>0, <1>2 DEF Armed
<1>3. ASSUME NEW p \in Procs, NEW a \in Addrs, Set(p, a) PROVE Goal
  <2>1. pid' = pid /\ UNCHANGED <<text, bps>> /\ op = "idle"
    BY <1>3 DEF Set, ClearAllLocked, Forget, RegistrationAttached
  <2> QED BY <1>2, <2>1
<1>4. ASSUME NEW a \in Addrs, Clear(a) PROVE Goal
  <2>1. PICK t \in Threads \cup {NoThread} : text' = Restored({a}, t)
    BY <1>4 DEF Clear
  <2>2. /\ pid' = pid /\ op = "idle" /\ b # a /\ b \in bps
    BY <1>4 DEF Clear, Forget
  <2>3. text'[pid][b] = text[pid][b]
    BY <1>0, <2>1, <2>2, RestoredElsewhere
  <2> QED BY <1>0, <2>2, <2>3 DEF Armed
<1>5. ASSUME ClearAll \/ Disconnect PROVE Goal
  BY <1>5 DEF ClearAll, Disconnect, ClearAllLocked, Forget
<1>6. ASSUME Plant PROVE Goal
  <2>1. CASE UNCHANGED <<text, bps, pid>>
    BY <1>2, <1>6, <2>1 DEF Plant
  <2>2. CASE text' = [text EXCEPT ![pid][opAddr] = "brk"]
             /\ bps' = bps \cup {opAddr} /\ pid' = pid
    <3>1. pid \in Procs /\ opAddr \in Addrs /\ op # "step"
      BY <1>6 DEF Plant, TypeOK, CallTypeOK
    <3>2. CASE b = opAddr
      BY <2>2, <3>1, <3>2 DEF TypeOK, TargetTypeOK
    <3>3. CASE b # opAddr
      BY <1>0, <2>2, <3>1, <3>3 DEF Armed, TypeOK, TargetTypeOK
    <3> QED BY <3>2, <3>3
  <2> QED BY <1>6, <2>1, <2>2 DEF Plant
<1>7. ASSUME NEW t \in Threads, HandleExit(t) PROVE Goal
  <2>1. tids' # {}
    BY <1>7 DEF HandleExit, DropTable, Forget
  <2> QED BY <1>2, <1>7, <2>1 DEF HandleExit, Pumped
<1>8. ASSUME NEW t \in Threads, HandleHit(t) PROVE Goal
  <2> DEFINE a == HitAddr(at[t])
  <2>1. text' = Restored({a}, t) /\ opAddr' = a /\ opTid' = t /\ op' = "step"
        /\ op = "pump" /\ UNCHANGED <<pid, bps>>
    BY <1>8 DEF HandleHit, Pumped
  <2>2. CASE b = a /\ Owner[t] = pid
    BY <2>1, <2>2
  <2>3. CASE ~(b = a /\ Owner[t] = pid)
    <3>1. text'[pid][b] = text[pid][b]
      BY <1>0, <2>1, <2>3, RestoredElsewhere
    <3> QED BY <1>0, <2>1, <3>1 DEF Armed
  <2> QED BY <2>2, <2>3
<1>9. ASSUME FinishStep PROVE Goal
  <2>1. /\ opTid \in Threads /\ opAddr \in Addrs /\ Owner[opTid] \in Procs
        /\ op = "step" /\ UNCHANGED <<pid, bps, killed>>
    BY <1>9 DEF FinishStep, manager, TypeOK, CallTypeOK
  <2>2. CASE run[opTid] = "stepping"
    <3>1. text' = [text EXCEPT ![Owner[opTid]][opAddr] = "brk"]
      BY <1>9, <2>2 DEF FinishStep, InsertBreakpoint
    <3>2. CASE b = opAddr /\ Owner[opTid] = pid
      BY <2>1, <3>1, <3>2 DEF TypeOK, TargetTypeOK
    <3>3. CASE ~(b = opAddr /\ Owner[opTid] = pid)
      BY <1>0, <2>1, <3>1, <3>3 DEF Armed, TypeOK, TargetTypeOK
    <3> QED BY <3>2, <3>3
  <2>3. CASE run[opTid] # "stepping"
    <3>1. Owner[opTid] \in killed /\ UNCHANGED text
      BY <1>9, <2>3 DEF FinishStep, Held
    <3> QED BY <1>0, <2>1, <3>1 DEF Armed
  <2> QED BY <2>2, <2>3
<1>10. ASSUME NEW t \in Threads, AttachThread(t) \/ HandleOther(t) \/ HandleUnread(t)
       PROVE  Goal
  BY <1>2, <1>10 DEF AttachThread, HandleOther, HandleUnread, Pumped
<1>11. ASSUME NEW t \in Threads, NEW r \in {"stopped", "event", "running", "dead"},
              NEW S \in SUBSET {u \in Threads : Reapable(u)}, AttachWait(t, S, r)
       PROVE  Goal
  BY <1>2, <1>11 DEF AttachWait
<1>12. ASSUME NEW R \in SUBSET bps, Report(R) PROVE Goal
  BY <1>2, <1>12 DEF Report, target
<1>13. ASSUME Poll \/ TracerExit PROVE Goal
  BY <1>2, <1>13 DEF Poll, TracerExit, target, manager
<1>14. ASSUME TargetStep \/ UNCHANGED vars PROVE Goal
  BY <1>1, <1>14
  DEF TargetStep, Kill, Execute, Signal, StartStop, ThreadExit, Clone, vars, target,
      manager, call
<1> QED
  BY <1>3, <1>4, <1>5, <1>6, <1>7, <1>8, <1>9, <1>10, <1>11, <1>12, <1>13, <1>14
  DEF Next, Request, AgentStep

LEMMA Invariance == Spec => []IInv
<1>1. Init => IInv
  BY TypeInit DEF Init, IInv, Held, RegistrationAttached, Armed
<1>2. IInv /\ [Next]_vars => IInv'
  BY TypeStep, HeldStep, RegistrationStep, ArmedStep DEF IInv
<1> QED BY <1>1, <1>2, PTL DEF Spec

(* Breakpoints are in the table only while their process is attached through *)
(* a thread that stays attached.                                            *)
THEOREM TableHasTracee == Spec => []RegistrationAttached
<1>1. IInv => RegistrationAttached
  BY DEF IInv
<1> QED BY <1>1, Invariance, PTL

(* Every breakpoint of the table is in the text of the debugged process,    *)
(* except while one of its threads steps over it.                           *)
THEOREM BreakpointsArmed == Spec => []Armed
<1>1. IInv => Armed
  BY DEF IInv
<1> QED BY <1>1, Invariance, PTL
=============================================================================
