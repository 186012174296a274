------------------------- MODULE DebugSession_proofs -------------------------
(***************************************************************************)
(* Proofs about DebugSession, for every set of processes.                  *)
(*                                                                         *)
(* Everything the session does to a process is a chain of calls, and each  *)
(* call touches one process: Touches says what that means, and one lemma   *)
(* per call shows it.  RecordedStopsEnd then follows from what Release     *)
(* does to the process it lets go, and from the other calls of the same    *)
(* handler being about another process.  It needs Clean besides the types: *)
(* a process that died with its stop recorded has nothing left to resume.  *)
(* KeepsTracee follows the set of tracees through the same calls: only     *)
(* DetachDebugger shrinks it, by its own process, and the manager's Clear. *)
(***************************************************************************)
EXTENDS DebugSession, TLAPS

Clean(t) == \A p \in Procs : p \notin t.alive => p \notin t.gstop /\ t.late[p] = {}

(* u is t after a call about p: the stops of the others, and of a dead p,  *)
(* are what they were.                                                     *)
SameStops(t, u, q) == (q \in u.gstop <=> q \in t.gstop) /\ u.late[q] = t.late[q]
Touches(t, u, p) ==
  /\ u \in TargetType /\ u.alive = t.alive
  /\ \A q \in Procs : q # p \/ p \notin t.alive => SameStops(t, u, q)

IInv == TypeOK /\ Clean(target)

-----------------------------------------------------------------------------
LEMMA TouchesSelf == ASSUME NEW t \in TargetType, NEW p PROVE Touches(t, t, p)
  BY DEF Touches, SameStops

LEMMA TouchesTrans ==
  ASSUME NEW t, NEW u, NEW v, NEW p, Touches(t, u, p), Touches(u, v, p)
  PROVE  Touches(t, v, p)
  BY DEF Touches, SameStops

LEMMA TouchesClean ==
  ASSUME NEW t \in TargetType, Clean(t), NEW p \in Procs, NEW u, Touches(t, u, p)
  PROVE  u \in TargetType /\ Clean(u)
  BY DEF Touches, SameStops, Clean

-----------------------------------------------------------------------------
(* The calls. *)
Stops == {"none", "held", "event", "sigstop"}
Sent == {"trap", "sigstop"}

LEMMA ResultFields ==
  ASSUME NEW t, NEW b \in BOOLEAN
  PROVE  Result(t, b).t = t /\ Result(t, b).ok = b
  BY DEF Result

LEMMA TakeStopTouches ==
  ASSUME NEW t \in TargetType, NEW p \in t.alive, p \in Procs, NEW how \in Stops
  PROVE  Touches(t, TakeStop(t, p, how), p)
  BY DEF TakeStop, Mine, Stops, Touches, SameStops, TargetType

LEMMA LaterTouches ==
  ASSUME NEW t \in TargetType, NEW p \in t.alive, p \in Procs, NEW what \in SUBSET Sent
  PROVE  Touches(t, Later(t, p, what), p)
  BY DEF Later, Sent, Touches, SameStops, TargetType

LEMMA ContTouches ==
  ASSUME NEW t \in TargetType, NEW p \in Procs
  PROVE  Touches(t, Cont(t, p), p)
  BY DEF Cont, Touches, SameStops, TargetType

LEMMA UntracedTouches ==
  ASSUME NEW t \in TargetType, NEW p \in t.alive, p \in Procs
  PROVE  Touches(t, Untraced(t, p), p)
  BY DEF Untraced, AllUntraced, Touches, SameStops, TargetType

LEMMA ResumeTouches ==
  ASSUME NEW t \in TargetType, NEW p \in Procs, NEW r \in ResumeProcess(t, p)
  PROVE  /\ Touches(t, r.t, p) /\ r.ok \in BOOLEAN
         /\ Clean(t) => p \notin r.t.gstop /\ "sigstop" \notin r.t.late[p]
<1>1. CASE p \in t.alive
  <2>1. r = Result([t EXCEPT !.gstop = @ \ {p}, !.late[p] = @ \ {"sigstop"}], TRUE)
    BY <1>1 DEF ResumeProcess
  <2> QED
    BY <1>1, <2>1 DEF Result, Touches, SameStops, TargetType
<1>2. CASE p \notin t.alive
  <2>1. r = Result(t, FALSE)
    BY <1>2 DEF ResumeProcess
  <2> QED
    BY <1>2, <2>1, TouchesSelf DEF Result, Clean
<1> QED
  BY <1>1, <1>2

LEMMA StopTouches ==
  ASSUME NEW t \in TargetType, NEW p \in Procs, NEW r \in StopProcess(t, p)
  PROVE  Touches(t, r.t, p) /\ r.ok \in BOOLEAN
<1>1. CASE p \notin t.alive
  <2>1. r = Result(t, FALSE)
    BY <1>1 DEF StopProcess
  <2> QED
    BY <2>1, TouchesSelf, ResultFields, Zenon
<1>2. CASE p \in t.alive /\ Stopped(t, p)
  <2>1. r = Result([t EXCEPT !.gstop = @ \cup {p}], TRUE)
    BY <1>2 DEF StopProcess
  <2> QED
    BY <1>2, <2>1 DEF Result, Touches, SameStops, TargetType
<1>3. CASE p \in t.alive /\ ~Stopped(t, p)
  <2>1. \/ r = Result(TakeStop(t, p, "sigstop"), TRUE)
        \/ r = Result(Later(t, p, {"sigstop"}), FALSE)
    BY <1>3 DEF StopProcess, Asleep
  <2> QED
    <3>1. /\ Touches(t, TakeStop(t, p, "sigstop"), p)
          /\ Touches(t, Later(t, p, {"sigstop"}), p)
      BY <1>3, TakeStopTouches, LaterTouches DEF Stops, Sent
    <3> QED
      BY <2>1, <3>1, ResultFields, Zenon
<1> QED
  BY <1>1, <1>2, <1>3

LEMMA EnsuredFields ==
  ASSUME NEW t, NEW b \in BOOLEAN, NEW c \in BOOLEAN
  PROVE  /\ Ensured(t, b, c).t = t /\ Ensured(t, b, c).ok = b
         /\ Ensured(t, b, c).interrupted = c
  BY DEF Ensured

(* What EnsureTraceeStopped may do to a process that runs: stop it, leave   *)
(* stops pending, or both.                                                 *)
LEMMA EnsureOutcomes ==
  ASSUME NEW t \in TargetType, NEW p \in Procs, NEW r \in EnsureTraceeStopped(t, p)
  PROVE  /\ r.ok \in BOOLEAN /\ r.interrupted \in BOOLEAN
         /\ \/ r.t = t
            \/ /\ ~Stopped(t, p) /\ p \in t.alive
               /\ \/ r.t = TakeStop(t, p, "held")
                  \/ \E what \in SUBSET Sent :
                       \/ r.t = Later(t, p, what)
                       \/ r.t = Later(TakeStop(t, p, "held"), p, what)
<1>1. CASE Stopped(t, p) \/ p \notin t.alive
  <2>1. r = Ensured(t, TRUE, FALSE) \/ r = Ensured(t, FALSE, FALSE)
    BY <1>1 DEF EnsureTraceeStopped
  <2>2. r.t = t /\ r.ok \in BOOLEAN /\ r.interrupted \in BOOLEAN
    <3>1. CASE r = Ensured(t, TRUE, FALSE)
      BY <3>1, EnsuredFields
    <3>2. CASE r = Ensured(t, FALSE, FALSE)
      BY <3>2, EnsuredFields
    <3> QED
      BY <2>1, <3>1, <3>2, Zenon
  <2> QED
    BY <2>2, Zenon
<1>2. CASE ~Stopped(t, p) /\ p \in t.alive
  <2> DEFINE u == TakeStop(t, p, "held")
  <2>1. \/ r = Ensured(u, TRUE, TRUE) \/ r = Ensured(u, FALSE, FALSE)
        \/ r = Ensured(Later(u, p, {"sigstop"}), TRUE, TRUE)
        \/ r = Ensured(Later(t, p, {"trap", "sigstop"}), FALSE, FALSE)
        \/ r = Ensured(Later(t, p, {"sigstop"}), FALSE, FALSE)
    BY <1>2 DEF EnsureTraceeStopped, Asleep
  <2>2. /\ r.ok \in BOOLEAN /\ r.interrupted \in BOOLEAN
        /\ \/ r.t = u \/ r.t = Later(u, p, {"sigstop"})
           \/ r.t = Later(t, p, {"trap", "sigstop"}) \/ r.t = Later(t, p, {"sigstop"})
    <3> HIDE DEF u
    <3>1. CASE r = Ensured(u, TRUE, TRUE)
      BY <3>1, EnsuredFields
    <3>2. CASE r = Ensured(u, FALSE, FALSE)
      BY <3>2, EnsuredFields
    <3>3. CASE r = Ensured(Later(u, p, {"sigstop"}), TRUE, TRUE)
      BY <3>3, EnsuredFields
    <3>4. CASE r = Ensured(Later(t, p, {"trap", "sigstop"}), FALSE, FALSE)
      BY <3>4, EnsuredFields
    <3>5. CASE r = Ensured(Later(t, p, {"sigstop"}), FALSE, FALSE)
      BY <3>5, EnsuredFields
    <3> QED
      BY <2>1, <3>1, <3>2, <3>3, <3>4, <3>5, Zenon
  <2>3. {"sigstop"} \in SUBSET Sent /\ {"trap", "sigstop"} \in SUBSET Sent
    BY DEF Sent
  <2> QED
    BY <1>2, <2>2, <2>3, Zenon
<1> QED
  BY <1>1, <1>2

LEMMA EnsureTouches ==
  ASSUME NEW t \in TargetType, NEW p \in Procs, NEW r \in EnsureTraceeStopped(t, p)
  PROVE  Touches(t, r.t, p) /\ r.ok \in BOOLEAN
<1>1. CASE r.t = t
  BY <1>1, EnsureOutcomes, TouchesSelf
<1>2. CASE ~Stopped(t, p) /\ p \in t.alive
  <2> DEFINE u == TakeStop(t, p, "held")
  <2>1. Touches(t, u, p)
    BY <1>2, TakeStopTouches DEF Stops
  <2>2. u \in TargetType /\ p \in u.alive
    BY <1>2, <2>1 DEF Touches
  <2> HIDE DEF u
  <2>3. ASSUME NEW what \in SUBSET Sent
        PROVE  Touches(t, Later(t, p, what), p) /\ Touches(u, Later(u, p, what), p)
    BY <1>2, <2>2, LaterTouches
  <2>4. r.ok \in BOOLEAN
        /\ \/ r.t = t \/ r.t = u
           \/ \E what \in SUBSET Sent : r.t = Later(t, p, what) \/ r.t = Later(u, p, what)
    BY EnsureOutcomes, Zenon DEF u
  <2> QED
    BY <2>1, <2>3, <2>4, TouchesSelf, TouchesTrans
<1> QED
  BY <1>1, <1>2, EnsureOutcomes

LEMMA AttachTouches ==
  ASSUME NEW t \in TargetType, NEW p \in Procs, NEW r \in AttachDebugger(t, p)
  PROVE  Touches(t, r.t, p) /\ r.ok \in BOOLEAN
<1> DEFINE seized == [t EXCEPT !.traced = @ \cup {p}]
<1>1. CASE p \notin t.alive \/ Mine(t, p)
  <2>1. r = Result(t, TRUE) \/ r = Result(t, FALSE)
    BY <1>1 DEF AttachDebugger
  <2>2. r.t = t /\ (r.ok = TRUE \/ r.ok = FALSE)
    BY <2>1 DEF Result
  <2> QED
    BY <2>2, TouchesSelf
<1>2. CASE p \in t.alive /\ ~Mine(t, p)
  <2>1. seized \in TargetType /\ Touches(t, seized, p) /\ seized.alive = t.alive
    BY DEF Touches, SameStops, TargetType
  <2>2. Touches(seized, [seized EXCEPT !.stop[p] = "held"], p)
    BY <2>1 DEF Touches, SameStops, TargetType
  <2>3. Touches(seized, Later(seized, p, {"trap"}), p)
    BY <1>2, <2>1, LaterTouches DEF Sent
  <2>4. \/ r = Result([seized EXCEPT !.stop[p] = "held"], TRUE) \/ r = Result(t, FALSE)
        \/ r = Result(Later(seized, p, {"trap"}), FALSE)
    BY <1>2 DEF AttachDebugger, Asleep
  <2> HIDE DEF seized
  <2> QED
    <3>1. /\ Touches(t, [seized EXCEPT !.stop[p] = "held"], p)
          /\ Touches(t, Later(seized, p, {"trap"}), p) /\ Touches(t, t, p)
      BY <2>1, <2>2, <2>3, TouchesSelf, TouchesTrans, Zenon
    <3> QED
      BY <2>4, <3>1, ResultFields, Zenon
<1> QED
  BY <1>1, <1>2

LEMMA DetachTouches ==
  ASSUME NEW t \in TargetType, NEW p \in Procs, NEW r \in DetachDebugger(t, p)
  PROVE  Touches(t, r.t, p) /\ r.ok \in BOOLEAN
<1>1. CASE ~Mine(t, p)
  <2>1. r = Result(t, TRUE)
    BY <1>1 DEF DetachDebugger
  <2>2. r.t = t /\ r.ok = TRUE
    BY <2>1 DEF Result
  <2> QED
    BY <2>2, TouchesSelf
<1>2. CASE Mine(t, p)
  <2>1. PICK s \in EnsureTraceeStopped(t, p) :
          r = Result(IF s.ok THEN Untraced(s.t, p) ELSE s.t, TRUE)
    BY <1>2 DEF DetachDebugger
  <2>2. Touches(t, s.t, p) /\ s.t \in TargetType /\ p \in s.t.alive
    BY <1>2, EnsureTouches DEF Mine, Touches
  <2>3. Touches(s.t, Untraced(s.t, p), p)
    BY <2>2, UntracedTouches
  <2> QED
    BY <2>1, <2>2, <2>3, TouchesTrans DEF Result
<1> QED
  BY <1>1, <1>2

(* Letting go of the session's process ends the stop it recorded. *)
LEMMA ReleaseTouches ==
  ASSUME TypeOK, NEW r \in Release(target, debug_pid)
  PROVE  /\ r.ok \in BOOLEAN
         /\ IF debug_attached THEN Touches(target, r.t, debug_pid) ELSE r.t = target
         /\ Clean(target) /\ (debug_sigstop \/ debug_sigstop_sent)
            => debug_pid \notin r.t.gstop /\ "sigstop" \notin r.t.late[debug_pid]
<1>1. CASE ~debug_attached
  <2>1. r = Result(target, TRUE) /\ ~debug_sigstop /\ ~debug_sigstop_sent
    BY <1>1, Zenon DEF Release, TypeOK
  <2> QED
    BY <1>1, <2>1, ResultFields, Zenon
<1>2. CASE debug_attached /\ debug_sigstop
  BY <1>2, ResumeTouches DEF Release, TypeOK
<1>3. CASE debug_attached /\ ~debug_sigstop
  <2> DEFINE p == debug_pid
  <2>1. p \in Procs /\ target \in TargetType
    BY <1>3 DEF TypeOK
  <2>2. PICK d \in DetachDebugger(target, p) :
          r \in IF debug_sigstop_sent
                THEN {Result(q.t, q.ok /\ d.ok) : q \in ResumeProcess(d.t, p)}
                ELSE {d}
    BY <1>3, Zenon DEF Release
  <2>3. Touches(target, d.t, p) /\ d.ok \in BOOLEAN
    BY <2>1, DetachTouches
  <2>4. CASE ~debug_sigstop_sent
    BY <1>3, <2>2, <2>3, <2>4
  <2>5. CASE debug_sigstop_sent
    <3>1. PICK q \in ResumeProcess(d.t, p) : r = Result(q.t, q.ok /\ d.ok)
      BY <2>2, <2>5
    <3>2. d.t \in TargetType /\ (Clean(target) => Clean(d.t))
      BY <2>1, <2>3, TouchesClean DEF Touches
    <3>3. /\ Touches(d.t, q.t, p) /\ q.ok \in BOOLEAN
          /\ Clean(d.t) => p \notin q.t.gstop /\ "sigstop" \notin q.t.late[p]
      BY <2>1, <3>2, ResumeTouches
    <3>4. r.t = q.t /\ r.ok \in BOOLEAN
      BY <3>1 DEF Result
    <3> QED
      BY <1>3, <2>3, <3>2, <3>3, <3>4, TouchesTrans
  <2> QED
    BY <2>4, <2>5
<1> QED
  BY <1>1, <1>2, <1>3

-----------------------------------------------------------------------------
(* The manager and the end of a process. *)
LEMMA AllUntracedTyped ==
  ASSUME NEW t \in TargetType, NEW P \in SUBSET Procs
  PROVE  LET u == AllUntraced(t, P) IN
         /\ u \in TargetType /\ (Clean(t) => Clean(u)) /\ u.gstop = t.gstop
         /\ \A p \in Procs : u.late[p] \subseteq t.late[p]
  BY DEF AllUntraced, TargetType, Clean

LEMMA AllGoneTyped ==
  ASSUME NEW t \in TargetType, NEW P \in SUBSET Procs
  PROVE  LET u == AllGone(t, P) IN
         /\ u \in TargetType /\ (Clean(t) => Clean(u)) /\ u.gstop \subseteq t.gstop
         /\ \A p \in Procs : u.late[p] \subseteq t.late[p]
  BY DEF AllGone, TargetType, Clean

LEMMA ManagerClearTyped ==
  ASSUME NEW t \in TargetType, bpPid \in Procs, bpTids \subseteq Procs,
         NEW u \in ManagerClear(t)
  PROVE  /\ u \in TargetType /\ (Clean(t) => Clean(u)) /\ u.gstop = t.gstop
         /\ \A p \in Procs : u.late[p] \subseteq t.late[p]
<1>1. PICK q \in Procs : u = AllUntraced(RestoredBy(q, t), Freed(t))
  BY DEF ManagerClear
<1>2. /\ RestoredBy(q, t) \in TargetType /\ (Clean(t) => Clean(RestoredBy(q, t)))
      /\ RestoredBy(q, t).gstop = t.gstop /\ RestoredBy(q, t).late = t.late
  BY DEF RestoredBy, TargetType, Clean
<1>3. Freed(t) \subseteq Procs
  BY DEF Freed
<1> QED
  BY <1>1, <1>2, <1>3, AllUntracedTyped

-----------------------------------------------------------------------------
LEMMA IInvInit == Init => IInv
<1> SUFFICES ASSUME Init PROVE IInv
  OBVIOUS
<1>1. target \in TargetType /\ Clean(target)
  BY DEF Init, TargetType, Clean
<1> QED
  BY <1>1, Zenon DEF Init, IInv, TypeOK

SessionOK ==
  /\ debug_attached \in BOOLEAN /\ debug_pid \in Procs \cup {NoProc}
  /\ debug_sigstop \in BOOLEAN /\ debug_sigstop_sent \in BOOLEAN
  /\ debug_attached <=> debug_pid # NoProc
  /\ debug_sigstop => debug_sigstop_sent
  /\ debug_sigstop_sent => debug_attached
ManagerOK ==
  /\ bpPid \in Procs \cup {NoProc} /\ bpTids \subseteq Procs
  /\ bpPid = NoProc => bpTids = {}

LEMMA TypeParts ==
  TypeOK <=> target \in TargetType /\ SessionOK /\ ManagerOK /\ op \in {"idle", "in", "over"}
  BY DEF TypeOK, SessionOK, ManagerOK

LEMMA ForgetOK == Forget => SessionOK'
  BY ProcAssumption, Zenon DEF Forget, Remember, SessionOK

LEMMA SessionKept == SessionOK /\ UNCHANGED session => SessionOK'
  BY DEF SessionOK, session

LEMMA ManagerKept == ManagerOK /\ UNCHANGED manager => ManagerOK'
  BY DEF ManagerOK, manager

(* Attaching: what the handler did to the process let go and the new one. *)
LEMMA AttachNewTouches ==
  ASSUME IInv, NEW p \in Procs, NEW allow \in BOOLEAN, AttachNew(p, allow)
  PROVE  /\ target' \in TargetType /\ Clean(target') /\ SessionOK'
         /\ debug_pid' \in {p, NoProc}
         /\ debug_sigstop \/ debug_sigstop_sent =>
              debug_pid \notin target'.gstop /\ "sigstop" \notin target'.late[debug_pid]
<1>1. PICK r \in Release(target, debug_pid) :
        \E s \in IF allow THEN StopProcess(r.t, p) ELSE {Result(r.t, FALSE)} :
          \E a \in AttachDebugger(s.t, p) :
            /\ target' = a.t
            /\ IF a.ok THEN Remember(TRUE, p, FALSE, s.ok)
               ELSE IF s.ok THEN Remember(TRUE, p, TRUE, TRUE)
               ELSE Forget
  BY Zenon DEF AttachNew
<1>2. PICK s \in IF allow THEN StopProcess(r.t, p) ELSE {Result(r.t, FALSE)} :
        \E a \in AttachDebugger(s.t, p) :
          /\ target' = a.t
          /\ IF a.ok THEN Remember(TRUE, p, FALSE, s.ok)
             ELSE IF s.ok THEN Remember(TRUE, p, TRUE, TRUE)
             ELSE Forget
  BY <1>1, Zenon
<1>3. PICK a \in AttachDebugger(s.t, p) :
        /\ target' = a.t
        /\ IF a.ok THEN Remember(TRUE, p, FALSE, s.ok)
           ELSE IF s.ok THEN Remember(TRUE, p, TRUE, TRUE)
           ELSE Forget
  BY <1>2, Zenon
<1>4. /\ target \in TargetType /\ Clean(target)
      /\ debug_attached => debug_pid \in Procs
      /\ debug_sigstop \/ debug_sigstop_sent => debug_attached /\ debug_pid # p
  BY DEF IInv, TypeOK, AttachNew
<1>5. /\ IF debug_attached THEN Touches(target, r.t, debug_pid) ELSE r.t = target
      /\ debug_sigstop \/ debug_sigstop_sent =>
           debug_pid \notin r.t.gstop /\ "sigstop" \notin r.t.late[debug_pid]
  BY <1>1, <1>4, ReleaseTouches DEF IInv
<1>6. r.t \in TargetType /\ Clean(r.t)
  BY <1>4, <1>5, TouchesClean DEF Touches
<1>7. Touches(r.t, s.t, p) /\ s.ok \in BOOLEAN
  <2>1. CASE allow
    BY <1>2, <1>6, <2>1, StopTouches
  <2>2. CASE ~allow
    <3>1. s = Result(r.t, FALSE)
      BY <1>2, <2>2
    <3> QED
      BY <1>6, <3>1, TouchesSelf, ResultFields, Zenon
  <2> QED
    BY <2>1, <2>2
<1>8. s.t \in TargetType /\ Clean(s.t)
  BY <1>6, <1>7, TouchesClean
<1>9. Touches(s.t, target', p)
  BY <1>3, <1>8, AttachTouches
<1>10. Touches(r.t, target', p)
  BY <1>7, <1>9, TouchesTrans
<1>11. target' \in TargetType /\ Clean(target')
  BY <1>8, <1>9, TouchesClean
<1>12. SessionOK' /\ debug_pid' \in {p, NoProc}
  <2>1. p # NoProc
    BY ProcAssumption
  <2>2. CASE Remember(TRUE, p, FALSE, s.ok) \/ Remember(TRUE, p, TRUE, TRUE)
    BY <1>7, <2>1, <2>2, Zenon DEF Remember, SessionOK
  <2>3. CASE Forget
    BY <2>3, ForgetOK, Zenon DEF Forget, Remember
  <2> QED
    BY <1>3, <2>2, <2>3, Zenon
<1>13. ASSUME debug_sigstop \/ debug_sigstop_sent
       PROVE  debug_pid \notin target'.gstop /\ "sigstop" \notin target'.late[debug_pid]
  BY <1>4, <1>5, <1>10, <1>13 DEF Touches, SameStops
<1> QED
  BY <1>11, <1>12, <1>13

LEMMA DetachCommand ==
  ASSUME IInv, NEW code \in BOOLEAN, DebugDetach(code)
  PROVE  /\ target' \in TargetType /\ Clean(target')
         /\ (debug_sigstop \/ debug_sigstop_sent) /\ bpPid # debug_pid =>
              debug_pid \notin target'.gstop /\ "sigstop" \notin target'.late[debug_pid]
<1>1. target \in TargetType /\ Clean(target) /\ (debug_attached => debug_pid \in Procs)
  BY DEF IInv, TypeOK
<1>2. CASE debug_attached /\ bpPid = debug_pid
  BY <1>1, <1>2 DEF DebugDetach, Answer
<1>3. CASE ~(debug_attached /\ bpPid = debug_pid)
  <2>1. PICK r \in Release(target, debug_pid) : target' = r.t
    BY <1>3, Zenon DEF DebugDetach, Answer
  <2>2. /\ IF debug_attached THEN Touches(target, r.t, debug_pid) ELSE r.t = target
        /\ debug_sigstop \/ debug_sigstop_sent =>
             debug_pid \notin r.t.gstop /\ "sigstop" \notin r.t.late[debug_pid]
    BY <1>1, <2>1, ReleaseTouches DEF IInv
  <2> QED
    BY <1>1, <2>1, <2>2, TouchesClean
<1> QED
  BY <1>2, <1>3

LEMMA CloseCommand ==
  ASSUME IInv, Close
  PROVE  /\ target' \in TargetType /\ Clean(target')
         /\ debug_sigstop \/ debug_sigstop_sent =>
              debug_pid \notin target'.gstop /\ "sigstop" \notin target'.late[debug_pid]
<1>1. /\ target \in TargetType /\ Clean(target) /\ (debug_attached => debug_pid \in Procs)
      /\ debug_sigstop \/ debug_sigstop_sent => debug_attached
      /\ bpPid # NoProc => bpPid \in Procs
      /\ bpTids \subseteq Procs
  BY DEF IInv, TypeOK
<1>2. PICK r \in Release(target, debug_pid) :
        \E t \in IF bpPid # NoProc THEN ManagerClear(r.t) ELSE {r.t} :
          target' = AllUntraced(AllGone(t, bpTids \cap t.traced), Procs)
  BY Zenon DEF Close
<1>3. /\ r.t \in TargetType /\ Clean(r.t)
      /\ debug_sigstop \/ debug_sigstop_sent =>
           debug_pid \notin r.t.gstop /\ "sigstop" \notin r.t.late[debug_pid]
  BY <1>1, <1>2, ReleaseTouches, TouchesClean DEF IInv
<1>4. PICK t \in IF bpPid # NoProc THEN ManagerClear(r.t) ELSE {r.t} :
        target' = AllUntraced(AllGone(t, bpTids \cap t.traced), Procs)
  BY <1>2, Zenon
<1>5. /\ t \in TargetType /\ Clean(t) /\ t.gstop = r.t.gstop
      /\ \A p \in Procs : t.late[p] \subseteq r.t.late[p]
  BY <1>1, <1>3, <1>4, ManagerClearTyped
<1> DEFINE u == AllGone(t, bpTids \cap t.traced)
<1>6. /\ u \in TargetType /\ Clean(u) /\ u.gstop \subseteq t.gstop
      /\ \A p \in Procs : u.late[p] \subseteq t.late[p]
  <2>1. bpTids \cap t.traced \in SUBSET Procs
    BY <1>1
  <2> QED
    BY <1>5, <2>1, AllGoneTyped
<1>7. /\ target' \in TargetType /\ Clean(target') /\ target'.gstop = u.gstop
      /\ \A p \in Procs : target'.late[p] \subseteq u.late[p]
  BY <1>4, <1>6, AllUntracedTyped
<1> HIDE DEF u
<1> QED
  BY <1>1, <1>3, <1>5, <1>6, <1>7

-----------------------------------------------------------------------------
(* Every step keeps the types and leaves nothing of the dead. *)
LEMMA Kept ==
  ASSUME IInv, target' \in TargetType, Clean(target'), SessionOK', ManagerOK',
         op' \in {"idle", "in", "over"}
  PROVE  IInv'
  BY TypeParts DEF IInv, TypeOK, SessionOK, ManagerOK, Clean

(* A handler that leaves the session alone and makes calls about p. *)
LEMMA CallsKept ==
  ASSUME IInv, NEW p \in Procs, Touches(target, target', p)
  PROVE  target' \in TargetType /\ Clean(target')
  BY TouchesClean DEF IInv, TypeOK

LEMMA CallStep ==
  ASSUME IInv, NEW p \in Procs, Touches(target, target', p), UNCHANGED session,
         ManagerOK', op' \in {"idle", "in", "over"}
  PROVE  IInv'
  BY Kept, CallsKept, SessionKept, TypeParts DEF IInv

LEMMA AttachSharedStep == ASSUME IInv, NEW p \in Procs, AttachShared(p) PROVE IInv'
<1>1. SessionOK'
  BY ProcAssumption, Zenon DEF AttachShared, Remember, SessionOK
<1>2. target' = target /\ ManagerOK' /\ op' = op
  BY TypeParts, ManagerKept DEF AttachShared, IInv
<1> QED
  BY <1>1, <1>2, Kept, TypeParts DEF IInv

LEMMA AttachNewStep ==
  ASSUME IInv, NEW p \in Procs, NEW allow \in BOOLEAN, AttachNew(p, allow) PROVE IInv'
<1>1. ManagerOK' /\ op' = op
  BY TypeParts, ManagerKept DEF AttachNew, IInv
<1> QED
  BY <1>1, AttachNewTouches, Kept, TypeParts DEF IInv

LEMMA DetachStep ==
  ASSUME IInv, NEW code \in BOOLEAN, DebugDetach(code) PROVE IInv'
<1>1. ManagerOK' /\ op' = op /\ SessionOK'
  BY TypeParts, ManagerKept, ForgetOK DEF DebugDetach, IInv
<1> QED
  BY <1>1, DetachCommand, Kept, TypeParts DEF IInv

LEMMA CloseStep == ASSUME IInv, Close PROVE IInv'
<1>1. ManagerOK' /\ op' = op /\ SessionOK'
  BY ForgetOK DEF Close, ManagerOK
<1> QED
  BY <1>1, CloseCommand, Kept, TypeParts DEF IInv

LEMMA GiveBackTouches ==
  ASSUME NEW t \in TargetType, NEW p \in Procs, NEW b, NEW u \in GiveBack(t, p, b)
  PROVE  Touches(t, u, p)
<1>1. CASE ~AlreadyAttached(p)
  <2>1. PICK d \in DetachDebugger(t, p) : u = d.t
    BY <1>1 DEF GiveBack
  <2> QED
    BY <2>1, DetachTouches
<1>2. CASE AlreadyAttached(p)
  <2>1. u = Cont(t, p) \/ u = t
    BY <1>2 DEF GiveBack
  <2> QED
    BY <2>1, ContTouches, TouchesSelf
<1> QED
  BY <1>1, <1>2

LEMMA GetRegsStep ==
  ASSUME IInv, NEW p \in Procs, NEW code \in BOOLEAN, GetRegs(p, code) PROVE IInv'
<1>1. target \in TargetType /\ ManagerOK' /\ op' = op /\ op \in {"idle", "in", "over"}
  BY TypeParts, ManagerKept DEF GetRegs, IInv
<1> DEFINE From(a) == IF AlreadyAttached(p) /\ ~Peekable(a.t, p)
                      THEN EnsureTraceeStopped(a.t, p)
                      ELSE {Ensured(a.t, TRUE, FALSE)}
<1>2. PICK a \in IF AlreadyAttached(p) THEN {Result(target, TRUE)}
               ELSE AttachDebugger(target, p) :
        IF ~a.ok THEN target' = a.t
        ELSE \E s \in From(a) : \E t \in GiveBack(s.t, p, s.interrupted) : target' = t
  BY Zenon DEF GetRegs, Answer
<1>3. Touches(target, a.t, p) /\ a.t \in TargetType
  <2>1. CASE AlreadyAttached(p)
    <3>1. a.t = target
      BY <1>2, <2>1 DEF Result
    <3> QED
      BY <1>1, <3>1, TouchesSelf
  <2>2. CASE ~AlreadyAttached(p)
    BY <1>1, <1>2, <2>2, AttachTouches DEF Touches
  <2> QED
    BY <2>1, <2>2
<1>4. Touches(target, target', p)
  <2>1. CASE ~a.ok
    BY <1>2, <1>3, <2>1
  <2>2. CASE a.ok
    <3>1. PICK s \in From(a) : \E t \in GiveBack(s.t, p, s.interrupted) : target' = t
      BY <1>2, <2>2
    <3>2. Touches(a.t, s.t, p) /\ s.t \in TargetType
      <4>1. CASE AlreadyAttached(p) /\ ~Peekable(a.t, p)
        BY <1>3, <3>1, <4>1, EnsureTouches DEF Touches
      <4>2. CASE ~(AlreadyAttached(p) /\ ~Peekable(a.t, p))
        <5>1. s = Ensured(a.t, TRUE, FALSE)
          BY <3>1, <4>2
        <5> QED
          BY <1>3, <5>1, EnsuredFields, TouchesSelf
      <4> QED
        BY <4>1, <4>2
    <3>3. Touches(s.t, target', p)
      BY <3>1, <3>2, GiveBackTouches
    <3> QED
      BY <1>3, <3>2, <3>3, TouchesTrans
  <2> QED
    BY <2>1, <2>2
<1>5. UNCHANGED session
  BY DEF GetRegs
<1> QED
  BY <1>1, <1>4, <1>5, CallStep

LEMMA StepStartStep ==
  ASSUME IInv, NEW how \in {"in", "over"}, StepStart(how) PROVE IInv'
<1> DEFINE p == debug_pid
<1>1. /\ target \in TargetType /\ ManagerOK' /\ op \in {"idle", "in", "over"}
      /\ p \in Procs
  BY TypeParts, ManagerKept DEF StepStart, IInv, Controlled, SessionOK
<1>2. PICK s \in EnsureTraceeStopped(target, p) :
        IF s.ok /\ Peekable(s.t, p)
        THEN /\ op' = how
             /\ target' = LET c == Cont(s.t, p)
                          IN IF how = "over"
                             THEN [c EXCEPT !.brk[p] = @ \cup {"next"}]
                             ELSE c
        ELSE target' = s.t /\ UNCHANGED op
  BY Zenon DEF StepStart
<1>3. Touches(target, s.t, p) /\ s.t \in TargetType
  BY <1>1, <1>2, EnsureTouches DEF Touches
<1> DEFINE c == Cont(s.t, p)
<1>4. Touches(s.t, c, p) /\ c \in TargetType
  BY <1>1, <1>3, ContTouches DEF Touches
<1> HIDE DEF c
<1>5. Touches(c, [c EXCEPT !.brk[p] = @ \cup {"next"}], p)
  BY <1>1, <1>4 DEF Touches, SameStops, TargetType
<1>6. Touches(s.t, target', p) /\ op' \in {"idle", "in", "over"}
  <2>1. CASE s.ok /\ Peekable(s.t, p)
    <3>1. op' = how /\ target' = IF how = "over"
                                 THEN [c EXCEPT !.brk[p] = @ \cup {"next"}] ELSE c
      BY <1>2, <2>1 DEF c
    <3> QED
      BY <1>4, <1>5, <3>1, TouchesTrans
  <2>2. CASE ~(s.ok /\ Peekable(s.t, p))
    BY <1>1, <1>2, <1>3, <2>2, TouchesSelf
  <2> QED
    BY <2>1, <2>2
<1>7. UNCHANGED session
  BY DEF StepStart
<1> QED
  BY <1>1, <1>3, <1>6, <1>7, TouchesTrans, CallStep

LEMMA StepEndStep ==
  ASSUME IInv, NEW code \in BOOLEAN, StepEnd(code) PROVE IInv'
<1> DEFINE p == debug_pid
           held == IF Peekable(target, p) THEN [target EXCEPT !.stop[p] = "held"]
                   ELSE target
<1>1. /\ target' = RestoreNext(held, p) /\ op' = "idle" /\ UNCHANGED session
      /\ target \in TargetType /\ Clean(target) /\ ManagerOK' /\ SessionOK'
  BY TypeParts, ManagerKept, SessionKept DEF StepEnd, Answer, IInv
<1>2. held \in TargetType /\ held.gstop = target.gstop /\ held.late = target.late
      /\ held.alive = target.alive
  BY <1>1 DEF TargetType
<1> HIDE DEF held
<1>3. /\ target' \in TargetType /\ target'.alive = held.alive
      /\ target'.gstop = held.gstop /\ target'.late = held.late
  BY <1>1, <1>2 DEF RestoreNext, TargetType
<1> QED
  BY <1>1, <1>2, <1>3, Kept DEF Clean

(* The manager. *)
LEMMA BpSetStep == ASSUME IInv, NEW p \in Procs, BpSet(p) PROVE IInv'
<1>1. PICK t0 \in IF bpPid # NoProc THEN ManagerClear(target) ELSE {target} :
        \E a \in AttachDebugger(t0, p) :
          IF a.ok
          THEN /\ bpPid' = p /\ bpTids' = {p}
               /\ target' = IF ~Peekable(a.t, p) THEN a.t
                            ELSE LET set == [a.t EXCEPT !.brk[p] = @ \cup {"bp"}]
                                 IN IF Mine(t0, p) THEN set ELSE Cont(set, p)
          ELSE /\ bpPid' = NoProc /\ bpTids' = {}
               /\ target' = a.t
  BY Zenon DEF BpSet
<1>2. PICK a \in AttachDebugger(t0, p) :
        IF a.ok
        THEN /\ bpPid' = p /\ bpTids' = {p}
             /\ target' = IF ~Peekable(a.t, p) THEN a.t
                          ELSE LET set == [a.t EXCEPT !.brk[p] = @ \cup {"bp"}]
                               IN IF Mine(t0, p) THEN set ELSE Cont(set, p)
        ELSE /\ bpPid' = NoProc /\ bpTids' = {}
             /\ target' = a.t
  BY <1>1, Zenon
<1>3. /\ target \in TargetType /\ Clean(target) /\ op' = op /\ op \in {"idle", "in", "over"}
      /\ SessionOK' /\ ManagerOK /\ bpTids \subseteq Procs
  BY TypeParts, SessionKept DEF BpSet, IInv, ManagerOK
<1>4. t0 \in TargetType /\ Clean(t0)
  BY <1>1, <1>3, ManagerClearTyped DEF ManagerOK
<1>5. a.t \in TargetType /\ Clean(a.t)
  BY <1>2, <1>4, AttachTouches, TouchesClean
<1> DEFINE set == [a.t EXCEPT !.brk[p] = @ \cup {"bp"}]
<1>6. set \in TargetType /\ Clean(set)
  BY <1>5 DEF TargetType, Clean
<1>7. Cont(set, p) \in TargetType /\ Clean(Cont(set, p))
  BY <1>6, ContTouches, TouchesClean
<1>8. target' \in TargetType /\ Clean(target')
  <2>1. target' \in {a.t, set, Cont(set, p)}
    BY <1>2
  <2> QED
    BY <1>5, <1>6, <1>7, <2>1
<1>9. ManagerOK'
  <2>1. p # NoProc
    BY ProcAssumption
  <2> QED
    BY <1>2, <2>1 DEF ManagerOK
<1> QED
  BY <1>3, <1>8, <1>9, Kept

LEMMA BpClearStep == ASSUME IInv, BpClear PROVE IInv'
<1>1. PICK t \in ManagerClear(target) : target' = t
  BY DEF BpClear
<1>2. /\ target \in TargetType /\ Clean(target) /\ op' \in {"idle", "in", "over"}
      /\ SessionOK' /\ ManagerOK' /\ bpPid \in Procs /\ bpTids \subseteq Procs
  BY TypeParts, SessionKept DEF BpClear, IInv, ManagerOK
<1>3. target' \in TargetType /\ Clean(target')
  BY <1>1, <1>2, ManagerClearTyped
<1> QED
  BY <1>2, <1>3, Kept

LEMMA BpPollStep == ASSUME IInv, NEW p \in Procs, BpPoll(p) PROVE IInv'
<1> DEFINE c == Cont(target, p)
<1>1. /\ target \in TargetType /\ Clean(target) /\ op' \in {"idle", "in", "over"}
      /\ SessionOK' /\ ManagerOK'
  BY TypeParts, SessionKept DEF BpPoll, IInv, ManagerOK
<1>2. c \in TargetType /\ Clean(c) /\ c.alive = target.alive
  BY <1>1, ContTouches, TouchesClean DEF Touches
<1>3. p \in target.alive
  BY DEF BpPoll, Peekable, Mine
<1>4. target' = [c EXCEPT !.gstop = IF target.stop[p] = "sigstop"
                                    THEN c.gstop \cup {p} ELSE c.gstop]
  BY DEF BpPoll
<1> HIDE DEF c
<1>5. target' \in TargetType /\ Clean(target')
  BY <1>2, <1>3, <1>4 DEF TargetType, Clean
<1> QED
  BY <1>1, <1>5, Kept

LEMMA BpReapStep == ASSUME IInv, BpReap PROVE IInv'
<1>1. /\ target' = target /\ target \in TargetType /\ Clean(target)
      /\ op' \in {"idle", "in", "over"} /\ SessionOK' /\ ManagerOK'
  BY TypeParts, SessionKept DEF BpReap, IInv, ManagerOK
<1> QED
  BY <1>1, Kept

LEMMA PerfWatchReadStep == ASSUME IInv, NEW p \in Procs, PerfWatchRead(p) PROVE IInv'
<1>1. /\ target \in TargetType /\ Clean(target) /\ UNCHANGED session
      /\ op' \in {"idle", "in", "over"} /\ ManagerOK'
  BY TypeParts, ManagerKept DEF PerfWatchRead, IInv
<1>2. PICK a \in AttachDebugger(target, p) :
        IF a.ok THEN \E d \in DetachDebugger(a.t, p) : target' = d.t
        ELSE target' = a.t
  BY Zenon DEF PerfWatchRead
<1>3. Touches(target, a.t, p) /\ a.t \in TargetType
  BY <1>1, <1>2, AttachTouches DEF Touches
<1>4. Touches(a.t, target', p)
  <2>1. CASE a.ok
    BY <1>2, <1>3, <2>1, DetachTouches
  <2>2. CASE ~a.ok
    BY <1>2, <1>3, <2>2, TouchesSelf
  <2> QED
    BY <2>1, <2>2
<1> QED
  BY <1>1, <1>3, <1>4, TouchesTrans, CallStep

(* The target. *)
LEMMA TargetKept ==
  ASSUME IInv, target' \in TargetType, Clean(target'), UNCHANGED <<manager, session, op>>
  PROVE  IInv'
  BY Kept, TypeParts, SessionKept, ManagerKept DEF IInv

LEMMA GoneClean ==
  ASSUME NEW t \in TargetType, Clean(t), NEW p \in Procs
  PROVE  Gone(t, p) \in TargetType /\ Clean(Gone(t, p))
<1>1. {p} \in SUBSET Procs
  OBVIOUS
<1> QED
  BY <1>1, AllGoneTyped DEF Gone

LEMMA TargetStep ==
  ASSUME IInv, NEW p \in Procs, HitBrk(p) \/ TakeSignal(p) \/ TakeLate(p) \/ Die(p)
  PROVE  IInv'
<1>1. target \in TargetType /\ Clean(target)
  BY TypeParts DEF IInv
<1>2. UNCHANGED <<manager, session, op>>
  BY DEF HitBrk, TakeSignal, TakeLate, Die
<1>3. Gone(target, p) \in TargetType /\ Clean(Gone(target, p))
  BY <1>1, GoneClean
<1>4. LET u == [target EXCEPT !.stop[p] = "event"] IN u \in TargetType /\ Clean(u)
  BY <1>1 DEF TargetType, Clean
<1>5. CASE HitBrk(p) \/ TakeSignal(p) \/ Die(p)
  <2>1. target' = Gone(target, p) \/ target' = [target EXCEPT !.stop[p] = "event"]
    BY <1>5 DEF HitBrk, TakeSignal, Die
  <2> QED
    BY <1>2, <1>3, <1>4, <2>1, TargetKept
<1>6. CASE TakeLate(p)
  <2>1. PICK what \in target.late[p] :
          target' = [TakeStop(target, p, IF what = "trap" THEN "event" ELSE what)
                       EXCEPT !.late[p] = @ \ {what}]
    BY <1>6 DEF TakeLate
  <2> DEFINE u == TakeStop(target, p, IF what = "trap" THEN "event" ELSE what)
  <2>2. what \in Sent /\ p \in target.alive
    BY <1>1, <1>6, <2>1 DEF TargetType, Sent, TakeLate
  <2>3. Touches(target, u, p)
    <3>1. (IF what = "trap" THEN "event" ELSE what) \in Stops
      BY <2>2 DEF Sent, Stops
    <3> QED
      BY <1>1, <2>2, <3>1, TakeStopTouches
  <2>4. u \in TargetType /\ Clean(u) /\ u.alive = target.alive
    BY <1>1, <2>3, TouchesClean DEF Touches
  <2>5. target' = [u EXCEPT !.late[p] = @ \ {what}]
    BY <2>1
  <2> HIDE DEF u
  <2>6. target' \in TargetType /\ Clean(target')
    BY <2>4, <2>5 DEF TargetType, Clean
  <2> QED
    BY <1>2, <2>6, TargetKept
<1> QED
  BY <1>5, <1>6

LEMMA StutterStep == ASSUME IInv, UNCHANGED vars PROVE IInv'
<1>1. target' = target /\ UNCHANGED <<manager, session, op>>
  BY DEF vars
<1> QED
  BY <1>1, TypeParts, TargetKept DEF IInv

LEMMA IInvStep == ASSUME IInv, [Next]_vars PROVE IInv'
<1>1. ASSUME NEW p \in Procs, NEW allow \in BOOLEAN, DebugAttach(p, allow) PROVE IInv'
  <2>1. CASE AttachAgain(p)
    <3>1. UNCHANGED vars
      BY <2>1 DEF AttachAgain, vars
    <3> QED
      BY <3>1, StutterStep
  <2> QED
    BY <1>1, <2>1, AttachSharedStep, AttachNewStep DEF DebugAttach
<1>2. ASSUME NEW p \in Procs, BpSet(p) \/ BpPoll(p) \/ PerfWatchRead(p) PROVE IInv'
  BY <1>2, BpSetStep, BpPollStep, PerfWatchReadStep
<1>3. CASE BpClear \/ BpReap \/ Close
  BY <1>3, BpClearStep, BpReapStep, CloseStep
<1> QED
  BY <1>1, <1>2, <1>3, GetRegsStep, StepStartStep, DetachStep, StepEndStep, TargetStep,
     StutterStep DEF Next, Command

-----------------------------------------------------------------------------
LEMMA AlwaysIInv == Spec => []IInv
BY IInvInit, IInvStep, PTL DEF Spec

(* Whatever the processes and the calls, what the session remembers is     *)
(* consistent: a process is remembered exactly while one is attached, a     *)
(* stop is recorded only then, and the manager holds no thread of none.    *)
THEOREM DebugTypeCorrect == Spec => []TypeOK
<1>1. IInv => TypeOK
  BY DEF IInv
<1> QED
  BY <1>1, AlwaysIInv, PTL

(* The record of a stop is dropped in four places of the code (DEBUG_ATTACH *)
(* of another process, its failure, DEBUG_DETACH, the end of the           *)
(* connection), and in each of them the stop has ended before.             *)
THEOREM RecordedStops == Spec => RecordedStopsEnd
<1> DEFINE Ends ==
      /\ debug_sigstop \/ debug_sigstop_sent
      /\ debug_pid' # debug_pid
      /\ ~LeavesToManager /\ ~\E p \in Procs : AttachShared(p)
      => debug_pid \notin target'.gstop /\ "sigstop" \notin (target'.late[debug_pid])
<1>1. IInv /\ [Next]_vars => [Ends]_vars
  <2> SUFFICES ASSUME IInv, Next,
                      debug_sigstop \/ debug_sigstop_sent, debug_pid' # debug_pid,
                      ~LeavesToManager, ~\E p \in Procs : AttachShared(p)
               PROVE  debug_pid \notin target'.gstop
                      /\ "sigstop" \notin target'.late[debug_pid]
    OBVIOUS
  <2>1. ~\E p \in Procs : \/ AttachAgain(p)
                          \/ BpSet(p) \/ BpPoll(p) \/ PerfWatchRead(p)
                          \/ HitBrk(p) \/ TakeSignal(p) \/ TakeLate(p) \/ Die(p)
                          \/ \E code \in BOOLEAN : GetRegs(p, code)
    BY DEF AttachAgain, BpSet, BpPoll, PerfWatchRead, HitBrk, TakeSignal,
           TakeLate, Die, GetRegs, Remember, session
  <2>2. ~(BpClear \/ BpReap \/ \E how \in {"in", "over"} : StepStart(how))
        /\ ~\E code \in BOOLEAN : StepEnd(code)
    BY DEF BpClear, BpReap, StepStart, StepEnd, session
  <2>3. \/ \E p \in Procs : \E allow \in BOOLEAN : AttachNew(p, allow)
        \/ \E code \in BOOLEAN : DebugDetach(code)
        \/ Close
    BY <2>1, <2>2, Zenon DEF Next, Command, DebugAttach
  <2>4. bpPid # debug_pid \/ ~\E code \in BOOLEAN : DebugDetach(code)
    BY DEF LeavesToManager
  <2> QED
    BY <2>3, <2>4, AttachNewTouches, DetachCommand, CloseCommand
<1> QED
  BY <1>1, AlwaysIInv, PTL DEF Spec, RecordedStopsEnd

-----------------------------------------------------------------------------
(* Who stays traced: only DetachDebugger takes a tracee, its own.          *)
LEMMA StopOrSendTraced ==
  ASSUME NEW t \in TargetType, NEW p, NEW x
  PROVE  /\ TakeStop(t, p, x).traced = t.traced
         /\ Later(t, p, x).traced = t.traced
         /\ Cont(t, p).traced = t.traced
  BY DEF TakeStop, Later, Cont, TargetType

LEMMA EnsureTraced ==
  ASSUME NEW t \in TargetType, NEW p \in Procs, NEW r \in EnsureTraceeStopped(t, p)
  PROVE  r.t.traced = t.traced
<1> DEFINE u == TakeStop(t, p, "held")
<1>1. \/ r.t = t
      \/ /\ p \in t.alive
         /\ \/ r.t = u
            \/ \E what \in SUBSET Sent : r.t = Later(t, p, what) \/ r.t = Later(u, p, what)
  BY EnsureOutcomes, Zenon
<1>2. p \in t.alive => u \in TargetType
  BY TakeStopTouches DEF Touches, Stops
<1>3. u.traced = t.traced
  BY StopOrSendTraced
<1> HIDE DEF u
<1> QED
  BY <1>1, <1>2, <1>3, StopOrSendTraced

LEMMA AttachTraced ==
  ASSUME NEW t \in TargetType, NEW p \in Procs, NEW r \in AttachDebugger(t, p)
  PROVE  t.traced \subseteq r.t.traced /\ (r.ok => p \in r.t.traced)
<1> DEFINE seized == [t EXCEPT !.traced = @ \cup {p}]
<1>1. CASE p \notin t.alive \/ Mine(t, p)
  BY <1>1 DEF AttachDebugger, Result, Mine
<1>2. CASE p \in t.alive /\ ~Mine(t, p)
  <2>1. seized \in TargetType /\ seized.traced = t.traced \cup {p}
    BY DEF TargetType
  <2>2. \/ r = Result([seized EXCEPT !.stop[p] = "held"], TRUE) \/ r = Result(t, FALSE)
        \/ r = Result(Later(seized, p, {"trap"}), FALSE)
    BY <1>2 DEF AttachDebugger, Asleep
  <2>3. /\ [seized EXCEPT !.stop[p] = "held"].traced = seized.traced
        /\ Later(seized, p, {"trap"}).traced = seized.traced
    BY <2>1, StopOrSendTraced DEF TargetType
  <2> HIDE DEF seized
  <2>4. \/ r.t.traced = seized.traced
        \/ r.t = t /\ r.ok = FALSE
    <3>1. CASE r = Result([seized EXCEPT !.stop[p] = "held"], TRUE)
      BY <2>3, <3>1, ResultFields, Zenon
    <3>2. CASE r = Result(Later(seized, p, {"trap"}), FALSE)
      BY <2>3, <3>2, ResultFields, Zenon
    <3>3. CASE r = Result(t, FALSE)
      BY <3>3, ResultFields, Zenon
    <3> QED
      BY <2>2, <3>1, <3>2, <3>3
  <2> QED
    BY <2>1, <2>4
<1> QED
  BY <1>1, <1>2

LEMMA DetachTraced ==
  ASSUME NEW t \in TargetType, NEW p \in Procs, NEW r \in DetachDebugger(t, p)
  PROVE  t.traced \ {p} \subseteq r.t.traced
<1>1. CASE ~Mine(t, p)
  BY <1>1 DEF DetachDebugger, Result
<1>2. CASE Mine(t, p)
  <2>1. PICK s \in EnsureTraceeStopped(t, p) :
          r = Result(IF s.ok THEN Untraced(s.t, p) ELSE s.t, TRUE)
    BY <1>2 DEF DetachDebugger
  <2>2. s.t \in TargetType /\ s.t.traced = t.traced
    BY EnsureTouches, EnsureTraced DEF Touches
  <2>3. Untraced(s.t, p).traced = t.traced \ {p}
    BY <2>2 DEF Untraced, AllUntraced, TargetType
  <2> QED
    BY <2>1, <2>2, <2>3, ResultFields
<1> QED
  BY <1>1, <1>2

LEMMA ManagerClearTraced ==
  ASSUME NEW t \in TargetType, NEW u \in ManagerClear(t)
  PROVE  t.traced \ bpTids \subseteq u.traced
<1>1. PICK q : u = AllUntraced(RestoredBy(q, t), Freed(t))
  BY DEF ManagerClear
<1>2. RestoredBy(q, t).traced = t.traced /\ RestoredBy(q, t) \in TargetType
  BY DEF RestoredBy, TargetType
<1>3. Freed(t) \subseteq bpTids
  BY DEF Freed
<1>4. u.traced = RestoredBy(q, t).traced \ Freed(t)
  BY <1>1, <1>2 DEF AllUntraced, TargetType
<1> QED
  BY <1>2, <1>3, <1>4

(* GET_REGS takes nothing from the process the session controls. *)
LEMMA GetRegsTraced ==
  ASSUME IInv, NEW p \in Procs, NEW code \in BOOLEAN, GetRegs(p, code),
         NEW q \in target.traced, Controlled(q)
  PROVE  q \in target'.traced
<1>1. target \in TargetType
  BY TypeParts DEF IInv
<1> DEFINE From(a) == IF AlreadyAttached(p) /\ ~Peekable(a.t, p)
                      THEN EnsureTraceeStopped(a.t, p)
                      ELSE {Ensured(a.t, TRUE, FALSE)}
<1>2. PICK a \in IF AlreadyAttached(p) THEN {Result(target, TRUE)}
               ELSE AttachDebugger(target, p) :
        IF ~a.ok THEN target' = a.t
        ELSE \E s \in From(a) : \E t \in GiveBack(s.t, p, s.interrupted) : target' = t
  BY Zenon DEF GetRegs, Answer
<1>3. a.t \in TargetType /\ q \in a.t.traced
  <2>1. CASE AlreadyAttached(p)
    <3>1. a.t = target
      BY <1>2, <2>1 DEF Result
    <3> QED
      BY <1>1, <3>1
  <2>2. CASE ~AlreadyAttached(p)
    BY <1>1, <1>2, <2>2, AttachTouches, AttachTraced DEF Touches
  <2> QED
    BY <2>1, <2>2
<1>4. CASE ~a.ok
  BY <1>2, <1>3, <1>4
<1>5. CASE a.ok
  <2>1. PICK s \in From(a) : \E t \in GiveBack(s.t, p, s.interrupted) : target' = t
    BY <1>2, <1>5
  <2>2. s.t \in TargetType /\ q \in s.t.traced
    <3>1. CASE AlreadyAttached(p) /\ ~Peekable(a.t, p)
      BY <1>3, <2>1, <3>1, EnsureTouches, EnsureTraced DEF Touches
    <3>2. CASE ~(AlreadyAttached(p) /\ ~Peekable(a.t, p))
      <4>1. s = Ensured(a.t, TRUE, FALSE)
        BY <2>1, <3>2
      <4> QED
        BY <1>3, <4>1, EnsuredFields
    <3> QED
      BY <3>1, <3>2
  <2>3. CASE AlreadyAttached(p)
    <3>1. target' = Cont(s.t, p) \/ target' = s.t
      BY <2>1, <2>3 DEF GiveBack
    <3> QED
      BY <2>2, <3>1, StopOrSendTraced
  <2>4. CASE ~AlreadyAttached(p)
    <3>1. p # q
      BY <2>4 DEF AlreadyAttached
    <3>2. PICK d \in DetachDebugger(s.t, p) : target' = d.t
      BY <2>1, <2>4 DEF GiveBack
    <3> QED
      BY <2>2, <3>1, <3>2, DetachTraced
  <2> QED
    BY <2>3, <2>4
<1> QED
  BY <1>4, <1>5

LEMMA StepTraced ==
  ASSUME IInv, (\E how \in {"in", "over"} : StepStart(how)) \/ (\E code \in BOOLEAN : StepEnd(code))
  PROVE  target'.traced = target.traced
<1>1. target \in TargetType /\ SessionOK
  BY TypeParts DEF IInv
<1>2. ASSUME NEW how \in {"in", "over"}, StepStart(how)
      PROVE  target'.traced = target.traced
  <2>1. debug_pid \in Procs
    BY <1>1, <1>2 DEF StepStart, Controlled, SessionOK
  <2>2. PICK s \in EnsureTraceeStopped(target, debug_pid) :
          LET c == Cont(s.t, debug_pid) IN
          target' \in {s.t, c, [c EXCEPT !.brk[debug_pid] = @ \cup {"next"}]}
    BY <1>2 DEF StepStart
  <2>3. s.t \in TargetType /\ s.t.traced = target.traced
    BY <1>1, <2>1, <2>2, EnsureTouches, EnsureTraced DEF Touches
  <2> DEFINE c == Cont(s.t, debug_pid)
  <2>4. c \in TargetType /\ c.traced = target.traced
    BY <2>1, <2>3, ContTouches, StopOrSendTraced DEF Touches
  <2>5. target' \in {s.t, c, [c EXCEPT !.brk[debug_pid] = @ \cup {"next"}]}
    BY <2>2
  <2> HIDE DEF c
  <2>6. [c EXCEPT !.brk[debug_pid] = @ \cup {"next"}].traced = c.traced
    BY <2>4 DEF TargetType
  <2> QED
    BY <2>3, <2>4, <2>5, <2>6
<1>3. ASSUME NEW code \in BOOLEAN, StepEnd(code)
      PROVE  target'.traced = target.traced
  <2> DEFINE held == IF Peekable(target, debug_pid)
                     THEN [target EXCEPT !.stop[debug_pid] = "held"] ELSE target
  <2>1. held \in TargetType /\ held.traced = target.traced
    BY <1>1 DEF TargetType
  <2>2. target' = RestoreNext(held, debug_pid)
    BY <1>3 DEF StepEnd, Answer
  <2> HIDE DEF held
  <2> QED
    BY <2>1, <2>2 DEF RestoreNext, TargetType
<1> QED
  BY <1>2, <1>3

(* Setting a breakpoint on p clears those of the process before. *)
LEMMA BpSetTraced ==
  ASSUME IInv, NEW p \in Procs, BpSet(p), NEW q \in target.traced, q \notin bpTids \ bpTids'
  PROVE  q \in target'.traced
<1>1. PICK t0 \in IF bpPid # NoProc THEN ManagerClear(target) ELSE {target} :
        \E a \in AttachDebugger(t0, p) :
          IF a.ok
          THEN /\ bpPid' = p /\ bpTids' = {p}
               /\ target' = IF ~Peekable(a.t, p) THEN a.t
                            ELSE LET set == [a.t EXCEPT !.brk[p] = @ \cup {"bp"}]
                                 IN IF Mine(t0, p) THEN set ELSE Cont(set, p)
          ELSE /\ bpPid' = NoProc /\ bpTids' = {}
               /\ target' = a.t
  BY Zenon DEF BpSet
<1>2. PICK a \in AttachDebugger(t0, p) :
        IF a.ok
        THEN /\ bpPid' = p /\ bpTids' = {p}
             /\ target' = IF ~Peekable(a.t, p) THEN a.t
                          ELSE LET set == [a.t EXCEPT !.brk[p] = @ \cup {"bp"}]
                               IN IF Mine(t0, p) THEN set ELSE Cont(set, p)
        ELSE /\ bpPid' = NoProc /\ bpTids' = {}
             /\ target' = a.t
  BY <1>1, Zenon
<1>3. target \in TargetType /\ ManagerOK
  BY TypeParts DEF IInv
<1>4. t0 \in TargetType /\ (q \notin bpTids => q \in t0.traced)
  BY <1>1, <1>3, ManagerClearTyped, ManagerClearTraced DEF ManagerOK, IInv
<1>5. /\ a.t \in TargetType /\ (q \notin bpTids => q \in a.t.traced)
      /\ a.ok => p \in a.t.traced
  BY <1>2, <1>4, AttachTouches, AttachTraced DEF Touches
<1>6. q \in a.t.traced
  BY <1>2, <1>5
<1> DEFINE set == [a.t EXCEPT !.brk[p] = @ \cup {"bp"}]
<1>7. set \in TargetType /\ set.traced = a.t.traced
  BY <1>5 DEF TargetType
<1>8. Cont(set, p).traced = a.t.traced
  BY <1>7, StopOrSendTraced
<1>9. target' \in {a.t, set, Cont(set, p)}
  BY <1>2
<1> QED
  BY <1>6, <1>7, <1>8, <1>9

LEMMA PollTraced ==
  ASSUME IInv, NEW p \in Procs, BpPoll(p)
  PROVE  target'.traced = target.traced
<1> DEFINE c == Cont(target, p)
<1>1. c \in TargetType /\ c.traced = target.traced
  BY TypeParts, ContTouches, StopOrSendTraced DEF IInv, Touches
<1>2. target' = [c EXCEPT !.gstop = IF target.stop[p] = "sigstop"
                                    THEN c.gstop \cup {p} ELSE c.gstop]
  BY DEF BpPoll
<1> HIDE DEF c
<1> QED
  BY <1>1, <1>2 DEF TargetType

LEMMA PerfWatchTraced ==
  ASSUME IInv, NEW p \in Procs, PerfWatchRead(p), NEW q \in target.traced, q # p
  PROVE  q \in target'.traced
<1>1. target \in TargetType
  BY TypeParts DEF IInv
<1>2. PICK a \in AttachDebugger(target, p) :
        IF a.ok THEN \E d \in DetachDebugger(a.t, p) : target' = d.t
        ELSE target' = a.t
  BY Zenon DEF PerfWatchRead
<1>3. a.t \in TargetType /\ q \in a.t.traced
  BY <1>1, <1>2, AttachTouches, AttachTraced DEF Touches
<1> QED
  BY <1>2, <1>3, DetachTraced

LEMMA TargetTraced ==
  ASSUME IInv, NEW p \in Procs, HitBrk(p) \/ TakeSignal(p) \/ TakeLate(p) \/ Die(p),
         NEW q \in target.traced, q \in target'.alive
  PROVE  q \in target'.traced
<1>1. target \in TargetType
  BY TypeParts DEF IInv
<1>2. CASE HitBrk(p) \/ TakeSignal(p) \/ Die(p)
  <2>1. target' = Gone(target, p) \/ target' = [target EXCEPT !.stop[p] = "event"]
    BY <1>2 DEF HitBrk, TakeSignal, Die
  <2>2. CASE target' = Gone(target, p)
    <3>1. target'.alive = target.alive \ {p} /\ target'.traced = target.traced \ {p}
      BY <1>1, <2>2 DEF Gone, AllGone, TargetType
    <3> QED
      BY <3>1
  <2>3. CASE target' = [target EXCEPT !.stop[p] = "event"]
    <3>1. target'.traced = target.traced
      BY <1>1, <2>3 DEF TargetType
    <3> QED
      BY <3>1
  <2> QED
    BY <2>1, <2>2, <2>3
<1>3. CASE TakeLate(p)
  <2>1. PICK what \in target.late[p] :
          target' = [TakeStop(target, p, IF what = "trap" THEN "event" ELSE what)
                       EXCEPT !.late[p] = @ \ {what}]
    BY <1>3 DEF TakeLate
  <2> DEFINE u == TakeStop(target, p, IF what = "trap" THEN "event" ELSE what)
  <2>2. u.traced = target.traced
    BY <1>1, StopOrSendTraced
  <2>3. u \in TargetType
    <3>1. what \in Sent /\ p \in target.alive
      BY <1>1, <1>3, <2>1 DEF TargetType, Sent, TakeLate
    <3>2. (IF what = "trap" THEN "event" ELSE what) \in Stops
      BY <3>1 DEF Sent, Stops
    <3> QED
      BY <1>1, <3>1, <3>2, TakeStopTouches DEF Touches
  <2>4. target' = [u EXCEPT !.late[p] = @ \ {what}]
    BY <2>1
  <2> HIDE DEF u
  <2>5. target'.traced = u.traced
    BY <2>3, <2>4 DEF TargetType
  <2> QED
    BY <2>2, <2>5
<1> QED
  BY <1>2, <1>3

-----------------------------------------------------------------------------
(* GET_REGS of a process the session does not control. *)

(* One it has to attach to: refused, or seized, stopped, read and detached; *)
(* a stop that does not come in time leaves the INTERRUPT pending.         *)
LEMMA BorrowTransparent ==
  ASSUME IInv, NEW p \in Procs, NEW code \in BOOLEAN, GetRegs(p, code),
         ~AlreadyAttached(p), ~Mine(target, p), "trap" \notin target'.late[p]
  PROVE  /\ Stopped(target', p) = Stopped(target, p)
         /\ (p \in target'.traced <=> p \in target.traced)
<1> DEFINE seized == [target EXCEPT !.traced = @ \cup {p}]
           held == [seized EXCEPT !.stop[p] = "held"]
<1>1. target \in TargetType
  BY TypeParts DEF IInv
<1>2. PICK a \in AttachDebugger(target, p) :
        IF ~a.ok THEN target' = a.t
        ELSE \E s \in {Ensured(a.t, TRUE, FALSE)} :
               \E t \in GiveBack(s.t, p, s.interrupted) : target' = t
  BY Zenon DEF GetRegs, Answer
<1>3. \/ a = Result(target, FALSE)
      \/ p \in target.alive /\ a = Result(held, TRUE)
      \/ p \in target.alive /\ a = Result(Later(seized, p, {"trap"}), FALSE)
  BY DEF AttachDebugger, Asleep
<1>4. CASE a = Result(target, FALSE)
  <2>1. a.t = target /\ a.ok = FALSE
    BY <1>4, ResultFields, Zenon
  <2> QED
    BY <1>2, <2>1
<1>5. CASE p \in target.alive /\ a = Result(held, TRUE)
  <2>1. a.t = held /\ a.ok = TRUE
    BY <1>5, ResultFields, Zenon
  <2>2. target' \in {d.t : d \in DetachDebugger(held, p)}
    <3>1. PICK s \in {Ensured(held, TRUE, FALSE)} :
            \E t \in GiveBack(s.t, p, s.interrupted) : target' = t
      BY <1>2, <2>1, Zenon
    <3>2. s.t = held
      BY <3>1, EnsuredFields, Zenon
    <3> QED
      BY <3>1, <3>2, Zenon DEF GiveBack
  <2>3. /\ held \in TargetType /\ held.alive = target.alive /\ held.gstop = target.gstop
        /\ p \in held.traced /\ held.stop[p] = "held"
    BY <1>1 DEF TargetType
  <2> HIDE DEF held
  <2>4. Mine(held, p) /\ Stopped(held, p)
    BY <1>5, <2>3 DEF Mine, Stopped
  <2>5. target' = Untraced(held, p)
    <3>1. PICK d \in DetachDebugger(held, p) : target' = d.t
      BY <2>2
    <3>2. PICK s \in {Ensured(held, TRUE, FALSE)} :
            d = Result(IF s.ok THEN Untraced(s.t, p) ELSE s.t, TRUE)
      BY <2>4 DEF DetachDebugger, EnsureTraceeStopped
    <3>3. s.t = held /\ s.ok = TRUE
      BY <3>2, EnsuredFields, Zenon
    <3>4. d.t = Untraced(held, p)
      BY <3>2, <3>3, ResultFields, Zenon
    <3> QED
      BY <3>1, <3>4
  <2>6. /\ target'.alive = target.alive /\ target'.gstop = target.gstop
        /\ p \notin target'.traced
    BY <2>3, <2>5 DEF Untraced, AllUntraced, TargetType
  <2>7. p \notin target.traced
    BY <1>5 DEF Mine
  <2> QED
    BY <1>5, <2>6, <2>7 DEF Stopped, Mine
<1>6. CASE p \in target.alive /\ a = Result(Later(seized, p, {"trap"}), FALSE)
  <2>1. target' = Later(seized, p, {"trap"})
    <3>1. a.t = Later(seized, p, {"trap"}) /\ a.ok = FALSE
      BY <1>6, ResultFields, Zenon
    <3> QED
      BY <1>2, <3>1
  <2>2. "trap" \in target'.late[p]
    BY <1>1, <2>1 DEF Later, TargetType
  <2> QED
    BY <2>2
<1> QED
  BY <1>3, <1>4, <1>5, <1>6

(* One the breakpoint manager holds: interrupted if it ran, then continued, *)
(* whichever of the two waits the stop came in, or whether it came at all. *)
LEMMA SharedTransparent ==
  ASSUME IInv, NEW p \in Procs, NEW code \in BOOLEAN, GetRegs(p, code),
         bpPid = p, Mine(target, p), ~Controlled(p)
  PROVE  /\ Stopped(target', p) = Stopped(target, p)
         /\ (p \in target'.traced <=> p \in target.traced)
<1>1. target \in TargetType /\ AlreadyAttached(p)
  BY TypeParts DEF IInv, AlreadyAttached
<1>2. PICK s \in IF ~Peekable(target, p) THEN EnsureTraceeStopped(target, p)
               ELSE {Ensured(target, TRUE, FALSE)} :
        \E t \in GiveBack(s.t, p, s.interrupted) : target' = t
  <2>1. PICK a \in {Result(target, TRUE)} :
          IF ~a.ok THEN target' = a.t
          ELSE \E s \in IF AlreadyAttached(p) /\ ~Peekable(a.t, p)
                        THEN EnsureTraceeStopped(a.t, p)
                        ELSE {Ensured(a.t, TRUE, FALSE)} :
                 \E t \in GiveBack(s.t, p, s.interrupted) : target' = t
    BY <1>1, Zenon DEF GetRegs, Answer
  <2>2. a.t = target /\ a.ok = TRUE
    BY <2>1, ResultFields, Zenon
  <2> QED
    BY <1>1, <2>1, <2>2, Zenon
<1>3. target' = IF s.interrupted THEN Cont(s.t, p) ELSE s.t
  BY <1>1, <1>2 DEF GiveBack
<1> DEFINE u == TakeStop(target, p, "held")
<1>4. \/ s = Ensured(target, TRUE, FALSE)
      \/ /\ ~Stopped(target, p)
         /\ \/ s = Ensured(u, TRUE, TRUE)
            \/ s = Ensured(Later(u, p, {"sigstop"}), TRUE, TRUE)
            \/ s = Ensured(Later(target, p, {"trap", "sigstop"}), FALSE, FALSE)
  BY <1>2 DEF EnsureTraceeStopped, Asleep, Mine
<1>5. p \in target.alive /\ p \in target.traced
  BY DEF Mine
<1>6. CASE s = Ensured(target, TRUE, FALSE)
  <2>1. s.t = target /\ s.interrupted = FALSE
    BY <1>6, EnsuredFields, Zenon
  <2> QED
    BY <1>3, <2>1
<1>7. CASE ~Stopped(target, p) /\ s = Ensured(Later(target, p, {"trap", "sigstop"}), FALSE, FALSE)
  <2>1. target' = Later(target, p, {"trap", "sigstop"})
    <3>1. s.t = Later(target, p, {"trap", "sigstop"}) /\ s.interrupted = FALSE
      BY <1>7, EnsuredFields, Zenon
    <3> QED
      BY <1>3, <3>1
  <2>2. /\ target'.alive = target.alive /\ target'.traced = target.traced
        /\ target'.stop = target.stop
    BY <1>1, <2>1 DEF Later, TargetType
  <2> QED
    BY <1>5, <2>2 DEF Stopped, Mine
<1>8. CASE ~Stopped(target, p) /\ (\/ s = Ensured(u, TRUE, TRUE)
                                  \/ s = Ensured(Later(u, p, {"sigstop"}), TRUE, TRUE))
  <2>1. target.stop[p] = "none"
    BY <1>5, <1>8 DEF Stopped, Mine
  <2>2. s.interrupted = TRUE /\ (s.t = u \/ s.t = Later(u, p, {"sigstop"}))
    BY <1>8, EnsuredFields, Zenon
  <2>3. u = [target EXCEPT !.stop[p] = "held"]
    BY DEF TakeStop
  <2>4. /\ u \in TargetType /\ u.alive = target.alive /\ u.traced = target.traced
        /\ u.stop[p] = "held"
    BY <1>1, <2>3 DEF TargetType
  <2> HIDE DEF u
  <2>5. /\ s.t \in TargetType /\ s.t.alive = target.alive /\ s.t.traced = target.traced
        /\ s.t.stop[p] = "held"
    <3>1. CASE s.t = u
      BY <2>4, <3>1
    <3>2. CASE s.t = Later(u, p, {"sigstop"})
      BY <2>4, <3>2 DEF Later, TargetType
    <3> QED
      BY <2>2, <3>1, <3>2
  <2>6. target' = [s.t EXCEPT !.stop[p] = "none"]
    BY <1>3, <1>5, <2>2, <2>5 DEF Cont, Peekable, Mine
  <2>7. /\ target'.alive = target.alive /\ target'.traced = target.traced
        /\ target'.stop[p] = "none"
    BY <2>5, <2>6 DEF TargetType
  <2> QED
    BY <1>5, <2>1, <2>7 DEF Stopped, Mine
<1> QED
  BY <1>4, <1>6, <1>7, <1>8

LEMMA StepEndHolds ==
  ASSUME IInv, StepEnd(TRUE)
  PROVE  /\ Stopped(target', debug_pid)
         /\ op = "over" => "next" \notin target'.brk[debug_pid]
<1> DEFINE p == debug_pid
           held == [target EXCEPT !.stop[p] = "held"]
<1>1. target \in TargetType
  BY TypeParts DEF IInv
<1>2. Peekable(target, p) /\ target' = RestoreNext(held, p)
  BY DEF StepEnd, Answer
<1>3. p \in Procs /\ p \in target.alive /\ p \in target.traced
  BY <1>1, <1>2 DEF Peekable, Mine, TargetType
<1>4. /\ held \in TargetType /\ held.alive = target.alive /\ held.traced = target.traced
      /\ held.stop[p] = "held"
  BY <1>1, <1>3 DEF TargetType
<1> HIDE DEF held
<1>5. Peekable(held, p)
  BY <1>3, <1>4 DEF Peekable, Mine
<1>6. target' = IF op = "over" THEN [held EXCEPT !.brk[p] = @ \ {"next"}] ELSE held
  BY <1>2, <1>5 DEF RestoreNext
<1>7. /\ target'.alive = held.alive /\ target'.traced = held.traced
      /\ target'.stop = held.stop
      /\ op = "over" => "next" \notin target'.brk[p]
  BY <1>3, <1>4, <1>6 DEF TargetType
<1> QED
  BY <1>3, <1>4, <1>7 DEF Stopped, Mine

(* A DEBUG_CONTROL step or a WaitForStop that succeeds leaves the process  *)
(* stopped and the text without the BRK of step over, whatever the target  *)
(* or the breakpoint manager did while the session waited.                 *)
THEOREM StepsHold == Spec => StepHolds
<1> DEFINE Holds == StepEnd(TRUE) =>
                      /\ Stopped(target', debug_pid)
                      /\ op = "over" => "next" \notin target'.brk[debug_pid]
<1>1. IInv /\ [Next]_vars => [Holds]_vars
  BY StepEndHolds
<1> QED
  BY <1>1, AlwaysIInv, PTL DEF Spec, StepHolds

(* GET_REGS gives a process the session does not control back as it was,   *)
(* running or stopped, traced or not, whether the read succeeds, is        *)
(* refused or times out, unless a stop it asked for is pending afterwards  *)
(* or the process was traced and not the breakpoints', or the reverse.     *)
THEOREM RegistersTransparent == Spec => RegsTransparent
<1> DEFINE Transparent ==
      \A p \in Procs, code \in BOOLEAN :
       /\ GetRegs(p, code) /\ ~Controlled(p)
       /\ bpPid = p <=> Mine(target, p)
       /\ ~LeavesPending(p)
       => /\ Stopped(target', p) = Stopped(target, p)
          /\ (p \in target'.traced <=> p \in target.traced)
<1>1. IInv /\ [Next]_vars => [Transparent]_vars
  <2> SUFFICES ASSUME IInv, NEW p \in Procs, NEW code \in BOOLEAN, GetRegs(p, code),
                      ~Controlled(p), (bpPid = p <=> Mine(target, p)), ~LeavesPending(p)
               PROVE  /\ Stopped(target', p) = Stopped(target, p)
                      /\ (p \in target'.traced <=> p \in target.traced)
    OBVIOUS
  <2>1. CASE bpPid = p
    BY <2>1, SharedTransparent
  <2>2. CASE bpPid # p
    <3>1. ~AlreadyAttached(p) /\ "trap" \notin target'.late[p]
      BY <2>2 DEF AlreadyAttached, LeavesPending
    <3> QED
      BY <2>2, <3>1, BorrowTransparent
  <2> QED
    BY <2>1, <2>2
<1> QED
  BY <1>1, AlwaysIInv, PTL DEF Spec, RegsTransparent

(* No command but the manager's Clear and the perf watch fallback takes    *)
(* the session's tracee from it while the session keeps it.                *)
THEOREM TraceeKept == Spec => KeepsTracee
<1> DEFINE Keeps ==
      /\ Controlled(debug_pid) /\ Mine(target, debug_pid)
      /\ Controlled(debug_pid)' /\ debug_pid' = debug_pid
      /\ debug_pid \notin bpTids \ bpTids'
      /\ ~PerfWatchRead(debug_pid)
      /\ debug_pid \in target'.alive
      => Mine(target', debug_pid)
<1>1. IInv /\ [Next]_vars => [Keeps]_vars
  <2> SUFFICES ASSUME IInv, Next,
                      Controlled(debug_pid), Mine(target, debug_pid),
                      debug_attached', debug_pid' = debug_pid,
                      debug_pid \notin bpTids \ bpTids',
                      ~PerfWatchRead(debug_pid), debug_pid \in target'.alive
               PROVE  debug_pid \in target'.traced
    BY DEF Controlled, Mine
  <2> DEFINE q == debug_pid
  <2>1. q \in target.traced /\ q \in Procs /\ Controlled(q) /\ target.traced \subseteq Procs
    BY TypeParts DEF Mine, IInv, SessionOK, Controlled, TargetType
  <2>2. ASSUME NEW p \in Procs, NEW allow \in BOOLEAN, DebugAttach(p, allow)
        PROVE  q \in target'.traced
    <3>1. CASE AttachShared(p) \/ AttachAgain(p)
      BY <2>1, <3>1 DEF AttachShared, AttachAgain
    <3>2. CASE AttachNew(p, allow)
      <4>1. debug_pid' \in {p, NoProc} /\ debug_pid # p /\ debug_pid # NoProc
        BY <2>1, <3>2, AttachNewTouches, ProcAssumption DEF AttachNew, Controlled
      <4> QED
        BY <4>1
    <3> QED
      BY <2>2, <3>1, <3>2 DEF DebugAttach
  <2>3. ASSUME NEW p \in Procs, BpSet(p) \/ BpPoll(p) PROVE q \in target'.traced
    BY <2>1, <2>3, BpSetTraced, PollTraced
  <2>4. ASSUME NEW p \in Procs, PerfWatchRead(p) PROVE q \in target'.traced
    <3>1. p # q
      BY <2>4
    <3> QED
      BY <2>1, <2>4, <3>1, PerfWatchTraced
  <2>5. ASSUME NEW p \in Procs, NEW code \in BOOLEAN, GetRegs(p, code)
        PROVE  q \in target'.traced
    BY <2>1, <2>5, GetRegsTraced
  <2>6. CASE BpClear
    <3>1. PICK t \in ManagerClear(target) : target' = t
      BY <2>6 DEF BpClear
    <3>2. q \notin bpTids
      BY <2>6 DEF BpClear
    <3> QED
      BY <2>1, <3>1, <3>2, ManagerClearTraced, TypeParts DEF IInv
  <2>7. CASE BpReap
    BY <2>1, <2>7 DEF BpReap
  <2>8. ~Close /\ ~\E code \in BOOLEAN : DebugDetach(code)
    BY DEF Close, DebugDetach, Forget, Remember
  <2>9. CASE \/ \E how \in {"in", "over"} : StepStart(how)
             \/ \E code \in BOOLEAN : StepEnd(code)
    BY <2>1, <2>9, StepTraced
  <2>10. ASSUME NEW p \in Procs, HitBrk(p) \/ TakeSignal(p) \/ TakeLate(p) \/ Die(p)
         PROVE  q \in target'.traced
    BY <2>1, <2>10, TargetTraced
  <2> HIDE DEF q
  <2> QED
    BY <2>2, <2>3, <2>4, <2>5, <2>6, <2>7, <2>8, <2>9, <2>10 DEF Next, Command, q
<1> QED
  BY <1>1, AlwaysIInv, PTL DEF Spec, KeepsTracee
=============================================================================
