---------------------------- MODULE DebugSession ----------------------------
(***************************************************************************)
(* The debugger of one client connection of the Android agent: the         *)
(* commands DEBUG_ATTACH, DEBUG_DETACH, DEBUG_CONTROL and GET_REGS of       *)
(* HandleClient (android_agent/main.cpp), the end of the connection, and   *)
(* the breakpoint manager as far as the two share tracees.                 *)
(*                                                                         *)
(* A program is stopped in three ways: by SIGSTOP (a group stop), by the    *)
(* kernel's ptrace stop of a tracee, or not at all.  The session remembers *)
(* which one it used in four variables; the kernel remembers what is true. *)
(* Each process stands for its main thread, the only one AttachDebugger    *)
(* seizes.  Everything a handler does to the target goes through `target', *)
(* and an operator named after a function of the code gives the set of     *)
(* outcomes [t |-> new target, ok |-> its result] of a call: a process in  *)
(* an uninterruptible sleep takes its stop only after the call has given   *)
(* up ("late").                                                            *)
(***************************************************************************)
EXTENDS Integers, FiniteSets

CONSTANTS
  Procs,      \* processes
  NoProc,
  Sleepers    \* processes that may be in an uninterruptible sleep

ASSUME ProcAssumption == NoProc \notin Procs /\ Sleepers \subseteq Procs

VARIABLES
  target,     \* the processes as the kernel sees them, see TargetType
  bpPid,      \* PtraceBreakpointManager: the process IsAttached holds for
  bpTids,     \* attached_tids_, by process
  debug_attached, debug_pid, debug_sigstop, debug_sigstop_sent,
  op          \* the wait in progress: "idle", "in" (step) or "over"

session == <<debug_attached, debug_pid, debug_sigstop, debug_sigstop_sent>>
manager == <<bpPid, bpTids>>
vars == <<target, manager, session, op>>

(* alive; gstop: SIGSTOP is in effect; traced; stop: the ptrace stop, with  *)
(* "held" for one that was reported and anything else for one that was not; *)
(* late: what was sent and is not taken; brk: the BRKs in the text, of the *)
(* manager ("bp"), or of step over ("next").                               *)
TargetType ==
  [alive : SUBSET Procs,
   gstop : SUBSET Procs,
   traced : SUBSET Procs,
   stop : [Procs -> {"none", "held", "event", "sigstop"}],
   late : [Procs -> SUBSET {"trap", "sigstop"}],
   brk : [Procs -> SUBSET {"bp", "next"}]]

TypeOK ==
  /\ target \in TargetType
  /\ bpPid \in Procs \cup {NoProc} /\ bpTids \subseteq Procs
  /\ debug_attached \in BOOLEAN /\ debug_pid \in Procs \cup {NoProc}
  /\ debug_sigstop \in BOOLEAN /\ debug_sigstop_sent \in BOOLEAN
  /\ op \in {"idle", "in", "over"}
  /\ debug_attached <=> debug_pid # NoProc
  /\ debug_sigstop => debug_sigstop_sent
  /\ debug_sigstop_sent => debug_attached
  /\ bpPid = NoProc => bpTids = {}

Mine(t, p) == p \in t.alive \cap t.traced
Peekable(t, p) == Mine(t, p) /\ t.stop[p] # "none"
Stopped(t, p) ==
  p \in t.alive /\ IF Mine(t, p) THEN t.stop[p] # "none" ELSE p \in t.gstop

Result(t, ok) == [t |-> t, ok |-> ok]
Asleep(p, outcomes) == IF p \in Sleepers THEN outcomes ELSE {}

-----------------------------------------------------------------------------
(* The calls the handlers make. *)

(* A stop signal is sent to p and taken at once. *)
TakeStop(t, p, how) ==
  IF Mine(t, p) THEN [t EXCEPT !.stop[p] = how]
  ELSE [t EXCEPT !.gstop = @ \cup {p}]
Later(t, p, what) == [t EXCEPT !.late[p] = @ \cup what]
Cont(t, p) == IF Peekable(t, p) THEN [t EXCEPT !.stop[p] = "none"] ELSE t
AllGone(t, P) ==
  [t EXCEPT !.alive = @ \ P, !.gstop = @ \ P, !.traced = @ \ P,
            !.stop = [p \in Procs |-> IF p \in P THEN "none" ELSE t.stop[p]],
            !.late = [p \in Procs |-> IF p \in P THEN {} ELSE t.late[p]],
            !.brk = [p \in Procs |-> IF p \in P THEN {} ELSE t.brk[p]]]
Gone(t, p) == AllGone(t, {p})
AllUntraced(t, P) ==
  [t EXCEPT !.traced = @ \ P,
            !.stop = [p \in Procs |-> IF p \in P THEN "none" ELSE t.stop[p]],
            !.late = [p \in Procs |-> IF p \in P THEN t.late[p] \ {"trap"} ELSE t.late[p]]]
Untraced(t, p) == AllUntraced(t, {p})

(* kill(pid, SIGCONT) also discards a SIGSTOP that was not taken. *)
ResumeProcess(t, p) ==
  IF p \in t.alive
  THEN {Result([t EXCEPT !.gstop = @ \ {p}, !.late[p] = @ \ {"sigstop"}], TRUE)}
  ELSE {Result(t, FALSE)}

StopProcess(t, p) ==
  IF p \notin t.alive THEN {Result(t, FALSE)}
  ELSE IF Stopped(t, p) THEN {Result([t EXCEPT !.gstop = @ \cup {p}], TRUE)}
  ELSE {Result(TakeStop(t, p, "sigstop"), TRUE)}
       \cup Asleep(p, {Result(Later(t, p, {"sigstop"}), FALSE)})

(* INTERRUPT, then SIGSTOP; interrupted tells whether the call stopped p.  *)
(* For a process that is not traced only its state is read after SIGSTOP,  *)
(* at once, and it may not have stopped yet.  The second wait of a tracee  *)
(* may end with the stop by INTERRUPT, and then SIGSTOP is still pending.  *)
Ensured(t, ok, interrupted) == [t |-> t, ok |-> ok, interrupted |-> interrupted]

EnsureTraceeStopped(t, p) ==
  IF Stopped(t, p) THEN {Ensured(t, TRUE, FALSE)}
  ELSE IF p \notin t.alive THEN {Ensured(t, FALSE, FALSE)}
  ELSE IF Mine(t, p)
  THEN {Ensured(TakeStop(t, p, "held"), TRUE, TRUE)}
       \cup Asleep(p, {Ensured(Later(TakeStop(t, p, "held"), p, {"sigstop"}), TRUE, TRUE),
                       Ensured(Later(t, p, {"trap", "sigstop"}), FALSE, FALSE)})
  ELSE {Ensured(TakeStop(t, p, "held"), TRUE, TRUE),
        Ensured(TakeStop(t, p, "held"), FALSE, FALSE)}
       \cup Asleep(p, {Ensured(Later(t, p, {"sigstop"}), FALSE, FALSE)})

(* A tracee of this process counts as attached, stopped or not; SEIZE may  *)
(* be refused, by SELinux or because another debugger traces p; when the   *)
(* stop does not come in time DETACH fails too, since the tracee runs, and *)
(* p stays traced.                                                         *)
AttachDebugger(t, p) ==
  IF p \notin t.alive THEN {Result(t, FALSE)}
  ELSE IF Mine(t, p) THEN {Result(t, TRUE)}
  ELSE LET seized == [t EXCEPT !.traced = @ \cup {p}] IN
       {Result([seized EXCEPT !.stop[p] = "held"], TRUE), Result(t, FALSE)}
       \cup Asleep(p, {Result(Later(seized, p, {"trap"}), FALSE)})

(* DETACH needs a stopped tracee; ESRCH counts as success. *)
DetachDebugger(t, p) ==
  IF ~Mine(t, p) THEN {Result(t, TRUE)}
  ELSE {Result(IF s.ok THEN Untraced(s.t, p) ELSE s.t, TRUE) :
          s \in EnsureTraceeStopped(t, p)}

(* How the session lets go of its process. *)
ReleaseResumed(t, p) ==   \* mutant: resumed first, so a SIGSTOP of DETACH comes after
  IF ~debug_attached THEN {Result(t, TRUE)}
  ELSE IF debug_sigstop_sent
  THEN UNION {DetachDebugger(r.t, p) : r \in ResumeProcess(t, p)}
  ELSE DetachDebugger(t, p)
ReleaseOneWay(t, p) ==   \* mutant: a stop by SIGSTOP and ptrace is undone once
  IF ~debug_attached THEN {Result(t, TRUE)}
  ELSE IF debug_sigstop THEN ResumeProcess(t, p)
  ELSE DetachDebugger(t, p)

Release(t, p) ==
  IF ~debug_attached THEN {Result(t, TRUE)}
  ELSE IF debug_sigstop THEN ResumeProcess(t, p)
  ELSE UNION {IF debug_sigstop_sent
              THEN {Result(r.t, r.ok /\ d.ok) : r \in ResumeProcess(d.t, p)}
              ELSE {d} :
                d \in DetachDebugger(t, p)}

Remember(att, p, sigstop, sent) ==
  /\ debug_attached' = att
  /\ debug_pid' = p
  /\ debug_sigstop' = sigstop
  /\ debug_sigstop_sent' = sent
ForgetFlags == Remember(FALSE, debug_pid, FALSE, FALSE)   \* mutant: pid kept
Forget == Remember(FALSE, NoProc, FALSE, FALSE)

(* The handler leaves the target as t and answers `code', which says ok. *)
Answer(t, ok, code) == target' = t /\ code = ok

-----------------------------------------------------------------------------
Init ==
  /\ target = [alive |-> Procs, gstop |-> {}, traced |-> {},
               stop |-> [p \in Procs |-> "none"],
               late |-> [p \in Procs |-> {}],
               brk |-> [p \in Procs |-> {}]]
  /\ bpPid = NoProc /\ bpTids = {}
  /\ debug_attached = FALSE /\ debug_pid = NoProc
  /\ debug_sigstop = FALSE /\ debug_sigstop_sent = FALSE
  /\ op = "idle"

(* CMD_DEBUG_ATTACH. *)
AttachShared(p) ==
  /\ op = "idle" /\ bpPid = p
  /\ Remember(TRUE, p, FALSE, FALSE)
  /\ UNCHANGED <<target, manager, op>>

AttachAgain(p) ==
  /\ op = "idle" /\ bpPid # p
  /\ debug_attached /\ debug_pid = p
  /\ UNCHANGED <<target, manager, session, op>>

(* allow is DEBUG_ATTACH_FLAG_ALLOW_SIGSTOP. *)
AttachNew(p, allow) ==
  /\ op = "idle" /\ bpPid # p
  /\ ~debug_attached \/ debug_pid # p
  /\ \E r \in Release(target, debug_pid) :
       \E s \in IF allow THEN StopProcess(r.t, p) ELSE {Result(r.t, FALSE)} :
         \E a \in AttachDebugger(s.t, p) :
           /\ target' = a.t
           /\ IF a.ok THEN Remember(TRUE, p, FALSE, s.ok)
              ELSE IF s.ok THEN Remember(TRUE, p, TRUE, TRUE)
              ELSE Forget
  /\ UNCHANGED <<manager, op>>

DebugAttach(p, allow) == AttachShared(p) \/ AttachAgain(p) \/ AttachNew(p, allow)

(* CMD_DEBUG_DETACH. *)
DebugDetach(code) ==
  /\ op = "idle"
  /\ IF debug_attached /\ bpPid = debug_pid
     THEN Answer(target, TRUE, code)
     ELSE \E r \in Release(target, debug_pid) : Answer(r.t, r.ok, code)
  /\ Forget
  /\ UNCHANGED <<manager, op>>

-----------------------------------------------------------------------------
(* CMD_GET_REGS: borrow the tracee, or the session's own, and give it back. *)
Controlled(p) == debug_attached /\ ~debug_sigstop /\ debug_pid = p

AlreadyAttached(p) == Controlled(p) \/ bpPid = p

LeaveInterrupted(t, p, interrupted) ==   \* mutant: no CONT after INTERRUPT
  IF ~AlreadyAttached(p) THEN {d.t : d \in DetachDebugger(t, p)} ELSE {t}
GiveBack(t, p, interrupted) ==
  IF ~AlreadyAttached(p) THEN {d.t : d \in DetachDebugger(t, p)}
  ELSE IF interrupted /\ ~Controlled(p) THEN {Cont(t, p)}
  ELSE {t}

GetRegs(p, code) ==
  /\ op = "idle"
  /\ \E a \in IF AlreadyAttached(p) THEN {Result(target, TRUE)}
            ELSE AttachDebugger(target, p) :
       IF ~a.ok THEN Answer(a.t, FALSE, code)
       ELSE \E s \in IF AlreadyAttached(p) /\ ~Peekable(a.t, p)
                     THEN EnsureTraceeStopped(a.t, p)
                     ELSE {Ensured(a.t, TRUE, FALSE)} :
              \E t \in GiveBack(s.t, p, s.interrupted) :
                Answer(t, Peekable(s.t, p), code)
  /\ UNCHANGED <<manager, session, op>>

(* CMD_DEBUG_CONTROL: step in, or over when the instruction is a call.     *)
(* The tracee runs until it stops, for any reason, or the wait ends.       *)
StepStart(how) ==
  /\ op = "idle"
  /\ Controlled(debug_pid)
  /\ \E s \in EnsureTraceeStopped(target, debug_pid) :
       IF s.ok /\ Peekable(s.t, debug_pid)
       THEN /\ op' = how
            /\ target' = LET c == Cont(s.t, debug_pid)
                         IN IF how = "over"
                            THEN [c EXCEPT !.brk[debug_pid] = @ \cup {"next"}]
                            ELSE c
       ELSE target' = s.t /\ UNCHANGED op
  /\ UNCHANGED <<manager, session>>

(* WaitForStop returns; PatchInsn32 takes the BRK out if p is stopped. *)
RestoreLater(t, p) == t   \* mutant: the BRK is taken out only on the error path
RestoreNext(t, p) ==
  IF op = "over" /\ Peekable(t, p) THEN [t EXCEPT !.brk[p] = @ \ {"next"}] ELSE t

StepEnd(code) ==
  LET p == debug_pid
      stopped == Peekable(target, p)
      held == IF stopped THEN [target EXCEPT !.stop[p] = "held"] ELSE target
  IN
  /\ op # "idle"
  /\ Answer(RestoreNext(held, p), stopped, code)
  /\ op' = "idle"
  /\ UNCHANGED <<manager, session>>

-----------------------------------------------------------------------------
(* The breakpoint manager of the connection (module PtraceBreakpoints has  *)
(* it in full): one breakpoint on the process it is attached to.           *)
(* Clear restores the text through any thread it holds (q): when that is   *)
(* not one of bpPid, the BRK stays (and q's text is written, which is not  *)
(* kept here).  A tracee that runs is neither restored nor detached.       *)
FreedOfAll(t) == {p \in Procs : Peekable(t, p)}   \* mutant: every tracee
Freed(t) == {p \in bpTids : Peekable(t, p)}

RestoredBy(q, t) ==
  IF q = bpPid /\ Peekable(t, q) THEN [t EXCEPT !.brk[q] = @ \ {"bp"}] ELSE t

ManagerClear(t) ==
  {AllUntraced(RestoredBy(q, t), Freed(t)) :
     q \in IF bpTids # {} THEN bpTids ELSE {bpPid}}

BpSet(p) ==
  /\ op = "idle" /\ bpPid # p
  /\ \E t0 \in IF bpPid # NoProc THEN ManagerClear(target) ELSE {target} :
       LET ready == Mine(t0, p) IN
       \E a \in AttachDebugger(t0, p) :
         IF a.ok
         THEN /\ bpPid' = p /\ bpTids' = {p}
              /\ target' = IF ~Peekable(a.t, p) THEN a.t
                           ELSE LET set == [a.t EXCEPT !.brk[p] = @ \cup {"bp"}]
                                IN IF ready THEN set ELSE Cont(set, p)
         ELSE /\ bpPid' = NoProc /\ bpTids' = {}
              /\ target' = a.t
  /\ UNCHANGED <<session, op>>

BpClear ==
  /\ op = "idle" /\ bpPid # NoProc
  /\ \E t \in ManagerClear(target) : target' = t
  /\ bpPid' = NoProc /\ bpTids' = {}
  /\ UNCHANGED <<session, op>>

(* Poll takes every unreported stop, also of the session's process, and    *)
(* continues it; a SIGSTOP is handed on and takes effect once it can.      *)
BpPoll(p) ==
  /\ op = "idle" /\ bpPid # NoProc
  /\ Peekable(target, p) /\ target.stop[p] # "held"
  /\ target' = [Cont(target, p) EXCEPT
                  !.gstop = IF target.stop[p] = "sigstop" THEN @ \cup {p} ELSE @]
  /\ bpTids' = bpTids \cup {p}
  /\ UNCHANGED <<bpPid, session, op>>

(* Poll reaps the last tracee. *)
BpReap ==
  /\ op = "idle" /\ bpPid # NoProc /\ bpTids \cap target.alive = {}
  /\ bpPid' = NoProc /\ bpTids' = {}
  /\ UNCHANGED <<target, session, op>>

-----------------------------------------------------------------------------
(* The end of the connection: the session lets go, the manager clears, and *)
(* the kernel frees what is still traced when the thread ends (it kills    *)
(* what the manager set EXITKILL on).                                      *)
Close ==
  /\ op = "idle"
  /\ \E r \in Release(target, debug_pid) :
       \E t \in IF bpPid # NoProc THEN ManagerClear(r.t) ELSE {r.t} :
         target' = AllUntraced(AllGone(t, bpTids \cap t.traced), Procs)
  /\ bpPid' = NoProc /\ bpTids' = {}
  /\ Forget
  /\ UNCHANGED op

(* The target. *)
HitBrk(p) ==
  /\ ~Stopped(target, p) /\ p \in target.alive
  /\ target.brk[p] \cap {"bp", "next"} # {}
  /\ target' = IF Mine(target, p) THEN [target EXCEPT !.stop[p] = "event"]
               ELSE Gone(target, p)
  /\ UNCHANGED <<manager, session, op>>

TakeSignal(p) ==
  /\ Mine(target, p) /\ target.stop[p] = "none"
  /\ target' = [target EXCEPT !.stop[p] = "event"]
  /\ UNCHANGED <<manager, session, op>>

TakeLate(p) ==
  /\ ~Stopped(target, p) /\ p \in target.alive
  /\ \E what \in target.late[p] :
       target' = [TakeStop(target, p, IF what = "trap" THEN "event" ELSE what)
                    EXCEPT !.late[p] = @ \ {what}]
  /\ UNCHANGED <<manager, session, op>>

Die(p) ==
  /\ p \in target.alive
  /\ target' = Gone(target, p)
  /\ UNCHANGED <<manager, session, op>>

(* The last resort of a perf watch (ReadWatchValuePtrace): the manager of   *)
(* hardware breakpoints borrows the process, attached or not, and detaches. *)
PerfWatchRead(p) ==
  /\ op = "idle"
  /\ \E a \in AttachDebugger(target, p) :
       IF a.ok THEN \E d \in DetachDebugger(a.t, p) : target' = d.t
       ELSE target' = a.t
  /\ UNCHANGED <<manager, session, op>>

Command ==
  \/ \E p \in Procs : \/ \E allow \in BOOLEAN : DebugAttach(p, allow)
                      \/ BpSet(p) \/ BpPoll(p) \/ PerfWatchRead(p)
                      \/ \E code \in BOOLEAN : GetRegs(p, code)
  \/ BpClear \/ BpReap \/ Close
  \/ \E how \in {"in", "over"} : StepStart(how)
  \/ \E code \in BOOLEAN : DebugDetach(code) \/ StepEnd(code)

Next ==
  \/ Command
  \/ \E p \in Procs : HitBrk(p) \/ TakeSignal(p) \/ TakeLate(p) \/ Die(p)

Spec == Init /\ [][Next]_vars

-----------------------------------------------------------------------------
(* A stop the session recorded (debug_sigstop, debug_sigstop_sent) ends    *)
(* when the record is dropped, by DETACH, by attaching to another process  *)
(* or by the end of the connection, whatever the calls in between sent and *)
(* the process did not take in time.  Two ways to drop a record resume     *)
(* nothing: DETACH of a process the breakpoint manager holds, and ATTACH   *)
(* to such a process while another one is recorded.                        *)
LeavesToManager == bpPid = debug_pid /\ \E code \in BOOLEAN : DebugDetach(code)
RecordedStopsEnd ==
  [][/\ debug_sigstop \/ debug_sigstop_sent
     /\ debug_pid' # debug_pid
     /\ ~LeavesToManager /\ ~\E p \in Procs : AttachShared(p)
     => debug_pid \notin target'.gstop
        /\ "sigstop" \notin (target'.late[debug_pid])]_vars

(* Only letting go takes the session's tracee from it: reading registers,  *)
(* stepping, setting a breakpoint elsewhere and polling leave it traced.   *)
(* The two operations that do not ask are the manager's Clear and the      *)
(* fallback of a perf watch.                                               *)
KeepsTracee ==
  [][/\ Controlled(debug_pid) /\ Mine(target, debug_pid)
     /\ Controlled(debug_pid)' /\ debug_pid' = debug_pid
     /\ debug_pid \notin bpTids \ bpTids'
     /\ ~PerfWatchRead(debug_pid)
     /\ debug_pid \in target'.alive
     => Mine(target', debug_pid)]_vars

(* Reading the registers of a process the debugger does not control, also  *)
(* when the read fails, gives it back as it was: running if it ran,        *)
(* stopped if it was stopped, traced by whoever traced it.  The exceptions *)
(* are a read after which an INTERRUPT is pending, or a SIGSTOP it sent    *)
(* (the target did not take it in time), and a process that is traced       *)
(* without being the breakpoints' (an attach that failed left it) or the   *)
(* other way round (a perf watch took it).                                 *)
LeavesPending(p) ==
  "trap" \in target'.late[p] \/ ~(target'.late[p] \subseteq target.late[p])
RegsTransparent ==
  [][\A p \in Procs, code \in BOOLEAN :
       /\ GetRegs(p, code) /\ ~Controlled(p)
       /\ bpPid = p <=> Mine(target, p)
       /\ ~LeavesPending(p)
       => /\ Stopped(target', p) = Stopped(target, p)
          /\ (p \in target'.traced <=> p \in target.traced)]_vars

(* A step that succeeds leaves the process stopped, with no BRK of its own *)
(* in the text, whatever stopped it.                                       *)
StepHolds ==
  [][StepEnd(TRUE) =>
       /\ Stopped(target', debug_pid)
       /\ op = "over" => "next" \notin target'.brk[debug_pid]]_vars
=============================================================================
