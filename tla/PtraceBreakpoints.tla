-------------------------- MODULE PtraceBreakpoints --------------------------
(***************************************************************************)
(* The software (BRK) breakpoints the Android agent plants with ptrace:    *)
(* class PtraceBreakpointManager of android_agent/main.cpp, together with  *)
(* the part of the kernel's ptrace contract it relies on.                  *)
(*                                                                         *)
(* One manager belongs to one client connection, whose thread is the       *)
(* tracer.  The threads of the debugged processes run concurrently with    *)
(* every call of the manager, so a call that waits (attaching, draining    *)
(* waitpid, single-stepping over a breakpoint) is split where the target   *)
(* may move.  An address here is an instruction that may carry a           *)
(* breakpoint; text says whether it holds the program's instruction or a   *)
(* BRK.  Hit counters are W-valued (uint64_t in the code).                 *)
(***************************************************************************)
EXTENDS Integers, FiniteSets

CONSTANTS
  Procs,      \* debuggable processes
  Threads,    \* their threads, born or not
  Addrs,      \* instruction addresses breakpoints are set on
  Owner,      \* Owner[t]: the process of thread t
  Main,       \* Main[p]: the thread whose tid is the pid of p
  InitLive,   \* threads alive at the start
  InitOther,  \* sets of threads another debugger may already trace
  Below,      \* Below[a]: the address one instruction before a
  NoProc, NoThread, NoAddr,
  PumpLimit,  \* stops one Poll handles at most (32 or more in the code)
  MaxEvents,  \* max_events of a Poll request
  W           \* number of values of a hit counter (2^64 in the code)

ASSUME ThreadAssumption ==
  /\ Owner \in [Threads -> Procs]
  /\ Main \in [Procs -> Threads]
  /\ \A p \in Procs : Owner[Main[p]] = p
  /\ InitLive \subseteq Threads
  /\ InitOther \subseteq SUBSET InitLive

ASSUME NoValueAssumption ==
  NoProc \notin Procs /\ NoThread \notin Threads /\ NoAddr \notin Addrs

ASSUME BelowAssumption == Below \in [Addrs -> Addrs \cup {NoAddr}]

ASSUME BoundAssumption ==
  /\ PumpLimit \in Nat \ {0}
  /\ MaxEvents \in Nat \ {0}
  /\ W \in Nat \ {0, 1}

VARIABLES
  (* the target processes, as the kernel sees them *)
  text,     \* text[p][a]: "insn" or "brk"
  trace,    \* tracer of a thread: none, this agent (bare or with options), other
  run,      \* scheduling state of a thread
  why,      \* why a thread has an unreported stop
  kid,      \* the new thread announced by a clone stop
  at,       \* the breakpoint address a thread is trapped at
  killed,   \* processes killed by a signal
  (* the fields of the manager *)
  pid, attached, bps, orig, hits, lastReport, tids, newly,
  (* the call in progress *)
  op, opAddr, opTid, todo, steps

target == <<text, trace, run, why, kid, at, killed>>
manager == <<pid, attached, bps, orig, hits, lastReport, tids, newly>>
call == <<op, opAddr, opTid, todo, steps>>
vars == <<target, manager, call>>

Mine == {"bare", "opts"}   \* traced by this agent, without or with options

(***************************************************************************)
(* What the kernel lets a tracer do.  PEEK, POKE, CONT, SINGLESTEP and     *)
(* DETACH need a tracee of ours that is in a ptrace stop; waitpid(-1)      *)
(* returns a tracee of ours with an unreported stop or a death.            *)
(***************************************************************************)
Traceable(t) == trace[t] \in Mine /\ run[t] \in {"event", "stopped"}
Reapable(t) == trace[t] \in Mine /\ run[t] \in {"event", "zombie"}
Alive(t) == run[t] \notin {"unborn", "zombie", "dead"}

(* The effect of PTRACE_CONT on the threads of S it succeeds for. *)
ContRun(S) ==
  [t \in Threads |->
     IF t \in S /\ Traceable(t)
     THEN IF why[t] = "exit" THEN "zombie" ELSE "running"
     ELSE run[t]]
ContWhy(S) ==
  [t \in Threads |-> IF t \in S /\ Traceable(t) THEN "none" ELSE why[t]]
ContKid(S) ==
  [t \in Threads |-> IF t \in S /\ Traceable(t) THEN NoThread ELSE kid[t]]

(* PTRACE_DETACH: fails with ESRCH, and changes nothing, on a running tracee. *)
DetachRun(S) ==
  [t \in Threads |->
     IF t \in S /\ Traceable(t)
     THEN IF why[t] = "exit" THEN "dead" ELSE "running"
     ELSE run[t]]
DetachTrace(S) ==
  [t \in Threads |-> IF t \in S /\ Traceable(t) THEN "none" ELSE trace[t]]

Detach(S) ==
  /\ run' = DetachRun(S)
  /\ trace' = DetachTrace(S)
  /\ why' = ContWhy(S)
  /\ kid' = ContKid(S)

(* RestoreInstruction(bp, tid) for the addresses A: nothing when PEEK fails. *)
Restored(A, t) ==
  IF t \in Threads /\ Traceable(t)
  THEN [text EXCEPT ![Owner[t]] =
          [a \in Addrs |-> IF a \in A THEN orig[a] ELSE @[a]]]
  ELSE text

-----------------------------------------------------------------------------
Init ==
  /\ text = [p \in Procs |-> [a \in Addrs |-> "insn"]]
  /\ \E other \in InitOther :
       trace = [t \in Threads |-> IF t \in other THEN "other" ELSE "none"]
  /\ run = [t \in Threads |-> IF t \in InitLive THEN "running" ELSE "unborn"]
  /\ why = [t \in Threads |-> "none"]
  /\ kid = [t \in Threads |-> NoThread]
  /\ at = [t \in Threads |-> NoAddr]
  /\ killed = {}
  /\ pid = NoProc
  /\ attached = FALSE
  /\ bps = {}
  /\ orig = [a \in Addrs |-> "insn"]
  /\ hits = [a \in Addrs |-> 0]
  /\ lastReport = [a \in Addrs |-> 0]
  /\ tids = {}
  /\ newly = {}
  /\ op = "idle"
  /\ opAddr = NoAddr
  /\ opTid = NoThread
  /\ todo = {}
  /\ steps = 0

-----------------------------------------------------------------------------
(* The target: what its threads do on their own. *)

(* Process p is killed (SIGKILL, or SIGTRAP's default action). *)
Die(p) ==
  LET gone == {t \in Threads : Owner[t] = p /\ Alive(t)} IN
  /\ killed' = killed \cup {p}
  /\ run' = [t \in Threads |->
               IF t \in gone
               THEN IF trace[t] \in Mine THEN "zombie" ELSE "dead"
               ELSE run[t]]
  /\ why' = [t \in Threads |-> IF t \in gone THEN "none" ELSE why[t]]
  /\ kid' = [t \in Threads |-> IF t \in gone THEN NoThread ELSE kid[t]]
  /\ at' = [t \in Threads |-> IF t \in gone THEN NoAddr ELSE at[t]]

Kill(p) ==
  /\ p \notin killed
  /\ Die(p)
  /\ UNCHANGED <<text, trace, manager, call>>

(* Thread t executes the instruction at a. *)
Execute(t, a) ==
  /\ run[t] = "running"
  /\ at[t] \in {NoAddr, a}
  /\ \/ /\ text[Owner[t]][a] = "insn"
        /\ at' = [at EXCEPT ![t] = NoAddr]
        /\ UNCHANGED <<run, why, kid, killed>>
     \/ /\ text[Owner[t]][a] = "brk"
        /\ trace[t] \in Mine
        /\ at' = [at EXCEPT ![t] = a]
        /\ run' = [run EXCEPT ![t] = "event"]
        /\ why' = [why EXCEPT ![t] = "brk"]
        /\ UNCHANGED <<kid, killed>>
     \/ /\ text[Owner[t]][a] = "brk"
        /\ trace[t] = "none"
        /\ Die(Owner[t])
  /\ UNCHANGED <<text, trace, manager, call>>

(* A signal, or the INTERRUPT of an earlier attach, stops a tracee. *)
Signal(t) ==
  /\ run[t] = "running"
  /\ trace[t] \in Mine
  /\ run' = [run EXCEPT ![t] = "event"]
  /\ why' = [why EXCEPT ![t] = "signal"]
  /\ UNCHANGED <<text, trace, kid, at, killed, manager, call>>

(* t creates thread c; the kernel traces c too when t has TRACECLONE. *)
Clone(t, c) ==
  /\ run[t] = "running" /\ at[t] = NoAddr
  /\ run[c] = "unborn" /\ Owner[c] = Owner[t]
  /\ IF trace[t] = "opts"
     THEN /\ run' = [run EXCEPT ![t] = "event", ![c] = "starting"]
          /\ why' = [why EXCEPT ![t] = "clone"]
          /\ kid' = [kid EXCEPT ![t] = c]
          /\ trace' = [trace EXCEPT ![c] = "opts"]
     ELSE /\ run' = [run EXCEPT ![c] = "running"]
          /\ trace' = [trace EXCEPT
                         ![c] = IF trace[t] = "other" THEN "other" ELSE "none"]
          /\ UNCHANGED <<why, kid>>
  /\ UNCHANGED <<text, at, killed, manager, call>>

(* The first stop of an automatically traced thread. *)
StartStop(c) ==
  /\ run[c] = "starting"
  /\ run' = [run EXCEPT ![c] = "event"]
  /\ why' = [why EXCEPT ![c] = "signal"]
  /\ UNCHANGED <<text, trace, kid, at, killed, manager, call>>

ThreadExit(t) ==
  /\ run[t] = "running" /\ at[t] = NoAddr
  /\ run' = [run EXCEPT ![t] = CASE trace[t] = "opts" -> "event"
                                 [] trace[t] = "bare" -> "zombie"
                                 [] OTHER -> "dead"]
  /\ why' = [why EXCEPT ![t] = IF trace[t] = "opts" THEN "exit" ELSE "none"]
  /\ UNCHANGED <<text, trace, kid, at, killed, manager, call>>

-----------------------------------------------------------------------------
(* Clear, ClearAll and the paths that detach. *)

(* DetachLocked, after the manager's breakpoints were set to {}. *)
DetachLocked ==
  /\ Detach(IF attached THEN tids ELSE {})
  /\ attached' = FALSE
  /\ lastReport' = [a \in Addrs |-> 0]
  /\ tids' = {}
  /\ newly' = {}

(* The values a breakpoint leaves behind are not read again. *)
Forget(A) ==
  /\ bps' = bps \ A
  /\ orig' = [a \in Addrs |-> IF a \in A THEN "insn" ELSE orig[a]]
  /\ hits' = [a \in Addrs |-> IF a \in A THEN 0 ELSE hits[a]]

(* PickThreadLocked: any attached thread, else the main thread of pid_. *)
Picked(t) ==
  IF tids # {} THEN t \in tids
  ELSE IF pid # NoProc THEN t = Main[pid] ELSE t = NoThread

ClearAllLocked ==
  /\ \E t \in Threads \cup {NoThread} : Picked(t) /\ text' = Restored(bps, t)
  /\ Forget(bps)
  /\ DetachLocked

ClearAll ==
  /\ op = "idle"
  /\ ClearAllLocked
  /\ pid' = NoProc
  /\ UNCHANGED <<at, killed, call>>

Clear(a) ==
  /\ op = "idle"
  /\ a \in bps
  /\ \E t \in Threads \cup {NoThread} :
       Picked(t) /\ text' = Restored({a}, t)
  /\ Forget({a})
  /\ IF bps = {a}
     THEN DetachLocked /\ pid' = NoProc
     ELSE UNCHANGED <<run, trace, why, kid, attached, lastReport, tids, newly, pid>>
  /\ UNCHANGED <<at, killed, call>>

-----------------------------------------------------------------------------
(* Set(p, a): switch process, attach every thread, plant the BRK. *)

(* /proc/p/task, read once: a thread created later is not in it. *)
ListThreads(p) ==
  LET listed == {t \in Threads : Owner[t] = p /\ run[t] \notin {"unborn", "dead"}}
  IN  IF listed = {} THEN {Main[p]} ELSE listed

Set(p, a) ==
  /\ op = "idle"
  /\ pid' = p
  /\ IF pid # NoProc /\ pid # p
     THEN ClearAllLocked
     ELSE UNCHANGED <<text, trace, run, why, kid, bps, orig, hits,
                      attached, lastReport, tids, newly>>
  /\ IF a \in bps'
     THEN UNCHANGED call
     ELSE /\ op' = "attach"
          /\ opAddr' = a
          /\ todo' = ListThreads(p)
          /\ UNCHANGED <<opTid, steps>>
  /\ UNCHANGED <<at, killed>>

(* The error return of AttachAllThreadsLocked; pid_ keeps its new value. *)
AttachFails ==
  /\ tids' = tids \ newly
  /\ newly' = {}
  /\ attached' = (tids \ newly # {})
  /\ op' = "idle"
  /\ opAddr' = NoAddr
  /\ todo' = {}

AttachNext(t) ==
  /\ todo' = todo \ {t}
  /\ UNCHANGED <<op, opAddr, attached>>

(* AttachThreadLocked for a thread that needs no wait: known, gone, traced  *)
(* by this agent already (its options are left as they are), or refused, to *)
(* another debugger or for want of permission.  It fails for the main       *)
(* thread and for one that is gone but still listed in /proc (ESRCH).       *)
AttachThread(t) ==
  /\ op = "attach" /\ t \in todo
  /\ \/ /\ t \in tids \/ run[t] \in {"unborn", "dead"}
        /\ AttachNext(t)
        /\ UNCHANGED <<tids, newly, run, trace, why, kid>>
     \/ /\ t \notin tids /\ trace[t] \in Mine
        /\ AttachNext(t)
        /\ tids' = tids \cup {t}
        /\ UNCHANGED <<newly, run, trace, why, kid>>
     \/ /\ t \notin tids /\ trace[t] \notin Mine /\ t # Main[pid]
        /\ AttachNext(t)
        /\ UNCHANGED <<tids, newly, run, trace, why, kid>>
     \/ /\ t \notin tids /\ trace[t] \notin Mine
        /\ t = Main[pid] \/ run[t] = "dead"
        /\ AttachFails
        /\ Detach(newly)
  /\ UNCHANGED <<text, at, killed, pid, bps, orig, hits, lastReport,
                 opTid, steps>>

(* SEIZE (or ATTACH) a free thread, then WaitForStop: t stops in time, stops *)
(* just after the timeout ("event"), keeps running, or exits.  WaitForStop   *)
(* reaps with waitpid(-1): stops of other tracees it meets (S) are continued *)
(* without being handled, deaths it meets are dropped.                       *)
AttachWait(t, S, r) ==
  LET stops == r \in {"stopped", "event"}
      fails == ~stops /\ t = Main[pid]
      undone == IF fails THEN newly \ S ELSE {}
  IN
  /\ op = "attach" /\ t \in todo
  /\ Alive(t) /\ trace[t] = "none" /\ t \notin tids
  /\ run' = [u \in Threads |->
               IF u = t THEN r
               ELSE IF u \in S
               THEN IF run[u] = "zombie" THEN "dead" ELSE ContRun(S)[u]
               ELSE DetachRun(undone)[u]]
  /\ trace' = [u \in Threads |->
                 IF u = t
                 THEN IF stops THEN "opts"
                      ELSE IF r = "running" THEN "bare" ELSE "none"
                 ELSE IF u \in S
                 THEN IF run[u] = "zombie" THEN "none" ELSE trace[u]
                 ELSE DetachTrace(undone)[u]]
  /\ why' = [ContWhy(S \cup undone) EXCEPT
               ![t] = IF r = "event" THEN "signal" ELSE "none"]
  /\ kid' = ContKid(S \cup undone)
  /\ \/ /\ stops
        /\ tids' = tids \cup {t}
        /\ newly' = newly \cup {t}
        /\ AttachNext(t)
     \/ /\ ~stops /\ ~fails
        /\ AttachNext(t)
        /\ UNCHANGED <<tids, newly>>
     \/ /\ fails
        /\ AttachFails
  /\ UNCHANGED <<text, at, killed, pid, bps, orig, hits, lastReport,
                 opTid, steps>>

(* Mutant: the threads that were seized are forgotten without a CONT. *)
ForgetNewlyAttached ==
  /\ newly' = {}
  /\ UNCHANGED <<run, why, kid>>

ContinueNewlyAttached ==
  /\ run' = ContRun(newly)
  /\ why' = ContWhy(newly)
  /\ kid' = ContKid(newly)
  /\ newly' = {}

(* The rest of Set once every thread was visited: no thread attached, PEEK  *)
(* or POKE through the main thread fails, or the BRK is written.            *)
Plant ==
  /\ op = "attach" /\ todo = {}
  /\ op' = "idle"
  /\ opAddr' = NoAddr
  /\ \/ /\ tids = {}
        /\ attached' = FALSE
        /\ UNCHANGED <<text, trace, run, why, kid, pid, bps, orig, hits,
                       tids, newly>>
     \/ /\ tids # {} /\ ~Traceable(Main[pid])
        /\ Detach(newly)
        /\ tids' = tids \ newly
        /\ newly' = {}
        /\ attached' = (tids' # {})
        /\ pid' = IF tids' = {} THEN NoProc ELSE pid
        /\ UNCHANGED <<text, bps, orig, hits>>
     \/ /\ tids # {} /\ Traceable(Main[pid])
        /\ attached' = TRUE
        /\ text' = [text EXCEPT ![pid][opAddr] = "brk"]
        /\ bps' = bps \cup {opAddr}
        /\ orig' = [orig EXCEPT ![opAddr] = text[pid][opAddr]]
        /\ hits' = [hits EXCEPT ![opAddr] = 0]
        /\ ContinueNewlyAttached
        /\ UNCHANGED <<trace, pid, tids>>
  /\ UNCHANGED <<at, killed, lastReport, opTid, todo, steps>>

-----------------------------------------------------------------------------
(* Poll: PumpEventsLocked drains waitpid(-1), then the counts are reported. *)

Poll ==
  /\ op = "idle"
  /\ op' = "pump"
  /\ steps' = IF attached /\ pid # NoProc THEN 0 ELSE PumpLimit
  /\ UNCHANGED <<target, manager, opAddr, opTid, todo>>

(* Mutants: a stop is handled without counting it; the limit is off by one. *)
UncountedPump(t) ==
  /\ op = "pump"
  /\ steps < PumpLimit
  /\ Reapable(t)
  /\ steps' = steps

OneMorePump(t) ==
  /\ op = "pump"
  /\ steps <= PumpLimit
  /\ Reapable(t)
  /\ steps' = steps + 1

(* One iteration of the loop: waitpid returned t. *)
Pumped(t) ==
  /\ op = "pump"
  /\ steps < PumpLimit
  /\ Reapable(t)
  /\ steps' = steps + 1

(* Mutant: the table survives its last tracee. *)
KeepTable ==
  /\ attached' = FALSE
  /\ pid' = NoProc
  /\ UNCHANGED <<bps, orig, hits>>

(* The last tracee is gone. *)
DropTable ==
  /\ attached' = FALSE
  /\ pid' = NoProc
  /\ Forget(bps)

HandleExit(t) ==
  /\ Pumped(t)
  /\ run[t] = "zombie"
  /\ run' = [run EXCEPT ![t] = "dead"]
  /\ trace' = [trace EXCEPT ![t] = "none"]
  /\ tids' = tids \ {t}
  /\ IF tids' = {}
     THEN DropTable
     ELSE UNCHANGED <<attached, pid, bps, orig, hits>>
  /\ UNCHANGED <<text, why, kid, at, killed, lastReport, newly,
                 op, opAddr, opTid, todo>>

(* A tid that is not known is adopted and given the options. *)
Adopt(known) ==
  /\ tids' = tids \cup known
  /\ trace' = [u \in Threads |-> IF u \in known \ tids /\ Traceable(u) THEN "opts"
                                 ELSE trace[u]]

(* The stops that are only continued: the thread and, after a clone event, *)
(* the child it announces.                                                 *)
Untracked(a) == a \notin bps /\ Below[a] \notin bps

HandleOther(t) ==
  /\ Pumped(t)
  /\ run[t] = "event"
  /\ why[t] = "brk" => Untracked(at[t])
  /\ LET known == {t} \cup ({kid[t]} \ {NoThread}) IN
     /\ Adopt(known)
     /\ run' = ContRun(known) /\ why' = ContWhy(known) /\ kid' = ContKid(known)
  /\ UNCHANGED <<text, at, killed, pid, attached, bps, orig, hits, lastReport,
                 newly, op, opAddr, opTid, todo>>

(* The registers cannot be read: counted if the signal tells where, and     *)
(* continued on the BRK.                                                    *)
HandleUnread(t) ==
  /\ Pumped(t)
  /\ run[t] = "event" /\ why[t] = "brk"
  /\ \/ at[t] \in bps /\ hits' = [hits EXCEPT ![at[t]] = (@ + 1) % W]
     \/ UNCHANGED hits
  /\ Adopt({t})
  /\ run' = ContRun({t}) /\ why' = ContWhy({t}) /\ kid' = ContKid({t})
  /\ UNCHANGED <<text, at, killed, pid, attached, bps, orig, lastReport,
                 newly, op, opAddr, opTid, todo>>

(* A BRK of ours (or, failing that, one at the next instruction): restore  *)
(* the instruction, count, rewind the pc and single-step.                  *)
HitAddr(a) == IF a \in bps THEN a ELSE Below[a]

HandleHit(t) ==
  /\ Pumped(t)
  /\ run[t] = "event" /\ why[t] = "brk" /\ ~Untracked(at[t])
  /\ LET a == HitAddr(at[t]) IN
     /\ text' = Restored({a}, t)
     /\ hits' = [hits EXCEPT ![a] = (@ + 1) % W]
     /\ at' = [at EXCEPT ![t] = a]
     /\ opAddr' = a
  /\ opTid' = t
  /\ op' = "step"
  /\ Adopt({t})
  /\ run' = [run EXCEPT ![t] = "stepping"]
  /\ why' = [why EXCEPT ![t] = "none"]
  /\ UNCHANGED <<kid, killed, pid, attached, bps, orig, lastReport, newly, todo>>

(* Mutant: the BRK is not written back after the step. *)
SkippedInsert(a, t) == text

InsertBreakpoint(a, t) == [text EXCEPT ![Owner[t]][a] = "brk"]

(* waitpid(tid) after the single step: the instruction retired, a signal   *)
(* (dropped) or a BRK came first, or the thread died.  InsertBreakpoint,   *)
(* CONT.                                                                   *)
FinishStep ==
  /\ op = "step"
  /\ \/ /\ run[opTid] = "stepping"
        /\ run' = [run EXCEPT ![opTid] = "running"]
        /\ \/ /\ text[Owner[opTid]][opAddr] = "insn"
              /\ at' = [at EXCEPT ![opTid] = NoAddr]
           \/ UNCHANGED at
        /\ text' = InsertBreakpoint(opAddr, opTid)
        /\ UNCHANGED trace
     \/ /\ run[opTid] = "zombie"
        /\ run' = [run EXCEPT ![opTid] = "dead"]
        /\ trace' = [trace EXCEPT ![opTid] = "none"]
        /\ UNCHANGED <<text, at>>
  /\ op' = "pump"
  /\ opAddr' = NoAddr
  /\ opTid' = NoThread
  /\ UNCHANGED <<why, kid, killed, manager, todo, steps>>

(* The events of the response: the breakpoints whose count changed, up to  *)
(* max_events of them (the code takes them in the order they were set).    *)
Report(R) ==
  /\ op = "pump"
  /\ steps = PumpLimit \/ \A t \in Threads : ~Reapable(t)
  /\ LET changed == {a \in bps : hits[a] # lastReport[a]} IN
     /\ R \subseteq changed
     /\ R = changed \/ Cardinality(R) = MaxEvents
     /\ Cardinality(R) <= MaxEvents
  /\ lastReport' = [a \in Addrs |-> IF a \in R THEN hits[a] ELSE lastReport[a]]
  /\ op' = "idle"
  /\ steps' = 0
  /\ UNCHANGED <<target, pid, attached, bps, orig, hits, tids, newly,
                 opAddr, opTid, todo>>

-----------------------------------------------------------------------------
(* The end of the connection: ClearAll, then the tracer thread exits and   *)
(* the kernel detaches what it still traces, killing (EXITKILL) the        *)
(* processes of the threads that were given the options.                   *)

Disconnect ==
  /\ op = "idle"
  /\ ClearAllLocked
  /\ pid' = NoProc
  /\ op' = "closing"
  /\ UNCHANGED <<at, killed, opAddr, opTid, todo, steps>>

TracerExit ==
  /\ op = "closing"
  /\ op' = "closed"
  /\ LET doomed == {Owner[t] : t \in {u \in Threads : trace[u] = "opts" /\ Alive(u)}}
         dies(t) == Owner[t] \in doomed /\ Alive(t)
         freed(t) == trace[t] \in Mine /\ ~dies(t) IN
     /\ killed' = killed \cup doomed
     /\ run' = [t \in Threads |->
                  IF dies(t) \/ (freed(t) /\ run[t] = "zombie") THEN "dead"
                  ELSE IF freed(t) /\ Alive(t) THEN "running" ELSE run[t]]
     /\ why' = [t \in Threads |-> IF dies(t) \/ freed(t) THEN "none" ELSE why[t]]
     /\ kid' = [t \in Threads |-> IF dies(t) \/ freed(t) THEN NoThread ELSE kid[t]]
     /\ at' = [t \in Threads |-> IF dies(t) THEN NoAddr ELSE at[t]]
     /\ trace' = [t \in Threads |-> IF trace[t] \in Mine THEN "none" ELSE trace[t]]
  /\ UNCHANGED <<text, manager, opAddr, opTid, todo, steps>>

-----------------------------------------------------------------------------
TargetStep ==
  \/ \E p \in Procs : Kill(p)
  \/ \E t \in Threads, a \in Addrs : Execute(t, a)
  \/ \E t \in Threads : Signal(t) \/ StartStop(t) \/ ThreadExit(t)
  \/ \E t, c \in Threads : Clone(t, c)

Request ==
  \/ \E p \in Procs, a \in Addrs : Set(p, a)
  \/ \E a \in Addrs : Clear(a)
  \/ ClearAll
  \/ Poll
  \/ Disconnect

AgentStep ==
  \/ \E t \in Threads : AttachThread(t)
  \/ \E t \in Threads, r \in {"stopped", "event", "running", "dead"} :
       \E S \in SUBSET {u \in Threads : Reapable(u)} : AttachWait(t, S, r)
  \/ Plant
  \/ \E t \in Threads : HandleExit(t) \/ HandleOther(t)
  \/ \E t \in Threads : HandleUnread(t) \/ HandleHit(t)
  \/ FinishStep
  \/ \E R \in SUBSET bps : Report(R)
  \/ TracerExit

Next == TargetStep \/ Request \/ AgentStep

Spec == Init /\ [][Next]_vars

(* The connection's thread is scheduled: a call in progress takes its next *)
(* step whenever it can.  Nothing is assumed of clients or targets, except *)
(* that a single-stepped instruction retires or stops (FinishStep).        *)
FairSpec == Spec /\ WF_vars(AgentStep)

-----------------------------------------------------------------------------
(* Types. *)
Words == {"insn", "brk"}
Tracers == {"none", "bare", "opts", "other"}
RunStates == {"unborn", "running", "starting", "event", "stopped", "stepping",
              "zombie", "dead"}
Reasons == {"none", "brk", "clone", "signal", "exit"}
Count == 0 .. W - 1

TargetTypeOK ==
  /\ text \in [Procs -> [Addrs -> Words]]
  /\ trace \in [Threads -> Tracers]
  /\ run \in [Threads -> RunStates]
  /\ why \in [Threads -> Reasons]
  /\ kid \in [Threads -> Threads \cup {NoThread}]
  /\ at \in [Threads -> Addrs \cup {NoAddr}]
  /\ killed \subseteq Procs

ManagerTypeOK ==
  /\ pid \in Procs \cup {NoProc}
  /\ attached \in BOOLEAN
  /\ bps \subseteq Addrs
  /\ orig \in [Addrs -> Words]
  /\ hits \in [Addrs -> Count]
  /\ lastReport \in [Addrs -> Count]
  /\ tids \subseteq Threads
  /\ newly \subseteq Threads

(* A call in progress keeps the arguments its next step reads. *)
CallTypeOK ==
  /\ op \in {"idle", "attach", "pump", "step", "closing", "closed"}
  /\ op = "attach" => pid \in Procs /\ opAddr \in Addrs
  /\ op = "step" => opTid \in Threads /\ opAddr \in Addrs
  /\ opAddr \in Addrs \cup {NoAddr}
  /\ opTid \in Threads \cup {NoThread}
  /\ todo \subseteq Threads
  /\ steps \in 0 .. PumpLimit

(* Every field has its type, the counters stay within their width and the   *)
(* pump within its limit, and a call in progress has its arguments.         *)
TypeOK == TargetTypeOK /\ ManagerTypeOK /\ CallTypeOK

(* A breakpoint in the table is armed: its BRK is in the text of the        *)
(* debugged process except while a thread of that process single-steps over *)
(* it.  Every path of Set, HandleStop and Clear has to agree on this, in    *)
(* every interleaving with the target's threads.                            *)
Armed ==
  pid \in Procs \ killed =>
    \A a \in bps :
      \/ text[pid][a] = "brk"
      \/ op = "step" /\ opAddr = a /\ Owner[opTid] = pid

(* No call returns with a thread it stopped itself still stopped: what Set  *)
(* seized was continued or detached, on the error returns too, and what a   *)
(* hit stopped was continued.                                               *)
NoParkedThread ==
  op # "attach" => \A t \in Threads : run[t] = "stepping" \/ run[t] = "stopped"
                                        => op = "step" /\ t = opTid

(* The table is never populated without a tracee behind it: breakpoints     *)
(* exist only while attached to their process through at least one thread   *)
(* that is not about to be detached.  Poll and Clear rely on it.            *)
RegistrationAttached ==
  bps # {} => attached /\ pid # NoProc /\ tids \ newly # {}

(* A call that was started returns, whatever the threads do: a BRK that is  *)
(* no longer in the table re-traps at once when continued, and only the     *)
(* limit on the stops one Poll handles ends the drain.                      *)
CallsReturn == op # "idle" ~> op \in {"idle", "closed"}

(* "All breakpoints cleared": when the table is empty and no call is in     *)
(* progress, every surviving process has its own instructions back.         *)
ClearedRestores ==
  op = "idle" /\ bps = {} =>
    \A p \in Procs \ killed, a \in Addrs : text[p][a] = "insn"
=============================================================================
