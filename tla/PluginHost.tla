----------------------------- MODULE PluginHost -----------------------------
(***************************************************************************)
(* The in-process plugin of the Qt client: class PluginRuntime, the        *)
(* (re)configuration MainWindow::ApplyCustomProviderConfig runs on the GUI *)
(* thread, and the memory calls worker threads make through the override   *)
(* hook.  Memory calls are serialised by service_mutex_, so one worker     *)
(* stands for all of them; Activate and Deactivate do not take it.  The    *)
(* worker makes the finitely many calls the GUI thread queued for it.      *)
(***************************************************************************)
EXTENDS Integers

CONSTANTS
  Plugins,        \* in-process plugin packages
  NoPlugin,
  FuseThreshold,  \* kFuseThreshold
  MaxCalls        \* bound: memory calls queued at a time

ASSUME PluginAssumption ==
  /\ NoPlugin \notin Plugins
  /\ FuseThreshold \in Nat \ {0}
  /\ MaxCalls \in Nat

VARIABLES
  (* PluginRuntime *)
  lib,       \* the library that is loaded
  stopFn,    \* R3Plugin_Stop is resolved
  memOp,     \* the library mem_op_fn_ points into
  handler,   \* the library the registered memory callback points into
  active, fused_, errors,
  (* what the library itself has seen *)
  phase,     \* "none", "loaded", "inited", "started" or "stopped"
  (* ClientService *)
  hooks,     \* the override hooks are installed
  (* GUI thread *)
  gpc, selected, forced,
  (* worker thread, which holds service_mutex_ unless "idle" *)
  calls,     \* memory calls queued for it
  wpc, code, outcome,
  crashed

runtime == <<lib, stopFn, memOp, handler, active, fused_, errors, phase>>
gui == <<gpc, selected, forced>>
worker == <<calls, wpc, code, outcome>>
pluginVars == <<runtime, hooks, gui, worker, crashed>>

PluginInit ==
  /\ lib = NoPlugin /\ stopFn = FALSE /\ memOp = NoPlugin /\ handler = NoPlugin
  /\ active = FALSE /\ fused_ = FALSE /\ errors = 0
  /\ phase = "none"
  /\ hooks = FALSE
  /\ gpc = "idle" /\ selected = NoPlugin /\ forced = FALSE
  /\ calls = 0 /\ wpc = "idle" /\ code = NoPlugin /\ outcome = "none"
  /\ crashed = FALSE

-----------------------------------------------------------------------------
(* Failure bookkeeping. *)

(* Mutant: the threshold is compared before the error is counted. *)
RecordFailureLate ==
  /\ errors' = errors + 1
  /\ fused_' = (fused_ \/ errors >= FuseThreshold)

RecordFailure ==
  /\ errors' = errors + 1
  /\ fused_' = (fused_ \/ errors + 1 >= FuseThreshold)

ResetFailures == fused_' = FALSE /\ errors' = 0

(* Mutant: a handled call takes one error back (the counter is unsigned).   *)
CreditedErrors == errors - 1

(* A handled call clears the count, but not the fuse.                       *)
HandledErrors == 0

SupportsMemoryEvent ==
  active /\ ~fused_ /\ (handler # NoPlugin \/ memOp # NoPlugin)

-----------------------------------------------------------------------------
(* GUI thread: ApplyCustomProviderConfig for package p, or none. *)

Apply(p, force) ==
  /\ gpc = "idle"
  /\ selected' = p
  /\ forced' = force
  /\ gpc' = "stop"
  /\ UNCHANGED <<runtime, hooks, worker>>

(* Deactivate, first half: R3Plugin_Stop. *)
Stop ==
  /\ gpc = "stop"
  /\ phase' = IF lib # NoPlugin /\ stopFn THEN "stopped" ELSE phase
  /\ gpc' = "unload"
  /\ UNCHANGED <<lib, stopFn, memOp, handler, active, fused_, errors, hooks,
                 selected, forced, worker>>

Unload ==
  /\ gpc = "unload"
  /\ lib' = NoPlugin
  /\ phase' = "none"
  /\ gpc' = "forget"
  /\ UNCHANGED <<stopFn, memOp, handler, active, fused_, errors, hooks,
                 selected, forced, worker>>

(* Deactivate, last half: pointers and handlers are cleared, then active_. *)
ForgetPlugin ==
  /\ gpc = "forget"
  /\ stopFn' = FALSE /\ memOp' = NoPlugin /\ handler' = NoPlugin
  /\ active' = FALSE
  /\ gpc' = IF selected = NoPlugin THEN "config" ELSE "reset"
  /\ UNCHANGED <<lib, fused_, errors, phase, hooks, selected, forced, worker>>

(* Mutant: a failed activation is tried again. *)
RetriedPlugin(ok) == selected

(* A failed activation is given up: the second Deactivate does not go on.   *)
WantedPlugin(ok) == IF ok THEN selected ELSE NoPlugin

(* Activate: ResetFailures and library_.load().  A library whose exports    *)
(* are incomplete is deactivated again.                                     *)
Load(ok, exports, hasStop, hasMemOp) ==
  /\ gpc = "reset"
  /\ ResetFailures
  /\ \/ /\ ~ok
        /\ gpc' = "config"
        /\ UNCHANGED <<lib, stopFn, memOp, phase, selected>>
     \/ /\ ok
        /\ lib' = selected
        /\ phase' = "loaded"
        /\ exports => hasStop
        /\ stopFn' = hasStop
        /\ memOp' = IF hasMemOp THEN selected ELSE NoPlugin
        /\ gpc' = IF exports THEN "init" ELSE "stop"
        /\ selected' = WantedPlugin(exports)
  /\ UNCHANGED <<handler, active, hooks, forced, worker>>

(* R3Plugin_Query and R3Plugin_Init, then R3Plugin_Start.  A failure        *)
(* deactivates.                                                             *)
Advance(from, reached, to, ok) ==
  /\ gpc = from
  /\ phase' = IF ok THEN reached ELSE phase
  /\ gpc' = IF ok THEN to ELSE "stop"
  /\ selected' = WantedPlugin(ok)
  /\ UNCHANGED <<lib, stopFn, memOp, handler, active, fused_, errors, hooks,
                 forced, worker>>

InitPlugin(ok) == Advance("init", "inited", "start", ok)
StartPlugin(ok) == Advance("start", "started", "register", ok)

(* register_module_events_export may register a memory callback. *)
RegisterEvents(callback) ==
  /\ gpc = "register"
  /\ handler' = IF callback THEN lib ELSE NoPlugin
  /\ active' = TRUE
  /\ gpc' = "config"
  /\ UNCHANGED <<lib, stopFn, memOp, fused_, errors, phase, hooks, selected,
                 forced, worker>>

(* Mutant: hooks of the previous plugin stay when the new one offers none. *)
KeptHooks(wanted) == hooks \/ wanted

InstalledHooks(wanted) == wanted

(* The plugin is asked before the mutex is taken. *)
DecideHooks ==
  /\ gpc = "config"
  /\ gpc' = IF selected # NoPlugin /\ ~forced /\ SupportsMemoryEvent
            THEN "hook" ELSE "unhook"
  /\ UNCHANGED <<runtime, hooks, selected, forced, worker>>

(* Under service_mutex_: configuration, hooks, fuse. *)
Configure ==
  /\ gpc \in {"hook", "unhook"}
  /\ wpc = "idle"
  /\ hooks' = InstalledHooks(gpc = "hook")
  /\ IF forced
     THEN fused_' = TRUE /\ UNCHANGED errors
     ELSE ResetFailures
  /\ gpc' = "idle"
  /\ UNCHANGED <<lib, stopFn, memOp, handler, active, phase, selected, forced,
                 worker>>

(* The memory view runs Analyze on the GUI thread. *)
Analyze(ok) ==
  /\ gpc = "idle"
  /\ active /\ ~fused_
  /\ IF ok THEN errors' = HandledErrors /\ UNCHANGED fused_ ELSE RecordFailure
  /\ UNCHANGED <<lib, stopFn, memOp, handler, active, phase, hooks, gui, worker>>

(* A timer or a command of the GUI thread starts a job with calls to make.  *)
QueueCall ==
  /\ gpc = "idle"
  /\ calls < MaxCalls
  /\ calls' = calls + 1
  /\ UNCHANGED <<runtime, hooks, gui, wpc, code, outcome>>

-----------------------------------------------------------------------------
(* Worker thread: ClientService::ReadMemory or WriteMemory with the hook,   *)
(* DispatchReadMemoryEvent, the registered callback, then R3Plugin_MemOp.   *)

EnterHook ==
  /\ wpc = "idle"
  /\ calls > 0
  /\ calls' = calls - 1
  /\ wpc' = IF hooks /\ SupportsMemoryEvent THEN "find" ELSE "done"
  /\ outcome' = IF hooks /\ SupportsMemoryEvent THEN "none" ELSE "pass"
  /\ UNCHANGED <<runtime, hooks, gui, code>>

FindHandler ==
  /\ wpc = "find"
  /\ wpc' = IF handler = NoPlugin THEN "findMemOp" ELSE "callback"
  /\ code' = handler
  /\ UNCHANGED <<runtime, hooks, gui, calls, outcome>>

(* A request that is too large is an error of the call, not of the plugin.  *)
FindMemOp(fits) ==
  /\ wpc = "findMemOp"
  /\ wpc' = IF memOp = NoPlugin \/ ~fits THEN "done" ELSE "memOp"
  /\ outcome' = IF memOp = NoPlugin THEN "pass" ELSE IF fits THEN outcome ELSE "error"
  /\ code' = IF fits THEN memOp ELSE NoPlugin
  /\ UNCHANGED <<runtime, hooks, gui, calls>>

(* Plugin code returns; an unloaded library takes the process down. *)
Return(rc) ==
  /\ wpc \in {"callback", "memOp"}
  /\ lib = code
  /\ code' = NoPlugin
  /\ \/ /\ rc = "pass"
        /\ wpc' = IF wpc = "callback" THEN "findMemOp" ELSE "done"
        /\ outcome' = IF wpc = "callback" THEN outcome ELSE "pass"
        /\ UNCHANGED <<errors, fused_>>
     \/ /\ rc = "handled"
        /\ wpc' = "done" /\ outcome' = rc
        /\ errors' = HandledErrors
        /\ UNCHANGED fused_
     \/ /\ rc = "error"
        /\ wpc' = "done" /\ outcome' = rc
        /\ RecordFailure
  /\ UNCHANGED <<lib, stopFn, memOp, handler, active, phase, hooks, gui, calls>>

Crash ==
  /\ ~crashed
  /\ wpc \in {"callback", "memOp"}
  /\ lib # code
  /\ crashed' = TRUE
  /\ UNCHANGED <<runtime, hooks, gui, worker>>

(* The call goes on to the built-in chain or not, and releases the mutex. *)
LeaveHook ==
  /\ wpc = "done"
  /\ wpc' = "idle"
  /\ outcome' = "none"
  /\ UNCHANGED <<runtime, hooks, gui, calls, code>>

-----------------------------------------------------------------------------
GuiStep ==
  \/ Stop \/ Unload \/ ForgetPlugin \/ DecideHooks \/ Configure
  \/ \E ok, exports, hasStop, hasMemOp \in BOOLEAN :
        Load(ok, exports, hasStop, hasMemOp)
  \/ \E ok \in BOOLEAN : InitPlugin(ok) \/ StartPlugin(ok) \/ RegisterEvents(ok)

WorkerStep ==
  \/ EnterHook \/ FindHandler \/ LeaveHook
  \/ \E fits \in BOOLEAN : FindMemOp(fits)
  \/ \E rc \in {"pass", "handled", "error"} : Return(rc)

Alive == ~crashed /\ UNCHANGED crashed

PluginNext ==
  \/ /\ Alive
     /\ \/ \E p \in Plugins \cup {NoPlugin}, force \in BOOLEAN : Apply(p, force)
        \/ GuiStep
        \/ \E ok \in BOOLEAN : Analyze(ok)
        \/ QueueCall
        \/ WorkerStep
  \/ Crash

PluginSpec == PluginInit /\ [][PluginNext]_pluginVars

(* The GUI event handler runs to its end, and so does a worker's call (a    *)
(* plugin callback is assumed to return).  Weak fairness is enough for the  *)
(* wait on the mutex: while the GUI thread waits it queues no calls.        *)
PluginFairSpec ==
  /\ PluginSpec
  /\ WF_pluginVars(Alive /\ GuiStep)
  /\ WF_pluginVars(Alive /\ WorkerStep)
  /\ WF_pluginVars(Crash)

-----------------------------------------------------------------------------
PluginTypeOK ==
  /\ lib \in Plugins \cup {NoPlugin}
  /\ memOp \in Plugins \cup {NoPlugin}
  /\ handler \in Plugins \cup {NoPlugin}
  /\ code \in Plugins \cup {NoPlugin}
  /\ selected \in Plugins \cup {NoPlugin}
  /\ stopFn \in BOOLEAN /\ active \in BOOLEAN /\ fused_ \in BOOLEAN
  /\ hooks \in BOOLEAN /\ forced \in BOOLEAN /\ crashed \in BOOLEAN
  /\ errors \in Nat /\ calls \in 0 .. MaxCalls
  /\ phase \in {"none", "loaded", "inited", "started", "stopped"}
  /\ gpc \in {"idle", "stop", "unload", "forget", "reset", "init", "start",
              "register", "config", "hook", "unhook"}
  /\ wpc \in {"idle", "find", "callback", "findMemOp", "memOp", "done"}
  /\ outcome \in {"none", "pass", "handled", "error"}

(* Between two reconfigurations, installed hooks have a started plugin      *)
(* behind them: a memory call is never routed to a runtime that failed to   *)
(* activate, was deactivated, or that the user asked to bypass.             *)
HooksBacked ==
  gpc = "idle" /\ hooks => active /\ phase = "started" /\ lib # NoPlugin /\ ~forced

(* A plugin that keeps failing without ever handling a call is fused, from  *)
(* whichever thread the failures are recorded, and the fuse stops it: at    *)
(* most the one call already past SupportsMemoryEvent can fail after that.  *)
PluginFuseHolds ==
  /\ errors >= FuseThreshold => fused_
  /\ errors <= FuseThreshold + 1

(* Reconfiguring terminates: the GUI thread gets through the plugin's       *)
(* lifecycle and the wait for the mutex (unless the process crashed).       *)
ApplyEnds == gpc # "idle" ~> gpc = "idle" \/ crashed
=============================================================================
