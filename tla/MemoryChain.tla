----------------------------- MODULE MemoryChain ----------------------------
(***************************************************************************)
(* One memory call of the Qt client, from ClientService::ReadMemory or     *)
(* WriteMemory down to the agent: override hook, custom provider, built-in *)
(* command.  service_mutex_ makes a call atomic towards other calls and    *)
(* configuration changes, so those happen only between calls; the agent    *)
(* and the connection may fail at any point of a call.                     *)
(***************************************************************************)
EXTENDS Naturals

CONSTANTS
  Pids,       \* target processes
  NoPid,      \* attached_pid_ == 0, and the agent's empty reader
  Threshold   \* fail_threshold

ASSUME ChainAssumption == NoPid \notin Pids /\ Threshold \in Nat \ {0}

VARIABLES
  (* MainWindow *)
  ui,            \* plugin_* settings
  applying,      \* a change of them, or a connect, still has to be applied
  (* ClientService *)
  connected, attachedPid,
  plainAgent,    \* capabilities are known to lack AGENT_CAP_CUSTOM_MEM_OP
  cfg,           \* custom_provider_
  hooked,        \* override hooks are installed
  fused, failStreak,
  (* the agent's connection thread *)
  linked, reader,
  (* the call *)
  pc, op, ok, smoke,
  (* history: routes the call took, how its hook answered, whether the last *)
  (* CMD_ATTACH failed                                                      *)
  tried, hookRc, attachFailed

client == <<connected, attachedPid, plainAgent, cfg, hooked, fused, failStreak>>
agent == <<linked, reader>>
call == <<pc, op, ok, smoke, tried, hookRc>>
vars == <<ui, applying, client, agent, call, attachFailed>>

Ops == {"read", "write"}

(* The settings of the plugin window: the provider is enabled (and the user *)
(* has not asked for the built-in one), fallback, the two syscalls.         *)
Settings == [enabled : BOOLEAN, forced : BOOLEAN, allow : BOOLEAN,
             syscalls : SUBSET Ops]

NoProvider == [enabled |-> FALSE, allow |-> TRUE, syscalls |-> {}]

Init ==
  /\ ui = [enabled |-> FALSE, forced |-> FALSE, allow |-> TRUE, syscalls |-> {}]
  /\ applying = FALSE
  /\ connected = FALSE /\ attachedPid = NoPid /\ plainAgent = FALSE
  /\ cfg = NoProvider /\ hooked = FALSE
  /\ fused = FALSE /\ failStreak = 0
  /\ linked = FALSE /\ reader = NoPid
  /\ pc = "idle" /\ op = "read" /\ ok = FALSE /\ smoke = FALSE
  /\ tried = {} /\ hookRc = "none"
  /\ attachFailed = FALSE

-----------------------------------------------------------------------------
(* Provider bookkeeping. *)

(* Mutant: compares before it counts. *)
RecordProviderFailureLate ==
  /\ failStreak' = failStreak + 1
  /\ fused' = IF failStreak >= Threshold THEN TRUE ELSE fused

RecordProviderFailure ==
  /\ failStreak' = failStreak + 1
  /\ fused' = IF failStreak + 1 >= Threshold THEN TRUE ELSE fused

RecordProviderSuccess == failStreak' = 0 /\ UNCHANGED fused

ResetProviderRuntime == fused' = FALSE /\ failStreak' = 0

-----------------------------------------------------------------------------
(* Between calls: connection, attachment, configuration. *)

(* ConnectToService: connect, negotiate capabilities, then apply the plugin *)
(* settings.  A failed Connect has closed the old socket all the same.      *)
Connect(success, plain) ==
  /\ pc = "idle" /\ ~applying /\ ~connected
  /\ connected' = success
  /\ attachedPid' = IF success THEN NoPid ELSE attachedPid
  /\ plainAgent' = IF success THEN plain ELSE FALSE
  /\ linked' = success
  /\ reader' = NoPid
  /\ applying' = success
  /\ attachFailed' = FALSE
  /\ UNCHANGED <<ui, cfg, hooked, fused, failStreak, call>>

Disconnect ==
  /\ pc = "idle" /\ ~applying /\ connected
  /\ connected' = FALSE
  /\ attachedPid' = NoPid
  /\ plainAgent' = FALSE
  /\ ResetProviderRuntime
  /\ linked' = FALSE /\ reader' = NoPid
  /\ attachFailed' = FALSE
  /\ UNCHANGED <<ui, applying, cfg, hooked, call>>

(* The connection breaks, or the agent dies: the client notices nothing but *)
(* failing calls.                                                           *)
Break ==
  /\ linked
  /\ linked' = FALSE /\ reader' = NoPid
  /\ UNCHANGED <<ui, applying, client, call, attachFailed>>

(* Mutant: the agent opens a reader only once per connection. *)
ReopenedOnce(p) == IF reader = NoPid THEN p ELSE reader

Reopened(p) == p

(* CMD_ATTACH replaces the reader before it knows whether p can be opened;  *)
(* the client keeps its pid when the answer is an error or does not come.   *)
Attach(p, opened) ==
  /\ pc = "idle" /\ ~applying /\ connected
  /\ reader' = IF linked THEN Reopened(p) ELSE reader
  /\ attachedPid' = IF linked /\ opened THEN p ELSE attachedPid
  /\ attachFailed' = IF linked THEN ~opened ELSE FALSE
  /\ UNCHANGED <<ui, applying, connected, plainAgent, cfg, hooked, fused,
                 failStreak, linked, call>>

(* The plugin window, or the fallback command, changes the settings. *)
ChangeSettings(s) ==
  /\ pc = "idle" /\ ~applying
  /\ ui' = s
  /\ applying' = TRUE
  /\ UNCHANGED <<client, agent, call, attachFailed>>

(* The configuration ApplyCustomProviderConfig builds from the settings. *)
Provider(s) ==
  IF s.enabled /\ ~s.forced
  THEN [enabled |-> TRUE, allow |-> s.allow, syscalls |-> s.syscalls]
  ELSE NoProvider

ApplyCustomProviderConfig(events) ==
  /\ pc = "idle" /\ applying
  /\ events => Provider(ui).enabled
  /\ cfg' = Provider(ui)
  /\ hooked' = events
  /\ fused' = ui.forced
  /\ failStreak' = 0
  /\ applying' = FALSE
  /\ UNCHANGED <<ui, connected, attachedPid, plainAgent, agent, call,
                 attachFailed>>

-----------------------------------------------------------------------------
(* The call. *)

Begin(o) ==
  /\ pc = "idle" /\ connected
  /\ op' = o
  /\ ok' = FALSE
  /\ tried' = {}
  /\ hookRc' = "none"
  /\ pc' = "hook"
  /\ UNCHANGED <<ui, applying, client, agent, smoke, attachFailed>>

(* The fallback part of RunPluginSelfCheck, all under one lock: a read with *)
(* the custom read syscall removed.                                         *)
BeginSelfCheck ==
  /\ pc = "idle" /\ connected /\ attachedPid # NoPid
  /\ ~applying
  /\ cfg.enabled
  /\ cfg' = [cfg EXCEPT !.allow = TRUE, !.syscalls = @ \ {"read"}]
  /\ ResetProviderRuntime
  /\ smoke' = TRUE
  /\ op' = "read" /\ ok' = FALSE /\ tried' = {} /\ hookRc' = "none"
  /\ pc' = "hook"
  /\ UNCHANGED <<ui, applying, connected, attachedPid, plainAgent, hooked, agent,
                 attachFailed>>

(* Mutant: a fused provider is still asked. *)
FirstProviderUnfused == IF cfg.enabled THEN "custom" ELSE "native"

(* Where a call goes when no hook decided it. *)
FirstProvider == IF cfg.enabled /\ ~fused THEN "custom" ELSE "native"

(* Mutant: a hook's error falls through like a pass. *)
AfterHookError(rc) ==
  IF rc = "handled" THEN "done" ELSE FirstProvider

AfterHook(rc) ==
  IF rc \in {"handled", "error"} THEN "done" ELSE FirstProvider

CallHook(rc) ==
  /\ pc = "hook" /\ hooked
  /\ hookRc' = rc
  /\ ok' = IF rc = "handled" THEN TRUE ELSE FALSE
  /\ pc' = AfterHook(rc)
  /\ UNCHANGED <<ui, applying, client, agent, op, smoke, tried, attachFailed>>

NoHook ==
  /\ pc = "hook" /\ ~hooked
  /\ pc' = FirstProvider
  /\ UNCHANGED <<ui, applying, client, agent, op, ok, smoke, tried, hookRc,
                 attachFailed>>

(* The pid a CMD_CUSTOM_MEM_OP addresses at the agent. *)
CustomTarget == IF attachedPid = NoPid THEN reader ELSE attachedPid

(* The request can succeed: syscall configured, agent not known to lack the *)
(* command, connection up, some process addressed.                          *)
CustomPossible ==
  /\ op \in cfg.syscalls
  /\ ~plainAgent
  /\ linked
  /\ CustomTarget # NoPid

(* Mutant: fallback without asking the configuration. *)
AfterCustomFailureAlways == "native"

AfterCustomFailure == IF cfg.allow THEN "native" ELSE "done"

(* ReadMemoryViaCustomProvider, WriteMemoryViaCustomProvider.  A request    *)
(* that could succeed may still fail: the syscall's error, a short write,   *)
(* a truncated answer.                                                      *)
CallCustom(success) ==
  /\ pc = "custom"
  /\ tried' = tried \cup {"custom"}
  /\ \/ /\ success /\ CustomPossible
        /\ RecordProviderSuccess
        /\ ok' = TRUE
        /\ pc' = "done"
     \/ /\ ~success
        /\ RecordProviderFailure
        /\ ok' = FALSE
        /\ pc' = AfterCustomFailure
  /\ UNCHANGED <<ui, applying, connected, attachedPid, plainAgent, cfg, hooked,
                 agent, op, smoke, hookRc, attachFailed>>

(* CMD_READ_MEM or CMD_WRITE_MEM, on whatever process the reader has open.  *)
CallNative(success) ==
  /\ pc = "native"
  /\ tried' = tried \cup {"native"}
  /\ success => linked /\ reader # NoPid
  /\ ok' = success
  /\ IF success /\ cfg.enabled
     THEN RecordProviderSuccess
     ELSE UNCHANGED <<fused, failStreak>>
  /\ pc' = "done"
  /\ UNCHANGED <<ui, applying, connected, attachedPid, plainAgent, cfg, hooked,
                 agent, op, smoke, hookRc, attachFailed>>

(* The call returns; a self check puts the read syscall back. *)
End ==
  /\ pc = "done"
  /\ pc' = "idle"
  /\ smoke' = FALSE
  /\ IF smoke
     THEN /\ cfg' = [cfg EXCEPT !.syscalls = @ \cup (ui.syscalls \cap {"read"})]
          /\ ResetProviderRuntime
     ELSE UNCHANGED <<cfg, fused, failStreak>>
  /\ UNCHANGED <<ui, applying, connected, attachedPid, plainAgent, hooked, agent,
                 op, ok, tried, hookRc, attachFailed>>

CallStep ==
  \/ \E rc \in {"pass", "handled", "error"} : CallHook(rc)
  \/ NoHook
  \/ \E success \in BOOLEAN : CallCustom(success) \/ CallNative(success)
  \/ End

Next ==
  \/ \E success, plain \in BOOLEAN : Connect(success, plain)
  \/ Disconnect
  \/ Break
  \/ \E p \in Pids, opened \in BOOLEAN : Attach(p, opened)
  \/ \E s \in Settings : ChangeSettings(s)
  \/ \E events \in BOOLEAN : ApplyCustomProviderConfig(events)
  \/ \E o \in Ops : Begin(o)
  \/ BeginSelfCheck
  \/ CallStep

Spec == Init /\ [][Next]_vars

-----------------------------------------------------------------------------
TypeOK ==
  /\ ui \in Settings
  /\ applying \in BOOLEAN /\ connected \in BOOLEAN
  /\ attachedPid \in Pids \cup {NoPid}
  /\ plainAgent \in BOOLEAN /\ hooked \in BOOLEAN
  /\ cfg \in [enabled : BOOLEAN, allow : BOOLEAN, syscalls : SUBSET Ops]
  /\ fused \in BOOLEAN /\ failStreak \in 0 .. Threshold
  /\ linked \in BOOLEAN /\ reader \in Pids \cup {NoPid}
  /\ pc \in {"idle", "hook", "custom", "native", "done"}
  /\ op \in Ops /\ ok \in BOOLEAN /\ smoke \in BOOLEAN
  /\ tried \subseteq {"custom", "native"}
  /\ hookRc \in {"none", "pass", "handled", "error"}
  /\ attachFailed \in BOOLEAN

(* R3_MODULE_DISPATCH_HANDLED and _ERROR settle a call: the default flow is *)
(* not run, and the call succeeds exactly when it was handled.              *)
HookSettles ==
  hookRc \in {"handled", "error"} =>
    tried = {} /\ (pc # "hook" => ok = (hookRc = "handled"))

(* A provider whose consecutive failures reach the threshold is fused, and  *)
(* no call that comes to the custom provider finds it fused.                *)
FuseHolds ==
  /\ failStreak >= Threshold => fused
  /\ pc = "custom" => ~fused

(* A call goes from the custom provider to the built-in command only after  *)
(* the custom attempt failed, and only if the configuration in force allows *)
(* fallback.                                                                *)
FallbackAllowed ==
  pc = "native" /\ "custom" \in tried => cfg.allow /\ ~ok

(* While the connection lives and the last attach succeeded, the built-in   *)
(* commands reach the process the client believes to be attached to, which  *)
(* is the one hooks and custom requests name.                               *)
SameTarget ==
  linked /\ ~attachFailed /\ attachedPid # NoPid => reader = attachedPid
=============================================================================
