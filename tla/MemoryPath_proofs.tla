------------------------- MODULE MemoryPath_proofs --------------------------
(***************************************************************************)
(* The path of a memory call, in its two parts.                            *)
(*                                                                         *)
(* MemoryChain, for any set of processes and any fuse threshold:           *)
(* FuseHolds, HookSettles and FallbackAllowed are not inductive: a state   *)
(* before the hook was asked must be known to have tried nothing yet, and  *)
(* a settled call must be known to go nowhere else.  CallOrder adds that.  *)
(*                                                                         *)
(* PluginHost, for every set of plugins and every threshold: HooksBacked   *)
(* speaks of the GUI thread between two reconfigurations.  It holds        *)
(* because of where the thread is in the lifecycle of the plugin during    *)
(* one: Lifecycle relates its position to the library and to what the      *)
(* library has seen.  PluginFuseHolds bounds the count by one failure past *)
(* the threshold; InFlight says why there is only one: a worker enters the *)
(* plugin below the threshold, and while it is inside, nobody else passes  *)
(* the fuse.                                                               *)
(***************************************************************************)
EXTENDS MemoryChain, PluginHost, TLAPS

CallOrder ==
  /\ pc = "hook" => tried = {} /\ hookRc = "none"
  /\ hookRc \in {"handled", "error"} => pc \in {"done", "idle"}
  /\ pc = "custom" => tried = {}

IInv == TypeOK /\ CallOrder /\ FuseHolds /\ HookSettles /\ FallbackAllowed /\ SameTarget

-----------------------------------------------------------------------------
(* The bookkeeping of the provider keeps the streak within the threshold    *)
(* and the fuse in step with it.                                            *)

LEMMA FailureRecorded ==
  ASSUME failStreak \in 0 .. Threshold, fused \in BOOLEAN,
         failStreak >= Threshold => fused, ~fused, RecordProviderFailure
  PROVE  /\ failStreak' \in 0 .. Threshold
         /\ fused' \in BOOLEAN
         /\ failStreak' >= Threshold => fused'
<1>1. failStreak' = failStreak + 1 /\ failStreak' \in 0 .. Threshold
  BY ChainAssumption DEF RecordProviderFailure
<1>2. CASE failStreak + 1 >= Threshold
  <2>1. fused' = TRUE
    BY <1>2, Zenon DEF RecordProviderFailure
  <2> QED
    BY <1>1, <2>1, Zenon
<1>3. CASE ~(failStreak + 1 >= Threshold)
  <2>1. fused' = fused
    BY <1>3, Zenon DEF RecordProviderFailure
  <2> QED
    BY <1>1, <1>3, <2>1, Zenon
<1> QED
  BY <1>2, <1>3

LEMMA SuccessRecorded ==
  ASSUME fused \in BOOLEAN, RecordProviderSuccess
  PROVE  /\ failStreak' \in 0 .. Threshold
         /\ fused' = fused
         /\ failStreak' < Threshold
  BY ChainAssumption DEF RecordProviderSuccess

LEMMA RuntimeReset ==
  ASSUME ResetProviderRuntime
  PROVE  failStreak' = 0 /\ fused' = FALSE /\ failStreak' \in 0 .. Threshold
         /\ failStreak' < Threshold
  BY ChainAssumption DEF ResetProviderRuntime

-----------------------------------------------------------------------------
(* Every initial state satisfies the invariant. *)
LEMMA IInvInit == Init => IInv
<1> SUFFICES ASSUME Init PROVE IInv
  OBVIOUS
<1>1. ui \in Settings
  BY DEF Init, Settings
<1>2. cfg \in [enabled : BOOLEAN, allow : BOOLEAN, syscalls : SUBSET Ops]
  BY DEF Init, NoProvider
<1>3. failStreak \in 0 .. Threshold
  BY ChainAssumption DEF Init
<1>4. /\ applying \in BOOLEAN /\ connected \in BOOLEAN /\ plainAgent \in BOOLEAN
      /\ hooked \in BOOLEAN /\ fused \in BOOLEAN /\ linked \in BOOLEAN
      /\ ok \in BOOLEAN /\ smoke \in BOOLEAN /\ attachFailed \in BOOLEAN
  BY Zenon DEF Init
<1>5. TypeOK
  BY <1>1, <1>2, <1>3, <1>4, Zenon DEF Init, TypeOK, Ops
<1>6. CallOrder /\ FuseHolds /\ HookSettles /\ FallbackAllowed /\ SameTarget
  BY ChainAssumption DEF Init, CallOrder, FuseHolds, HookSettles, FallbackAllowed,
     SameTarget
<1> QED
  BY <1>5, <1>6 DEF IInv

(* Every step keeps the types, the streak's bound included. *)
LEMMA TypeStep == IInv /\ [Next]_vars => TypeOK'
<1> SUFFICES ASSUME IInv, [Next]_vars PROVE TypeOK'
  OBVIOUS
<1> USE DEF IInv, TypeOK
<1>1. ASSUME NEW success \in BOOLEAN, NEW plain \in BOOLEAN, Connect(success, plain)
      PROVE  TypeOK'
  BY <1>1 DEF Connect, call
<1>2. CASE Disconnect
  BY <1>2, RuntimeReset, ChainAssumption DEF Disconnect, call
<1>3. CASE Break
  <2>1. linked' \in BOOLEAN /\ reader' \in Pids \cup {NoPid}
    BY <1>3, Zenon DEF Break
  <2>2. UNCHANGED <<ui, applying, connected, attachedPid, plainAgent, cfg, hooked, fused,
                    failStreak, pc, op, ok, smoke, tried, hookRc, attachFailed>>
    BY <1>3 DEF Break, client, call
  <2> QED
    BY <2>1, <2>2
<1>4. ASSUME NEW p \in Pids, NEW opened \in BOOLEAN, Attach(p, opened)
      PROVE  TypeOK'
  BY <1>4 DEF Attach, Reopened, call
<1>5. ASSUME NEW s \in Settings, ChangeSettings(s)
      PROVE  TypeOK'
  BY <1>5 DEF ChangeSettings, client, agent, call
<1>6. ASSUME NEW events \in BOOLEAN, ApplyCustomProviderConfig(events)
      PROVE  TypeOK'
  <2>1. Provider(ui) \in [enabled : BOOLEAN, allow : BOOLEAN, syscalls : SUBSET Ops]
    BY DEF Provider, NoProvider, Settings
  <2> QED
    <3>1. fused' \in BOOLEAN
      BY <1>6 DEF ApplyCustomProviderConfig, Settings
    <3>2. failStreak' \in 0 .. Threshold
      BY <1>6, ChainAssumption DEF ApplyCustomProviderConfig
    <3>3. cfg' \in [enabled : BOOLEAN, allow : BOOLEAN, syscalls : SUBSET Ops]
      BY <1>6, <2>1 DEF ApplyCustomProviderConfig
    <3>4. hooked' \in BOOLEAN /\ applying' \in BOOLEAN
      BY <1>6, Zenon DEF ApplyCustomProviderConfig
    <3>5. UNCHANGED <<ui, connected, attachedPid, plainAgent, linked, reader, pc, op, ok,
                      smoke, tried, hookRc, attachFailed>>
      BY <1>6 DEF ApplyCustomProviderConfig, agent, call
    <3> QED
      BY <3>1, <3>2, <3>3, <3>4, <3>5
<1>7. ASSUME NEW o \in Ops, Begin(o)
      PROVE  TypeOK'
  BY <1>7, ZenonT(40) DEF Begin, client, agent
<1>8. CASE BeginSelfCheck
  <2>1. cfg' \in [enabled : BOOLEAN, allow : BOOLEAN, syscalls : SUBSET Ops]
    <3>1. cfg' = [cfg EXCEPT !.allow = TRUE, !.syscalls = @ \ {"read"}]
      BY <1>8 DEF BeginSelfCheck
    <3> QED
      BY <3>1
  <2>2. failStreak' \in 0 .. Threshold
    BY <1>8, ChainAssumption DEF BeginSelfCheck, ResetProviderRuntime
  <2>3. /\ fused' \in BOOLEAN /\ smoke' \in BOOLEAN /\ ok' \in BOOLEAN
        /\ op' \in Ops /\ tried' \subseteq {"custom", "native"}
        /\ hookRc' \in {"none", "pass", "handled", "error"}
        /\ pc' \in {"idle", "hook", "custom", "native", "done"}
    BY <1>8, Zenon DEF BeginSelfCheck, ResetProviderRuntime, Ops
  <2>4. UNCHANGED <<ui, applying, connected, attachedPid, plainAgent, hooked, agent,
                    attachFailed>>
    BY <1>8 DEF BeginSelfCheck
  <2> QED
    BY <2>1, <2>2, <2>3, <2>4, Zenon DEF agent
<1>9. CASE CallStep
  <2>1. ASSUME NEW rc \in {"pass", "handled", "error"}, CallHook(rc)
        PROVE  TypeOK'
    BY <1>9, <2>1 DEF CallHook, AfterHook, FirstProvider, client, agent
  <2>2. CASE NoHook
    BY <2>2 DEF NoHook, FirstProvider, client, agent
  <2>3. ASSUME NEW success \in BOOLEAN, CallCustom(success)
        PROVE  TypeOK'
    <3>1. failStreak' \in 0 .. Threshold /\ fused' \in BOOLEAN
      BY <2>3, FailureRecorded, SuccessRecorded DEF CallCustom, FuseHolds
    <3> QED
      <4>1. /\ tried' \subseteq {"custom", "native"}
            /\ pc' \in {"idle", "hook", "custom", "native", "done"}
        BY <2>3 DEF CallCustom, AfterCustomFailure
      <4>2. ok' \in BOOLEAN
        BY <2>3, Zenon DEF CallCustom
      <4>3. UNCHANGED <<ui, applying, connected, attachedPid, plainAgent, cfg, hooked,
                        agent, op, smoke, hookRc, attachFailed>>
        BY <2>3 DEF CallCustom
      <4> QED
        BY <3>1, <4>1, <4>2, <4>3 DEF agent
  <2>4. ASSUME NEW success \in BOOLEAN, CallNative(success)
        PROVE  TypeOK'
    <3>1. failStreak' \in 0 .. Threshold /\ fused' \in BOOLEAN
      BY <2>4, SuccessRecorded DEF CallNative
    <3> QED
      BY <2>4, <3>1 DEF CallNative, agent
  <2>5. CASE End
    <3>1. cfg' \in [enabled : BOOLEAN, allow : BOOLEAN, syscalls : SUBSET Ops]
      <4>1. ui.syscalls \cap {"read"} \subseteq Ops
        BY DEF Ops
      <4> QED
        BY <2>5, <4>1 DEF End
    <3>2. failStreak' \in 0 .. Threshold
      BY <2>5, ChainAssumption DEF End, ResetProviderRuntime
    <3>3. /\ fused' \in BOOLEAN /\ smoke' \in BOOLEAN
          /\ pc' \in {"idle", "hook", "custom", "native", "done"}
      BY <2>5, Zenon DEF End, ResetProviderRuntime
    <3>4. UNCHANGED <<ui, applying, connected, attachedPid, plainAgent, hooked, agent,
                      op, ok, tried, hookRc, attachFailed>>
      BY <2>5 DEF End
    <3> QED
      BY <3>1, <3>2, <3>3, <3>4, ZenonT(40) DEF agent
  <2> QED
    BY <1>9, <2>1, <2>2, <2>3, <2>4, <2>5 DEF CallStep
<1>10. CASE UNCHANGED vars
  BY <1>10 DEF vars, client, agent, call
<1> QED
  BY <1>1, <1>2, <1>3, <1>4, <1>5, <1>6, <1>7, <1>8, <1>9, <1>10 DEF Next

(* Every step keeps the order of a call: hook, custom provider, built-in    *)
(* command, each asked at most once and only if the one before let it.      *)
LEMMA ChainStep ==
  IInv /\ [Next]_vars => (CallOrder /\ FuseHolds /\ HookSettles /\ FallbackAllowed)'
<1> SUFFICES ASSUME IInv, [Next]_vars
             PROVE  (CallOrder /\ FuseHolds /\ HookSettles /\ FallbackAllowed)'
  OBVIOUS
<1> USE DEF CallOrder, FuseHolds, HookSettles, FallbackAllowed, IInv
<1> DEFINE Chain == CallOrder /\ FuseHolds /\ HookSettles /\ FallbackAllowed
<1>1. ASSUME NEW success \in BOOLEAN, NEW plain \in BOOLEAN, Connect(success, plain)
      PROVE  Chain'
  BY <1>1 DEF Connect, call
<1>2. CASE Disconnect
  BY <1>2, RuntimeReset, ChainAssumption DEF Disconnect, call
<1>3. CASE Break
  BY <1>3 DEF Break, client, call
<1>4. ASSUME NEW p \in Pids, NEW opened \in BOOLEAN, Attach(p, opened)
      PROVE  Chain'
  BY <1>4 DEF Attach, call
<1>5. ASSUME NEW s \in Settings, ChangeSettings(s)
      PROVE  Chain'
  BY <1>5 DEF ChangeSettings, client, agent, call
<1>6. ASSUME NEW events \in BOOLEAN, ApplyCustomProviderConfig(events)
      PROVE  Chain'
  BY <1>6, ChainAssumption DEF ApplyCustomProviderConfig, agent, call
<1>7. ASSUME NEW o \in Ops, Begin(o)
      PROVE  Chain'
  BY <1>7 DEF Begin, client, agent
<1>8. CASE BeginSelfCheck
  BY <1>8, RuntimeReset, ChainAssumption DEF BeginSelfCheck, agent
<1>9. CASE CallStep
  <2>1. ASSUME NEW rc \in {"pass", "handled", "error"}, CallHook(rc)
        PROVE  Chain'
    BY <2>1 DEF CallHook, AfterHook, FirstProvider, client, agent
  <2>2. CASE NoHook
    BY <2>2 DEF NoHook, FirstProvider, client, agent
  <2>3. ASSUME NEW success \in BOOLEAN, CallCustom(success)
        PROVE  Chain'
    <3>1. /\ pc = "custom" /\ tried' = {"custom"}
          /\ hookRc' = hookRc /\ hookRc \notin {"handled", "error"}
      BY <2>3 DEF CallCustom
    <3>2. failStreak' >= Threshold => fused'
      BY <2>3, FailureRecorded, SuccessRecorded, ChainAssumption
         DEF CallCustom, TypeOK
    <3>3. pc' \in {"native", "done"} /\ (pc' = "native" => cfg'.allow /\ ~ok')
      BY <2>3 DEF CallCustom, AfterCustomFailure
    <3> QED
      BY <3>1, <3>2, <3>3
  <2>4. ASSUME NEW success \in BOOLEAN, CallNative(success)
        PROVE  Chain'
    <3>1. failStreak' >= Threshold => fused'
      BY <2>4, ChainAssumption DEF CallNative, RecordProviderSuccess, TypeOK
    <3> QED
      BY <2>4, <3>1 DEF CallNative
  <2>5. CASE End
    <3>1. failStreak' >= Threshold => fused'
      BY <2>5, ChainAssumption DEF End, ResetProviderRuntime, TypeOK
    <3> QED
      BY <2>5, <3>1 DEF End
  <2> QED
    BY <1>9, <2>1, <2>2, <2>3, <2>4, <2>5 DEF CallStep
<1>10. CASE UNCHANGED vars
  BY <1>10 DEF vars, client, agent, call
<1> QED
  BY <1>1, <1>2, <1>3, <1>4, <1>5, <1>6, <1>7, <1>8, <1>9, <1>10 DEF Next

(* Every step keeps client and agent on the same process. *)
LEMMA TargetStep == IInv /\ [Next]_vars => SameTarget'
<1> SUFFICES ASSUME IInv, [Next]_vars PROVE SameTarget'
  OBVIOUS
<1> USE DEF SameTarget
<1>1. CASE \E success, plain \in BOOLEAN : Connect(success, plain)
  BY <1>1 DEF Connect
<1>2. CASE Disconnect \/ Break
  BY <1>2 DEF Disconnect, Break
<1>3. ASSUME NEW p \in Pids, NEW opened \in BOOLEAN, Attach(p, opened)
      PROVE  SameTarget'
  <2>1. CASE ~linked
    BY <1>3, <2>1 DEF Attach
  <2>2. CASE linked /\ opened
    BY <1>3, <2>2 DEF Attach, Reopened
  <2>3. CASE linked /\ ~opened
    <3>1. attachFailed' = TRUE
      BY <1>3, <2>3, Zenon DEF Attach
    <3> QED
      BY <3>1
  <2> QED
    BY <2>1, <2>2, <2>3
<1>4. CASE UNCHANGED <<attachedPid, agent, attachFailed>>
  BY <1>4 DEF IInv, agent
<1> QED
  BY <1>1, <1>2, <1>3, <1>4
     DEF Next, ChangeSettings, ApplyCustomProviderConfig, Begin, BeginSelfCheck,
         CallStep, CallHook, NoHook, CallCustom, CallNative, End, vars, client, agent

(* The invariant holds in every reachable state. *)
THEOREM Invariance == Spec => []IInv
<1>1. IInv /\ [Next]_vars => IInv'
  BY TypeStep, ChainStep, TargetStep DEF IInv
<1> QED
  BY IInvInit, <1>1, PTL DEF Spec

(* Every variable has its type: the failure streak never passes the         *)
(* threshold.                                                               *)
THEOREM ChainTypeCorrect == Spec => []TypeOK
<1>1. IInv => TypeOK
  BY DEF IInv
<1> QED
  BY Invariance, <1>1, PTL

(* No call reaches a custom provider that is fused. *)
THEOREM FuseRespected == Spec => []FuseHolds
<1>1. IInv => FuseHolds
  BY DEF IInv
<1> QED
  BY Invariance, <1>1, PTL

(* A hook that handled a call or failed it has the last word. *)
THEOREM HookDecides == Spec => []HookSettles
<1>1. IInv => HookSettles
  BY DEF IInv
<1> QED
  BY Invariance, <1>1, PTL

(* After a custom attempt the built-in command runs only as a fallback. *)
THEOREM FallbackOnlyIfAllowed == Spec => []FallbackAllowed
<1>1. IInv => FallbackAllowed
  BY DEF IInv
<1> QED
  BY Invariance, <1>1, PTL

(* The built-in commands and the client agree on the attached process. *)
THEOREM TargetAgreed == Spec => []SameTarget
<1>1. IInv => SameTarget
  BY DEF IInv
<1> QED
  BY Invariance, <1>1, PTL

-----------------------------------------------------------------------------
(* The plugin behind the hook. *)

Lifecycle ==
  /\ gpc \in {"reset", "init", "start"} => selected # NoPlugin
  /\ gpc \in {"reset", "init", "start", "register"} => ~active
  /\ gpc \in {"init", "start", "register"} => lib # NoPlugin
  /\ gpc = "register" => phase = "started"
  /\ gpc \in {"config", "hook", "unhook", "idle"} /\ active =>
       phase = "started" /\ lib # NoPlugin
  /\ gpc = "hook" => active /\ ~forced

InFlight ==
  wpc \in {"find", "callback", "findMemOp", "memOp"} => errors <= FuseThreshold

PluginInv == PluginTypeOK /\ Lifecycle /\ HooksBacked /\ InFlight /\ PluginFuseHolds

-----------------------------------------------------------------------------
LEMMA PluginInvInit == PluginInit => PluginInv
<1> SUFFICES ASSUME PluginInit PROVE PluginInv
  OBVIOUS
<1>1. errors \in Nat /\ calls \in 0 .. MaxCalls /\ InFlight /\ PluginFuseHolds
  BY PluginAssumption DEF PluginInit, InFlight, PluginFuseHolds
<1>2. Lifecycle /\ HooksBacked
  BY DEF PluginInit, Lifecycle, HooksBacked
<1> QED
  BY <1>1, <1>2, Zenon DEF PluginInit, PluginInv, PluginTypeOK

(* A failure or a success recorded leaves a count and a fuse. *)
LEMMA FailureTyped ==
  ASSUME PluginTypeOK, RecordFailure
  PROVE  errors' \in Nat /\ fused_' \in BOOLEAN
<1>1. errors' \in Nat
  BY DEF PluginTypeOK, RecordFailure
<1>2. fused_' \in BOOLEAN
  BY Zenon DEF RecordFailure
<1> QED
  BY <1>1, <1>2

LEMMA ResetTyped ==
  ASSUME ResetFailures
  PROVE  errors' \in Nat /\ fused_' \in BOOLEAN
  BY DEF ResetFailures

(* The types. *)
LEMMA PluginTypeStep == PluginTypeOK /\ [PluginNext]_pluginVars => PluginTypeOK'
<1> SUFFICES ASSUME PluginTypeOK, [PluginNext]_pluginVars PROVE PluginTypeOK'
  OBVIOUS
<1> USE PluginAssumption DEF PluginTypeOK, Alive, gui, worker, runtime
<1>1. ASSUME Alive, NEW p \in Plugins \cup {NoPlugin}, NEW force \in BOOLEAN,
             Apply(p, force)
      PROVE  PluginTypeOK'
  BY <1>1 DEF Apply
<1>2. CASE Alive /\ (Stop \/ Unload \/ ForgetPlugin)
  <2>1. CASE Stop
    <3>1. phase' \in {"none", "loaded", "inited", "started", "stopped"}
      BY <2>1, Zenon DEF Stop
    <3> QED
      BY <1>2, <2>1, <3>1 DEF Stop
  <2>2. CASE Unload
    BY <1>2, <2>2 DEF Unload
  <2>3. CASE ForgetPlugin
    <3>1. gpc' \in {"config", "reset"}
      BY <2>3, Zenon DEF ForgetPlugin
    <3>2. stopFn' \in BOOLEAN /\ active' \in BOOLEAN
      BY <2>3, Zenon DEF ForgetPlugin
    <3> QED
      BY <1>2, <2>3, <3>1, <3>2 DEF ForgetPlugin
  <2> QED
    BY <1>2, <2>1, <2>2, <2>3
<1>13. CASE Alive /\ DecideHooks
  <2>1. gpc' \in {"hook", "unhook"}
    BY <1>13, Zenon DEF DecideHooks
  <2> QED
    BY <1>13, <2>1 DEF DecideHooks
<1>3. CASE Alive /\ Configure
  <2>1. hooks' \in BOOLEAN
    BY <1>3, Zenon DEF Configure, InstalledHooks
  <2>2. errors' \in Nat /\ fused_' \in BOOLEAN
    BY <1>3, ResetTyped DEF Configure
  <2> QED
    BY <1>3, <2>1, <2>2 DEF Configure
<1>4. ASSUME Alive, NEW fine \in BOOLEAN, NEW exports \in BOOLEAN, NEW hasStop \in BOOLEAN,
             NEW hasMemOp \in BOOLEAN, Load(fine, exports, hasStop, hasMemOp)
      PROVE  PluginTypeOK'
  <2>1. errors' \in Nat /\ fused_' \in BOOLEAN
    BY <1>4, ResetTyped DEF Load
  <2>2. /\ lib' \in Plugins \cup {NoPlugin} /\ memOp' \in Plugins \cup {NoPlugin}
        /\ selected' \in Plugins \cup {NoPlugin}
    BY <1>4 DEF Load, WantedPlugin
  <2>3. /\ stopFn' \in BOOLEAN
        /\ phase' \in {"none", "loaded", "inited", "started", "stopped"}
        /\ gpc' \in {"config", "init", "stop"}
    BY <1>4, Zenon DEF Load
  <2> QED
    BY <1>4, <2>1, <2>2, <2>3 DEF Load
<1>5. ASSUME Alive, NEW fine \in BOOLEAN, InitPlugin(fine) \/ StartPlugin(fine)
      PROVE  PluginTypeOK'
  BY <1>5 DEF InitPlugin, StartPlugin, Advance, WantedPlugin
<1>6. ASSUME Alive, NEW fine \in BOOLEAN, RegisterEvents(fine) PROVE PluginTypeOK'
  BY <1>6 DEF RegisterEvents
<1>7. ASSUME Alive, NEW fine \in BOOLEAN, Analyze(fine) PROVE PluginTypeOK'
  <2>1. errors' \in Nat /\ fused_' \in BOOLEAN
    BY <1>7, FailureTyped DEF Analyze, HandledErrors
  <2> QED
    BY <1>7, <2>1 DEF Analyze
<1>8. CASE Alive /\ QueueCall
  BY <1>8 DEF QueueCall
<1>9. CASE Alive /\ (EnterHook \/ FindHandler \/ LeaveHook)
  BY <1>9 DEF EnterHook, FindHandler, LeaveHook
<1>14. ASSUME Alive, NEW fits \in BOOLEAN, FindMemOp(fits) PROVE PluginTypeOK'
  BY <1>14 DEF FindMemOp
<1>10. ASSUME Alive, NEW rc \in {"pass", "handled", "error"}, Return(rc) PROVE PluginTypeOK'
  <2>1. errors' \in Nat /\ fused_' \in BOOLEAN
    BY <1>10, FailureTyped DEF Return, HandledErrors
  <2>2. /\ wpc' \in {"findMemOp", "done"}
        /\ outcome' \in {"none", "pass", "handled", "error"}
    BY <1>10 DEF Return
  <2> QED
    BY <1>10, <2>1, <2>2 DEF Return
<1>11. CASE Crash
  BY <1>11 DEF Crash
<1>12. CASE UNCHANGED pluginVars
  BY <1>12 DEF pluginVars
<1> QED
  BY <1>1, <1>2, <1>3, <1>4, <1>5, <1>6, <1>7, <1>8, <1>9, <1>10, <1>11, <1>12, <1>13,
     <1>14
  DEF PluginNext, GuiStep, WorkerStep

-----------------------------------------------------------------------------
(* The GUI thread moves through the lifecycle; nobody else touches it. *)
LEMMA LifecycleStep == PluginInv /\ [PluginNext]_pluginVars => (Lifecycle /\ HooksBacked)'
<1> SUFFICES ASSUME PluginInv, [PluginNext]_pluginVars PROVE (Lifecycle /\ HooksBacked)'
  OBVIOUS
<1> USE DEF PluginInv, Lifecycle, HooksBacked, runtime, gui
<1>1. ASSUME NEW p \in Plugins \cup {NoPlugin}, NEW force \in BOOLEAN, Apply(p, force)
      PROVE  (Lifecycle /\ HooksBacked)'
  BY <1>1 DEF Apply
<1>2. CASE Stop \/ Unload
  BY <1>2 DEF Stop, Unload
<1>3. CASE ForgetPlugin
  BY <1>3 DEF ForgetPlugin
<1>4. ASSUME NEW fine \in BOOLEAN, NEW exports \in BOOLEAN, NEW hasStop \in BOOLEAN,
             NEW hasMemOp \in BOOLEAN, Load(fine, exports, hasStop, hasMemOp)
      PROVE  (Lifecycle /\ HooksBacked)'
  BY <1>4 DEF Load, WantedPlugin
<1>5. ASSUME NEW fine \in BOOLEAN, InitPlugin(fine) \/ StartPlugin(fine)
      PROVE  (Lifecycle /\ HooksBacked)'
  BY <1>5 DEF InitPlugin, StartPlugin, Advance, WantedPlugin
<1>6. ASSUME NEW fine \in BOOLEAN, RegisterEvents(fine) PROVE (Lifecycle /\ HooksBacked)'
  BY <1>6 DEF RegisterEvents
<1>7. CASE DecideHooks \/ Configure
  <2>1. CASE DecideHooks
    <3>1. UNCHANGED <<lib, active, phase, hooks, forced>>
      BY <2>1 DEF DecideHooks
    <3>2. gpc' = "unhook" \/ (gpc' = "hook" /\ active /\ ~forced)
      BY <2>1, Zenon DEF DecideHooks, SupportsMemoryEvent
    <3>3. gpc = "config"
      BY <2>1 DEF DecideHooks
    <3> QED BY <3>1, <3>2, <3>3
  <2>2. CASE Configure
    <3>1. hooks' = (gpc = "hook") /\ gpc' = "idle" /\ gpc \in {"hook", "unhook"}
      BY <2>2, Zenon DEF Configure, InstalledHooks
    <3>2. UNCHANGED <<lib, active, phase, forced>>
      BY <2>2 DEF Configure
    <3> QED BY <3>1, <3>2
  <2> QED BY <1>7, <2>1, <2>2
<1>8. CASE UNCHANGED <<lib, active, phase, hooks, gpc, selected, forced>>
  BY <1>8
<1>9. ASSUME NEW fine \in BOOLEAN, Analyze(fine) \/ QueueCall \/ Crash
      PROVE  (Lifecycle /\ HooksBacked)'
  BY <1>8, <1>9 DEF Analyze, QueueCall, Crash
<1>10. CASE WorkerStep
  BY <1>8, <1>10 DEF WorkerStep, EnterHook, FindHandler, FindMemOp, Return, LeaveHook
<1>11. CASE UNCHANGED pluginVars
  BY <1>8, <1>11 DEF pluginVars
<1> QED
  BY <1>1, <1>2, <1>3, <1>4, <1>5, <1>6, <1>7, <1>9, <1>10, <1>11 DEF PluginNext, GuiStep

(* The count of failures, whoever records them. *)
LEMMA FailureCounted ==
  ASSUME PluginTypeOK, RecordFailure
  PROVE  errors' = errors + 1 /\ (errors' >= FuseThreshold => fused_')
  BY PluginAssumption DEF PluginTypeOK, RecordFailure

LEMMA PluginFuseStep == PluginInv /\ [PluginNext]_pluginVars => (InFlight /\ PluginFuseHolds)'
<1> SUFFICES ASSUME PluginInv, [PluginNext]_pluginVars PROVE (InFlight /\ PluginFuseHolds)'
  OBVIOUS
<1> USE PluginAssumption DEF PluginInv, PluginTypeOK, InFlight, PluginFuseHolds, runtime, worker
<1>1. CASE UNCHANGED <<errors, fused_, wpc>>
  BY <1>1
<1>2. ASSUME NEW p \in Plugins \cup {NoPlugin}, NEW force \in BOOLEAN, Apply(p, force)
      PROVE  (InFlight /\ PluginFuseHolds)'
  BY <1>1, <1>2 DEF Apply
<1>3. CASE Stop \/ Unload \/ ForgetPlugin
  BY <1>1, <1>3 DEF Stop, Unload, ForgetPlugin
<1>4. ASSUME NEW fine \in BOOLEAN, NEW exports \in BOOLEAN, NEW hasStop \in BOOLEAN,
             NEW hasMemOp \in BOOLEAN, Load(fine, exports, hasStop, hasMemOp)
      PROVE  (InFlight /\ PluginFuseHolds)'
  BY <1>4 DEF Load, ResetFailures
<1>5. ASSUME NEW fine \in BOOLEAN, InitPlugin(fine) \/ StartPlugin(fine) \/ RegisterEvents(fine)
      PROVE  (InFlight /\ PluginFuseHolds)'
  BY <1>1, <1>5 DEF InitPlugin, StartPlugin, Advance, RegisterEvents
<1>6. CASE DecideHooks \/ Configure
  BY <1>1, <1>6 DEF DecideHooks, Configure, ResetFailures
<1>7. ASSUME NEW fine \in BOOLEAN, Analyze(fine) PROVE (InFlight /\ PluginFuseHolds)'
  <2>1. CASE fine
    BY <1>7, <2>1 DEF Analyze, HandledErrors
  <2>2. CASE ~fine
    <3>1. RecordFailure /\ errors < FuseThreshold /\ UNCHANGED wpc
      BY <1>7, <2>2 DEF Analyze
    <3> QED
      BY <3>1, FailureCounted
  <2> QED
    BY <2>1, <2>2
<1>8. CASE QueueCall \/ Crash \/ UNCHANGED pluginVars
  BY <1>1, <1>8 DEF QueueCall, Crash, pluginVars
<1>9. CASE EnterHook
  BY <1>9 DEF EnterHook, SupportsMemoryEvent
<1>10. ASSUME NEW fits \in BOOLEAN, FindHandler \/ FindMemOp(fits) \/ LeaveHook
       PROVE  (InFlight /\ PluginFuseHolds)'
  BY <1>10 DEF FindHandler, FindMemOp, LeaveHook
<1>11. ASSUME NEW rc \in {"pass", "handled", "error"}, Return(rc)
       PROVE  (InFlight /\ PluginFuseHolds)'
  <2>1. errors <= FuseThreshold
    BY <1>11 DEF Return
  <2>2. CASE rc = "pass"
    BY <1>11, <2>1, <2>2 DEF Return
  <2>3. CASE rc = "handled"
    BY <1>11, <2>3 DEF Return, HandledErrors
  <2>4. CASE rc = "error"
    <3>1. RecordFailure /\ wpc' = "done"
      BY <1>11, <2>4 DEF Return
    <3> QED
      BY <2>1, <3>1, FailureCounted
  <2> QED
    BY <1>11, <2>2, <2>3, <2>4
<1> QED
  BY <1>2, <1>3, <1>4, <1>5, <1>6, <1>7, <1>8, <1>9, <1>10, <1>11
  DEF PluginNext, GuiStep, WorkerStep

LEMMA PluginInvAlways == PluginSpec => []PluginInv
<1>1. PluginInv /\ [PluginNext]_pluginVars => PluginInv'
  BY PluginTypeStep, LifecycleStep, PluginFuseStep DEF PluginInv
<1> QED
  BY <1>1, PluginInvInit, PTL DEF PluginSpec

-----------------------------------------------------------------------------
(* Types, with the number of queued calls. *)
THEOREM PluginTypeCorrect == PluginSpec => []PluginTypeOK
<1>1. PluginInv => PluginTypeOK
  BY DEF PluginInv
<1> QED
  BY <1>1, PluginInvAlways, PTL

(* Hooks are installed only with a started plugin behind them. *)
THEOREM HooksHavePlugin == PluginSpec => []HooksBacked
<1>1. PluginInv => HooksBacked
  BY DEF PluginInv
<1> QED
  BY <1>1, PluginInvAlways, PTL

(* The fuse blows at the threshold, and at most one failure comes after. *)
THEOREM PluginFused == PluginSpec => []PluginFuseHolds
<1>1. PluginInv => PluginFuseHolds
  BY DEF PluginInv
<1> QED
  BY <1>1, PluginInvAlways, PTL
=============================================================================
