--------------------------- MODULE PerfBreakpoints ---------------------------
(***************************************************************************)
(* The hardware breakpoints of the Android agent: class                    *)
(* PerfBreakpointManager of android_agent/main.cpp, on top of perf_event.  *)
(*                                                                         *)
(* Set opens one perf event per thread listed in /proc/pid/task; with       *)
(* inherit = 1 the kernel counts the threads created afterwards on their   *)
(* parent's event.  Poll reports what each event counted since the last    *)
(* Poll; for a data breakpoint whose event counted nothing it compares the *)
(* value of the memory with the one it kept ("watch fallback").  Since the *)
(* kernel refuses to map an inherited event of one thread, the ring buffer *)
(* of SetupRingBuffer stays unmapped and its hits are always 0.            *)
(*                                                                         *)
(* A breakpoint is a key here: an address with a type and a size.          *)
(***************************************************************************)
EXTENDS Integers, FiniteSets, Sequences

CONSTANTS
  Procs, NoProc,
  Threads,      \* threads, born or not
  Owner,        \* Owner[t]: the process of thread t
  InitLive,     \* threads alive at the start
  ExecKeys,     \* execution breakpoints
  WatchKeys,    \* data breakpoints
  Values,       \* the values of a watched location
  InitValue,    \* the value they start with
  NoValue, NoKey,
  MaxHits       \* bound on the hits an event counts between two reads of it

Keys == ExecKeys \cup WatchKeys

ASSUME PerfAssumption ==
  /\ Owner \in [Threads -> Procs] /\ InitLive \subseteq Threads
  /\ NoProc \notin Procs /\ NoValue \notin Values /\ InitValue \in Values /\ NoKey \notin Keys
  /\ ExecKeys \cap WatchKeys = {}
  /\ MaxHits \in Nat

VARIABLES
  live,       \* threads of the target
  memory,     \* memory[p][k]: the value of a watched location
  (* the manager *)
  pid_, breakpoints_, watch_states_,
  (* Set in progress: its key, the threads to open, whether any was opened *)
  setting, todo, any

target == <<live, memory>>
manager == <<pid_, breakpoints_, watch_states_>>
call == <<setting, todo, any>>
vars == <<target, manager, call>>

(* One perf event: the threads it counts for and, of its counter, what the *)
(* last Poll has not seen (count - last_count: the target may run for ever *)
(* and the code uses the difference only).  As history, owed: the hits it  *)
(* counted less those reported, -1 for any number reported in excess.      *)
Event == [key : Keys, tid : Threads, who : SUBSET Threads,
          unread : Nat, owed : Int]

-----------------------------------------------------------------------------
Init ==
  /\ live = InitLive
  /\ memory = [p \in Procs |-> [k \in WatchKeys |-> InitValue]]
  /\ pid_ = NoProc
  /\ breakpoints_ = <<>>
  /\ watch_states_ = [k \in WatchKeys |-> NoValue]
  /\ setting = NoKey /\ todo = {} /\ any = FALSE

KeepStates(K) == IF Keys \subseteq K THEN [k \in WatchKeys |-> NoValue]
                 ELSE watch_states_   \* mutant: the value kept outlives its breakpoint
WatchStatesWithout(K) ==
  [k \in WatchKeys |-> IF k \in K THEN NoValue ELSE watch_states_[k]]

(* ClearLocked and ClearAllLocked: close the events of the keys K; the     *)
(* others move up in their order.                                          *)
Kept(K) == {i \in DOMAIN breakpoints_ : breakpoints_[i].key \notin K}
Place(i, I) == Cardinality({j \in I : j <= i})
Remaining(K) ==
  [n \in 1 .. Cardinality(Kept(K)) |->
     breakpoints_[CHOOSE i \in Kept(K) : Place(i, Kept(K)) = n]]
Cleared(K) ==
  /\ breakpoints_' = Remaining(K)
  /\ watch_states_' = WatchStatesWithout(IF Remaining(K) = <<>> THEN Keys ELSE K)

(* Set, up to the list of threads: it replaces a breakpoint that is there. *)
ReplacesSame(p, k) == {k}   \* mutant: those of another process stay
Replaces(p, k) == IF pid_ \notin {NoProc, p} THEN Keys ELSE {k}

SetStart(p, k) ==
  /\ setting = NoKey
  /\ Cleared(Replaces(p, k))
  /\ pid_' = p
  /\ setting' = k
  /\ todo' = {t \in live : Owner[t] = p}
  /\ any' = FALSE
  /\ UNCHANGED target

(* perf_event_open, RESET and ENABLE for one thread; they fail when the    *)
(* thread is gone or the hardware has no slot left.                        *)
SetOpen(t) ==
  /\ setting # NoKey /\ t \in todo
  /\ todo' = todo \ {t}
  /\ \/ /\ t \in live
        /\ breakpoints_' = Append(breakpoints_,
             [key |-> setting, tid |-> t, who |-> {t}, unread |-> 0, owed |-> 0])
        /\ any' = TRUE
     \/ UNCHANGED <<breakpoints_, any>>
  /\ UNCHANGED <<target, pid_, watch_states_, setting>>

(* The value a data breakpoint starts from, when it can be read. *)
SetEnd ==
  /\ setting # NoKey /\ todo = {}
  /\ \/ /\ any /\ setting \in WatchKeys /\ watch_states_[setting] = NoValue
        /\ watch_states_' = [watch_states_ EXCEPT ![setting] = memory[pid_][setting]]
     \/ UNCHANGED watch_states_
  /\ setting' = NoKey /\ any' = FALSE
  /\ UNCHANGED <<target, pid_, breakpoints_, todo>>

NoPid(K) == NoProc   \* mutant: the process is forgotten with its first breakpoint
PidWithout(K) == IF Remaining(K) = <<>> THEN NoProc ELSE pid_

Clear(p, k) ==
  /\ setting = NoKey
  /\ pid_ \in {NoProc, p}
  /\ Cleared({k})
  /\ pid_' = PidWithout({k})
  /\ UNCHANGED <<target, call>>

ClearAll ==
  /\ setting = NoKey
  /\ Cleared(Keys)
  /\ pid_' = NoProc
  /\ UNCHANGED <<target, call>>

-----------------------------------------------------------------------------
(* Poll walks over the events in the order they were opened and stops      *)
(* after max_events reports.  What can be read in it: can.events are the    *)
(* events whose counter is read, can.memory the locations.                  *)
Counts(i, can) == IF i \in can.events THEN breakpoints_[i].unread ELSE 0

(* Event i counted nothing and is the first of its key in this Poll that   *)
(* did not: its location is compared with the value kept, and kept anew.   *)
Compares(i, can) ==
  /\ breakpoints_[i].key \in WatchKeys
  /\ Counts(i, can) = 0
  /\ \A j \in 1 .. (i - 1) :
       breakpoints_[j].key = breakpoints_[i].key => Counts(j, can) > 0
Current(k) == memory[pid_][k]

Delta(i, can) ==
  LET k == breakpoints_[i].key IN
  IF Counts(i, can) > 0 THEN Counts(i, can)
  ELSE IF /\ Compares(i, can) /\ k \in can.memory
          /\ watch_states_[k] \notin {NoValue, Current(k)}
  THEN 1 ELSE 0

ReportsUpTo(i, can) == Cardinality({j \in 1 .. i : Delta(j, can) > 0})
FirstEvents(i, max_events, can) == i <= max_events   \* mutant: events, not reports
Polled(i, max_events, can) == ReportsUpTo(i - 1, can) < max_events

TakesAll(i, max_events, can) == 0   \* mutant: counts taken, reports cut off
Unseen(i, max_events, can) ==
  IF Polled(i, max_events, can) /\ i \in can.events THEN 0 ELSE breakpoints_[i].unread
Owed(i, max_events, can) ==
  LET e == breakpoints_[i] IN
  IF ~Polled(i, max_events, can) THEN e.owed
  ELSE IF Delta(i, can) > e.owed THEN -1 ELSE e.owed - Delta(i, can)

Poll(max_events, can) ==
  /\ setting = NoKey /\ breakpoints_ # <<>>
  /\ breakpoints_' = [i \in DOMAIN breakpoints_ |->
       [breakpoints_[i] EXCEPT !.unread = Unseen(i, max_events, can),
                               !.owed = Owed(i, max_events, can)]]
  /\ watch_states_' = [k \in WatchKeys |->
       IF k \in can.memory /\ \E i \in DOMAIN breakpoints_ :
            breakpoints_[i].key = k /\ Compares(i, can) /\ Polled(i, max_events, can)
       THEN Current(k) ELSE watch_states_[k]]
  /\ UNCHANGED <<target, pid_, call>>

-----------------------------------------------------------------------------
(* The target: a thread executes, or writes v to, a location. *)
CountsFor(e, t, k) == e.key = k /\ t \in e.who

Access(t, k) ==
  /\ t \in live
  /\ \A i \in DOMAIN breakpoints_ :
       CountsFor(breakpoints_[i], t, k) => breakpoints_[i].unread < MaxHits
  /\ breakpoints_' = [i \in DOMAIN breakpoints_ |->
       IF CountsFor(breakpoints_[i], t, k)
       THEN [breakpoints_[i] EXCEPT !.unread = @ + 1, !.owed = @ + 1] ELSE breakpoints_[i]]
  /\ IF k \in WatchKeys
     THEN \E v \in Values : memory' = [memory EXCEPT ![Owner[t]][k] = v]
     ELSE UNCHANGED memory
  /\ UNCHANGED <<live, pid_, watch_states_, call>>

(* t creates c, which t's events count from then on. *)
Clone(t, c) ==
  /\ t \in live /\ c \in Threads \ live /\ Owner[c] = Owner[t]
  /\ live' = live \cup {c}
  /\ breakpoints_' = [i \in DOMAIN breakpoints_ |->
       IF t \in breakpoints_[i].who
       THEN [breakpoints_[i] EXCEPT !.who = @ \cup {c}] ELSE breakpoints_[i]]
  /\ UNCHANGED <<memory, pid_, watch_states_, call>>

Manage ==
  \/ \E p \in Procs, k \in Keys : SetStart(p, k) \/ Clear(p, k)
  \/ \E t \in Threads : SetOpen(t)
  \/ SetEnd \/ ClearAll

(* The Polls in which the events E have their counters read. *)
PollsOf(E) == \E max_events \in 1 .. 2, M \in SUBSET WatchKeys :
                Poll(max_events, [events |-> E, memory |-> M])
Polls == \E E \in SUBSET DOMAIN breakpoints_ : PollsOf(E)

Next ==
  \/ Manage \/ Polls
  \/ \E t \in Threads : \/ \E k \in Keys : Access(t, k)
                        \/ \E c \in Threads : Clone(t, c)

SetGoesOn == SetEnd \/ \E t \in Threads : SetOpen(t)

(* A Set in progress ends.  The client polls on a timer for as long as it  *)
(* has breakpoints, whatever else it asks in between, and the kernel       *)
(* answers the reads again and again: strong fairness.                     *)
Spec == /\ Init /\ [][Next]_vars
        /\ WF_vars(SetGoesOn) /\ SF_vars(PollsOf(DOMAIN breakpoints_))

-----------------------------------------------------------------------------
TypeOK ==
  /\ live \subseteq Threads
  /\ memory \in [Procs -> [WatchKeys -> Values]]
  /\ pid_ \in Procs \cup {NoProc}
  /\ breakpoints_ \in Seq(Event)
  /\ watch_states_ \in [WatchKeys -> Values \cup {NoValue}]
  /\ \A i \in DOMAIN breakpoints_ : Owner[breakpoints_[i].tid] = pid_
  /\ setting \in Keys \cup {NoKey} /\ todo \subseteq Threads /\ any \in BOOLEAN

(* No hit the kernel counted is dropped by Poll, and no hit of an execution *)
(* breakpoint is reported twice, also when max_events cuts a Poll short, a  *)
(* counter cannot be read or a Set replaces events with others: what is not *)
(* reported yet is still in the counter, and the watch fallback reports in  *)
(* excess for data breakpoints only.                                        *)
HitsExact ==
  \A i \in DOMAIN breakpoints_ :
    LET e == breakpoints_[i] IN
    e.owed <= e.unread /\ (e.key \in ExecKeys => e.owed = e.unread)

(* A value kept for comparison belongs to a breakpoint that is set: a new   *)
(* breakpoint is never compared with what an earlier one saw.              *)
WatchBacked ==
  \A k \in WatchKeys : watch_states_[k] # NoValue =>
    \E i \in DOMAIN breakpoints_ : breakpoints_[i].key = k

(* A counted hit is eventually reported, or its breakpoint cleared, even   *)
(* when every Poll is cut short by max_events, PROVIDED the locations of    *)
(* the events opened before it fall quiet: Poll always starts with the      *)
(* first event, so events that are hit between any two Polls keep those     *)
(* behind the cut from ever being read.                                     *)
IsEvent(i, k, t) ==
  i \in DOMAIN breakpoints_ /\ breakpoints_[i].key = k /\ breakpoints_[i].tid = t
Pending(k, t) == \E i \in DOMAIN breakpoints_ : IsEvent(i, k, t) /\ breakpoints_[i].unread > 0
AccessAhead(k, t) ==
  \E i \in DOMAIN breakpoints_, u \in Threads :
    /\ IsEvent(i, k, t) /\ Owner[u] = pid_
    /\ \E j \in 1 .. (i - 1) : Access(u, breakpoints_[j].key)
HitsReported ==
  \A k \in Keys, t \in Threads :
    <>[][~AccessAhead(k, t)]_vars => (Pending(k, t) ~> ~Pending(k, t))
=============================================================================
