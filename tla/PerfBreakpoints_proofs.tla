----------------------- MODULE PerfBreakpoints_proofs -----------------------
(***************************************************************************)
(* Proofs about PerfBreakpoints, for every set of processes, threads and   *)
(* breakpoints and every number of accesses.                               *)
(*                                                                         *)
(* TypeOK is not inductive: that an event is of a thread of the process in *)
(* pid_ needs the same of the threads a Set still has to open.  HitsExact  *)
(* needs that owed never falls below -1, and WatchBacked that a Set that   *)
(* opened something has an event in the table.  What Clear leaves of the   *)
(* table is defined by counting places; Kept events have one place each.   *)
(***************************************************************************)
EXTENDS PerfBreakpoints, SequenceTheorems, FiniteSetTheorems, TLAPS

(* What a Set in progress relies on. *)
Setting ==
  /\ setting # NoKey => pid_ \in Procs /\ \A t \in todo : Owner[t] = pid_
  /\ any => \E i \in DOMAIN breakpoints_ : breakpoints_[i].key = setting

(* The hits an event owes are those still unread, less what was reported   *)
(* in excess of a data breakpoint's.                                       *)
Exact(e) ==
  /\ e.owed >= -1 /\ e.owed <= e.unread
  /\ e.key \in ExecKeys => e.owed = e.unread
Truthful == \A i \in DOMAIN breakpoints_ : Exact(breakpoints_[i])

IInv == TypeOK /\ Setting /\ Truthful /\ WatchBacked

-----------------------------------------------------------------------------
(* Places: the members of a finite set of numbers, counted from below, are *)
(* at the places 1 .. Cardinality(I), one member at each.                  *)

(* Place is one of 1 .. Cardinality(I). *)
LEMMA PlaceInRange ==
  ASSUME NEW I \in SUBSET Nat, IsFiniteSet(I), NEW i \in I
  PROVE  Place(i, I) \in 1 .. Cardinality(I)
<1> DEFINE below == {j \in I : j <= i}
<1>1. below \in SUBSET I /\ i \in below
  OBVIOUS
<1>2. IsFiniteSet(below) /\ Cardinality(below) <= Cardinality(I)
  BY <1>1, FS_Subset
<1>3. Cardinality(below) \in Nat /\ Cardinality(I) \in Nat
  BY <1>2, FS_CardinalityType
<1>4. Cardinality(below) # 0
  BY <1>1, <1>2, FS_EmptySet
<1> QED
  BY <1>2, <1>3, <1>4 DEF Place

(* A greater member has a later place. *)
LEMMA PlaceGrows ==
  ASSUME NEW I \in SUBSET Nat, IsFiniteSet(I), NEW i \in I, NEW k \in I, i < k
  PROVE  Place(i, I) # Place(k, I)
<1> DEFINE upTo(n) == {j \in I : j <= n}
<1>1. upTo(k) \in SUBSET I
  OBVIOUS
<1>2. upTo(i) \in SUBSET upTo(k)
  <2>1. \A j \in I : j <= i => j <= k
    OBVIOUS
  <2> QED
    BY <2>1
<1>3. k \in upTo(k) /\ k \notin upTo(i)
  OBVIOUS
<1>4. IsFiniteSet(upTo(k))
  BY <1>1, FS_Subset
<1>5. Cardinality(upTo(k)) = Cardinality(upTo(i)) => upTo(k) = upTo(i)
  BY <1>2, <1>4, FS_Subset
<1> QED
  BY <1>3, <1>5 DEF Place

(* Every place has a member. *)
LEMMA PlaceTaken ==
  ASSUME NEW I \in SUBSET Nat, IsFiniteSet(I), NEW n \in 1 .. Cardinality(I)
  PROVE  \E i \in I : Place(i, I) = n
<1> DEFINE T == 1 .. Cardinality(I)
           f == [i \in I |-> Place(i, I)]
<1>1. Cardinality(I) \in Nat
  BY FS_CardinalityType
<1>2. f \in [I -> T]
  BY PlaceInRange
<1>3. \A i, k \in I : f[i] = f[k] => i = k
  <2> SUFFICES ASSUME NEW i \in I, NEW k \in I, i # k
               PROVE  Place(i, I) # Place(k, I)
    OBVIOUS
  <2>1. i < k \/ k < i
    OBVIOUS
  <2> QED
    BY <2>1, PlaceGrows
<1>4. f \in Injection(I, T)
  BY <1>2, <1>3 DEF Injection, IsInjective
<1>5. IsFiniteSet(T) /\ Cardinality(T) = Cardinality(I)
  <2>1. 1 \in Int /\ Cardinality(I) \in Int
    BY <1>1
  <2>2. /\ IsFiniteSet(1 .. Cardinality(I))
        /\ Cardinality(1 .. Cardinality(I)) =
             IF 1 > Cardinality(I) THEN 0 ELSE Cardinality(I) - 1 + 1
    BY <2>1, FS_Interval
  <2> QED
    BY <1>1, <2>2
<1>6. f \in Surjection(I, T)
  BY <1>4, <1>5, FS_Injection
<1> QED
  BY <1>6 DEF Surjection

-----------------------------------------------------------------------------
(* What is left of the table. *)

(* Any function on 1 .. n whose values are events is a table. *)
LEMMA TableIsSeq ==
  ASSUME NEW n \in Nat, NEW f \in [1 .. n -> Event]
  PROVE  f \in Seq(Event) /\ Len(f) = n
  OBVIOUS

LEMMA KeptFinite ==
  ASSUME breakpoints_ \in Seq(Event), NEW K
  PROVE  /\ Kept(K) \in SUBSET Nat /\ IsFiniteSet(Kept(K))
         /\ Cardinality(Kept(K)) \in Nat
<1>1. DOMAIN breakpoints_ = 1 .. Len(breakpoints_) /\ Len(breakpoints_) \in Nat
  OBVIOUS
<1>2. IsFiniteSet(1 .. Len(breakpoints_))
  BY <1>1, FS_Interval
<1>3. Kept(K) \in SUBSET (1 .. Len(breakpoints_))
  BY <1>1 DEF Kept
<1>4. IsFiniteSet(Kept(K))
  BY <1>2, <1>3, FS_Subset
<1> QED
  BY <1>3, <1>4, FS_CardinalityType

(* Every event that is left was there, with a key that is kept. *)
LEMMA RemainingWasThere ==
  ASSUME breakpoints_ \in Seq(Event), NEW K, NEW n \in DOMAIN Remaining(K)
  PROVE  \E i \in Kept(K) : Remaining(K)[n] = breakpoints_[i]
<1>1. n \in 1 .. Cardinality(Kept(K))
  BY DEF Remaining
<1>2. \E i \in Kept(K) : Place(i, Kept(K)) = n
  BY <1>1, KeptFinite, PlaceTaken
<1>3. (CHOOSE i \in Kept(K) : Place(i, Kept(K)) = n) \in Kept(K)
  BY <1>2
<1> QED
  BY <1>1, <1>3 DEF Remaining

(* Every event whose key is kept is left. *)
LEMMA KeptRemains ==
  ASSUME breakpoints_ \in Seq(Event), NEW K, NEW i \in Kept(K)
  PROVE  \E n \in DOMAIN Remaining(K) : Remaining(K)[n] = breakpoints_[i]
<1> DEFINE n == Place(i, Kept(K))
           c == CHOOSE k \in Kept(K) : Place(k, Kept(K)) = n
<1>1. n \in 1 .. Cardinality(Kept(K))
  BY KeptFinite, PlaceInRange
<1>2. c \in Kept(K) /\ Place(c, Kept(K)) = n
  OBVIOUS
<1>3. i \in Nat /\ c \in Nat
  BY <1>2, KeptFinite
<1>4. ~(c < i) /\ ~(i < c)
  BY <1>2, KeptFinite, PlaceGrows
<1>5. c = i
  BY <1>3, <1>4
<1>6. Remaining(K)[n] = breakpoints_[c]
  BY <1>1 DEF Remaining
<1>7. n \in DOMAIN Remaining(K)
  BY <1>1 DEF Remaining
<1> QED
  BY <1>5, <1>6, <1>7

LEMMA RemainingIsTable ==
  ASSUME breakpoints_ \in Seq(Event), NEW K
  PROVE  /\ Remaining(K) \in Seq(Event)
         /\ Kept(K) = {} => Remaining(K) = <<>>
<1>1. \A n \in DOMAIN Remaining(K) : Remaining(K)[n] \in Event
  <2> SUFFICES ASSUME NEW n \in DOMAIN Remaining(K)
               PROVE  Remaining(K)[n] \in Event
    OBVIOUS
  <2>1. PICK i \in Kept(K) : Remaining(K)[n] = breakpoints_[i]
    BY RemainingWasThere
  <2>2. breakpoints_[i] \in Event
    BY DEF Kept
  <2> QED
    BY <2>1, <2>2
<1>2. Remaining(K) = [n \in 1 .. Cardinality(Kept(K)) |-> Remaining(K)[n]]
  BY DEF Remaining
<1>3. DOMAIN Remaining(K) = 1 .. Cardinality(Kept(K))
  BY DEF Remaining
<1>4. Remaining(K) \in [1 .. Cardinality(Kept(K)) -> Event]
  BY <1>1, <1>2, <1>3
<1>5. Remaining(K) \in Seq(Event) /\ Len(Remaining(K)) = Cardinality(Kept(K))
  BY <1>4, KeptFinite, TableIsSeq
<1>6. Kept(K) = {} => Cardinality(Kept(K)) = 0
  BY FS_EmptySet
<1> QED
  BY <1>5, <1>6, EmptySeq

-----------------------------------------------------------------------------
(* What the steps do to the table. *)

(* Clearing the keys K leaves events that were there, and no kept value    *)
(* without its event.                                                      *)
LEMMA ClearedKeepsOrder ==
  ASSUME IInv, NEW K, Cleared(K)
  PROVE  /\ breakpoints_' \in Seq(Event)
         /\ watch_states_' \in [WatchKeys -> Values \cup {NoValue}]
         /\ \A n \in DOMAIN breakpoints_' :
              \E i \in Kept(K) : breakpoints_'[n] = breakpoints_[i]
         /\ Truthful' /\ WatchBacked'
<1> USE DEF IInv, TypeOK
<1>1. breakpoints_' = Remaining(K)
  BY DEF Cleared
<1>2. breakpoints_' \in Seq(Event)
  BY <1>1, RemainingIsTable
<1>3. watch_states_' \in [WatchKeys -> Values \cup {NoValue}]
  BY DEF Cleared, WatchStatesWithout
<1>4. \A n \in DOMAIN breakpoints_' : \E i \in Kept(K) : breakpoints_'[n] = breakpoints_[i]
  BY <1>1, RemainingWasThere
<1>5. Truthful'
  <2> SUFFICES ASSUME NEW n \in DOMAIN breakpoints_' PROVE Exact(breakpoints_'[n])
    BY DEF Truthful, Exact
  <2>1. PICK i \in Kept(K) : breakpoints_'[n] = breakpoints_[i]
    BY <1>4
  <2>2. Exact(breakpoints_[i])
    BY DEF Truthful, Kept
  <2> QED
    BY <2>1, <2>2
<1>6. WatchBacked'
  <2> SUFFICES ASSUME NEW k \in WatchKeys, watch_states_'[k] # NoValue
               PROVE  \E n \in DOMAIN breakpoints_' : breakpoints_'[n].key = k
    BY DEF WatchBacked
  <2>1. k \notin K /\ watch_states_[k] # NoValue
    BY DEF Cleared, WatchStatesWithout, Keys
  <2>2. PICK i \in DOMAIN breakpoints_ : breakpoints_[i].key = k
    BY <2>1 DEF WatchBacked
  <2>3. i \in Kept(K)
    BY <2>1, <2>2 DEF Kept
  <2> QED
    BY <1>1, <2>2, <2>3, KeptRemains
<1> QED
  BY <1>2, <1>3, <1>4, <1>5, <1>6

LEMMA EventTyped == IInv => \A i \in DOMAIN breakpoints_ : breakpoints_[i] \in Event
BY DEF IInv, TypeOK

(* A step that keeps the place, key and thread of every event keeps what   *)
(* TypeOK and Setting say of the table.                                    *)
LEMMA SameEvents ==
  ASSUME IInv, NEW f, f \in [DOMAIN breakpoints_ -> Event],
         \A i \in DOMAIN breakpoints_ :
           f[i].key = breakpoints_[i].key /\ f[i].tid = breakpoints_[i].tid,
         breakpoints_' = f, UNCHANGED <<pid_, call>>
  PROVE  /\ breakpoints_' \in Seq(Event) /\ DOMAIN breakpoints_' = DOMAIN breakpoints_
         /\ \A i \in DOMAIN breakpoints_' : Owner[breakpoints_'[i].tid] = pid_'
         /\ Setting'
<1>1. breakpoints_ \in Seq(Event)
  BY DEF IInv, TypeOK
<1>2. Len(breakpoints_) \in Nat /\ DOMAIN breakpoints_ = 1 .. Len(breakpoints_)
  BY <1>1
<1>3. breakpoints_' \in Seq(Event)
  BY <1>2, TableIsSeq
<1>4. DOMAIN breakpoints_' = DOMAIN breakpoints_
  OBVIOUS
<1>5. \A i \in DOMAIN breakpoints_' : Owner[breakpoints_'[i].tid] = pid_'
  BY <1>4 DEF IInv, TypeOK
<1>6. Setting'
  BY <1>4 DEF IInv, Setting, call
<1> QED
  BY <1>3, <1>4, <1>5, <1>6

-----------------------------------------------------------------------------
LEMMA InitIInv == Init => IInv
<1> SUFFICES ASSUME Init PROVE IInv
  OBVIOUS
<1>1. memory \in [Procs -> [WatchKeys -> Values]]
  BY PerfAssumption DEF Init
<1>2. breakpoints_ = <<>> /\ DOMAIN breakpoints_ = {} /\ breakpoints_ \in Seq(Event)
  BY EmptySeq DEF Init
<1>3. TypeOK
  BY <1>1, <1>2, PerfAssumption DEF Init, TypeOK
<1>4. Setting /\ Truthful /\ WatchBacked
  BY <1>2 DEF Init, Setting, Truthful, WatchBacked
<1> QED
  BY <1>3, <1>4 DEF IInv

LEMMA SetStartStep ==
  ASSUME IInv, NEW p \in Procs, NEW k \in Keys, SetStart(p, k)
  PROVE  IInv'
<1> DEFINE K == Replaces(p, k)
<1>1. Cleared(K) /\ pid_' = p /\ setting' = k /\ any' = FALSE /\ UNCHANGED target
  BY DEF SetStart
<1>2. todo' \subseteq Threads /\ \A t \in todo' : Owner[t] = p
  BY DEF SetStart, IInv, TypeOK
<1>3. \A n \in DOMAIN breakpoints_' : Owner[breakpoints_'[n].tid] = p
  <2> SUFFICES ASSUME NEW n \in DOMAIN breakpoints_'
               PROVE  Owner[breakpoints_'[n].tid] = p
    OBVIOUS
  <2>1. PICK i \in Kept(K) : breakpoints_'[n] = breakpoints_[i]
    BY <1>1, ClearedKeepsOrder
  <2>2. i \in DOMAIN breakpoints_ /\ breakpoints_[i].key \notin K
    BY DEF Kept
  <2>3. breakpoints_[i] \in Event /\ Owner[breakpoints_[i].tid] = pid_
    BY <2>2 DEF IInv, TypeOK
  <2>4. pid_ # NoProc
    BY <2>3, PerfAssumption DEF Event
  <2>5. breakpoints_[i].key \in Keys
    BY <2>3 DEF Event
  <2>6. pid_ = p
    BY <2>2, <2>4, <2>5 DEF Replaces
  <2> QED
    BY <2>1, <2>3, <2>6
<1>4. TypeOK'
  BY <1>1, <1>2, <1>3, ClearedKeepsOrder DEF IInv, TypeOK, target
<1>5. Setting'
  BY <1>1, <1>2 DEF Setting
<1> QED
  BY <1>1, <1>4, <1>5, ClearedKeepsOrder DEF IInv

LEMMA ClearingStep ==
  ASSUME IInv, NEW K, Cleared(K), setting = NoKey, UNCHANGED <<target, call>>,
         pid_' \in Procs \cup {NoProc}, breakpoints_' # <<>> => pid_' = pid_
  PROVE  IInv'
<1>1. \A n \in DOMAIN breakpoints_' : Owner[breakpoints_'[n].tid] = pid_'
  <2> SUFFICES ASSUME NEW n \in DOMAIN breakpoints_'
               PROVE  Owner[breakpoints_'[n].tid] = pid_'
    OBVIOUS
  <2>1. PICK i \in Kept(K) : breakpoints_'[n] = breakpoints_[i]
    BY ClearedKeepsOrder
  <2>2. Owner[breakpoints_[i].tid] = pid_
    BY DEF IInv, TypeOK, Kept
  <2>3. breakpoints_' # <<>>
    BY ClearedKeepsOrder
  <2> QED
    BY <2>1, <2>2, <2>3
<1>2. TypeOK'
  BY <1>1, ClearedKeepsOrder DEF IInv, TypeOK, target, call
<1>3. ~any
  <2> SUFFICES ASSUME any PROVE FALSE
    OBVIOUS
  <2>1. PICK i \in DOMAIN breakpoints_ : breakpoints_[i].key = NoKey
    BY DEF IInv, Setting
  <2>2. breakpoints_[i].key \in Keys
    BY EventTyped DEF Event
  <2> QED
    BY <2>1, <2>2, PerfAssumption
<1>4. Setting'
  BY <1>3 DEF Setting, call
<1> QED
  BY <1>2, <1>4, ClearedKeepsOrder DEF IInv

LEMMA ClearStep ==
  ASSUME IInv, NEW p \in Procs, NEW k \in Keys, Clear(p, k)
  PROVE  IInv'
<1>1. Cleared({k}) /\ setting = NoKey /\ UNCHANGED <<target, call>>
  BY DEF Clear
<1>2. pid_' \in Procs \cup {NoProc}
  BY DEF Clear, PidWithout, IInv, TypeOK
<1>3. breakpoints_' # <<>> => pid_' = pid_
  BY DEF Clear, PidWithout, Cleared
<1> QED
  BY <1>1, <1>2, <1>3, ClearingStep

LEMMA ClearAllStep ==
  ASSUME IInv, ClearAll
  PROVE  IInv'
<1>1. Cleared(Keys) /\ setting = NoKey /\ UNCHANGED <<target, call>> /\ pid_' = NoProc
  BY DEF ClearAll
<1>2. Kept(Keys) = {}
  BY EventTyped DEF Event, Kept
<1>3. breakpoints_' = <<>>
  BY <1>1, <1>2, RemainingIsTable DEF Cleared, IInv, TypeOK
<1> QED
  BY <1>1, <1>3, ClearingStep

LEMMA SetOpenStep ==
  ASSUME IInv, NEW t \in Threads, SetOpen(t)
  PROVE  IInv'
<1> USE DEF IInv, TypeOK
<1>1. /\ setting # NoKey /\ t \in todo /\ todo' = todo \ {t}
      /\ UNCHANGED <<target, pid_, watch_states_, setting>>
  BY DEF SetOpen
<1>2. setting \in Keys /\ pid_ \in Procs /\ Owner[t] = pid_
  BY <1>1 DEF Setting
<1>3. CASE UNCHANGED <<breakpoints_, any>>
  <2>1. TypeOK'
    BY <1>1, <1>3 DEF target
  <2>2. Setting'
    BY <1>1, <1>3 DEF Setting
  <2>3. Truthful' /\ WatchBacked'
    BY <1>1, <1>3 DEF Truthful, WatchBacked, Exact
  <2> QED
    BY <2>1, <2>2, <2>3
<1>4. CASE /\ breakpoints_' = Append(breakpoints_,
                [key |-> setting, tid |-> t, who |-> {t}, unread |-> 0, owed |-> 0])
           /\ any' = TRUE
  <2> DEFINE e == [key |-> setting, tid |-> t, who |-> {t}, unread |-> 0, owed |-> 0]
             n == Len(breakpoints_) + 1
  <2>1. e \in Event /\ e.key = setting /\ e.tid = t
    BY <1>2 DEF Event
  <2>2. Exact(e)
    BY DEF Exact
  <2> HIDE DEF e
  <2>3. /\ breakpoints_' \in Seq(Event) /\ Len(breakpoints_') = n
        /\ \A i \in 1 .. Len(breakpoints_) : breakpoints_'[i] = breakpoints_[i]
        /\ breakpoints_'[n] = e
    BY <1>4, <2>1, AppendProperties DEF e
  <2>4. /\ Len(breakpoints_) \in Nat
        /\ DOMAIN breakpoints_ = 1 .. Len(breakpoints_)
        /\ DOMAIN breakpoints_' = 1 .. n
    BY <2>3
  <2>5. \A i \in DOMAIN breakpoints_' :
          \/ i = n
          \/ i \in DOMAIN breakpoints_ /\ breakpoints_'[i] = breakpoints_[i]
    BY <2>3, <2>4
  <2>6. \A i \in DOMAIN breakpoints_ :
          i \in DOMAIN breakpoints_' /\ breakpoints_'[i] = breakpoints_[i]
    BY <2>3, <2>4
  <2>7. TypeOK'
    <3>1. \A i \in DOMAIN breakpoints_' : Owner[breakpoints_'[i].tid] = pid_'
      BY <1>1, <1>2, <2>1, <2>3, <2>5
    <3> QED
      BY <1>1, <1>4, <2>3, <3>1 DEF target
  <2>8. Setting'
    <3>1. n \in DOMAIN breakpoints_' /\ breakpoints_'[n].key = setting
      BY <2>1, <2>3, <2>4
    <3> QED
      BY <1>1, <1>2, <3>1 DEF Setting
  <2>9. Truthful'
    <3> SUFFICES ASSUME NEW i \in DOMAIN breakpoints_' PROVE Exact(breakpoints_'[i])
      BY DEF Truthful, Exact
    <3> QED
      BY <2>2, <2>3, <2>5 DEF Truthful
  <2>10. WatchBacked'
    BY <1>1, <2>6 DEF WatchBacked
  <2> QED
    BY <2>7, <2>8, <2>9, <2>10
<1> QED
  BY <1>3, <1>4 DEF SetOpen

LEMMA SetEndStep ==
  ASSUME IInv, SetEnd
  PROVE  IInv'
<1> USE DEF IInv, TypeOK
<1>1. /\ setting # NoKey /\ setting' = NoKey /\ any' = FALSE
      /\ UNCHANGED <<target, pid_, breakpoints_, todo>>
  BY DEF SetEnd
<1>2. Setting'
  BY <1>1 DEF Setting
<1>3. Truthful'
  BY <1>1 DEF Truthful, Exact
<1>4. CASE UNCHANGED watch_states_
  BY <1>1, <1>2, <1>3, <1>4 DEF target, WatchBacked
<1>5. CASE /\ any /\ setting \in WatchKeys /\ watch_states_[setting] = NoValue
           /\ watch_states_' = [watch_states_ EXCEPT ![setting] = memory[pid_][setting]]
  <2>1. memory[pid_][setting] \in Values
    BY <1>1, <1>5 DEF Setting
  <2>2. TypeOK'
    BY <1>1, <1>5, <2>1 DEF target
  <2>3. WatchBacked'
    <3> SUFFICES ASSUME NEW k \in WatchKeys, watch_states_'[k] # NoValue
                 PROVE  \E i \in DOMAIN breakpoints_ : breakpoints_[i].key = k
      BY <1>1 DEF WatchBacked
    <3>1. CASE k = setting
      BY <1>5, <3>1 DEF Setting
    <3>2. CASE k # setting
      BY <1>5, <3>2 DEF WatchBacked
    <3> QED
      BY <3>1, <3>2
  <2> QED
    BY <1>2, <1>3, <2>2, <2>3
<1> QED
  BY <1>4, <1>5 DEF SetEnd

(* What a Poll adds to the reports of event i: what it counted, or 1 from  *)
(* the watch fallback when it counted nothing and is a data breakpoint's.  *)
LEMMA DeltaBounds ==
  ASSUME IInv, NEW i \in DOMAIN breakpoints_, NEW can
  PROVE  /\ Delta(i, can) \in Nat
         /\ Delta(i, can) >= Counts(i, can)
         /\ breakpoints_[i].key \in ExecKeys => Delta(i, can) = Counts(i, can)
<1>1. breakpoints_[i].key \in Keys /\ breakpoints_[i].unread \in Nat
  BY EventTyped DEF Event
<1>2. Counts(i, can) \in Nat
  BY <1>1 DEF Counts
<1>3. Compares(i, can) => breakpoints_[i].key \notin ExecKeys
  BY PerfAssumption DEF Compares
<1>4. Counts(i, can) > 0 => Delta(i, can) = Counts(i, can)
  BY DEF Delta
<1>5. ~(Counts(i, can) > 0) => Counts(i, can) = 0
  BY <1>2
<1>6. ~(Counts(i, can) > 0) => Delta(i, can) \in {0, 1}
                               /\ (~Compares(i, can) => Delta(i, can) = 0)
  BY DEF Delta
<1> QED
  BY <1>2, <1>3, <1>4, <1>5, <1>6

LEMMA PollStep ==
  ASSUME IInv, NEW max_events, NEW can, Poll(max_events, can)
  PROVE  IInv'
<1> DEFINE Row(i) == [breakpoints_[i] EXCEPT !.unread = Unseen(i, max_events, can),
                                             !.owed = Owed(i, max_events, can)]
           f == [i \in DOMAIN breakpoints_ |-> Row(i)]
<1>1. breakpoints_' = f /\ UNCHANGED <<target, pid_, call>>
  BY DEF Poll
<1>2. ASSUME NEW i \in DOMAIN breakpoints_
      PROVE  /\ Row(i) \in Event
             /\ Row(i).key = breakpoints_[i].key /\ Row(i).tid = breakpoints_[i].tid
             /\ Exact(Row(i))
  <2> DEFINE e == breakpoints_[i]
             d == Delta(i, can)
             u == Unseen(i, max_events, can)
             o == Owed(i, max_events, can)
  <2>1. e \in Event /\ Exact(e)
    BY EventTyped DEF IInv, Truthful
  <2>2. d \in Nat /\ d >= Counts(i, can) /\ (e.key \in ExecKeys => d = Counts(i, can))
    BY DeltaBounds
  <2>3. e.key \in Keys /\ e.tid \in Threads /\ e.who \in SUBSET Threads
        /\ e.unread \in Nat /\ e.owed \in Int
    BY <2>1 DEF Event
  <2>4. Counts(i, can) = IF i \in can.events THEN e.unread ELSE 0
    BY DEF Counts
  <2>5. /\ u \in Nat /\ o \in Int /\ o >= -1 /\ o <= u
        /\ e.key \in ExecKeys => o = u
    <3>1. CASE Polled(i, max_events, can)
      <4>1. u = (IF i \in can.events THEN 0 ELSE e.unread)
            /\ o = (IF d > e.owed THEN -1 ELSE e.owed - d)
        BY <3>1 DEF Unseen, Owed
      <4> HIDE DEF d, u, o
      <4> QED
        BY <4>1, <2>1, <2>2, <2>3, <2>4 DEF Exact
    <3>2. CASE ~Polled(i, max_events, can)
      BY <3>2, <2>1, <2>3 DEF Unseen, Owed, Exact
    <3> QED
      BY <3>1, <3>2
  <2> HIDE DEF d, u, o
  <2>6. Row(i) = [e EXCEPT !.unread = u, !.owed = o]
    BY DEF u, o
  <2>7. /\ Row(i).key = e.key /\ Row(i).tid = e.tid
        /\ Row(i).unread = u /\ Row(i).owed = o
    BY <2>1, <2>6 DEF Event
  <2>8. Row(i) \in Event
    BY <2>1, <2>3, <2>5, <2>6 DEF Event
  <2> HIDE DEF Row
  <2> QED
    BY <2>5, <2>7, <2>8 DEF Exact
<1> HIDE DEF Row
<1>3. /\ breakpoints_' \in Seq(Event) /\ DOMAIN breakpoints_' = DOMAIN breakpoints_
      /\ \A i \in DOMAIN breakpoints_' : Owner[breakpoints_'[i].tid] = pid_'
      /\ Setting'
  BY <1>1, <1>2, SameEvents
<1>4. \A i \in DOMAIN breakpoints_' : breakpoints_'[i] = Row(i)
  BY <1>1
<1>5. Truthful'
  <2> SUFFICES ASSUME NEW i \in DOMAIN breakpoints_' PROVE Exact(breakpoints_'[i])
    BY DEF Truthful, Exact
  <2> QED
    BY <1>2, <1>3, <1>4
<1>6. pid_ \in Procs
  <2>1. breakpoints_ # <<>> /\ breakpoints_ \in Seq(Event)
    BY DEF Poll, IInv, TypeOK
  <2>2. 1 \in DOMAIN breakpoints_
    BY <2>1, EmptySeq
  <2> QED
    BY <2>2, EventTyped, PerfAssumption DEF IInv, TypeOK, Event
<1>7. watch_states_' \in [WatchKeys -> Values \cup {NoValue}]
  BY <1>6 DEF Poll, Current, IInv, TypeOK
<1>8. WatchBacked'
  <2> SUFFICES ASSUME NEW k \in WatchKeys, watch_states_'[k] # NoValue
               PROVE  \E i \in DOMAIN breakpoints_' : breakpoints_'[i].key = k
    BY DEF WatchBacked
  <2>1. \E i \in DOMAIN breakpoints_ : breakpoints_[i].key = k
    BY DEF Poll, IInv, WatchBacked
  <2> QED
    BY <1>2, <1>3, <1>4, <2>1
<1>9. TypeOK'
  BY <1>1, <1>3, <1>7 DEF IInv, TypeOK, target, call
<1> QED
  BY <1>3, <1>5, <1>8, <1>9 DEF IInv

LEMMA AccessStep ==
  ASSUME IInv, NEW t \in Threads, NEW k \in Keys, Access(t, k)
  PROVE  IInv'
<1> DEFINE Row(i) == IF CountsFor(breakpoints_[i], t, k)
                     THEN [breakpoints_[i] EXCEPT !.unread = @ + 1, !.owed = @ + 1] ELSE breakpoints_[i]
           f == [i \in DOMAIN breakpoints_ |-> Row(i)]
<1>1. breakpoints_' = f /\ UNCHANGED <<live, pid_, watch_states_, call>>
  BY DEF Access
<1>2. ASSUME NEW i \in DOMAIN breakpoints_
      PROVE  /\ Row(i) \in Event
             /\ Row(i).key = breakpoints_[i].key /\ Row(i).tid = breakpoints_[i].tid
             /\ Exact(Row(i))
  <2> DEFINE e == breakpoints_[i]
  <2>1. e \in Event /\ Exact(e)
    BY EventTyped DEF IInv, Truthful
  <2>2. CASE CountsFor(e, t, k)
    <3>1. e.unread \in Nat /\ e.owed \in Int
      BY <2>1 DEF Event
    <3>2. Row(i) = [e EXCEPT !.unread = e.unread + 1, !.owed = e.owed + 1]
      BY <2>2
    <3>3. /\ Row(i).key = e.key /\ Row(i).tid = e.tid
          /\ Row(i).unread = e.unread + 1 /\ Row(i).owed = e.owed + 1
      BY <2>1, <3>2 DEF Event
    <3>4. Row(i) \in Event
      <4>1. e.unread + 1 \in Nat /\ e.owed + 1 \in Int
        BY <3>1
      <4> DEFINE u == e.unread + 1
                 o == e.owed + 1
      <4> HIDE DEF u, o
      <4>2. Row(i) = [e EXCEPT !.unread = u, !.owed = o]
        BY <3>2 DEF u, o
      <4>3. u \in Nat /\ o \in Int
        BY <4>1 DEF u, o
      <4> HIDE DEF Row
      <4> QED
        BY <2>1, <4>2, <4>3 DEF Event
    <3> HIDE DEF Row
    <3> QED
      BY <2>1, <3>1, <3>3, <3>4 DEF Exact
  <2>3. CASE ~CountsFor(e, t, k)
    BY <2>1, <2>3
  <2> QED
    BY <2>2, <2>3
<1> HIDE DEF Row
<1>3. /\ breakpoints_' \in Seq(Event) /\ DOMAIN breakpoints_' = DOMAIN breakpoints_
      /\ \A i \in DOMAIN breakpoints_' : Owner[breakpoints_'[i].tid] = pid_'
      /\ Setting'
  BY <1>1, <1>2, SameEvents
<1>4. \A i \in DOMAIN breakpoints_' : breakpoints_'[i] = Row(i)
  BY <1>1
<1>5. Truthful'
  <2> SUFFICES ASSUME NEW i \in DOMAIN breakpoints_' PROVE Exact(breakpoints_'[i])
    BY DEF Truthful, Exact
  <2> QED
    BY <1>2, <1>3, <1>4
<1>6. WatchBacked'
  BY <1>1, <1>2, <1>3, <1>4 DEF IInv, WatchBacked
<1>7. memory' \in [Procs -> [WatchKeys -> Values]]
  <2>1. CASE k \in WatchKeys
    <3>1. PICK v \in Values : memory' = [memory EXCEPT ![Owner[t]][k] = v]
      BY <2>1 DEF Access
    <3> QED
      BY <2>1, <3>1, PerfAssumption DEF IInv, TypeOK
  <2>2. CASE k \notin WatchKeys
    BY <2>2 DEF Access, IInv, TypeOK
  <2> QED
    BY <2>1, <2>2
<1>8. TypeOK'
  BY <1>1, <1>3, <1>7 DEF IInv, TypeOK, call
<1> QED
  BY <1>3, <1>5, <1>6, <1>8 DEF IInv

LEMMA CloneStep ==
  ASSUME IInv, NEW t \in Threads, NEW c \in Threads, Clone(t, c)
  PROVE  IInv'
<1> DEFINE Row(i) == IF t \in breakpoints_[i].who
                     THEN [breakpoints_[i] EXCEPT !.who = @ \cup {c}] ELSE breakpoints_[i]
           f == [i \in DOMAIN breakpoints_ |-> Row(i)]
<1>1. /\ breakpoints_' = f /\ live' = live \cup {c}
      /\ UNCHANGED <<memory, pid_, watch_states_, call>>
  BY DEF Clone
<1>2. ASSUME NEW i \in DOMAIN breakpoints_
      PROVE  /\ Row(i) \in Event
             /\ Row(i).key = breakpoints_[i].key /\ Row(i).tid = breakpoints_[i].tid
             /\ Exact(Row(i))
  <2>1. breakpoints_[i] \in Event /\ Exact(breakpoints_[i])
    BY EventTyped DEF IInv, Truthful
  <2> QED
    BY <2>1 DEF Event, Exact
<1> HIDE DEF Row
<1>3. /\ breakpoints_' \in Seq(Event) /\ DOMAIN breakpoints_' = DOMAIN breakpoints_
      /\ \A i \in DOMAIN breakpoints_' : Owner[breakpoints_'[i].tid] = pid_'
      /\ Setting'
  BY <1>1, <1>2, SameEvents
<1>4. \A i \in DOMAIN breakpoints_' : breakpoints_'[i] = Row(i)
  BY <1>1
<1>5. Truthful'
  <2> SUFFICES ASSUME NEW i \in DOMAIN breakpoints_' PROVE Exact(breakpoints_'[i])
    BY DEF Truthful, Exact
  <2> QED
    BY <1>2, <1>3, <1>4
<1>6. WatchBacked'
  BY <1>1, <1>2, <1>3, <1>4 DEF IInv, WatchBacked
<1>7. TypeOK'
  BY <1>1, <1>3 DEF IInv, TypeOK, call
<1> QED
  BY <1>3, <1>5, <1>6, <1>7 DEF IInv

-----------------------------------------------------------------------------
LEMMA NextIInv == IInv /\ [Next]_vars => IInv'
<1> SUFFICES ASSUME IInv, [Next]_vars PROVE IInv'
  OBVIOUS
<1>1. CASE \E p \in Procs, k \in Keys : SetStart(p, k) \/ Clear(p, k)
  BY <1>1, SetStartStep, ClearStep
<1>2. CASE \E t \in Threads : SetOpen(t)
  BY <1>2, SetOpenStep
<1>3. CASE SetEnd
  BY <1>3, SetEndStep
<1>4. CASE ClearAll
  BY <1>4, ClearAllStep
<1>5. CASE Polls
  BY <1>5, PollStep DEF Polls, PollsOf
<1>6. CASE \E t \in Threads : \E k \in Keys : Access(t, k)
  BY <1>6, AccessStep
<1>7. CASE \E t \in Threads : \E c \in Threads : Clone(t, c)
  BY <1>7, CloneStep
<1>8. CASE UNCHANGED vars
  <2> USE <1>8 DEF vars, target, manager, call
  <2>1. TypeOK'
    BY DEF IInv, TypeOK
  <2>2. Setting'
    BY DEF IInv, Setting
  <2>3. Truthful'
    BY DEF IInv, Truthful, Exact
  <2>4. WatchBacked'
    BY DEF IInv, WatchBacked
  <2> QED
    BY <2>1, <2>2, <2>3, <2>4 DEF IInv
<1> QED
  BY <1>1, <1>2, <1>3, <1>4, <1>5, <1>6, <1>7, <1>8 DEF Next, Manage

(* The inductive invariant: the table, the Set in progress and the values  *)
(* kept for comparison agree in every state of PerfBreakpointManager.      *)
THEOREM PerfInvariance == Spec => []IInv
BY InitIInv, NextIInv, PTL DEF Spec

(* Every state of PerfBreakpointManager is well formed; in particular      *)
(* every open event is of a thread of the process in pid_.                 *)
THEOREM PerfTypeCorrect == Spec => []TypeOK
<1>1. IInv => TypeOK
  BY DEF IInv
<1> QED
  BY <1>1, PerfInvariance, PTL

(* PerfBreakpointManager::Poll drops no hit the kernel counted and reports *)
(* none of an execution breakpoint twice, however max_events cuts it.      *)
THEOREM HitsReportedExactly == Spec => []HitsExact
<1>1. IInv => HitsExact
  BY DEF IInv, Truthful, Exact, HitsExact
<1> QED
  BY <1>1, PerfInvariance, PTL

(* No value PerfBreakpointManager keeps for comparison outlives the        *)
(* breakpoint it was read for.                                             *)
THEOREM WatchValuesBacked == Spec => []WatchBacked
<1>1. IInv => WatchBacked
  BY DEF IInv
<1> QED
  BY <1>1, PerfInvariance, PTL
=============================================================================
