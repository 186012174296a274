------------------------- MODULE ClientTools_proofs -------------------------
(***************************************************************************)
(* Proofs about the tools of the clients: the address list of the Qt       *)
(* client (AddressTable) and the pointer searches of the three clients     *)
(* (MCPointerScan, of PointerScan, PointerLevels, PointerCompare and       *)
(* PointerFiles), for every value of their constants.                      *)
(*                                                                         *)
(* Address list: TypeOK is inductive.  UpdatesFitRows needs it, since a    *)
(* row number that is not one of the list says nothing about the row added *)
(* there later.  What edits and results do to the list keeps every row's   *)
(* address, and what adds to it keeps every row: SameAddresses says both.  *)
(*                                                                         *)
(* Pointers: each program has an invariant of its own (ScanInv, LInv, CInv *)
(* and FInv) that says at every step which part of the result is there     *)
(* already: the words up to the cursor, the chains of the layers done, the *)
(* tasks taken by a worker, the candidates of the batches checked, what a  *)
(* file was to hold.  Layers are chained with ItemsBack: the chains of     *)
(* d + 1 words are a word in front of those of d.                          *)
(***************************************************************************)
EXTENDS AddressTable, MCPointerScan, WellFoundedInduction, SequenceTheorems,
        FiniteSetTheorems, TLAPS

(***************************************************************************)
(* The address list.                                                       *)
(***************************************************************************)
IInv == TypeOK /\ UpdatesFitRows

(* What TypeOK says of the list, the worker and the flags. *)
RowsOK == rows \in Seq(Row) /\ Len(rows) <= MaxRows
WorkerOK ==
  /\ jobs \in Seq(Job) /\ Len(jobs) <= MaxJobs
  /\ next \in 1 .. MaxJobs + 1
  /\ updates \in Seq(Update)
FlagsOK ==
  /\ inFlight \in BOOLEAN /\ pending \in BOOLEAN /\ posted \in BOOLEAN
  /\ stage \in {"idle", "write", "read", "finished"}
  /\ inFlight <=> stage # "idle"
  /\ pending => inFlight
RestOK == attached \in BOOLEAN /\ mem \in [Addrs -> Values] /\ removed \in BOOLEAN

LEMMA TypeParts == TypeOK <=> RowsOK /\ WorkerOK /\ FlagsOK /\ RestOK
BY DEF TypeOK, RowsOK, WorkerOK, FlagsOK, RestOK

LEMMA Assembled ==
  ASSUME RowsOK', WorkerOK', FlagsOK', RestOK', UpdatesFitRows'
  PROVE  IInv'
BY DEF IInv, TypeOK, RowsOK, WorkerOK, FlagsOK, RestOK

(* No row of the list went, or came to be of another address. *)
SameAddresses ==
  /\ Len(rows) <= Len(rows')
  /\ \A r \in 1 .. Len(rows) : rows'[r].addr = rows[r].addr

-----------------------------------------------------------------------------
(* Lists made from functions. *)
LEMMA ListMade ==
  ASSUME NEW S, NEW n \in Nat, NEW f \in [1 .. n -> S]
  PROVE  f \in Seq(S) /\ Len(f) = n /\ DOMAIN f = 1 .. n
  OBVIOUS

(* A set of row numbers is finite and no larger than the list. *)
LEMMA RowNumbers ==
  ASSUME NEW n \in Nat, NEW I \in SUBSET (1 .. n)
  PROVE  /\ IsFiniteSet(I) /\ Cardinality(I) \in Nat /\ Cardinality(I) <= n
         /\ I # {} => Cardinality(I) > 0
<1>1. IsFiniteSet(1 .. n) /\ Cardinality(1 .. n) <= n
  <2>1. 1 \in Int /\ n \in Int
    OBVIOUS
  <2>2. IsFiniteSet(1 .. n) /\ Cardinality(1 .. n) = IF 1 > n THEN 0 ELSE n - 1 + 1
    BY <2>1, FS_Interval
  <2> QED
    BY <2>2
<1>2. IsFiniteSet(I) /\ Cardinality(I) <= Cardinality(1 .. n)
  BY <1>1, FS_Subset
<1>3. Cardinality(I) \in Nat /\ Cardinality(1 .. n) \in Nat
  BY <1>1, <1>2, FS_CardinalityType
<1>4. Cardinality(I) = 0 <=> I = {}
  BY <1>2, FS_EmptySet
<1>5. Cardinality(I) <= n
  BY <1>1, <1>2, <1>3
<1>6. I # {} => Cardinality(I) > 0
  <2> DEFINE c == Cardinality(I)
  <2>1. c \in Nat /\ (I # {} => c # 0)
    BY <1>3, <1>4
  <2> HIDE DEF c
  <2>2. I # {} => c > 0
    BY <2>1
  <2> QED
    BY <2>2 DEF c
<1> QED
  BY <1>2, <1>3, <1>5, <1>6

(* Among the updates of a row there is a last one. *)
LEMMA LastUpdate ==
  ASSUME updates \in Seq(Update), NEW r, UpdatesOf(r) # {}
  PROVE  \E u \in UpdatesOf(r) : \A v \in UpdatesOf(r) : v <= u
<1> DEFINE n == Len(updates)
           After == {n - u : u \in UpdatesOf(r)}
<1>1. n \in Nat /\ UpdatesOf(r) \subseteq 1 .. n
  BY DEF UpdatesOf
<1>2. After \subseteq Nat /\ After # {}
  BY <1>1
<1>3. PICK k \in After : \A j \in After : <<j, k>> \notin OpToRel(<, Nat)
  BY <1>2, NatLessThanWellFounded, WFMin
<1>4. \A j \in After : ~(j < k)
  BY <1>2, <1>3 DEF OpToRel
<1>5. PICK u \in UpdatesOf(r) : k = n - u
  BY <1>3
<1>6. ASSUME NEW v \in UpdatesOf(r) PROVE v <= u
  <2>1. u \in Nat /\ v \in Nat /\ n - v \in After
    BY <1>1
  <2>2. ~(n - v < n - u)
    BY <1>4, <1>5, <2>1
  <2> QED
    BY <1>1, <2>1, <2>2
<1> QED
  BY <1>6

LEMMA TextTyped ==
  ASSUME TypeOK, NEW r \in 1 .. Len(rows)
  PROVE  TextAfter(r) \in Texts
<1>1. CASE UpdatesOf(r) = {}
  <2>1. rows[r] \in Row
    BY DEF TypeOK
  <2> QED
    BY <1>1, <2>1 DEF TextAfter, Row
<1>2. CASE UpdatesOf(r) # {}
  <2> DEFINE u == CHOOSE u \in UpdatesOf(r) : \A v \in UpdatesOf(r) : v <= u
  <2>1. u \in UpdatesOf(r)
    BY <1>2, LastUpdate DEF TypeOK
  <2>2. u \in 1 .. Len(updates)
    BY <2>1 DEF UpdatesOf
  <2> HIDE DEF u
  <2>3. updates[u] \in Update
    BY <2>2 DEF TypeOK
  <2>4. TextAfter(r) = updates[u].text
    BY <1>2 DEF TextAfter, u
  <2> QED
    BY <2>3, <2>4 DEF Update
<1> QED
  BY <1>1, <1>2

-----------------------------------------------------------------------------
(* What keeps a result fitting: the worker's lists are the same or a part  *)
(* of what they were, and the rows kept their addresses or were removed.   *)
Fits(js) ==
  \A j \in 1 .. Len(js) : js[j].row <= Len(rows) /\ rows[js[j].row].addr = js[j].addr

LEMMA FitsParts ==
  UpdatesFitRows <=> (stage # "idle" /\ ~removed => Fits(jobs) /\ Fits(updates))
BY DEF UpdatesFitRows, Fits

LEMMA FitsKept ==
  ASSUME TypeOK, SameAddresses, NEW S, NEW js \in Seq(S),
         \A j \in 1 .. Len(js) : js[j].row \in 1 .. MaxRows, Fits(js),
         rows' \in Seq(Row)
  PROVE  \A j \in 1 .. Len(js) :
           js[j].row <= Len(rows') /\ rows'[js[j].row].addr = js[j].addr
<1> SUFFICES ASSUME NEW j \in 1 .. Len(js)
             PROVE  js[j].row <= Len(rows') /\ rows'[js[j].row].addr = js[j].addr
  OBVIOUS
<1>1. Len(rows) \in Nat /\ Len(rows') \in Nat /\ MaxRows \in Nat
  BY TableAssumption DEF TypeOK
<1>2. js[j].row \in 1 .. Len(rows)
  BY <1>1 DEF Fits
<1> QED
  BY <1>1, <1>2, SMTT(30) DEF Fits, SameAddresses

LEMMA ResultRows ==
  ASSUME WorkerOK
  PROVE  /\ \A j \in 1 .. Len(jobs) : jobs[j].row \in 1 .. MaxRows
         /\ \A u \in 1 .. Len(updates) : updates[u].row \in 1 .. MaxRows
<1>1. ASSUME NEW j \in 1 .. Len(jobs) PROVE jobs[j].row \in 1 .. MaxRows
  <2>1. jobs[j] \in Job
    BY DEF WorkerOK
  <2> QED
    BY <2>1 DEF Job
<1>2. ASSUME NEW u \in 1 .. Len(updates) PROVE updates[u].row \in 1 .. MaxRows
  <2>1. updates[u] \in Update
    BY DEF WorkerOK
  <2> QED
    BY <2>1 DEF Update
<1> QED
  BY <1>1, <1>2

LEMMA GuiKeepsFit ==
  ASSUME IInv, SameAddresses, rows' \in Seq(Row), UNCHANGED <<stage, jobs, updates, removed>>
  PROVE  UpdatesFitRows'
<1>1. ASSUME stage # "idle" /\ ~removed
      PROVE  /\ \A j \in 1 .. Len(jobs) :
                  jobs[j].row <= Len(rows') /\ rows'[jobs[j].row].addr = jobs[j].addr
             /\ \A u \in 1 .. Len(updates) :
                  updates[u].row <= Len(rows') /\ rows'[updates[u].row].addr = updates[u].addr
  <2>1. Fits(jobs) /\ Fits(updates)
    BY <1>1, FitsParts DEF IInv
  <2>2. jobs \in Seq(Job) /\ updates \in Seq(Update) /\ WorkerOK
    BY TypeParts DEF IInv, WorkerOK
  <2> QED
    BY <2>1, <2>2, FitsKept, ResultRows DEF IInv
<1> QED
  BY <1>1 DEF UpdatesFitRows

(* An unchanged list keeps its addresses.                                 *)
LEMMA RowsKept == UNCHANGED rows /\ rows \in Seq(Row) => SameAddresses
BY DEF SameAddresses

-----------------------------------------------------------------------------
LEMMA InitIInv == Init => IInv
<1> SUFFICES ASSUME Init PROVE IInv
  OBVIOUS
<1>1. RowsOK
  BY EmptySeq, TableAssumption DEF Init, RowsOK
<1>2. WorkerOK
  <2>1. jobs \in Seq(Job) /\ updates \in Seq(Update) /\ Len(jobs) = 0
    BY EmptySeq DEF Init
  <2>2. next = 1 /\ 1 \in 1 .. MaxJobs + 1 /\ 0 <= MaxJobs
    BY TableAssumption DEF Init
  <2> QED
    BY <2>1, <2>2 DEF WorkerOK
<1>3. FlagsOK /\ RestOK /\ UpdatesFitRows
  BY DEF Init, FlagsOK, RestOK, UpdatesFitRows
<1> QED
  BY <1>1, <1>2, <1>3, TypeParts DEF IInv

LEMMA WorkerKept == WorkerOK /\ UNCHANGED worker => WorkerOK'
BY DEF WorkerOK, worker

LEMMA FlagsKept == FlagsOK /\ UNCHANGED <<flags, stage>> => FlagsOK'
BY DEF FlagsOK, flags

LEMMA MemoryWritten ==
  ASSUME TypeOK, NEW a \in Addrs, NEW text, NEW ok, WriteMemory(a, text, ok)
  PROVE  mem' \in [Addrs -> Values]
BY DEF TypeOK, WriteMemory

(* A step of the user that keeps the rows in place. *)
LEMMA UserKeeps ==
  ASSUME IInv, SameAddresses, rows' \in Seq(Row), Len(rows') <= MaxRows,
         attached' \in BOOLEAN, mem' \in [Addrs -> Values],
         UNCHANGED <<flags, worker, removed>>
  PROVE  IInv'
<1>1. RowsOK' /\ WorkerOK' /\ FlagsOK' /\ RestOK'
  BY TypeParts, WorkerKept, FlagsKept DEF IInv, RowsOK, RestOK, worker
<1>2. UpdatesFitRows'
  BY GuiKeepsFit DEF worker
<1> QED
  BY <1>1, <1>2, Assembled

LEMMA AddStep ==
  ASSUME IInv, NEW a \in Addrs, NEW text \in Texts, NEW edited \in BOOLEAN, NEW ok \in BOOLEAN,
         AddAddressEntry(a, text, edited, ok)
  PROVE  IInv'
<1> DEFINE e == [addr |-> a, active |-> TRUE, freeze |-> FALSE, text |-> text]
<1>1. rows \in Seq(Row) /\ Len(rows) < MaxRows /\ rows' = Append(rows, e)
      /\ Len(rows) \in Nat /\ MaxRows \in Nat
  BY TableAssumption DEF AddAddressEntry, IInv, TypeOK
<1>2. e \in Row
  BY DEF Row
<1> HIDE DEF e
<1>3. /\ rows' \in Seq(Row) /\ Len(rows') = Len(rows) + 1
      /\ \A r \in 1 .. Len(rows) : rows'[r] = rows[r]
  BY <1>1, <1>2, AppendProperties
<1>4. SameAddresses /\ Len(rows') <= MaxRows
  BY <1>1, <1>3 DEF SameAddresses
<1>5. mem' \in [Addrs -> Values]
  BY MemoryWritten DEF AddAddressEntry, IInv, TypeOK
<1>6. attached' \in BOOLEAN /\ UNCHANGED <<flags, worker, removed>>
  BY DEF AddAddressEntry, IInv, TypeOK
<1> QED
  BY <1>3, <1>4, <1>5, <1>6, UserKeeps

(* A row of the list becomes e, of the same address. *)
LEMMA RowChanged ==
  ASSUME TypeOK, NEW r \in 1 .. Len(rows), NEW e \in Row, e.addr = rows[r].addr,
         rows' = [rows EXCEPT ![r] = e]
  PROVE  rows' \in Seq(Row) /\ Len(rows') <= MaxRows /\ SameAddresses
<1>1. rows \in Seq(Row) /\ Len(rows) \in Nat /\ DOMAIN rows = 1 .. Len(rows)
      /\ Len(rows) <= MaxRows /\ MaxRows \in Nat
  BY TableAssumption DEF TypeOK
<1>2. rows' \in [1 .. Len(rows) -> Row]
  BY <1>1
<1>3. rows' \in Seq(Row) /\ Len(rows') = Len(rows)
  BY <1>1, <1>2, ListMade
<1>4. \A n \in 1 .. Len(rows) : rows'[n].addr = rows[n].addr
  BY <1>1
<1> QED
  BY <1>1, <1>3, <1>4 DEF SameAddresses

LEMMA EditStep ==
  ASSUME IInv, NEW r \in 1 .. Len(rows), NEW text \in Texts, NEW ok \in BOOLEAN,
         EditValue(r, text, ok)
  PROVE  IInv'
<1> DEFINE e == [rows[r] EXCEPT !.text = text]
<1>1. rows[r] \in Row
  BY DEF IInv, TypeOK
<1>2. e \in Row /\ e.addr = rows[r].addr /\ rows[r].addr \in Addrs
  BY <1>1 DEF Row
<1>3. rows' = [rows EXCEPT ![r] = e]
  BY DEF EditValue
<1> HIDE DEF e
<1>4. rows' \in Seq(Row) /\ Len(rows') <= MaxRows /\ SameAddresses
  BY <1>2, <1>3, RowChanged DEF IInv
<1>5. mem' \in [Addrs -> Values]
  BY <1>2, MemoryWritten DEF EditValue, IInv
<1>6. attached' \in BOOLEAN /\ UNCHANGED <<flags, worker, removed>>
  BY DEF EditValue, IInv, TypeOK
<1> QED
  BY <1>4, <1>5, <1>6, UserKeeps

LEMMA SetStep ==
  ASSUME IInv, NEW r \in 1 .. Len(rows), NEW on \in BOOLEAN, SetActive(r, on) \/ SetFreeze(r, on)
  PROVE  IInv'
<1>1. rows[r] \in Row
  BY DEF IInv, TypeOK
<1>2. PICK e \in Row : e.addr = rows[r].addr /\ rows' = [rows EXCEPT ![r] = e]
  <2>1. CASE SetActive(r, on)
    <3> DEFINE e == [rows[r] EXCEPT !.active = on]
    <3>1. e \in Row /\ e.addr = rows[r].addr
      BY <1>1 DEF Row
    <3>2. rows' = [rows EXCEPT ![r] = e]
      BY <2>1 DEF SetActive
    <3> QED
      BY <3>1, <3>2
  <2>2. CASE SetFreeze(r, on)
    <3> DEFINE e == [rows[r] EXCEPT !.freeze = on]
    <3>1. e \in Row /\ e.addr = rows[r].addr
      BY <1>1 DEF Row
    <3>2. rows' = [rows EXCEPT ![r] = e]
      BY <2>2 DEF SetFreeze
    <3> QED
      BY <3>1, <3>2
  <2> QED
    BY <2>1, <2>2
<1>3. rows' \in Seq(Row) /\ Len(rows') <= MaxRows /\ SameAddresses
  BY <1>2, RowChanged DEF IInv
<1>4. /\ mem' \in [Addrs -> Values] /\ attached' \in BOOLEAN
      /\ UNCHANGED <<flags, worker, removed>>
  BY DEF SetActive, SetFreeze, IInv, TypeOK
<1> QED
  BY <1>3, <1>4, UserKeeps

LEMMA OtherStep ==
  ASSUME IInv, \/ \E on \in BOOLEAN : SetAttached(on)
               \/ \E a \in Addrs, v \in Values : TargetWrites(a, v)
  PROVE  IInv'
<1>1. /\ UNCHANGED <<rows, flags, worker, removed>>
      /\ attached' \in BOOLEAN /\ mem' \in [Addrs -> Values]
  BY DEF SetAttached, TargetWrites, table, IInv, TypeOK
<1>2. rows' \in Seq(Row) /\ Len(rows') <= MaxRows /\ SameAddresses
  BY <1>1, RowsKept DEF IInv, TypeOK
<1> QED
  BY <1>1, <1>2, UserKeeps

(* What is left of the list is no longer than it was. *)
LEMMA RemoveStep ==
  ASSUME IInv, NEW selection, RemoveRows(selection)
  PROVE  IInv'
<1> DEFINE kept == (1 .. Len(rows)) \ selection
           n == Cardinality(kept)
<1>1. rows \in Seq(Row) /\ Len(rows) \in Nat /\ Len(rows) <= MaxRows /\ MaxRows \in Nat
  BY TableAssumption DEF IInv, TypeOK
<1>2. n \in Nat /\ n <= Len(rows)
  BY <1>1, RowNumbers
<1>3. PICK place \in InOrder(kept, n) : rows' = [j \in DOMAIN place |-> rows[place[j]]]
  BY DEF RemoveRows
<1>4. place \in [1 .. n -> kept]
  BY <1>3 DEF InOrder
<1> HIDE DEF n
<1>5. rows' \in [1 .. n -> Row]
  BY <1>1, <1>3, <1>4
<1>6. rows' \in Seq(Row) /\ Len(rows') = n
  BY <1>2, <1>5, ListMade
<1>7. RowsOK'
  BY <1>1, <1>2, <1>6 DEF RowsOK
<1>8. WorkerOK' /\ FlagsOK' /\ RestOK'
  BY TypeParts, WorkerKept, FlagsKept DEF RemoveRows, IInv, RestOK, worker
<1>9. UpdatesFitRows'
  BY DEF RemoveRows, UpdatesFitRows
<1> QED
  BY <1>7, <1>8, <1>9, Assembled

-----------------------------------------------------------------------------
(* The snapshot: at most MaxJobs jobs, each of an active row. *)
LEMMA SnapshotFits ==
  ASSUME TypeOK, ActiveRows # {},
         NEW place \in InOrder(ActiveRows, Full(Cardinality(ActiveRows)))
  PROVE  /\ Snapshot(place) \in Seq(Job) /\ Len(Snapshot(place)) <= MaxJobs
         /\ Fits(Snapshot(place))
<1> DEFINE n == Full(Cardinality(ActiveRows))
<1>1. rows \in Seq(Row) /\ Len(rows) \in Nat /\ Len(rows) <= MaxRows
      /\ MaxRows \in Nat /\ MaxJobs \in Nat
  BY TableAssumption DEF TypeOK
<1>2. ActiveRows \in SUBSET (1 .. Len(rows))
  BY DEF ActiveRows
<1>3. n \in Nat /\ n <= MaxJobs
  BY <1>1, <1>2, RowNumbers DEF Full
<1>4. place \in [1 .. n -> ActiveRows]
  BY DEF InOrder
<1> HIDE DEF n
<1>5. ASSUME NEW j \in 1 .. n
      PROVE  /\ place[j] \in 1 .. Len(rows) /\ place[j] \in 1 .. MaxRows
             /\ Snapshot(place)[j] \in Job
             /\ Snapshot(place)[j].row = place[j] /\ Snapshot(place)[j].addr = rows[place[j]].addr
  <2>1. place[j] \in 1 .. Len(rows) /\ place[j] \in 1 .. MaxRows
    <3>1. place[j] \in ActiveRows
      BY <1>4
    <3>2. place[j] \in 1 .. Len(rows)
      BY <1>2, <3>1
    <3>3. \A r \in 1 .. Len(rows) : r \in 1 .. MaxRows
      BY <1>1
    <3> QED
      BY <3>2, <3>3
  <2>2. rows[place[j]] \in Row
    BY <1>1, <2>1
  <2>3. Snapshot(place)[j] =
          [row |-> place[j], addr |-> rows[place[j]].addr, freeze |-> rows[place[j]].freeze,
           text |-> IF rows[place[j]].freeze THEN rows[place[j]].text ELSE Blank]
    BY <1>4 DEF Snapshot, JobRow
  <2> QED
    BY <2>1, <2>2, <2>3 DEF Job, Row, Texts
<1>6. Snapshot(place) \in [1 .. n -> Job]
  <2>1. Snapshot(place) = [j \in 1 .. n |-> Snapshot(place)[j]]
    BY <1>4 DEF Snapshot
  <2> QED
    BY <1>5, <2>1
<1>7. Snapshot(place) \in Seq(Job) /\ Len(Snapshot(place)) = n
  BY <1>3, <1>6, ListMade
<1>8. Fits(Snapshot(place))
  BY <1>1, <1>5, <1>7 DEF Fits
<1> QED
  BY <1>3, <1>7, <1>8

LEMMA RefreshTickStep ==
  ASSUME IInv, RefreshTick, UNCHANGED <<table, mem>>, posted' \in BOOLEAN
  PROVE  IInv'
<1> USE DEF IInv
<1>1. RowsOK /\ WorkerOK /\ FlagsOK /\ RestOK /\ rows' = rows /\ attached' = attached
      /\ mem' = mem
  BY TypeParts DEF table
<1>2. CASE UNCHANGED <<worker, removed, inFlight>> /\ (pending' => inFlight) /\ pending' \in BOOLEAN
  <2>1. RowsOK' /\ WorkerOK' /\ RestOK'
    BY <1>1, <1>2, WorkerKept DEF RowsOK, RestOK
  <2>2. FlagsOK'
    BY <1>1, <1>2 DEF FlagsOK, worker
  <2>3. UpdatesFitRows'
    BY <1>1, <1>2 DEF UpdatesFitRows, worker
  <2> QED
    BY <2>1, <2>2, <2>3, Assembled
<1>3. CASE /\ attached /\ ActiveRows # {} /\ ~inFlight
           /\ pending' = FALSE /\ inFlight' = TRUE
           /\ \E place \in InOrder(ActiveRows, Full(Cardinality(ActiveRows))) :
                jobs' = Snapshot(place)
           /\ next' = 1 /\ stage' = "write" /\ updates' = <<>> /\ removed' = FALSE
  <2>1. PICK place \in InOrder(ActiveRows, Full(Cardinality(ActiveRows))) : jobs' = Snapshot(place)
    BY <1>3
  <2>2. jobs' \in Seq(Job) /\ Len(jobs') <= MaxJobs /\ Fits(jobs')
    BY <1>3, <2>1, SnapshotFits
  <2>3. updates' \in Seq(Update) /\ Len(updates') = 0
    BY <1>3, EmptySeq
  <2>4. WorkerOK'
    <3>1. next' \in 1 .. MaxJobs + 1
      BY <1>3, TableAssumption
    <3> QED
      BY <2>2, <2>3, <3>1 DEF WorkerOK
  <2>5. RowsOK' /\ RestOK' /\ FlagsOK'
    BY <1>1, <1>3 DEF RowsOK, RestOK, FlagsOK
  <2>6. UpdatesFitRows'
    BY <1>1, <2>2, <2>3 DEF UpdatesFitRows, Fits
  <2> QED
    BY <2>4, <2>5, <2>6, Assembled
<1>4. ActiveRows # {} => rows # <<>>
  BY <1>1 DEF ActiveRows, RowsOK
<1>5. FlagsOK
  BY <1>1
<1> QED
  BY <1>2, <1>3, <1>4, <1>5 DEF RefreshTick, FlagsOK

LEMMA ApplyStep ==
  ASSUME IInv, ApplyAddressRefreshResult
  PROVE  IInv'
<1>1. RowsOK /\ WorkerOK /\ FlagsOK /\ RestOK /\ TypeOK
  BY TypeParts DEF IInv
<1>2. /\ rows' = [r \in 1 .. Len(rows) |-> [rows[r] EXCEPT !.text = TextAfter(r)]]
      /\ inFlight' = FALSE /\ pending' = FALSE /\ posted' = (posted \/ pending)
      /\ stage' = "idle" /\ updates' = <<>>
      /\ UNCHANGED <<attached, jobs, next, mem, removed>>
  BY DEF ApplyAddressRefreshResult, InFlightAfterApply
<1>3. ASSUME NEW r \in 1 .. Len(rows)
      PROVE  [rows[r] EXCEPT !.text = TextAfter(r)] \in Row
  <2>1. rows[r] \in Row /\ TextAfter(r) \in Texts
    BY <1>1, TextTyped DEF RowsOK
  <2> QED
    BY <2>1 DEF Row
<1>4. rows' \in [1 .. Len(rows) -> Row]
  BY <1>2, <1>3
<1>5. RowsOK'
  <2>1. Len(rows) \in Nat
    BY <1>1 DEF RowsOK
  <2>2. rows' \in Seq(Row) /\ Len(rows') = Len(rows)
    BY <1>4, <2>1, ListMade
  <2> QED
    BY <1>1, <2>2 DEF RowsOK
<1>6. WorkerOK' /\ RestOK'
  BY <1>1, <1>2, EmptySeq DEF WorkerOK, RestOK
<1>7. FlagsOK' /\ UpdatesFitRows'
  BY <1>1, <1>2 DEF FlagsOK, UpdatesFitRows
<1> QED
  BY <1>5, <1>6, <1>7, Assembled

-----------------------------------------------------------------------------
(* The worker. *)
LEMMA WorkerKeeps ==
  ASSUME IInv, UNCHANGED <<table, flags, removed>>, WorkerOK', mem' \in [Addrs -> Values],
         stage # "idle", stage' \in {"write", "read", "finished"},
         Fits(jobs) /\ Fits(updates) => Fits(jobs') /\ Fits(updates')
  PROVE  IInv'
<1>1. RowsOK' /\ RestOK' /\ FlagsOK'
  BY TypeParts DEF IInv, RowsOK, RestOK, FlagsOK, table, flags
<1>2. UpdatesFitRows'
  <2>1. ~removed => Fits(jobs') /\ Fits(updates')
    BY FitsParts DEF IInv
  <2> QED
    BY <2>1 DEF UpdatesFitRows, Fits, table
<1> QED
  BY <1>1, <1>2, Assembled

LEMMA WriteStep ==
  ASSUME IInv, NEW ok \in BOOLEAN, FreezeWrite(ok)
  PROVE  IInv'
<1>1. WorkerOK /\ RestOK /\ TypeOK
  BY TypeParts DEF IInv
<1>2. jobs[next] \in Job
  BY <1>1 DEF FreezeWrite, WorkerOK
<1>3. mem' \in [Addrs -> Values]
  BY <1>1, <1>2, MemoryWritten DEF FreezeWrite, RestOK, Job
<1>4. WorkerOK'
  <2>1. Len(jobs) \in Nat /\ Len(jobs) <= MaxJobs /\ next \in 1 .. MaxJobs + 1
        /\ next <= Len(jobs) /\ next' = next + 1 /\ MaxJobs \in Nat
    BY <1>1, TableAssumption DEF FreezeWrite, WorkerOK
  <2>2. next' \in 1 .. MaxJobs + 1
    BY <2>1
  <2> QED
    BY <1>1, <2>2 DEF WorkerOK, FreezeWrite
<1> QED
  BY <1>3, <1>4, WorkerKeeps DEF FreezeWrite

LEMMA WritesDoneStep ==
  ASSUME IInv, WritesDone
  PROVE  IInv'
<1>1. WorkerOK' /\ mem' \in [Addrs -> Values]
  BY TypeParts DEF IInv, WorkerOK, RestOK, WritesDone
<1> QED
  BY <1>1, WorkerKeeps DEF WritesDone

LEMMA ReadStep ==
  ASSUME IInv, NEW ok \in BOOLEAN, ReadMemoryBatch(ok)
  PROVE  IInv'
<1>1. WorkerOK /\ RestOK /\ mem \in [Addrs -> Values]
  BY TypeParts DEF IInv, RestOK
<1>2. Len(<<>>) = 0 /\ <<>> \in Seq(Job) /\ <<>> \in Seq(Update) /\ Fits(<<>>)
  BY EmptySeq DEF Fits
<1>3. updates' \in Seq(Update) /\ (Fits(jobs) => Fits(updates'))
  <2>1. CASE updates' = <<>>
    BY <1>2, <2>1
  <2>2. CASE updates' # <<>>
    <3>1. PICK text \in [1 .. Len(jobs) -> Texts] :
            updates' = [j \in 1 .. Len(jobs) |->
                          [row |-> jobs[j].row, addr |-> jobs[j].addr, text |-> text[j]]]
      BY <2>2 DEF ReadMemoryBatch
    <3>2. ASSUME NEW j \in 1 .. Len(jobs)
          PROVE  [row |-> jobs[j].row, addr |-> jobs[j].addr, text |-> text[j]] \in Update
      <4>1. jobs[j] \in Job
        BY <1>1 DEF WorkerOK
      <4> QED
        BY <4>1 DEF Job, Update
    <3>3. updates' \in [1 .. Len(jobs) -> Update]
      BY <3>1, <3>2
    <3>4. Len(jobs) \in Nat
      BY <1>1 DEF WorkerOK
    <3>5. updates' \in Seq(Update) /\ Len(updates') = Len(jobs)
      BY <3>3, <3>4, ListMade
    <3>6. \A j \in 1 .. Len(jobs) :
            updates'[j].row = jobs[j].row /\ updates'[j].addr = jobs[j].addr
      BY <3>1
    <3> QED
      BY <3>5, <3>6 DEF Fits
  <2> QED
    BY <2>1, <2>2
<1>4. jobs' = <<>> /\ next' = 1 /\ stage = "read" /\ stage' = "finished"
      /\ UNCHANGED <<table, flags, mem, removed>>
  BY DEF ReadMemoryBatch
<1>5. WorkerOK'
  <2>1. 1 \in 1 .. MaxJobs + 1 /\ 0 <= MaxJobs
    BY TableAssumption
  <2> QED
    BY <1>2, <1>3, <1>4, <2>1 DEF WorkerOK
<1> QED
  BY <1>1, <1>2, <1>3, <1>4, <1>5, WorkerKeeps

-----------------------------------------------------------------------------
LEMMA NextIInv == IInv /\ [Next]_vars => IInv'
<1> SUFFICES ASSUME IInv, [Next]_vars PROVE IInv'
  OBVIOUS
<1>1. CASE \E a \in Addrs, v \in Values : TargetWrites(a, v)
  BY <1>1, OtherStep
<1>2. CASE UserStep
  BY <1>2, OtherStep, AddStep, EditStep, SetStep, RemoveStep DEF UserStep
<1>3. CASE TimerTick \/ PostedTick
  <2>1. RefreshTick /\ UNCHANGED <<table, mem>> /\ posted' \in BOOLEAN
    BY <1>3 DEF TimerTick, PostedTick, IInv, TypeOK
  <2> QED
    BY <2>1, RefreshTickStep
<1>4. CASE ApplyAddressRefreshResult
  BY <1>4, ApplyStep
<1>5. CASE WorkerStep
  BY <1>5, WriteStep, WritesDoneStep, ReadStep DEF WorkerStep
<1>6. CASE UNCHANGED vars
  <2>1. rows' \in Seq(Row) /\ Len(rows') <= MaxRows /\ SameAddresses
    BY <1>6, RowsKept DEF IInv, TypeOK, vars, table
  <2>2. /\ attached' \in BOOLEAN /\ mem' \in [Addrs -> Values]
        /\ UNCHANGED <<flags, worker, removed>>
    BY <1>6 DEF IInv, TypeOK, vars, table
  <2> QED
    BY <2>1, <2>2, UserKeeps
<1> QED
  BY <1>1, <1>2, <1>3, <1>4, <1>5, <1>6 DEF Next

LEMMA AlwaysIInv == Spec => []IInv
BY InitIInv, NextIInv, PTL DEF Spec

(* Every state of the address list and its refresh is well formed: a       *)
(* refresh is in flight exactly while the worker has a job, another one    *)
(* waits only behind one in flight, and no job has too many rows.          *)
THEOREM TableTypeCorrect == Spec => []TypeOK
<1>1. IInv => TypeOK
  BY DEF IInv
<1> QED
  BY <1>1, AlwaysIInv, PTL

(* ApplyAddressRefreshResult finds every row it names, and of the address  *)
(* that was read for it, unless rows were removed since OnAddressRefreshTick. *)
THEOREM ResultsFit == Spec => []UpdatesFitRows
<1>1. IInv => UpdatesFitRows
  BY DEF IInv
<1> QED
  BY <1>1, AlwaysIInv, PTL

-----------------------------------------------------------------------------
(***************************************************************************)
(* The pointer searches.                                                   *)
(***************************************************************************)

(* The library is the same in each of the components. *)
LEMMA Library ==
  /\ \A S : L!ListOf(S) = ListOf(S) /\ L!Cardinality(S) = Cardinality(S)
  /\ \A f : L!Range(f) = {f[x] : x \in DOMAIN f}
BY DEF L!ListOf, ListOf, L!IsInjective, IsInjective, L!Cardinality, Cardinality, L!Range

(* A set of natural numbers up to n. *)
LEMMA UpTo == \A n \in Nat : IsFiniteSet(1 .. n) /\ Cardinality(1 .. n) = n
BY FS_Interval

(* What a function makes of a finite set is finite. *)
LEMMA ImageFinite ==
  ASSUME NEW S, IsFiniteSet(S), NEW f, DOMAIN f = S
  PROVE  IsFiniteSet({f[x] : x \in S}) /\ Cardinality({f[x] : x \in S}) <= Cardinality(S)
<1> DEFINE T == {f[x] : x \in S}
           g == [x \in S |-> f[x]]
<1>1. g \in Surjection(S, T)
  BY DEF Surjection
<1> HIDE DEF T, g
<1>2. IsFiniteSet(T) /\ Cardinality(T) <= Cardinality(S)
  BY <1>1, FS_Surjection
<1> QED BY <1>2 DEF T

(* A list of n different members of a set of n has them all. *)
LEMMA Enumerates ==
  ASSUME NEW S, IsFiniteSet(S), NEW place \in [1 .. Cardinality(S) -> S],
         \A i, j \in 1 .. Cardinality(S) : place[i] = place[j] => i = j
  PROVE  \A x \in S : \E i \in 1 .. Cardinality(S) : place[i] = x
<1> DEFINE n == Cardinality(S)
<1>1. n \in Nat
  BY FS_CardinalityType
<1>2. IsFiniteSet(1 .. n) /\ Cardinality(1 .. n) = n
  BY <1>1, UpTo
<1>3. place \in Injection(1 .. n, S)
  BY DEF Injection, IsInjective
<1>4. place \in Surjection(1 .. n, S)
  BY <1>2, <1>3, FS_Injection
<1> QED BY <1>4 DEF Surjection

(* A list of a finite set has all of it, each member once. *)
LEMMA ListOfSet ==
  ASSUME NEW S, IsFiniteSet(S)
  PROVE  /\ Cardinality(S) \in Nat
         /\ ListOf(S) \in [1 .. Cardinality(S) -> S]
         /\ ListOf(S) \in Seq(S) /\ Len(ListOf(S)) = Cardinality(S)
         /\ IsInjective(ListOf(S))
         /\ \A x \in S : \E i \in 1 .. Cardinality(S) : ListOf(S)[i] = x
<1> DEFINE n == Cardinality(S)
<1>1. n \in Nat /\ ExistsBijection(1 .. n, S)
  BY FS_CardinalityType
<1>2. PICK f \in Bijection(1 .. n, S) : TRUE
  BY <1>1 DEF ExistsBijection
<1>3. f \in [1 .. n -> S] /\ IsInjective(f)
  BY <1>2 DEF Bijection, Injection
<1>4. ListOf(S) \in [1 .. n -> S] /\ IsInjective(ListOf(S))
  BY <1>3 DEF ListOf
<1>5. \A x \in S : \E i \in 1 .. n : ListOf(S)[i] = x
  <2> DEFINE s == ListOf(S)
  <2>1. s \in [1 .. n -> S] /\ \A i, j \in 1 .. n : s[i] = s[j] => i = j
    BY <1>4 DEF IsInjective
  <2> HIDE DEF s
  <2>2. \A x \in S : \E i \in 1 .. n : s[i] = x
    BY <2>1, Enumerates
  <2> QED BY <2>2 DEF s
<1>6. ListOf(S) \in Seq(S) /\ Len(ListOf(S)) = n
  BY <1>1, <1>4
<1> QED BY <1>1, <1>4, <1>5, <1>6

-----------------------------------------------------------------------------
(***************************************************************************)
(* Lists and their parts.                                                  *)
(***************************************************************************)

(* Each place below Cardinality(I) is the place of one member of I: the     *)
(* members before it are that many.                                         *)
LEMMA PlacesOf ==
  ASSUME NEW I \in SUBSET Nat, IsFiniteSet(I)
  PROVE  /\ Cardinality(I) \in Nat
         /\ Places(I) \in [1 .. Cardinality(I) -> I]
         /\ \A i, j \in 1 .. Cardinality(I) : Places(I)[i] = Places(I)[j] => i = j
         /\ \A p \in I : \E i \in 1 .. Cardinality(I) : Places(I)[i] = p
<1> DEFINE n == Cardinality(I)
           before(p) == {q \in I : q < p}
           rank == [p \in I |-> Cardinality(before(p))]
           place == Places(I)
<1>1. n \in Nat
  BY FS_CardinalityType
<1>2. \A p \in I : IsFiniteSet(before(p)) /\ Cardinality(before(p)) \in Nat
  BY FS_Subset, FS_CardinalityType
<1>3. \A p \in I : Cardinality(before(p)) < n
  <2> TAKE p \in I
  <2>1. before(p) \in SUBSET I /\ before(p) # I
    OBVIOUS
  <2> HIDE DEF before
  <2>2. Cardinality(before(p)) <= n /\ Cardinality(before(p)) # n
    BY <2>1, FS_Subset
  <2> QED BY <1>1, <1>2, <2>2
<1>4. \A p, q \in I : p < q => Cardinality(before(p)) < Cardinality(before(q))
  <2> SUFFICES ASSUME NEW p \in I, NEW q \in I, p < q
               PROVE  Cardinality(before(p)) < Cardinality(before(q))
    OBVIOUS
  <2>1. before(p) \in SUBSET before(q) /\ p \in before(q) /\ p \notin before(p)
    <3>1. p \in Nat /\ q \in Nat /\ \A r \in I : r \in Nat
      OBVIOUS
    <3>2. \A r \in I : r < p => r < q
      BY <3>1
    <3>3. p \in before(q) /\ p \notin before(p)
      BY <3>1
    <3> QED BY <3>2, <3>3
  <2>2. IsFiniteSet(before(q)) /\ before(p) # before(q)
    BY <1>2, <2>1
  <2>3. Cardinality(before(p)) \in Nat /\ Cardinality(before(q)) \in Nat
    BY <1>2
  <2> HIDE DEF before
  <2>4. Cardinality(before(p)) <= Cardinality(before(q))
        /\ Cardinality(before(p)) # Cardinality(before(q))
    BY <2>1, <2>2, FS_Subset
  <2> QED BY <2>3, <2>4
<1>5. rank \in Injection(I, 0 .. n - 1)
  <2>1. \A p, q \in I : Cardinality(before(p)) = Cardinality(before(q)) => p = q
    <3> SUFFICES ASSUME NEW p \in I, NEW q \in I, p # q
                 PROVE  Cardinality(before(p)) # Cardinality(before(q))
      OBVIOUS
    <3>1. p < q \/ q < p
      OBVIOUS
    <3> HIDE DEF before
    <3> QED BY <1>2, <1>4, <3>1
  <2> HIDE DEF before
  <2>2. rank \in [I -> 0 .. n - 1]
    BY <1>1, <1>2, <1>3
  <2> QED BY <2>1, <2>2 DEF Injection, IsInjective
<1>6. rank \in Surjection(I, 0 .. n - 1)
  <2>1. IsFiniteSet(0 .. n - 1) /\ Cardinality(0 .. n - 1) = n
    <3>1. 0 \in Int /\ n - 1 \in Int
      BY <1>1
    <3>2. /\ IsFiniteSet(0 .. n - 1)
          /\ Cardinality(0 .. n - 1) = IF 0 > n - 1 THEN 0 ELSE n - 1 - 0 + 1
      BY <3>1, FS_Interval
    <3> HIDE DEF n
    <3> QED BY <1>1, <3>2
  <2> HIDE DEF rank
  <2> QED BY <1>5, <2>1, FS_Injection
<1>7. \A i \in 1 .. n : \E p \in I : Cardinality(before(p)) = i - 1
  <2> TAKE i \in 1 .. n
  <2>1. i - 1 \in 0 .. n - 1
    BY <1>1
  <2> HIDE DEF before
  <2> QED BY <1>6, <2>1 DEF Surjection
<1>8. place = [i \in 1 .. n |-> CHOOSE p \in I : Cardinality(before(p)) = i - 1]
  BY DEF Places, Cardinality
<1> HIDE DEF before, place
<1>9. \A i \in 1 .. n : place[i] \in I /\ Cardinality(before(place[i])) = i - 1
  BY <1>7, <1>8
<1>10. place \in [1 .. n -> I]
  BY <1>8, <1>9
<1>11. \A i, j \in 1 .. n : place[i] = place[j] => i = j
  <2> SUFFICES ASSUME NEW i \in 1 .. n, NEW j \in 1 .. n, place[i] = place[j] PROVE i = j
    OBVIOUS
  <2>1. i - 1 = j - 1
    BY <1>9
  <2> QED BY <1>1, <2>1
<1>12. \A p \in I : \E i \in 1 .. n : place[i] = p
  BY <1>10, <1>11, Enumerates
<1> QED BY <1>1, <1>10, <1>11, <1>12 DEF place

(* Members of a list, picked. *)
Of(list) == {list[i] : i \in 1 .. Len(list)}

LEMMA PickedOf ==
  ASSUME NEW S, NEW list \in Seq(S), NEW I \in SUBSET (1 .. Len(list))
  PROVE  LET some == Picked(list, I) IN
         /\ some \in Seq(S)
         /\ Of(some) = {list[i] : i \in I}
         /\ (\A i, j \in I : list[i] = list[j] => i = j) => IsInjective(some)
         /\ IsInjective(list) => IsInjective(some)
<1> DEFINE some == Picked(list, I)
           place == Places(I)
           n == Cardinality(I)
<1>0. Len(list) \in Nat /\ \A i \in 1 .. Len(list) : list[i] \in S
  OBVIOUS
<1>1. I \in SUBSET Nat /\ IsFiniteSet(I)
  <2>1. IsFiniteSet(1 .. Len(list))
    BY <1>0, UpTo
  <2>2. IsFiniteSet(I)
    BY <2>1, FS_Subset
  <2>3. I \in SUBSET Nat
    BY <1>0
  <2> QED BY <2>2, <2>3
<1>2. /\ n \in Nat /\ place \in [1 .. n -> I]
      /\ \A i, j \in 1 .. n : place[i] = place[j] => i = j
      /\ \A p \in I : \E i \in 1 .. n : place[i] = p
  BY <1>1, PlacesOf
<1>3. some = [i \in 1 .. n |-> list[place[i]]]
  BY <1>2 DEF Picked
<1> HIDE DEF some, place, n
<1>4. some \in [1 .. n -> S] /\ \A i \in 1 .. n : some[i] = list[place[i]]
  <2>1. \A i \in 1 .. n : place[i] \in 1 .. Len(list)
    BY <1>2
  <2>2. \A i \in 1 .. n : list[place[i]] \in S
    BY <1>0, <2>1
  <2> QED BY <1>3, <2>2
<1>5. some \in Seq(S) /\ Len(some) = n
  BY <1>2, <1>4
<1>6. Of(some) = {list[i] : i \in I}
  <2>1. Of(some) = {some[i] : i \in 1 .. n}
    BY <1>5 DEF Of
  <2>2. \A i \in 1 .. n : some[i] = list[place[i]] /\ place[i] \in I
    BY <1>2, <1>4
  <2>3. ASSUME NEW i \in 1 .. n PROVE some[i] \in {list[p] : p \in I}
    BY ONLY <2>2
  <2>4. ASSUME NEW p \in I PROVE list[p] \in Of(some)
    <3>1. PICK i \in 1 .. n : place[i] = p
      BY <1>2
    <3> QED BY ONLY <2>1, <2>2, <3>1
  <2>5. \A x \in Of(some) : \E i \in 1 .. n : x = some[i]
    BY ONLY <2>1
  <2> QED BY ONLY <2>3, <2>4, <2>5
<1>7. (\A i, j \in I : list[i] = list[j] => i = j) => IsInjective(some)
  <2> SUFFICES ASSUME \A i, j \in I : list[i] = list[j] => i = j,
                      NEW i \in 1 .. n, NEW j \in 1 .. n, some[i] = some[j]
               PROVE  i = j
    BY <1>4 DEF IsInjective
  <2>1. place[i] \in I /\ place[j] \in I
    BY <1>2
  <2>2. list[place[i]] = list[place[j]]
    BY <1>4
  <2>3. place[i] = place[j]
    BY <2>1, <2>2
  <2> QED BY <1>2, <2>3
<1>8. IsInjective(list) => \A i, j \in I : list[i] = list[j] => i = j
  BY DEF IsInjective
<1> QED BY <1>5, <1>6, <1>7, <1>8 DEF some

LEMMA InOf ==
  ASSUME NEW S, NEW list \in Seq(S)
  PROVE  /\ \A x : x \in Of(list) <=> \E i \in 1 .. Len(list) : x = list[i]
         /\ Of(list) \subseteq S /\ DOMAIN list = 1 .. Len(list)
         /\ Of(list) = {} <=> list = <<>>
         /\ Of(list) = C!Range(list) /\ Of(list) = F!Range(list) /\ Of(list) = Q!Range(list)
<1>1. DOMAIN list = 1 .. Len(list) /\ Len(list) \in Nat
  OBVIOUS
<1>2. \A x : x \in Of(list) <=> \E i \in 1 .. Len(list) : x = list[i]
  BY DEF Of
<1>3. Of(list) \subseteq S
  BY <1>2
<1>4. Of(list) = C!Range(list) /\ Of(list) = F!Range(list) /\ Of(list) = Q!Range(list)
  BY <1>1 DEF Of, C!Range, F!Range, Q!Range
<1>5. Of(list) = {} => list = <<>>
  <2>1. ASSUME list # <<>> PROVE list[1] \in Of(list)
    BY <1>2, <2>1
  <2> QED BY <2>1
<1>6. list = <<>> => Of(list) = {}
  BY DEF Of
<1> QED BY <1>1, <1>2, <1>3, <1>4, <1>5, <1>6

LEMMA OfJoined ==
  ASSUME NEW S, NEW list \in Seq(S), NEW more \in Seq(S)
  PROVE  /\ list \o more \in Seq(S)
         /\ Of(list \o more) = Of(list) \cup Of(more)
         /\ IsInjective(list) /\ IsInjective(more) /\ Of(list) \cap Of(more) = {}
              => IsInjective(list \o more)
<1> DEFINE both == list \o more
           n == Len(list)
           m == Len(more)
<1>1. /\ n \in Nat /\ m \in Nat /\ both \in Seq(S) /\ Len(both) = n + m
      /\ \A i \in 1 .. n + m : both[i] = IF i <= n THEN list[i] ELSE more[i - n]
  OBVIOUS
<1> HIDE DEF both, n, m
<1>2. /\ \A i \in 1 .. n : both[i] = list[i] /\ i \in 1 .. n + m
      /\ \A i \in 1 .. m : both[n + i] = more[i] /\ n + i \in 1 .. n + m
  BY <1>1
<1>3. /\ \A x : x \in Of(list) <=> \E i \in 1 .. n : x = list[i]
      /\ \A x : x \in Of(more) <=> \E i \in 1 .. m : x = more[i]
      /\ \A x : x \in Of(both) <=> \E i \in 1 .. n + m : x = both[i]
  BY <1>1 DEF Of, n, m
<1>4. \A x \in Of(both) : x \in Of(list) \/ x \in Of(more)
  <2> SUFFICES ASSUME NEW i \in 1 .. n + m PROVE both[i] \in Of(list) \/ both[i] \in Of(more)
    BY <1>3
  <2>1. CASE i <= n
    BY <1>1, <1>3, <2>1
  <2>2. CASE ~(i <= n)
    <3>1. i - n \in 1 .. m
      BY <1>1, <2>2
    <3> QED BY <1>1, <1>3, <2>2, <3>1
  <2> QED BY <2>1, <2>2
<1>5. \A x : x \in Of(list) \/ x \in Of(more) => x \in Of(both)
  BY <1>2, <1>3
<1>6. IsInjective(list) /\ IsInjective(more) /\ Of(list) \cap Of(more) = {} => IsInjective(both)
  <2> SUFFICES ASSUME IsInjective(list), IsInjective(more), Of(list) \cap Of(more) = {},
                      NEW i \in 1 .. n + m, NEW j \in 1 .. n + m, both[i] = both[j]
               PROVE  i = j
    <3>1. DOMAIN both = 1 .. n + m
      BY <1>1
    <3> QED BY <3>1 DEF IsInjective
  <2>1. /\ \A p, q \in 1 .. n : list[p] = list[q] => p = q
        /\ \A p, q \in 1 .. m : more[p] = more[q] => p = q
    BY DEF IsInjective, n, m
  <2>2. /\ \A k \in 1 .. n + m : k <= n => k \in 1 .. n /\ both[k] = list[k] /\ both[k] \in Of(list)
        /\ \A k \in 1 .. n + m : ~(k <= n) =>
             k - n \in 1 .. m /\ both[k] = more[k - n] /\ both[k] \in Of(more)
    <3>1. \A k \in 1 .. n + m : k <= n => k \in 1 .. n
      BY <1>1
    <3>2. \A k \in 1 .. n + m : ~(k <= n) => k - n \in 1 .. m
      BY <1>1
    <3> QED BY <1>1, <1>3, <3>1, <3>2
  <2>3. CASE i <= n /\ j <= n
    BY <2>1, <2>2, <2>3
  <2>4. CASE ~(i <= n) /\ ~(j <= n)
    <3>1. i - n = j - n
      BY <2>1, <2>2, <2>4
    <3> QED BY <1>1, <3>1
  <2> QED BY <2>2, <2>3, <2>4
<1> QED BY <1>1, <1>4, <1>5, <1>6 DEF both

LEMMA OfPart ==
  ASSUME NEW S, NEW list \in Seq(S), NEW a \in Nat, NEW b \in Nat, b <= Len(list)
  PROVE  LET some == SubSeq(list, a + 1, b) IN
         /\ some \in Seq(S)
         /\ \A x : x \in Of(some) <=> \E i \in a + 1 .. b : x = list[i]
         /\ some # <<>> <=> a < b
         /\ IsInjective(list) => IsInjective(some)
<1> DEFINE some == SubSeq(list, a + 1, b)
           n == IF a < b THEN b - a ELSE 0
<1>1. /\ some \in Seq(S) /\ Len(some) = n /\ n \in Nat
      /\ \A i \in 1 .. n : some[i] = list[a + i]
  <2>1. \A i \in a + 1 .. b : list[i] \in S
    OBVIOUS
  <2>2. /\ some \in Seq(S)
        /\ Len(some) = IF a + 1 <= b THEN b - (a + 1) + 1 ELSE 0
        /\ \A i \in 1 .. b - (a + 1) + 1 : some[i] = list[a + 1 + i - 1]
    BY <2>1, SubSeqProperties
  <2> HIDE DEF some
  <2>3. Len(some) = n /\ n \in Nat
    BY <2>2
  <2>4. ASSUME NEW i \in 1 .. n PROVE some[i] = list[a + i]
    <3>1. i \in 1 .. b - (a + 1) + 1 /\ a + 1 + i - 1 = a + i
      BY <2>4
    <3> QED BY <2>2, <3>1
  <2> QED BY <2>2, <2>3, <2>4
<1>2. \A x : x \in Of(some) <=> \E i \in 1 .. n : x = some[i]
  <2> HIDE DEF some, n
  <2> QED BY <1>1, InOf
<1> HIDE DEF some
<1>3. \A x : x \in Of(some) <=> \E i \in a + 1 .. b : x = list[i]
  <2>1. ASSUME NEW i \in 1 .. n PROVE a + i \in a + 1 .. b /\ some[i] = list[a + i]
    BY <1>1
  <2>2. ASSUME NEW i \in a + 1 .. b PROVE i - a \in 1 .. n /\ some[i - a] = list[i]
    <3>1. i - a \in 1 .. n /\ a + (i - a) = i
      OBVIOUS
    <3> QED BY <1>1, <3>1
  <2> HIDE DEF n
  <2> QED BY <1>2, <2>1, <2>2
<1>4. some # <<>> <=> a < b
  <2>1. some = <<>> <=> Len(some) = 0
    BY <1>1, EmptySeq
  <2> QED BY <1>1, <2>1
<1>5. IsInjective(list) => IsInjective(some)
  <2> SUFFICES ASSUME IsInjective(list), NEW i \in 1 .. n, NEW j \in 1 .. n, some[i] = some[j]
               PROVE  i = j
    <3>1. DOMAIN some = 1 .. n
      BY <1>1
    <3> QED BY <3>1 DEF IsInjective
  <2>1. DOMAIN list = 1 .. Len(list)
    OBVIOUS
  <2>2. a + i \in 1 .. Len(list) /\ a + j \in 1 .. Len(list)
    OBVIOUS
  <2>3. list[a + i] = list[a + j]
    BY <1>1
  <2>4. a + i = a + j
    BY <2>1, <2>2, <2>3 DEF IsInjective
  <2> QED BY <2>4
<1> QED BY <1>1, <1>3, <1>4, <1>5 DEF some

(* What has been taken of a list. *)
TakenOf(list, n) == {list[i] : i \in {j \in 1 .. Len(list) : j <= n}}

LEMMA InTakenOf ==
  ASSUME NEW list, NEW n
  PROVE  \A x : x \in TakenOf(list, n) <=> \E i \in 1 .. Len(list) : i <= n /\ x = list[i]
<1>1. \A x : x \in TakenOf(list, n) <=> \E i \in {j \in 1 .. Len(list) : j <= n} : x = list[i]
  BY DEF TakenOf
<1>2. \A i : i \in {j \in 1 .. Len(list) : j <= n} <=> i \in 1 .. Len(list) /\ i <= n
  OBVIOUS
<1> QED BY ONLY <1>1, <1>2

LEMMA NothingTaken == \A list : TakenOf(list, 0) = {}
<1>1. \A i : i \in Nat \ {0} => ~(i <= 0)
  OBVIOUS
<1>2. \A list : \A x : x \notin TakenOf(list, 0)
  BY InTakenOf
<1> QED BY <1>2

(* A batch more of the list. *)
Batch(list, n, k) ==
  SubSeq(list, n + 1, IF n + k < Len(list) THEN n + k ELSE Len(list))

LEMMA TakenMore ==
  ASSUME NEW S, NEW list \in Seq(S), IsInjective(list), NEW n \in Nat, NEW k \in Nat \ {0}
  PROVE  /\ Batch(list, n, k) \in Seq(S) /\ IsInjective(Batch(list, n, k))
         /\ TakenOf(list, n + k) = TakenOf(list, n) \cup Of(Batch(list, n, k))
         /\ TakenOf(list, n) \cap Of(Batch(list, n, k)) = {}
         /\ Batch(list, n, k) = <<>> => n >= Len(list)
<1> DEFINE m == Len(list)
           b == IF n + k < m THEN n + k ELSE m
           some == Batch(list, n, k)
<1>1. m \in Nat /\ DOMAIN list = 1 .. m /\ n \in Nat /\ k \in Nat \ {0}
  OBVIOUS
<1>c. some = SubSeq(list, n + 1, b)
  BY DEF Batch
<1> HIDE DEF m, b, some
<1>a. b = IF n + k < m THEN n + k ELSE m
  BY DEF b
<1>b. b \in Nat /\ b <= m
  BY ONLY <1>1, <1>a
<1>2. /\ some \in Seq(S) /\ IsInjective(some)
      /\ \A x : x \in Of(some) <=> \E i \in n + 1 .. b : x = list[i]
      /\ some # <<>> <=> n < b
  <2>1. LET part_ == SubSeq(list, n + 1, b) IN
         /\ part_ \in Seq(S)
         /\ \A x : x \in Of(part_) <=> \E i \in n + 1 .. b : x = list[i]
         /\ part_ # <<>> <=> n < b
         /\ IsInjective(list) => IsInjective(part_)
    <3>1. b \in Nat /\ b <= Len(list)
      BY <1>b DEF m
    <3> QED BY ONLY <3>1, OfPart, list \in Seq(S), n \in Nat
  <2> QED BY <1>c, <2>1, Zenon
<1>3. \A i : i \in 1 .. m /\ i <= n + k <=> (i \in 1 .. m /\ i <= n) \/ i \in n + 1 .. b
  BY ONLY <1>1, <1>a
<1>4. TakenOf(list, n + k) = TakenOf(list, n) \cup Of(some)
  <2>1. \A x : x \in TakenOf(list, n + k) <=> x \in TakenOf(list, n) \/ x \in Of(some)
    <3>1. /\ \A x : x \in TakenOf(list, n + k) <=>
               \E i \in 1 .. m : i <= n + k /\ x = list[i]
          /\ \A x : x \in TakenOf(list, n) <=> \E i \in 1 .. m : i <= n /\ x = list[i]
      BY InTakenOf DEF m
    <3> QED BY ONLY <1>2, <1>3, <3>1
  <2> QED BY ONLY <2>1
<1>5. TakenOf(list, n) \cap Of(some) = {}
  <2> SUFFICES ASSUME NEW x \in TakenOf(list, n), x \in Of(some) PROVE FALSE
    OBVIOUS
  <2>1. PICK i \in 1 .. m : i <= n /\ x = list[i]
    BY InTakenOf DEF m
  <2>2. PICK j \in n + 1 .. b : x = list[j]
    BY <1>2
  <2>3. j \in 1 .. m /\ i # j
    BY ONLY <1>1, <1>b, <2>1, <2>2
  <2> QED BY <1>1, <2>1, <2>2, <2>3 DEF IsInjective
<1>6. some = <<>> => n >= Len(list)
  <2>1. some = <<>> => n >= m
    BY ONLY <1>1, <1>a, <1>2
  <2> QED BY <2>1 DEF m
<1> QED BY <1>2, <1>4, <1>5, <1>6 DEF some

(* The members of a list that are in a set, in its order. *)
KeptBy(list, Hits) == Picked(list, {i \in DOMAIN list : list[i] \in Hits})

LEMMA KeptOf ==
  ASSUME NEW S, NEW list \in Seq(S), NEW Hits
  PROVE  /\ KeptBy(list, Hits) \in Seq(S)
         /\ IsInjective(list) => IsInjective(KeptBy(list, Hits))
         /\ \A c : c \in Of(KeptBy(list, Hits)) <=> c \in Of(list) /\ c \in Hits
<1> DEFINE kept == KeptBy(list, Hits)
           I == {i \in DOMAIN list : list[i] \in Hits}
<1>2. DOMAIN list = 1 .. Len(list) /\ \A c : c \in Of(list) <=> \E i \in 1 .. Len(list) : c = list[i]
  BY InOf
<1>3. I \in SUBSET (1 .. Len(list)) /\ \A i : i \in I <=> i \in 1 .. Len(list) /\ list[i] \in Hits
  BY <1>2
<1>4. kept = Picked(list, I)
  BY DEF KeptBy
<1> HIDE DEF I, kept
<1>5. LET some == Picked(list, I) IN
        /\ some \in Seq(S) /\ Of(some) = {list[i] : i \in I}
        /\ (IsInjective(list) => IsInjective(some))
  BY ONLY list \in Seq(S), <1>3, PickedOf
<1>6. /\ kept \in Seq(S) /\ Of(kept) = {list[i] : i \in I}
      /\ (IsInjective(list) => IsInjective(kept))
  BY ONLY <1>4, <1>5
<1>7. \A c : c \in Of(kept) <=> \E i \in I : c = list[i]
  BY ONLY <1>6
<1>8. \A c : c \in Of(kept) <=> c \in Of(list) /\ c \in Hits
  BY ONLY <1>2, <1>3, <1>7
<1> QED BY <1>6, <1>8 DEF kept

-----------------------------------------------------------------------------
(***************************************************************************)
(* The chains of an index: ways along its entries to a goal, each word a   *)
(* near offset away from the next.                                         *)
(***************************************************************************)

(* A set of natural numbers that has 0 and with a number the next has all.  *)
LEMMA SetInduction ==
  ASSUME NEW T \in SUBSET Nat, 0 \in T, \A n \in T : n + 1 \in T
  PROVE  \A n \in Nat : n \in T
<1> SUFFICES ASSUME Nat \ T # {} PROVE FALSE
  OBVIOUS
<1>1. PICK k \in Nat \ T : \A j \in Nat \ T : <<j, k>> \notin OpToRel(<, Nat)
  BY NatLessThanWellFounded, WFMin
<1>2. \A j \in Nat \ T : ~(j < k)
  BY <1>1 DEF OpToRel
<1>3. k # 0 /\ k - 1 \in Nat /\ k - 1 < k /\ (k - 1) + 1 = k
  <2>1. k \in Nat /\ k # 0
    BY <1>1
  <2> QED BY ONLY <2>1
<1>4. k - 1 \in T
  BY <1>2, <1>3
<1> QED BY <1>1, <1>3, <1>4

EntryRecords == [value : Int, address : Int]

(* The chains of n words of an index. *)
NextAt(n, way, i, goal) == IF i = n THEN goal ELSE way[i + 1].address
WayGap(n, way, i, goal) == NextAt(n, way, i, goal) - way[i].value
WayChain(n, way, goal) ==
  [base |-> NextAt(n, way, 0, goal), offsets |-> [i \in 1 .. n |-> WayGap(n, way, i, goal)]]
WaysIn(idx, n, goal, near) ==
  {w \in [1 .. n -> idx] : \A i \in 1 .. n : WayGap(n, w, i, goal) \in near}
ItemsOf(idx, n, goal, near) == {WayChain(n, w, goal) : w \in WaysIn(idx, n, goal, near)}

LEMMA InItemsOf ==
  ASSUME NEW goal, NEW near, NEW idx, NEW n
  PROVE  \A x : x \in ItemsOf(idx, n, goal, near) <=>
           \E w \in [1 .. n -> idx] :
             (\A i \in 1 .. n : WayGap(n, w, i, goal) \in near) /\ x = WayChain(n, w, goal)
<1>1. \A x : x \in ItemsOf(idx, n, goal, near) <=> \E w \in WaysIn(idx, n, goal, near) : x = WayChain(n, w, goal)
  BY DEF ItemsOf
<1>2. \A w : w \in WaysIn(idx, n, goal, near) <=>
               w \in [1 .. n -> idx] /\ \A i \in 1 .. n : WayGap(n, w, i, goal) \in near
  BY DEF WaysIn
<1> QED BY ONLY <1>1, <1>2

(* A word in front of a chain, and of chains. *)
InFrontOf(e, c) == [base |-> e.address, offsets |-> <<c.base - e.value>> \o c.offsets]
BackOf(items, idx, near) ==
  UNION {{InFrontOf(e, c) : e \in {x \in idx : c.base - x.value \in near}} : c \in items}

LEMMA InBack ==
  ASSUME NEW near, NEW items, NEW idx
  PROVE  \A x : x \in BackOf(items, idx, near) <=>
           \E c \in items, e \in idx : c.base - e.value \in near /\ x = InFrontOf(e, c)
<1> DEFINE Fit(c) == {y \in idx : c.base - y.value \in near}
           Front(c) == {InFrontOf(e, c) : e \in Fit(c)}
<1>1. \A c, x : x \in Front(c) <=>
        \E e \in idx : c.base - e.value \in near /\ x = InFrontOf(e, c)
  <2> TAKE c, x
  <2>1. \A e : e \in Fit(c) <=> e \in idx /\ c.base - e.value \in near
    OBVIOUS
  <2>2. x \in Front(c) <=> \E e \in Fit(c) : x = InFrontOf(e, c)
    OBVIOUS
  <2> HIDE DEF Fit, Front
  <2> QED BY ONLY <2>1, <2>2, Zenon
<1>2. BackOf(items, idx, near) = UNION {Front(c) : c \in items}
  BY DEF BackOf
<1> HIDE DEF Front
<1>3. \A x : x \in BackOf(items, idx, near) <=> \E c \in items : x \in Front(c)
  BY ONLY <1>2
<1> QED BY ONLY <1>1, <1>3

(* An offset in front of others. *)
LEMMA InFront ==
  ASSUME NEW d \in Nat, NEW x \in Int, NEW s \in [1 .. d -> Int]
  PROVE  /\ s \in Seq(Int) /\ <<x>> \o s \in Seq(Int)
         /\ <<x>> \o s = [i \in 1 .. d + 1 |-> IF i = 1 THEN x ELSE s[i - 1]]
<1>1. s \in Seq(Int) /\ Len(s) = d /\ <<x>> \in Seq(Int) /\ Len(<<x>>) = 1
  OBVIOUS
<1>2. /\ <<x>> \o s \in Seq(Int) /\ Len(<<x>> \o s) = 1 + d
      /\ \A i \in 1 .. 1 + d : (<<x>> \o s)[i] = IF i <= 1 THEN <<x>>[i] ELSE s[i - 1]
  BY <1>1
<1>3. DOMAIN (<<x>> \o s) = 1 .. d + 1
  BY <1>2
<1>4. \A i \in 1 .. d + 1 : (<<x>> \o s)[i] = IF i = 1 THEN x ELSE s[i - 1]
  BY <1>2
<1>5. <<x>> \o s = [i \in DOMAIN (<<x>> \o s) |-> (<<x>> \o s)[i]]
  BY <1>2
<1> QED BY <1>1, <1>2, <1>3, <1>4, <1>5

LEMMA WayTyped ==
  ASSUME NEW goal \in Int, NEW idx \in SUBSET EntryRecords, NEW n \in Nat, NEW w \in [1 .. n -> idx]
  PROVE  /\ \A i \in 1 .. n : w[i] \in idx /\ w[i].value \in Int /\ w[i].address \in Int
         /\ \A i \in 0 .. n : NextAt(n, w, i, goal) \in Int
         /\ \A i \in 1 .. n : WayGap(n, w, i, goal) \in Int
         /\ [i \in 1 .. n |-> WayGap(n, w, i, goal)] \in [1 .. n -> Int]
<1>1. \A i \in 1 .. n : w[i] \in idx /\ w[i].value \in Int /\ w[i].address \in Int
  <2>2. \A e \in idx : e.value \in Int /\ e.address \in Int
    BY DEF EntryRecords
  <2>3. \A i \in 1 .. n : w[i] \in idx
    OBVIOUS
  <2> QED BY ONLY <2>2, <2>3
<1>2. \A i \in 0 .. n : NextAt(n, w, i, goal) \in Int
  <2> TAKE i \in 0 .. n
  <2>1. CASE i = n
    BY <2>1 DEF NextAt
  <2>2. CASE i # n
    <3>1. i + 1 \in 1 .. n
      BY <2>2
    <3> QED BY <1>1, <2>2, <3>1 DEF NextAt
  <2> QED BY <2>1, <2>2
<1>3. \A i \in 1 .. n : WayGap(n, w, i, goal) \in Int
  BY <1>1, <1>2 DEF WayGap
<1> QED BY <1>1, <1>2, <1>3

LEMMA NoItems ==
  ASSUME NEW goal, NEW near, NEW idx
  PROVE  ItemsOf(idx, 0, goal, near) = {[base |-> goal, offsets |-> <<>>]}
<1> DEFINE c == [base |-> goal, offsets |-> <<>>]
<1>1. \A w : WayChain(0, w, goal) = c
  BY DEF WayChain, NextAt
<1>2. <<>> \in [1 .. 0 -> idx] /\ \A i \in 1 .. 0 : FALSE
  OBVIOUS
<1> HIDE DEF c
<1>3. \A x : x \in ItemsOf(idx, 0, goal, near) <=> x = c
  <2>1. <<>> \in WaysIn(idx, 0, goal, near)
    BY <1>2 DEF WaysIn
  <2> QED BY <1>1, <2>1 DEF ItemsOf
<1> QED BY <1>3 DEF c

LEMMA ItemsBack ==
  ASSUME NEW goal \in Int, NEW near, NEW idx \in SUBSET EntryRecords, NEW d \in Nat
  PROVE  ItemsOf(idx, d + 1, goal, near) = BackOf(ItemsOf(idx, d, goal, near), idx, near)
<1>1. ASSUME NEW w \in [1 .. d + 1 -> idx],
             \A i \in 1 .. d + 1 : WayGap(d + 1, w, i, goal) \in near
      PROVE  WayChain(d + 1, w, goal) \in BackOf(ItemsOf(idx, d, goal, near), idx, near)
  <2> DEFINE v == [i \in 1 .. d |-> w[i + 1]]
             c == WayChain(d, v, goal)
  <2>1. \A i \in 1 .. d : i + 1 \in 1 .. d + 1 /\ v[i] = w[i + 1]
    OBVIOUS
  <2>2. v \in [1 .. d -> idx]
    BY <2>1
  <2>3. \A i \in 0 .. d : NextAt(d, v, i, goal) = NextAt(d + 1, w, i + 1, goal)
    <3> TAKE i \in 0 .. d
    <3>1. CASE i = d
      BY <3>1 DEF NextAt
    <3>2. CASE i # d
      <4>1. i + 1 \in 1 .. d /\ i + 1 # d + 1
        BY <3>2
      <4> QED BY <2>1, <3>2, <4>1 DEF NextAt
    <3> QED BY <3>1, <3>2
  <2> HIDE DEF v
  <2>4. \A i \in 1 .. d : WayGap(d, v, i, goal) = WayGap(d + 1, w, i + 1, goal)
    BY <2>1, <2>3 DEF WayGap
  <2>5. c \in ItemsOf(idx, d, goal, near)
    BY <1>1, <2>1, <2>2, <2>4, InItemsOf
  <2>6. 1 \in 1 .. d + 1 /\ w[1] \in idx
    OBVIOUS
  <2>7. c.base = NextAt(d + 1, w, 1, goal) /\ c.offsets = [i \in 1 .. d |-> WayGap(d, v, i, goal)]
    BY <2>3 DEF WayChain
  <2>8. c.base - w[1].value = WayGap(d + 1, w, 1, goal)
    BY <2>7 DEF WayGap
  <2>9. c.base - w[1].value \in near
    BY <1>1, <2>6, <2>8
  <2>10. /\ WayGap(d + 1, w, 1, goal) \in Int
         /\ [i \in 1 .. d |-> WayGap(d, v, i, goal)] \in [1 .. d -> Int]
    <3>1. d + 1 \in Nat
      OBVIOUS
    <3>2. WayGap(d + 1, w, 1, goal) \in Int
      BY <2>6, <3>1, WayTyped
    <3>3. [i \in 1 .. d |-> WayGap(d, v, i, goal)] \in [1 .. d -> Int]
      BY <2>2, WayTyped
    <3> QED BY <3>2, <3>3
  <2>11. <<WayGap(d + 1, w, 1, goal)>> \o [i \in 1 .. d |-> WayGap(d, v, i, goal)]
           = [i \in 1 .. d + 1 |-> WayGap(d + 1, w, i, goal)]
    <3> DEFINE s == [i \in 1 .. d |-> WayGap(d, v, i, goal)]
               x == WayGap(d + 1, w, 1, goal)
    <3>1. s \in [1 .. d -> Int] /\ x \in Int
      BY <2>10
    <3>2. \A i \in 1 .. d + 1 : i # 1 => i - 1 \in 1 .. d /\ s[i - 1] = WayGap(d + 1, w, i, goal)
      <4> TAKE i \in 1 .. d + 1
      <4> HAVE i # 1
      <4>1. i - 1 \in 1 .. d /\ (i - 1) + 1 = i
        OBVIOUS
      <4> QED BY <2>4, <4>1
    <3> HIDE DEF s
    <3>3. <<x>> \o s = [i \in 1 .. d + 1 |-> IF i = 1 THEN x ELSE s[i - 1]]
      BY <3>1, InFront
    <3>4. \A i \in 1 .. d + 1 : (IF i = 1 THEN x ELSE s[i - 1]) = WayGap(d + 1, w, i, goal)
      BY <3>2
    <3> QED BY <3>3, <3>4 DEF s
  <2>12. WayChain(d + 1, w, goal) = InFrontOf(w[1], c)
    <3>1. NextAt(d + 1, w, 0, goal) = w[1].address
      BY DEF NextAt
    <3> QED BY <2>7, <2>8, <2>11, <3>1 DEF WayChain, InFrontOf
  <2> HIDE DEF c
  <2> QED BY <2>5, <2>6, <2>9, <2>12, InBack
<1>2. ASSUME NEW v \in [1 .. d -> idx],
             \A i \in 1 .. d : WayGap(d, v, i, goal) \in near,
             NEW e \in idx, NextAt(d, v, 0, goal) - e.value \in near
      PROVE  InFrontOf(e, WayChain(d, v, goal)) \in ItemsOf(idx, d + 1, goal, near)
  <2> DEFINE w == [i \in 1 .. d + 1 |-> IF i = 1 THEN e ELSE v[i - 1]]
             s == [i \in 1 .. d |-> WayGap(d, v, i, goal)]
             x == NextAt(d, v, 0, goal) - e.value
  <2>1. /\ \A i \in 1 .. d + 1 : w[i] = IF i = 1 THEN e ELSE v[i - 1]
        /\ \A i \in 1 .. d + 1 : i # 1 => i - 1 \in 1 .. d
        /\ 1 \in 1 .. d + 1 /\ w[1] = e
    OBVIOUS
  <2>2. w \in [1 .. d + 1 -> idx]
    BY <2>1
  <2>3. \A i \in 0 .. d : NextAt(d + 1, w, i + 1, goal) = NextAt(d, v, i, goal)
    <3> HIDE DEF w
    <3> TAKE i \in 0 .. d
    <3>1. CASE i = d
      BY <3>1 DEF NextAt
    <3>2. CASE i # d
      <4>1. i + 2 \in 1 .. d + 1 /\ i + 2 # 1 /\ (i + 1) + 1 = i + 2 /\ (i + 2) - 1 = i + 1
            /\ i + 1 # d + 1
        BY <3>2
      <4>2. w[i + 2] = v[i + 1]
        BY <2>1, <4>1
      <4> QED BY <3>2, <4>1, <4>2 DEF NextAt
    <3> QED BY <3>1, <3>2
  <2> HIDE DEF w
  <2>4. \A i \in 1 .. d + 1 : WayGap(d + 1, w, i, goal) = IF i = 1 THEN x ELSE s[i - 1]
    <3> TAKE i \in 1 .. d + 1
    <3>1. CASE i = 1
      <4>1. NextAt(d + 1, w, 1, goal) = NextAt(d, v, 0, goal)
        <5>1. 0 \in 0 .. d /\ 0 + 1 = 1
          OBVIOUS
        <5> QED BY <2>3, <5>1
      <4> QED BY <2>1, <3>1, <4>1 DEF WayGap
    <3>2. CASE i # 1
      <4>1. i - 1 \in 1 .. d /\ i - 1 \in 0 .. d /\ (i - 1) + 1 = i
        BY <3>2
      <4>2. NextAt(d + 1, w, i, goal) = NextAt(d, v, i - 1, goal)
        BY <2>3, <4>1
      <4> QED BY <2>1, <3>2, <4>1, <4>2 DEF WayGap
    <3> QED BY <3>1, <3>2
  <2>5. \A i \in 1 .. d + 1 : WayGap(d + 1, w, i, goal) \in near
    BY <1>2, <2>1, <2>4
  <2>6. s \in [1 .. d -> Int] /\ x \in Int
    <3>1. e.value \in Int
      BY DEF EntryRecords
    <3>2. NextAt(d, v, 0, goal) \in Int
      <4>1. 0 \in 0 .. d
        OBVIOUS
      <4> QED BY <4>1, WayTyped
    <3>3. s \in [1 .. d -> Int]
      BY WayTyped
    <3> QED BY <3>1, <3>2, <3>3
  <2>7. <<x>> \o s = [i \in 1 .. d + 1 |-> IF i = 1 THEN x ELSE s[i - 1]]
    <3> HIDE DEF s, x
    <3> QED BY <2>6, InFront
  <2>8. WayChain(d + 1, w, goal) = [base |-> e.address, offsets |-> <<x>> \o s]
    <3>1. NextAt(d + 1, w, 0, goal) = e.address
      BY <2>1 DEF NextAt
    <3>2. [i \in 1 .. d + 1 |-> WayGap(d + 1, w, i, goal)] = <<x>> \o s
      BY <2>4, <2>7
    <3> HIDE DEF s, x
    <3> QED BY <3>1, <3>2 DEF WayChain
  <2>9. InFrontOf(e, WayChain(d, v, goal)) = [base |-> e.address, offsets |-> <<x>> \o s]
    BY DEF WayChain, InFrontOf
  <2> HIDE DEF s
  <2> QED BY <2>2, <2>5, <2>8, <2>9, InItemsOf
<1>3. ASSUME NEW c \in ItemsOf(idx, d + 1, goal, near)
      PROVE  c \in BackOf(ItemsOf(idx, d, goal, near), idx, near)
  <2>1. PICK w \in [1 .. d + 1 -> idx] :
          /\ \A i \in 1 .. d + 1 : WayGap(d + 1, w, i, goal) \in near
          /\ c = WayChain(d + 1, w, goal)
    BY <1>3 DEF ItemsOf, WaysIn
  <2> QED BY <1>1, <2>1
<1>4. ASSUME NEW c \in BackOf(ItemsOf(idx, d, goal, near), idx, near) PROVE c \in ItemsOf(idx, d + 1, goal, near)
  <2>1. PICK i \in ItemsOf(idx, d, goal, near), e \in idx :
          i.base - e.value \in near /\ c = InFrontOf(e, i)
    BY <1>4, InBack
  <2>2. PICK v \in [1 .. d -> idx] :
          (\A k \in 1 .. d : WayGap(d, v, k, goal) \in near) /\ i = WayChain(d, v, goal)
    <3>1. i \in ItemsOf(idx, d, goal, near)
      BY <2>1
    <3> QED BY <3>1 DEF ItemsOf, WaysIn
  <2>3. i.base = NextAt(d, v, 0, goal)
    BY <2>2 DEF WayChain
  <2> QED BY <1>2, <2>1, <2>2, <2>3
<1> QED BY <1>3, <1>4

LEMMA ItemsFinite ==
  ASSUME NEW goal \in Int, NEW near, NEW idx \in SUBSET EntryRecords, IsFiniteSet(idx), NEW n \in Nat
  PROVE  IsFiniteSet(ItemsOf(idx, n, goal, near))
<1> DEFINE T == {d \in Nat : IsFiniteSet(ItemsOf(idx, d, goal, near))}
<1>1. 0 \in T
  <2>1. IsFiniteSet({[base |-> goal, offsets |-> <<>>]})
    BY FS_Singleton
  <2> QED BY <2>1, NoItems
<1>2. ASSUME NEW d \in T PROVE d + 1 \in T
  <2> DEFINE items == ItemsOf(idx, d, goal, near)
             Fit(i) == {x \in idx : i.base - x.value \in near}
             Front(i) == {InFrontOf(e, i) : e \in Fit(i)}
  <2>1. IsFiniteSet(items) /\ d \in Nat
    BY <1>2
  <2>2. \A i \in items : IsFiniteSet(Front(i))
    <3> TAKE i \in items
    <3> DEFINE f == [e \in Fit(i) |-> InFrontOf(e, i)]
    <3>1. IsFiniteSet(Fit(i))
      BY FS_Subset
    <3>2. DOMAIN f = Fit(i) /\ Front(i) = {f[e] : e \in Fit(i)}
      OBVIOUS
    <3> HIDE DEF f, Fit, Front
    <3>3. IsFiniteSet({f[e] : e \in Fit(i)})
      BY <3>1, <3>2, ImageFinite
    <3> QED BY <3>2, <3>3
  <2>3. IsFiniteSet({Front(i) : i \in items})
    <3> DEFINE g == [i \in items |-> Front(i)]
    <3>1. DOMAIN g = items /\ {Front(i) : i \in items} = {g[i] : i \in items}
      OBVIOUS
    <3> HIDE DEF g, Front, items
    <3>2. IsFiniteSet({g[i] : i \in items})
      BY <2>1, <3>1, ImageFinite
    <3> QED BY <3>1, <3>2
  <2>4. BackOf(items, idx, near) = UNION {Front(i) : i \in items}
    BY DEF BackOf
  <2>5. IsFiniteSet(BackOf(items, idx, near))
    <3> DEFINE All == {Front(i) : i \in items}
    <3>1. \A S \in All : IsFiniteSet(S)
      BY <2>2
    <3> HIDE DEF All
    <3>2. IsFiniteSet(UNION All)
      BY <2>3, <3>1, FS_UNION DEF All
    <3> QED BY <2>4, <3>2 DEF All
  <2>6. ItemsOf(idx, d + 1, goal, near) = BackOf(items, idx, near)
    BY <2>1, ItemsBack
  <2> QED BY <2>1, <2>5, <2>6
<1> HIDE DEF T
<1>3. T \in SUBSET Nat
  BY DEF T
<1>4. n \in T
  BY <1>1, <1>2, <1>3, SetInduction
<1> QED BY <1>4 DEF T

ChainRecords == [base : Int, offsets : Seq(Int)]

LEMMA ItemsTyped ==
  ASSUME NEW goal \in Int, NEW near, NEW idx \in SUBSET EntryRecords, NEW n \in Nat
  PROVE  ItemsOf(idx, n, goal, near) \subseteq ChainRecords
<1> SUFFICES ASSUME NEW w \in [1 .. n -> idx] PROVE WayChain(n, w, goal) \in ChainRecords
  BY DEF ItemsOf, WaysIn
<1>1. NextAt(n, w, 0, goal) \in Int /\ [i \in 1 .. n |-> WayGap(n, w, i, goal)] \in [1 .. n -> Int]
  <2>1. 0 \in 0 .. n
    OBVIOUS
  <2> QED BY <2>1, WayTyped
<1>2. [i \in 1 .. n |-> WayGap(n, w, i, goal)] \in Seq(Int)
  BY <1>1
<1> QED BY <1>1, <1>2 DEF WayChain, ChainRecords

-----------------------------------------------------------------------------
(***************************************************************************)
(* The scan of the ImGui client.                                           *)
(***************************************************************************)

(* The chains of n words, as AllChains has those of Height words. *)
LeadsBy(n, way, goal) ==
  \A i \in 1 .. n :
    memory[process][way[i]] # 0 /\ L!Offset(way, goal, i) \in -Reach .. Reach

ChainOf(n, way, goal) ==
  [base |-> way[n], offsets |-> [i \in 1 .. n |-> L!Offset(way, goal, i)]]

ChainsOf(cells, n) ==
  {ChainOf(n, p[1], p[2]) : p \in {q \in [1 .. n -> cells] \X Goals : LeadsBy(n, q[1], q[2])}}

RefsOf(cells, n) ==
  IF n = 0 THEN {[base |-> t, offsets |-> <<>>] : t \in Goals} ELSE ChainsOf(cells, n)

MemoryOK == process \in Processes /\ memory \in [Processes -> Memories]

LEMMA MemoryTyped ==
  ASSUME MemoryOK
  PROVE  memory[process] \in [Cells -> Int]
BY LevelsAssumption DEF MemoryOK

LEMMA InChainsOf ==
  ASSUME NEW cells, NEW n, NEW x
  PROVE  x \in ChainsOf(cells, n) <=>
           \E way \in [1 .. n -> cells], goal \in Goals :
             LeadsBy(n, way, goal) /\ x = ChainOf(n, way, goal)
<1>1. ASSUME x \in ChainsOf(cells, n)
      PROVE  \E way \in [1 .. n -> cells], goal \in Goals :
               LeadsBy(n, way, goal) /\ x = ChainOf(n, way, goal)
  <2>1. PICK p \in [1 .. n -> cells] \X Goals : LeadsBy(n, p[1], p[2]) /\ x = ChainOf(n, p[1], p[2])
    BY <1>1 DEF ChainsOf
  <2>2. p[1] \in [1 .. n -> cells] /\ p[2] \in Goals
    BY <2>1
  <2> QED BY <2>1, <2>2
<1>2. ASSUME NEW way \in [1 .. n -> cells], NEW goal \in Goals,
             LeadsBy(n, way, goal), x = ChainOf(n, way, goal)
      PROVE  x \in ChainsOf(cells, n)
  <2> DEFINE p == <<way, goal>>
  <2>1. p \in [1 .. n -> cells] \X Goals /\ p[1] = way /\ p[2] = goal
    OBVIOUS
  <2> HIDE DEF p
  <2>2. LeadsBy(n, p[1], p[2]) /\ x = ChainOf(n, p[1], p[2])
    BY <1>2, <2>1
  <2>3. p \in {q \in [1 .. n -> cells] \X Goals : LeadsBy(n, q[1], q[2])}
    BY <2>1, <2>2
  <2> QED BY <2>2, <2>3 DEF ChainsOf
<1> QED BY <1>1, <1>2

(* The words of some cells that point near a target of a level. *)
LEMMA InPointers ==
  ASSUME NEW refs, NEW cells, NEW x
  PROVE  x \in L!Pointers(refs, L!Words(process, cells)) <=>
           \E r \in refs, c \in cells :
             /\ memory[process][c] # 0
             /\ r.base - memory[process][c] \in -Reach .. Reach
             /\ x = [base |-> c, offsets |-> Append(r.offsets, r.base - memory[process][c])]
<1> DEFINE m == memory[process]
           W == L!Words(process, cells)
           Points(r, c) == /\ m[c] # 0 /\ r.base - m[c] \in -Reach .. Reach
                           /\ x = [base |-> c, offsets |-> Append(r.offsets, r.base - m[c])]
<1>1. ASSUME x \in L!Pointers(refs, W)
      PROVE  \E r \in refs, c \in cells : Points(r, c)
  <2>1. PICK r \in refs : \E e \in W :
            /\ r.base - e.value \in -Reach .. Reach
            /\ x = [base |-> e.address, offsets |-> Append(r.offsets, r.base - e.value)]
    BY <1>1 DEF L!Pointers
  <2>2. PICK e \in W :
            /\ r.base - e.value \in -Reach .. Reach
            /\ x = [base |-> e.address, offsets |-> Append(r.offsets, r.base - e.value)]
    BY <2>1
  <2>3. PICK c \in cells : m[c] # 0 /\ e = [value |-> m[c], address |-> c]
    BY DEF L!Words
  <2>4. e.value = m[c] /\ e.address = c
    BY <2>3
  <2> QED BY <2>2, <2>3, <2>4
<1>2. ASSUME NEW r \in refs, NEW c \in cells, Points(r, c)
      PROVE  x \in L!Pointers(refs, W)
  <2> DEFINE e == [value |-> m[c], address |-> c]
  <2>1. e \in W
    BY <1>2 DEF L!Words
  <2>2. e.value = m[c] /\ e.address = c
    OBVIOUS
  <2> HIDE DEF e, W
  <2>3. e \in {d \in W : r.base - d.value \in -Reach .. Reach}
    BY <1>2, <2>1, <2>2
  <2>4. x = [base |-> e.address, offsets |-> Append(r.offsets, r.base - e.value)]
    BY <1>2, <2>2
  <2> DEFINE D == {d \in W : r.base - d.value \in -Reach .. Reach}
             new(d) == [base |-> d.address, offsets |-> Append(r.offsets, r.base - d.value)]
  <2>5. x \in {new(d) : d \in D}
    BY <2>3, <2>4
  <2> QED BY <2>5 DEF L!Pointers
<1> QED BY <1>1, <1>2

(* A way that one more word leads to. *)
Longer(n, way, c) == [i \in 1 .. n + 1 |-> IF i = n + 1 THEN c ELSE way[i]]
RefOf(n, way, goal) ==
  IF n = 0 THEN [base |-> goal, offsets |-> <<>>] ELSE ChainOf(n, way, goal)

LEMMA LongerWay ==
  ASSUME MemoryOK, NEW cells, cells \subseteq Cells,
         NEW n \in Nat, NEW way \in [1 .. n -> cells], NEW goal \in Goals, NEW c \in cells
  PROVE  LET longer == Longer(n, way, c)
             r == RefOf(n, way, goal)
             m == memory[process]
         IN  /\ longer \in [1 .. n + 1 -> cells]
             /\ ChainOf(n + 1, longer, goal) =
                  [base |-> c, offsets |-> Append(r.offsets, r.base - m[c])]
             /\ LeadsBy(n + 1, longer, goal) <=>
                  /\ LeadsBy(n, way, goal)
                  /\ m[c] # 0 /\ r.base - m[c] \in -Reach .. Reach
<1> DEFINE longer == Longer(n, way, c)
           r == RefOf(n, way, goal)
           m == memory[process]
           o == [i \in 1 .. n |-> L!Offset(way, goal, i)]
<1>1. m \in [Cells -> Int] /\ Goals \subseteq Int /\ Cells \subseteq Int
  BY MemoryTyped, LevelsAssumption
<1>2. longer \in [1 .. n + 1 -> cells] /\ longer[n + 1] = c
      /\ \A i \in 1 .. n : longer[i] = way[i]
  BY DEF Longer
<1> HIDE DEF longer
<1>3. \A i \in 1 .. n : L!Offset(longer, goal, i) = L!Offset(way, goal, i)
  BY <1>2 DEF L!Offset
<1>4. r.base = IF n = 0 THEN goal ELSE way[n]
  BY DEF ChainOf, RefOf
<1>5. L!Offset(longer, goal, n + 1) = r.base - m[c]
  BY <1>2, <1>4 DEF L!Offset
<1>6. o \in Seq(Int) /\ Len(o) = n
  <2>1. \A i \in 1 .. n : i = 1 \/ i - 1 \in 1 .. n
    OBVIOUS
  <2>2. \A i \in 1 .. n : L!Offset(way, goal, i) \in Int
    <3> SUFFICES ASSUME NEW i \in 1 .. n
                 PROVE  L!Offset(way, goal, i) \in Int
      OBVIOUS
    <3>1. m[way[i]] \in Int
      BY <1>1
    <3>2. (IF i = 1 THEN goal ELSE way[i - 1]) \in Int
      BY <1>1, <2>1
    <3> QED BY <3>1, <3>2 DEF L!Offset
  <2>3. o \in [1 .. n -> Int]
    BY <2>2
  <2> QED BY <2>3
<1>7. r.offsets = o
  <2>1. CASE n = 0
    BY <1>6, <2>1 DEF RefOf
  <2>2. CASE n # 0
    BY <2>2 DEF ChainOf, RefOf
  <2> QED BY <2>1, <2>2
<1> HIDE DEF o, r
<1>8. r.base - m[c] \in Int
  <2>1. n # 0 => way[n] \in Cells
    OBVIOUS
  <2>2. r.base \in Int /\ m[c] \in Int
    BY <1>1, <1>4, <2>1
  <2> QED BY <2>2
<1>9. [i \in 1 .. n + 1 |-> L!Offset(longer, goal, i)] = Append(o, r.base - m[c])
  <2> DEFINE a == [i \in 1 .. n + 1 |-> L!Offset(longer, goal, i)]
             b == Append(o, r.base - m[c])
  <2>1. b \in Seq(Int) /\ Len(b) = n + 1 /\ DOMAIN b = 1 .. n + 1
    BY <1>6, <1>8
  <2>2. \A i \in 1 .. n : b[i] = L!Offset(way, goal, i)
    BY <1>6, <1>8 DEF o
  <2>3. b[n + 1] = r.base - m[c]
    BY <1>6, <1>8
  <2>4. \A i \in 1 .. n + 1 : a[i] = b[i]
    <3> HIDE DEF b
    <3> SUFFICES ASSUME NEW i \in 1 .. n + 1
                 PROVE  L!Offset(longer, goal, i) = b[i]
      OBVIOUS
    <3>1. CASE i = n + 1
      BY <3>1, <1>5, <2>3
    <3>2. CASE i # n + 1
      <4>1. i \in 1 .. n
        BY <3>2
      <4> QED BY <4>1, <1>3, <2>2
    <3> QED BY <3>1, <3>2
  <2>5. DOMAIN a = 1 .. n + 1
    OBVIOUS
  <2>6. b = [i \in 1 .. n + 1 |-> b[i]]
    BY <2>1
  <2> HIDE DEF b
  <2>7. b = a
    BY <2>4, <2>6
  <2> QED BY <2>7 DEF b
<1>10. ChainOf(n + 1, longer, goal) = [base |-> c, offsets |-> Append(r.offsets, r.base - m[c])]
  BY <1>2, <1>7, <1>9 DEF ChainOf
<1>11. LeadsBy(n + 1, longer, goal) <=>
         LeadsBy(n, way, goal) /\ m[c] # 0 /\ r.base - m[c] \in -Reach .. Reach
  BY <1>2, <1>3, <1>5 DEF LeadsBy
<1> QED BY <1>2, <1>10, <1>11 DEF r, longer

(* The words next to the chains of a level are those of the next level. *)
LEMMA NextLevel ==
  ASSUME MemoryOK, NEW cells, cells \subseteq Cells, NEW n \in Nat
  PROVE  L!Pointers(RefsOf(cells, n), L!Words(process, cells)) = ChainsOf(cells, n + 1)
<1> DEFINE m == memory[process]
           Points(x, r, c) ==
             /\ m[c] # 0 /\ r.base - m[c] \in -Reach .. Reach
             /\ x = [base |-> c, offsets |-> Append(r.offsets, r.base - m[c])]
<1>1. ASSUME NEW r \in RefsOf(cells, n)
      PROVE  \E way \in [1 .. n -> cells], goal \in Goals :
               LeadsBy(n, way, goal) /\ r = RefOf(n, way, goal)
  <2>1. CASE n = 0
    <3>1. PICK goal \in Goals : r = [base |-> goal, offsets |-> <<>>]
      BY <1>1, <2>1 DEF RefsOf
    <3>2. LeadsBy(n, <<>>, goal) /\ <<>> \in [1 .. n -> cells]
      BY <2>1 DEF LeadsBy
    <3> QED BY <2>1, <3>1, <3>2 DEF RefOf
  <2>2. CASE n # 0
    BY <1>1, <2>2, InChainsOf DEF RefsOf, RefOf
  <2> QED BY <2>1, <2>2
<1>2. ASSUME NEW way \in [1 .. n -> cells], NEW goal \in Goals, LeadsBy(n, way, goal)
      PROVE  RefOf(n, way, goal) \in RefsOf(cells, n)
  BY <1>2, InChainsOf DEF RefsOf, RefOf
<1>3. ASSUME NEW x \in L!Pointers(RefsOf(cells, n), L!Words(process, cells))
      PROVE  x \in ChainsOf(cells, n + 1)
  <2>1. PICK r \in RefsOf(cells, n), c \in cells : Points(x, r, c)
    BY <1>3, InPointers
  <2>2. PICK way \in [1 .. n -> cells], goal \in Goals :
               LeadsBy(n, way, goal) /\ r = RefOf(n, way, goal)
    BY <1>1
  <2>3. /\ Longer(n, way, c) \in [1 .. n + 1 -> cells]
        /\ ChainOf(n + 1, Longer(n, way, c), goal) = x
        /\ LeadsBy(n + 1, Longer(n, way, c), goal)
    <3>1. /\ LeadsBy(n, way, goal) /\ m[c] # 0
          /\ RefOf(n, way, goal).base - m[c] \in -Reach .. Reach
          /\ x = [base |-> c, offsets |-> Append(RefOf(n, way, goal).offsets,
                                              RefOf(n, way, goal).base - m[c])]
      BY <2>1, <2>2
    <3>2. /\ MemoryOK /\ cells \subseteq Cells /\ n \in Nat
          /\ way \in [1 .. n -> cells] /\ goal \in Goals /\ c \in cells
      OBVIOUS
    <3> DEFINE longer == Longer(n, way, c)
    <3>3. /\ longer \in [1 .. n + 1 -> cells]
          /\ ChainOf(n + 1, longer, goal) =
               [base |-> c, offsets |-> Append(RefOf(n, way, goal).offsets,
                                               RefOf(n, way, goal).base - m[c])]
          /\ LeadsBy(n + 1, longer, goal) <=>
               /\ LeadsBy(n, way, goal)
               /\ m[c] # 0 /\ RefOf(n, way, goal).base - m[c] \in -Reach .. Reach
      BY ONLY <3>2, LongerWay
    <3> HIDE DEF m, longer
    <3> QED BY ONLY <3>1, <3>3 DEF longer
  <2> QED BY <2>3, InChainsOf
<1>4. ASSUME NEW x \in ChainsOf(cells, n + 1)
      PROVE  x \in L!Pointers(RefsOf(cells, n), L!Words(process, cells))
  <2>1. PICK long \in [1 .. n + 1 -> cells], goal \in Goals :
          LeadsBy(n + 1, long, goal) /\ x = ChainOf(n + 1, long, goal)
    BY <1>4, InChainsOf
  <2> DEFINE way == [i \in 1 .. n |-> long[i]]
             c == long[n + 1]
  <2>2. way \in [1 .. n -> cells] /\ c \in cells /\ Longer(n, way, c) = long
    BY DEF Longer
  <2> HIDE DEF way, c
  <2>3. LeadsBy(n, way, goal) /\ Points(x, RefOf(n, way, goal), c)
    BY <2>1, <2>2, LongerWay
  <2>4. RefOf(n, way, goal) \in RefsOf(cells, n)
    BY <1>2, <2>2, <2>3
  <2> QED BY <2>2, <2>3, <2>4, InPointers
<1> QED BY <1>3, <1>4

(* They are finitely many. *)
LEMMA WordsFinite ==
  ASSUME NEW cells, cells \subseteq Cells
  PROVE  IsFiniteSet(L!Words(process, cells))
<1> DEFINE m == memory[process]
           D == {d \in cells : m[d] # 0}
           f == [c \in D |-> [value |-> m[c], address |-> c]]
<1>1. IsFiniteSet(D)
  BY FS_Subset, LevelsAssumption
<1>2. L!Words(process, cells) = {f[c] : c \in D}
  BY DEF L!Words
<1> HIDE DEF f, D
<1>3. DOMAIN f = D
  BY DEF f
<1> QED BY <1>1, <1>2, <1>3, ImageFinite

LEMMA PointersFinite ==
  ASSUME NEW refs, IsFiniteSet(refs), NEW idx, IsFiniteSet(idx)
  PROVE  IsFiniteSet(L!Pointers(refs, idx))
<1> DEFINE new(r, d) == [base |-> d.address, offsets |-> Append(r.offsets, r.base - d.value)]
           near(r) == {d \in idx : r.base - d.value \in -Reach .. Reach}
           of == [r \in refs |-> {new(r, d) : d \in near(r)}]
<1>1. ASSUME NEW r \in refs PROVE IsFiniteSet(of[r])
  <2> DEFINE f == [d \in near(r) |-> new(r, d)]
  <2>1. IsFiniteSet(near(r))
    BY FS_Subset
  <2>2. of[r] = {f[d] : d \in near(r)}
    OBVIOUS
  <2>3. DOMAIN f = near(r)
    OBVIOUS
  <2> HIDE DEF f, near, of
  <2> QED BY <2>1, <2>2, <2>3, ImageFinite
<1>2. L!Pointers(refs, idx) = UNION {of[r] : r \in refs}
  BY DEF L!Pointers
<1>3. DOMAIN of = refs
  OBVIOUS
<1> HIDE DEF of
<1>4. IsFiniteSet({of[r] : r \in refs})
  BY <1>3, ImageFinite
<1>5. \A T \in {of[r] : r \in refs} : IsFiniteSet(T)
  BY <1>1
<1> QED BY <1>2, <1>4, <1>5, FS_UNION

(* The items of a pass over the queue, and all that is to be found in it. *)
Passing == job \in {"local", "run"}
LWhole ==
  IF job = "local" THEN L!Words(process, L!Selected)
  ELSE L!Pointers(L!Refs, IF direct THEN L!Words(process, L!Selected) ELSE cache.entries)

(* The inductive invariant of the scan.                                     *)
(*  - A pass: what the items taken so far have is found, or a worker holds  *)
(*    the item; a worker ends after the last item or when the pass is to be *)
(*    stopped, which ends the scan.                                         *)
(*  - The pool counts the workers that are not through with the level.      *)
(*  - The index is of the process it says, and has all words of the cells it *)
(*    was made of if it says so.                                            *)
(*  - The levels so far have the chains of their number of words in the    *)
(*    cells that are searched.                                              *)
Caches ==
  [entries : SUBSET [value : Int, address : Cells], process : Processes \cup {0},
   strict : BOOLEAN, cells : SUBSET Cells, whole : BOOLEAN]

LBasic ==
  /\ job \in {"idle", "build", "fetch", "check", "local", "levels", "connect",
              "level", "run", "done", "failed"}
  /\ MemoryOK /\ asked \in [freeze : BOOLEAN, index : BOOLEAN, tasks : Seq(SUBSET Cells)]
  /\ direct \in BOOLEAN /\ stop \in BOOLEAN /\ error \in BOOLEAN /\ gaps \in BOOLEAN
  /\ reached \in 0 .. Height /\ IsFiniteSet(nodes)
LIndex ==
  /\ cache \in Caches
  /\ IsFiniteSet(cache.entries)
  /\ IF job = "fetch" THEN fetch \in Seq(L!Words(process, Cells)) ELSE fetch = <<>>
LWorkers ==
  /\ at \in [Workers -> {"wait", "work", "item", "end"}]
  /\ item \in [Workers -> Nat] /\ seen \in [Workers -> 0 .. Height]
  /\ generation \in 0 .. Height /\ waiting \in 0 .. Cardinality(Workers)
  /\ total \in Nat /\ taken \in Nat
  /\ DOMAIN found = Workers /\ \A w \in Workers : IsFiniteSet(found[w])
  /\ waiting # 0 => job = "run"

LTypes == LBasic /\ LIndex /\ LWorkers

Early == job \in {"build", "fetch", "check", "local", "levels", "connect"}
LPlace ==
  /\ ~Passing => \A w \in Workers : at[w] = "wait"
  /\ Early => generation = 0 /\ reached = 0 /\ nodes = {} /\ ~direct
  /\ job \in {"build", "fetch", "check"} =>
       taken = 0 /\ total = 0 /\ ~stop /\ \A w \in Workers : item[w] = 0 /\ found[w] = {}
  /\ job \in {"build", "fetch", "check", "levels", "connect", "level", "done"} => ~error
  /\ job \in {"level", "run"} => reached < Height
  /\ job = "level" => generation = reached
  /\ job = "done" => reached = Height

LPool ==
  /\ \A w \in Workers : seen[w] <= generation
  /\ job = "run" =>
       /\ generation = reached + 1
       /\ waiting = Cardinality({w \in Workers : at[w] # "wait" \/ seen[w] # generation})
       /\ \A w \in Workers : at[w] # "wait" => seen[w] = generation

Through(w) == at[w] = "end" \/ (job = "run" /\ at[w] = "wait" /\ seen[w] = generation)
Held(i) == \E w \in Workers : at[w] = "item" /\ item[w] = i
LQueue ==
  Passing =>
    /\ taken <= Len(L!Items)
    /\ \A w \in Workers :
         /\ item[w] <= taken /\ (at[w] = "item" => item[w] # 0)
         /\ item[w] = 0 => found[w] = {}
         /\ found[w] \subseteq LWhole
         /\ Through(w) => stop \/ taken = Len(L!Items) \/ (job = "local" /\ item[w] = 0)
    /\ ~gaps => \A i \in 1 .. taken : Held(i) \/ L!Harvest(i) \subseteq L!Gathered
    /\ stop => error \/ total > Limit

LCache ==
  /\ cache.whole /\ cache.entries # {} =>
       cache.process \in Processes /\ cache.entries = L!Words(cache.process, cache.cells)
  /\ job = "fetch" =>
       /\ cache.entries \subseteq L!Words(process, Cells) /\ ~cache.whole
       /\ ~gaps => cache.entries \cup {fetch[i] : i \in 1 .. Len(fetch)} = L!Words(process, Cells)
  /\ job = "levels" => cache.entries = {} \/ cache.process = process
  /\ job \in {"level", "run", "done"} /\ ~direct /\ ~gaps =>
       cache.entries = L!Words(process, cache.cells)

LLevels ==
  job \in {"level", "run", "done"} =>
    /\ ~gaps => L!Refs = RefsOf(L!Searched, reached)
    /\ direct /\ asked.freeze /\ gaps => error

LInv == LTypes /\ LPlace /\ LPool /\ LQueue /\ LCache /\ LLevels

(* The cells of a selection are those of its tasks. *)
LEMMA TasksFacts ==
  ASSUME LBasic
  PROVE  /\ Len(asked.tasks) \in Nat /\ L!Selected \subseteq Cells
         /\ \A i \in 1 .. Len(asked.tasks) : asked.tasks[i] \subseteq L!Selected
         /\ \A c \in L!Selected : \E i \in 1 .. Len(asked.tasks) : c \in asked.tasks[i]
<1> DEFINE s == asked.tasks
<1>1. s \in Seq(SUBSET Cells)
  BY DEF LBasic
<1> HIDE DEF s
<1>2. Len(s) \in Nat /\ DOMAIN s = 1 .. Len(s) /\ \A i \in 1 .. Len(s) : s[i] \in SUBSET Cells
  BY <1>1
<1>3. L!Selected = UNION {s[i] : i \in 1 .. Len(s)}
  BY <1>2, Library DEF L!Selected, s
<1>4. \A c : c \in UNION {s[i] : i \in 1 .. Len(s)} <=> \E i \in 1 .. Len(s) : c \in s[i]
  BY Zenon
<1> QED BY <1>2, <1>3, <1>4 DEF s

LEMMA RefsFinite ==
  ASSUME IsFiniteSet(nodes)
  PROVE  IsFiniteSet(L!Refs)
<1> DEFINE f == [t \in Goals |-> [base |-> t, offsets |-> <<>>]]
<1>1. IsFiniteSet({f[t] : t \in Goals})
  <2>1. DOMAIN f = Goals /\ IsFiniteSet(Goals)
    BY LevelsAssumption
  <2> HIDE DEF f
  <2> QED BY <2>1, ImageFinite
<1>2. {f[t] : t \in Goals} = {[base |-> t, offsets |-> <<>>] : t \in Goals}
  OBVIOUS
<1> HIDE DEF f
<1> QED BY <1>1, <1>2 DEF L!Refs

(* The words of the cells of all tasks are those of the selection. *)
LEMMA WordsOfTasks ==
  ASSUME LBasic
  PROVE
  /\ \A i \in 1 .. Len(asked.tasks) :
       L!Words(process, asked.tasks[i]) \subseteq L!Words(process, L!Selected)
  /\ \A e \in L!Words(process, L!Selected) :
       \E i \in 1 .. Len(asked.tasks) : e \in L!Words(process, asked.tasks[i])
<1> DEFINE m == memory[process]
           D(cells) == {d \in cells : m[d] # 0}
           word(c) == [value |-> m[c], address |-> c]
<1>0. \A cells : L!Words(process, cells) = {word(c) : c \in D(cells)}
  BY DEF L!Words
<1>1. ASSUME NEW i \in 1 .. Len(asked.tasks)
      PROVE  L!Words(process, asked.tasks[i]) \subseteq L!Words(process, L!Selected)
  <2>1. D(asked.tasks[i]) \subseteq D(L!Selected)
    BY TasksFacts
  <2> QED BY <1>0, <2>1
<1>2. ASSUME NEW e \in L!Words(process, L!Selected)
      PROVE  \E i \in 1 .. Len(asked.tasks) : e \in L!Words(process, asked.tasks[i])
  <2>1. PICK c \in D(L!Selected) : e = word(c)
    BY <1>0
  <2>2. PICK i \in 1 .. Len(asked.tasks) : c \in asked.tasks[i]
    BY TasksFacts
  <2>3. c \in D(asked.tasks[i])
    BY <2>2
  <2>4. e \in {word(d) : d \in D(asked.tasks[i])}
    BY <2>1, <2>3
  <2> QED BY <1>0, <2>4
<1> QED BY <1>1, <1>2

(* Pointers distributes over its arguments. *)
LEMMA PointersOf ==
  ASSUME NEW refs, NEW idx, NEW x
  PROVE  x \in L!Pointers(refs, idx) <=>
           \E r \in refs, e \in idx :
             /\ r.base - e.value \in -Reach .. Reach
             /\ x = [base |-> e.address, offsets |-> Append(r.offsets, r.base - e.value)]
<1> DEFINE new(r, d) == [base |-> d.address, offsets |-> Append(r.offsets, r.base - d.value)]
           near(r) == {d \in idx : r.base - d.value \in -Reach .. Reach}
           of(r) == {new(r, d) : d \in near(r)}
<1>1. L!Pointers(refs, idx) = UNION {of(r) : r \in refs}
  BY DEF L!Pointers
<1>2. x \in UNION {of(r) : r \in refs} <=> \E r \in refs : x \in of(r)
  <2> HIDE DEF of
  <2> QED OBVIOUS
<1>3. \A r \in refs : x \in of(r) <=> \E e \in near(r) : x = new(r, e)
  OBVIOUS
<1> QED BY <1>1, <1>2, <1>3

(* What the items have is all there is. *)
LEMMA Harvests ==
  ASSUME Passing, LBasic, IsFiniteSet(cache.entries)
  PROVE  /\ Len(L!Items) \in Nat
         /\ \A i \in 1 .. Len(L!Items) : IsFiniteSet(L!Harvest(i)) /\ L!Harvest(i) \subseteq LWhole
         /\ \A x \in LWhole : \E i \in 1 .. Len(L!Items) : x \in L!Harvest(i)
<1>1. CASE job = "local"
  <2>1. L!Items = asked.tasks /\ LWhole = L!Words(process, L!Selected)
        /\ \A i : L!Harvest(i) = L!Words(process, asked.tasks[i])
    BY <1>1 DEF L!Items, LWhole, L!Harvest
  <2>2. \A i \in 1 .. Len(asked.tasks) : IsFiniteSet(L!Words(process, asked.tasks[i]))
    BY TasksFacts, WordsFinite
  <2> QED BY <2>1, <2>2, TasksFacts, WordsOfTasks
<1>2. CASE job = "run" /\ direct
  <2>1. L!Items = asked.tasks /\ LWhole = L!Pointers(L!Refs, L!Words(process, L!Selected))
        /\ \A i : L!Harvest(i) = L!Pointers(L!Refs, L!Words(process, asked.tasks[i]))
    BY <1>2 DEF L!Items, LWhole, L!Harvest
  <2>2. \A i \in 1 .. Len(asked.tasks) : IsFiniteSet(L!Pointers(L!Refs, L!Words(process, asked.tasks[i])))
    <3>1. IsFiniteSet(L!Refs)
      BY RefsFinite DEF LBasic
    <3>2. \A i \in 1 .. Len(asked.tasks) : asked.tasks[i] \subseteq Cells
      BY TasksFacts
    <3> QED BY <3>1, <3>2, WordsFinite, PointersFinite
  <2>3. \A i \in 1 .. Len(asked.tasks) : L!Pointers(L!Refs, L!Words(process, asked.tasks[i])) \subseteq LWhole
    BY <2>1, WordsOfTasks, PointersOf
  <2>4. ASSUME NEW x \in LWhole
        PROVE  \E i \in 1 .. Len(asked.tasks) : x \in L!Pointers(L!Refs, L!Words(process, asked.tasks[i]))
    BY <2>1, WordsOfTasks, PointersOf
  <2> QED BY <2>1, <2>2, <2>3, <2>4, TasksFacts
<1>3. CASE job = "run" /\ ~direct
  <2> DEFINE s == ListOf(L!Refs)
             n == Cardinality(L!Refs)
  <2>1. L!Items = s /\ LWhole = L!Pointers(L!Refs, cache.entries)
        /\ \A i : L!Harvest(i) = L!Pointers({s[i]}, cache.entries)
    <3>1. L!Items = s
      BY <1>3, Library DEF L!Items
    <3>2. LWhole = L!Pointers(L!Refs, cache.entries)
      BY <1>3 DEF LWhole
    <3> HIDE DEF s
    <3>3. \A i : L!Harvest(i) = L!Pointers({s[i]}, cache.entries)
      BY <1>3, <3>1 DEF L!Harvest
    <3> QED BY <3>1, <3>2, <3>3
  <2>2. /\ n \in Nat /\ Len(s) = n /\ \A i \in 1 .. n : s[i] \in L!Refs
        /\ \A r \in L!Refs : \E i \in 1 .. n : s[i] = r
    BY RefsFinite, ListOfSet DEF LBasic
  <2> HIDE DEF s, n
  <2>3. \A i \in 1 .. n : IsFiniteSet(L!Pointers({s[i]}, cache.entries))
    BY FS_Singleton, PointersFinite
  <2>4. \A i \in 1 .. n : L!Pointers({s[i]}, cache.entries) \subseteq LWhole
    BY <2>1, <2>2, PointersOf
  <2>5. ASSUME NEW x \in LWhole
        PROVE  \E i \in 1 .. n : x \in L!Pointers({s[i]}, cache.entries)
    <3>1. PICK r \in L!Refs, e \in cache.entries :
             /\ r.base - e.value \in -Reach .. Reach
             /\ x = [base |-> e.address, offsets |-> Append(r.offsets, r.base - e.value)]
      BY <2>1, PointersOf
    <3>2. PICK i \in 1 .. n : s[i] = r
      BY <2>2
    <3> QED BY <3>1, <3>2, PointersOf
  <2> QED BY <2>1, <2>2, <2>3, <2>4, <2>5
<1> QED BY <1>1, <1>2, <1>3 DEF Passing

LEMMA SameHarvest ==
  ASSUME UNCHANGED <<job, asked, process, memory, direct, reached, nodes, cache>>
  PROVE  /\ L!Items' = L!Items /\ LWhole' = LWhole /\ L!Refs' = L!Refs
         /\ L!Selected' = L!Selected /\ L!Searched' = L!Searched
         /\ \A i : L!Harvest(i)' = L!Harvest(i)
         /\ \A cells : L!Words(process, cells)' = L!Words(process, cells)
         /\ \A cells, n : RefsOf(cells, n)' = RefsOf(cells, n)
<1>1. /\ L!Items' = L!Items /\ L!Refs' = L!Refs
      /\ L!Selected' = L!Selected /\ L!Searched' = L!Searched
  BY DEF L!Items, L!Refs, L!Selected, L!Searched
<1>2. \A cells : L!Words(process, cells)' = L!Words(process, cells)
  BY DEF L!Words
<1>3. LWhole' = LWhole
  <2>1. L!Words(process, L!Selected)' = L!Words(process, L!Selected)
    BY <1>1, <1>2
  <2>2. ASSUME NEW refs, NEW idx
        PROVE  L!Pointers(refs, idx)' = L!Pointers(refs, idx)
    BY DEF L!Pointers
  <2>3. L!Pointers(L!Refs, L!Words(process, L!Selected))' = L!Pointers(L!Refs, L!Words(process, L!Selected))
    BY <1>1, <2>1 DEF L!Pointers
  <2>4. L!Pointers(L!Refs, cache.entries)' = L!Pointers(L!Refs, cache.entries)
    BY <1>1 DEF L!Pointers
  <2> QED BY <2>1, <2>3, <2>4 DEF LWhole
<1>4. ASSUME NEW i PROVE L!Harvest(i)' = L!Harvest(i)
  <2>1. L!Words(process, asked.tasks[i])' = L!Words(process, asked.tasks[i])
    BY DEF L!Words
  <2>2. L!Pointers(L!Refs, L!Words(process, asked.tasks[i]))' =
        L!Pointers(L!Refs, L!Words(process, asked.tasks[i]))
    BY <1>1, <2>1 DEF L!Pointers
  <2>3. L!Pointers({L!Items[i]}, cache.entries)' = L!Pointers({L!Items[i]}, cache.entries)
    BY <1>1 DEF L!Pointers
  <2> QED BY <2>1, <2>2, <2>3 DEF L!Harvest
<1>5. \A cells, n : RefsOf(cells, n)' = RefsOf(cells, n)
  BY DEF RefsOf, ChainsOf, ChainOf, LeadsBy, L!Offset
<1> QED BY <1>1, <1>2, <1>3, <1>4, <1>5

LEMMA InGathered ==
  ASSUME DOMAIN found = Workers
  PROVE  \A x : x \in L!Gathered <=> \E w \in Workers : x \in found[w]
<1>1. L!Gathered = UNION {found[w] : w \in Workers}
  BY Library DEF L!Gathered
<1> QED BY <1>1

LEMMA LevelsTyped == LTypes => L!TypeOK
<1>1. LIndex => cache.strict \in BOOLEAN /\ cache.whole \in BOOLEAN
  BY DEF LIndex, Caches
<1> QED BY <1>1, Library, Zenon DEF L!TypeOK, LTypes, LBasic, LWorkers

LEMMA HeightFacts ==
  /\ Height \in Nat /\ Height > 0 /\ FetchSize \in Nat /\ FetchSize > 0
  /\ Reach \in Nat /\ Limit \in Nat
  /\ Cardinality(Workers) \in Nat /\ Cardinality(Workers) > 0
<1>1. Cardinality(Workers) \in Nat /\ (Cardinality(Workers) = 0 <=> Workers = {})
  BY LevelsAssumption, FS_CardinalityType, FS_EmptySet
<1> QED BY <1>1, LevelsAssumption

-----------------------------------------------------------------------------
(* Every action keeps the invariant.  First those that no worker takes.     *)

LEMMA LAttach ==
  ASSUME LInv, NEW p \in Processes, L!Attach(p)
  PROVE  LInv'
<1> USE DEF L!Attach, L!Resting, L!index, L!levelVars, L!queue, L!pool
<1>1. LBasic' /\ LIndex' /\ LWorkers'
  BY DEF LInv, LTypes, LBasic, LIndex, Caches, LWorkers, MemoryOK, L!Words
<1>2. LPlace'
  BY DEF LInv, LPlace, Passing, Early
<1>3. LPool' /\ LQueue' /\ LCache' /\ LLevels'
  BY DEF LInv, LPool, LQueue, LCache, LLevels, Passing, L!Words
<1> QED BY <1>1, <1>2, <1>3 DEF LInv, LTypes

LEMMA SameWords ==
  ASSUME UNCHANGED <<process, memory>>
  PROVE  /\ \A p, cells : L!Words(p, cells)' = L!Words(p, cells)
         /\ L!Words(process, Cells)' = L!Words(process, Cells)
         /\ \A cells, n : RefsOf(cells, n)' = RefsOf(cells, n)
         /\ MemoryOK' = MemoryOK
BY DEF L!Words, RefsOf, ChainsOf, ChainOf, LeadsBy, L!Offset, MemoryOK

(* A step of the workers that finds nothing missing. *)
LEMMA SameLevels ==
  ASSUME LInv,
         UNCHANGED <<job, asked, process, memory, cache, fetch, direct, reached, nodes, error, gaps>>
  PROVE  LIndex' /\ LCache' /\ LLevels' /\ (stop' \in BOOLEAN => LBasic')
<1>0. LBasic /\ LIndex /\ LCache /\ LLevels
  BY DEF LInv, LTypes
<1>1. L!Refs' = L!Refs /\ L!Searched' = L!Searched
  BY DEF L!Refs, L!Searched, L!Selected
<1>2. LIndex'
  BY <1>0, SameWords DEF LIndex
<1>3. LCache'
  BY <1>0, SameWords DEF LCache
<1>4. LLevels'
  BY <1>0, <1>1, SameWords DEF LLevels
<1>5. stop' \in BOOLEAN => LBasic'
  BY <1>0, SameWords DEF LBasic
<1> QED BY <1>2, <1>3, <1>4, <1>5

LEMMA LScan ==
  ASSUME LInv, NEW freeze \in BOOLEAN, NEW useIndex \in BOOLEAN, NEW tasks \in Selections,
         L!Scan(freeze, useIndex, tasks)
  PROVE  LInv'
<1> USE SameWords DEF L!Scan, L!Resting, L!index, L!levelVars, L!queue, L!pool, L!CachedOk
<1>1. LBasic'
  <2>1. job' \in {"connect", "levels", "build"}
    BY Zenon
  <2>2. MemoryOK' /\ asked' \in [freeze : BOOLEAN, index : BOOLEAN, tasks : Seq(SUBSET Cells)]
    BY LevelsAssumption DEF LInv, LTypes, LBasic
  <2>0. direct' = FALSE /\ stop' = FALSE /\ error' = FALSE /\ gaps' = FALSE
        /\ reached' = 0 /\ nodes' = {}
    OBVIOUS
  <2>3. direct' \in BOOLEAN /\ stop' \in BOOLEAN /\ error' \in BOOLEAN /\ gaps' \in BOOLEAN
    BY ONLY <2>0, Zenon
  <2>4. reached' \in 0 .. Height /\ IsFiniteSet(nodes')
    BY ONLY <2>0, FS_EmptySet, HeightFacts
  <2> QED BY ONLY <2>1, <2>2, <2>3, <2>4 DEF LBasic
<1>2. LIndex'
  BY DEF LInv, LTypes, LBasic, LIndex, Caches
<1>3. LWorkers'
  <2>1. \A w \in Workers : IsFiniteSet(found'[w])
    BY FS_EmptySet
  <2> QED BY <2>1, HeightFacts DEF LInv, LTypes, LBasic, LWorkers
<1>4. LPlace'
  BY DEF LInv, LPlace, Passing, Early
<1>5. LPool'
  BY HeightFacts DEF LPool
<1>6. LQueue' /\ LLevels'
  BY DEF LQueue, LLevels, Passing
<1>7. LCache'
  BY DEF LInv, LCache
<1> QED BY <1>1, <1>2, <1>3, <1>4, <1>5, <1>6, <1>7 DEF LInv, LTypes

LEMMA LBuildFails ==
  ASSUME LInv, L!BuildFails
  PROVE  LInv'
<1> USE SameWords DEF L!BuildFails, L!index, L!levelVars, L!queue, L!pool
<1>1. LBasic' /\ LIndex' /\ LWorkers'
  BY DEF LInv, LTypes, LBasic, LIndex, Caches, LWorkers
<1>2. LPlace' /\ LPool' /\ LQueue' /\ LLevels' /\ LCache'
  BY DEF LInv, LPlace, LPool, LQueue, LLevels, LCache, Passing, Early
<1> QED BY <1>1, <1>2 DEF LInv, LTypes

LEMMA LFetchFails ==
  ASSUME LInv, L!FetchFails
  PROVE  LInv'
<1> USE SameWords DEF L!FetchFails, L!index, L!levelVars, L!queue, L!pool
<1>1. LBasic' /\ LIndex' /\ LWorkers'
  BY DEF LInv, LTypes, LBasic, LIndex, Caches, LWorkers
<1>2. LPlace' /\ LPool' /\ LQueue' /\ LLevels' /\ LCache'
  BY DEF LInv, LPlace, LPool, LQueue, LLevels, LCache, Passing, Early
<1> QED BY <1>1, <1>2 DEF LInv, LTypes

LEMMA WordsTyped ==
  ASSUME MemoryOK
  PROVE  L!Words(process, Cells) \subseteq [value : Int, address : Cells]
BY MemoryTyped DEF L!Words

LEMMA LAgentBuilds ==
  ASSUME LInv, NEW S \in SUBSET L!Words(process, Cells), L!AgentBuilds(S)
  PROVE  LInv'
<1> USE SameWords DEF L!AgentBuilds, L!index, L!levelVars, L!queue, L!pool
<1>0. MemoryOK /\ IsFiniteSet(S) /\ cache' = [cache EXCEPT !.entries = {}, !.whole = FALSE]
  BY WordsFinite, FS_Subset DEF LInv, LTypes, LBasic
<1> DEFINE s == ListOf(S)
<1>1. /\ s \in Seq(S) /\ Len(s) \in Nat /\ \A i \in 1 .. Len(s) : s[i] \in S
      /\ \A e \in S : \E i \in 1 .. Len(s) : s[i] = e
  BY <1>0, ListOfSet
<1>2. fetch' = s
  BY Library
<1> HIDE DEF s
<1>3. fetch' \in Seq(L!Words(process, Cells))
  <2>1. s \in Seq(L!Words(process, Cells))
    BY <1>1
  <2> QED BY <1>2, <2>1
<1>4. LBasic'
  BY DEF LInv, LTypes, LBasic
<1>5. LIndex'
  BY <1>0, <1>3, FS_EmptySet DEF LInv, LTypes, LIndex, Caches
<1>6. LWorkers'
  BY DEF LInv, LTypes, LWorkers
<1>7. LPlace' /\ LPool' /\ LQueue' /\ LLevels'
  BY DEF LInv, LPlace, LPool, LQueue, LLevels, Passing, Early
<1>8. LCache'
  <2>1. {fetch'[i] : i \in 1 .. Len(fetch')} = S
    BY <1>1, <1>2
  <2>2. cache'.entries = {} /\ ~cache'.whole
    BY <1>0 DEF LInv, LTypes, LIndex, Caches
  <2>3. ~gaps' => S = L!Words(process, Cells)
    OBVIOUS
  <2>4. job' = "fetch"
    OBVIOUS
  <2> QED BY <2>1, <2>2, <2>3, <2>4 DEF LCache
<1> QED BY <1>4, <1>5, <1>6, <1>7, <1>8 DEF LInv, LTypes

LEMMA LCheck ==
  ASSUME LInv, L!Check
  PROVE  LInv'
<1> USE SameWords DEF L!Check, L!index, L!levelVars, L!queue, L!pool
<1>1. LBasic' /\ LIndex' /\ LWorkers'
  <2>1. LBasic /\ LIndex /\ LWorkers /\ job' \in {"local", "levels"} /\ gaps' \in {FALSE, gaps}
    BY DEF LInv, LTypes
  <2>2. gaps' \in BOOLEAN
    BY <2>1, Zenon DEF LBasic
  <2>3. at' \in [Workers -> {"wait", "work", "item", "end"}]
    BY <2>1, Zenon DEF LWorkers
  <2>4. LBasic'
    BY <2>1, <2>2 DEF LBasic
  <2>5. LIndex'
    BY <2>1 DEF LIndex
  <2>6. LWorkers'
    BY <2>1, <2>3 DEF LWorkers
  <2> QED BY <2>4, <2>5, <2>6
<1>2. LPlace' /\ LPool' /\ LLevels'
  BY DEF LInv, LPlace, LPool, LLevels, Passing, Early
<1>3. LQueue'
  <2>1. CASE job' = "levels"
    BY <2>1 DEF LQueue, Passing
  <2>2. CASE job' = "local"
    <3>1. L!Items' = asked.tasks
      BY <2>2 DEF L!Items
    <3>2. taken' = 0 /\ ~stop' /\ at' = [w \in Workers |-> "work"]
          /\ \A w \in Workers : item'[w] = 0 /\ found'[w] = {}
      BY <2>2 DEF LInv, LPlace
    <3> QED BY <2>2, <3>1, <3>2, TasksFacts DEF LInv, LTypes, LQueue, Passing, Through
  <2> QED BY <2>1, <2>2
<1>4. LCache'
  BY DEF LInv, LCache
<1> QED BY <1>1, <1>2, <1>3, <1>4 DEF LInv, LTypes

LEMMA LLookup ==
  ASSUME LInv, L!Lookup
  PROVE  LInv'
<1> USE SameWords DEF L!Lookup, L!index, L!levelVars, L!queue, L!pool
<1>1. LBasic' /\ LIndex' /\ LWorkers'
  BY DEF LInv, LTypes, LBasic, LIndex, Caches, LWorkers
<1>2. LPlace' /\ LPool' /\ LQueue'
  BY HeightFacts DEF LInv, LPlace, LPool, LQueue, Passing, Early
<1>3. LLevels'
  BY DEF LInv, LPlace, LLevels, L!Refs, RefsOf, Early
<1>4. LCache'
  BY DEF LInv, LCache
<1> QED BY <1>1, <1>2, <1>3, <1>4 DEF LInv, LTypes

LEMMA LConnect ==
  ASSUME LInv, NEW ok \in BOOLEAN, L!Connect(ok)
  PROVE  LInv'
<1> USE SameWords DEF L!Connect, L!index, L!levelVars, L!queue, L!pool
<1>1. LBasic' /\ LIndex' /\ LWorkers'
  BY ZenonT(40) DEF LInv, LTypes, LBasic, LIndex, Caches, LWorkers
<1>2. LPlace' /\ LPool' /\ LQueue'
  BY HeightFacts DEF LInv, LPlace, LPool, LQueue, Passing, Early
<1>3. LLevels'
  BY DEF LInv, LPlace, LLevels, L!Refs, RefsOf, Early
<1>4. LCache'
  BY DEF LInv, LCache
<1> QED BY <1>1, <1>2, <1>3, <1>4 DEF LInv, LTypes

(* A page and what is left after it are the list. *)
Members(l) == {l[i] : i \in 1 .. Len(l)}

LEMMA Pages ==
  ASSUME NEW W, NEW s \in Seq(W), NEW k \in Nat, k <= Len(s)
  PROVE  LET page == SubSeq(s, 1, k)
             rest == SubSeq(s, k + 1, Len(s))
         IN  /\ page \in Seq(W) /\ rest \in Seq(W) /\ IsFiniteSet(Members(page))
             /\ Members(page) \subseteq W
             /\ Members(page) \cup Members(rest) = Members(s)
             /\ k = Len(s) => Members(page) = Members(s)
             /\ \A l \in Seq(W) : {l[i] : i \in DOMAIN l} = Members(l)
<1> DEFINE page == SubSeq(s, 1, k)
           rest == SubSeq(s, k + 1, Len(s))
<1>1. /\ page \in Seq(W) /\ Len(page) = k
      /\ \A i \in 1 .. k : page[i] = s[i]
  OBVIOUS
<1>2. /\ rest \in Seq(W) /\ Len(rest) = Len(s) - k
      /\ \A i \in 1 .. Len(s) - k : rest[i] = s[i + k]
  OBVIOUS
<1> HIDE DEF page, rest
<1>3. Members(page) \subseteq W
  BY <1>1 DEF Members
<1>4. IsFiniteSet(Members(page))
  <2>1. DOMAIN page = 1 .. k
    BY <1>1
  <2>2. IsFiniteSet({page[i] : i \in 1 .. k})
    BY <2>1, UpTo, ImageFinite
  <2> QED BY <1>1, <2>2 DEF Members
<1>5. Members(page) \cup Members(rest) = Members(s)
  <2>1. \A i \in 1 .. Len(s) : i \in 1 .. k \/ (i - k \in 1 .. Len(s) - k /\ i = (i - k) + k)
    OBVIOUS
  <2>2. \A i \in 1 .. Len(s) : s[i] \in Members(page) \cup Members(rest)
    <3> TAKE i \in 1 .. Len(s)
    <3>1. CASE i \in 1 .. k
      BY <1>1, <3>1 DEF Members
    <3>2. CASE i - k \in 1 .. Len(s) - k
      <4>1. rest[i - k] = s[i] /\ rest[i - k] \in Members(rest)
        BY <1>2, <3>2 DEF Members
      <4> QED BY <4>1
    <3> QED BY <2>1, <3>1, <3>2
  <2>3. \A i \in 1 .. k : page[i] \in Members(s)
    BY <1>1 DEF Members
  <2>4. \A i \in 1 .. Len(s) - k : rest[i] \in Members(s)
    <3> TAKE i \in 1 .. Len(s) - k
    <3>1. i + k \in 1 .. Len(s) /\ rest[i] = s[i + k]
      BY <1>2
    <3> QED BY <3>1 DEF Members
  <2> QED BY <1>1, <1>2, <2>2, <2>3, <2>4, ZenonT(40) DEF Members
<1>6. k = Len(s) => Members(page) = Members(s)
  BY <1>1 DEF Members
<1>7. \A l \in Seq(W) : {l[i] : i \in DOMAIN l} = Members(l)
  BY DEF Members
<1> QED BY <1>1, <1>2, <1>3, <1>4, <1>5, <1>6, <1>7 DEF page, rest

LEMMA LFetchPage ==
  ASSUME LInv, L!FetchPage
  PROVE  LInv'
<1> USE SameWords DEF L!index, L!levelVars, L!queue, L!pool
<1> DEFINE n == IF FetchSize < Len(fetch) THEN FetchSize ELSE Len(fetch)
           page == SubSeq(fetch, 1, n)
           rest == SubSeq(fetch, n + 1, Len(fetch))
           W == L!Words(process, Cells)
           all == cache.entries \cup Members(page)
           flag == Len(fetch) > FetchSize
<1>0. /\ job = "fetch"
      /\ UNCHANGED <<asked, process, memory, direct, reached, nodes, at, item, taken, found,
                     total, stop, error, generation, seen, waiting, gaps>>
  BY DEF L!FetchPage
<1>1. fetch \in Seq(W) /\ Len(fetch) \in Nat /\ MemoryOK
  BY <1>0 DEF LInv, LTypes, LIndex, Caches, LBasic
<1>2. n \in Nat /\ n <= Len(fetch) /\ (flag => n = FetchSize) /\ (~flag => n = Len(fetch))
  BY <1>1, HeightFacts
<1> HIDE DEF n, W
<1>3. /\ page \in Seq(W) /\ rest \in Seq(W) /\ IsFiniteSet(Members(page))
      /\ Members(page) \subseteq W
      /\ Members(page) \cup Members(rest) = Members(fetch)
      /\ ~flag => Members(page) = Members(fetch)
      /\ L!Range(page) = Members(page)
  BY <1>1, <1>2, Pages, Library
<1>4. /\ flag => cache' = [cache EXCEPT !.entries = all] /\ fetch' = rest /\ job' = job
      /\ ~flag => /\ cache' = [entries |-> all, process |-> process,
                               strict |-> asked.freeze, cells |-> Cells, whole |-> ~gaps]
                  /\ fetch' = <<>> /\ job' = "levels"
  BY <1>2, <1>3, Zenon DEF L!FetchPage, n
<1> HIDE DEF page, rest, flag
<1>5. LBasic' /\ LWorkers'
  BY <1>0, <1>4 DEF LInv, LTypes, LBasic, LWorkers
<1>6. IsFiniteSet(all) /\ all \subseteq W
  <2>1. IsFiniteSet(cache.entries) /\ cache.entries \subseteq W
    BY <1>0 DEF LInv, LTypes, LIndex, Caches, LCache, W
  <2> QED BY <1>3, <2>1, FS_Union
<1> HIDE DEF all
<1>7. W' = W /\ W \subseteq [value : Int, address : Cells]
  BY <1>0, <1>1, WordsTyped DEF W
<1>8. cache' \in Caches /\ cache'.entries = all
  <2>1. all \in SUBSET [value : Int, address : Cells]
    BY <1>6, <1>7
  <2>2. CASE flag
    <3>1. cache' = [cache EXCEPT !.entries = all]
      BY <1>4, <2>2
    <3>2. cache \in Caches
      BY DEF LInv, LTypes, LIndex, Caches
    <3> QED BY ONLY <2>1, <3>1, <3>2 DEF Caches
  <2>3. CASE ~flag
    <3>1. asked.freeze \in BOOLEAN /\ (~gaps) \in BOOLEAN /\ process \in Processes \cup {0}
      BY <1>1 DEF LInv, LTypes, LBasic, MemoryOK
    <3>2. cache' = [entries |-> all, process |-> process, strict |-> asked.freeze,
                    cells |-> Cells, whole |-> ~gaps]
      BY <1>4, <2>3
    <3> QED BY ONLY <2>1, <3>1, <3>2 DEF Caches
  <2> QED BY <2>2, <2>3
<1>9. LIndex'
  <2>1. IF job' = "fetch" THEN fetch' \in Seq(W) ELSE fetch' = <<>>
    BY <1>0, <1>3, <1>4
  <2>2. IF job' = "fetch" THEN fetch' \in Seq(W') ELSE fetch' = <<>>
    BY <2>1, <1>7
  <2> QED BY <1>6, <1>8, <2>2 DEF LIndex, Caches, W
<1>10. LPlace' /\ LPool' /\ LQueue' /\ LLevels'
  BY <1>0, <1>4 DEF LInv, LPlace, LPool, LQueue, LLevels, Passing, Early
<1>11. LCache'
  <2>1. ~gaps => cache.entries \cup Members(fetch) = W
    BY <1>0 DEF LInv, LCache, W, Members
  <2>2. CASE flag
    <3>1. ~cache'.whole /\ job' = "fetch"
      BY <1>0, <1>4, <2>2 DEF LInv, LCache, LTypes, LIndex, Caches
    <3>2. ~gaps => all \cup Members(fetch') = W
      BY <1>3, <1>4, <2>1, <2>2 DEF all
    <3> QED BY <1>0, <1>6, <1>7, <1>8, <3>1, <3>2 DEF LCache, W, Members
  <2>3. CASE ~flag
    <3>1. /\ cache'.process = process /\ cache'.whole = ~gaps /\ cache'.cells = Cells
          /\ job' = "levels"
      BY <1>4, <2>3
    <3>2. ~gaps => all = W
      BY <1>3, <2>1, <2>3 DEF all
    <3>3. process \in Processes
      BY <1>1 DEF MemoryOK
    <3>4. L!Words(cache.process, cache.cells)' = W
      BY <1>0, <3>1 DEF L!Words, W
    <3>5. (cache.whole => cache.entries = L!Words(cache.process, cache.cells))'
      BY <1>0, <1>8, <3>1, <3>2, <3>4
    <3> QED BY <1>0, <3>1, <3>3, <3>5 DEF LCache
  <2> QED BY <2>2, <2>3
<1> QED BY <1>5, <1>9, <1>10, <1>11 DEF LInv, LTypes

-----------------------------------------------------------------------------
(* The passes over the queue. *)

LEMMA LEndLocal ==
  ASSUME LInv, L!EndLocal
  PROVE  LInv'
<1> USE SameWords DEF L!index, L!levelVars, L!queue, L!pool
<1>0. /\ job = "local" /\ Passing /\ LBasic /\ LIndex /\ LWorkers /\ LQueue
      /\ \A w \in Workers : at[w] = "end"
      /\ UNCHANGED <<asked, process, memory, fetch, direct, reached, nodes, item, taken, found,
                     total, stop, error, generation, seen, waiting, gaps>>
      /\ at' = [w \in Workers |-> "wait"]
      /\ job' \in {"levels", "failed"}
      /\ job' = "failed" => UNCHANGED cache
      /\ job' = "levels" =>
           /\ ~error /\ ~(total >= Limit)
           /\ cache' = [entries |-> L!Gathered, process |-> process,
                        strict |-> asked.freeze, cells |-> L!Selected, whole |-> ~gaps]
  BY DEF L!EndLocal, LInv, LTypes, Passing
<1>1. L!Gathered \subseteq L!Words(process, L!Selected) /\ IsFiniteSet(L!Gathered)
  <2>1. \A w \in Workers : found[w] \subseteq L!Words(process, L!Selected)
    BY <1>0 DEF LQueue, LWhole
  <2>2. L!Gathered \subseteq L!Words(process, L!Selected)
    BY <1>0, <2>1, InGathered DEF LWorkers
  <2> QED BY <1>0, <2>2, TasksFacts, WordsFinite, FS_Subset
<1>2. LBasic' /\ LWorkers' /\ LPlace' /\ LPool'
  BY <1>0 DEF LInv, LTypes, LBasic, LWorkers, LPlace, LPool, Passing, Early
<1>3. LIndex'
  <2>1. CASE job' = "failed"
    BY <1>0, <2>1 DEF LIndex, Caches
  <2>2. CASE job' = "levels"
    <3>1. asked.freeze \in BOOLEAN /\ (~gaps) \in BOOLEAN /\ process \in Processes \cup {0}
      BY <1>0 DEF LBasic, MemoryOK
    <3>2. L!Gathered \in SUBSET [value : Int, address : Cells]
      <4>1. L!Words(process, L!Selected) \subseteq L!Words(process, Cells)
        BY <1>0, TasksFacts DEF L!Words
      <4> QED BY <1>0, <1>1, <4>1, WordsTyped DEF LBasic
    <3>3. cache' = [entries |-> L!Gathered, process |-> process,
                    strict |-> asked.freeze, cells |-> L!Selected, whole |-> ~gaps]
      BY <1>0, <2>2
    <3>4. cache' \in Caches /\ cache'.entries = L!Gathered
      <4>1. L!Selected \in SUBSET Cells
        BY <1>0, TasksFacts
      <4> QED BY ONLY <3>1, <3>2, <3>3, <4>1 DEF Caches
    <3>5. fetch' = <<>> /\ job' # "fetch"
      BY <1>0, <2>2 DEF LIndex, Caches
    <3> QED BY <1>1, <3>4, <3>5 DEF LIndex, Caches
  <2> QED BY <1>0, <2>1, <2>2
<1>4. LQueue' /\ LLevels'
  BY <1>0 DEF LQueue, LLevels, Passing
<1>5. LCache'
  <2>1. CASE job' = "failed"
    BY <1>0, <2>1 DEF LInv, LCache
  <2>2. CASE job' = "levels"
    <3>1. ~gaps => L!Gathered = {} \/ L!Gathered = L!Words(process, L!Selected)
      <4> SUFFICES ASSUME ~gaps, L!Gathered # {}
                   PROVE  L!Words(process, L!Selected) \subseteq L!Gathered
        BY <1>1
      <4>1. PICK w \in Workers : found[w] # {}
        BY <1>0, InGathered DEF LWorkers
      <4>2. item[w] # 0 /\ Through(w)
        BY <1>0, <4>1 DEF LQueue, Through
      <4>3. ~stop
        BY <1>0, <2>2, HeightFacts DEF LQueue, LWorkers
      <4>4. taken = Len(L!Items)
        BY <1>0, <4>2, <4>3 DEF LQueue
      <4>5. \A i \in 1 .. taken : L!Harvest(i) \subseteq L!Gathered
        BY <1>0 DEF LQueue, Held
      <4>6. L!Words(process, L!Selected) = LWhole
        BY <1>0 DEF LWhole
      <4> QED BY <1>0, <4>4, <4>5, <4>6, Harvests DEF LBasic, LIndex, Caches
    <3>2. /\ cache'.entries = L!Gathered /\ cache'.process = process
          /\ cache'.whole = ~gaps /\ process \in Processes /\ cache'.cells = L!Selected
      BY <1>0, <2>2 DEF LBasic, MemoryOK
    <3>3. L!Words(cache.process, cache.cells)' = L!Words(process, L!Selected)
      BY <1>0, <3>2 DEF L!Words
    <3>4. (cache.whole /\ cache.entries # {} => cache.entries = L!Words(cache.process, cache.cells))'
      BY <3>1, <3>2, <3>3
    <3> QED BY <1>0, <2>2, <3>2, <3>4 DEF LCache
  <2> QED BY <1>0, <2>1, <2>2
<1> QED BY <1>2, <1>3, <1>4, <1>5 DEF LInv, LTypes

LEMMA LRun ==
  ASSUME LInv, L!Run
  PROVE  LInv'
<1> USE SameWords DEF L!index, L!levelVars, L!queue, L!pool
<1>0. /\ job = "level" /\ job' = "run" /\ LBasic /\ LIndex /\ LWorkers /\ LPlace /\ LPool
      /\ UNCHANGED <<asked, process, memory, cache, fetch, direct, reached, nodes, at, error,
                     seen, gaps>>
      /\ generation' = generation + 1 /\ waiting' = Cardinality(Workers)
      /\ taken' = 0 /\ found' = [w \in Workers |-> {}] /\ total' = 0 /\ stop' = FALSE
      /\ item' = [w \in Workers |-> 0]
      /\ generation = reached /\ reached < Height /\ \A w \in Workers : at[w] = "wait"
  BY Library DEF L!Run, LInv, LTypes, LPlace, Passing
<1>1. LBasic'
  <2>1. stop' \in BOOLEAN
    BY ONLY <1>0, Zenon
  <2> QED BY <1>0, <2>1 DEF LBasic
<1>2. LIndex'
  BY <1>0 DEF LIndex, Caches
<1>3. LWorkers'
  <2>1. \A w \in Workers : IsFiniteSet(found'[w])
    BY <1>0, FS_EmptySet
  <2> QED BY <1>0, <2>1, HeightFacts DEF LWorkers, LBasic
<1>4. LPlace'
  BY <1>0 DEF LPlace, Passing, Early
<1>5. LPool'
  <2>1. \A w \in Workers : seen[w] \in Nat /\ seen[w] <= generation /\ generation \in Nat
    BY <1>0 DEF LWorkers, LPool
  <2>2. {w \in Workers : at'[w] # "wait" \/ seen'[w] # generation'} = Workers
    BY <1>0, <2>1
  <2>3. waiting' = Cardinality({w \in Workers : at'[w] # "wait" \/ seen'[w] # generation'})
    BY <1>0, <2>2
  <2>4. \A w \in Workers : seen'[w] <= generation' /\ at'[w] = "wait"
    BY <1>0, <2>1
  <2> QED BY <1>0, <2>3, <2>4, Zenon DEF LPool
<1>6. LQueue'
  <2>1. Len(L!Items)' \in Nat
    <3>1. L!Refs' = L!Refs /\ IsFiniteSet(L!Refs)
      BY <1>0, RefsFinite DEF L!Refs, LBasic
    <3>2. L!Items' = asked.tasks \/ L!Items' = ListOf(L!Refs)
      BY <1>0, <3>1, Library DEF L!Items
    <3>3. Len(asked.tasks) \in Nat /\ Len(ListOf(L!Refs)) \in Nat
      BY <1>0, <3>1, TasksFacts, ListOfSet
    <3> QED BY <3>2, <3>3
  <2>2. \A w \in Workers : seen'[w] # generation' /\ at'[w] = "wait"
    BY <1>0 DEF LWorkers, LPool
  <2> QED BY <1>0, <2>1, <2>2 DEF LQueue, Through
<1>7. LCache'
  BY <1>0 DEF LInv, LCache
<1>8. LLevels'
  <2>1. L!Refs' = L!Refs /\ L!Searched' = L!Searched
    BY <1>0 DEF L!Refs, L!Searched, L!Selected
  <2> QED BY <1>0, <2>1 DEF LInv, LLevels
<1> QED BY <1>1, <1>2, <1>3, <1>4, <1>5, <1>6, <1>7, <1>8 DEF LInv, LTypes

(* At the end of a level all workers are through with it. *)
LEMMA LEndLevel ==
  ASSUME LInv, L!EndLevel
  PROVE  LInv'
<1> USE SameWords DEF L!index, L!levelVars, L!queue, L!pool
<1>0. /\ job = "run" /\ Passing /\ LBasic /\ LIndex /\ LWorkers /\ LPool /\ LQueue /\ LCache
      /\ LLevels /\ LPlace
      /\ waiting = 0
      /\ UNCHANGED <<asked, process, memory, cache, fetch, direct, at, item, taken, found,
                     total, stop, error, generation, seen, waiting, gaps>>
      /\ job' \in {"failed", "level", "done"}
      /\ job' = "failed" => UNCHANGED <<reached, nodes>>
      /\ job' # "failed" =>
           /\ ~error /\ ~(total >= Limit) /\ nodes' = L!Gathered /\ reached' = reached + 1
           /\ job' = IF reached' = Height THEN "done" ELSE "level"
  BY DEF L!EndLevel, L!AllDone, LInv, LTypes, Passing
<1>1. \A w \in Workers : at[w] = "wait" /\ seen[w] = generation
  <2> DEFINE busy == {w \in Workers : at[w] # "wait" \/ seen[w] # generation}
  <2>1. Cardinality(busy) = 0
    BY <1>0 DEF LPool
  <2>2. busy = {}
    BY <2>1, FS_EmptySet, FS_Subset, LevelsAssumption
  <2> QED BY <2>2
<1>2. IsFiniteSet(L!Gathered)
  <2>2. IsFiniteSet({found[w] : w \in Workers})
    BY <1>0, ImageFinite, LevelsAssumption DEF LWorkers
  <2>3. L!Gathered = UNION {found[w] : w \in Workers}
    BY <1>0, Library DEF L!Gathered, LWorkers
  <2> QED BY <1>0, <2>2, <2>3, FS_UNION DEF LWorkers
<1>3. LBasic'
  BY <1>0, <1>2, HeightFacts DEF LBasic, LPlace
<1>4. LIndex'
  BY <1>0 DEF LIndex, Caches
<1>5. LWorkers'
  BY <1>0, HeightFacts DEF LWorkers
<1>6. LPlace'
  BY <1>0, <1>1, HeightFacts DEF LPlace, LBasic, LPool, Passing, Early
<1>7. LPool' /\ LQueue'
  BY <1>0 DEF LPool, LQueue, Passing
<1>8. LCache'
  BY <1>0 DEF LCache
<1>9. LLevels'
  <2> SUFFICES ASSUME job' # "failed"
               PROVE  /\ ~gaps => L!Refs' = RefsOf(L!Searched', reached + 1)
                      /\ direct /\ asked.freeze /\ gaps => error
    BY <1>0, SameWords DEF LLevels
  <2>1. reached + 1 # 0 /\ reached \in Nat
    BY <1>0, HeightFacts DEF LBasic
  <2>2. L!Refs' = L!Gathered
    BY <1>0, <2>1 DEF L!Refs
  <2>3. ASSUME ~gaps
        PROVE  L!Gathered = ChainsOf(L!Searched, reached + 1)
    <3>1. L!Refs = RefsOf(L!Searched, reached) /\ MemoryOK
      BY <1>0, <2>3 DEF LLevels, LBasic
    <3>2. LWhole = L!Pointers(RefsOf(L!Searched, reached), L!Words(process, L!Searched))
      BY <1>0, <2>3, <3>1 DEF LCache, LWhole, L!Searched
    <3>3. LWhole = ChainsOf(L!Searched, reached + 1)
      <4>1. L!Searched \subseteq Cells
        BY <1>0, TasksFacts DEF L!Searched, LIndex, Caches, Caches
      <4> QED BY <2>1, <3>1, <3>2, <4>1, NextLevel
    <3>4. L!Gathered \subseteq LWhole
      BY <1>0, InGathered DEF LQueue, LWorkers
    <3>5. taken = Len(L!Items)
      <4>1. PICK w \in Workers : TRUE
        BY LevelsAssumption
      <4>2. Through(w)
        BY <1>0, <1>1 DEF Through
      <4>3. ~stop
        BY <1>0, HeightFacts DEF LQueue, LWorkers
      <4> QED BY <1>0, <4>2, <4>3 DEF LQueue
    <3>6. \A i \in 1 .. taken : L!Harvest(i) \subseteq L!Gathered
      BY <1>0, <1>1, <2>3 DEF LQueue, Held
    <3>7. LWhole \subseteq L!Gathered
      BY <1>0, <3>5, <3>6, Harvests DEF LBasic, LIndex, Caches
    <3> QED BY <3>3, <3>4, <3>7
  <2>4. direct /\ asked.freeze /\ gaps => error
    BY <1>0 DEF LLevels
  <2>5. L!Searched' = L!Searched
    BY <1>0 DEF L!Searched, L!Selected
  <2> QED BY <2>1, <2>2, <2>3, <2>4, <2>5 DEF RefsOf
<1> QED BY <1>3, <1>4, <1>5, <1>6, <1>7, <1>8, <1>9 DEF LInv, LTypes

-----------------------------------------------------------------------------
(* The workers. *)

LEMMA LTake ==
  ASSUME LInv, NEW w \in Workers, L!Take(w)
  PROVE  LInv'
<1> USE DEF L!index, L!levelVars, L!queue, L!pool
<1> DEFINE last == stop \/ taken >= Len(L!Items)
<1>0. /\ at[w] = "work" /\ Passing
      /\ LBasic /\ LIndex /\ LWorkers /\ LPool /\ LQueue /\ LPlace
      /\ UNCHANGED <<job, asked, process, memory, cache, fetch, direct, reached, nodes, found,
                     total, stop, error, generation, seen, waiting, gaps>>
      /\ last => at' = [at EXCEPT ![w] = "end"] /\ UNCHANGED <<item, taken>>
      /\ ~last => /\ taken' = taken + 1 /\ item' = [item EXCEPT ![w] = taken + 1]
                  /\ at' = [at EXCEPT ![w] = "item"]
  BY DEF L!Take, LInv, LTypes, Passing
<1>1. Len(L!Items) \in Nat
  BY <1>0, Harvests DEF LBasic, LIndex, Caches
<1>2. /\ L!Items' = L!Items /\ LWhole' = LWhole /\ L!Refs' = L!Refs
      /\ \A i : L!Harvest(i)' = L!Harvest(i)
  BY <1>0, SameHarvest
<1>3. LBasic' /\ LIndex' /\ LCache' /\ LLevels'
  BY <1>0, SameLevels DEF LBasic
<1>4. LWorkers'
  <2>1. CASE last
    BY <1>0, <2>1 DEF LWorkers
  <2>2. CASE ~last
    <3>1. taken' \in Nat /\ item' \in [Workers -> Nat]
      BY <1>0, <2>2 DEF LWorkers
    <3> QED BY <1>0, <2>2, <3>1 DEF LWorkers
  <2> QED BY <2>1, <2>2
<1>5. LPlace'
  BY <1>0 DEF LPlace, Passing, Early
<1>6. LPool'
  <2>1. job = "run" => {v \in Workers : at'[v] # "wait" \/ seen'[v] # generation'} =
                       {v \in Workers : at[v] # "wait" \/ seen[v] # generation}
    BY <1>0 DEF LWorkers
  <2> QED BY <1>0, <2>1 DEF LPool, LWorkers
<1> HIDE DEF last
<1>7. LQueue'
  <2>1. taken' <= Len(L!Items)'
    BY <1>0, <1>1, <1>2 DEF LQueue, LWorkers, last
  <2>2. ASSUME NEW v \in Workers
        PROVE  /\ item'[v] <= taken' /\ (at'[v] = "item" => item'[v] # 0)
               /\ item'[v] = 0 => found'[v] = {}
               /\ found'[v] \subseteq LWhole'
               /\ Through(v)' => stop' \/ taken' = Len(L!Items)' \/ (job' = "local" /\ item'[v] = 0)
    <3>1. CASE v # w
      <4>1. item'[v] = item[v] /\ at'[v] = at[v] /\ (Through(v)' <=> Through(v))
        BY <1>0, <3>1 DEF LWorkers, Through
      <4>2. taken = Len(L!Items) => last
        BY <1>1 DEF last
      <4> QED BY <1>0, <1>1, <1>2, <4>1, <4>2 DEF LQueue, LWorkers
    <3>2. CASE v = w /\ last
      BY <1>0, <1>1, <1>2, <3>2 DEF LQueue, LWorkers, last
    <3>3. CASE v = w /\ ~last
      BY <1>0, <1>1, <1>2, <3>3 DEF LQueue, LWorkers, Through
    <3> QED BY <3>1, <3>2, <3>3
  <2>3. ASSUME ~gaps', NEW i \in 1 .. taken'
        PROVE  Held(i)' \/ L!Harvest(i)' \subseteq L!Gathered'
    <3>1. CASE i \in 1 .. taken
      <4>1. Held(i) => Held(i)'
        BY <1>0 DEF Held, LWorkers
      <4>2. L!Gathered' = L!Gathered
        BY <1>0 DEF L!Gathered
      <4> QED BY <1>0, <1>2, <2>3, <3>1, <4>1, <4>2 DEF LQueue
    <3>2. CASE ~(i \in 1 .. taken)
      <4>1. ~last /\ i = taken'
        BY <1>0, <2>3, <3>2 DEF LWorkers
      <4> QED BY <1>0, <4>1 DEF Held, LWorkers
    <3> QED BY <3>1, <3>2
  <2>4. stop' => error' \/ total' > Limit
    BY <1>0 DEF LQueue
  <2> QED BY <2>1, <2>2, <2>3, <2>4 DEF LQueue
<1> QED BY <1>3, <1>4, <1>5, <1>6, <1>7 DEF LInv, LTypes

LEMMA LWork ==
  ASSUME LInv, NEW w \in Workers, L!Work(w)
  PROVE  LInv'
<1> USE DEF L!index, L!levelVars, L!queue, L!pool
<1> DEFINE H == L!Harvest(item[w])
<1>0. /\ at[w] = "item" /\ Passing
      /\ LBasic /\ LIndex /\ LWorkers /\ LPool /\ LQueue /\ LPlace
      /\ UNCHANGED <<job, asked, process, memory, cache, fetch, direct, reached, nodes, item,
                     taken, error, generation, seen, waiting, gaps>>
      /\ at' = [at EXCEPT ![w] = "work"] /\ found' = [found EXCEPT ![w] = @ \cup H]
      /\ total' = total + Cardinality(H) /\ stop' = (stop \/ total' > Limit)
  <2>1. Passing
    BY DEF L!Work, LInv, LPlace
  <2> QED BY <2>1, Library DEF L!Work, LInv, LTypes
<1>1. /\ Len(L!Items) \in Nat
      /\ \A i \in 1 .. Len(L!Items) : IsFiniteSet(L!Harvest(i)) /\ L!Harvest(i) \subseteq LWhole
  BY <1>0, Harvests DEF LBasic, LIndex, Caches
<1>2. /\ L!Items' = L!Items /\ LWhole' = LWhole /\ L!Refs' = L!Refs
      /\ \A i : L!Harvest(i)' = L!Harvest(i)
  BY <1>0, SameHarvest
<1>3. item[w] \in 1 .. Len(L!Items)
  BY <1>0, <1>1 DEF LQueue, LWorkers
<1>4. IsFiniteSet(H) /\ H \subseteq LWhole /\ Cardinality(H) \in Nat
  BY <1>1, <1>3, FS_CardinalityType
<1> HIDE DEF H
<1>5. LBasic'
  <2>1. stop' \in BOOLEAN
    BY ONLY <1>0, Zenon
  <2> QED BY <1>0, <2>1, SameWords DEF LBasic
<1>6. LIndex' /\ LCache' /\ LLevels'
  BY <1>0, SameLevels
<1>7. DOMAIN found' = Workers /\ \A v \in Workers : found'[v] = IF v = w THEN found[v] \cup H ELSE found[v]
  BY <1>0 DEF LWorkers
<1>8. LWorkers'
  <2>1. \A v \in Workers : IsFiniteSet(found'[v])
    BY <1>0, <1>4, <1>7, FS_Union DEF LWorkers
  <2>2. at' \in [Workers -> {"wait", "work", "item", "end"}]
    BY <1>0 DEF LWorkers
  <2>3. total' \in Nat /\ (waiting' # 0 => job' = "run")
    BY <1>0, <1>4 DEF LWorkers
  <2> QED BY <1>0, <1>7, <2>1, <2>2, <2>3 DEF LWorkers
<1>9. LPlace'
  BY <1>0 DEF LPlace, Passing, Early
<1>10. LPool'
  <2>1. job = "run" => {v \in Workers : at'[v] # "wait" \/ seen'[v] # generation'} =
                       {v \in Workers : at[v] # "wait" \/ seen[v] # generation}
    BY <1>0 DEF LWorkers
  <2> QED BY <1>0, <2>1 DEF LPool, LWorkers
<1>11. LQueue'
  <2>1. \A v \in Workers : at'[v] = IF v = w THEN "work" ELSE at[v]
    BY <1>0 DEF LWorkers
  <2>2. ASSUME NEW v \in Workers
        PROVE  /\ item'[v] <= taken' /\ (at'[v] = "item" => item'[v] # 0)
               /\ item'[v] = 0 => found'[v] = {}
               /\ found'[v] \subseteq LWhole'
               /\ Through(v)' => stop' \/ taken' = Len(L!Items)' \/ (job' = "local" /\ item'[v] = 0)
    <3>1. /\ item'[v] <= taken' /\ (at'[v] = "item" => item'[v] # 0)
          /\ item'[v] = 0 => v # w
      BY <1>0, <1>3, <2>1 DEF LQueue
    <3>2. found'[v] \subseteq LWhole' /\ (item'[v] = 0 => found'[v] = {})
      BY <1>0, <1>2, <1>4, <1>7, <3>1 DEF LQueue
    <3>3. Through(v)' => Through(v)
      BY <1>0, <2>1 DEF Through
    <3> QED BY <1>0, <1>2, <3>1, <3>2, <3>3 DEF LQueue
  <2>3. ASSUME ~gaps', NEW i \in 1 .. taken'
        PROVE  Held(i)' \/ L!Harvest(i)' \subseteq L!Gathered'
    <3>1. L!Gathered \subseteq L!Gathered' /\ H \subseteq L!Gathered'
      <4>1. L!Gathered' = UNION {found'[v] : v \in Workers}
        BY <1>7, Library DEF L!Gathered
      <4>2. L!Gathered = UNION {found[v] : v \in Workers}
        BY <1>0, Library DEF L!Gathered, LWorkers
      <4> QED BY <1>7, <4>1, <4>2
    <3>2. CASE i = item[w]
      BY <1>2, <3>1, <3>2 DEF H
    <3>3. CASE i # item[w]
      <4>1. Held(i) => Held(i)'
        BY <1>0, <2>1, <3>3 DEF Held
      <4> QED BY <1>0, <1>2, <2>3, <3>1, <4>1 DEF LQueue
    <3> QED BY <3>2, <3>3
  <2>4. stop' => error' \/ total' > Limit
    <3>1. total > Limit => total' > Limit
      BY <1>0, <1>4, HeightFacts DEF LWorkers
    <3>2. stop => error \/ total > Limit
      BY <1>0 DEF LQueue
    <3>3. stop' = (stop \/ total' > Limit) /\ error' = error
      BY <1>0
    <3> QED BY ONLY <3>1, <3>2, <3>3, Zenon
  <2>5. taken' <= Len(L!Items)'
    BY <1>0, <1>2 DEF LQueue
  <2> QED BY <2>2, <2>3, <2>4, <2>5 DEF LQueue
<1> QED BY <1>5, <1>6, <1>8, <1>9, <1>10, <1>11 DEF LInv, LTypes

LEMMA LReadFails ==
  ASSUME LInv, NEW w \in Workers, L!ReadFails(w)
  PROVE  LInv'
<1> USE DEF L!index, L!levelVars, L!queue, L!pool
<1>0. /\ at[w] = "item" /\ (job = "local" \/ direct) /\ Passing
      /\ LBasic /\ LIndex /\ LWorkers /\ LPool /\ LQueue /\ LPlace /\ LCache /\ LLevels
      /\ UNCHANGED <<job, asked, process, memory, cache, fetch, direct, reached, nodes, item,
                     taken, found, total, generation, seen, waiting>>
      /\ at' = [at EXCEPT ![w] = "work"] /\ gaps' = TRUE
      /\ stop' = (stop \/ asked.freeze) /\ error' = (error \/ asked.freeze)
  <2>1. Passing
    BY DEF L!ReadFails, LInv, LTypes, LWorkers, LPlace
  <2> QED BY <2>1 DEF L!ReadFails, LInv, LTypes
<1>1. /\ L!Items' = L!Items /\ LWhole' = LWhole /\ L!Refs' = L!Refs
  BY <1>0, SameHarvest
<1>2. LBasic'
  <2>1. stop' \in BOOLEAN /\ error' \in BOOLEAN /\ gaps' \in BOOLEAN
    BY ONLY <1>0, Zenon
  <2> QED BY <1>0, <2>1, SameWords DEF LBasic
<1>3. LIndex'
  BY <1>0, SameWords DEF LIndex, Caches
<1>4. LWorkers'
  BY <1>0 DEF LWorkers
<1>5. LPlace'
  BY <1>0 DEF LPlace, Passing, Early
<1>6. LPool'
  <2>1. job = "run" => {v \in Workers : at'[v] # "wait" \/ seen'[v] # generation'} =
                       {v \in Workers : at[v] # "wait" \/ seen[v] # generation}
    BY <1>0 DEF LWorkers
  <2> QED BY <1>0, <2>1 DEF LPool, LWorkers
<1>7. LCache'
  BY <1>0, SameWords DEF LCache, Passing
<1>8. LLevels'
  <2>1. direct /\ asked.freeze => error'
    BY ONLY <1>0, Zenon
  <2> QED BY <1>0, <2>1 DEF LLevels
<1>9. LQueue'
  <2>1. \A v \in Workers : at'[v] = IF v = w THEN "work" ELSE at[v]
    BY <1>0 DEF LWorkers
  <2>2. ASSUME NEW v \in Workers
        PROVE  /\ item'[v] <= taken' /\ (at'[v] = "item" => item'[v] # 0)
               /\ item'[v] = 0 => found'[v] = {}
               /\ found'[v] \subseteq LWhole'
               /\ Through(v)' => stop' \/ taken' = Len(L!Items)' \/ (job' = "local" /\ item'[v] = 0)
    <3>1. /\ item'[v] <= taken' /\ (at'[v] = "item" => item'[v] # 0)
          /\ item'[v] = 0 => found'[v] = {}
          /\ found'[v] \subseteq LWhole'
      BY <1>0, <1>1, <2>1 DEF LQueue
    <3>2. Through(v)' => Through(v)
      BY <1>0, <2>1 DEF Through
    <3>3. Through(v) => stop \/ taken = Len(L!Items) \/ (job = "local" /\ item[v] = 0)
      BY <1>0 DEF LQueue
    <3>4. stop => stop'
      BY ONLY <1>0, Zenon
    <3> QED BY <1>0, <1>1, <3>1, <3>2, <3>3, <3>4, Zenon
  <2>3. stop' => error' \/ total' > Limit
    <3>1. stop => error \/ total > Limit
      BY <1>0 DEF LQueue
    <3>2. stop' = (stop \/ asked.freeze) /\ error' = (error \/ asked.freeze) /\ total' = total
      BY <1>0
    <3> QED BY ONLY <3>1, <3>2, Zenon
  <2>4. taken' <= Len(L!Items)'
    BY <1>0, <1>1 DEF LQueue
  <2>5. gaps'
    BY <1>0
  <2> QED BY <2>2, <2>3, <2>4, <2>5, Zenon DEF LQueue
<1> QED BY <1>2, <1>3, <1>4, <1>5, <1>6, <1>7, <1>8, <1>9 DEF LInv, LTypes

(* What goes on around the items: a worker goes, wakes or waits again. *)
LEMMA LAround ==
  ASSUME LInv, Passing, NEW w \in Workers, NEW a \in {"wait", "work", "end"},
         at' = [at EXCEPT ![w] = a], at[w] # "item",
         UNCHANGED <<job, asked, process, memory, cache, fetch, direct, reached, nodes, item,
                     taken, found, total, stop, error, generation, gaps>>,
         Through(w)' => Through(w) \/ (job = "local" /\ item[w] = 0),
         \A v \in Workers : v # w => seen'[v] = seen[v]
  PROVE  LBasic' /\ LIndex' /\ LPlace' /\ LQueue' /\ LCache' /\ LLevels'
<1>0. LBasic /\ LIndex /\ LWorkers /\ LQueue /\ LPlace
  BY DEF LInv, LTypes
<1>1. /\ L!Items' = L!Items /\ LWhole' = LWhole /\ L!Refs' = L!Refs
      /\ \A i : L!Harvest(i)' = L!Harvest(i)
  BY SameHarvest
<1>2. LBasic' /\ LIndex' /\ LCache' /\ LLevels'
  BY <1>0, SameLevels DEF LBasic
<1>3. LPlace'
  BY <1>0 DEF LPlace, Passing, Early
<1>4. LQueue'
  <2>1. \A v \in Workers : at'[v] = IF v = w THEN a ELSE at[v]
    BY <1>0 DEF LWorkers
  <2>2. ASSUME NEW v \in Workers
        PROVE  Through(v)' => stop \/ taken = Len(L!Items) \/ (job = "local" /\ item[v] = 0)
    <3>1. v # w => (Through(v)' => Through(v))
      BY <2>1 DEF Through
    <3> QED BY <1>0, <3>1 DEF LQueue
  <2>3. \A i : Held(i) => Held(i)'
    BY <2>1 DEF Held
  <2>4. L!Gathered' = L!Gathered
    BY DEF L!Gathered
  <2>5. \A v \in Workers : at'[v] = "item" => at[v] = "item"
    BY <2>1
  <2>6. ~gaps' => \A i \in 1 .. taken' : Held(i)' \/ L!Harvest(i)' \subseteq L!Gathered'
    BY <1>0, <1>1, <2>3, <2>4 DEF LQueue
  <2> QED BY <1>0, <1>1, <2>2, <2>5, <2>6 DEF LQueue
<1> QED BY <1>2, <1>3, <1>4

LEMMA LNoConnection ==
  ASSUME LInv, NEW w \in Workers, L!NoConnection(w)
  PROVE  LInv'
<1> USE DEF L!index, L!levelVars, L!queue, L!pool
<1>0. /\ job = "local" /\ at[w] = "work" /\ item[w] = 0 /\ at' = [at EXCEPT ![w] = "end"]
      /\ UNCHANGED <<job, asked, process, memory, cache, fetch, direct, reached, nodes, item,
                     taken, found, total, stop, error, generation, seen, waiting, gaps>>
      /\ Passing /\ LWorkers /\ LPool
  BY DEF L!NoConnection, Passing, LInv, LTypes
<1>1. LBasic' /\ LIndex' /\ LPlace' /\ LQueue' /\ LCache' /\ LLevels'
  BY <1>0, LAround
<1>2. LWorkers' /\ LPool'
  BY <1>0 DEF LWorkers, LPool
<1> QED BY <1>1, <1>2 DEF LInv, LTypes

LEMMA LWake ==
  ASSUME LInv, NEW w \in Workers, L!Wake(w)
  PROVE  LInv'
<1> USE DEF L!index, L!levelVars, L!queue, L!pool
<1>0. /\ job = "run" /\ at[w] = "wait" /\ seen[w] # generation
      /\ at' = [at EXCEPT ![w] = "work"] /\ seen' = [seen EXCEPT ![w] = generation]
      /\ UNCHANGED <<job, asked, process, memory, cache, fetch, direct, reached, nodes, item,
                     taken, found, total, stop, error, generation, waiting, gaps>>
      /\ Passing /\ LWorkers /\ LPool
  BY DEF L!Wake, Passing, LInv, LTypes
<1>1. LBasic' /\ LIndex' /\ LPlace' /\ LQueue' /\ LCache' /\ LLevels'
  <2>1. ~Through(w)' /\ \A v \in Workers : v # w => seen'[v] = seen[v]
    BY <1>0 DEF Through, LWorkers
  <2> QED BY <1>0, <2>1, LAround
<1>2. LWorkers'
  BY <1>0 DEF LWorkers
<1>3. LPool'
  <2>1. {v \in Workers : at'[v] # "wait" \/ seen'[v] # generation'} =
        {v \in Workers : at[v] # "wait" \/ seen[v] # generation}
    BY <1>0 DEF LWorkers
  <2>2. /\ \A v \in Workers : seen'[v] <= generation'
        /\ \A v \in Workers : at'[v] # "wait" => seen'[v] = generation'
    BY <1>0 DEF LPool, LWorkers
  <2> QED BY <1>0, <2>1, <2>2 DEF LPool
<1> QED BY <1>1, <1>2, <1>3 DEF LInv, LTypes

LEMMA LFinish ==
  ASSUME LInv, NEW w \in Workers, L!Finish(w)
  PROVE  LInv'
<1> USE DEF L!index, L!levelVars, L!queue, L!pool
<1>0. /\ job = "run" /\ at[w] = "end"
      /\ at' = [at EXCEPT ![w] = "wait"] /\ waiting' = waiting - 1
      /\ UNCHANGED <<job, asked, process, memory, cache, fetch, direct, reached, nodes, item,
                     taken, found, total, stop, error, generation, seen, gaps>>
      /\ Passing /\ LWorkers /\ LPool
  BY DEF L!Finish, Passing, LInv, LTypes
<1>1. LBasic' /\ LIndex' /\ LPlace' /\ LQueue' /\ LCache' /\ LLevels'
  <2>1. Through(w)
    BY <1>0 DEF Through
  <2> QED BY <1>0, <2>1, LAround
<1> DEFINE busy == {v \in Workers : at[v] # "wait" \/ seen[v] # generation}
           left == {v \in Workers : at'[v] # "wait" \/ seen'[v] # generation'}
<1>2. w \in busy /\ left = busy \ {w}
  BY <1>0 DEF LPool, LWorkers
<1>3. IsFiniteSet(busy) /\ waiting = Cardinality(busy)
  BY <1>0, FS_Subset, LevelsAssumption DEF LPool
<1>4. Cardinality(left) = waiting - 1 /\ Cardinality(left) \in Nat
  <2>1. IsFiniteSet(left) /\ Cardinality(left) = Cardinality(busy) - 1
    <3> HIDE DEF busy, left
    <3> QED BY <1>2, <1>3, FS_RemoveElement
  <2>2. Cardinality(left) \in Nat
    <3> HIDE DEF left
    <3> QED BY <2>1, FS_CardinalityType
  <2> QED BY <1>3, <2>1, <2>2
<1>5. LWorkers'
  <2>1. waiting' \in 0 .. Cardinality(Workers)
    <3> HIDE DEF left
    <3> QED BY <1>0, <1>4, HeightFacts DEF LWorkers
  <2> QED BY <1>0, <2>1 DEF LWorkers
<1>6. LPool'
  <2>1. \A v \in Workers : seen'[v] <= generation'
    BY <1>0 DEF LPool
  <2>2. \A v \in Workers : at'[v] # "wait" => seen'[v] = generation'
    BY <1>0 DEF LPool, LWorkers
  <2>3. waiting' = Cardinality(left) /\ generation' = reached' + 1
    BY <1>0, <1>4 DEF LPool
  <2> QED BY <2>1, <2>2, <2>3, Zenon DEF LPool
<1> QED BY <1>1, <1>5, <1>6 DEF LInv, LTypes

LEMMA LevelsInit == L!Init => LInv
<1> SUFFICES ASSUME L!Init PROVE LInv
  OBVIOUS
<1> USE DEF L!Init, L!NoCache
<1>1. LBasic
  <2>1. direct \in BOOLEAN /\ stop \in BOOLEAN /\ error \in BOOLEAN /\ gaps \in BOOLEAN
    BY Zenon
  <2> QED BY <2>1, FS_EmptySet, HeightFacts DEF LBasic, MemoryOK
<1>2. LIndex
  BY FS_EmptySet DEF LIndex, Caches
<1>3. LWorkers
  <2>1. \A w \in Workers : IsFiniteSet(found[w])
    BY FS_EmptySet
  <2> QED BY <2>1, HeightFacts DEF LWorkers
<1>4. LPlace /\ LPool /\ LQueue /\ LLevels
  BY HeightFacts DEF LPlace, LPool, LQueue, LLevels, Passing, Early
<1>5. LCache
  BY DEF LCache
<1> QED BY <1>1, <1>2, <1>3, <1>4, <1>5 DEF LInv, LTypes

LEMMA LevelsKept == ASSUME LInv, UNCHANGED levelVars PROVE LInv'
<1> USE DEF levelVars
<1>1. /\ L!Items' = L!Items /\ LWhole' = LWhole /\ L!Refs' = L!Refs
      /\ \A i : L!Harvest(i)' = L!Harvest(i)
  BY SameHarvest
<1>2. L!Gathered' = L!Gathered /\ \A i : Held(i)' = Held(i)
  BY DEF L!Gathered, Held
<1>3. LBasic' /\ LIndex' /\ LCache' /\ LLevels'
  BY SameLevels DEF LInv, LTypes, LBasic
<1>4. LWorkers' /\ LPlace' /\ LPool'
  BY DEF LInv, LTypes, LWorkers, LPlace, LPool, Passing, Early
<1>5. LQueue'
  BY <1>1, <1>2 DEF LInv, LQueue, Passing, Through
<1> QED BY <1>3, <1>4, <1>5 DEF LInv, LTypes

LEMMA LevelsStep == LInv /\ [L!Next]_levelVars => LInv'
<1> SUFFICES ASSUME LInv, [L!Next]_levelVars PROVE LInv'
  OBVIOUS
<1>1. ASSUME NEW p \in Processes, L!Attach(p) PROVE LInv'
  BY <1>1, LAttach
<1>2. ASSUME NEW f \in BOOLEAN, NEW u \in BOOLEAN, NEW t \in Selections, L!Scan(f, u, t)
      PROVE  LInv'
  BY <1>2, LScan
<1>3. CASE L!BuildFails \/ L!FetchPage \/ L!FetchFails \/ L!Check \/ L!EndLocal
  BY <1>3, LBuildFails, LFetchPage, LFetchFails, LCheck, LEndLocal
<1>4. ASSUME NEW S \in SUBSET L!Words(process, Cells), L!AgentBuilds(S) PROVE LInv'
  BY <1>4, LAgentBuilds
<1>5. ASSUME NEW w \in Workers, L!NoConnection(w) \/ L!Take(w) \/ L!Work(w) \/ L!ReadFails(w)
      PROVE  LInv'
  BY <1>5, LNoConnection, LTake, LWork, LReadFails
<1>6. ASSUME NEW ok \in BOOLEAN, L!Connect(ok) PROVE LInv'
  BY <1>6, LConnect
<1>7. CASE L!Lookup \/ L!Run \/ L!EndLevel
  BY <1>7, LLookup, LRun, LEndLevel
<1>8. ASSUME NEW w \in Workers, L!Wake(w) \/ L!Finish(w) PROVE LInv'
  BY <1>8, LWake, LFinish
<1>9. CASE UNCHANGED levelVars
  BY <1>9, LevelsKept
<1> QED BY <1>1, <1>2, <1>3, <1>4, <1>5, <1>6, <1>7, <1>8, <1>9 DEF L!Next

LEMMA LevelsPromised == LInv => L!LevelsExact
<1> SUFFICES ASSUME LInv, job = "done"
             PROVE  /\ ~gaps => nodes = L!AllChains(L!Searched)
                    /\ asked.freeze /\ direct => ~gaps
  BY DEF L!LevelsExact
<1>1. reached = Height /\ ~error
  BY DEF LInv, LPlace
<1>2. ~gaps => nodes = ChainsOf(L!Searched, Height)
  BY <1>1, HeightFacts DEF LInv, LLevels, L!Refs, RefsOf
<1>3. ChainsOf(L!Searched, Height) = L!AllChains(L!Searched)
  <2>1. \A way, goal : LeadsBy(Height, way, goal) <=> L!Leads(way, goal)
    BY DEF LeadsBy, L!Leads
  <2> QED BY <2>1 DEF ChainsOf, ChainOf, L!AllChains
<1> QED BY <1>1, <1>2, <1>3 DEF LInv, LLevels

-----------------------------------------------------------------------------
(***************************************************************************)
(* The compare of the ImGui client.                                        *)
(***************************************************************************)

LEMMA CompareLibrary ==
  /\ \A f : C!Range(f) = {f[x] : x \in DOMAIN f} /\ C!IsInjective(f) = IsInjective(f)
  /\ \A I : C!Places(I) = Places(I)
  /\ \A list, I : C!Picked(list, I) = Picked(list, I)
<1>1. \A f : C!Range(f) = {f[x] : x \in DOMAIN f} /\ C!IsInjective(f) = IsInjective(f)
  BY DEF C!Range, C!IsInjective, IsInjective
<1>2. \A I : C!Places(I) = Places(I)
  BY DEF C!Places, Places, C!Cardinality, Cardinality
<1>3. \A list, I : C!Picked(list, I) = Picked(list, I)
  BY <1>2 DEF C!Picked, Picked
<1> QED BY <1>1, <1>2, <1>3

(* What the threads share a list by.  The batches that are being asked and  *)
(* the lists that the threads have found are of what has been taken of the  *)
(* candidates, have nothing in common, and miss none that leads to a        *)
(* target.  The list has been taken to its end before the last thread that  *)
(* was handed a part of it goes.                                            *)
AllChainsOf == {Chains[i] : i \in DOMAIN Chains}

CTypes ==
  /\ phase \in {"idle", "verify", "done", "failed"}
  /\ candidates \in Seq(AllChainsOf) /\ IsInjective(candidates)
  /\ position \in Nat /\ batch \in MinBatch .. MaxBatch
  /\ supported \in [batch : BOOLEAN, filter : BOOLEAN] /\ filterEver \in BOOLEAN
  /\ lane \in [Threads -> {"gone", "load", "take", "filter", "batch", "walk"}]
  /\ span \in [Threads -> MinBatch .. MaxBatch]
  /\ part \in [Threads -> Seq(AllChainsOf)]
  /\ valid \in [Threads -> Seq(AllChainsOf)]

Asking == {"filter", "batch", "walk"}

HeldBy(t) == IF lane[t] \in Asking THEN Of(part[t]) ELSE {}

CLists ==
  /\ \A t \in Threads :
       /\ IsInjective(part[t]) /\ Of(part[t]) \subseteq TakenOf(candidates, position)
       /\ IsInjective(valid[t]) /\ Of(valid[t]) \subseteq TakenOf(candidates, position)
  /\ \A t, u \in Threads :
       /\ HeldBy(t) \cap Of(valid[u]) = {}
       /\ t # u => HeldBy(t) \cap HeldBy(u) = {} /\ Of(valid[t]) \cap Of(valid[u]) = {}

CFound ==
  ~missed =>
    /\ \A t \in Threads : Of(valid[t]) \subseteq leads
    /\ \A c \in TakenOf(candidates, position) \cap leads :
         \E t \in Threads : c \in HeldBy(t) \cup Of(valid[t])

CEnds ==
  /\ phase # "verify" => \A t \in Threads : lane[t] = "gone"
  /\ position > 0 /\ position < Len(candidates) =>
       \E t \in Threads : lane[t] # "gone" /\ part[t] # <<>>

CInv == CTypes /\ CLists /\ CFound /\ CEnds

LEMMA CompareConstants ==
  /\ 1 \in Threads /\ Chains \in Seq(AllChainsOf) /\ IsInjective(Chains)
  /\ MinBatch \in Nat \ {0} /\ FirstBatch \in Nat \ {0} /\ MaxBatch \in Nat \ {0}
  /\ MinBatch <= FirstBatch /\ FirstBatch <= MaxBatch
  /\ FirstBatch \in MinBatch .. MaxBatch /\ MinBatch \in MinBatch .. MaxBatch
  /\ \A n : n \in MinBatch .. MaxBatch => n \in Nat \ {0}
<1>1. 1 \in Threads /\ Chains \in Seq(AllChainsOf) /\ IsInjective(Chains)
  BY CompareAssumption DEF AllChainsOf
<1>2. /\ MinBatch \in Nat \ {0} /\ FirstBatch \in Nat \ {0} /\ MaxBatch \in Nat \ {0}
      /\ MinBatch <= FirstBatch /\ FirstBatch <= MaxBatch
  BY CompareAssumption
<1> QED BY <1>1, <1>2

LEMMA CompareInit == C!Init => CInv
<1> SUFFICES ASSUME C!Init PROVE CInv
  OBVIOUS
<1> USE CompareConstants
<1>0. <<>> \in Seq(AllChainsOf) /\ Of(<<>>) = {} /\ IsInjective(<<>>) /\ Len(<<>>) = 0
  BY DEF Of, IsInjective
<1>1. CTypes
  BY <1>0 DEF C!Init, C!Nobody, CTypes
<1>2. CLists
  BY <1>0 DEF C!Init, C!Nobody, CLists, HeldBy, Asking
<1>3. CFound
  BY <1>0 DEF C!Init, C!Nobody, CFound
<1>4. CEnds
  BY <1>0 DEF C!Init, C!Nobody, CEnds
<1> QED BY <1>1, <1>2, <1>3, <1>4 DEF CInv

LEMMA EmptyList ==
  /\ <<>> \in Seq(AllChainsOf) /\ Of(<<>>) = {} /\ IsInjective(<<>>) /\ Len(<<>>) = 0
BY DEF Of, IsInjective

(* A new compare starts with empty lists. *)
LEMMA CompareStep ==
  ASSUME CInv, NEW common, NEW good, C!Compare(common, good)
  PROVE  CInv'
<1> DEFINE I == {i \in DOMAIN Chains : Chains[i] \in common}
<1>1. candidates' \in Seq(AllChainsOf) /\ IsInjective(candidates')
  <2>1. Chains \in Seq(AllChainsOf) /\ IsInjective(Chains)
    BY CompareConstants
  <2>2. I \in SUBSET (1 .. Len(Chains))
    BY <2>1
  <2> HIDE DEF I
  <2>3. LET some == Picked(Chains, I) IN
          some \in Seq(AllChainsOf) /\ (IsInjective(Chains) => IsInjective(some))
    BY ONLY <2>1, <2>2, PickedOf
  <2>4. candidates' = Picked(Chains, I)
    BY CompareLibrary DEF C!Compare, I
  <2> QED BY ONLY <2>1, <2>3, <2>4
<1>2. /\ phase' \in {"failed", "verify"} /\ position' = 0 /\ batch' = FirstBatch
      /\ supported' = [batch |-> TRUE, filter |-> filterEver] /\ filterEver' = filterEver
      /\ span' = [t \in Threads |-> MinBatch] /\ part' = [t \in Threads |-> <<>>]
      /\ valid' = [t \in Threads |-> <<>>]
      /\ DOMAIN lane' = Threads /\ \A t \in Threads : lane'[t] \in {"load", "gone"}
      /\ phase' # "verify" => \A t \in Threads : lane'[t] = "gone"
  BY DEF C!Compare, C!Nobody
<1>3. lane' \in [Threads -> {"gone", "load", "take", "filter", "batch", "walk"}]
  <2>1. lane' = [t \in Threads |-> lane'[t]]
    BY DEF C!Compare
  <2> QED BY <1>2, <2>1
<1>4. CTypes'
  <2>1. filterEver \in BOOLEAN
    BY DEF CInv, CTypes
  <2>2. supported' \in [batch : BOOLEAN, filter : BOOLEAN] /\ filterEver' \in BOOLEAN
    BY ONLY <1>2, <2>1
  <2>3. /\ span' \in [Threads -> MinBatch .. MaxBatch] /\ batch' \in MinBatch .. MaxBatch
        /\ position' \in Nat
    BY ONLY <1>2, CompareConstants
  <2>4. part' \in [Threads -> Seq(AllChainsOf)] /\ valid' \in [Threads -> Seq(AllChainsOf)]
    BY ONLY <1>2, EmptyList
  <2> QED BY ONLY <1>1, <1>2, <1>3, <2>2, <2>3, <2>4 DEF CTypes
<1>5. \A t \in Threads :
        part'[t] = <<>> /\ valid'[t] = <<>> /\ HeldBy(t)' = {}
  BY ONLY <1>2, EmptyList DEF HeldBy, Asking
<1>6. TakenOf(candidates', position') = {}
  BY ONLY <1>2, NothingTaken
<1>7. CLists'
  BY ONLY <1>5, <1>6, EmptyList DEF CLists
<1>8. CFound'
  BY ONLY <1>5, <1>6, EmptyList DEF CFound
<1>9. CEnds'
  BY ONLY <1>2 DEF CEnds
<1> QED BY <1>4, <1>7, <1>8, <1>9 DEF CInv

(* What the lists are made of stays. *)
Steady(t) ==
  /\ UNCHANGED <<phase, candidates, leads, position, part, valid, missed>>
  /\ DOMAIN lane' = Threads /\ \A u \in Threads : u # t => lane'[u] = lane[u]

LEMMA SteadyStep ==
  ASSUME CInv, CTypes', NEW t \in Threads, Steady(t), lane[t] # "gone",
         lane[t] \in Asking <=> lane'[t] \in Asking,
         lane'[t] # "gone" \/ part[t] = <<>>
  PROVE  CInv'
<1>1. \A u \in Threads : HeldBy(u)' = HeldBy(u)
  BY DEF HeldBy, Steady
<1>2. TakenOf(candidates, position)' = TakenOf(candidates, position)
  BY DEF Steady
<1>3. CLists'
  BY <1>1, <1>2 DEF CInv, CLists, Steady
<1>4. CFound'
  BY <1>1, <1>2 DEF CInv, CFound, Steady
<1>5. CEnds'
  BY DEF CInv, CEnds, Steady
<1> QED BY <1>3, <1>4, <1>5 DEF CInv

LEMMA LaneSteps ==
  ASSUME CInv, NEW t \in Threads,
         C!NoConnection(t) \/ C!Load(t) \/ C!FilterRefused(t) \/ C!BatchRefused(t)
  PROVE  CInv'
<1> USE DEF C!lists, C!shared, Asking, Steady
<1>1. CASE C!NoConnection(t)
  <2>1. CTypes'
    BY <1>1 DEF CInv, CTypes, C!NoConnection
  <2> QED BY <1>1, <2>1, SteadyStep DEF CInv, CTypes, C!NoConnection
<1>2. CASE C!Load(t)
  <2>1. batch \in MinBatch .. MaxBatch
    BY DEF CInv, CTypes
  <2>2. C!Max2(1, C!Min2(MaxBatch, batch)) = batch
    BY <2>1, CompareConstants DEF C!Max2, C!Min2
  <2>3. span' = [span EXCEPT ![t] = batch]
    BY <1>2, <2>2 DEF C!Load
  <2>4. CTypes'
    BY <1>2, <2>1, <2>3 DEF CInv, CTypes, C!Load
  <2> QED BY <1>2, <2>4, SteadyStep DEF CInv, CTypes, C!Load
<1>3. CASE C!FilterRefused(t)
  <2>1. CTypes'
    BY <1>3 DEF CInv, CTypes, C!FilterRefused
  <2> QED BY <1>3, <2>1, SteadyStep DEF CInv, CTypes, C!FilterRefused
<1>4. CASE C!BatchRefused(t)
  <2>1. batch' \in MinBatch .. MaxBatch
    <3>1. batch \in MinBatch .. MaxBatch /\ span[t] \in MinBatch .. MaxBatch
      BY DEF CInv, CTypes
    <3>2. C!Max2(MinBatch, span[t] \div 2) \in MinBatch .. MaxBatch
      BY <3>1, CompareConstants DEF C!Max2
    <3> QED BY <1>4, <3>1, <3>2 DEF C!BatchRefused, C!Exchange
  <2>2. supported' \in [batch : BOOLEAN, filter : BOOLEAN]
    BY <1>4 DEF CInv, CTypes, C!BatchRefused
  <2>3. CTypes'
    BY <1>4, <2>1, <2>2 DEF CInv, CTypes, C!BatchRefused
  <2> QED BY <1>4, <2>3, SteadyStep DEF CInv, CTypes, C!BatchRefused
<1> QED BY <1>1, <1>2, <1>3, <1>4

LEMMA TakeStep ==
  ASSUME CInv, NEW t \in Threads, C!Take(t)
  PROVE  CInv'
<1> DEFINE k == span[t]
           some == Batch(candidates, position, k)
<1>1. /\ candidates \in Seq(AllChainsOf) /\ IsInjective(candidates) /\ position \in Nat
      /\ k \in MinBatch .. MaxBatch
      /\ part \in [Threads -> Seq(AllChainsOf)] /\ DOMAIN lane = Threads
  BY DEF CInv, CTypes
<1>2. k \in Nat \ {0} /\ Len(candidates) \in Nat
  BY <1>1, CompareConstants
<1>3. /\ lane[t] = "take" /\ position' = position + k
      /\ part' = [part EXCEPT ![t] = some] /\ part'[t] = some
      /\ lane' = [lane EXCEPT ![t] = IF part'[t] = <<>> THEN "gone" ELSE C!Way(Len(part'[t]))]
      /\ UNCHANGED <<phase, candidates, leads, batch, supported, filterEver, span, valid, missed>>
  BY <1>1 DEF C!Take, C!lists, C!AddLoaded, C!Min2, Batch
<1> HIDE DEF some, k
<1>4. /\ some \in Seq(AllChainsOf) /\ IsInjective(some)
      /\ TakenOf(candidates, position + k) = TakenOf(candidates, position) \cup Of(some)
      /\ TakenOf(candidates, position) \cap Of(some) = {}
      /\ some = <<>> => position >= Len(candidates)
  BY ONLY <1>1, <1>2, TakenMore DEF some
<1>5. C!Way(Len(some)) \in Asking
  BY DEF C!Way, Asking
<1>6. lane' \in [Threads -> {"gone", "load", "take", "filter", "batch", "walk"}]
  BY <1>3, <1>5 DEF Asking, CInv, CTypes
<1>7. CTypes'
  <2>1. position' \in Nat
    BY <1>1, <1>2, <1>3
  <2>2. part' \in [Threads -> Seq(AllChainsOf)]
    BY <1>1, <1>3, <1>4
  <2> QED BY <1>3, <1>6, <2>1, <2>2 DEF CInv, CTypes
<1>8. TakenOf(candidates, position)' = TakenOf(candidates, position) \cup Of(some)
  BY <1>3, <1>4
<1>9. /\ \A u \in Threads : u # t => HeldBy(u)' = HeldBy(u) /\ part'[u] = part[u]
      /\ HeldBy(t)' = Of(some) /\ HeldBy(t) = {}
  <2>1. \A u \in Threads : u # t => lane'[u] = lane[u] /\ part'[u] = part[u]
    BY <1>1, <1>3
  <2>2. some # <<>> => lane'[t] \in Asking
    BY <1>1, <1>3, <1>5
  <2>3. some = <<>> => HeldBy(t)' = {}
    BY <1>1, <1>3, EmptyList DEF HeldBy, Asking
  <2>4. HeldBy(t) = {}
    BY <1>3 DEF HeldBy, Asking
  <2> QED BY <1>3, <2>1, <2>2, <2>3, <2>4, EmptyList DEF HeldBy
<1>10. \A u \in Threads : HeldBy(u) \subseteq TakenOf(candidates, position)
  BY DEF HeldBy, CInv, CLists
<1>11. CLists'
  <2>1. \A u \in Threads :
          /\ IsInjective(part'[u]) /\ Of(part'[u]) \subseteq TakenOf(candidates, position)'
          /\ IsInjective(valid'[u]) /\ Of(valid'[u]) \subseteq TakenOf(candidates, position)'
    BY <1>3, <1>4, <1>8, <1>9 DEF CInv, CLists
  <2>2. \A u, w \in Threads :
          /\ HeldBy(u)' \cap Of(valid'[w]) = {}
          /\ u # w => HeldBy(u)' \cap HeldBy(w)' = {} /\ Of(valid'[u]) \cap Of(valid'[w]) = {}
    <3>1. valid' = valid
      BY <1>3
    <3>2. \A w \in Threads : Of(valid[w]) \cap Of(some) = {} /\ HeldBy(w) \cap Of(some) = {}
      BY <1>4, <1>10 DEF CInv, CLists
    <3>3. \A u, w \in Threads :
            /\ HeldBy(u) \cap Of(valid[w]) = {}
            /\ u # w => HeldBy(u) \cap HeldBy(w) = {} /\ Of(valid[u]) \cap Of(valid[w]) = {}
      BY DEF CInv, CLists
    <3> HIDE DEF HeldBy
    <3> QED BY <1>9, <3>1, <3>2, <3>3
  <2> QED BY <2>1, <2>2 DEF CLists
<1>12. CFound'
  <2> SUFFICES ASSUME ~missed'
               PROVE  /\ \A u \in Threads : Of(valid'[u]) \subseteq leads'
                      /\ \A c \in (TakenOf(candidates, position) \cap leads)' :
                           \E u \in Threads : c \in (HeldBy(u) \cup Of(valid[u]))'
    BY DEF CFound
  <2>1. /\ \A u \in Threads : Of(valid[u]) \subseteq leads
        /\ \A c \in TakenOf(candidates, position) \cap leads :
             \E u \in Threads : c \in HeldBy(u) \cup Of(valid[u])
    BY <1>3 DEF CInv, CFound
  <2>2. ASSUME NEW c \in TakenOf(candidates, position) \cap leads
        PROVE  \E u \in Threads : c \in HeldBy(u)' \cup Of(valid[u])
    <3>1. PICK u \in Threads : c \in HeldBy(u) \cup Of(valid[u])
      BY <2>1
    <3>2. u = t => c \in Of(valid[u])
      BY <1>9, <3>1
    <3> QED BY <1>9, <3>1, <3>2
  <2>3. \A c \in Of(some) : c \in HeldBy(t)'
    BY <1>9
  <2> QED BY <1>3, <1>8, <2>1, <2>2, <2>3
<1>13. CEnds'
  <2>1. phase' # "verify" => \A u \in Threads : lane'[u] = "gone"
    BY <1>3 DEF CInv, CEnds
  <2>2. ASSUME position' > 0, position' < Len(candidates')
        PROVE  lane'[t] # "gone" /\ part'[t] # <<>>
    <3>1. position < Len(candidates)
      BY <1>1, <1>2, <1>3, <2>2
    <3>2. some # <<>>
      BY <1>1, <1>2, <1>4, <3>1
    <3> QED BY <1>1, <1>3, <1>5, <3>2 DEF Asking
  <2> QED BY <2>1, <2>2 DEF CEnds
<1> QED BY <1>7, <1>11, <1>12, <1>13 DEF CInv

(* A batch is answered: of its chains, those that lead to a target are      *)
(* added to what the thread has found.                                      *)
LEMMA KeepStep ==
  ASSUME CInv, CTypes', NEW t \in Threads, lane[t] \in Asking,
         NEW kept \in Seq(AllChainsOf), C!Keep(t, kept), IsInjective(kept),
         Of(kept) \subseteq Of(part[t]),
         UNCHANGED <<phase, candidates, leads, position, part>>,
         ~missed' => ~missed /\ Of(kept) = Of(part[t]) \cap leads
  PROVE  CInv'
<1>1. /\ valid \in [Threads -> Seq(AllChainsOf)] /\ DOMAIN lane = Threads
      /\ valid' = [valid EXCEPT ![t] = @ \o kept] /\ lane' = [lane EXCEPT ![t] = "load"]
  BY DEF CInv, CTypes, C!Keep
<1>2. HeldBy(t) = Of(part[t]) /\ HeldBy(t)' = {}
  BY <1>1 DEF HeldBy, Asking
<1>3. \A u \in Threads : u # t => HeldBy(u)' = HeldBy(u) /\ valid'[u] = valid[u]
  BY <1>1 DEF HeldBy
<1>4. /\ \A u, w \in Threads :
           /\ HeldBy(u) \cap Of(valid[w]) = {}
           /\ u # w => HeldBy(u) \cap HeldBy(w) = {} /\ Of(valid[u]) \cap Of(valid[w]) = {}
      /\ \A u \in Threads :
           /\ IsInjective(part[u]) /\ Of(part[u]) \subseteq TakenOf(candidates, position)
           /\ IsInjective(valid[u]) /\ Of(valid[u]) \subseteq TakenOf(candidates, position)
  BY DEF CInv, CLists
<1>5. IsInjective(valid'[t]) /\ Of(valid'[t]) = Of(valid[t]) \cup Of(kept)
  <2>1. valid[t] \in Seq(AllChainsOf) /\ valid'[t] = valid[t] \o kept
    BY <1>1
  <2>2. Of(valid[t]) \cap Of(kept) = {} /\ IsInjective(valid[t])
    BY <1>2, <1>4
  <2> QED BY <2>1, <2>2, OfJoined
<1>6. TakenOf(candidates, position)' = TakenOf(candidates, position)
  OBVIOUS
<1>7. CLists'
  <2>1. \A u \in Threads :
          /\ IsInjective(part'[u]) /\ Of(part'[u]) \subseteq TakenOf(candidates, position)'
          /\ IsInjective(valid'[u]) /\ Of(valid'[u]) \subseteq TakenOf(candidates, position)'
    BY <1>3, <1>4, <1>5, <1>6
  <2>2. \A u, w \in Threads :
          /\ HeldBy(u)' \cap Of(valid'[w]) = {}
          /\ u # w => HeldBy(u)' \cap HeldBy(w)' = {} /\ Of(valid'[u]) \cap Of(valid'[w]) = {}
    <3>1. \A u \in Threads : u # t => HeldBy(u) \cap Of(kept) = {} /\ Of(valid[u]) \cap Of(kept) = {}
      BY <1>2, <1>4
    <3> HIDE DEF HeldBy
    <3> QED BY <1>2, <1>3, <1>4, <1>5, <3>1
  <2> QED BY <2>1, <2>2 DEF CLists
<1>8. CFound'
  <2> SUFFICES ASSUME ~missed'
               PROVE  /\ \A u \in Threads : Of(valid'[u]) \subseteq leads
                      /\ \A c \in TakenOf(candidates, position) \cap leads :
                           \E u \in Threads : c \in HeldBy(u)' \cup Of(valid'[u])
    BY <1>6 DEF CFound
  <2>1. /\ Of(kept) = Of(part[t]) \cap leads
        /\ \A u \in Threads : Of(valid[u]) \subseteq leads
        /\ \A c \in TakenOf(candidates, position) \cap leads :
             \E u \in Threads : c \in HeldBy(u) \cup Of(valid[u])
    BY DEF CInv, CFound
  <2>2. \A u \in Threads : Of(valid'[u]) \subseteq leads
    BY <1>3, <1>5, <2>1
  <2>3. ASSUME NEW c \in TakenOf(candidates, position) \cap leads
        PROVE  \E u \in Threads : c \in HeldBy(u)' \cup Of(valid'[u])
    <3>1. PICK u \in Threads : c \in HeldBy(u) \cup Of(valid[u])
      BY <2>1
    <3>2. CASE u = t
      BY <1>2, <1>5, <2>1, <3>1, <3>2
    <3>3. CASE u # t
      BY <1>3, <3>1, <3>3
    <3> QED BY <3>2, <3>3
  <2> QED BY <2>2, <2>3
<1>9. CEnds'
  <2>1. lane[t] # "gone" /\ \A u \in Threads : lane[u] # "gone" => lane'[u] # "gone"
    BY <1>1 DEF Asking
  <2> QED BY <2>1 DEF CInv, CEnds
<1> QED BY <1>7, <1>8, <1>9 DEF CInv

LEMMA KeepTypes ==
  ASSUME CInv, NEW t \in Threads, NEW kept \in Seq(AllChainsOf), C!Keep(t, kept),
         UNCHANGED <<phase, candidates, leads, position, supported, filterEver, span, part>>,
         batch' \in MinBatch .. MaxBatch
  PROVE  CTypes'
<1>1. valid[t] \o kept \in Seq(AllChainsOf)
  BY DEF CInv, CTypes
<1>2. valid' \in [Threads -> Seq(AllChainsOf)]
  BY <1>1 DEF C!Keep, CInv, CTypes
<1>3. lane' \in [Threads -> {"gone", "load", "take", "filter", "batch", "walk"}]
  BY DEF C!Keep, CInv, CTypes
<1> QED BY <1>2, <1>3 DEF CInv, CTypes

LEMMA GrowTypes ==
  ASSUME CInv, NEW t \in Threads, C!Grow(t)
  PROVE  batch' \in MinBatch .. MaxBatch
<1>1. batch \in MinBatch .. MaxBatch /\ span[t] \in MinBatch .. MaxBatch
  BY DEF CInv, CTypes
<1>2. C!Min2(MaxBatch, span[t] * 2) \in MinBatch .. MaxBatch
  BY <1>1, CompareConstants DEF C!Min2
<1> QED BY <1>1, <1>2 DEF C!Grow, C!Exchange

LEMMA AnsweredSteps ==
  ASSUME CInv, NEW t \in Threads, NEW good, C!FilterAnswered(t, good) \/ C!BatchAnswered(t, good)
  PROVE  CInv'
<1>0. part[t] \in Seq(AllChainsOf)
  BY DEF CInv, CTypes
<1> DEFINE kept == KeptBy(part[t], good)
<1>1. C!Keep(t, kept)
  <2>1. CASE C!FilterAnswered(t, good)
    BY <2>1, CompareLibrary DEF C!FilterAnswered, C!Matched, Picked, KeptBy
  <2>2. CASE C!BatchAnswered(t, good)
    <3> DEFINE hit == C!Verified(part[t], good)
    <3>1. {i \in DOMAIN hit : hit[i]} = {i \in DOMAIN part[t] : part[t][i] \in good}
      BY DEF C!Verified
    <3>2. C!Keep(t, LET those == Places({i \in DOMAIN hit : hit[i]})
                    IN  [i \in DOMAIN those |-> part[t][those[i]]])
      BY <2>2, CompareLibrary DEF C!BatchAnswered
    <3> QED BY <3>1, <3>2 DEF Picked, KeptBy
  <2> QED BY <2>1, <2>2
<1>2. /\ lane[t] \in Asking /\ C!Grow(t)
      /\ UNCHANGED <<phase, candidates, leads, position, supported, filterEver, span, part>>
  BY DEF C!FilterAnswered, C!BatchAnswered, C!lists, Asking
<1>3. /\ kept \in Seq(AllChainsOf) /\ (IsInjective(part[t]) => IsInjective(kept))
      /\ \A c : c \in Of(kept) <=> c \in Of(part[t]) /\ c \in good
  BY <1>0, KeptOf
<1> HIDE DEF kept
<1>4. IsInjective(kept) /\ Of(kept) \subseteq Of(part[t])
  BY <1>3 DEF CInv, CLists
<1>5. ~missed' => ~missed /\ Of(kept) = Of(part[t]) \cap leads
  <2>1. missed' = (missed \/ good # leads)
    BY DEF C!FilterAnswered, C!BatchAnswered, C!Reads
  <2>2. ~missed' => ~missed /\ good = leads
    BY ONLY <2>1, Zenon
  <2> QED BY <1>3, <2>2
<1>6. CTypes'
  BY <1>1, <1>2, <1>3, KeepTypes, GrowTypes
<1> QED BY <1>1, <1>2, <1>3, <1>4, <1>5, <1>6, KeepStep

LEMMA WalkStep ==
  ASSUME CInv, NEW t \in Threads, NEW unread, C!Walk(t, unread)
  PROVE  CInv'
<1>0. part[t] \in Seq(AllChainsOf)
  BY DEF CInv, CTypes
<1> DEFINE kept == C!Walked(t, unread)
           Hits == {c \in Of(part[t]) : C!Finds(t, c, unread)}
<1>1. C!Keep(t, kept)
  BY DEF C!Walk
<1>2. /\ lane[t] \in Asking
      /\ UNCHANGED <<phase, candidates, leads, position, batch, supported, filterEver, span, part>>
  BY DEF C!Walk, C!lists, C!shared, Asking
<1>3. ~missed' => ~missed /\ unread = {} /\ C!Range(part[t]) \cap DOMAIN C!Own(t) = {}
  BY DEF C!Walk
<1>4. /\ kept \in Seq(AllChainsOf) /\ (IsInjective(part[t]) => IsInjective(kept))
      /\ \A c : c \in Of(kept) <=> c \in Of(part[t]) /\ c \in Hits
  <2>1. part[t] \in Seq(AllChainsOf)
    BY DEF CInv, CTypes
  <2>2. \A i \in DOMAIN part[t] : part[t][i] \in Of(part[t])
    BY <2>1, InOf
  <2>3. {i \in DOMAIN part[t] : part[t][i] \in Hits}
          = {i \in DOMAIN part[t] : C!Finds(t, part[t][i], unread)}
    BY <2>2
  <2>4. kept = KeptBy(part[t], Hits)
    BY <2>3, CompareLibrary DEF C!Walked, KeptBy
  <2> HIDE DEF kept, Hits
  <2> QED BY <1>0, <2>4, KeptOf
<1> HIDE DEF kept
<1>5. IsInjective(kept) /\ Of(kept) \subseteq Of(part[t])
  BY <1>4 DEF CInv, CLists
<1>6. ~missed' => Of(kept) = Of(part[t]) \cap leads
  <2> SUFFICES ASSUME ~missed' PROVE \A c \in Of(part[t]) : c \in Hits <=> c \in leads
    BY <1>4
  <2>1. part[t] \in Seq(AllChainsOf)
    BY DEF CInv, CTypes
  <2>2. Of(part[t]) = C!Range(part[t])
    BY <2>1, InOf
  <2>3. \A c \in Of(part[t]) : c \notin DOMAIN C!Own(t)
    BY <1>3, <2>2
  <2> QED BY <1>3, <2>3 DEF C!Finds
<1>7. batch' \in MinBatch .. MaxBatch
  BY <1>2 DEF CInv, CTypes
<1>8. CTypes'
  BY <1>1, <1>2, <1>4, <1>7, KeepTypes
<1> QED BY <1>1, <1>2, <1>3, <1>4, <1>5, <1>6, <1>8, KeepStep

LEMMA JoinStep ==
  ASSUME CInv, C!Join
  PROVE  CInv'
<1>1. CTypes'
  BY DEF CInv, CTypes, C!Join, C!shared
<1>2. /\ UNCHANGED <<candidates, leads, position, lane, part, valid, missed>>
      /\ \A t \in Threads : lane[t] = "gone"
  BY DEF C!Join, C!shared
<1>3. CLists'
  BY <1>2, ZenonT(40) DEF CInv, CLists, HeldBy, TakenOf
<1>4. CFound'
  BY <1>2 DEF CInv, CFound, HeldBy, TakenOf
<1>5. CEnds'
  BY <1>2 DEF CInv, CEnds
<1> QED BY <1>1, <1>3, <1>4, <1>5 DEF CInv

LEMMA CompareKept ==
  ASSUME CInv, UNCHANGED compareVars
  PROVE  CInv'
BY DEF CInv, CTypes, CLists, CFound, CEnds, HeldBy, TakenOf, compareVars

LEMMA CompareNext == CInv /\ C!Next => CInv'
<1> SUFFICES ASSUME CInv, C!Next PROVE CInv'
  OBVIOUS
<1>1. CASE \E common \in Commons : \E good \in SUBSET common : C!Compare(common, good)
  BY <1>1, CompareStep
<1>2. CASE C!Join
  BY <1>2, JoinStep
<1>3. CASE \E t \in Threads :
             \/ C!NoConnection(t) \/ C!Load(t) \/ C!Take(t)
             \/ \E good \in {leads, {}} : C!FilterAnswered(t, good) \/ C!BatchAnswered(t, good)
             \/ C!FilterRefused(t) \/ C!BatchRefused(t)
             \/ \E unread \in SUBSET C!Range(part[t]) : C!Walk(t, unread)
  BY <1>3, LaneSteps, TakeStep, AnsweredSteps, WalkStep
<1> QED BY <1>1, <1>2, <1>3 DEF C!Next

LEMMA CompareTyped == CInv => C!TypeOK
<1> SUFFICES ASSUME CInv PROVE C!TypeOK
  OBVIOUS
<1>1. CTypes /\ \A t \in Threads : Of(part[t]) \subseteq TakenOf(candidates, position)
  BY DEF CInv, CLists
<1>2. C!Range(candidates) \subseteq C!Range(Chains) /\ C!IsInjective(candidates)
  <2>1. candidates \in Seq(AllChainsOf) /\ IsInjective(candidates) /\ Of(candidates) \subseteq AllChainsOf
        /\ Of(candidates) = C!Range(candidates)
    BY <1>1, InOf DEF CTypes
  <2> QED BY <2>1, CompareLibrary DEF AllChainsOf
<1>3. \A t \in Threads : C!Range(part[t]) \subseteq C!Range(candidates)
  <2> TAKE t \in Threads
  <2>1. part[t] \in Seq(AllChainsOf) /\ candidates \in Seq(AllChainsOf)
    BY <1>1 DEF CTypes
  <2>2. Of(part[t]) = C!Range(part[t]) /\ Of(candidates) = C!Range(candidates)
    BY <2>1, InOf
  <2>3. TakenOf(candidates, position) \subseteq Of(candidates)
    BY <2>1, InOf, InTakenOf
  <2> QED BY <1>1, <2>2, <2>3
<1> QED BY <1>1, <1>2, <1>3 DEF CTypes, C!TypeOK

LEMMA ComparePromised == CInv => C!CompareExact
<1> SUFFICES ASSUME CInv, phase \in {"done", "failed"}, position > 0, ~missed
             PROVE  /\ C!Shown = C!Range(candidates) \cap leads
                    /\ \A t \in Threads : C!IsInjective(valid[t])
                    /\ \A t, u \in Threads :
                         t # u => C!Range(valid[t]) \cap C!Range(valid[u]) = {}
  BY DEF C!CompareExact
<1>1. \A t \in Threads : lane[t] = "gone" /\ HeldBy(t) = {}
  BY DEF CInv, CEnds, HeldBy, Asking
<1>2. candidates \in Seq(AllChainsOf) /\ position \in Nat /\ Len(candidates) \in Nat
      /\ \A t \in Threads : valid[t] \in Seq(AllChainsOf)
  BY DEF CInv, CTypes
<1>3. position >= Len(candidates)
  BY <1>1, <1>2 DEF CInv, CEnds
<1>4. Of(candidates) = C!Range(candidates) /\ \A t \in Threads : Of(valid[t]) = C!Range(valid[t])
  BY <1>2, InOf
<1>5. TakenOf(candidates, position) = Of(candidates)
  <2>1. \A i \in 1 .. Len(candidates) : i <= position
    BY <1>2, <1>3
  <2>2. \A x : x \in TakenOf(candidates, position) <=>
                 \E i \in 1 .. Len(candidates) : i <= position /\ x = candidates[i]
    BY InTakenOf
  <2>3. \A x : x \in Of(candidates) <=> \E i \in 1 .. Len(candidates) : x = candidates[i]
    BY <1>2, InOf
  <2> QED BY ONLY <2>1, <2>2, <2>3
<1>6. /\ \A t \in Threads : Of(valid[t]) \subseteq leads /\ Of(valid[t]) \subseteq Of(candidates)
      /\ \A c \in Of(candidates) \cap leads : \E t \in Threads : c \in Of(valid[t])
  BY <1>1, <1>5 DEF CInv, CFound, CLists
<1>7. \A c : c \in C!Shown <=> \E t \in Threads : c \in Of(valid[t])
  BY <1>4 DEF C!Shown
<1>8. C!Shown = C!Range(candidates) \cap leads
  BY <1>4, <1>6, <1>7
<1>9. \A t \in Threads : C!IsInjective(valid[t])
  BY CompareLibrary DEF CInv, CLists
<1>10. \A t, u \in Threads : t # u => C!Range(valid[t]) \cap C!Range(valid[u]) = {}
  BY <1>4 DEF CInv, CLists
<1> QED BY <1>8, <1>9, <1>10

-----------------------------------------------------------------------------
(***************************************************************************)
(* The search and the files of the Win32 client.                           *)
(***************************************************************************)

LEMMA FilesLibrary ==
  /\ \A f : F!Range(f) = {f[x] : x \in DOMAIN f} /\ F!IsInjective(f) = IsInjective(f)
  /\ \A I : F!Places(I) = Places(I)
  /\ \A S : F!ListOf(S) = ListOf(S)
<1>1. \A f : F!Range(f) = {f[x] : x \in DOMAIN f} /\ F!IsInjective(f) = IsInjective(f)
  BY DEF F!Range, F!IsInjective, IsInjective
<1>2. \A I : F!Places(I) = Places(I)
  BY DEF F!Places, Places, F!Cardinality, Cardinality
<1>3. \A S : F!ListOf(S) = ListOf(S)
  BY DEF F!ListOf, ListOf, F!IsInjective, IsInjective, F!Cardinality, Cardinality
<1> QED BY <1>1, <1>2, <1>3

LEMMA FilesConstants ==
  /\ WindowCells \subseteq Int /\ IsFiniteSet(WindowCells) /\ WindowGoal \in Int
  /\ \A p \in Processes : Layouts[p] \subseteq [WindowCells -> Int]
  /\ WindowDepth \in Nat \ {0} /\ WindowResults \in Nat \ {0} /\ BatchSize \in Nat \ {0}
  /\ MaxCrashes \in Nat
<1>1. /\ WindowCells \subseteq Int /\ IsFiniteSet(WindowCells) /\ WindowGoal \in Int
      /\ \A p \in Processes : Layouts[p] \subseteq [WindowCells -> Int]
  BY FilesAssumption
<1>2. /\ WindowDepth \in Nat \ {0} /\ WindowResults \in Nat \ {0} /\ BatchSize \in Nat \ {0}
      /\ MaxCrashes \in Nat
  BY FilesAssumption
<1> QED BY <1>1, <1>2

(* The search goes back a word. *)
LEMMA FilesBack == \A items, idx : F!Back(items, idx) = BackOf(items, idx, F!Offsets)
BY DEF F!Back, F!Reversed, BackOf, InFrontOf

(* The levels of the search are the chains of 0, 1, 2 .. words.             *)
LEMMA SearchItems ==
  ASSUME NEW idx \in SUBSET EntryRecords
  PROVE  F!SearchChains(idx) = ItemsOf(idx, WindowDepth, WindowGoal, F!Offsets)
<1> DEFINE Is(f) == f = [d \in 0 .. WindowDepth |->
                          IF d = 0 THEN {[base |-> WindowGoal, offsets |-> <<>>]}
                          ELSE F!Back(f[d - 1], idx)]
           g == [d \in 0 .. WindowDepth |-> ItemsOf(idx, d, WindowGoal, F!Offsets)]
           f == CHOOSE f : Is(f)
<1>1. WindowDepth \in Nat
  BY FilesConstants
<1>0. \A d \in Nat :
        ItemsOf(idx, d + 1, WindowGoal, F!Offsets)
          = F!Back(ItemsOf(idx, d, WindowGoal, F!Offsets), idx)
  <2>1. WindowGoal \in Int
    BY FilesConstants
  <2>2. \A d \in Nat :
          ItemsOf(idx, d + 1, WindowGoal, F!Offsets)
            = BackOf(ItemsOf(idx, d, WindowGoal, F!Offsets), idx, F!Offsets)
    BY <2>1, ItemsBack
  <2> QED BY <2>2, FilesBack
<1>2. Is(g)
  <2>1. g[0] = {[base |-> WindowGoal, offsets |-> <<>>]}
    BY <1>1, NoItems
  <2>2. \A d \in 0 .. WindowDepth : d # 0 => g[d] = F!Back(g[d - 1], idx)
    <3> TAKE d \in 0 .. WindowDepth
    <3> HAVE d # 0
    <3>1. d - 1 \in 0 .. WindowDepth /\ d - 1 \in Nat /\ (d - 1) + 1 = d
      BY <1>1
    <3>2. ItemsOf(idx, d, WindowGoal, F!Offsets)
            = F!Back(ItemsOf(idx, d - 1, WindowGoal, F!Offsets), idx)
      BY <1>0, <3>1
    <3> QED BY <3>1, <3>2
  <2>3. g = [d \in 0 .. WindowDepth |-> g[d]]
    OBVIOUS
  <2> HIDE DEF g
  <2> QED BY <2>1, <2>2, <2>3
<1>3. Is(f)
  <2> HIDE DEF Is, g
  <2> QED BY <1>2
<1>4. f[0] = {[base |-> WindowGoal, offsets |-> <<>>]}
      /\ \A d \in 0 .. WindowDepth : d # 0 => f[d] = F!Back(f[d - 1], idx)
  <2> HIDE DEF f
  <2>1. \A d \in 0 .. WindowDepth :
          f[d] = IF d = 0 THEN {[base |-> WindowGoal, offsets |-> <<>>]}
                 ELSE F!Back(f[d - 1], idx)
    BY <1>3, Zenon
  <2>2. 0 \in 0 .. WindowDepth
    BY <1>1
  <2> QED BY ONLY <2>1, <2>2
<1>5. F!SearchChains(idx) = f[WindowDepth]
  BY DEF F!SearchChains
<1> HIDE DEF f, g, Is
<1> DEFINE T == {d \in Nat : d <= WindowDepth => f[d] = ItemsOf(idx, d, WindowGoal, F!Offsets)}
<1>6. 0 \in T
  BY <1>4, NoItems
<1>7. ASSUME NEW d \in T PROVE d + 1 \in T
  <2> SUFFICES ASSUME d + 1 <= WindowDepth PROVE f[d + 1] = ItemsOf(idx, d + 1, WindowGoal, F!Offsets)
    OBVIOUS
  <2>1. d \in Nat /\ d <= WindowDepth /\ d + 1 \in 0 .. WindowDepth /\ d + 1 # 0 /\ (d + 1) - 1 = d
    BY <1>1
  <2>2. f[d] = ItemsOf(idx, d, WindowGoal, F!Offsets)
    BY <2>1
  <2>3. f[d + 1] = F!Back(f[d], idx)
    BY <1>4, <2>1
  <2> QED BY <1>0, <2>1, <2>2, <2>3
<1> HIDE DEF T
<1>8. T \in SUBSET Nat
  BY DEF T
<1>9. WindowDepth \in T
  BY <1>1, <1>6, <1>7, <1>8, SetInduction
<1> QED BY <1>1, <1>5, <1>9 DEF T

LEMMA SearchTyped ==
  ASSUME NEW idx \in SUBSET EntryRecords, IsFiniteSet(idx)
  PROVE  IsFiniteSet(F!SearchChains(idx)) /\ F!SearchChains(idx) \subseteq ChainRecords
BY SearchItems, ItemsFinite, ItemsTyped, FilesConstants

(* An index of all words of the process leads to exactly its chains. *)
LEMMA WordsIndexed ==
  ASSUME NEW p, contents[p] \in [WindowCells -> Int]
  PROVE  /\ F!Words(p) \in SUBSET EntryRecords /\ IsFiniteSet(F!Words(p))
         /\ \A e : e \in F!Words(p) <=>
              \E c \in WindowCells : contents[p][c] # 0 /\ e = [value |-> contents[p][c], address |-> c]
<1> DEFINE C0 == {d \in WindowCells : contents[p][d] # 0}
           f == [c \in C0 |-> [value |-> contents[p][c], address |-> c]]
<1>1. F!Words(p) = {[value |-> contents[p][c], address |-> c] : c \in C0}
  BY DEF F!Words
<1>2. \A c : c \in C0 <=> c \in WindowCells /\ contents[p][c] # 0
  OBVIOUS
<1>3. IsFiniteSet(C0)
  BY FilesConstants, FS_Subset
<1>4. DOMAIN f = C0 /\ F!Words(p) = {f[c] : c \in C0}
  BY <1>1
<1>5. \A e : e \in F!Words(p) <=>
        \E c \in WindowCells : contents[p][c] # 0 /\ e = [value |-> contents[p][c], address |-> c]
  <2> HIDE DEF C0
  <2>1. \A e : e \in F!Words(p) <=> \E c \in C0 : e = [value |-> contents[p][c], address |-> c]
    BY ONLY <1>1
  <2> QED BY ONLY <1>2, <2>1
<1>6. F!Words(p) \in SUBSET EntryRecords
  <2> SUFFICES ASSUME NEW e \in F!Words(p) PROVE e \in EntryRecords
    OBVIOUS
  <2>1. PICK c \in WindowCells : e = [value |-> contents[p][c], address |-> c]
    BY <1>5
  <2>2. c \in Int /\ contents[p][c] \in Int
    BY <2>1, FilesConstants
  <2> QED BY <2>1, <2>2 DEF EntryRecords
<1> HIDE DEF C0, f
<1>7. IsFiniteSet(F!Words(p))
  BY <1>3, <1>4, ImageFinite
<1> QED BY <1>5, <1>6, <1>7

LEMMA AllOfWords ==
  ASSUME contents[pid] \in [WindowCells -> Int]
  PROVE  F!AllChains = ItemsOf(F!Words(pid), WindowDepth, WindowGoal, F!Offsets)
<1> DEFINE n == WindowDepth
           idx == F!Words(pid)
           Ways_ == {v \in [1 .. n -> WindowCells] :
                       \A i \in 1 .. n : contents[pid][v[i]] # 0 /\ F!Gap(v, i) \in F!Offsets}
<1>0. n \in Nat \ {0} /\ 1 \in 1 .. n
  BY FilesConstants
<1>1. /\ idx \in SUBSET EntryRecords
      /\ \A e : e \in idx <=>
           \E c \in WindowCells : contents[pid][c] # 0 /\ e = [value |-> contents[pid][c], address |-> c]
  BY WordsIndexed
<1>2. F!AllChains = {[base |-> w[1], offsets |-> [i \in 1 .. n |-> F!Gap(w, i)]] : w \in Ways_}
  BY DEF F!AllChains
<1> HIDE DEF idx, n, Ways_
<1>3. ASSUME NEW v \in Ways_
      PROVE  [base |-> v[1], offsets |-> [i \in 1 .. n |-> F!Gap(v, i)]] \in ItemsOf(idx, n, WindowGoal, F!Offsets)
  <2> DEFINE w == [i \in 1 .. n |-> [value |-> contents[pid][v[i]], address |-> v[i]]]
  <2>1. /\ v \in [1 .. n -> WindowCells]
        /\ \A i \in 1 .. n : contents[pid][v[i]] # 0 /\ F!Gap(v, i) \in F!Offsets
    BY <1>3 DEF Ways_
  <2>2. \A i \in 1 .. n : w[i].value = contents[pid][v[i]] /\ w[i].address = v[i] /\ w[i] \in idx
    <3> TAKE i \in 1 .. n
    <3>1. w[i] = [value |-> contents[pid][v[i]], address |-> v[i]] /\ v[i] \in WindowCells
      BY <2>1
    <3> QED BY <1>1, <2>1, <3>1
  <2>3. w \in [1 .. n -> idx]
    BY <2>2
  <2> HIDE DEF w
  <2>4. \A i \in 1 .. n : WayGap(n, w, i, WindowGoal) = F!Gap(v, i)
    <3> TAKE i \in 1 .. n
    <3>1. CASE i = n
      BY <2>2, <3>1 DEF WayGap, NextAt, F!Gap, n
    <3>2. CASE i # n
      <4>1. i + 1 \in 1 .. n
        BY <1>0, <3>2
      <4> QED BY <2>2, <3>2, <4>1 DEF WayGap, NextAt, F!Gap, n
    <3> QED BY <3>1, <3>2
  <2>5. NextAt(n, w, 0, WindowGoal) = v[1]
    BY <1>0, <2>2 DEF NextAt
  <2>6. WayChain(n, w, WindowGoal) = [base |-> v[1], offsets |-> [i \in 1 .. n |-> F!Gap(v, i)]]
    BY <2>4, <2>5 DEF WayChain
  <2>7. w \in WaysIn(idx, n, WindowGoal, F!Offsets)
    BY <2>1, <2>3, <2>4 DEF WaysIn
  <2> QED BY <2>6, <2>7 DEF ItemsOf
<1>4. ASSUME NEW w \in WaysIn(idx, n, WindowGoal, F!Offsets)
      PROVE  WayChain(n, w, WindowGoal) \in F!AllChains
  <2> DEFINE v == [i \in 1 .. n |-> w[i].address]
  <2>1. /\ w \in [1 .. n -> idx]
        /\ \A i \in 1 .. n : WayGap(n, w, i, WindowGoal) \in F!Offsets
    BY <1>4 DEF WaysIn
  <2>2. \A i \in 1 .. n : /\ v[i] = w[i].address /\ v[i] \in WindowCells
                          /\ w[i].value = contents[pid][v[i]] /\ contents[pid][v[i]] # 0
    <3> TAKE i \in 1 .. n
    <3>1. PICK c \in WindowCells :
            contents[pid][c] # 0 /\ w[i] = [value |-> contents[pid][c], address |-> c]
      BY <1>1, <2>1
    <3> QED BY <3>1
  <2>3. v \in [1 .. n -> WindowCells]
    BY <2>2
  <2> HIDE DEF v
  <2>4. \A i \in 1 .. n : WayGap(n, w, i, WindowGoal) = F!Gap(v, i)
    <3> TAKE i \in 1 .. n
    <3>1. CASE i = n
      BY <2>2, <3>1 DEF WayGap, NextAt, F!Gap, n
    <3>2. CASE i # n
      <4>1. i + 1 \in 1 .. n
        BY <1>0, <3>2
      <4> QED BY <2>2, <3>2, <4>1 DEF WayGap, NextAt, F!Gap, n
    <3> QED BY <3>1, <3>2
  <2>5. NextAt(n, w, 0, WindowGoal) = v[1]
    BY <1>0, <2>2 DEF NextAt
  <2>6. WayChain(n, w, WindowGoal) = [base |-> v[1], offsets |-> [i \in 1 .. n |-> F!Gap(v, i)]]
    BY <2>4, <2>5 DEF WayChain
  <2>7. v \in Ways_
    BY <2>1, <2>2, <2>3, <2>4 DEF Ways_
  <2> QED BY <1>2, <2>6, <2>7
<1>5. \A x \in F!AllChains : x \in ItemsOf(idx, n, WindowGoal, F!Offsets)
  BY <1>2, <1>3
<1>6. \A x \in ItemsOf(idx, n, WindowGoal, F!Offsets) : x \in F!AllChains
  BY <1>4 DEF ItemsOf
<1>7. F!AllChains = ItemsOf(idx, n, WindowGoal, F!Offsets)
  BY <1>5, <1>6
<1> QED BY <1>7 DEF idx, n

(* Each of its chains leads to the target. *)
LEMMA Resolved ==
  ASSUME contents[pid] \in [WindowCells -> Int], NEW c \in F!AllChains
  PROVE  F!Resolve(contents[pid], c) = WindowGoal
<1> DEFINE n == WindowDepth
           m == contents[pid]
           Is(f) == f = [i \in 0 .. n |-> IF i = 0 THEN c.base ELSE
                           IF f[i - 1] \in WindowCells /\ m[f[i - 1]] # 0
                           THEN m[f[i - 1]] + c.offsets[i] ELSE 0]
           f == CHOOSE f : Is(f)
<1>0. n \in Nat \ {0} /\ WindowGoal \in Int /\ WindowCells \subseteq Int
  BY FilesConstants
<1>1. PICK w \in [1 .. n -> WindowCells] :
        /\ \A i \in 1 .. n : m[w[i]] # 0
        /\ c = [base |-> w[1], offsets |-> [i \in 1 .. n |-> F!Gap(w, i)]]
  BY DEF F!AllChains
<1> DEFINE At(i) == IF i = n THEN WindowGoal ELSE w[i + 1]
           g == [i \in 0 .. n |-> At(i)]
<1>2. F!Resolve(m, c) = f[n]
  BY DEF F!Resolve
<1> HIDE DEF n, m
<1>3. At(0) = c.base
  BY <1>0, <1>1
<1>4. ASSUME NEW i \in 0 .. n, i # n
      PROVE  At(i) \in WindowCells /\ m[At(i)] # 0 /\ m[At(i)] + c.offsets[i + 1] = At(i + 1)
  <2>1. i + 1 \in 1 .. n
    BY <1>0, <1>4
  <2>2. At(i) = w[i + 1] /\ w[i + 1] \in WindowCells
    BY <1>1, <1>4, <2>1
  <2>3. c.offsets[i + 1] = F!Gap(w, i + 1)
    BY <1>1, <2>1
  <2>4. F!Gap(w, i + 1) = At(i + 1) - m[w[i + 1]]
    BY <2>1 DEF F!Gap, n, m
  <2>5. At(i + 1) \in Int
    <3>1. CASE i + 1 = n
      BY <1>0, <3>1
    <3>2. CASE i + 1 # n
      <4>1. (i + 1) + 1 \in 1 .. n
        BY <1>0, <2>1, <3>2
      <4> QED BY <1>0, <1>1, <3>2, <4>1
    <3> QED BY <3>1, <3>2
  <2>6. m[w[i + 1]] \in Int
    BY <2>2 DEF m
  <2> HIDE DEF At
  <2> QED BY <1>1, <2>1, <2>2, <2>3, <2>4, <2>5, <2>6
<1> HIDE DEF At
<1>5. Is(g)
  <2>1. g[0] = c.base
    BY <1>0, <1>3
  <2>2. \A i \in 0 .. n : i # 0 =>
          g[i] = IF g[i - 1] \in WindowCells /\ m[g[i - 1]] # 0
                 THEN m[g[i - 1]] + c.offsets[i] ELSE 0
    <3> TAKE i \in 0 .. n
    <3> HAVE i # 0
    <3>1. i - 1 \in 0 .. n /\ i - 1 # n /\ (i - 1) + 1 = i
      BY <1>0
    <3>2. g[i] = At(i) /\ g[i - 1] = At(i - 1)
      BY <3>1
    <3> HIDE DEF g
    <3> QED BY <1>4, <3>1, <3>2
  <2>3. g = [i \in 0 .. n |-> g[i]]
    OBVIOUS
  <2> HIDE DEF g
  <2> QED BY <2>1, <2>2, <2>3
<1>6. Is(f)
  <2> HIDE DEF Is, g
  <2> QED BY <1>5
<1> DEFINE T == {i \in Nat : i <= n => f[i] = At(i)}
<1>7. \A i \in 0 .. n :
        f[i] = IF i = 0 THEN c.base ELSE
                 IF f[i - 1] \in WindowCells /\ m[f[i - 1]] # 0
                 THEN m[f[i - 1]] + c.offsets[i] ELSE 0
  <2> HIDE DEF f
  <2> QED BY <1>6, Zenon
<1> HIDE DEF f, g, Is
<1>8. 0 \in T
  <2>1. 0 \in 0 .. n
    BY <1>0
  <2> QED BY <1>3, <1>7, <2>1
<1>9. ASSUME NEW i \in T PROVE i + 1 \in T
  <2> SUFFICES ASSUME i + 1 <= n PROVE f[i + 1] = At(i + 1)
    OBVIOUS
  <2>1. /\ i \in 0 .. n /\ i <= n /\ i # n
        /\ i + 1 \in 0 .. n /\ i + 1 # 0 /\ (i + 1) - 1 = i
    BY <1>0
  <2>2. f[i] = At(i)
    BY <2>1
  <2>3. f[i + 1] = IF f[i] \in WindowCells /\ m[f[i]] # 0 THEN m[f[i]] + c.offsets[i + 1] ELSE 0
    BY <1>7, <2>1
  <2>4. At(i) \in WindowCells /\ m[At(i)] # 0 /\ m[At(i)] + c.offsets[i + 1] = At(i + 1)
    BY <1>4, <2>1
  <2> QED BY <2>2, <2>3, <2>4
<1> HIDE DEF T
<1>10. T \in SUBSET Nat
  BY DEF T
<1>11. n \in T
  BY <1>0, <1>8, <1>9, <1>10, SetInduction
<1>12. f[n] = WindowGoal
  BY <1>0, <1>11 DEF T, At
<1> QED BY <1>2, <1>12 DEF m

LEMMA MinOf == \A a, b : F!Min2(a, b) = IF a < b THEN a ELSE b
BY DEF F!Min2

(* Search and files.  The chains that were checked are of those that were   *)
(* handed over for it, lead to the target as long as nothing has changed,   *)
(* and are all of them if the index had every word; no chain comes twice.   *)
FTypes ==
  /\ pid \in Processes /\ DOMAIN contents = Processes
  /\ \A p \in Processes : contents[p] \in Layouts[p]
  /\ pointer_index \in SUBSET EntryRecords /\ IsFiniteSet(pointer_index)
  /\ doing \in {"idle", "verify"} /\ claim \in {"none", "sound", "all"}
  /\ raw \in Seq(ChainRecords) /\ Len(raw) <= WindowResults
  /\ checked \in 0 .. Len(raw)
  /\ verified \in Seq(ChainRecords) /\ search_results \in Seq(ChainRecords)
  /\ doing = "verify" => checked < Len(raw) /\ search_results = <<>>
  /\ crashes \in 0 .. MaxCrashes

FLists ==
  /\ IsInjective(raw) /\ IsInjective(verified) /\ IsInjective(search_results)
  /\ Of(verified) \subseteq TakenOf(raw, checked)

LeadsNow(c) == F!Resolve(contents[pid], c) = WindowGoal

FSearch ==
  /\ claim # "none" =>
       /\ \A c \in Of(verified) : LeadsNow(c)
       /\ \A c \in Of(search_results) : LeadsNow(c)
  /\ claim = "all" =>
       /\ doing = "verify" => Of(raw) = F!AllChains /\ TakenOf(raw, checked) \subseteq Of(verified)
       /\ doing = "idle" => Of(search_results) = F!AllChains

FileOK(file) ==
  /\ file.chains \in Seq(ChainRecords) /\ IsInjective(file.chains)
  /\ Of(file.chains) \subseteq file.of
  /\ file.whole => Of(file.chains) = file.of
  /\ file.count = 0 \/ file.count = Len(file.chains)

FFiles == DOMAIN files = Files /\ \A f \in Files : FileOK(files[f])

FInv == FTypes /\ FLists /\ FSearch /\ FFiles

LEMMA EmptyWindow ==
  /\ <<>> \in Seq(ChainRecords) /\ Of(<<>>) = {} /\ IsInjective(<<>>) /\ Len(<<>>) = 0
BY DEF Of, IsInjective

LEMMA ContentsTyped ==
  ASSUME FTypes
  PROVE  \A p \in Processes : contents[p] \in [WindowCells -> Int]
BY FilesConstants DEF FTypes

LEMMA FilesInit == F!Init => FInv
<1> SUFFICES ASSUME F!Init PROVE FInv
  OBVIOUS
<1>1. FTypes
  <2>1. /\ pid \in Processes /\ DOMAIN contents = Processes
        /\ \A p \in Processes : contents[p] \in Layouts[p]
    BY DEF F!Init
  <2>2. pointer_index \in SUBSET EntryRecords /\ IsFiniteSet(pointer_index)
    BY FS_EmptySet DEF F!Init
  <2>3. /\ doing = "idle" /\ claim = "none" /\ raw = <<>> /\ checked = 0
        /\ verified = <<>> /\ search_results = <<>> /\ crashes = 0
    BY DEF F!Init
  <2> QED BY <2>1, <2>2, <2>3, EmptyWindow, FilesConstants DEF FTypes
<1>2. FLists
  BY EmptyWindow DEF F!Init, FLists
<1>3. FSearch
  BY DEF F!Init, FSearch
<1>4. FFiles
  <2>1. FileOK(F!NoFile)
    BY EmptyWindow DEF F!NoFile, FileOK
  <2> QED BY <2>1 DEF F!Init, FFiles
<1> QED BY <1>1, <1>2, <1>3, <1>4 DEF FInv

LEMMA AttachStep ==
  ASSUME FInv, NEW p \in Processes, F!Attach(p)
  PROVE  FInv'
<1>1. FTypes'
  BY DEF FInv, FTypes, F!Attach, F!disk
<1>2. FLists'
  BY DEF FInv, FLists, F!Attach, F!disk
<1>3. FSearch'
  BY DEF FSearch, F!Attach, F!disk
<1>4. FFiles'
  BY DEF FInv, FFiles, F!Attach, F!disk
<1> QED BY <1>1, <1>2, <1>3, <1>4 DEF FInv

LEMMA TargetWritesStep ==
  ASSUME FInv, NEW p \in Processes, NEW l \in Layouts[p], F!TargetWrites(p, l)
  PROVE  FInv'
<1>1. FTypes'
  BY DEF FInv, FTypes, F!TargetWrites, F!disk
<1>2. FLists'
  BY DEF FInv, FLists, F!TargetWrites, F!disk
<1>3. FSearch'
  <2>1. CASE p = pid
    BY <2>1 DEF FSearch, F!TargetWrites, F!disk
  <2>2. CASE p # pid
    <3>1. contents'[pid'] = contents[pid]
      BY <2>2 DEF F!TargetWrites, FInv, FTypes
    <3>2. F!AllChains' = F!AllChains
      BY <3>1 DEF F!AllChains, F!Gap
    <3>3. \A c : LeadsNow(c)' <=> LeadsNow(c)
      BY <3>1 DEF LeadsNow, F!Resolve
    <3>4. UNCHANGED <<claim, doing, raw, verified, checked, search_results>>
      BY <2>2 DEF F!TargetWrites
    <3> QED BY <3>2, <3>3, <3>4 DEF FInv, FSearch
  <2> QED BY <2>1, <2>2
<1>4. FFiles'
  BY DEF FInv, FFiles, F!TargetWrites, F!disk
<1> QED BY <1>1, <1>2, <1>3, <1>4 DEF FInv

(* Steps that leave the process and its words alone. *)
LEMMA SameProcess ==
  ASSUME UNCHANGED <<pid, contents>>
  PROVE  F!AllChains' = F!AllChains /\ \A c : LeadsNow(c)' <=> LeadsNow(c)
BY DEF F!AllChains, F!Gap, LeadsNow, F!Resolve

LEMMA SomeWords ==
  ASSUME FInv, NEW S \in SUBSET F!Words(pid)
  PROVE  S \in SUBSET EntryRecords /\ IsFiniteSet(S)
<1>1. contents[pid] \in [WindowCells -> Int]
  BY ContentsTyped DEF FInv, FTypes
<1>2. F!Words(pid) \in SUBSET EntryRecords /\ IsFiniteSet(F!Words(pid))
  BY <1>1, WordsIndexed
<1> QED BY <1>2, FS_Subset

LEMMA BuildStep ==
  ASSUME FInv, F!BuildPointerIndex
  PROVE  FInv'
<1>1. UNCHANGED <<pid, contents, doing, raw, verified, checked, search_results, claim, files, crashes>>
  BY DEF F!BuildPointerIndex, F!search, F!disk
<1>2. pointer_index' \in SUBSET EntryRecords /\ IsFiniteSet(pointer_index')
  BY SomeWords DEF F!BuildPointerIndex
<1>3. FTypes'
  BY <1>1, <1>2 DEF FInv, FTypes
<1>4. FLists'
  BY <1>1 DEF FInv, FLists
<1>5. FSearch'
  BY <1>1, SameProcess DEF FInv, FSearch
<1>6. FFiles'
  BY <1>1 DEF FInv, FFiles
<1> QED BY <1>3, <1>4, <1>5, <1>6 DEF FInv

LEMMA SearchStep ==
  ASSUME FInv, F!RunPointerSearch
  PROVE  FInv'
<1> DEFINE S == F!SearchChains(pointer_index')
           list == ListOf(S)
           n == Len(list)
           k == IF WindowResults < n THEN WindowResults ELSE n
<1>1. pointer_index' \in SUBSET EntryRecords /\ IsFiniteSet(pointer_index')
  BY SomeWords DEF F!RunPointerSearch, FInv, FTypes
<1>2. IsFiniteSet(S) /\ S \subseteq ChainRecords
  BY <1>1, SearchTyped
<1>3. list \in Seq(S) /\ n \in Nat /\ IsInjective(list)
      /\ \A x \in S : \E i \in 1 .. n : list[i] = x
  <2> HIDE DEF S
  <2>1. /\ Cardinality(S) \in Nat /\ ListOf(S) \in Seq(S)
        /\ Len(ListOf(S)) = Cardinality(S) /\ IsInjective(ListOf(S))
        /\ \A x \in S : \E i \in 1 .. Cardinality(S) : ListOf(S)[i] = x
    BY <1>2, ListOfSet
  <2> QED BY ONLY <2>1
<1>4. k \in Nat /\ k <= n /\ k <= WindowResults
  <2> HIDE DEF list
  <2> QED BY <1>3, FilesConstants
<1>5. /\ UNCHANGED <<pid, contents, files, crashes>> /\ doing = "idle"
      /\ raw' = SubSeq(list, 1, k)
      /\ claim' = IF pointer_index' = F!Words(pid) /\ n <= WindowResults THEN "all" ELSE "sound"
      /\ doing' = IF raw' = <<>> THEN "idle" ELSE "verify"
      /\ search_results' = <<>> /\ verified' = <<>> /\ checked' = 0
  <2>1. F!ListOf(F!SearchChains(pointer_index')) = list
    BY FilesLibrary
  <2>2. F!Min2(WindowResults, n) = k
    <3> HIDE DEF list
    <3> QED BY <1>3, MinOf, FilesConstants
  <2> HIDE DEF list, k, S
  <2> QED BY <2>1, <2>2 DEF F!RunPointerSearch, F!disk, n
<1> HIDE DEF list, k
<1>6. /\ raw' \in Seq(S) /\ IsInjective(raw')
      /\ \A x : x \in Of(raw') <=> \E i \in 0 + 1 .. k : x = list[i]
      /\ raw' # <<>> <=> 0 < k
  <2>1. LET some == SubSeq(list, 0 + 1, k) IN
          /\ some \in Seq(S)
          /\ \A x : x \in Of(some) <=> \E i \in 0 + 1 .. k : x = list[i]
          /\ some # <<>> <=> 0 < k
          /\ IsInjective(list) => IsInjective(some)
    <3> HIDE DEF S
    <3>1. list \in Seq(S) /\ k \in Nat /\ k <= Len(list) /\ 0 \in Nat
      BY <1>3, <1>4
    <3> QED BY ONLY <3>1, OfPart
  <2>2. raw' = SubSeq(list, 0 + 1, k)
    BY <1>5
  <2> QED BY ONLY <1>3, <2>1, <2>2
<1>7. Len(raw') = k
  <2> HIDE DEF S
  <2> QED BY <1>3, <1>4, <1>5
<1>8. FTypes'
  <2>1. raw' \in Seq(ChainRecords) /\ Len(raw') <= WindowResults
    <3> HIDE DEF S
    <3> QED BY <1>2, <1>4, <1>6, <1>7
  <2>2. checked' \in 0 .. Len(raw')
    BY <1>4, <1>5, <1>7
  <2>3. doing' = "verify" => checked' < Len(raw') /\ search_results' = <<>>
    BY <1>4, <1>5, <1>6, <1>7
  <2> HIDE DEF S
  <2> QED BY <1>1, <1>5, <2>1, <2>2, <2>3, EmptyWindow DEF FInv, FTypes
<1>9. FLists'
  BY ONLY <1>5, <1>6, EmptyWindow DEF FLists
<1>10. FSearch'
  <2>1. \A c : c \notin Of(verified') /\ c \notin Of(search_results')
    BY ONLY <1>5, EmptyWindow
  <2>2. ASSUME claim' = "all" PROVE Of(raw') = F!AllChains /\ TakenOf(raw', checked') = {}
    <3>1. n <= WindowResults /\ pointer_index' = F!Words(pid)
      BY <1>5, <2>2
    <3>2. S = F!AllChains
      <4>1. contents[pid] \in [WindowCells -> Int]
        BY ContentsTyped DEF FInv, FTypes
      <4>2. F!AllChains = ItemsOf(F!Words(pid), WindowDepth, WindowGoal, F!Offsets)
        BY <4>1, AllOfWords
      <4> QED BY <1>1, <3>1, <4>2, SearchItems
    <3>3. k = n
      BY <1>3, <3>1, FilesConstants DEF k
    <3>4. \A x \in S : x \in Of(raw')
      <4> HIDE DEF S
      <4> QED BY <1>3, <1>6, <3>3
    <3>5. \A x \in Of(raw') : x \in S
      <4> HIDE DEF S
      <4>1. \A i \in 1 .. n : list[i] \in S
        BY <1>3
      <4> QED BY <1>3, <1>6, <3>3, <4>1
    <3>6. TakenOf(raw', checked') = {}
      BY <1>5, NothingTaken
    <3> QED BY <3>2, <3>4, <3>5, <3>6
  <2>3. claim' = "all" => /\ doing' = "verify" => Of(raw') = F!AllChains' /\ TakenOf(raw', checked') \subseteq Of(verified')
                          /\ doing' = "idle" => Of(search_results') = F!AllChains'
    <3> SUFFICES ASSUME claim' = "all"
                 PROVE  /\ Of(raw') = F!AllChains' /\ TakenOf(raw', checked') \subseteq Of(verified')
                        /\ doing' = "idle" => Of(search_results') = F!AllChains'
      BY Zenon
    <3>1. F!AllChains' = F!AllChains
      BY <1>5, SameProcess
    <3>2. doing' = "idle" => raw' = <<>> /\ search_results' = <<>>
      BY <1>5
    <3> HIDE DEF S
    <3> QED BY <2>2, <3>1, <3>2
  <2> HIDE DEF S
  <2> QED BY ONLY <2>1, <2>3 DEF FSearch
<1>11. FFiles'
  <2> HIDE DEF S
  <2> QED BY <1>5 DEF FInv, FFiles
<1> QED BY <1>8, <1>9, <1>10, <1>11 DEF FInv

LEMMA VerifyBatchStep ==
  ASSUME FInv, F!VerifyBatch
  PROVE  FInv'
<1> DEFINE k == BatchSize
           m == Len(raw)
           upTo == IF checked + k < m THEN checked + k ELSE m
           batch_ == Batch(raw, checked, k)
           Hits == {c \in Of(batch_) : LeadsNow(c)}
           kept == KeptBy(batch_, Hits)
           all == verified \o kept
<1>1. /\ raw \in Seq(ChainRecords) /\ IsInjective(raw) /\ m \in Nat /\ checked \in 0 .. m
      /\ k \in Nat \ {0} /\ checked \in Nat /\ checked < m /\ doing = "verify"
      /\ verified \in Seq(ChainRecords) /\ IsInjective(verified)
      /\ Of(verified) \subseteq TakenOf(raw, checked)
  BY FilesConstants DEF FInv, FTypes, FLists, F!VerifyBatch
<1>2. F!Min2(checked + k, m) = upTo /\ upTo \in Nat /\ upTo <= m
  BY <1>1, MinOf
<1>3. /\ batch_ \in Seq(ChainRecords) /\ IsInjective(batch_)
      /\ TakenOf(raw, checked + k) = TakenOf(raw, checked) \cup Of(batch_)
      /\ TakenOf(raw, checked) \cap Of(batch_) = {}
  <2>1. raw \in Seq(ChainRecords) /\ IsInjective(raw) /\ checked \in Nat /\ k \in Nat \ {0}
    BY <1>1
  <2> HIDE DEF k
  <2> QED BY ONLY <2>1, TakenMore
<1>4. batch_ = SubSeq(raw, checked + 1, upTo)
  BY DEF Batch
<1>5. \A i \in DOMAIN batch_ : batch_[i] = raw[checked + i]
  BY <1>1, <1>2, <1>4, SMTT(30)
<1> HIDE DEF batch_, k, m, upTo
<1>6. \A i \in DOMAIN batch_ : batch_[i] \in Of(batch_)
  BY <1>3, InOf
<1>7. F!Matched(batch_) = Places({i \in DOMAIN batch_ : batch_[i] \in Hits})
  <2>1. {i \in DOMAIN batch_ : batch_[i] \in Hits}
          = {i \in DOMAIN batch_ : F!Resolve(contents[pid], batch_[i]) = WindowGoal}
    BY <1>6 DEF LeadsNow
  <2> HIDE DEF Hits
  <2> QED BY <2>1, FilesLibrary DEF F!Matched
<1>8. kept \in Seq(ChainRecords) /\ IsInjective(kept)
      /\ \A c : c \in Of(kept) <=> c \in Of(batch_) /\ LeadsNow(c)
  <2>1. /\ kept \in Seq(ChainRecords) /\ (IsInjective(batch_) => IsInjective(kept))
        /\ \A c : c \in Of(kept) <=> c \in Of(batch_) /\ c \in Hits
    <3> HIDE DEF Hits
    <3> QED BY <1>3, KeptOf
  <2> QED BY <1>3, <2>1
<1>9. kept = [i \in DOMAIN F!Matched(batch_) |-> F!OfBatch(F!Matched(batch_)[i])]
  <2> DEFINE I == {i \in DOMAIN batch_ : batch_[i] \in Hits}
  <2>1. kept = [i \in DOMAIN Places(I) |-> batch_[Places(I)[i]]]
    BY DEF KeptBy, Picked
  <2>2. \A i \in DOMAIN Places(I) : Places(I)[i] \in DOMAIN batch_
    <3>1. DOMAIN batch_ = 1 .. Len(batch_) /\ Len(batch_) \in Nat
      BY <1>3
    <3>2. I \in SUBSET (1 .. Len(batch_)) /\ I \in SUBSET Nat
      BY <3>1
    <3>3. IsFiniteSet(I)
      BY <3>1, <3>2, UpTo, FS_Subset
    <3> HIDE DEF I
    <3>4. Places(I) \in [1 .. Cardinality(I) -> I]
      BY <3>2, <3>3, PlacesOf
    <3> QED BY <3>1, <3>2, <3>4
  <2> HIDE DEF I, Hits
  <2>3. \A i \in DOMAIN Places(I) : batch_[Places(I)[i]] = raw[checked + Places(I)[i]]
    BY <1>5, <2>2
  <2>4. F!Matched(batch_) = Places(I)
    BY <1>7 DEF I
  <2> QED BY <2>1, <2>3, <2>4 DEF F!OfBatch
<1> HIDE DEF kept, Hits
<1>10. /\ UNCHANGED <<pid, contents, pointer_index, claim, files, crashes>>
       /\ IF upTo < m
          THEN verified' = all /\ checked' = upTo /\ UNCHANGED <<doing, raw, search_results>>
          ELSE F!Gone /\ search_results' = all
  <2>1. /\ UNCHANGED <<pid, contents, pointer_index, claim, files, crashes>>
        /\ LET upTo_ == F!Min2(checked + k, m)
               matched == F!Matched(SubSeq(raw, checked + 1, upTo_))
               all_ == verified \o [i \in DOMAIN matched |-> F!OfBatch(matched[i])]
           IN  IF upTo_ < m
               THEN verified' = all_ /\ checked' = upTo_ /\ UNCHANGED <<doing, raw, search_results>>
               ELSE F!Gone /\ search_results' = all_
    BY DEF F!VerifyBatch, F!disk, k, m
  <2> QED BY <1>2, <1>4, <1>9, <2>1
<1>11. /\ all \in Seq(ChainRecords) /\ IsInjective(all)
       /\ Of(all) = Of(verified) \cup Of(kept)
       /\ Of(all) \subseteq TakenOf(raw, checked + k)
  <2>1. Of(verified) \cap Of(kept) = {}
    BY <1>1, <1>3, <1>8
  <2>2. /\ all \in Seq(ChainRecords) /\ IsInjective(all)
        /\ Of(all) = Of(verified) \cup Of(kept)
    BY <1>1, <1>8, <2>1, OfJoined
  <2> QED BY <1>1, <1>3, <1>8, <2>2
<1> HIDE DEF all
<1>12. F!AllChains' = F!AllChains /\ \A c : LeadsNow(c)' <=> LeadsNow(c)
  BY <1>10, SameProcess
<1>13. claim # "none" => \A c \in Of(all) : LeadsNow(c)
  BY <1>8, <1>11 DEF FInv, FSearch
<1>14. claim = "all" => Of(raw) = F!AllChains /\ TakenOf(raw, checked + k) \subseteq Of(all)
  <2> SUFFICES ASSUME claim = "all"
               PROVE  Of(raw) = F!AllChains /\ TakenOf(raw, checked + k) \subseteq Of(all)
    OBVIOUS
  <2>1. Of(raw) = F!AllChains /\ TakenOf(raw, checked) \subseteq Of(verified)
    BY <1>1 DEF FInv, FSearch
  <2>2. \A c \in Of(raw) : LeadsNow(c)
    <3>1. contents[pid] \in [WindowCells -> Int]
      BY ContentsTyped DEF FInv, FTypes
    <3> QED BY <2>1, <3>1, Resolved DEF LeadsNow
  <2>3. Of(batch_) \subseteq Of(raw)
    <3>1. \A x : x \in Of(raw) <=> \E i \in 1 .. m : x = raw[i]
      BY <1>1, InOf DEF m
    <3>2. \A x \in TakenOf(raw, checked + k) : \E i \in 1 .. m : x = raw[i]
      BY InTakenOf DEF m
    <3> QED BY <1>3, <3>1, <3>2
  <2>4. Of(batch_) \subseteq Of(kept)
    BY <1>8, <2>2, <2>3
  <2> QED BY <1>3, <1>11, <2>1, <2>4
<1>15. FFiles'
  BY <1>10 DEF FInv, FFiles
<1>16. CASE upTo < m
  <2>1. /\ verified' = all /\ checked' = checked + k
        /\ UNCHANGED <<doing, raw, search_results, claim>> /\ checked + k < m /\ checked + k \in 0 .. m
    BY <1>1, <1>10, <1>16 DEF upTo
  <2>2. FTypes'
    BY <1>10, <1>11, <2>1 DEF FInv, FTypes, m
  <2>3. FLists'
    BY <1>11, <2>1 DEF FInv, FLists
  <2>4. FSearch'
    BY <1>1, <1>12, <1>13, <1>14, <2>1 DEF FInv, FSearch
  <2> QED BY <1>15, <2>2, <2>3, <2>4 DEF FInv
<1>17. CASE ~(upTo < m)
  <2>1. /\ doing' = "idle" /\ raw' = <<>> /\ verified' = <<>> /\ checked' = 0
        /\ search_results' = all /\ claim' = claim /\ checked + k >= m
    BY <1>1, <1>10, <1>17 DEF upTo, F!Gone
  <2>2. FTypes'
    <3>1. Len(raw') = 0 /\ raw' \in Seq(ChainRecords) /\ verified' \in Seq(ChainRecords)
      BY <2>1, EmptyWindow
    <3> QED BY <1>10, <1>11, <2>1, <3>1, FilesConstants DEF FInv, FTypes
  <2>3. FLists'
    BY <1>11, <2>1, EmptyWindow DEF FInv, FLists
  <2>4. TakenOf(raw, checked + k) = Of(raw)
    <3>1. \A x : x \in Of(raw) <=> \E i \in 1 .. m : x = raw[i]
      BY <1>1, InOf DEF m
    <3>2. \A x : x \in TakenOf(raw, checked + k) <=> \E i \in 1 .. m : i <= checked + k /\ x = raw[i]
      BY InTakenOf DEF m
    <3>3. \A i \in 1 .. m : i <= checked + k
      BY <1>1, <2>1
    <3> QED BY ONLY <3>1, <3>2, <3>3
  <2>5. claim = "all" => Of(all) = F!AllChains
    BY <1>11, <1>14, <2>4
  <2>6. FSearch'
    BY <1>12, <1>13, <2>1, <2>5, EmptyWindow DEF FSearch
  <2> QED BY <1>15, <2>2, <2>3, <2>6 DEF FInv
<1> QED BY <1>16, <1>17

LEMMA VerifyFailsStep ==
  ASSUME FInv, F!VerifyFails
  PROVE  FInv'
<1>1. /\ UNCHANGED <<pid, contents, pointer_index, search_results, files, crashes>>
      /\ doing' = "idle" /\ raw' = <<>> /\ verified' = <<>> /\ checked' = 0 /\ claim' = "none"
  BY DEF F!VerifyFails, F!Gone, F!disk
<1>2. FTypes'
  <2>1. Len(raw') = 0 /\ raw' \in Seq(ChainRecords) /\ verified' \in Seq(ChainRecords)
    BY <1>1, EmptyWindow
  <2> QED BY <1>1, <2>1, FilesConstants DEF FInv, FTypes
<1>3. FLists'
  BY <1>1, EmptyWindow DEF FInv, FLists
<1>4. FSearch'
  BY <1>1 DEF FSearch
<1>5. FFiles'
  BY <1>1 DEF FInv, FFiles
<1> QED BY <1>2, <1>3, <1>4, <1>5 DEF FInv

LEMMA ClearedSearch ==
  ASSUME FInv, F!ClearSearch, UNCHANGED <<pid, contents, doing, raw, verified, checked>>,
         crashes' \in 0 .. MaxCrashes, FFiles'
  PROVE  FInv'
<1>1. search_results' = <<>> /\ pointer_index' = {} /\ claim' = "none"
  BY DEF F!ClearSearch
<1>2. FTypes'
  <2>1. pointer_index' \in SUBSET EntryRecords /\ IsFiniteSet(pointer_index')
    BY <1>1, FS_EmptySet
  <2> QED BY <1>1, <2>1, EmptyWindow DEF FInv, FTypes
<1>3. FLists'
  BY <1>1, EmptyWindow DEF FInv, FLists
<1>4. FSearch'
  BY <1>1 DEF FSearch
<1> QED BY <1>2, <1>3, <1>4 DEF FInv

LEMMA ClearStep ==
  ASSUME FInv, F!Clear
  PROVE  FInv'
<1>1. F!ClearSearch /\ UNCHANGED <<pid, contents, doing, raw, verified, checked, files, crashes>>
  BY DEF F!Clear, F!disk
<1>2. FFiles' /\ crashes' \in 0 .. MaxCrashes
  BY <1>1 DEF FInv, FTypes, FFiles
<1> QED BY <1>1, <1>2, ClearedSearch

LEMMA SavedFile ==
  ASSUME FInv, NEW f, NEW file, FileOK(file), files' = [files EXCEPT ![f] = file]
  PROVE  FFiles'
BY DEF FInv, FFiles

LEMMA FilesOnly ==
  ASSUME FInv, FFiles', UNCHANGED <<pid, contents, pointer_index, F!search, crashes>>
  PROVE  FInv'
<1>1. UNCHANGED <<pid, contents, pointer_index, doing, raw, verified, checked, search_results, claim, crashes>>
  BY DEF F!search
<1>2. FTypes'
  BY <1>1 DEF FInv, FTypes
<1>3. FLists'
  BY <1>1 DEF FInv, FLists
<1>4. FSearch'
  BY <1>1, SameProcess DEF FInv, FSearch
<1> QED BY <1>2, <1>3, <1>4 DEF FInv

LEMMA WrittenOK ==
  ASSUME NEW list \in Seq(ChainRecords), IsInjective(list), NEW of, NEW whole \in BOOLEAN,
         Of(list) \subseteq of, whole => Of(list) = of
  PROVE  FileOK(F!Written(list, of, whole))
BY DEF F!Written, FileOK

LEMMA SaveStep ==
  ASSUME FInv, NEW f, F!SavePointerSearchResult(f)
  PROVE  FInv'
<1>1. search_results \in Seq(ChainRecords) /\ IsInjective(search_results)
  BY DEF FInv, FTypes, FLists
<1>2. F!Range(search_results) = Of(search_results)
  BY <1>1, InOf
<1>3. FileOK(F!Written(search_results, F!Range(search_results), TRUE))
  BY <1>1, <1>2, WrittenOK
<1>4. FFiles'
  BY <1>3, SavedFile DEF F!SavePointerSearchResult
<1> QED BY <1>4, FilesOnly DEF F!SavePointerSearchResult

LEMMA SaveCutStep ==
  ASSUME FInv, NEW f, NEW n, NEW torn, F!SaveCut(f, n, torn)
  PROVE  FInv'
<1> DEFINE file == [chains |-> SubSeq(search_results, 1, n), count |-> 0, torn |-> torn,
                    of |-> F!Range(search_results), whole |-> FALSE]
<1>1. search_results \in Seq(ChainRecords) /\ IsInjective(search_results)
      /\ Len(search_results) \in Nat
  BY DEF FInv, FTypes, FLists
<1>2. n \in Nat /\ n <= Len(search_results)
  BY <1>1 DEF F!SaveCut
<1>3. LET some == SubSeq(search_results, 0 + 1, n) IN
        /\ some \in Seq(ChainRecords)
        /\ \A x : x \in Of(some) <=> \E i \in 0 + 1 .. n : x = search_results[i]
        /\ some # <<>> <=> 0 < n
        /\ IsInjective(search_results) => IsInjective(some)
  <2>1. 0 \in Nat
    OBVIOUS
  <2> QED BY ONLY <1>1, <1>2, <2>1, OfPart
<1>4. \A x : x \in Of(search_results) <=> \E i \in 1 .. Len(search_results) : x = search_results[i]
  BY <1>1, InOf
<1>5. F!Range(search_results) = Of(search_results)
  BY <1>1, InOf
<1>6. Of(SubSeq(search_results, 1, n)) \subseteq Of(search_results)
  <2>1. \A i \in 0 + 1 .. n : i \in 1 .. Len(search_results)
    BY <1>1, <1>2
  <2> QED BY <1>3, <1>4, <2>1
<1>7. FileOK(file)
  BY <1>1, <1>3, <1>5, <1>6 DEF FileOK
<1>8. FFiles'
  BY <1>7, SavedFile DEF F!SaveCut
<1>9. crashes' \in 0 .. MaxCrashes
  BY FilesConstants DEF F!SaveCut, FInv, FTypes
<1> QED BY <1>8, <1>9, ClearedSearch DEF F!SaveCut

LEMMA LoadedAll ==
  ASSUME FInv, NEW f \in Files
  PROVE  /\ F!Loaded(f) = files[f].chains
         /\ FileOK(files[f])
<1>1. FileOK(files[f])
  BY DEF FInv, FFiles
<1>2. SubSeq(files[f].chains, 1, Len(files[f].chains)) = files[f].chains
  BY <1>1, SubSeqFull DEF FileOK
<1> QED BY <1>1, <1>2 DEF F!Loaded, FileOK

LEMMA CompareFilesStep ==
  ASSUME FInv, NEW a \in Files, NEW b \in Files, NEW o, F!RunPointerCompare(a, b, o)
  PROVE  FInv'
<1> DEFINE x == files[a].chains
           y == files[b].chains
           both == Of(x) \cap Of(y)
           list == ListOf(both)
<1>1. F!Loaded(a) = x /\ F!Loaded(b) = y /\ FileOK(files[a]) /\ FileOK(files[b])
  BY LoadedAll
<1>2. x \in Seq(ChainRecords) /\ y \in Seq(ChainRecords)
  BY <1>1 DEF FileOK
<1> HIDE DEF x, y
<1>3. F!Range(x) = Of(x) /\ F!Range(y) = Of(y)
  BY <1>2, InOf
<1>4. IsFiniteSet(both) /\ both \subseteq ChainRecords
  <2>1. DOMAIN x = 1 .. Len(x) /\ Len(x) \in Nat
    BY <1>2
  <2>2. IsFiniteSet(1 .. Len(x))
    BY <2>1, UpTo
  <2>3. IsFiniteSet({x[i] : i \in 1 .. Len(x)})
    BY <2>1, <2>2, ImageFinite
  <2>4. IsFiniteSet(Of(x))
    BY <2>3 DEF Of
  <2>5. IsFiniteSet(both)
    BY <2>4, FS_Subset
  <2>6. Of(x) \subseteq ChainRecords
    BY <1>2, InOf
  <2> QED BY <2>5, <2>6
<1>5. F!Common(x, y) = list
  <2>1. {c \in Of(x) : c \in Of(y)} = both /\ {c \in Of(y) : c \in Of(x)} = both
    OBVIOUS
  <2> HIDE DEF both
  <2>2. CASE Len(x) <= Len(y)
    BY <1>3, <2>1, <2>2, FilesLibrary DEF F!Common
  <2>3. CASE ~(Len(x) <= Len(y))
    BY <1>3, <2>1, <2>3, FilesLibrary DEF F!Common
  <2> QED BY <2>2, <2>3
<1> HIDE DEF both
<1>6. /\ Cardinality(both) \in Nat /\ list \in Seq(both)
      /\ Len(list) = Cardinality(both) /\ IsInjective(list)
      /\ \A c \in both : \E i \in 1 .. Cardinality(both) : list[i] = c
  BY ONLY <1>4, ListOfSet
<1> HIDE DEF list
<1>7. list \in Seq(ChainRecords) /\ Of(list) = both
  <2>1. /\ \A c : c \in Of(list) <=> \E i \in 1 .. Len(list) : c = list[i]
        /\ Of(list) \subseteq both
    BY <1>6, InOf
  <2> QED BY <1>4, <1>6, <2>1
<1> DEFINE of == files[a].of \cap files[b].of
           whole == files[a].whole /\ files[b].whole
<1>8. /\ Of(list) \subseteq of
      /\ whole => Of(list) = of
  BY <1>1, <1>7 DEF FileOK, both, x, y
<1>9. FileOK(F!Written(list, of, whole))
  BY <1>6, <1>7, <1>8, WrittenOK
<1>10. /\ files' = [files EXCEPT ![o] = F!Written(list, of, whole)]
       /\ UNCHANGED <<pid, contents, pointer_index, F!search, crashes>>
  BY <1>1, <1>5 DEF F!RunPointerCompare
<1>11. FFiles'
  BY <1>9, <1>10, SavedFile
<1> QED BY <1>10, <1>11, FilesOnly

LEMMA FilesKept ==
  ASSUME FInv, UNCHANGED fileVars
  PROVE  FInv'
<1>1. UNCHANGED <<pid, contents, pointer_index, doing, raw, verified, checked, search_results, claim,
                  files, crashes>>
  BY DEF fileVars
<1>2. FFiles'
  BY <1>1 DEF FInv, FFiles
<1> QED BY <1>1, <1>2, FilesOnly DEF F!search

LEMMA FilesNext == FInv /\ F!Next => FInv'
<1> SUFFICES ASSUME FInv, F!Next PROVE FInv'
  OBVIOUS
<1>1. CASE \E p \in Processes : F!Attach(p) \/ \E l \in Layouts[p] : F!TargetWrites(p, l)
  BY <1>1, AttachStep, TargetWritesStep
<1>2. CASE F!BuildPointerIndex
  BY <1>2, BuildStep
<1>3. CASE F!RunPointerSearch
  BY <1>3, SearchStep
<1>4. CASE F!VerifyBatch
  BY <1>4, VerifyBatchStep
<1>5. CASE F!VerifyFails
  BY <1>5, VerifyFailsStep
<1>6. CASE F!Clear
  BY <1>6, ClearStep
<1>7. CASE \E f \in Files :
             \/ F!SavePointerSearchResult(f)
             \/ \E n \in 0 .. WindowResults, torn \in {"no", "header", "base", "offsets"} :
                  F!SaveCut(f, n, torn)
  BY <1>7, SaveStep, SaveCutStep
<1>8. CASE \E a, b, o \in Files : F!RunPointerCompare(a, b, o)
  BY <1>8, CompareFilesStep
<1> QED BY <1>1, <1>2, <1>3, <1>4, <1>5, <1>6, <1>7, <1>8 DEF F!Next

LEMMA FilesTyped == FInv => F!TypeOK
<1> SUFFICES ASSUME FInv PROVE F!TypeOK
  OBVIOUS
<1>1. FTypes /\ FLists /\ FFiles
  BY DEF FInv
<1>2. F!IsInjective(raw)
  BY <1>1, FilesLibrary DEF FLists
<1>3. F!Range(verified) \subseteq F!Range(SubSeq(raw, 1, checked))
  <2>1. raw \in Seq(ChainRecords) /\ verified \in Seq(ChainRecords)
        /\ checked \in Nat /\ checked <= Len(raw) /\ Len(raw) \in Nat
    BY <1>1 DEF FTypes
  <2>2. LET some == SubSeq(raw, 0 + 1, checked) IN
          /\ some \in Seq(ChainRecords)
          /\ \A x : x \in Of(some) <=> \E i \in 0 + 1 .. checked : x = raw[i]
          /\ some # <<>> <=> 0 < checked
          /\ IsInjective(raw) => IsInjective(some)
    <3>1. 0 \in Nat
      OBVIOUS
    <3> QED BY ONLY <2>1, <3>1, OfPart
  <2>3. SubSeq(raw, 1, checked) = SubSeq(raw, 0 + 1, checked)
    OBVIOUS
  <2>4. F!Range(SubSeq(raw, 1, checked)) = Of(SubSeq(raw, 0 + 1, checked))
        /\ F!Range(verified) = Of(verified)
    BY <2>1, <2>2, <2>3, InOf
  <2>5. TakenOf(raw, checked) \subseteq Of(SubSeq(raw, 0 + 1, checked))
    <3>1. \A x : x \in TakenOf(raw, checked) <=> \E i \in 1 .. Len(raw) : i <= checked /\ x = raw[i]
      BY InTakenOf
    <3>2. \A i \in 1 .. Len(raw) : i <= checked => i \in 0 + 1 .. checked
      BY <2>1
    <3> QED BY <2>2, <3>1, <3>2
  <2> QED BY <1>1, <2>4, <2>5 DEF FLists
<1>4. \A f \in Files : files[f].count = 0 \/ files[f].count = Len(files[f].chains)
  BY <1>1 DEF FFiles, FileOK
<1> QED BY <1>1, <1>2, <1>3, <1>4 DEF FTypes, F!TypeOK

LEMMA SearchPromised == FInv => F!SearchExact
<1> SUFFICES ASSUME FInv, doing = "idle"
             PROVE  /\ claim # "none" => \A c \in F!Range(search_results) :
                                           F!Resolve(contents[pid], c) = WindowGoal
                    /\ claim = "all" => /\ F!Range(search_results) = F!AllChains
                                        /\ F!IsInjective(search_results)
  BY DEF F!SearchExact
<1>1. search_results \in Seq(ChainRecords) /\ IsInjective(search_results)
  BY DEF FInv, FTypes, FLists
<1>2. F!Range(search_results) = Of(search_results) /\ F!IsInjective(search_results)
  BY <1>1, InOf, FilesLibrary
<1> QED BY <1>2 DEF FInv, FSearch, LeadsNow

LEMMA FilesPromised == FInv => F!FilesExact
<1> SUFFICES ASSUME FInv, NEW f \in Files
             PROVE  /\ F!Range(files[f].chains) \subseteq files[f].of
                    /\ F!IsInjective(files[f].chains)
                    /\ files[f].whole => F!Range(files[f].chains) = files[f].of
  BY DEF F!FilesExact
<1>1. FileOK(files[f])
  BY DEF FInv, FFiles
<1>2. F!Range(files[f].chains) = Of(files[f].chains)
  BY <1>1, InOf DEF FileOK
<1> QED BY <1>1, <1>2, FilesLibrary DEF FileOK

-----------------------------------------------------------------------------
(***************************************************************************)
(* The scan of the Qt client.                                              *)
(***************************************************************************)

LEMMA ScanLibrary ==
  /\ \A f : Q!Range(f) = {f[x] : x \in DOMAIN f} /\ Q!IsInjective(f) = IsInjective(f)
  /\ \A I : Q!Places(I) = Places(I)
  /\ \A list, I : Q!Picked(list, I) = Picked(list, I)
  /\ \A S : Q!Cardinality(S) = Cardinality(S)
  /\ \A a, b : Q!Min2(a, b) = IF a < b THEN a ELSE b
<1>1. \A f : Q!Range(f) = {f[x] : x \in DOMAIN f} /\ Q!IsInjective(f) = IsInjective(f)
  BY DEF Q!Range, Q!IsInjective, IsInjective
<1>2. \A S : Q!Cardinality(S) = Cardinality(S)
  BY DEF Q!Cardinality, Cardinality
<1>3. \A I : Q!Places(I) = Places(I)
  BY DEF Q!Places, Places, Q!Cardinality, Cardinality
<1>4. \A list, I : Q!Picked(list, I) = Picked(list, I)
  BY <1>3 DEF Q!Picked, Picked
<1>5. \A a, b : Q!Min2(a, b) = IF a < b THEN a ELSE b
  BY DEF Q!Min2
<1> QED BY <1>1, <1>2, <1>3, <1>4, <1>5

LEMMA ScanConstants ==
  /\ Regions \in Seq([start : Nat, end : Nat]) /\ Len(Regions) \in Nat \ {0}
  /\ DOMAIN Regions = 1 .. Len(Regions)
  /\ \A k \in 1 .. Len(Regions) :
       Regions[k].start \in Nat /\ Regions[k].end \in Nat /\ Regions[k].start <= Regions[k].end
  /\ \A j, k \in 1 .. Len(Regions) : j < k => Regions[j].end <= Regions[k].start
  /\ Word \in Nat \ {0} /\ Chunk \in Nat \ {0} /\ MaxEntries \in Nat \ {0}
  /\ PageSize \in Nat \ {0} /\ Depth \in Nat \ {0} /\ MaxOffset \in Nat \ {0}
  /\ MaxResults \in Nat \ {0} /\ Target \in Nat
  /\ Word < Chunk /\ WordValues \subseteq Nat
<1>1. /\ Regions \in Seq([start : Nat, end : Nat]) /\ Regions # <<>>
      /\ \A k \in DOMAIN Regions : Regions[k].start <= Regions[k].end
      /\ \A j, k \in DOMAIN Regions : j < k => Regions[j].end <= Regions[k].start
  BY ScanAssumption
<1>2. DOMAIN Regions = 1 .. Len(Regions) /\ Len(Regions) \in Nat \ {0}
      /\ \A k \in 1 .. Len(Regions) : Regions[k] \in [start : Nat, end : Nat]
  <2> DEFINE S == [start : Nat, end : Nat]
  <2>1. Regions \in Seq(S) /\ Regions # <<>>
    BY <1>1
  <2> HIDE DEF S
  <2>2. DOMAIN Regions = 1 .. Len(Regions) /\ Len(Regions) \in Nat
        /\ \A k \in 1 .. Len(Regions) : Regions[k] \in S
    BY <2>1
  <2>3. Len(Regions) # 0
    BY <2>1, EmptySeq
  <2> QED BY <2>2, <2>3 DEF S
<1>3. /\ Word \in Nat \ {0} /\ Chunk \in Nat \ {0} /\ MaxEntries \in Nat \ {0}
      /\ PageSize \in Nat \ {0} /\ Depth \in Nat \ {0} /\ MaxOffset \in Nat \ {0}
      /\ MaxResults \in Nat \ {0}
  BY ScanAssumption
<1>4. Word < Chunk /\ Target \in Nat /\ WordValues \subseteq Nat
  BY ScanAssumption
<1> QED BY <1>1, <1>2, <1>3, <1>4

(* A finite set in a total order: each place has one member. *)
Below(S, R, e) == {f \in S : <<f, e>> \in R}

InTotalOrder(S, R) ==
  /\ \A e \in S : <<e, e>> \notin R
  /\ \A e, f \in S : e # f => <<e, f>> \in R \/ <<f, e>> \in R
  /\ \A d, e, f \in S : <<d, e>> \in R /\ <<e, f>> \in R => <<d, f>> \in R
Ranked(S, R) ==
  /\ Cardinality(S) \in Nat
  /\ \A i \in 1 .. Cardinality(S) : \E e \in S : Cardinality(Below(S, R, e)) = i - 1
  /\ \A list \in [1 .. Cardinality(S) -> S] :
       (\A i \in 1 .. Cardinality(S) : Cardinality(Below(S, R, list[i])) = i - 1)
         => /\ \A i, j \in 1 .. Cardinality(S) : list[i] = list[j] => i = j
            /\ \A e \in S : \E i \in 1 .. Cardinality(S) : list[i] = e

LEMMA RankOf ==
  ASSUME NEW S, IsFiniteSet(S), NEW R, InTotalOrder(S, R)
  PROVE  Ranked(S, R)
<1> DEFINE n == Cardinality(S)
           below(e) == Below(S, R, e)
           rank == [e \in S |-> Cardinality(below(e))]
<1>1. n \in Nat
  BY FS_CardinalityType
<1>0. \A e : below(e) \subseteq S /\ \A f : f \in below(e) <=> f \in S /\ <<f, e>> \in R
  BY DEF Below
<1> HIDE DEF below
<1>2. \A e \in S : IsFiniteSet(below(e)) /\ Cardinality(below(e)) \in Nat
  BY <1>0, FS_Subset, FS_CardinalityType
<1>3. \A e \in S : Cardinality(below(e)) < n
  <2> TAKE e \in S
  <2>0. <<e, e>> \notin R
    BY DEF InTotalOrder
  <2>1. below(e) \in SUBSET S /\ below(e) # S
    BY <1>0, <2>0
  <2>2. Cardinality(below(e)) <= n /\ Cardinality(below(e)) # n
    BY <2>1, FS_Subset
  <2> QED BY <1>1, <1>2, <2>2
<1>4. \A d, e \in S : <<d, e>> \in R => Cardinality(below(d)) < Cardinality(below(e))
  <2> SUFFICES ASSUME NEW d \in S, NEW e \in S, <<d, e>> \in R
               PROVE  Cardinality(below(d)) < Cardinality(below(e))
    OBVIOUS
  <2>1. below(d) \in SUBSET below(e) /\ d \in below(e) /\ d \notin below(d)
    BY <1>0 DEF InTotalOrder
  <2>2. IsFiniteSet(below(e)) /\ below(d) # below(e)
    BY <1>2, <2>1
  <2>3. Cardinality(below(d)) \in Nat /\ Cardinality(below(e)) \in Nat
    BY <1>2
  <2>4. Cardinality(below(d)) <= Cardinality(below(e))
        /\ Cardinality(below(d)) # Cardinality(below(e))
    BY <2>1, <2>2, FS_Subset
  <2> QED BY <2>3, <2>4
<1>5. rank \in Injection(S, 0 .. n - 1)
  <2>1. \A d, e \in S : Cardinality(below(d)) = Cardinality(below(e)) => d = e
    <3> SUFFICES ASSUME NEW d \in S, NEW e \in S, d # e
                 PROVE  Cardinality(below(d)) # Cardinality(below(e))
      OBVIOUS
    <3>1. <<d, e>> \in R \/ <<e, d>> \in R
      BY DEF InTotalOrder
    <3> QED BY <1>2, <1>4, <3>1
  <2>2. rank \in [S -> 0 .. n - 1]
    BY <1>1, <1>2, <1>3
  <2> QED BY <2>1, <2>2 DEF Injection, IsInjective
<1>6. rank \in Surjection(S, 0 .. n - 1)
  <2>1. IsFiniteSet(0 .. n - 1) /\ Cardinality(0 .. n - 1) = n
    <3>1. 0 \in Int /\ n - 1 \in Int
      BY <1>1
    <3>2. /\ IsFiniteSet(0 .. n - 1)
          /\ Cardinality(0 .. n - 1) = IF 0 > n - 1 THEN 0 ELSE n - 1 - 0 + 1
      BY <3>1, FS_Interval
    <3> HIDE DEF n
    <3> QED BY <1>1, <3>2
  <2> HIDE DEF rank
  <2> QED BY <1>5, <2>1, FS_Injection
<1>7. \A i \in 1 .. n : \E e \in S : Cardinality(below(e)) = i - 1
  <2> TAKE i \in 1 .. n
  <2>1. i - 1 \in 0 .. n - 1
    BY <1>1
  <2> QED BY <1>6, <2>1 DEF Surjection
<1>8. ASSUME NEW list \in [1 .. n -> S], \A i \in 1 .. n : Cardinality(below(list[i])) = i - 1
      PROVE  /\ \A i, j \in 1 .. n : list[i] = list[j] => i = j
             /\ \A e \in S : \E i \in 1 .. n : list[i] = e
  <2>1. \A i, j \in 1 .. n : list[i] = list[j] => i = j
    <3> SUFFICES ASSUME NEW i \in 1 .. n, NEW j \in 1 .. n, list[i] = list[j] PROVE i = j
      OBVIOUS
    <3>1. i - 1 = j - 1
      BY <1>8
    <3> QED BY <1>1, <3>1
  <2> QED BY <2>1, Enumerates
<1> QED BY <1>1, <1>7, <1>8 DEF below, Ranked

(* The index, sorted by value and address, has the same entries. *)
LEMMA SortedOf ==
  ASSUME NEW list \in Seq(EntryRecords)
  PROVE  LET sorted_ == Q!Sorted(Q!Range(list)) IN
         /\ sorted_ \in Seq(EntryRecords) /\ Of(sorted_) = Of(list)
         /\ Len(sorted_) \in Nat /\ Len(sorted_) <= Len(list)
<1> DEFINE S == Of(list)
           R == {p \in S \X S : Q!Before(p[1], p[2])}
           sorted_ == Q!Sorted(S)
           n == Cardinality(S)
           m == Len(list)
<1>1. m \in Nat /\ S = Q!Range(list) /\ S \subseteq EntryRecords
  BY InOf
<1>2. IsFiniteSet(S) /\ n <= m
  <2>1. IsFiniteSet(1 .. m) /\ Cardinality(1 .. m) = m
    BY <1>1, UpTo
  <2>2. DOMAIN list = 1 .. m /\ S = {list[i] : i \in 1 .. m}
    BY DEF Of
  <2> QED BY <2>1, <2>2, ImageFinite
<1> HIDE DEF S
<1>3. \A e, f \in S : <<e, f>> \in R <=> Q!Before(e, f)
  OBVIOUS
<1> HIDE DEF R
<1>4. \A e \in S : e.value \in Int /\ e.address \in Int /\ e = [value |-> e.value, address |-> e.address]
  BY <1>1 DEF EntryRecords
<1>5. \A e \in S : <<e, e>> \notin R
  BY <1>3, <1>4 DEF Q!Before
<1>6. \A e, f \in S : e # f => <<e, f>> \in R \/ <<f, e>> \in R
  <2> SUFFICES ASSUME NEW e \in S, NEW f \in S, ~Q!Before(e, f), ~Q!Before(f, e) PROVE e = f
    BY <1>3
  <2>1. e.value = f.value /\ e.address = f.address
    BY <1>4 DEF Q!Before
  <2> QED BY <1>4, <2>1
<1>7. \A d, e, f \in S : <<d, e>> \in R /\ <<e, f>> \in R => <<d, f>> \in R
  BY <1>3, <1>4 DEF Q!Before
<1>8. Ranked(S, R)
  BY <1>2, <1>5, <1>6, <1>7, RankOf DEF InTotalOrder
<1>9. /\ n \in Nat /\ sorted_ \in [1 .. n -> S]
      /\ \A e \in S : \E i \in 1 .. n : sorted_[i] = e
  <2> DEFINE rank(e) == Cardinality({f \in S : Q!Before(f, e)})
  <2>1. \A e \in S : rank(e) = Cardinality(Below(S, R, e))
    <3>1. \A e \in S : {f \in S : Q!Before(f, e)} = Below(S, R, e)
      BY <1>3 DEF Below
    <3> QED BY <3>1
  <2>2. sorted_ = [i \in 1 .. n |-> CHOOSE e \in S : rank(e) = i - 1]
    BY DEF Q!Sorted, Q!Cardinality, Cardinality
  <2> HIDE DEF rank, sorted_, n
  <2>0. /\ n \in Nat
        /\ \A i \in 1 .. n : \E e \in S : Cardinality(Below(S, R, e)) = i - 1
        /\ \A s \in [1 .. n -> S] :
             (\A i \in 1 .. n : Cardinality(Below(S, R, s[i])) = i - 1)
               => \A e \in S : \E i \in 1 .. n : s[i] = e
    BY <1>8 DEF Ranked, n
  <2>3. \A i \in 1 .. n : sorted_[i] \in S /\ rank(sorted_[i]) = i - 1
    BY <2>0, <2>1, <2>2
  <2>4. sorted_ \in [1 .. n -> S]
    BY <2>2, <2>3
  <2> QED BY <2>0, <2>1, <2>3, <2>4
<1> HIDE DEF sorted_
<1> HIDE DEF n
<1>10. sorted_ \in Seq(EntryRecords) /\ Len(sorted_) = n
  BY <1>1, <1>9
<1>11. Of(sorted_) = S
  BY <1>9, <1>10 DEF Of
<1> QED BY <1>1, <1>2, <1>9, <1>10, <1>11 DEF sorted_, S, m

(* A number that fits has a least one. *)
LEMMA LeastOf ==
  ASSUME NEW T \in SUBSET Nat, NEW n \in T
  PROVE  \E k \in T : \A j \in T : ~(j < k)
<1>1. PICK k \in T : \A j \in T : <<j, k>> \notin OpToRel(<, Nat)
  BY NatLessThanWellFounded, WFMin
<1> QED BY <1>1 DEF OpToRel

(* The words of a chunk that are not 0, as entries. *)
LEMMA NonZeroOf ==
  ASSUME NEW D \in SUBSET Nat, IsFiniteSet(D), NEW data \in [D -> WordValues]
  PROVE  /\ Q!NonZero(data) \in Seq(Q!Entries)
         /\ \A e : e \in Of(Q!NonZero(data)) <=>
              \E a \in D : data[a] # 0 /\ e = [value |-> data[a], address |-> a]
<1> DEFINE I == {a \in D : data[a] # 0}
           n == Cardinality(I)
           some == Places(I)
           list == Q!NonZero(data)
<1>1. I \in SUBSET Nat /\ IsFiniteSet(I) /\ \A a : a \in I <=> a \in D /\ data[a] # 0
  BY FS_Subset
<1>2. DOMAIN data = D
  OBVIOUS
<1>3. list = [i \in DOMAIN some |-> [value |-> data[some[i]], address |-> some[i]]]
  BY <1>2, ScanLibrary DEF Q!NonZero
<1> HIDE DEF I, list
<1>4. /\ n \in Nat /\ some \in [1 .. n -> I] /\ \A a \in I : \E i \in 1 .. n : some[i] = a
  BY <1>1, PlacesOf
<1> HIDE DEF n, some
<1>5. /\ DOMAIN list = 1 .. n
      /\ \A i \in 1 .. n : list[i] = [value |-> data[some[i]], address |-> some[i]]
      /\ \A i \in 1 .. n : some[i] \in D /\ some[i] \in Nat /\ data[some[i]] \in WordValues
                            /\ data[some[i]] # 0
  BY <1>1, <1>3, <1>4
<1>6. \A i \in 1 .. n : list[i] \in Q!Entries
  BY <1>5 DEF Q!Entries
<1>7. list \in [1 .. n -> Q!Entries]
  BY <1>3, <1>5, <1>6
<1>8. list \in Seq(Q!Entries) /\ Len(list) = n
  BY <1>4, <1>7
<1>9. ASSUME NEW e
      PROVE  e \in Of(list) <=>
               \E a \in D : data[a] # 0 /\ e = [value |-> data[a], address |-> a]
  <2>1. e \in Of(list) <=> \E i \in 1 .. n : e = list[i]
    BY <1>8 DEF Of
  <2>2. ASSUME NEW i \in 1 .. n, e = list[i]
        PROVE  \E a \in D : data[a] # 0 /\ e = [value |-> data[a], address |-> a]
    BY <1>5, <2>2
  <2>3. ASSUME NEW a \in D, data[a] # 0, e = [value |-> data[a], address |-> a]
        PROVE  \E i \in 1 .. n : e = list[i]
    <3>1. PICK i \in 1 .. n : some[i] = a
      BY <1>1, <1>4, <2>3
    <3> QED BY <1>5, <2>3, <3>1
  <2> QED BY <2>1, <2>2, <2>3
<1> QED BY <1>8, <1>9 DEF list

(* What is new among the chains got, each once. *)
LEMMA NewOfOf ==
  ASSUME NEW got \in Seq(ChainRecords), chains \in Seq(ChainRecords)
  PROVE  /\ Q!NewOf(got) \in Seq(ChainRecords) /\ IsInjective(Q!NewOf(got))
         /\ Of(Q!NewOf(got)) = Of(got) \ Of(chains)
<1> DEFINE m == Len(got)
           I == {i \in DOMAIN got : /\ got[i] \notin Q!Range(chains)
                                      /\ \A j \in 1 .. i - 1 : got[j] # got[i]}
           new == Picked(got, I)
<1>1. /\ m \in Nat /\ DOMAIN got = 1 .. m /\ Q!Range(chains) = Of(chains)
      /\ \A x : x \in Of(got) <=> \E i \in 1 .. m : x = got[i]
  BY InOf
<1>2. Q!NewOf(got) = new
  BY ScanLibrary DEF Q!NewOf
<1>3. I \in SUBSET (1 .. m)
      /\ \A i : i \in I <=> /\ i \in 1 .. m /\ got[i] \notin Of(chains)
                            /\ \A j \in 1 .. i - 1 : got[j] # got[i]
  BY <1>1
<1> HIDE DEF I
<1>4. \A i, j \in I : got[i] = got[j] => i = j
  <2> SUFFICES ASSUME NEW i \in I, NEW j \in I, i # j PROVE got[i] # got[j]
    OBVIOUS
  <2>1. i \in Nat \ {0} /\ j \in Nat \ {0}
    BY <1>1, <1>3
  <2>2. CASE i < j
    <3>1. i \in 1 .. j - 1
      BY <2>1, <2>2
    <3> QED BY <1>3, <3>1
  <2>3. CASE j < i
    <3>1. j \in 1 .. i - 1
      BY <2>1, <2>3
    <3> QED BY <1>3, <3>1
  <2> QED BY <2>1, <2>2, <2>3
<1>5. /\ new \in Seq(ChainRecords) /\ Of(new) = {got[i] : i \in I}
      /\ (\A i, j \in I : got[i] = got[j] => i = j) => IsInjective(new)
  <2> HIDE DEF new, m
  <2>1. LET some == Picked(got, I) IN
          /\ some \in Seq(ChainRecords) /\ Of(some) = {got[i] : i \in I}
          /\ (\A i, j \in I : got[i] = got[j] => i = j) => IsInjective(some)
    <3>1. I \in SUBSET (1 .. Len(got))
      BY <1>3 DEF m
    <3> QED BY ONLY got \in Seq(ChainRecords), <3>1, PickedOf
  <2> QED BY <2>1 DEF new
<1> HIDE DEF new
<1>6. ASSUME NEW x \in Of(got) \ Of(chains)
      PROVE  \E i \in I : x = got[i]
  <2> DEFINE T == {i \in 1 .. m : got[i] = x}
  <2>1. PICK i \in T : TRUE
    BY <1>1, <1>6
  <2>2. T \in SUBSET Nat
    BY <1>1
  <2>3. PICK k \in T : \A j \in T : ~(j < k)
    BY ONLY <2>1, <2>2, LeastOf
  <2>4. k \in 1 .. m /\ got[k] = x
    BY <2>3
  <2>5. \A j \in 1 .. k - 1 : got[j] # got[k]
    <3> SUFFICES ASSUME NEW j \in 1 .. k - 1, got[j] = got[k] PROVE FALSE
      OBVIOUS
    <3>1. j \in T /\ j < k
      BY <1>1, <2>4
    <3> QED BY <2>3, <3>1
  <2>6. k \in I
    BY <1>3, <1>6, <2>4, <2>5
  <2> QED BY <2>4, <2>6
<1>7. \A i \in I : got[i] \in Of(got) /\ got[i] \notin Of(chains)
  BY <1>1, <1>3
<1>8. Of(new) = Of(got) \ Of(chains)
  BY ONLY <1>5, <1>6, <1>7
<1> QED BY <1>2, <1>4, <1>5, <1>8

(* Taking the chains of a layer. *)
Taken(got, new) ==
  /\ chains' \in Seq(ChainRecords) /\ IsInjective(chains') /\ Len(chains') <= MaxResults
  /\ new \in Seq(ChainRecords) /\ new = SubSeq(chains', Len(chains) + 1, Len(chains'))
  /\ Of(new) \subseteq Of(got) /\ Of(chains') = Of(chains) \cup Of(new)
  /\ limited' \in BOOLEAN /\ (Len(chains') >= MaxResults => limited')
  /\ ~limited' => ~limited /\ Of(new) = Of(got) \ Of(chains)

LEMMA TakeOf ==
  ASSUME NEW got \in Seq(ChainRecords), chains \in Seq(ChainRecords), IsInjective(chains),
         Len(chains) <= MaxResults, limited \in BOOLEAN, Q!Take(got)
  PROVE  Taken(got, SubSeq(chains', Len(chains) + 1, Len(chains')))
<1> DEFINE new == Q!NewOf(got)
           k == IF Len(new) < MaxResults - Len(chains) THEN Len(new)
                ELSE MaxResults - Len(chains)
           kept == SubSeq(new, 1, k)
           n == Len(chains)
<1>1. /\ new \in Seq(ChainRecords) /\ IsInjective(new) /\ Of(new) = Of(got) \ Of(chains)
  BY NewOfOf
<1>2. n \in Nat /\ MaxResults \in Nat /\ Len(new) \in Nat
  BY <1>1, ScanConstants
<1>3. chains' = chains \o kept /\ limited' = (limited \/ Len(chains') >= MaxResults)
  <2>1. Q!Min2(Len(new), MaxResults - Len(chains)) = k
    BY ScanLibrary
  <2> HIDE DEF k
  <2> QED BY <2>1 DEF Q!Take
<1> HIDE DEF new
<1>4. k \in Nat /\ k <= Len(new) /\ k <= MaxResults - n /\ (k = Len(new) \/ k = MaxResults - n)
  BY <1>2
<1> HIDE DEF k
<1>5. /\ kept \in Seq(ChainRecords) /\ IsInjective(kept) /\ Len(kept) = k
      /\ \A x : x \in Of(kept) <=> \E i \in 1 .. k : x = new[i]
  <2>1. LET some == SubSeq(new, 0 + 1, k) IN
          /\ some \in Seq(ChainRecords)
          /\ \A x : x \in Of(some) <=> \E i \in 0 + 1 .. k : x = new[i]
          /\ IsInjective(new) => IsInjective(some)
    <3>1. new \in Seq(ChainRecords) /\ 0 \in Nat /\ k \in Nat /\ k <= Len(new)
      BY <1>1, <1>4
    <3> QED BY ONLY <3>1, OfPart
  <2>2. SubSeq(new, 0 + 1, k) = kept /\ 0 + 1 .. k = 1 .. k
    OBVIOUS
  <2>3. Len(kept) = k
    BY <1>1, <1>4
  <2> HIDE DEF kept
  <2> QED BY <1>1, <2>1, <2>2, <2>3
<1> HIDE DEF kept
<1>6. Of(kept) \subseteq Of(new) /\ (k = Len(new) => Of(kept) = Of(new))
  <2>1. \A x : x \in Of(new) <=> \E i \in 1 .. Len(new) : x = new[i]
    BY <1>1, InOf
  <2>2. 1 .. k \subseteq 1 .. Len(new)
    BY <1>2, <1>4
  <2> QED BY <1>5, <2>1, <2>2
<1>7. /\ chains' \in Seq(ChainRecords) /\ Of(chains') = Of(chains) \cup Of(kept)
      /\ IsInjective(chains')
  <2>1. Of(chains) \cap Of(kept) = {}
    BY <1>1, <1>6
  <2> QED BY <1>3, <1>5, <2>1, OfJoined
<1>8. Len(chains') = n + k /\ SubSeq(chains', n + 1, Len(chains')) = kept
  <2>1. Len(chains') = n + k
    <3>1. Len(chains \o kept) = Len(chains) + Len(kept)
      BY ONLY chains \in Seq(ChainRecords), <1>5
    <3> QED BY <1>3, <1>5, <3>1
  <2>2. SubSeq(chains', n + 1, n + k) = kept
    <3> DEFINE s == SubSeq(chains', n + 1, n + k)
    <3>1. chains' \in Seq(ChainRecords) /\ n + 1 \in Nat /\ n + k \in Nat
      BY <1>2, <1>4, <1>7
    <3>2. DOMAIN s = 1 .. k /\ \A i \in 1 .. k : s[i] = chains'[n + i]
      BY <1>2, <1>4, <1>7, <2>1
    <3>3. \A i \in 1 .. k : chains'[n + i] = kept[i]
      BY <1>2, <1>3, <1>4, <1>5
    <3>4. DOMAIN kept = 1 .. k /\ kept = [i \in DOMAIN kept |-> kept[i]]
      BY <1>5
    <3>5. s = [i \in DOMAIN s |-> s[i]]
      <4>1. LET some == SubSeq(chains', n + 1, n + k) IN some \in Seq(ChainRecords)
        BY ONLY <1>2, <1>4, <1>7, <2>1, OfPart
      <4> HIDE DEF s
      <4> QED BY <4>1 DEF s
    <3> HIDE DEF s
    <3> QED BY <3>2, <3>3, <3>4, <3>5 DEF s
  <2> QED BY <2>1, <2>2
<1>9. /\ limited' \in BOOLEAN /\ (Len(chains') >= MaxResults => limited')
      /\ (~limited' => ~limited /\ ~(n + k >= MaxResults))
  <2>1. limited' = (limited \/ n + k >= MaxResults)
    BY <1>3, <1>8
  <2>2. Len(chains') = n + k
    BY <1>8
  <2> QED BY ONLY <2>1, <2>2
<1>10. ~limited' => k = Len(new)
  BY <1>2, <1>4, <1>9
<1>11. Taken(got, kept)
  <2>1. chains' \in Seq(ChainRecords) /\ IsInjective(chains') /\ Len(chains') <= MaxResults
    BY <1>2, <1>4, <1>7, <1>8
  <2>2. Of(kept) \subseteq Of(got) /\ Of(chains') = Of(chains) \cup Of(kept)
    BY <1>1, <1>6, <1>7
  <2>3. ~limited' => ~limited /\ Of(kept) = Of(got) \ Of(chains)
    BY <1>1, <1>6, <1>9, <1>10
  <2>4. kept = SubSeq(chains', Len(chains) + 1, Len(chains'))
    BY <1>8
  <2> HIDE DEF n
  <2> QED BY ONLY <1>5, <1>9, <2>1, <2>2, <2>3, <2>4 DEF Taken
<1> QED BY <1>8, <1>11

-----------------------------------------------------------------------------
(* The chains of the search. *)
Near == -MaxOffset .. MaxOffset
Items(n) == ItemsOf(Of(entries), n, Target, Near)

LEMMA WindowOf ==
  ASSUME entries \in Seq(EntryRecords), NEW wanted \in Int
  PROVE  /\ Q!Window(wanted) \in Seq(EntryRecords)
         /\ \A e : e \in Of(Q!Window(wanted)) <=> e \in Of(entries) /\ wanted - e.value \in Near
<1> DEFINE Hits == {e \in EntryRecords : wanted - e.value \in Near}
           I == {i \in DOMAIN entries : entries[i].value \in wanted - MaxOffset .. wanted + MaxOffset}
<1>1. /\ DOMAIN entries = 1 .. Len(entries) /\ Of(entries) \subseteq EntryRecords
      /\ \A i \in 1 .. Len(entries) : entries[i] \in EntryRecords
  BY InOf
<1>2. MaxOffset \in Nat
  BY ScanConstants
<1>3. \A e \in EntryRecords :
        e.value \in wanted - MaxOffset .. wanted + MaxOffset <=> wanted - e.value \in Near
  <2> TAKE e \in EntryRecords
  <2>1. e.value \in Int
    BY DEF EntryRecords
  <2> QED BY <1>2, <2>1 DEF Near
<1>4. I = {i \in DOMAIN entries : entries[i] \in Hits}
  BY <1>1, <1>3
<1>5. Q!Window(wanted) = KeptBy(entries, Hits)
  <2>1. Q!Window(wanted) = Picked(entries, I)
    BY ScanLibrary DEF Q!Window
  <2> HIDE DEF I
  <2> QED BY <1>4, <2>1 DEF KeptBy
<1>6. \A e : e \in Hits <=> e \in EntryRecords /\ wanted - e.value \in Near
  OBVIOUS
<1> HIDE DEF Hits
<1> QED BY <1>1, <1>5, <1>6, KeptOf

LEMMA TailsOf ==
  ASSUME level \in Seq(ChainRecords), NEW wanted
  PROVE  /\ Q!Tails(wanted) \in Seq(ChainRecords)
         /\ \A c : c \in Of(Q!Tails(wanted)) <=> c \in Of(level) /\ c.base = wanted
<1> DEFINE Hits == {c \in ChainRecords : c.base = wanted}
           I == {i \in DOMAIN level : level[i].base = wanted}
<1>1. /\ DOMAIN level = 1 .. Len(level) /\ Of(level) \subseteq ChainRecords
      /\ \A i \in 1 .. Len(level) : level[i] \in ChainRecords
  BY InOf
<1>2. I = {i \in DOMAIN level : level[i] \in Hits}
  BY <1>1
<1>3. Q!Tails(wanted) = KeptBy(level, Hits)
  <2>1. Q!Tails(wanted) = Picked(level, I)
    BY ScanLibrary DEF Q!Tails
  <2> HIDE DEF I
  <2> QED BY <1>2, <2>1 DEF KeptBy
<1>4. \A c : c \in Hits <=> c \in ChainRecords /\ c.base = wanted
  OBVIOUS
<1> HIDE DEF Hits
<1> QED BY <1>1, <1>3, <1>4, KeptOf

LEMMA InFrontOfTyped ==
  \A e \in EntryRecords, c \in ChainRecords : InFrontOf(e, c) \in ChainRecords
<1> TAKE e \in EntryRecords, c \in ChainRecords
<1>1. e.value \in Int /\ e.address \in Int /\ c.base \in Int /\ c.offsets \in Seq(Int)
  BY DEF EntryRecords, ChainRecords
<1>2. <<c.base - e.value>> \in Seq(Int)
  BY <1>1
<1>3. <<c.base - e.value>> \o c.offsets \in Seq(Int)
  BY <1>1, <1>2
<1> QED BY <1>1, <1>3 DEF InFrontOf, ChainRecords

LEMMA InItemsBack ==
  ASSUME NEW items
  PROVE  \A x : x \in BackOf(items, Of(entries), Near) <=>
           \E c \in items, e \in Of(entries) : c.base - e.value \in Near /\ x = InFrontOf(e, c)
BY InBack

(* The first layer: the words near the target. *)
Links == LET near_ == Q!Window(Target) IN [i \in DOMAIN near_ |-> Q!Link(near_[i], Target)]

LEMMA LinksOf ==
  ASSUME entries \in Seq(EntryRecords)
  PROVE  Links \in Seq(ChainRecords) /\ Of(Links) = Items(1)
<1> DEFINE near_ == Q!Window(Target)
           m == Len(near_)
           goal == [base |-> Target, offsets |-> <<>>]
<1>1. Target \in Int
  BY ScanConstants
<1>2. /\ near_ \in Seq(EntryRecords)
      /\ \A e : e \in Of(near_) <=> e \in Of(entries) /\ Target - e.value \in Near
  BY <1>1, WindowOf
<1> HIDE DEF near_
<1>3. /\ m \in Nat /\ DOMAIN near_ = 1 .. m /\ \A i \in 1 .. m : near_[i] \in EntryRecords
      /\ \A e : e \in Of(near_) <=> \E i \in 1 .. m : e = near_[i]
  BY <1>2, InOf
<1>4. goal \in ChainRecords /\ goal.base = Target /\ goal.offsets = <<>>
  BY <1>1 DEF ChainRecords
<1>5. \A e \in EntryRecords : Q!Link(e, Target) = InFrontOf(e, goal) /\ InFrontOf(e, goal) \in ChainRecords
  <2> TAKE e \in EntryRecords
  <2>1. Target - e.value \in Int
    BY <1>1 DEF EntryRecords
  <2>2. <<Target - e.value>> \o <<>> = <<Target - e.value>>
    BY <2>1
  <2> QED BY <1>4, <2>2, InFrontOfTyped DEF Q!Link, InFrontOf
<1> HIDE DEF goal
<1>6. /\ Links \in [1 .. m -> ChainRecords]
      /\ \A i \in 1 .. m : Links[i] = InFrontOf(near_[i], goal)
  BY <1>3, <1>5 DEF Links, near_
<1> HIDE DEF m
<1>7. Links \in Seq(ChainRecords) /\ Len(Links) = m
  BY <1>3, <1>6
<1>8. \A x : x \in Of(Links) <=> \E i \in 1 .. m : x = InFrontOf(near_[i], goal)
  BY <1>6, <1>7 DEF Of
<1>9. \A x : x \in Of(Links) <=> \E e \in Of(near_) : x = InFrontOf(e, goal)
  BY ONLY <1>3, <1>8
<1>10. Items(1) = BackOf({goal}, Of(entries), Near)
  <2>1. Items(0) = {goal}
    BY NoItems DEF Items, goal
  <2>2. 0 \in Nat /\ 0 + 1 = 1
    OBVIOUS
  <2>3. Of(entries) \in SUBSET EntryRecords
    BY InOf
  <2>4. ItemsOf(Of(entries), 0 + 1, Target, Near) =
          BackOf(ItemsOf(Of(entries), 0, Target, Near), Of(entries), Near)
    BY <1>1, <2>2, <2>3, ItemsBack
  <2> QED BY <2>1, <2>2, <2>4 DEF Items
<1>11. \A x : x \in Items(1) <=>
         \E e \in Of(entries) : Target - e.value \in Near /\ x = InFrontOf(e, goal)
  BY <1>4, <1>10, InItemsBack
<1>12. \A x : x \in Items(1) <=> x \in Of(Links)
  BY ONLY <1>2, <1>9, <1>11
<1> QED BY <1>7, <1>12

(* Pairs, numbered. *)
LEMMA Grid ==
  ASSUME NEW m \in Nat, NEW n \in Nat \ {0}
  PROVE  /\ m * n \in Nat
         /\ \A k \in 1 .. m * n :
              (k - 1) \div n \in 0 .. m - 1 /\ (k - 1) % n \in 0 .. n - 1
         /\ \A q \in 0 .. m - 1, r \in 0 .. n - 1 :
              /\ q * n + r + 1 \in 1 .. m * n
              /\ (q * n + r + 1 - 1) \div n = q /\ (q * n + r + 1 - 1) % n = r
<1>1. m * n \in Nat
  OBVIOUS
<1>2. ASSUME NEW k \in 1 .. m * n
      PROVE  (k - 1) \div n \in 0 .. m - 1 /\ (k - 1) % n \in 0 .. n - 1
  <2>1. k \in Nat /\ k - 1 \in Nat /\ k - 1 < m * n
    BY <1>1
  <2>2. (k - 1) % n \in 0 .. n - 1 /\ (k - 1) \div n \in Nat
    BY <2>1
  <2>3. ((k - 1) \div n) * n <= k - 1
    BY <2>1
  <2>4. (k - 1) \div n < m
    <3> DEFINE q == (k - 1) \div n
    <3>1. q \in Nat /\ q * n < m * n
      BY <1>1, <2>1, <2>2, <2>3
    <3> HIDE DEF q
    <3>2. ~(m <= q)
      BY <3>1
    <3> QED BY <3>1, <3>2 DEF q
  <2> QED BY <2>2, <2>4
<1>3. ASSUME NEW q \in 0 .. m - 1, NEW r \in 0 .. n - 1
      PROVE  /\ q * n + r + 1 \in 1 .. m * n
             /\ (q * n + r + 1 - 1) \div n = q /\ (q * n + r + 1 - 1) % n = r
  <2>1. q \in Nat /\ r \in Nat /\ q + 1 <= m /\ r + 1 <= n /\ q * n \in Nat
    OBVIOUS
  <2>2. (q + 1) * n <= m * n /\ (q + 1) * n = q * n + n
    BY <2>1
  <2>3. q * n + r + 1 - 1 = q * n + r
    BY <2>1
  <2>4. (q * n + r) \div n = q /\ (q * n + r) % n = r
    BY <2>1
  <2> QED BY <1>1, <2>1, <2>2, <2>3, <2>4
<1> QED BY <1>1, <1>2, <1>3

(* The chains found behind the chain whose turn it is.                      *)
Behind(b) == BackOf({c \in Of(level) : c.base = b}, Of(entries), Near)

LEMMA ExtendedOf ==
  ASSUME entries \in Seq(EntryRecords), level \in Seq(ChainRecords), NEW b \in Int
  PROVE  Q!Extended(b) \in Seq(ChainRecords) /\ Of(Q!Extended(b)) = Behind(b)
<1> DEFINE near_ == Q!Window(b)
           tails == Q!Tails(b)
           m == Len(near_)
           n == Len(tails)
           more == Q!Extended(b)
           Entry(k) == near_[((k - 1) \div n) + 1]
           Old(k) == tails[((k - 1) % n) + 1]
<1>1. /\ near_ \in Seq(EntryRecords)
      /\ \A e : e \in Of(near_) <=> e \in Of(entries) /\ b - e.value \in Near
  BY WindowOf
<1>2. /\ tails \in Seq(ChainRecords)
      /\ \A c : c \in Of(tails) <=> c \in Of(level) /\ c.base = b
  BY TailsOf
<1>3. more = [k \in 1 .. m * n |->
                [base |-> Entry(k).address, offsets |-> <<b - Entry(k).value>> \o Old(k).offsets]]
  BY DEF Q!Extended
<1> HIDE DEF near_, tails, more
<1>4. /\ m \in Nat /\ \A i \in 1 .. m : near_[i] \in EntryRecords
      /\ \A e : e \in Of(near_) <=> \E i \in 1 .. m : e = near_[i]
  <2>1. m \in Nat /\ \A i \in 1 .. m : near_[i] \in EntryRecords
    BY ONLY <1>1
  <2>2. \A e : e \in Of(near_) <=> \E i \in 1 .. m : e = near_[i]
    BY DEF Of
  <2> QED BY <2>1, <2>2
<1>5. /\ n \in Nat /\ \A j \in 1 .. n : tails[j] \in ChainRecords
      /\ \A c : c \in Of(tails) <=> \E j \in 1 .. n : c = tails[j]
  BY <1>2, InOf
<1> HIDE DEF m, n
<1>6. \A c : c \in Of(tails) => c.base = b
  BY <1>2
<1>7. \A x : x \in Behind(b) <=>
        \E c \in Of(tails), e \in Of(near_) : x = InFrontOf(e, c)
  <2> DEFINE items == {c \in Of(level) : c.base = b}
  <2>1. \A c : c \in items <=> c \in Of(tails)
    BY <1>2
  <2>2. \A x : x \in Behind(b) <=>
          \E c \in items, e \in Of(entries) : c.base - e.value \in Near /\ x = InFrontOf(e, c)
    BY InItemsBack DEF Behind
  <2> HIDE DEF items
  <2> QED BY ONLY <1>1, <1>6, <2>1, <2>2
<1>8. ASSUME NEW k \in 1 .. m * n
      PROVE  Entry(k) \in Of(near_) /\ Old(k) \in Of(tails) /\ more[k] = InFrontOf(Entry(k), Old(k))
  <2>1. n # 0
    BY <1>4, <1>8
  <2>2. (k - 1) \div n \in 0 .. m - 1 /\ (k - 1) % n \in 0 .. n - 1
    BY <1>4, <1>5, <2>1, Grid
  <2>3. ((k - 1) \div n) + 1 \in 1 .. m /\ ((k - 1) % n) + 1 \in 1 .. n
    BY <1>4, <1>5, <2>2
  <2>4. Entry(k) \in Of(near_) /\ Old(k) \in Of(tails)
    BY <1>4, <1>5, <2>3
  <2>5. Old(k).base = b
    BY <1>6, <2>4
  <2>6. more[k] = [base |-> Entry(k).address, offsets |-> <<b - Entry(k).value>> \o Old(k).offsets]
    BY <1>3
  <2> HIDE DEF Entry, Old
  <2> QED BY <2>4, <2>5, <2>6 DEF InFrontOf
<1>9. ASSUME NEW c \in Of(tails), NEW e \in Of(near_)
      PROVE  \E k \in 1 .. m * n : InFrontOf(e, c) = InFrontOf(Entry(k), Old(k))
  <2>1. PICK i \in 1 .. m : e = near_[i]
    BY <1>4
  <2>2. PICK j \in 1 .. n : c = tails[j]
    BY <1>5
  <2> DEFINE q == i - 1
             r == j - 1
             k == q * n + r + 1
  <2>3. n # 0 /\ q \in 0 .. m - 1 /\ r \in 0 .. n - 1 /\ q + 1 = i /\ r + 1 = j
    BY <1>4, <1>5
  <2> HIDE DEF q, r
  <2>4. k \in 1 .. m * n /\ (k - 1) \div n = q /\ (k - 1) % n = r
    BY <1>4, <1>5, <2>3, Grid
  <2> HIDE DEF k
  <2>5. Entry(k) = near_[i] /\ Old(k) = tails[j]
    BY <2>3, <2>4
  <2> HIDE DEF Entry, Old
  <2> QED BY <2>1, <2>2, <2>4, <2>5
<1> HIDE DEF Entry, Old
<1>10. m * n \in Nat
  BY <1>4, <1>5
<1>11. \A k \in 1 .. m * n : more[k] \in ChainRecords
  BY <1>4, <1>5, <1>8, InFrontOfTyped
<1>12. more \in [1 .. m * n -> ChainRecords]
  BY <1>3, <1>11
<1>13. more \in Seq(ChainRecords) /\ Len(more) = m * n
  BY <1>10, <1>12
<1>14. \A x : x \in Of(more) <=> \E k \in 1 .. m * n : x = more[k]
  BY <1>13 DEF Of
<1>15. \A x : x \in Of(more) <=> x \in Behind(b)
  BY ONLY <1>7, <1>8, <1>9, <1>14
<1> QED BY <1>13, <1>15 DEF more

(* Chains of n words have n offsets. *)
LEMMA ItemsOfWords ==
  \A n, x : n \in Nat /\ x \in Items(n) => DOMAIN x.offsets = 1 .. n
<1> SUFFICES ASSUME NEW n \in Nat, NEW x \in Items(n) PROVE DOMAIN x.offsets = 1 .. n
  OBVIOUS
<1>1. PICK w : x = WayChain(n, w, Target)
  BY InItemsOf DEF Items
<1> QED BY <1>1 DEF WayChain

LEMMA ItemsDiffer ==
  ASSUME NEW m \in Nat, NEW n \in Nat, m < n
  PROVE  Items(m) \cap Items(n) = {}
<1> SUFFICES ASSUME NEW x \in Items(m), x \in Items(n) PROVE FALSE
  OBVIOUS
<1>1. 1 .. m = 1 .. n
  BY ItemsOfWords
<1>2. n \in 1 .. n /\ n \notin 1 .. m
  OBVIOUS
<1> QED BY <1>1, <1>2

LEMMA NextItems ==
  ASSUME entries \in Seq(EntryRecords), NEW n \in Nat
  PROVE  /\ Items(n + 1) = BackOf(Items(n), Of(entries), Near)
         /\ Items(n) \subseteq ChainRecords
<1>1. Of(entries) \in SUBSET EntryRecords /\ Target \in Int
  BY InOf, ScanConstants
<1> QED BY <1>1, ItemsBack, ItemsTyped DEF Items

(* Without chains of n words there are none of more. *)
LEMMA NoMoreItems ==
  ASSUME entries \in Seq(EntryRecords), NEW n \in Nat, Items(n) = {}
  PROVE  \A m \in Nat : Items(n + m) = {}
<1> DEFINE T == {m \in Nat : Items(n + m) = {}}
<1>1. 0 \in T
  OBVIOUS
<1>2. ASSUME NEW m \in T PROVE m + 1 \in T
  <2>1. n + m \in Nat /\ n + (m + 1) = (n + m) + 1 /\ Items(n + m) = {} /\ m + 1 \in Nat
    OBVIOUS
  <2>2. Items(n + (m + 1)) = BackOf({}, Of(entries), Near)
    BY <2>1, NextItems
  <2>3. \A x : x \notin BackOf({}, Of(entries), Near)
    BY InItemsBack
  <2> QED BY <2>1, <2>2, <2>3
<1>3. T \in SUBSET Nat
  OBVIOUS
<1> HIDE DEF T
<1>4. \A m \in Nat : m \in T
  BY <1>1, <1>2, <1>3, SetInduction
<1> QED BY <1>4 DEF T

-----------------------------------------------------------------------------
(* The positions of the regions. *)
PosOf(k) ==
  {a \in Regions[k].start .. Regions[k].end - Word : request.byteStep \/ a % Word = 0}
Reached ==
  {a \in Nat : \E k \in 1 .. Len(Regions) : a \in PosOf(k) /\ (k < region \/ (k = region /\ a < cursor))}

(* A multiple of the word. *)
LEMMA Parts ==
  \A a \in Nat : /\ a \div Word \in Nat /\ a % Word \in 0 .. Word - 1
                 /\ a = (a \div Word) * Word + (a % Word)
<1>1. Word \in Nat \ {0}
  BY ScanConstants
<1> QED BY ONLY <1>1

LEMMA Multiples ==
  ASSUME NEW p \in Nat, NEW q \in Nat
  PROVE  /\ p * Word \in Nat /\ (p * Word) % Word = 0
         /\ p * Word < q * Word + Word => p * Word <= q * Word
         /\ p * Word < q * Word => p * Word + Word <= q * Word
<1>1. Word \in Nat \ {0}
  BY ScanConstants
<1>2. p * Word \in Nat /\ (p * Word) % Word = 0
  BY ONLY <1>1, p \in Nat
<1>3. p <= q => p * Word <= q * Word
  BY ONLY <1>1, p \in Nat, q \in Nat
<1>4. p >= q + 1 => p * Word >= (q + 1) * Word
  BY ONLY <1>1, p \in Nat, q \in Nat
<1>5. (q + 1) * Word = q * Word + Word
  BY ONLY <1>1, q \in Nat
<1>6. p + 1 <= q => (p + 1) * Word <= q * Word
  BY ONLY <1>1, p \in Nat, q \in Nat
<1>7. (p + 1) * Word = p * Word + Word
  BY ONLY <1>1, p \in Nat
<1>8. p >= q => p * Word >= q * Word
  BY ONLY <1>1, p \in Nat, q \in Nat
<1>9. p * Word < q * Word + Word => p <= q
  <2> DEFINE x == p * Word
             y == q * Word
             z == (q + 1) * Word
  <2>1. x \in Nat /\ y \in Nat
    BY ONLY <1>1, p \in Nat, q \in Nat
  <2>2. z = y + Word /\ (p >= q + 1 => x >= z)
    BY <1>4, <1>5
  <2> HIDE DEF x, y, z
  <2>3. x < y + Word => p <= q
    BY <1>1, <2>1, <2>2
  <2> QED BY <2>3 DEF x, y
<1>10. p * Word < q * Word => p + 1 <= q
  <2>1. p * Word \in Nat /\ q * Word \in Nat
    BY ONLY <1>1, p \in Nat, q \in Nat
  <2> QED BY <1>8, <2>1
<1> QED BY <1>1, <1>2, <1>3, <1>6, <1>7, <1>9, <1>10

LEMMA AlignedOf ==
  ASSUME NEW a \in Nat
  PROVE  /\ Q!Aligned(a) \in Nat /\ Q!Aligned(a) >= a /\ Q!Aligned(a) % Word = 0
         /\ \A b \in Nat : b >= a /\ b % Word = 0 => b >= Q!Aligned(a)
<1> DEFINE up == a + Word - 1
           q == up \div Word
<1>1. Word \in Nat \ {0} /\ up \in Nat
  BY ScanConstants
<1>2. q \in Nat /\ up % Word \in 0 .. Word - 1 /\ up = q * Word + (up % Word)
  BY <1>1, Parts
<1>3. Q!Aligned(a) = q * Word
  BY DEF Q!Aligned
<1> HIDE DEF q
<1>4. q * Word \in Nat /\ (q * Word) % Word = 0
  BY <1>2, Multiples
<1>5. q * Word >= a
  <2> DEFINE x == q * Word
  <2>1. x \in Nat /\ up = x + (up % Word)
    BY <1>2, <1>4
  <2> HIDE DEF x
  <2>2. x >= a
    BY <1>1, <1>2, <2>1
  <2> QED BY <2>2 DEF x
<1>6. ASSUME NEW b \in Nat, b >= a, b % Word = 0 PROVE b >= q * Word
  <2> DEFINE p == b \div Word
  <2>1. p \in Nat /\ b = p * Word
    <3>1. p \in Nat /\ b % Word \in 0 .. Word - 1 /\ b = p * Word + (b % Word)
      BY Parts
    <3>2. p * Word \in Nat
      BY <3>1, Multiples
    <3> QED BY <1>6, <3>1, <3>2
  <2> HIDE DEF p
  <2>2. q * Word < p * Word + Word
    <3>1. up < b + Word
      BY <1>1, <1>6
    <3> QED BY <1>1, <1>2, <1>4, <2>1, <3>1
  <2>3. q * Word <= p * Word
    BY <1>2, <2>1, <2>2, Multiples
  <2> QED BY <2>1, <2>3
<1> QED BY <1>3, <1>4, <1>5, <1>6

(* The length of a chunk. *)
Rest == Regions[region].end - cursor

LEMMA LengthOf ==
  ASSUME region \in 1 .. Len(Regions), cursor \in Nat, request.byteStep \in BOOLEAN,
         cursor < Regions[region].end
  PROVE  /\ Rest \in Nat /\ Q!Length \in Nat /\ Q!Length <= Rest
         /\ ~request.byteStep => Q!Length % Word = 0
         /\ Q!Length < Word => Rest < Word
<1> DEFINE n == IF Rest < Chunk THEN Rest ELSE Chunk
           q == n \div Word
<1>1. Rest \in Nat \ {0} /\ Chunk \in Nat \ {0} /\ Word \in Nat \ {0} /\ Word < Chunk
  BY ScanConstants DEF Rest
<1>2. Q!Length = IF request.byteStep THEN n ELSE q * Word
  BY ScanLibrary DEF Q!Length, Rest
<1> HIDE DEF Rest
<1>3. n \in Nat /\ n <= Rest /\ (n < Word => Rest < Word)
  BY <1>1
<1> HIDE DEF n
<1>4. q \in Nat /\ n % Word \in 0 .. Word - 1 /\ n = q * Word + (n % Word)
  BY <1>3, Parts
<1> HIDE DEF q
<1>5. q * Word \in Nat /\ (q * Word) % Word = 0
  BY <1>4, Multiples
<1>6. q * Word < Word => q * Word = 0
  <2>1. 0 * Word = 0
    BY <1>1
  <2> QED BY <1>1, <1>4, <1>5, <2>1, Multiples
<1>7. CASE request.byteStep
  BY <1>1, <1>2, <1>3, <1>7
<1>8. CASE ~request.byteStep
  BY <1>1, <1>2, <1>3, <1>4, <1>5, <1>6, <1>8, SMTT(30)
<1> QED BY <1>7, <1>8

LEMMA Multiple ==
  ASSUME NEW a \in Nat, a % Word = 0
  PROVE  \E p \in Nat : a = p * Word
<1> DEFINE p == a \div Word
<1>1. p \in Nat /\ a % Word \in 0 .. Word - 1 /\ a = p * Word + (a % Word)
  BY Parts
<1>2. p * Word \in Nat
  BY <1>1, Multiples
<1> HIDE DEF p
<1> QED BY <1>1, <1>2

LEMMA Shifted ==
  ASSUME NEW c \in Nat, c % Word = 0, NEW d \in Nat
  PROVE  d % Word = 0 <=> (c + d) % Word = 0
<1>0. Word \in Nat \ {0}
  BY ScanConstants
<1>1. PICK q \in Nat : c = q * Word
  BY Multiple
<1>2. ASSUME d % Word = 0 PROVE (c + d) % Word = 0
  <2>1. PICK p \in Nat : d = p * Word
    BY <1>2, Multiple
  <2>2. c + d = (q + p) * Word /\ q + p \in Nat
    BY <1>0, <1>1, <2>1
  <2> QED BY <2>2, Multiples
<1>3. ASSUME (c + d) % Word = 0 PROVE d % Word = 0
  <2>0. c + d \in Nat
    OBVIOUS
  <2>1. PICK p \in Nat : c + d = p * Word
    BY <1>3, <2>0, Multiple
  <2>2. q <= p
    <3> SUFFICES ASSUME p < q PROVE FALSE
      OBVIOUS
    <3>1. p + 1 <= q
      OBVIOUS
    <3>2. (p + 1) * Word <= q * Word /\ (p + 1) * Word = p * Word + Word
      BY ONLY <1>0, <3>1, p \in Nat, q \in Nat
    <3> DEFINE x == p * Word
    <3>3. x \in Nat /\ c >= x + Word /\ c + d = x
      BY <1>1, <2>1, <3>2
    <3> HIDE DEF x
    <3> QED BY <1>0, <3>3
  <2>3. p - q \in Nat /\ d = (p - q) * Word
    <3>1. p - q \in Nat
      BY <2>2
    <3>2. (p - q) * Word = p * Word - q * Word
      BY ONLY <1>0, p \in Nat, q \in Nat
    <3> QED BY <1>1, <2>1, <3>1, <3>2
  <2> QED BY <2>3, Multiples
<1> QED BY <1>2, <1>3

(* Where a chunk of these bytes has its words. *)
ReadAt(bytes) == {cursor + o : o \in Q!Offsets(bytes)}

LEMMA ReadAtOf ==
  ASSUME cursor \in Nat, NEW bytes \in Nat
  PROVE  /\ ReadAt(bytes) \in SUBSET Nat /\ IsFiniteSet(ReadAt(bytes))
         /\ \A a : a \in ReadAt(bytes) <=>
              /\ a \in Nat /\ cursor <= a /\ a <= cursor + bytes - Word
              /\ request.byteStep \/ (a - cursor) % Word = 0
<1>0. Word \in Nat \ {0}
  BY ScanConstants
<1>1. \A o : o \in Q!Offsets(bytes) <=>
        /\ o \in Nat /\ o <= bytes - Word /\ (request.byteStep \/ o % Word = 0)
  BY <1>0 DEF Q!Offsets
<1>2. \A a : a \in ReadAt(bytes) <=> \E o \in Q!Offsets(bytes) : a = cursor + o
  BY DEF ReadAt
<1>3. ASSUME NEW a
      PROVE  a \in ReadAt(bytes) <=>
              /\ a \in Nat /\ cursor <= a /\ a <= cursor + bytes - Word
              /\ request.byteStep \/ (a - cursor) % Word = 0
  <2>1. ASSUME NEW o \in Q!Offsets(bytes), a = cursor + o
        PROVE  /\ a \in Nat /\ cursor <= a /\ a <= cursor + bytes - Word
               /\ request.byteStep \/ (a - cursor) % Word = 0
    <3>1. o \in Nat /\ o <= bytes - Word /\ (request.byteStep \/ o % Word = 0)
      BY <1>1
    <3>2. a - cursor = o
      BY <2>1, <3>1
    <3> QED BY <1>0, <2>1, <3>1, <3>2
  <2>2. ASSUME a \in Nat, cursor <= a, a <= cursor + bytes - Word,
               request.byteStep \/ (a - cursor) % Word = 0
        PROVE  \E o \in Q!Offsets(bytes) : a = cursor + o
    <3> DEFINE o == a - cursor
    <3>1. o \in Nat /\ o <= bytes - Word /\ a = cursor + o
      BY <1>0, <2>2
    <3>2. request.byteStep \/ o % Word = 0
      BY <2>2
    <3> HIDE DEF o
    <3> QED BY <1>1, <3>1, <3>2
  <2> QED BY <1>2, <2>1, <2>2
<1>4. ReadAt(bytes) \in SUBSET Nat
  BY <1>3
<1>5. IsFiniteSet(ReadAt(bytes))
  <2>1. IsFiniteSet(cursor .. cursor + bytes)
    BY FS_Interval
  <2>2. ReadAt(bytes) \in SUBSET (cursor .. cursor + bytes)
    BY <1>0, <1>3
  <2> QED BY <2>1, <2>2, FS_Subset
<1> QED BY <1>3, <1>4, <1>5

(* Where the agent is in a region. *)
InRegion ==
  /\ region \in 1 .. Len(Regions) /\ cursor \in Nat /\ request.byteStep \in BOOLEAN
  /\ cursor >= Regions[region].start /\ (~request.byteStep => cursor % Word = 0)

LEMMA ChunkOf ==
  ASSUME InRegion, ~Q!EndOfRegion
  PROVE  /\ Q!Length \in Nat /\ Q!Length >= Word /\ cursor + Q!Length <= Regions[region].end
         /\ \A a : a \in ReadAt(Q!Length) <=>
              a \in PosOf(region) /\ cursor <= a /\ a < cursor + Q!Length - Q!Overlap
         /\ cursor + Q!Length - Q!Overlap \in Nat
         /\ cursor + Q!Length - Q!Overlap >= Regions[region].start
         /\ ~request.byteStep => (cursor + Q!Length - Q!Overlap) % Word = 0
<1> DEFINE n == Q!Length
           to == cursor + n - Q!Overlap
           end == Regions[region].end
           start == Regions[region].start
<1>0. /\ Word \in Nat \ {0} /\ start \in Nat /\ end \in Nat /\ cursor \in Nat
      /\ cursor >= start /\ request.byteStep \in BOOLEAN
  BY ScanConstants DEF InRegion
<1>1. cursor < end /\ ~(n < Word)
  BY <1>0 DEF Q!EndOfRegion
<1>2. /\ n \in Nat /\ n <= end - cursor /\ (~request.byteStep => n % Word = 0)
  BY <1>1, LengthOf DEF InRegion, Rest
<1>3. Q!Overlap = IF request.byteStep THEN Word - 1 ELSE 0
  BY DEF Q!Overlap
<1>4. \A a : a \in PosOf(region) <=>
        /\ a \in Int /\ start <= a /\ a <= end - Word
        /\ request.byteStep \/ a % Word = 0
  BY <1>0 DEF PosOf
<1>5. \A a : a \in ReadAt(n) <=>
              /\ a \in Nat /\ cursor <= a /\ a <= cursor + n - Word
              /\ request.byteStep \/ (a - cursor) % Word = 0
  BY <1>0, <1>2, ReadAtOf
<1>6. n >= Word /\ cursor + n <= end
  BY <1>0, <1>1, <1>2
<1>7. to \in Nat /\ to >= start
  BY <1>0, <1>2, <1>3, <1>6
<1>8. ASSUME ~request.byteStep PROVE cursor % Word = 0 /\ to = cursor + n /\ to % Word = 0
  <2>1. cursor % Word = 0 /\ to = cursor + n
    BY <1>0, <1>2, <1>3, <1>8 DEF InRegion
  <2> QED BY <1>0, <1>2, <1>8, <2>1, Shifted
<1>9. ASSUME NEW a
      PROVE  a \in ReadAt(n) <=> a \in PosOf(region) /\ cursor <= a /\ a < to
  <2> HIDE DEF n, end, start
  <2>1. CASE request.byteStep
    <3>1. to = cursor + n - (Word - 1)
      BY <1>3, <2>1
    <3>2. ASSUME a \in Int
          PROVE  (cursor <= a /\ a <= cursor + n - Word) <=>
                 (start <= a /\ a <= end - Word /\ cursor <= a /\ a < to)
      BY ONLY <1>0, <1>2, <1>6, <3>1, <3>2
    <3>3. a \in ReadAt(n) => a \in Nat /\ cursor <= a /\ a <= cursor + n - Word
      BY <1>5
    <3>4. a \in Int /\ cursor <= a => a \in Nat
      BY <1>0
    <3> HIDE DEF to
    <3> QED BY <1>4, <1>5, <2>1, <3>2, <3>4
  <2>2. CASE ~request.byteStep
    <3>1. cursor % Word = 0 /\ to = cursor + n /\ to % Word = 0
      BY <1>8, <2>2
    <3> HIDE DEF to
    <3>2. ASSUME NEW d \in Nat, a = cursor + d
          PROVE  a \in ReadAt(n) <=> a \in PosOf(region) /\ cursor <= a /\ a < to
      <4>1. d % Word = 0 <=> a % Word = 0
        BY <1>0, <3>1, <3>2, Shifted
      <4>2. d % Word = 0 => (d <= n - Word <=> d < n)
        <5> SUFFICES ASSUME d % Word = 0, d < n PROVE d <= n - Word
          BY <1>0, <1>2
        <5>1. PICK p \in Nat : d = p * Word
          BY Multiple
        <5>2. PICK q \in Nat : n = q * Word
          BY <1>2, <2>2, Multiple
        <5>3. p * Word + Word <= q * Word
          BY <5>1, <5>2, Multiples
        <5>4. d + Word <= n
          BY <5>1, <5>2, <5>3
        <5> QED BY <1>0, <1>2, <5>4
      <4>3. a \in Nat /\ a - cursor = d /\ (a <= cursor + n - Word <=> d <= n - Word) /\ (a < to <=> d < n)
        BY <1>0, <1>2, <3>1, <3>2
      <4>4. d <= n - Word => a <= end - Word
        BY <1>0, <1>2, <3>2
      <4>5. cursor <= a /\ start <= a
        BY <1>0, <3>2
      <4> QED BY ONLY <1>4, <1>5, <2>2, <4>1, <4>2, <4>3, <4>4, <4>5, a \in Nat => a \in Int
    <3>3. a \in ReadAt(n) \/ (a \in PosOf(region) /\ cursor <= a) => a - cursor \in Nat /\ a = cursor + (a - cursor)
      BY <1>0, <1>4, <1>5
    <3> QED BY <3>2, <3>3
  <2> QED BY <2>1, <2>2
<1> QED BY <1>6, <1>7, <1>8, <1>9, <1>2

(* Behind the last chunk of a region no word is left. *)
LEMMA RegionEnds ==
  ASSUME InRegion, Q!EndOfRegion
  PROVE  \A a \in PosOf(region) : a < cursor
<1>0. /\ Word \in Nat \ {0} /\ Regions[region].start \in Nat /\ Regions[region].end \in Nat
      /\ cursor \in Nat
  BY ScanConstants DEF InRegion
<1>1. \A a \in PosOf(region) : a \in Int /\ a <= Regions[region].end - Word
  BY <1>0 DEF PosOf
<1>2. CASE cursor >= Regions[region].end
  BY <1>0, <1>1, <1>2
<1>3. CASE cursor < Regions[region].end
  <2>1. Q!Length < Word
    BY <1>0, <1>3 DEF Q!EndOfRegion
  <2>2. Rest < Word
    BY <1>3, <2>1, LengthOf DEF InRegion
  <2> QED BY <1>0, <1>1, <2>2 DEF Rest
<1> QED BY <1>0, <1>2, <1>3

-----------------------------------------------------------------------------
(* The words read, as an index. *)
WordEntries == {[value |-> words[a], address |-> a] : a \in {b \in DOMAIN words : words[b] # 0}}
WordsOK == DOMAIN words \subseteq Nat /\ \A a \in DOMAIN words : words[a] \in WordValues

LEMMA WordEntriesOf ==
  \A e : e \in WordEntries <=>
    \E a \in DOMAIN words : words[a] # 0 /\ e = [value |-> words[a], address |-> a]
<1> DEFINE D == {b \in DOMAIN words : words[b] # 0}
<1>1. \A e : e \in WordEntries <=> \E a \in D : e = [value |-> words[a], address |-> a]
  BY DEF WordEntries
<1>2. \A a : a \in D <=> a \in DOMAIN words /\ words[a] # 0
  OBVIOUS
<1> HIDE DEF D
<1> QED BY ONLY <1>1, <1>2

LEMMA CellsTyped ==
  ASSUME WordsOK
  PROVE  \A a \in DOMAIN words : a \in Int /\ words[a] \in Int
<1>1. WordValues \subseteq Int
  <2>1. WordValues \subseteq Nat
    BY ScanConstants
  <2> QED BY <2>1
<1>2. DOMAIN words \subseteq Int
  BY DEF WordsOK
<1> QED BY <1>1, <1>2 DEF WordsOK

LEMMA WordEntriesTyped ==
  ASSUME WordsOK
  PROVE  WordEntries \in SUBSET EntryRecords
<1> SUFFICES ASSUME NEW e \in WordEntries PROVE e \in EntryRecords
  OBVIOUS
<1>1. PICK a \in DOMAIN words : e = [value |-> words[a], address |-> a]
  BY WordEntriesOf
<1>2. a \in Int /\ words[a] \in Int
  BY CellsTyped
<1> QED BY <1>1, <1>2 DEF EntryRecords

(* The ways over words and the ways over their entries. *)
WayNext(n, v, i) == IF i = n THEN Target ELSE v[i + 1]
WordWays(n) ==
  {v \in [1 .. n -> DOMAIN words] :
     \A i \in 1 .. n : words[v[i]] # 0 /\ WayNext(n, v, i) - words[v[i]] \in Near}
WordChain(n, v) ==
  [base |-> v[1], offsets |-> [i \in 1 .. n |-> WayNext(n, v, i) - words[v[i]]]]

LEMMA AllOfWays ==
  ASSUME WordsOK
  PROVE  \A x : x \in Q!AllChains <=>
           \E n \in 1 .. Depth : \E v \in WordWays(n) : x = WordChain(n, v)
<1>0. Depth \in Nat \ {0} /\ MaxOffset \in Nat /\ Target \in Int
  BY ScanConstants
<1>1. ASSUME NEW n \in 1 .. Depth, NEW v \in [1 .. n -> DOMAIN words]
      PROVE  /\ Q!Leads(v) <=> v \in WordWays(n)
             /\ Q!AsChain(v) = WordChain(n, v)
  <2>1. DOMAIN v = 1 .. n /\ Len(v) = n /\ n \in Nat \ {0}
    OBVIOUS
  <2>2. \A i \in 1 .. n : (IF i = Len(v) THEN Target ELSE v[i + 1]) = WayNext(n, v, i)
    BY <2>1 DEF WayNext
  <2>3. \A i \in 1 .. n : words[v[i]] \in Int /\ WayNext(n, v, i) \in Int
    <3> TAKE i \in 1 .. n
    <3>1. words[v[i]] \in Int
      BY CellsTyped
    <3>2. i # n => i + 1 \in 1 .. n
      BY <2>1
    <3>3. i # n => v[i + 1] \in Int
      BY <3>2 DEF WordsOK
    <3> QED BY <1>0, <3>1, <3>3 DEF WayNext
  <2>4. \A i \in 1 .. n :
          Q!Step(v[i], WayNext(n, v, i)) <=> words[v[i]] # 0 /\ WayNext(n, v, i) - words[v[i]] \in Near
    <3> TAKE i \in 1 .. n
    <3>1. ASSUME NEW a \in Int, NEW b \in Int
          PROVE  a - b \in -MaxOffset .. MaxOffset <=> b - a \in -MaxOffset .. MaxOffset
      BY <1>0
    <3>2. words[v[i]] - WayNext(n, v, i) \in -MaxOffset .. MaxOffset
            <=> WayNext(n, v, i) - words[v[i]] \in -MaxOffset .. MaxOffset
      BY <2>3, <3>1
    <3> QED BY <3>2 DEF Q!Step, Near
  <2>5. Q!Leads(v) <=> v \in WordWays(n)
    BY <2>1, <2>2, <2>4 DEF Q!Leads, WordWays
  <2>6. Q!AsChain(v) = WordChain(n, v)
    BY <2>1, <2>2 DEF Q!AsChain, WordChain
  <2> QED BY <2>5, <2>6
<1>2. \A x : x \in Q!AllChains <=> \E v \in Q!Ways : Q!Leads(v) /\ x = Q!AsChain(v)
  BY DEF Q!AllChains
<1>3. \A v : v \in Q!Ways <=> \E n \in 1 .. Depth : v \in [1 .. n -> DOMAIN words]
  BY DEF Q!Ways
<1>4. \A n : \A v : v \in WordWays(n) => v \in [1 .. n -> DOMAIN words]
  BY DEF WordWays
<1> QED BY ONLY <1>1, <1>2, <1>3, <1>4

LEMMA EntryWays ==
  ASSUME WordsOK, NEW n \in Nat \ {0}
  PROVE  \A x : x \in ItemsOf(WordEntries, n, Target, Near) <=>
           \E v \in WordWays(n) : x = WordChain(n, v)
<1>0. 1 \in 1 .. n
  OBVIOUS
<1>1. ASSUME NEW v \in WordWays(n)
      PROVE  WordChain(n, v) \in ItemsOf(WordEntries, n, Target, Near)
  <2> DEFINE w == [i \in 1 .. n |-> [value |-> words[v[i]], address |-> v[i]]]
  <2>1. /\ v \in [1 .. n -> DOMAIN words]
        /\ \A i \in 1 .. n : words[v[i]] # 0 /\ WayNext(n, v, i) - words[v[i]] \in Near
    BY DEF WordWays
  <2>2. \A i \in 1 .. n : w[i].value = words[v[i]] /\ w[i].address = v[i] /\ w[i] \in WordEntries
    <3> TAKE i \in 1 .. n
    <3>1. w[i] = [value |-> words[v[i]], address |-> v[i]] /\ v[i] \in DOMAIN words
      BY <2>1
    <3> QED BY <2>1, <3>1, WordEntriesOf
  <2>3. w \in [1 .. n -> WordEntries]
    BY <2>2
  <2> HIDE DEF w
  <2>4. \A i \in 1 .. n : WayGap(n, w, i, Target) = WayNext(n, v, i) - words[v[i]]
    <3> TAKE i \in 1 .. n
    <3>1. i # n => i + 1 \in 1 .. n
      OBVIOUS
    <3> QED BY <2>2, <3>1 DEF WayGap, NextAt, WayNext
  <2>5. NextAt(n, w, 0, Target) = v[1]
    BY <1>0, <2>2 DEF NextAt
  <2>6. WayChain(n, w, Target) = WordChain(n, v)
    BY <2>4, <2>5 DEF WayChain, WordChain
  <2>7. w \in WaysIn(WordEntries, n, Target, Near)
    BY <2>1, <2>3, <2>4 DEF WaysIn
  <2> QED BY <2>6, <2>7 DEF ItemsOf
<1>2. ASSUME NEW w \in WaysIn(WordEntries, n, Target, Near)
      PROVE  \E v \in WordWays(n) : WayChain(n, w, Target) = WordChain(n, v)
  <2> DEFINE v == [i \in 1 .. n |-> w[i].address]
  <2>1. /\ w \in [1 .. n -> WordEntries]
        /\ \A i \in 1 .. n : WayGap(n, w, i, Target) \in Near
    BY <1>2 DEF WaysIn
  <2>2. \A i \in 1 .. n : /\ v[i] = w[i].address /\ v[i] \in DOMAIN words
                          /\ w[i].value = words[v[i]] /\ words[v[i]] # 0
    <3> TAKE i \in 1 .. n
    <3>1. PICK a \in DOMAIN words :
            words[a] # 0 /\ w[i] = [value |-> words[a], address |-> a]
      BY <2>1, WordEntriesOf
    <3> QED BY <3>1
  <2>3. v \in [1 .. n -> DOMAIN words]
    BY <2>2
  <2> HIDE DEF v
  <2>4. \A i \in 1 .. n : WayGap(n, w, i, Target) = WayNext(n, v, i) - words[v[i]]
    <3> TAKE i \in 1 .. n
    <3>1. i # n => i + 1 \in 1 .. n
      OBVIOUS
    <3> QED BY <2>2, <3>1 DEF WayGap, NextAt, WayNext
  <2>5. NextAt(n, w, 0, Target) = v[1]
    BY <1>0, <2>2 DEF NextAt
  <2>6. WayChain(n, w, Target) = WordChain(n, v)
    BY <2>4, <2>5 DEF WayChain, WordChain
  <2>7. v \in WordWays(n)
    BY <2>1, <2>2, <2>3, <2>4 DEF WordWays
  <2> QED BY <2>6, <2>7
<1>3. \A x : x \in ItemsOf(WordEntries, n, Target, Near) <=>
               \E w \in WaysIn(WordEntries, n, Target, Near) : x = WayChain(n, w, Target)
  BY DEF ItemsOf
<1> QED BY <1>1, <1>2, <1>3

(* The chains of at most n words. *)
ItemsTo(n) == UNION {Items(m) : m \in 1 .. n}

LEMMA InItemsTo ==
  \A n, x : x \in ItemsTo(n) <=> \E m \in 1 .. n : x \in Items(m)
BY DEF ItemsTo

LEMMA MoreEntries ==
  ASSUME NEW less, NEW more, less \subseteq more, NEW n
  PROVE  ItemsOf(less, n, Target, Near) \subseteq ItemsOf(more, n, Target, Near)
<1>1. [1 .. n -> less] \subseteq [1 .. n -> more]
  OBVIOUS
<1>2. WaysIn(less, n, Target, Near) \subseteq WaysIn(more, n, Target, Near)
  BY <1>1 DEF WaysIn
<1> QED BY <1>2 DEF ItemsOf

LEMMA AllOfEntries ==
  ASSUME WordsOK, Of(entries) \subseteq WordEntries
  PROVE  /\ ItemsTo(Depth) \subseteq Q!AllChains
         /\ WordEntries \subseteq Of(entries) => ItemsTo(Depth) = Q!AllChains
<1>0. Depth \in Nat \ {0} /\ \A n \in 1 .. Depth : n \in Nat \ {0}
  BY ScanConstants
<1>1. \A n \in 1 .. Depth : \A x : x \in ItemsOf(WordEntries, n, Target, Near) <=>
           \E v \in WordWays(n) : x = WordChain(n, v)
  BY <1>0, EntryWays
<1>2. \A x : x \in Q!AllChains <=> \E n \in 1 .. Depth : \E v \in WordWays(n) : x = WordChain(n, v)
  BY AllOfWays
<1>3. \A x : x \in Q!AllChains <=> \E n \in 1 .. Depth : x \in ItemsOf(WordEntries, n, Target, Near)
  BY ONLY <1>1, <1>2
<1>4. \A n : Items(n) \subseteq ItemsOf(WordEntries, n, Target, Near)
  BY MoreEntries DEF Items
<1>5. ASSUME WordEntries \subseteq Of(entries)
      PROVE  \A n : ItemsOf(WordEntries, n, Target, Near) \subseteq Items(n)
  BY <1>5, MoreEntries DEF Items
<1>6. \A x : x \in ItemsTo(Depth) <=> \E n \in 1 .. Depth : x \in Items(n)
  BY InItemsTo
<1>7. ItemsTo(Depth) \subseteq Q!AllChains
  BY ONLY <1>3, <1>4, <1>6
<1>8. ASSUME WordEntries \subseteq Of(entries) PROVE Q!AllChains \subseteq ItemsTo(Depth)
  <2>1. \A n : ItemsOf(WordEntries, n, Target, Near) \subseteq Items(n)
    BY <1>5, <1>8
  <2> QED BY ONLY <1>3, <2>1, <1>6
<1> QED BY <1>7, <1>8

-----------------------------------------------------------------------------
(* The invariant of a scan: its types; where it is, which tells what is     *)
(* still empty; what has been read, which is all up to the cursor and in    *)
(* the index unless a read had holes or the index is cut; and what has been *)
(* found, which is all chains of the layers done unless a limit has cut the *)
(* search.                                                                  *)
ScanTypes ==
  /\ request \in [byteStep : BOOLEAN, strict : BOOLEAN]
  /\ region \in 1 .. Len(Regions) + 1 /\ cursor \in Nat
  /\ DOMAIN words \subseteq Q!Starts /\ \A a \in DOMAIN words : words[a] \in WordValues
  /\ holes \in BOOLEAN /\ truncated \in BOOLEAN
  /\ index \in Seq(Q!Entries) /\ Len(index) <= MaxEntries
  /\ entries \in Seq(Q!Entries)
SearchTypes ==
  /\ layer \in 0 .. Depth /\ turn \in Nat \ {0} /\ limited \in BOOLEAN
  /\ level \in Seq(ChainRecords) /\ nextLevel \in Seq(ChainRecords)
  /\ chains \in Seq(ChainRecords) /\ IsInjective(chains) /\ Len(chains) <= MaxResults

Untouched ==
  region = 1 /\ cursor = 0 /\ DOMAIN words = {} /\ index = <<>> /\ holes = FALSE /\ truncated = FALSE
ScanPlace ==
  /\ pc \in {"idle", "build", "query", "search", "done", "failed"}
  /\ pc = "idle" => Untouched
  /\ pc = "build" /\ region <= Len(Regions) => InRegion
  /\ pc \in {"query", "search", "done"} => region = Len(Regions) + 1
  /\ truncated => region = Len(Regions) + 1
  /\ entries = SubSeq(index, 1, Len(entries)) /\ Len(entries) <= Len(index)
  /\ pc \in {"idle", "build", "failed"} => entries = <<>>
  /\ pc \in {"search", "done"} => entries = index

(* A strict build passes only reads of which all or nothing came. *)
Sound == ~holes \/ request.strict
ScanRead ==
  /\ Sound => DOMAIN words \subseteq Reached /\ Of(index) \subseteq WordEntries
  /\ ~holes /\ ~truncated => Reached \subseteq DOMAIN words /\ WordEntries \subseteq Of(index)

Fresh ==
  /\ layer = 0 /\ level = <<>> /\ nextLevel = <<>> /\ turn = 1
  /\ chains = <<>> /\ limited = FALSE
SearchPlace ==
  /\ pc \notin {"search", "done"} \/ layer = 0 => Fresh
  /\ pc = "search" => layer < Depth
  /\ pc = "done" => limited \/ layer = Depth \/ (layer > 0 /\ level = <<>>)

SearchDone ==
  /\ Len(chains) >= MaxResults => limited
  /\ Of(chains) \subseteq ItemsTo(layer) /\ (~limited => ItemsTo(layer) \subseteq Of(chains))
  /\ layer > 0 => Of(level) \subseteq Items(layer) /\ (~limited => Items(layer) \subseteq Of(level))
  /\ Of(nextLevel) \subseteq BackOf(Of(level), Of(entries), Near)
  /\ ~limited => \A i \in 1 .. Len(level) :
                   i < turn => Behind(level[i].base) \subseteq Of(nextLevel)

ScanInv ==
  /\ ScanTypes /\ ScanPlace /\ ScanRead
  /\ SearchTypes /\ SearchPlace /\ SearchDone

LEMMA StartsTyped == Q!Starts \subseteq Nat
<1>1. \A k \in DOMAIN Regions : Regions[k].start .. Regions[k].end - Word \subseteq Nat
  BY ScanConstants
<1> QED BY <1>1 DEF Q!Starts

LEMMA EntriesTyped == \A s \in Seq(Q!Entries) : s \in Seq(EntryRecords)
<1>1. Q!Entries \subseteq EntryRecords
  <2>1. WordValues \subseteq Int
    <3>1. WordValues \subseteq Nat
      BY ScanConstants
    <3> QED BY <3>1
  <2> SUFFICES ASSUME NEW e \in Q!Entries PROVE e \in EntryRecords
    OBVIOUS
  <2>2. e = [value |-> e.value, address |-> e.address] /\ e.value \in WordValues /\ e.address \in Nat
    BY DEF Q!Entries
  <2>3. e.value \in Int /\ e.address \in Int
    BY <2>1, <2>2
  <2> QED BY <2>2, <2>3 DEF EntryRecords
<1> QED BY <1>1

LEMMA ListTyped ==
  ASSUME NEW S, NEW T, NEW list \in Seq(S), Of(list) \subseteq T
  PROVE  list \in Seq(T)
<1>1. Len(list) \in Nat /\ list \in [1 .. Len(list) -> S]
  OBVIOUS
<1>2. \A i \in 1 .. Len(list) : list[i] \in T
  BY <1>1 DEF Of
<1>3. list \in [1 .. Len(list) -> T]
  BY <1>1, <1>2
<1> QED BY <1>1, <1>3

LEMMA ScanTyped ==
  ASSUME ScanTypes
  PROVE  /\ WordsOK /\ index \in Seq(EntryRecords) /\ entries \in Seq(EntryRecords)
         /\ request.byteStep \in BOOLEAN /\ request.strict \in BOOLEAN
         /\ Len(index) \in Nat /\ Len(entries) \in Nat
<1>1. index \in Seq(EntryRecords) /\ entries \in Seq(EntryRecords)
  BY EntriesTyped DEF ScanTypes
<1>2. WordsOK
  BY StartsTyped DEF ScanTypes, WordsOK
<1>3. Len(index) \in Nat /\ Len(entries) \in Nat
  BY <1>1
<1> QED BY <1>1, <1>2, <1>3 DEF ScanTypes

LEMMA NoneOf == Of(<<>>) = {}
BY DEF Of

LEMMA FreshFound == Fresh => SearchTypes /\ SearchDone
<1> SUFFICES ASSUME Fresh PROVE SearchTypes /\ SearchDone
  OBVIOUS
<1>1. Depth \in Nat \ {0} /\ MaxResults \in Nat \ {0}
  BY ScanConstants
<1>2. <<>> \in Seq(ChainRecords) /\ Len(<<>>) = 0 /\ IsInjective(<<>>)
  BY DEF IsInjective
<1>3. SearchTypes
  <2>1. 0 \in 0 .. Depth /\ 1 \in Nat \ {0} /\ 0 <= MaxResults
    BY <1>1
  <2> QED BY <1>2, <2>1 DEF Fresh, SearchTypes
<1>4. ItemsTo(0) = {}
  <2>1. \A n : n \notin 1 .. 0
    OBVIOUS
  <2> QED BY <2>1, InItemsTo
<1>5. SearchDone
  BY <1>1, <1>2, <1>4, NoneOf DEF Fresh, SearchDone
<1> QED BY <1>3, <1>5

LEMMA UntouchedRead == Untouched => ScanRead
<1> SUFFICES ASSUME Untouched PROVE ScanRead
  OBVIOUS
<1>1. WordEntries = {}
  BY WordEntriesOf DEF Untouched
<1>2. Reached = {}
  <2> SUFFICES ASSUME NEW a \in Reached PROVE FALSE
    OBVIOUS
  <2>1. PICK k \in 1 .. Len(Regions) : k < region \/ (k = region /\ a < cursor)
    BY DEF Reached
  <2>2. a \in Nat
    BY DEF Reached
  <2>3. Len(Regions) \in Nat
    BY ScanConstants
  <2> QED BY <2>1, <2>2, <2>3 DEF Untouched
<1> QED BY <1>1, <1>2, NoneOf DEF Untouched, ScanRead

LEMMA FreshNext == Fresh' => SearchTypes' /\ SearchDone'
BY FreshFound, PTL

LEMMA ScanInit == ASSUME Q!Init PROVE ScanInv
<1> USE DEF Q!Init, Q!NoSearch
<1>1. Untouched
  <2>1. DOMAIN <<>> = {}
    OBVIOUS
  <2> QED BY <2>1 DEF Untouched
<1>2. Fresh
  BY DEF Fresh
<1>3. ScanTypes
  <2>1. Len(Regions) \in Nat /\ MaxEntries \in Nat /\ 1 \in 1 .. Len(Regions) + 1
    BY ScanConstants
  <2>2. <<>> \in Seq(Q!Entries) /\ Len(<<>>) = 0
    OBVIOUS
  <2>3. 0 <= MaxEntries /\ 0 \in Nat
    BY <2>1
  <2> QED BY <1>1, <2>1, <2>2, <2>3 DEF ScanTypes, Untouched
<1>4. ScanPlace
  <2>1. SubSeq(<<>>, 1, 0) = <<>> /\ Len(<<>>) = 0
    OBVIOUS
  <2>2. entries = <<>> /\ pc = "idle"
    OBVIOUS
  <2> QED BY <1>1, <2>1, <2>2 DEF ScanPlace, Untouched
<1> QED BY <1>1, <1>2, <1>3, <1>4, UntouchedRead, FreshFound DEF ScanInv, SearchPlace, Fresh

-----------------------------------------------------------------------------
(* Steps that leave the search alone, and steps that leave the read alone. *)
LEMMA SearchFrame ==
  ASSUME SearchTypes, SearchDone,
         UNCHANGED <<entries, layer, level, nextLevel, turn, chains, limited>>
  PROVE  SearchTypes' /\ SearchDone'
<1>1. SearchTypes'
  BY DEF SearchTypes
<1>5. SearchDone'
  <2>1. Items(layer)' = Items(layer) /\ ItemsTo(layer)' = ItemsTo(layer)
    BY DEF Items, ItemsTo
  <2>2. BackOf(Of(level), Of(entries), Near)' = BackOf(Of(level), Of(entries), Near)
    OBVIOUS
  <2>3. \A i : Behind(level[i].base)' = Behind(level[i].base)
    BY DEF Behind
  <2> QED BY <2>1, <2>2, <2>3 DEF SearchDone
<1> QED BY <1>1, <1>5

LEMMA ReadFrame ==
  ASSUME ScanTypes, ScanRead, UNCHANGED <<request, region, cursor, words, holes, truncated, index>>
  PROVE  /\ ScanRead' /\ (entries' \in Seq(Q!Entries) => ScanTypes')
         /\ InRegion' <=> InRegion
<1>1. Reached' = Reached /\ WordEntries' = WordEntries
  BY DEF Reached, PosOf, WordEntries
<1>2. ScanRead'
  BY <1>1 DEF ScanRead, Sound
<1>3. entries' \in Seq(Q!Entries) => ScanTypes'
  BY DEF ScanTypes
<1>4. InRegion' <=> InRegion
  BY DEF InRegion
<1> QED BY <1>2, <1>3, <1>4

(* Where a region is entered. *)
LEMMA EnterOf ==
  ASSUME NEW step \in BOOLEAN, NEW k \in 1 .. Len(Regions),
         NEW c, c = IF step THEN Regions[k].start ELSE Q!Aligned(Regions[k].start)
  PROVE  /\ c \in Nat /\ c >= Regions[k].start /\ (~step => c % Word = 0)
         /\ \A a \in Nat : a >= Regions[k].start /\ (step \/ a % Word = 0) => a >= c
<1>1. Regions[k].start \in Nat
  BY ScanConstants
<1>2. CASE step
  BY <1>1, <1>2
<1>3. CASE ~step
  BY <1>1, <1>3, AlignedOf
<1> QED BY <1>2, <1>3

PositionsOK ==
  \A k \in 1 .. Len(Regions) : \A a \in PosOf(k) :
    /\ a \in Nat /\ a >= Regions[k].start /\ a <= Regions[k].end - Word
    /\ request.byteStep \/ a % Word = 0

LEMMA PositionsTyped == PositionsOK
<1> SUFFICES ASSUME NEW k \in 1 .. Len(Regions), NEW a \in PosOf(k)
             PROVE  /\ a \in Nat /\ a >= Regions[k].start /\ a <= Regions[k].end - Word
                    /\ request.byteStep \/ a % Word = 0
  BY DEF PositionsOK
<1>1. Regions[k].start \in Nat /\ Regions[k].end \in Nat /\ Word \in Nat
  BY ScanConstants
<1> QED BY <1>1 DEF PosOf

LEMMA PositionsNext == PositionsOK'
BY PositionsTyped, PTL

LEMMA StartKept ==
  ASSUME ScanInv, Q!Start PROVE ScanInv'
<1>1. /\ pc = "idle" /\ pc' = "build" /\ request' \in [byteStep : BOOLEAN, strict : BOOLEAN]
      /\ cursor' = IF request'.byteStep THEN Regions[1].start ELSE Q!Aligned(Regions[1].start)
      /\ UNCHANGED <<region, words, holes, index, truncated, entries>>
      /\ UNCHANGED <<layer, level, nextLevel, turn, chains, limited>>
  BY DEF Q!Start, Q!search
<1>2. Untouched
  BY <1>1 DEF ScanInv, ScanPlace
<1>3. 1 \in 1 .. Len(Regions) /\ Len(Regions) \in Nat
  BY ScanConstants
<1>4. request'.byteStep \in BOOLEAN
  BY <1>1
<1>5. /\ cursor' \in Nat /\ cursor' >= Regions[1].start
      /\ (~request'.byteStep => cursor' % Word = 0)
      /\ \A a \in Nat : a >= Regions[1].start /\ (request'.byteStep \/ a % Word = 0) => a >= cursor'
  BY <1>1, <1>3, <1>4, EnterOf
<1>6. region' = 1 /\ InRegion'
  BY <1>1, <1>2, <1>3, <1>4, <1>5 DEF Untouched, InRegion
<1>7. ScanTypes'
  BY <1>1, <1>5 DEF ScanInv, ScanTypes
<1>8. ScanPlace'
  <2>1. entries = <<>> /\ index = <<>> /\ truncated = FALSE
    BY <1>1, <1>2 DEF ScanInv, ScanPlace, Untouched
  <2>2. entries' = SubSeq(index', 1, Len(entries')) /\ Len(entries') <= Len(index')
    BY <1>1 DEF ScanInv, ScanPlace
  <2> QED BY <1>1, <1>6, <2>1, <2>2 DEF ScanPlace
<1>9. ScanRead'
  <2>1. Reached' = {}
    <3> SUFFICES ASSUME NEW a \in Reached' PROVE FALSE
      OBVIOUS
    <3>1. PICK k \in 1 .. Len(Regions) : a \in PosOf(k)' /\ (k < region' \/ (k = region' /\ a < cursor'))
      BY DEF Reached
    <3>2. k = 1 /\ a < cursor'
      BY <1>3, <1>6, <3>1
    <3>3. a \in Nat /\ a >= Regions[1].start /\ (request'.byteStep \/ a % Word = 0)
      BY <3>1, <3>2, PositionsNext DEF PositionsOK
    <3> QED BY <1>5, <3>2, <3>3
  <2>2. WordEntries = {}
    BY <1>2, WordEntriesOf DEF Untouched
  <2>3. WordEntries' = WordEntries
    BY <1>1 DEF WordEntries
  <2>4. DOMAIN words' = {} /\ Of(index') = {}
    BY <1>1, <1>2, NoneOf DEF Untouched
  <2> QED BY <2>1, <2>2, <2>3, <2>4 DEF ScanRead
<1>10. SearchTypes' /\ SearchDone'
  BY <1>1, SearchFrame DEF ScanInv
<1>11. SearchPlace'
  <2>1. Fresh
    BY <1>1 DEF ScanInv, SearchPlace
  <2> QED BY <1>1, <2>1 DEF SearchPlace, Fresh
<1> QED BY <1>7, <1>8, <1>9, <1>10, <1>11 DEF ScanInv

(* Regions are left behind. *)
LEMMA RegionKept ==
  ASSUME ScanInv, Q!NextRegion PROVE ScanInv'
<1>1. /\ pc = "build" /\ region \in DOMAIN Regions /\ Q!EndOfRegion
      /\ region' = region + 1 /\ cursor' = Q!First(region + 1)
      /\ UNCHANGED <<pc, request, words, holes, index, truncated, entries>>
      /\ UNCHANGED <<layer, level, nextLevel, turn, chains, limited>>
  BY DEF Q!NextRegion, Q!search
<1>2. /\ Len(Regions) \in Nat /\ region \in 1 .. Len(Regions)
      /\ DOMAIN Regions = 1 .. Len(Regions)
  BY <1>1, ScanConstants
<1>3. InRegion /\ ScanTypes /\ ScanPlace /\ ScanRead
  BY <1>1, <1>2 DEF ScanInv, ScanPlace
<1>4. request.byteStep \in BOOLEAN
  BY <1>3, ScanTyped
<1>5. ASSUME region + 1 \in 1 .. Len(Regions)
      PROVE  /\ cursor' \in Nat /\ cursor' >= Regions[region + 1].start
             /\ (~request.byteStep => cursor' % Word = 0)
             /\ \A a \in Nat :
                  a >= Regions[region + 1].start /\ (request.byteStep \/ a % Word = 0) => a >= cursor'
  <2>1. cursor' = IF request.byteStep THEN Regions[region + 1].start
                  ELSE Q!Aligned(Regions[region + 1].start)
    BY <1>1, <1>2, <1>5 DEF Q!First
  <2> QED BY <1>4, <1>5, <2>1, EnterOf
<1>6. region + 1 \notin 1 .. Len(Regions) => cursor' = 0 /\ region' = Len(Regions) + 1
  BY <1>1, <1>2 DEF Q!First
<1>7. ScanTypes'
  <2>1. cursor' \in Nat /\ region' \in 1 .. Len(Regions) + 1
    BY <1>1, <1>2, <1>5, <1>6
  <2> QED BY <1>1, <1>3, <2>1 DEF ScanTypes
<1>8. ScanPlace'
  <2>1. region' <= Len(Regions) => InRegion'
    <3>1. region' <= Len(Regions) => region + 1 \in 1 .. Len(Regions)
      BY <1>1, <1>2
    <3> QED BY <1>1, <1>4, <1>5, <3>1 DEF InRegion
  <2>2. ~truncated
    BY <1>2, <1>3 DEF ScanPlace
  <2>3. entries' = SubSeq(index', 1, Len(entries')) /\ Len(entries') <= Len(index') /\ entries' = <<>>
    BY <1>1, <1>3 DEF ScanPlace
  <2> QED BY <1>1, <2>1, <2>2, <2>3 DEF ScanPlace
<1>9. ScanRead'
  <2>1. \A k : PosOf(k)' = PosOf(k)
    BY <1>1 DEF PosOf
  <2>2. \A a \in PosOf(region) : a < cursor
    BY <1>1, <1>3, RegionEnds
  <2>3. \A a : a \in Reached <=>
          a \in Nat /\ \E k \in 1 .. Len(Regions) : a \in PosOf(k) /\ (k < region \/ (k = region /\ a < cursor))
    BY DEF Reached
  <2>4. \A a : a \in Reached' <=>
          a \in Nat /\ \E k \in 1 .. Len(Regions) : a \in PosOf(k) /\ (k < region' \/ (k = region' /\ a < cursor'))
    BY <2>1 DEF Reached
  <2>5. ASSUME NEW a \in Nat, NEW k \in 1 .. Len(Regions), a \in PosOf(k)
        PROVE  (k < region \/ (k = region /\ a < cursor)) <=> (k < region' \/ (k = region' /\ a < cursor'))
    <3>1. CASE k < region
      BY <1>1, <1>2, <3>1
    <3>2. CASE k = region
      BY <1>1, <1>2, <2>2, <2>5, <3>2
    <3>3. CASE k = region + 1
      <4>1. a >= Regions[k].start /\ (request.byteStep \/ a % Word = 0)
        BY <2>5, PositionsTyped DEF PositionsOK
      <4>2. a >= cursor' /\ cursor' \in Nat
        BY <1>5, <3>3, <4>1
      <4> QED BY <1>1, <1>2, <3>3, <4>2
    <3>4. CASE k > region + 1
      BY <1>1, <1>2, <3>4
    <3> QED BY <1>2, <3>1, <3>2, <3>3, <3>4
  <2>6. Reached' = Reached
    BY <2>3, <2>4, <2>5
  <2>7. WordEntries' = WordEntries
    BY <1>1 DEF WordEntries
  <2> QED BY <1>1, <1>3, <2>6, <2>7 DEF ScanRead, Sound
<1>10. SearchTypes' /\ SearchDone'
  BY <1>1, SearchFrame DEF ScanInv
<1>11. SearchPlace'
  BY <1>1 DEF ScanInv, SearchPlace, Fresh
<1> QED BY <1>7, <1>8, <1>9, <1>10, <1>11 DEF ScanInv

LEMMA FinishKept ==
  ASSUME ScanInv, Q!FinishBuild PROVE ScanInv'
<1>1. /\ pc = "build" /\ region \notin DOMAIN Regions /\ pc' = "query"
      /\ index' = Q!Sorted(Q!Range(index))
      /\ UNCHANGED <<request, region, cursor, words, holes, truncated, entries>>
      /\ UNCHANGED <<layer, level, nextLevel, turn, chains, limited>>
  BY DEF Q!FinishBuild, Q!search
<1>2. ScanTypes /\ ScanPlace /\ ScanRead
  BY DEF ScanInv
<1>3. index \in Seq(EntryRecords) /\ Len(index) \in Nat /\ Len(index) <= MaxEntries
      /\ MaxEntries \in Nat
  BY <1>2, ScanTyped, ScanConstants DEF ScanTypes
<1>4. /\ index' \in Seq(EntryRecords) /\ Of(index') = Of(index)
      /\ Len(index') \in Nat /\ Len(index') <= Len(index)
  BY <1>1, <1>3, SortedOf
<1>5. index' \in Seq(Q!Entries) /\ Len(index') <= MaxEntries
  <2>1. Of(index) \subseteq Q!Entries
    BY <1>2, InOf DEF ScanTypes
  <2> QED BY <1>3, <1>4, <2>1, ListTyped
<1>6. region = Len(Regions) + 1
  BY <1>1, <1>2, ScanConstants DEF ScanTypes
<1>7. ScanTypes'
  BY <1>1, <1>2, <1>5 DEF ScanTypes
<1>8. ScanPlace'
  <2>1. entries' = <<>>
    BY <1>1, <1>2 DEF ScanPlace
  <2>2. Len(<<>>) = 0 /\ SubSeq(index', 1, 0) = <<>>
    BY <1>4
  <2>3. entries' = SubSeq(index', 1, Len(entries')) /\ Len(entries') <= Len(index')
    BY <1>4, <2>1, <2>2
  <2>4. region' = Len(Regions) + 1 /\ pc' = "query"
    BY <1>1, <1>6
  <2> QED BY <2>3, <2>4 DEF ScanPlace
<1>9. ScanRead'
  <2>1. Reached' = Reached /\ WordEntries' = WordEntries
    BY <1>1 DEF Reached, PosOf, WordEntries
  <2> QED BY <1>1, <1>2, <1>4, <2>1 DEF ScanRead, Sound
<1>10. SearchTypes' /\ SearchDone'
  BY <1>1, SearchFrame DEF ScanInv
<1>11. SearchPlace'
  BY <1>1 DEF ScanInv, SearchPlace, Fresh
<1> QED BY <1>7, <1>8, <1>9, <1>10, <1>11 DEF ScanInv

(* The pages of a list, one after the other, are the list. *)
LEMMA PagesOf ==
  ASSUME NEW S, NEW list \in Seq(S), NEW n \in 0 .. Len(list), NEW m \in n .. Len(list)
  PROVE  /\ SubSeq(list, 1, n) \o SubSeq(list, n + 1, m) = SubSeq(list, 1, m)
         /\ SubSeq(list, 1, m) \in Seq(S) /\ Len(SubSeq(list, 1, m)) = m
         /\ SubSeq(list, n + 1, m) = <<>> => m = n
         /\ SubSeq(list, 1, Len(list)) = list
<1> DEFINE a == SubSeq(list, 1, n)
           b == SubSeq(list, n + 1, m)
           c == SubSeq(list, 1, m)
<1>0. n \in Nat /\ m \in Nat /\ n <= m /\ m <= Len(list) /\ Len(list) \in Nat
      /\ DOMAIN list = 1 .. Len(list)
  OBVIOUS
<1>1. a \in Seq(S) /\ Len(a) = n /\ \A i \in 1 .. n : a[i] = list[i]
  BY <1>0
<1>2. b \in Seq(S) /\ Len(b) = m - n /\ \A i \in 1 .. m - n : b[i] = list[n + i]
  <2>1. b \in Seq(S) /\ Len(b) = m - n
    BY <1>0
  <2>2. \A i \in 1 .. m - n : b[i] = list[n + i]
    BY <1>0
  <2> QED BY <2>1, <2>2
<1>3. c \in Seq(S) /\ Len(c) = m /\ \A i \in 1 .. m : c[i] = list[i]
  BY <1>0
<1> HIDE DEF a, b, c
<1>4. a \o b \in Seq(S) /\ Len(a \o b) = m
      /\ \A i \in 1 .. m : (a \o b)[i] = IF i <= n THEN a[i] ELSE b[i - n]
  <2> DEFINE k == m - n
  <2>1. k \in Nat /\ n + k = m /\ Len(b) = k
    BY <1>0, <1>2
  <2> HIDE DEF k
  <2>2. a \o b \in Seq(S) /\ Len(a \o b) = n + k
        /\ \A i \in 1 .. n + k : (a \o b)[i] = IF i <= n THEN a[i] ELSE b[i - n]
    <3>1. a \in Seq(S) /\ b \in Seq(S)
      BY <1>1, <1>2
    <3>2. a \o b \in Seq(S) /\ Len(a \o b) = Len(a) + Len(b)
          /\ \A i \in 1 .. Len(a) + Len(b) :
               (a \o b)[i] = IF i <= Len(a) THEN a[i] ELSE b[i - Len(a)]
      BY ONLY <3>1
    <3> QED BY <1>1, <2>1, <3>2
  <2> QED BY <2>1, <2>2
<1>5. \A i \in 1 .. m : (a \o b)[i] = c[i]
  <2> TAKE i \in 1 .. m
  <2>1. CASE i <= n
    BY <1>0, <1>1, <1>3, <1>4, <2>1
  <2>2. CASE ~(i <= n)
    <3>1. i - n \in 1 .. m - n /\ n + (i - n) = i
      BY <1>0, <2>2
    <3> QED BY <1>2, <1>3, <1>4, <2>2, <3>1
  <2> QED BY <2>1, <2>2
<1>6. a \o b = c
  <2>0. \A s \in Seq(S) : s \in [1 .. Len(s) -> S]
    OBVIOUS
  <2>1. a \o b \in [1 .. m -> S] /\ c \in [1 .. m -> S]
    BY ONLY <1>3, <1>4, <2>0
  <2> QED BY <1>5, <2>1
<1>7. b = <<>> => m = n
  BY <1>0, <1>2
<1>8. SubSeq(list, 1, Len(list)) = list
  <2> DEFINE d == SubSeq(list, 1, Len(list))
  <2>1. d \in Seq(S) /\ Len(d) = Len(list) /\ \A i \in 1 .. Len(list) : d[i] = list[i]
    BY <1>0
  <2> HIDE DEF d
  <2>2. d \in [1 .. Len(list) -> S] /\ list \in [1 .. Len(list) -> S]
    BY <2>1
  <2>3. d = list
    BY <2>1, <2>2
  <2> QED BY <2>3 DEF d
<1> QED BY <1>3, <1>6, <1>7, <1>8 DEF a, b, c

LEMMA PageKept ==
  ASSUME ScanInv, Q!QueryPage PROVE ScanInv'
<1> DEFINE n == Len(entries)
           len == Len(index)
           m == IF n + PageSize < len THEN n + PageSize ELSE len
           page == SubSeq(index, n + 1, m)
<1>1. /\ pc = "query" /\ entries' = entries \o page
      /\ pc' = IF page = <<>> \/ Len(entries') >= len THEN "search" ELSE "query"
      /\ UNCHANGED <<request, region, cursor, words, holes, index, truncated>>
      /\ UNCHANGED <<layer, level, nextLevel, turn, chains, limited>>
  <2>1. Q!PageFrom(n) = page
    BY ScanLibrary DEF Q!PageFrom
  <2> HIDE DEF page, m, n, len
  <2> QED BY <2>1 DEF Q!QueryPage, Q!search, Q!build, n, len
<1>2. ScanTypes /\ ScanPlace /\ ScanRead
  BY DEF ScanInv
<1>3. n \in Nat /\ len \in Nat /\ index \in Seq(Q!Entries)
  BY <1>2, ScanTyped DEF ScanTypes
<1>4. n <= len /\ entries = SubSeq(index, 1, n)
  BY <1>2 DEF ScanPlace
<1>5. PageSize \in Nat \ {0}
  BY ScanConstants
<1>6. n \in 0 .. len /\ m \in n .. len /\ (m = n => n = len)
  <2> HIDE DEF n, len
  <2> QED BY ONLY <1>3, <1>4, <1>5
<1> HIDE DEF m, n
<1>7. /\ SubSeq(index, 1, n) \o page = SubSeq(index, 1, m)
      /\ SubSeq(index, 1, m) \in Seq(Q!Entries) /\ Len(SubSeq(index, 1, m)) = m
      /\ (page = <<>> => m = n) /\ SubSeq(index, 1, len) = index
  BY <1>3, <1>6, PagesOf
<1> HIDE DEF page, len
<1>8. entries' = SubSeq(index, 1, m) /\ entries' \in Seq(Q!Entries) /\ Len(entries') = m
  BY <1>1, <1>4, <1>7
<1>9. pc' = "search" => entries' = index
  <2>1. pc' = "search" => m = len
    <3>1. m \in Nat /\ m <= len
      BY <1>3, <1>6
    <3> QED BY <1>1, <1>3, <1>6, <1>7, <1>8, <3>1
  <2> QED BY <1>7, <1>8, <2>1
<1>10. ScanTypes' /\ ScanRead'
  BY <1>1, <1>2, <1>8, ReadFrame
<1>11. ScanPlace'
  <2>1. entries' = SubSeq(index', 1, Len(entries')) /\ Len(entries') <= Len(index')
    <3>1. m <= len
      BY <1>3, <1>6
    <3> QED BY <1>1, <1>8, <3>1 DEF len
  <2>2. region' = Len(Regions) + 1
    BY <1>1, <1>2 DEF ScanPlace
  <2>3. pc' \in {"query", "search"} /\ (pc' = "search" => entries' = index')
    BY <1>1, <1>9
  <2> QED BY <2>1, <2>2, <2>3 DEF ScanPlace
<1>12. Fresh /\ Fresh'
  <2>1. Fresh
    BY <1>1 DEF ScanInv, SearchPlace
  <2> QED BY <1>1, <2>1 DEF Fresh
<1>13. SearchPlace'
  <2>1. 0 < Depth
    BY ScanConstants
  <2>2. pc' # "done"
    BY <1>1
  <2> QED BY <1>12, <2>1, <2>2 DEF SearchPlace, Fresh
<1> QED BY <1>10, <1>11, <1>12, <1>13, FreshNext DEF ScanInv

LEMMA FailKept ==
  ASSUME ScanInv, Q!Fail PROVE ScanInv'
<1>1. /\ pc \in {"build", "query"} /\ pc' = "failed" /\ entries' = <<>>
      /\ UNCHANGED <<request, region, cursor, words, holes, index, truncated>>
      /\ UNCHANGED <<layer, level, nextLevel, turn, chains, limited>>
  BY DEF Q!Fail, Q!search, Q!build
<1>2. ScanTypes /\ ScanPlace /\ ScanRead
  BY DEF ScanInv
<1>3. <<>> \in Seq(Q!Entries) /\ Len(<<>>) = 0
  OBVIOUS
<1>4. ScanTypes' /\ ScanRead'
  BY <1>1, <1>2, <1>3, ReadFrame
<1>5. ScanPlace'
  <2>1. index \in Seq(Q!Entries) /\ Len(index) \in Nat
    BY <1>2, ScanTyped DEF ScanTypes
  <2>2. SubSeq(index, 1, 0) = <<>> /\ 0 <= Len(index)
    BY <2>1
  <2>3. entries' = SubSeq(index', 1, Len(entries')) /\ Len(entries') <= Len(index')
    BY <1>1, <1>3, <2>2
  <2>4. truncated' => region' = Len(Regions) + 1
    BY <1>1, <1>2 DEF ScanPlace
  <2> QED BY <1>1, <2>3, <2>4 DEF ScanPlace
<1>6. Fresh /\ Fresh'
  <2>1. Fresh
    BY <1>1 DEF ScanInv, SearchPlace
  <2> QED BY <1>1, <2>1 DEF Fresh
<1>7. SearchPlace'
  BY <1>1, <1>6 DEF SearchPlace
<1> QED BY <1>4, <1>5, <1>6, <1>7, FreshNext DEF ScanInv

LEMMA UntouchedNext == Untouched' => ScanRead'
BY UntouchedRead, PTL

LEMMA AgainKept ==
  ASSUME ScanInv, Q!Again PROVE ScanInv'
<1>1. /\ pc' = "idle" /\ region' = 1 /\ cursor' = 0 /\ words' = <<>> /\ holes' = FALSE
      /\ index' = <<>> /\ truncated' = FALSE /\ entries' = <<>>
      /\ request' = [byteStep |-> FALSE, strict |-> FALSE]
      /\ Fresh'
  BY DEF Q!Again, Fresh
<1>2. DOMAIN <<>> = {} /\ <<>> \in Seq(Q!Entries) /\ Len(<<>>) = 0 /\ SubSeq(<<>>, 1, 0) = <<>>
  OBVIOUS
<1>3. Untouched'
  BY <1>1, <1>2 DEF Untouched
<1>4. ScanTypes'
  <2>1. Len(Regions) \in Nat /\ MaxEntries \in Nat
    BY ScanConstants
  <2>2. 1 \in 1 .. Len(Regions) + 1 /\ 0 <= MaxEntries /\ 0 \in Nat
    BY <2>1
  <2> QED BY <1>1, <1>2, <2>2 DEF ScanTypes
<1>5. ScanPlace'
  BY <1>1, <1>2, <1>3 DEF ScanPlace
<1>6. SearchPlace'
  BY <1>1 DEF SearchPlace
<1> QED BY <1>1, <1>3, <1>4, <1>5, <1>6, FreshNext, UntouchedNext DEF ScanInv

(* The layers. *)
LEMMA BackMore ==
  ASSUME NEW less, NEW more, less \subseteq more
  PROVE  BackOf(less, Of(entries), Near) \subseteq BackOf(more, Of(entries), Near)
BY InItemsBack

LEMMA LevelBack ==
  ASSUME level \in Seq(ChainRecords)
  PROVE  \A x : x \in BackOf(Of(level), Of(entries), Near) <=>
                \E i \in 1 .. Len(level) : x \in Behind(level[i].base)
<1>1. \A x : x \in BackOf(Of(level), Of(entries), Near) <=>
        \E c \in Of(level), e \in Of(entries) : c.base - e.value \in Near /\ x = InFrontOf(e, c)
  BY InItemsBack
<1>2. \A b : \A x : x \in Behind(b) <=>
        \E c \in {d \in Of(level) : d.base = b}, e \in Of(entries) :
          c.base - e.value \in Near /\ x = InFrontOf(e, c)
  BY InItemsBack DEF Behind
<1>3. \A b, c : c \in {d \in Of(level) : d.base = b} <=> c \in Of(level) /\ c.base = b
  OBVIOUS
<1>4. \A c : c \in Of(level) <=> \E i \in 1 .. Len(level) : c = level[i]
  BY InOf
<1>5. \A b : \A x : x \in Behind(b) <=>
        \E c \in Of(level), e \in Of(entries) :
          c.base = b /\ c.base - e.value \in Near /\ x = InFrontOf(e, c)
  BY ONLY <1>2, <1>3
<1> QED BY ONLY <1>1, <1>4, <1>5

LEMMA OneMore ==
  ASSUME NEW n \in Nat
  PROVE  ItemsTo(n + 1) = ItemsTo(n) \cup Items(n + 1)
<1>1. \A m : m \in 1 .. n + 1 <=> m \in 1 .. n \/ m = n + 1
  OBVIOUS
<1> QED BY <1>1, InItemsTo

(* While the search runs the index is at rest. *)
LEMMA AtRest ==
  ASSUME ScanInv, pc = "search", pc' \in {"search", "done"},
         UNCHANGED <<request, region, cursor, words, holes, index, truncated, entries>>
  PROVE  /\ ScanTypes' /\ ScanPlace' /\ ScanRead'
         /\ entries \in Seq(EntryRecords)
         /\ \A n : Items(n)' = Items(n)
         /\ layer \in Nat /\ layer < Depth /\ Depth \in Nat
<1>1. ScanTypes /\ ScanPlace /\ ScanRead
  BY DEF ScanInv
<1>2. entries \in Seq(Q!Entries) /\ entries \in Seq(EntryRecords)
  BY <1>1, ScanTyped DEF ScanTypes
<1>3. ScanTypes' /\ ScanRead'
  BY <1>1, <1>2, ReadFrame
<1>4. ScanPlace'
  BY <1>1 DEF ScanPlace
<1>5. \A n : Items(n)' = Items(n)
  BY DEF Items
<1>6. Depth \in Nat
  BY ScanConstants
<1>7. layer \in Nat /\ layer < Depth
  BY <1>6 DEF ScanInv, SearchTypes, SearchPlace
<1> QED BY <1>2, <1>3, <1>4, <1>5, <1>6, <1>7

ItemsToNext == \A n, x : x \in ItemsTo(n)' <=> \E m \in 1 .. n : x \in Items(m)'
LEMMA InItemsToNext == ItemsToNext
BY DEF ItemsTo, ItemsToNext

LEMMA FirstLayerKept ==
  ASSUME ScanInv, Q!FirstLayer PROVE ScanInv'
<1> DEFINE new == SubSeq(chains', Len(chains) + 1, Len(chains'))
<1>1. /\ pc = "search" /\ layer = 0 /\ level' = Links /\ Q!Take(level')
      /\ layer' = 1 /\ turn' = 1
      /\ pc' = IF level' = <<>> \/ Len(chains') >= MaxResults \/ Depth = 1
               THEN "done" ELSE "search"
      /\ UNCHANGED <<request, region, cursor, words, holes, index, truncated, entries>>
      /\ UNCHANGED nextLevel
  BY DEF Q!FirstLayer, Q!build, Links
<1>2. Fresh /\ SearchTypes
  BY <1>1 DEF ScanInv, SearchPlace
<1>3. pc' \in {"search", "done"}
  BY <1>1
<1>4. /\ ScanTypes' /\ ScanPlace' /\ ScanRead' /\ entries \in Seq(EntryRecords)
      /\ \A n : Items(n)' = Items(n)
      /\ Depth \in Nat /\ 0 < Depth
  BY <1>1, <1>3, AtRest
<1>5. level' \in Seq(ChainRecords) /\ Of(level') = Items(1)
  BY <1>1, <1>4, LinksOf
<1>6. Taken(level', new)
  BY <1>1, <1>2, <1>5, TakeOf DEF SearchTypes
<1> HIDE DEF new
<1>7. /\ chains' \in Seq(ChainRecords) /\ IsInjective(chains') /\ Len(chains') <= MaxResults
      /\ Of(new) \subseteq Of(level') /\ Of(chains') = Of(new)
      /\ limited' \in BOOLEAN /\ (Len(chains') >= MaxResults => limited')
      /\ (~limited' => Of(new) = Of(level'))
  BY <1>2, <1>6, NoneOf DEF Taken, Fresh
<1>8. SearchTypes'
  <2>1. layer' \in 0 .. Depth /\ turn' \in Nat \ {0}
    BY <1>1, <1>4
  <2> QED BY <1>1, <1>2, <1>5, <1>7, <2>1 DEF SearchTypes
<1>9. SearchPlace'
  <2>1. Depth # 1 => 1 < Depth
    BY <1>4
  <2> QED BY <1>1, <1>7, <2>1 DEF SearchPlace, Fresh
<1>10. SearchDone'
  <2>1. \A x : x \in ItemsTo(1)' <=> x \in Items(1)
    <3>1. \A x : x \in ItemsTo(1)' <=> \E m \in 1 .. 1 : x \in Items(m)'
      BY InItemsToNext DEF ItemsToNext
    <3>2. \A m : m \in 1 .. 1 <=> m = 1
      OBVIOUS
    <3> QED BY <1>4, <3>1, <3>2
  <2>2. Of(chains') \subseteq ItemsTo(layer)' /\ (~limited' => ItemsTo(layer)' \subseteq Of(chains'))
    BY <1>1, <1>5, <1>7, <2>1
  <2>3. Of(level') = Items(layer)'
    BY <1>1, <1>4, <1>5
  <2>4. Of(nextLevel') = {}
    BY <1>1, <1>2, NoneOf DEF Fresh
  <2>5. \A i \in 1 .. Len(level') : ~(i < turn')
    BY <1>1, <1>5
  <2> QED BY <1>7, <2>2, <2>3, <2>4, <2>5 DEF SearchDone
<1> QED BY <1>4, <1>8, <1>9, <1>10 DEF ScanInv

LEMMA ExtendKept ==
  ASSUME ScanInv, Q!Extend PROVE ScanInv'
<1> DEFINE b == level[turn].base
           more == Q!Extended(b)
<1>1. /\ pc = "search" /\ layer > 0 /\ turn \in DOMAIN level
      /\ nextLevel' = nextLevel \o more
      /\ \/ limited' = TRUE /\ turn' = Len(level) + 1
         \/ limited' = limited /\ turn' = turn + 1
      /\ UNCHANGED <<request, region, cursor, words, holes, index, truncated, entries>>
      /\ UNCHANGED <<pc, layer, level, chains>>
  BY DEF Q!Extend, Q!build
<1>2. SearchTypes /\ SearchPlace /\ SearchDone
  BY DEF ScanInv
<1>3. /\ ScanTypes' /\ ScanPlace' /\ ScanRead' /\ entries \in Seq(EntryRecords)
      /\ \A n : Items(n)' = Items(n)
      /\ layer \in Nat
  BY <1>1, AtRest
<1>4. /\ level \in Seq(ChainRecords) /\ Len(level) \in Nat /\ DOMAIN level = 1 .. Len(level)
      /\ nextLevel \in Seq(ChainRecords) /\ turn \in Nat
  BY <1>2 DEF SearchTypes
<1>5. b \in Int
  <2>1. level[turn] \in ChainRecords
    BY <1>1, <1>4
  <2> QED BY <2>1 DEF ChainRecords
<1> HIDE DEF b
<1>6. more \in Seq(ChainRecords) /\ Of(more) = Behind(b)
  BY <1>3, <1>4, <1>5, ExtendedOf
<1> HIDE DEF more
<1>7. nextLevel' \in Seq(ChainRecords) /\ Of(nextLevel') = Of(nextLevel) \cup Behind(b)
  BY <1>1, <1>4, <1>6, OfJoined
<1>8. SearchTypes'
  <2>1. turn' \in Nat \ {0} /\ limited' \in BOOLEAN
    <3>1. limited \in BOOLEAN
      BY <1>2 DEF SearchTypes
    <3>2. limited' \in BOOLEAN
      BY ONLY <1>1, <3>1
    <3>3. turn' \in Nat \ {0}
      BY <1>1, <1>4
    <3> QED BY <3>2, <3>3
  <2> QED BY <1>1, <1>2, <1>7, <2>1 DEF SearchTypes
<1>9. SearchPlace'
  BY <1>1, <1>2, <1>3 DEF SearchPlace, Fresh
<1>10. SearchDone'
  <2>1. Len(chains') >= MaxResults => limited'
    BY <1>1, <1>2 DEF SearchDone
  <2>2. ItemsTo(layer)' = ItemsTo(layer) /\ Items(layer)' = Items(layer)
    BY <1>1 DEF Items, ItemsTo
  <2>3. ~limited' => ~limited /\ turn' = turn + 1
    BY <1>1
  <2>4. /\ Of(chains') \subseteq ItemsTo(layer)'
        /\ ~limited' => ItemsTo(layer)' \subseteq Of(chains')
        /\ layer' > 0 => Of(level') \subseteq Items(layer)' /\ (~limited' => Items(layer)' \subseteq Of(level'))
    BY <1>1, <1>2, <2>2, <2>3 DEF SearchDone
  <2>5. Of(nextLevel') \subseteq BackOf(Of(level'), Of(entries'), Near)
    <3>1. Behind(b) \subseteq BackOf(Of(level), Of(entries), Near)
      BY <1>1, <1>4, LevelBack DEF b
    <3> QED BY <1>1, <1>2, <1>7, <3>1 DEF SearchDone
  <2>6. ~limited' => \A i \in 1 .. Len(level') :
                       i < turn' => Behind(level[i].base)' \subseteq Of(nextLevel')
    <3> SUFFICES ASSUME ~limited', NEW i \in 1 .. Len(level), i < turn'
                 PROVE  Behind(level[i].base)' \subseteq Of(nextLevel')
      BY <1>1
    <3>1. Behind(level[i].base)' = Behind(level[i].base)
      BY <1>1 DEF Behind
    <3>2. i < turn \/ i = turn
      BY <1>4, <2>3
    <3>3. i < turn => Behind(level[i].base) \subseteq Of(nextLevel)
      BY <1>2, <2>3 DEF SearchDone
    <3> QED BY <1>7, <3>1, <3>2, <3>3 DEF b
  <2> QED BY <2>1, <2>4, <2>5, <2>6 DEF SearchDone
<1> QED BY <1>3, <1>8, <1>9, <1>10 DEF ScanInv

LEMMA EndLayerKept ==
  ASSUME ScanInv, Q!EndLayer PROVE ScanInv'
<1> DEFINE new == SubSeq(chains', Len(chains) + 1, Len(chains'))
<1>1. /\ pc = "search" /\ layer > 0 /\ turn \notin DOMAIN level
      /\ Q!Take(nextLevel) /\ level' = new
      /\ layer' = layer + 1 /\ turn' = 1 /\ nextLevel' = <<>>
      /\ pc' = IF Len(chains') >= MaxResults \/ layer' = Depth \/ level' = <<>>
               THEN "done" ELSE "search"
      /\ UNCHANGED <<request, region, cursor, words, holes, index, truncated, entries>>
  BY DEF Q!EndLayer, Q!build
<1>2. SearchTypes /\ SearchPlace /\ SearchDone
  BY DEF ScanInv
<1>3. /\ ScanTypes' /\ ScanPlace' /\ ScanRead' /\ entries \in Seq(EntryRecords)
      /\ \A n : Items(n)' = Items(n)
      /\ layer \in Nat /\ layer < Depth /\ Depth \in Nat
  <2>1. pc' \in {"search", "done"}
    BY <1>1
  <2> QED BY <1>1, <2>1, AtRest
<1>4. /\ level \in Seq(ChainRecords) /\ Len(level) \in Nat /\ DOMAIN level = 1 .. Len(level)
      /\ nextLevel \in Seq(ChainRecords) /\ turn \in Nat \ {0}
  BY <1>2 DEF SearchTypes
<1>5. Taken(nextLevel, new)
  BY <1>1, <1>2, TakeOf DEF SearchTypes
<1> HIDE DEF new
<1>6. /\ chains' \in Seq(ChainRecords) /\ IsInjective(chains') /\ Len(chains') <= MaxResults
      /\ level' \in Seq(ChainRecords)
      /\ Of(level') \subseteq Of(nextLevel) /\ Of(chains') = Of(chains) \cup Of(level')
      /\ limited' \in BOOLEAN /\ (Len(chains') >= MaxResults => limited')
      /\ (~limited' => ~limited /\ Of(level') = Of(nextLevel) \ Of(chains))
  BY <1>1, <1>5 DEF Taken
<1>7. Items(layer + 1) = BackOf(Items(layer), Of(entries), Near)
  BY <1>3, NextItems
<1>8. Of(nextLevel) \subseteq Items(layer + 1)
  <2>1. Of(level) \subseteq Items(layer)
    BY <1>1, <1>2 DEF SearchDone
  <2> QED BY <1>2, <1>7, <2>1, BackMore DEF SearchDone
<1>9. ~limited => Items(layer + 1) \subseteq Of(nextLevel)
  <2> SUFFICES ASSUME ~limited PROVE Items(layer + 1) \subseteq Of(nextLevel)
    OBVIOUS
  <2>1. Of(level) = Items(layer)
    BY <1>1, <1>2 DEF SearchDone
  <2>2. \A i \in 1 .. Len(level) : i < turn
    BY <1>1, <1>4
  <2>3. \A i \in 1 .. Len(level) : Behind(level[i].base) \subseteq Of(nextLevel)
    BY <1>2, <2>2 DEF SearchDone
  <2> QED BY <1>4, <1>7, <2>1, <2>3, LevelBack
<1>10. Of(chains) \cap Items(layer + 1) = {}
  <2> SUFFICES ASSUME NEW x \in ItemsTo(layer), x \in Items(layer + 1) PROVE FALSE
    BY <1>2 DEF SearchDone
  <2>1. PICK m \in 1 .. layer : x \in Items(m)
    BY InItemsTo
  <2>2. m \in Nat /\ layer + 1 \in Nat /\ m < layer + 1
    BY <1>3
  <2> QED BY <2>1, <2>2, ItemsDiffer
<1>11. Of(level') \subseteq Items(layer + 1) /\ (~limited' => Of(level') = Items(layer + 1))
  BY <1>6, <1>8, <1>9, <1>10
<1>12. SearchTypes'
  <2>1. layer' \in 0 .. Depth /\ turn' \in Nat \ {0}
    BY <1>1, <1>3
  <2>2. <<>> \in Seq(ChainRecords)
    OBVIOUS
  <2> QED BY <1>1, <1>6, <2>1, <2>2 DEF SearchTypes
<1>13. SearchPlace'
  <2>1. layer' > 0 /\ layer' # 0 /\ (layer' # Depth => layer' < Depth)
    BY <1>1, <1>3
  <2> QED BY <1>1, <1>6, <2>1 DEF SearchPlace, Fresh
<1>14. SearchDone'
  <2>1. \A x : x \in ItemsTo(layer)' <=> x \in ItemsTo(layer + 1)
    <3>1. \A x : x \in ItemsTo(layer)' <=> \E m \in 1 .. layer' : x \in Items(m)'
      BY DEF ItemsTo
    <3>2. \A x : x \in ItemsTo(layer + 1) <=> \E m \in 1 .. layer + 1 : x \in Items(m)
      BY InItemsTo
    <3> QED BY <1>1, <1>3, <3>1, <3>2
  <2>2. ItemsTo(layer + 1) = ItemsTo(layer) \cup Items(layer + 1)
    BY <1>3, OneMore
  <2>3. Of(chains) \subseteq ItemsTo(layer) /\ (~limited => ItemsTo(layer) \subseteq Of(chains))
    BY <1>2 DEF SearchDone
  <2>4. Of(chains') \subseteq ItemsTo(layer)' /\ (~limited' => ItemsTo(layer)' \subseteq Of(chains'))
    BY <1>6, <1>11, <2>1, <2>2, <2>3
  <2>5. Items(layer)' = Items(layer + 1)
    BY <1>1 DEF Items
  <2>6. Of(nextLevel') = {}
    BY <1>1, NoneOf
  <2>7. \A i \in 1 .. Len(level') : ~(i < turn')
    BY <1>1, <1>6
  <2> QED BY <1>6, <1>11, <2>4, <2>5, <2>6, <2>7 DEF SearchDone
<1> QED BY <1>3, <1>12, <1>13, <1>14 DEF ScanInv

-----------------------------------------------------------------------------
(* A read, and what it adds to the words and to the index. *)
SkippedPages == {p \in 0 .. Regions[Len(Regions)].end : p % Page = 0}

LEMMA MissingOf ==
  ASSUME cursor \in Nat, Q!Length \in Nat, NEW skipped
  PROVE  /\ Cardinality(Q!Missing(skipped)) \in Nat
         /\ Cardinality(Q!Missing(skipped)) = 0 => Q!Missing(skipped) = {}
         /\ Cardinality(Q!Missing(skipped)) <= Q!Length
<1> DEFINE M == Q!Missing(skipped)
           B == cursor .. cursor + Q!Length - 1
<1>1. M \in SUBSET B
  BY DEF Q!Missing
<1>2. IsFiniteSet(B) /\ Cardinality(B) = Q!Length
  <2>1. /\ IsFiniteSet(B)
        /\ Cardinality(B) = IF cursor > cursor + Q!Length - 1 THEN 0
                            ELSE cursor + Q!Length - 1 - cursor + 1
    BY FS_Interval
  <2> QED BY <2>1
<1> HIDE DEF M, B
<1>3. IsFiniteSet(M) /\ Cardinality(M) <= Cardinality(B)
  BY <1>1, <1>2, FS_Subset
<1>4. Cardinality(M) \in Nat /\ (Cardinality(M) = 0 => M = {})
  BY <1>3, FS_CardinalityType, FS_EmptySet
<1> QED BY <1>2, <1>3, <1>4 DEF M

(* What is whole lies in the region; without holes all of the chunk is.  *)
LEMMA WholeOf ==
  ASSUME InRegion, ~Q!EndOfRegion, NEW skipped
  PROVE  /\ Q!Whole(skipped) \subseteq Q!Starts
         /\ Q!Missing(skipped) = {} => Q!Whole(skipped) = ReadAt(Q!Length)
<1>1. /\ Q!Length \in Nat /\ Q!Length >= Word /\ cursor + Q!Length <= Regions[region].end
      /\ cursor \in Nat /\ cursor >= Regions[region].start
  BY ChunkOf DEF InRegion
<1>2. /\ Word \in Nat \ {0} /\ Regions[region].start \in Nat /\ Regions[region].end \in Nat
      /\ region \in DOMAIN Regions
  BY ScanConstants DEF InRegion
<1>3. \A a : a \in Q!Whole(skipped) <=>
        /\ a \in cursor .. cursor + Q!Length - Word
        /\ a - cursor \in Q!Offsets(Q!Length)
        /\ (a .. a + Word - 1) \cap Q!Missing(skipped) = {}
  BY DEF Q!Whole
<1>4. Q!Whole(skipped) \subseteq Q!Starts
  <2> SUFFICES ASSUME NEW a \in Q!Whole(skipped) PROVE a \in Q!Starts
    OBVIOUS
  <2>1. a \in cursor .. cursor + Q!Length - Word
    BY <1>3
  <2>2. a \in Regions[region].start .. Regions[region].end - Word
    BY <1>1, <1>2, <2>1
  <2> QED BY <1>2, <2>2 DEF Q!Starts
<1>5. ASSUME Q!Missing(skipped) = {} PROVE Q!Whole(skipped) = ReadAt(Q!Length)
  <2>1. \A o : o \in Q!Offsets(Q!Length) => o \in Nat /\ o <= Q!Length - Word
    BY <1>2 DEF Q!Offsets
  <2>2. ASSUME NEW a \in Q!Whole(skipped) PROVE a \in ReadAt(Q!Length)
    <3>1. a - cursor \in Q!Offsets(Q!Length) /\ a = cursor + (a - cursor)
      BY <1>1, <1>2, <1>3
    <3> QED BY <3>1 DEF ReadAt
  <2>3. ASSUME NEW a \in ReadAt(Q!Length) PROVE a \in Q!Whole(skipped)
    <3>1. PICK o \in Q!Offsets(Q!Length) : a = cursor + o
      BY DEF ReadAt
    <3>2. a - cursor = o /\ a \in cursor .. cursor + Q!Length - Word
      BY <1>1, <1>2, <2>1, <3>1
    <3> QED BY <1>3, <1>5, <3>2
  <2> QED BY <2>2, <2>3
<1> QED BY <1>4, <1>5

(* Entries behind an index, cut where it is full. *)
LEMMA IndexOf ==
  ASSUME index \in Seq(Q!Entries), NEW more \in Seq(Q!Entries), NEW cut, NEW full,
         cut = SubSeq(index \o more, 1, Q!Min2(Len(index \o more), MaxEntries)),
         full = (Len(index \o more) >= MaxEntries)
  PROVE  /\ cut \in Seq(Q!Entries) /\ Len(cut) \in Nat /\ Len(cut) <= MaxEntries
         /\ full \in BOOLEAN
         /\ Of(cut) \subseteq Of(index) \cup Of(more)
         /\ ~full => Of(cut) = Of(index) \cup Of(more)
<1> DEFINE all == index \o more
           n == Len(all)
           m == IF n < MaxEntries THEN n ELSE MaxEntries
<1>1. all \in Seq(Q!Entries) /\ Of(all) = Of(index) \cup Of(more)
  BY OfJoined
<1>2. MaxEntries \in Nat \ {0}
  BY ScanConstants
<1>3. cut = SubSeq(all, 1, m)
  <2>1. Q!Min2(n, MaxEntries) = m
    BY ScanLibrary
  <2> HIDE DEF n, m, all
  <2> QED BY <2>1 DEF n, all
<1> HIDE DEF all
<1>4. n \in Nat /\ m \in Nat /\ m <= n /\ m <= MaxEntries /\ (n < MaxEntries => m = n)
  BY <1>1, <1>2
<1>5. full = (n >= MaxEntries)
  BY DEF all
<1> HIDE DEF n, m
<1>6. cut \in Seq(Q!Entries) /\ Len(cut) = m /\ \A i \in 1 .. m : cut[i] = all[i]
  <2>1. all \in Seq(Q!Entries) /\ m \in Nat /\ m <= Len(all)
    BY <1>1, <1>4 DEF n
  <2>2. /\ SubSeq(all, 1, m) \in Seq(Q!Entries) /\ Len(SubSeq(all, 1, m)) = m
        /\ \A i \in 1 .. m : SubSeq(all, 1, m)[i] = all[i]
    BY ONLY <2>1
  <2> QED BY ONLY <1>3, <2>2
<1>7. \A x : x \in Of(all) <=> \E i \in 1 .. n : x = all[i]
  BY <1>1, InOf DEF n
<1>8. \A x : x \in Of(cut) <=> \E i \in 1 .. m : x = all[i]
  <2>1. \A x : x \in Of(cut) <=> \E i \in 1 .. m : x = cut[i]
    <3>1. cut \in Seq(Q!Entries) /\ Len(cut) = m
      BY ONLY <1>6
    <3> QED BY ONLY <3>1, InOf
  <2> QED BY ONLY <1>6, <2>1
<1>9. 1 .. m \subseteq 1 .. n
  BY <1>4
<1>10. Of(cut) \subseteq Of(all)
  BY ONLY <1>7, <1>8, <1>9
<1>11. ~full => Of(cut) = Of(all)
  <2>1. ~full => m = n
    <3>1. ~full => ~(n >= MaxEntries)
      BY ONLY <1>5, Zenon
    <3>2. ~(n >= MaxEntries) => m = n
      BY ONLY <1>2, <1>4
    <3> QED BY ONLY <3>1, <3>2
  <2> QED BY ONLY <1>7, <1>8, <2>1
<1>12. full \in BOOLEAN
  BY ONLY <1>5
<1>13. cut \in Seq(Q!Entries) /\ Len(cut) \in Nat /\ Len(cut) <= MaxEntries
  BY ONLY <1>4, <1>6
<1> QED BY ONLY <1>1, <1>10, <1>11, <1>12, <1>13

WordEntriesOK ==
  \A e : e \in WordEntries <=>
    \E a \in DOMAIN words : words[a] # 0 /\ e = [value |-> words[a], address |-> a]
LEMMA WordEntriesNext == WordEntriesOK'
<1>1. WordEntriesOK
  BY WordEntriesOf DEF WordEntriesOK
<1> QED BY <1>1, PTL

(* What a chunk adds, as a step of the agent. *)
Added(read, data) ==
  words' = [a \in DOMAIN words \cup read |-> IF a \in read THEN data[a] ELSE words[a]]

LEMMA WordsAdded ==
  ASSUME NEW read, NEW data, Added(read, data), DOMAIN words \cap read = {}
  PROVE  /\ DOMAIN words' = DOMAIN words \cup read
         /\ \A e : e \in WordEntries' <=>
              \/ e \in WordEntries
              \/ \E a \in read : data[a] # 0 /\ e = [value |-> data[a], address |-> a]
<1>1. /\ DOMAIN words' = DOMAIN words \cup read
      /\ \A a \in read : words'[a] = data[a]
      /\ \A a \in DOMAIN words : words'[a] = words[a]
  BY DEF Added
<1>2. \A e : e \in WordEntries' <=>
        \E a \in DOMAIN words' : words'[a] # 0 /\ e = [value |-> words'[a], address |-> a]
  BY WordEntriesNext DEF WordEntriesOK
<1> QED BY <1>1, <1>2, WordEntriesOf

(* Nothing is read twice. *)
LEMMA ReadOnce ==
  ASSUME InRegion, ~Q!EndOfRegion
  PROVE  /\ Reached \cap ReadAt(Q!Length) = {}
         /\ ReadAt(Q!Length) \subseteq PosOf(region)
<1>1. \A a : a \in ReadAt(Q!Length) <=>
        a \in PosOf(region) /\ cursor <= a /\ a < cursor + Q!Length - Q!Overlap
  BY ChunkOf
<1>2. ASSUME NEW a \in Reached, a \in ReadAt(Q!Length) PROVE FALSE
  <2>1. PICK k \in 1 .. Len(Regions) : a \in PosOf(k) /\ (k < region \/ (k = region /\ a < cursor))
    BY DEF Reached
  <2>2. cursor <= a /\ a \in Nat /\ a <= Regions[k].end - Word
    BY <1>1, <1>2, <2>1, PositionsTyped DEF PositionsOK
  <2>3. cursor \in Nat /\ cursor >= Regions[region].start /\ region \in 1 .. Len(Regions)
    BY DEF InRegion
  <2>4. CASE k < region
    <3>1. Regions[k].end <= Regions[region].start
      BY <2>3, <2>4, ScanConstants
    <3>2. Word \in Nat \ {0} /\ Regions[k].end \in Nat /\ Regions[region].start \in Nat
      BY <2>3, ScanConstants
    <3> QED BY <2>2, <2>3, <3>1, <3>2
  <2>5. CASE k = region /\ a < cursor
    BY <2>2, <2>3, <2>5
  <2> QED BY <2>1, <2>4, <2>5
<1> QED BY <1>1, <1>2

(* What is reached behind a chunk. *)
ReachedOK ==
  \A a : a \in Reached <=>
    a \in Nat /\ \E k \in 1 .. Len(Regions) :
                   a \in PosOf(k) /\ (k < region \/ (k = region /\ a < cursor))
LEMMA ReachedOf == ReachedOK
BY DEF ReachedOK, Reached
LEMMA ReachedNext == ReachedOK'
BY ReachedOf, PTL

LEMMA ReachedMore ==
  ASSUME InRegion, ~Q!EndOfRegion, request' = request,
         \/ region' = Len(Regions) + 1
         \/ region' = region /\ cursor' = cursor + Q!Length - Q!Overlap
  PROVE  /\ Reached \cup ReadAt(Q!Length) \subseteq Reached'
         /\ region' = region => Reached' \subseteq Reached \cup ReadAt(Q!Length)
<1> DEFINE to == cursor + Q!Length - Q!Overlap
<1>1. /\ \A a : a \in ReadAt(Q!Length) <=> a \in PosOf(region) /\ cursor <= a /\ a < to
      /\ to \in Nat
  BY ChunkOf
<1>2. /\ cursor \in Nat /\ region \in 1 .. Len(Regions) /\ Len(Regions) \in Nat
  BY ScanConstants DEF InRegion
<1>3. \A k : PosOf(k)' = PosOf(k)
  BY DEF PosOf
<1>4. \A k \in 1 .. Len(Regions) : \A a \in PosOf(k) : a \in Nat
  BY PositionsTyped DEF PositionsOK
<1>5. cursor <= to
  <2>1. /\ Q!Length \in Nat /\ Q!Length >= Word /\ Word \in Nat \ {0}
    BY ChunkOf, ScanConstants
  <2>2. Q!Overlap \in Nat /\ Q!Overlap < Word
    BY <2>1 DEF Q!Overlap
  <2> QED BY <1>2, <2>1, <2>2
<1> HIDE DEF to
<1>6. \A a : a \in Reached <=>
        a \in Nat /\ \E k \in 1 .. Len(Regions) :
                       a \in PosOf(k) /\ (k < region \/ (k = region /\ a < cursor))
  BY ReachedOf DEF ReachedOK
<1>7. \A a : a \in Reached' <=>
        a \in Nat /\ \E k \in 1 .. Len(Regions) :
                       a \in PosOf(k) /\ (k < region' \/ (k = region' /\ a < cursor'))
  BY <1>3, ReachedNext DEF ReachedOK
<1>8. CASE region' = Len(Regions) + 1
  <2>1. region' # region /\ \A k \in 1 .. Len(Regions) : k < region'
    BY <1>2, <1>8
  <2>2. Reached \subseteq Reached'
    BY ONLY <1>6, <1>7, <2>1
  <2>3. ReadAt(Q!Length) \subseteq Reached'
    BY ONLY <1>1, <1>2, <1>4, <1>7, <2>1
  <2> QED BY <2>1, <2>2, <2>3
<1>9. CASE region' = region /\ cursor' = to
  <2>1. ASSUME NEW a \in Nat, NEW k \in 1 .. Len(Regions), a \in PosOf(k)
        PROVE  (k < region' \/ (k = region' /\ a < cursor')) <=>
               (k < region \/ (k = region /\ a < cursor) \/ (k = region /\ a \in ReadAt(Q!Length)))
    <3>1. k = region => (a \in ReadAt(Q!Length) <=> cursor <= a /\ a < to)
      BY <1>1, <2>1
    <3> QED BY <1>1, <1>2, <1>5, <1>9, <3>1
  <2>2. ASSUME NEW a \in ReadAt(Q!Length) PROVE a \in Nat /\ a \in PosOf(region)
    BY <1>1, <1>2, <1>4
  <2>3. Reached \subseteq Reached'
    BY ONLY <1>6, <1>7, <2>1
  <2>4. ReadAt(Q!Length) \subseteq Reached'
    BY ONLY <1>2, <1>7, <2>1, <2>2
  <2>5. Reached' \subseteq Reached \cup ReadAt(Q!Length)
    BY ONLY <1>6, <1>7, <2>1
  <2> QED BY <2>3, <2>4, <2>5
<1> QED BY <1>8, <1>9 DEF to

(* The agent reads a chunk. *)
LEMMA ReadKept ==
  ASSUME ScanInv, NEW skipped, NEW ok \in BOOLEAN, Q!ReadChunk(skipped, ok)
  PROVE  ScanInv'
<1> DEFINE bytes == IF ok THEN Q!Length - Cardinality(Q!Missing(skipped)) ELSE 0
           short == bytes < Q!Length
           D == ReadAt(bytes)
           to == cursor + Q!Length - Q!Overlap
           last == Len(Regions) + 1
           Read(data) == Q!Whole(skipped) \cap DOMAIN data
           all(data) == index \o Q!NonZero(data)
<1>1. /\ pc = "build" /\ region \in DOMAIN Regions /\ ~Q!EndOfRegion
      /\ holes' = (holes \/ short)
      /\ UNCHANGED <<request, entries>>
      /\ UNCHANGED <<layer, level, nextLevel, turn, chains, limited>>
  BY ScanLibrary DEF Q!ReadChunk, Q!search
<1>2. \/ /\ short /\ pc' = "failed" /\ index' = <<>>
         /\ UNCHANGED <<region, cursor, words, truncated>>
      \/ /\ request.strict /\ short => ~(bytes > 0)
         /\ \E data \in [D -> WordValues] :
              /\ Added(Read(data), data)
              /\ index' = SubSeq(all(data), 1, Q!Min2(Len(all(data)), MaxEntries))
              /\ truncated' = (Len(all(data)) >= MaxEntries)
              /\ \/ truncated' /\ region' = last /\ cursor' = 0
                 \/ ~truncated' /\ cursor' = to /\ region' = region
              /\ pc' = pc
  BY ScanLibrary DEF Q!ReadChunk, ReadAt, Added
<1>3. ScanTypes /\ ScanPlace /\ ScanRead /\ SearchTypes /\ SearchPlace /\ SearchDone
  BY DEF ScanInv
<1>4. region \in 1 .. Len(Regions) /\ Len(Regions) \in Nat /\ Word \in Nat \ {0}
  BY <1>1, ScanConstants
<1>5. InRegion
  BY <1>1, <1>3, <1>4 DEF ScanPlace
<1>6. /\ Q!Length \in Nat /\ Q!Length >= Word /\ to \in Nat /\ to >= Regions[region].start
      /\ (~request.byteStep => to % Word = 0)
  BY <1>1, <1>5, ChunkOf
<1>7. bytes \in Nat /\ (~short => bytes = Q!Length /\ Q!Missing(skipped) = {})
  <2> DEFINE m == Cardinality(Q!Missing(skipped))
  <2>1. m \in Nat /\ (m = 0 => Q!Missing(skipped) = {}) /\ m <= Q!Length
    BY <1>5, <1>6, MissingOf DEF InRegion
  <2> HIDE DEF m
  <2>2. CASE ok
    BY <1>6, <2>1, <2>2 DEF m
  <2>3. CASE ~ok
    BY <1>4, <1>6, <2>3
  <2> QED BY <2>2, <2>3
<1>8. SearchTypes' /\ SearchDone'
  BY <1>1, <1>3, SearchFrame
<1>9. Fresh /\ Fresh'
  <2>1. Fresh
    BY <1>1, <1>3 DEF SearchPlace
  <2> QED BY <1>1, <2>1 DEF Fresh
<1>10. entries' = <<>> /\ entries' \in Seq(Q!Entries) /\ Len(entries') = 0
  <2>1. entries = <<>>
    BY <1>1, <1>3 DEF ScanPlace
  <2>2. <<>> \in Seq(Q!Entries) /\ Len(<<>>) = 0
    OBVIOUS
  <2> QED BY <1>1, <2>1, <2>2
<1>11. ASSUME index' \in Seq(Q!Entries)
       PROVE  entries' = SubSeq(index', 1, Len(entries')) /\ Len(entries') <= Len(index')
  <2>1. SubSeq(index', 1, 0) = <<>> /\ 0 <= Len(index')
    BY <1>11
  <2> QED BY <1>10, <2>1
<1>12. holes' \in BOOLEAN /\ (~holes' => ~holes /\ ~short)
  <2>1. holes' \in BOOLEAN
    BY ONLY <1>1
  <2> HIDE DEF short
  <2>2. ~holes' => ~holes /\ ~short
    BY ONLY <1>1, Zenon
  <2> QED BY <2>1, <2>2
<1>13. ~truncated
  BY <1>3, <1>4 DEF ScanPlace
<1> HIDE DEF bytes, to, last, all, Read
<1>14. CASE /\ short /\ pc' = "failed" /\ index' = <<>>
            /\ UNCHANGED <<region, cursor, words, truncated>>
  <2>1. index' \in Seq(Q!Entries) /\ Len(index') = 0 /\ 0 <= MaxEntries
    <3>1. <<>> \in Seq(Q!Entries) /\ Len(<<>>) = 0
      OBVIOUS
    <3>2. 0 <= MaxEntries
      BY ScanConstants
    <3> QED BY <1>14, <3>1, <3>2
  <2>2. holes' = TRUE
    BY ONLY <1>1, <1>14
  <2>3. ScanTypes'
    BY <1>1, <1>3, <1>10, <1>14, <2>1, <2>2 DEF ScanTypes
  <2>4. ScanPlace'
    BY <1>10, <1>11, <1>13, <1>14, <2>1 DEF ScanPlace
  <2>5. ScanRead'
    <3>1. Reached' = Reached /\ WordEntries' = WordEntries
      BY <1>1, <1>14 DEF Reached, PosOf, WordEntries
    <3>2. request' = request /\ words' = words /\ index' = <<>>
      BY <1>1, <1>14
    <3>3. request.strict => DOMAIN words \subseteq Reached
      BY <1>3 DEF ScanRead, Sound
    <3> QED BY <2>2, <3>1, <3>2, <3>3, NoneOf DEF ScanRead, Sound
  <2>6. SearchPlace'
    BY <1>9, <1>14 DEF SearchPlace
  <2> QED BY <1>8, <2>3, <2>4, <2>5, <2>6 DEF ScanInv
<1>15. ASSUME request.strict /\ short => ~(bytes > 0),
              NEW data \in [D -> WordValues], Added(Read(data), data),
              index' = SubSeq(all(data), 1, Q!Min2(Len(all(data)), MaxEntries)),
              truncated' = (Len(all(data)) >= MaxEntries),
              \/ truncated' /\ region' = last /\ cursor' = 0
              \/ ~truncated' /\ cursor' = to /\ region' = region,
              pc' = pc
       PROVE  ScanInv'
  <2> DEFINE more == Q!NonZero(data)
             read == Read(data)
  <2>1. D \in SUBSET Nat /\ IsFiniteSet(D)
    BY <1>5, <1>7, ReadAtOf DEF InRegion
  <2>2. /\ more \in Seq(Q!Entries)
        /\ \A e : e \in Of(more) <=>
             \E a \in D : data[a] # 0 /\ e = [value |-> data[a], address |-> a]
    BY <2>1, NonZeroOf
  <2> HIDE DEF more
  <2>3. /\ index' \in Seq(Q!Entries) /\ Len(index') \in Nat /\ Len(index') <= MaxEntries
        /\ truncated' \in BOOLEAN
        /\ Of(index') \subseteq Of(index) \cup Of(more)
        /\ (~truncated' => Of(index') = Of(index) \cup Of(more))
    <3>1. index \in Seq(Q!Entries)
      BY <1>3 DEF ScanTypes
    <3>2. all(data) = index \o more
      BY DEF all, more
    <3>3. /\ index' = SubSeq(index \o more, 1, Q!Min2(Len(index \o more), MaxEntries))
          /\ truncated' = (Len(index \o more) >= MaxEntries)
      BY ONLY <1>15, <3>2
    <3>4. more \in Seq(Q!Entries)
      BY <2>2
    <3> QED BY ONLY <3>1, <3>3, <3>4, IndexOf, ZenonT(40)
  <2>4. read \subseteq Q!Starts /\ read \subseteq D
    <3>1. DOMAIN data = D
      OBVIOUS
    <3> QED BY <1>1, <1>5, <3>1, WholeOf DEF Read
  <2>5. /\ DOMAIN words' = DOMAIN words \cup read
        /\ \A a \in DOMAIN words' : words'[a] = IF a \in read THEN data[a] ELSE words[a]
    BY <1>15 DEF Added
  <2>6. region' \in 1 .. Len(Regions) + 1 /\ cursor' \in Nat
        /\ (truncated' => region' = Len(Regions) + 1)
        /\ (region' <= Len(Regions) => region' = region /\ cursor' = to)
    BY <1>4, <1>6, <1>15 DEF last
  <2>7. ScanTypes'
    <3>1. DOMAIN words' \subseteq Q!Starts
      BY <1>3, <2>4, <2>5 DEF ScanTypes
    <3>2. \A a \in DOMAIN words' : words'[a] \in WordValues
      <4>1. \A a \in read : data[a] \in WordValues
        BY <2>4
      <4> QED BY <1>3, <2>5, <4>1 DEF ScanTypes
    <3>3. request' \in [byteStep : BOOLEAN, strict : BOOLEAN]
      BY <1>1, <1>3 DEF ScanTypes
    <3> QED BY <1>10, <1>12, <2>3, <2>6, <3>1, <3>2, <3>3 DEF ScanTypes
  <2>8. ScanPlace'
    <3>1. region' <= Len(Regions) => InRegion'
      BY <1>1, <1>5, <1>6, <2>6 DEF InRegion
    <3> QED BY <1>1, <1>10, <1>11, <1>15, <2>3, <2>6, <3>1 DEF ScanPlace
  <2>9. ScanRead'
    <3>0. /\ Reached \cup ReadAt(Q!Length) \subseteq Reached'
          /\ region' = region => Reached' \subseteq Reached \cup ReadAt(Q!Length)
      <4>1. \/ region' = Len(Regions) + 1
            \/ region' = region /\ cursor' = cursor + Q!Length - Q!Overlap
        BY <1>15 DEF last, to
      <4>2. request' = request
        BY <1>1
      <4> QED BY <1>1, <1>5, <4>1, <4>2, ReachedMore
    <3>1. CASE ~short /\ Sound
      <4>1. bytes = Q!Length /\ Q!Missing(skipped) = {}
        BY <1>7, <3>1
      <4>2. /\ DOMAIN words \subseteq Reached /\ Of(index) \subseteq WordEntries
            /\ ~holes => Reached \subseteq DOMAIN words /\ WordEntries \subseteq Of(index)
        BY <1>3, <1>13, <3>1 DEF ScanRead
      <4>3. read = D /\ D = ReadAt(Q!Length)
        <5>1. Q!Whole(skipped) = ReadAt(Q!Length)
          BY <1>1, <1>5, <4>1, WholeOf
        <5>2. DOMAIN data = D
          OBVIOUS
        <5> QED BY <4>1, <5>1, <5>2 DEF Read
      <4>4. DOMAIN words \cap read = {}
        BY <1>1, <1>5, <4>2, <4>3, ReadOnce
      <4>5. \A e : e \in WordEntries' <=> e \in WordEntries \/ e \in Of(more)
        <5>1. \A e : e \in WordEntries' <=>
                \/ e \in WordEntries
                \/ \E a \in read : data[a] # 0 /\ e = [value |-> data[a], address |-> a]
          BY <1>15, <4>4, WordsAdded
        <5> QED BY ONLY <2>2, <4>3, <5>1
      <4>6. DOMAIN words' \subseteq Reached' /\ Of(index') \subseteq WordEntries'
        BY ONLY <2>3, <2>5, <3>0, <4>2, <4>3, <4>5
      <4>7. ~truncated' => region' = region
        BY <1>15
      <4>8. ~holes /\ ~truncated' => Reached' \subseteq DOMAIN words' /\ WordEntries' \subseteq Of(index')
        BY ONLY <2>3, <2>5, <3>0, <4>2, <4>3, <4>5, <4>7
      <4> QED BY <1>12, <4>6, <4>8 DEF ScanRead
    <3>2. CASE short /\ request.strict
      <4>1. D = {} /\ read = {}
        <5>1. bytes = 0
          BY <1>7, <1>15, <3>2
        <5>2. D = {}
          BY <1>4, <5>1 DEF ReadAt, Q!Offsets
        <5> QED BY <2>4, <5>2
      <4>2. Of(more) = {} /\ DOMAIN words \cap read = {}
        BY <2>2, <4>1
      <4>3. \A e : e \in WordEntries' <=> e \in WordEntries
        <5>1. \A e : e \in WordEntries' <=>
                \/ e \in WordEntries
                \/ \E a \in read : data[a] # 0 /\ e = [value |-> data[a], address |-> a]
          BY <1>15, <4>2, WordsAdded
        <5> QED BY ONLY <4>1, <5>1
      <4>4. DOMAIN words \subseteq Reached /\ Of(index) \subseteq WordEntries
        BY <1>3, <3>2 DEF ScanRead, Sound
      <4>5. DOMAIN words' \subseteq Reached' /\ Of(index') \subseteq WordEntries'
        BY ONLY <2>3, <2>5, <3>0, <4>1, <4>2, <4>3, <4>4
      <4> QED BY <1>12, <3>2, <4>5 DEF ScanRead
    <3>3. CASE (~short /\ ~Sound) \/ (short /\ ~request.strict)
      <4>1. request' = request /\ holes' = (holes \/ short)
        BY <1>1
      <4>2. ~(~holes' \/ request'.strict) /\ ~(~holes')
        <5> HIDE DEF short
        <5> QED BY ONLY <3>3, <4>1, Zenon DEF Sound
      <4> QED BY <4>2 DEF ScanRead, Sound
    <3> QED BY <3>1, <3>2, <3>3
  <2>10. SearchPlace'
    BY <1>1, <1>9, <1>15 DEF SearchPlace
  <2> QED BY <1>8, <2>7, <2>8, <2>9, <2>10 DEF ScanInv
<1> QED BY <1>2, <1>14, <1>15

LEMMA ScanNext == ASSUME ScanInv, Q!Next PROVE ScanInv'
<1>1. CASE \E skipped \in SUBSET SkippedPages, ok \in BOOLEAN : Q!ReadChunk(skipped, ok)
  BY <1>1, ReadKept
<1> QED BY <1>1, StartKept, RegionKept, FinishKept, PageKept, FailKept, FirstLayerKept,
           ExtendKept, EndLayerKept, AgainKept DEF Q!Next, SkippedPages

LEMMA ScanSame == ASSUME ScanInv, UNCHANGED scanVars PROVE ScanInv'
<1>1. /\ UNCHANGED <<pc, request, region, cursor, words, holes, truncated, index, entries>>
      /\ UNCHANGED <<layer, level, nextLevel, turn, chains, limited>>
  BY DEF scanVars
<1>2. ScanTypes /\ ScanPlace /\ ScanRead /\ SearchTypes /\ SearchPlace /\ SearchDone
  BY DEF ScanInv
<1>3. ScanRead' /\ ScanTypes' /\ (InRegion' <=> InRegion)
  <2>1. entries' \in Seq(Q!Entries)
    BY <1>1, <1>2 DEF ScanTypes
  <2> QED BY <1>1, <1>2, <2>1, ReadFrame
<1>4. SearchTypes' /\ SearchDone'
  BY <1>1, <1>2, SearchFrame
<1>5. ScanPlace'
  BY <1>1, <1>2, <1>3 DEF ScanPlace, Untouched
<1>6. SearchPlace'
  BY <1>1, <1>2 DEF SearchPlace, Fresh
<1> QED BY <1>3, <1>4, <1>5, <1>6 DEF ScanInv

LEMMA ScanOK == ASSUME ScanInv PROVE Q!TypeOK
<1>1. ScanTypes /\ ScanPlace /\ SearchTypes
  BY DEF ScanInv
<1>2. Q!Range(index) \subseteq Q!Entries
  BY <1>1, InOf DEF ScanTypes
<1>3. Q!IsInjective(chains)
  BY <1>1, ScanLibrary DEF SearchTypes
<1> QED BY <1>1, <1>2, <1>3 DEF Q!TypeOK, ScanTypes, ScanPlace, SearchTypes

LEMMA ScanExact == ASSUME ScanInv PROVE Q!ChainsExact
<1> SUFFICES ASSUME pc = "done"
             PROVE  /\ Sound => Q!Range(chains) \subseteq Q!AllChains
                    /\ ~holes /\ ~truncated => DOMAIN words = Q!Positions
                    /\ ~holes /\ ~truncated /\ ~limited => Q!Range(chains) = Q!AllChains
  BY DEF Q!ChainsExact, Sound
<1>1. ScanTypes /\ ScanPlace /\ ScanRead /\ SearchTypes /\ SearchPlace /\ SearchDone
  BY DEF ScanInv
<1>2. entries = index /\ region = Len(Regions) + 1 /\ Len(Regions) \in Nat
  BY <1>1, ScanConstants DEF ScanPlace
<1>3. WordsOK /\ entries \in Seq(EntryRecords)
  BY <1>1, ScanTyped
<1>4. Q!Range(chains) = Of(chains)
  BY <1>1, InOf DEF SearchTypes
<1>5. /\ Sound => Of(entries) \subseteq WordEntries
      /\ ~holes /\ ~truncated => Of(entries) = WordEntries
  BY <1>1, <1>2 DEF ScanRead, Sound
<1>6. /\ Sound => ItemsTo(Depth) \subseteq Q!AllChains
      /\ ~holes /\ ~truncated => ItemsTo(Depth) = Q!AllChains
  BY <1>3, <1>5, AllOfEntries
<1>7. layer \in Nat /\ layer <= Depth /\ Depth \in Nat
  BY <1>1, ScanConstants DEF SearchTypes
<1>8. Of(chains) \subseteq ItemsTo(Depth)
  <2>1. 1 .. layer \subseteq 1 .. Depth
    BY <1>7
  <2>2. ItemsTo(layer) \subseteq ItemsTo(Depth)
    BY <2>1, InItemsTo
  <2> QED BY <1>1, <2>2 DEF SearchDone
<1>9. ~limited => ItemsTo(Depth) \subseteq ItemsTo(layer)
  <2>1. CASE layer = Depth
    BY <2>1
  <2>2. CASE ~limited /\ layer > 0 /\ level = <<>>
    <3>1. Items(layer) = {}
      BY <1>1, <2>2, NoneOf DEF SearchDone
    <3>2. \A m \in Nat : Items(layer + m) = {}
      BY <1>3, <1>7, <3>1, NoMoreItems
    <3>3. \A m \in 1 .. Depth : m \notin 1 .. layer => Items(m) = {}
      <4> TAKE m \in 1 .. Depth
      <4> HAVE m \notin 1 .. layer
      <4>1. m - layer \in Nat /\ layer + (m - layer) = m
        BY <1>7
      <4> QED BY <3>2, <4>1
    <3> QED BY <3>3, InItemsTo
  <2> QED BY <1>1, <2>1, <2>2 DEF SearchPlace
<1>10. ~limited => Of(chains) = ItemsTo(Depth)
  BY <1>1, <1>8, <1>9 DEF SearchDone
<1>11. ~holes /\ ~truncated => DOMAIN words = Q!Positions
  <2>1. \A k \in 1 .. Len(Regions) : k < region
    BY <1>2
  <2>2. \A a : a \in Reached <=> \E k \in 1 .. Len(Regions) : a \in PosOf(k)
    <3>1. \A k \in 1 .. Len(Regions) : \A a \in PosOf(k) : a \in Nat
      BY PositionsTyped DEF PositionsOK
    <3>2. \A a : a \in Reached <=>
            a \in Nat /\ \E k \in 1 .. Len(Regions) :
                           a \in PosOf(k) /\ (k < region \/ (k = region /\ a < cursor))
      BY ReachedOf DEF ReachedOK
    <3> QED BY ONLY <2>1, <3>1, <3>2
  <2>3. \A a : a \in Q!Positions <=> \E k \in 1 .. Len(Regions) : a \in PosOf(k)
    <3>1. DOMAIN Regions = 1 .. Len(Regions)
      BY ScanConstants
    <3>2. Q!Positions = UNION {PosOf(k) : k \in DOMAIN Regions}
      BY DEF Q!Positions, PosOf
    <3> QED BY ONLY <3>1, <3>2
  <2> QED BY <1>1, <2>2, <2>3 DEF ScanRead, Sound
<1> QED BY <1>4, <1>6, <1>8, <1>10, <1>11

-----------------------------------------------------------------------------
(* The four programs, each for every value of its constants and from every  *)
(* state it may start in.                                                   *)

(* The scan of the Qt client: on BuildPointerIndex, the pages of the query  *)
(* and BuildChainsToTarget.  Of a scan whose reads had no holes the chains  *)
(* lead to the target, and none is missing unless a limit cut the index or  *)
(* the search.                                                              *)
THEOREM QtScanExact == Q!Spec => [](Q!TypeOK /\ Q!ChainsExact)
<1>1. Q!Init => ScanInv
  BY ScanInit
<1>2. ScanInv /\ [Q!Next]_(Q!vars) => ScanInv'
  <2>1. UNCHANGED Q!vars => UNCHANGED scanVars
    BY DEF Q!vars, Q!build, Q!search, scanVars
  <2> QED BY <2>1, ScanNext, ScanSame
<1>3. ScanInv => Q!TypeOK /\ Q!ChainsExact
  BY ScanOK, ScanExact
<1> QED BY <1>1, <1>2, <1>3, PTL DEF Q!Spec

(* The scan of the ImGui client: levels of a stable target, by any number   *)
(* of workers, fetches and attaches, find exactly the chains there are.     *)
THEOREM ImGuiScanExact == L!Spec => [](L!TypeOK /\ L!LevelsExact)
<1>1. L!Init => LInv
  BY LevelsInit
<1>2. LInv /\ [L!Next]_(L!vars) => LInv'
  <2>1. UNCHANGED L!vars => UNCHANGED levelVars
    BY DEF L!vars, L!index, L!levelVars, L!queue, L!pool, levelVars
  <2> QED BY <2>1, LevelsStep
<1>3. LInv => L!TypeOK /\ L!LevelsExact
  BY LevelsTyped, LevelsPromised DEF LInv
<1> QED BY <1>1, <1>2, <1>3, PTL DEF L!Spec

(* A compare of the ImGui client: whatever the batches, the filter and the  *)
(* threads, each chain is checked once, and those that lead to the target   *)
(* are shown.                                                               *)
THEOREM ImGuiCompareExact == C!Spec => [](C!TypeOK /\ C!CompareExact)
<1>1. C!Init => CInv
  BY CompareInit
<1>2. CInv /\ [C!Next]_(C!vars) => CInv'
  <2>1. UNCHANGED C!vars => UNCHANGED compareVars
    BY DEF C!vars, C!lists, C!shared, compareVars
  <2> QED BY <2>1, CompareNext, CompareKept
<1>3. CInv => C!TypeOK /\ C!CompareExact
  BY CompareTyped, ComparePromised
<1> QED BY <1>1, <1>2, <1>3, PTL DEF C!Spec

(* A search of the Win32 client finds the chains of its index and checks    *)
(* them all; its files, crashes included, hold the chains they are of.      *)
THEOREM Win32SearchExact == F!Spec => [](F!TypeOK /\ F!SearchExact /\ F!FilesExact)
<1>1. F!Init => FInv
  BY FilesInit
<1>2. FInv /\ [F!Next]_(F!vars) => FInv'
  <2>1. UNCHANGED F!vars => UNCHANGED fileVars
    BY DEF F!vars, F!search, F!disk, fileVars
  <2> QED BY <2>1, FilesNext, FilesKept
<1>3. FInv => F!TypeOK /\ F!SearchExact /\ F!FilesExact
  BY FilesTyped, SearchPromised, FilesPromised
<1> QED BY <1>1, <1>2, <1>3, PTL DEF F!Spec

-----------------------------------------------------------------------------
(* The four side by side: one steps, the others stand still. *)
PointersInv == ScanInv /\ LInv /\ CInv /\ FInv

LEMMA PointersInit == MCInit => PointersInv
BY ScanInit, LevelsInit, CompareInit, FilesInit DEF MCInit, PointersInv

LEMMA PointersNext ==
  PointersInv /\ [MCNext]_<<program, scanVars, levelVars, compareVars, fileVars>> => PointersInv'
<1> SUFFICES ASSUME PointersInv, [MCNext]_<<program, scanVars, levelVars, compareVars, fileVars>>
             PROVE  PointersInv'
  OBVIOUS
<1>0. ScanInv /\ LInv /\ CInv /\ FInv
  BY DEF PointersInv
<1>1. Q!Next \/ UNCHANGED scanVars
  BY DEF MCNext
<1>2. L!Next \/ UNCHANGED levelVars
  BY DEF MCNext
<1>3. C!Next \/ UNCHANGED compareVars
  BY DEF MCNext
<1>4. F!Next \/ UNCHANGED fileVars
  BY DEF MCNext
<1>5. ScanInv'
  BY <1>0, <1>1, ScanNext, ScanSame
<1>6. LInv'
  BY <1>0, <1>2, LevelsStep
<1>7. CInv'
  BY <1>0, <1>3, CompareNext, CompareKept
<1>8. FInv'
  BY <1>0, <1>4, FilesNext, FilesKept
<1> QED BY <1>5, <1>6, <1>7, <1>8 DEF PointersInv

LEMMA PointersSafe == MCSpec => []PointersInv
BY PointersInit, PointersNext, PTL DEF MCSpec

(* Every state of the searches, the compare and the files is well formed:   *)
(* no list over its limit, no chain twice in one.                           *)
THEOREM PointersTypeCorrect == MCSpec => []MCTypeOK
<1>1. PointersInv => MCTypeOK
  BY ScanOK, LevelsTyped, CompareTyped, FilesTyped DEF PointersInv, LInv, MCTypeOK
<1> QED BY <1>1, PointersSafe, PTL

(* The searches of the three clients find exactly the chains there are, as  *)
(* far as nothing was missed.                                               *)
THEOREM SearchesFindAll == MCSpec => []SearchesExact
<1>1. PointersInv => SearchesExact
  BY ScanExact, LevelsPromised, SearchPromised DEF PointersInv, SearchesExact
<1> QED BY <1>1, PointersSafe, PTL

(* A compare keeps the chains that still lead to a target, one of files the *)
(* chains both were to have, however the work was cut and whatever crashed. *)
THEOREM ComparesKeepExactly == MCSpec => []CompareExact
<1>1. PointersInv => CompareExact
  BY ComparePromised, FilesPromised DEF PointersInv, CompareExact
<1> QED BY <1>1, PointersSafe, PTL
=============================================================================
