---------------------------- MODULE AddressTable ----------------------------
(***************************************************************************)
(* The address list of the Qt MainWindow: rows the user adds, edits,       *)
(* activates, freezes and removes on the GUI thread, and the timer-driven  *)
(* refresh whose job, a snapshot of the active rows, runs on a worker      *)
(* thread (freeze writes first, then one batch read) and whose result the  *)
(* GUI thread applies by row number.                                       *)
(***************************************************************************)
EXTENDS Naturals, Sequences, FiniteSets

CONSTANTS
  Addrs, Values,
  Blank,     \* a text that is no value: "", or "-" for an empty read
  Zero,      \* the text of a value read short
  MaxRows,   \* bound: rows in the list
  MaxJobs,   \* rows in one refresh (512)
  MaxRanges  \* ranges a batch read accepts (128)

ASSUME TableAssumption ==
  /\ Zero \in Values /\ Blank \notin Values
  /\ MaxRows \in Nat
  /\ MaxJobs \in Nat \ {0} /\ MaxRanges \in Nat \ {0}

VARIABLES
  rows,       \* the rows of address_model_
  attached,   \* connected_ and attached_pid_ # 0
  inFlight,   \* address_refresh_in_flight_
  pending,    \* address_refresh_pending_
  posted,     \* a OnAddressRefreshTick is posted to the event loop
  (* worker *)
  stage,      \* "idle", "write", "read" or "finished"
  jobs,       \* its snapshot
  next,       \* the next job to look at
  updates,    \* the result: row, text and (history) the address it is of
  (* target process *)
  mem,
  (* history: rows were removed since the snapshot *)
  removed

table == <<rows, attached>>
flags == <<inFlight, pending, posted>>
worker == <<stage, jobs, next, updates>>
vars == <<table, flags, worker, mem, removed>>

Texts == Values \cup {Blank}
Row == [addr : Addrs, active : BOOLEAN, freeze : BOOLEAN, text : Texts]
Job == [row : 1 .. MaxRows, addr : Addrs, freeze : BOOLEAN, text : Texts]
Update == [row : 1 .. MaxRows, addr : Addrs, text : Texts]

(* The first n members of a set of row numbers, in ascending order. *)
InOrder(I, n) ==
  {at \in [1 .. n -> I] : \A j \in 1 .. n : Cardinality({r \in I : r <= at[j]}) = j}

Init ==
  /\ rows = <<>> /\ attached = FALSE
  /\ inFlight = FALSE /\ pending = FALSE /\ posted = FALSE
  /\ stage = "idle" /\ jobs = <<>> /\ next = 1 /\ updates = <<>>
  /\ mem \in [Addrs -> Values]
  /\ removed = FALSE

-----------------------------------------------------------------------------
(* Target process. *)

TargetWrites(a, v) ==
  /\ mem' = [mem EXCEPT ![a] = v]
  /\ UNCHANGED <<table, flags, worker, removed>>

(* WriteMemory: it fails, or writes the bytes of a text that is a value. *)
WriteMemory(a, text, ok) ==
  mem' = IF ok /\ attached /\ text \in Values THEN [mem EXCEPT ![a] = text] ELSE mem

-----------------------------------------------------------------------------
(* GUI thread: the user. *)

SetAttached(on) ==
  /\ attached' = on
  /\ UNCHANGED <<rows, flags, worker, mem, removed>>

(* A new row shows the text of the scan value box.  Whether putting its     *)
(* cells in place already counts as an edit of the value is up to Qt.       *)
AddAddressEntry(a, text, edited, ok) ==
  /\ Len(rows) < MaxRows
  /\ rows' = Append(rows, [addr |-> a, active |-> TRUE, freeze |-> FALSE, text |-> text])
  /\ IF edited THEN WriteMemory(a, text, ok) ELSE UNCHANGED mem
  /\ UNCHANGED <<attached, flags, worker, removed>>

(* OnAddressItemChanged for the value column: WriteAddressRowValue. *)
EditValue(r, text, ok) ==
  /\ rows' = [rows EXCEPT ![r].text = text]
  /\ WriteMemory(rows[r].addr, text, ok)
  /\ UNCHANGED <<attached, flags, worker, removed>>

SetActive(r, on) ==
  /\ rows' = [rows EXCEPT ![r].active = on]
  /\ UNCHANGED <<attached, flags, worker, mem, removed>>

SetFreeze(r, on) ==
  /\ rows' = [rows EXCEPT ![r].freeze = on]
  /\ UNCHANGED <<attached, flags, worker, mem, removed>>

(* Remove the selected rows, from the last to the first. *)
RemoveRows(selection) ==
  /\ LET kept == (1 .. Len(rows)) \ selection IN
     \E at \in InOrder(kept, Cardinality(kept)) :
       rows' = [n \in DOMAIN at |-> rows[at[n]]]
  /\ removed' = TRUE
  /\ UNCHANGED <<attached, flags, worker, mem>>

-----------------------------------------------------------------------------
(* GUI thread: the refresh. *)

(* Mutant: jobs are numbered by their place among the jobs. *)
RenumberedRow(j, r) == j

JobRow(j, r) == r

(* Mutant: one row too many. *)
FullLate(n) == IF n > MaxJobs THEN MaxJobs + 1 ELSE n

Full(n) == IF n > MaxJobs THEN MaxJobs ELSE n

(* The active rows, the first MaxJobs of them.  Only the text of a frozen   *)
(* row is used.                                                             *)
ActiveRows == {r \in 1 .. Len(rows) : rows[r].active}
Snapshot(at) ==
  [j \in DOMAIN at |->
     [row |-> JobRow(j, at[j]), addr |-> rows[at[j]].addr, freeze |-> rows[at[j]].freeze,
      text |-> IF rows[at[j]].freeze THEN rows[at[j]].text ELSE Blank]]

(* OnAddressRefreshTick, from the timer or posted by ApplyAddressRefreshResult. *)
RefreshTick ==
  IF attached /\ rows # <<>> /\ inFlight
  THEN pending' = TRUE /\ UNCHANGED <<inFlight, worker, removed>>
  ELSE /\ pending' = FALSE
       /\ IF attached /\ ActiveRows # {}
          THEN /\ inFlight' = TRUE
               /\ \E at \in InOrder(ActiveRows, Full(Cardinality(ActiveRows))) :
                    jobs' = Snapshot(at)
               /\ next' = 1
               /\ stage' = "write"
               /\ updates' = <<>>
               /\ removed' = FALSE
          ELSE UNCHANGED <<inFlight, worker, removed>>

TimerTick == RefreshTick /\ UNCHANGED <<table, posted, mem>>

PostedTick ==
  /\ posted
  /\ posted' = FALSE
  /\ RefreshTick
  /\ UNCHANGED <<table, mem>>

(* Mutant: the flag is only cleared when there is something to apply. *)
ClearedWithUpdates == IF updates = <<>> THEN inFlight ELSE FALSE

InFlightAfterApply == FALSE

(* Updates of rows that no longer exist are skipped; the last of a row      *)
(* counts.                                                                  *)
UpdatesOf(r) == {u \in 1 .. Len(updates) : updates[u].row = r}
TextAfter(r) ==
  IF UpdatesOf(r) = {} THEN rows[r].text
  ELSE updates[CHOOSE u \in UpdatesOf(r) : \A v \in UpdatesOf(r) : v <= u].text

ApplyAddressRefreshResult ==
  /\ stage = "finished"
  /\ rows' = [r \in 1 .. Len(rows) |-> [rows[r] EXCEPT !.text = TextAfter(r)]]
  /\ inFlight' = InFlightAfterApply
  /\ pending' = FALSE
  /\ posted' = (posted \/ pending)
  /\ stage' = "idle" /\ updates' = <<>>
  /\ UNCHANGED <<attached, jobs, next, mem, removed>>

-----------------------------------------------------------------------------
(* Worker thread. *)

FreezeWrite(ok) ==
  /\ stage = "write" /\ next <= Len(jobs)
  /\ IF jobs[next].freeze
     THEN WriteMemory(jobs[next].addr, jobs[next].text, ok)
     ELSE UNCHANGED mem
  /\ next' = next + 1
  /\ UNCHANGED <<table, flags, stage, jobs, updates, removed>>

WritesDone ==
  /\ stage = "write" /\ next > Len(jobs)
  /\ stage' = "read"
  /\ UNCHANGED <<table, flags, jobs, next, updates, mem, removed>>

(* What FormatValueText makes of the bytes read at a: none, too few, all. *)
ReadTexts(a) == {Blank, Zero, mem[a]}

(* The read is all or nothing: it fails when one of its ranges does, and    *)
(* client and agent refuse a batch of too many ranges.                      *)
ReadMemoryBatch(ok) ==
  /\ stage = "read"
  /\ stage' = "finished" /\ jobs' = <<>> /\ next' = 1
  /\ \/ ~ok /\ updates' = <<>>
     \/ /\ ok /\ attached /\ Len(jobs) <= MaxRanges
        /\ \E text \in [1 .. Len(jobs) -> Texts] :
             /\ \A j \in 1 .. Len(jobs) : text[j] \in ReadTexts(jobs[j].addr)
             /\ updates' = [j \in 1 .. Len(jobs) |->
                              [row |-> jobs[j].row, addr |-> jobs[j].addr,
                               text |-> text[j]]]
  /\ UNCHANGED <<table, flags, mem, removed>>

-----------------------------------------------------------------------------
UserStep ==
  \/ \E on \in BOOLEAN : SetAttached(on)
  \/ \E a \in Addrs, text \in Texts, edited, ok \in BOOLEAN :
       AddAddressEntry(a, text, edited, ok)
  \/ \E r \in 1 .. Len(rows) :
       \/ \E text \in Texts, ok \in BOOLEAN : EditValue(r, text, ok)
       \/ \E on \in BOOLEAN : SetActive(r, on) \/ SetFreeze(r, on)
  \/ \E selection \in SUBSET (1 .. Len(rows)) \ {{}} : RemoveRows(selection)

WorkerStep == WritesDone \/ \E ok \in BOOLEAN : FreezeWrite(ok) \/ ReadMemoryBatch(ok)

Next ==
  \/ \E a \in Addrs, v \in Values : TargetWrites(a, v)
  \/ UserStep
  \/ TimerTick
  \/ PostedTick
  \/ ApplyAddressRefreshResult
  \/ WorkerStep

Spec == Init /\ [][Next]_vars

(* The thread pool runs the job, and the event loop delivers its end, the   *)
(* posted tick and the timer.                                               *)
FairSpec ==
  /\ Spec
  /\ WF_vars(WorkerStep)
  /\ WF_vars(ApplyAddressRefreshResult)
  /\ WF_vars(PostedTick)

-----------------------------------------------------------------------------
TypeOK ==
  /\ rows \in Seq(Row) /\ Len(rows) <= MaxRows
  /\ attached \in BOOLEAN
  /\ inFlight \in BOOLEAN /\ pending \in BOOLEAN /\ posted \in BOOLEAN
  /\ stage \in {"idle", "write", "read", "finished"}
  /\ jobs \in Seq(Job) /\ Len(jobs) <= MaxJobs
  /\ next \in 1 .. MaxJobs + 1
  /\ updates \in Seq(Update)
  /\ mem \in [Addrs -> Values]
  /\ removed \in BOOLEAN
  /\ inFlight <=> stage # "idle"
  /\ pending => inFlight

(* A result fits the table it is applied to, as long as no row was removed  *)
(* since its snapshot: every update is of the address its row still has.    *)
UpdatesFitRows ==
  stage # "idle" /\ ~removed =>
    /\ \A j \in 1 .. Len(jobs) :
         jobs[j].row <= Len(rows) /\ rows[jobs[j].row].addr = jobs[j].addr
    /\ \A u \in 1 .. Len(updates) :
         updates[u].row <= Len(rows) /\ rows[updates[u].row].addr = updates[u].addr

(* Refreshing never gets stuck: whatever fails in the worker, the result is *)
(* applied and the table is ready for the next refresh.                     *)
RefreshEnds == inFlight ~> ~inFlight
=============================================================================
