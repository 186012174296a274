----------------------------- MODULE MemoryScanner -----------------------------
(***************************************************************************)
(* Class MemoryScanner of the Android agent: first and next scan, run by   *)
(* worker threads that share a counter of the work handed out, and read    *)
(* the target page by page (SafeMemoryReader::ValidateAndReadEx).  The     *)
(* threads of the target write its memory meanwhile.  Scans for values of  *)
(* one type, Width bytes wide; not for patterns or values of any type.     *)
(***************************************************************************)
EXTENDS Naturals, Sequences, FiniteSets

CONSTANTS
  Size, Cells, Regions, Width, Target,   \* see ScanList
  Workers,     \* worker threads of a scan
  Page,        \* page size: what one read of the target skips or copies
  Chunk,       \* kChunkSize
  Batch,       \* kBatch
  MaxResults,  \* kMaxScanResults
  Neon,        \* arm64, values of 4 or 8 bytes without sign: equal ones are
               \* collected by vector code
  MaxChanged   \* bound: addresses written during one scan

ASSUME ScannerAssumption ==
  /\ {Size, MaxResults, MaxChanged} \subseteq Nat
  /\ {Width, Page, Chunk, Batch} \subseteq Nat \ {0} /\ Chunk % Width = 0
  /\ IsFiniteSet(Regions)
  /\ \A r \in Regions : r.start \in Nat /\ r.end \in Nat /\ r.end <= Size
  /\ \A r, s \in Regions : r # s => r.end <= s.start \/ s.end <= r.start
  /\ Workers # {} /\ IsFiniteSet(Workers)
  /\ Neon \in BOOLEAN /\ (Neon => Width > 1) /\ 0 \in Cells

VARIABLES
  mem, list, request, changed, full,   \* see ScanList
  (* shared by the workers *)
  given,     \* task_index, index: work handed out so far
  total,     \* total_matches
  stop, failed, overflow,
  (* of each worker: where it is, its work, its buffer, its matches *)
  wpc, work, buffer, found

promised == <<mem, list, request, changed, full>>
shared == <<given, total, stop, failed, overflow>>
local == <<wpc, work, buffer, found>>
vars == <<promised, shared, local>>

-----------------------------------------------------------------------------
(* Chunks of the regions: the work of a first scan. *)

Min2(x, y) == IF x < y THEN x ELSE y

(* The chunk of region r from start on.  A byte-wise scan reads past the    *)
(* end of a chunk as far as a value may reach, but looks for values only    *)
(* from inside it.                                                          *)
ChunkAt(r, start, byteStep) ==
  LET rest == Min2(r.end - start, Chunk)
      length == IF byteStep THEN rest ELSE (rest \div Width) * Width
      overlap == IF byteStep THEN Width - 1 ELSE 0
  IN  [start |-> start, scanEnd |-> start + length,
       readEnd |-> Min2(r.end, start + length + overlap)]

ChunksOf(r, byteStep) ==
  {t \in {ChunkAt(r, a, byteStep) : a \in {b \in r.start .. r.end - 1 :
                                            (b - r.start) % Chunk = 0}} :
     t.scanEnd - t.start >= Width}

Chunks(byteStep) == UNION {ChunksOf(r, byteStep) : r \in Regions}

(* The chunks in address order: the k-th has k that start no later.         *)
Tasks(byteStep) ==
  [k \in 1 .. Cardinality(Chunks(byteStep)) |->
     CHOOSE t \in Chunks(byteStep) :
       Cardinality({s \in Chunks(byteStep) : s.start <= t.start}) = k]

(* The vector code steps by values while one ends before its limit, which   *)
(* is a number of start positions: the last value of a chunk is left out.   *)
Skipped == IF Neon THEN {t.scanEnd - Width : t \in Chunks(FALSE)} ELSE {}

-----------------------------------------------------------------------------
Promise == INSTANCE ScanList WITH
  Size <- Size, Cells <- Cells, Regions <- Regions, Width <- Width, Target <- Target,
  Skipped <- Skipped,
  mem <- mem, list <- list, request <- request, changed <- changed, full <- full
NoScan == Promise!NoScan
Element(m, a) == Promise!Element(m, a)

Address == 0 .. Size - 1
Pages == {p \in Address : p % Page = 0}

Init ==
  /\ Promise!Init
  /\ given = 0 /\ total = 0
  /\ stop = FALSE /\ failed = FALSE /\ overflow = FALSE
  /\ wpc = [w \in Workers |-> "done"]
  /\ work = [w \in Workers |-> 0]
  /\ buffer = [w \in Workers |-> <<>>]
  /\ found = [w \in Workers |-> <<>>]

-----------------------------------------------------------------------------
(* The target, and the commands between scans. *)

WriteMemory(a, c) ==
  /\ mem[a] # c
  /\ mem' = [mem EXCEPT ![a] = c]
  /\ changed' = IF request = NoScan THEN changed ELSE changed \cup {a}
  /\ Cardinality(changed') <= MaxChanged
  /\ UNCHANGED <<list, request, full, shared, local>>

(* CMD_ATTACH drops the list, and so does a first scan that fails before it *)
(* looks at memory: maps that cannot be read, a value that cannot be used.  *)
Clear ==
  /\ request = NoScan
  /\ list' = <<>>
  /\ UNCHANGED <<mem, request, changed, full, shared, local>>

(* The command refuses a strict scan that does not step by bytes (which is  *)
(* all the same to a next scan). *)
StartScan(r) ==
  /\ request = NoScan
  /\ request' = r
  /\ given' = 0 /\ total' = 0
  /\ stop' = FALSE /\ failed' = FALSE /\ overflow' = FALSE
  /\ wpc' = [w \in Workers |-> "claim"]
  /\ work' = [w \in Workers |-> 0]
  /\ buffer' = [w \in Workers |-> <<>>]
  /\ found' = [w \in Workers |-> <<>>]
  /\ UNCHANGED <<mem, changed, full>>

FirstScan(r) ==
  /\ r.kind = "first" /\ (r.strict => r.byteStep)
  /\ StartScan(r)
  /\ list' = <<>>

NextScan(r) ==
  /\ r.kind = "next"
  /\ list # <<>>
  /\ StartScan(r)
  /\ UNCHANGED list

-----------------------------------------------------------------------------
(* Work: chunks of regions for a first scan, batches of the list for a next *)
(* scan. *)

WorkSize == IF request.kind = "first" THEN Len(Tasks(request.byteStep)) ELSE Len(list)
Portion == IF request.kind = "first" THEN 1 ELSE Batch

(* The head of a worker's loop; a worker that leaves it needs no buffer. *)
Claim(w) ==
  /\ wpc[w] = "claim"
  /\ IF stop \/ given >= WorkSize
     THEN /\ wpc' = [wpc EXCEPT ![w] = "done"]
          /\ work' = [work EXCEPT ![w] = 0]
          /\ buffer' = [buffer EXCEPT ![w] = <<>>]
          /\ UNCHANGED given
     ELSE /\ given' = given + Portion
          /\ work' = [work EXCEPT ![w] = given + 1]
          /\ wpc' = [wpc EXCEPT ![w] = request.kind]
          /\ UNCHANGED buffer
  /\ UNCHANGED <<promised, total, stop, failed, overflow, found>>

(* The members of I in their order. *)
InOrder(I) ==
  {at \in [1 .. Cardinality(I) -> I] :
     \A i \in DOMAIN at : Cardinality({o \in I : o <= at[i]}) = i}

(* ValidateAndReadEx of n bytes at a, into old: the bytes in skipped stay   *)
(* as they were.  Only the sum of the bytes read is reported.               *)
ReadInto(old, a, n, skipped) ==
  [i \in 1 .. n |-> IF a + i - 1 \notin skipped THEN mem[a + i - 1]
                    ELSE IF i <= Len(old) THEN old[i] ELSE 0]

Again(w) == wpc' = [wpc EXCEPT ![w] = "claim"]
GiveUp(w) == wpc' = [wpc EXCEPT ![w] = "done"]
Fail(w) == failed' = TRUE /\ stop' = TRUE /\ GiveUp(w)

-----------------------------------------------------------------------------
(* A chunk of a first scan. *)

(* How many start positions of a chunk are examined. *)
Limit(bytes, scanLength) == Min2(bytes + 1 - Width, scanLength)

(* The vector code takes the number of positions for one of bytes. *)
Offsets(limit) ==
  IF Neon /\ ~request.byteStep /\ request.cond = "eq"
  THEN {o \in 0 .. limit - 1 : o % Width = 0 /\ o + Width <= limit}
  ELSE {o \in 0 .. limit - 1 : request.byteStep \/ o % Width = 0}

(* Mutant: a short read is good enough for a strict scan. *)
NeverShort(bytes, n) == FALSE

Short(bytes, n) == bytes < n

(* Mutant: one match too many. *)
Exceeded(n) == n > MaxResults + 1

Overflows(n) == n > MaxResults

(* The matches of a chunk are appended one by one; they are lost anyway     *)
(* when the list overflows.                                                 *)
AppendMatches(w, matches) ==
  IF Overflows(total + Len(matches))
  THEN /\ overflow' = TRUE /\ stop' = TRUE
       /\ total' = MaxResults + 1
       /\ GiveUp(w)
       /\ UNCHANGED found
  ELSE /\ total' = total + Len(matches)
       /\ found' = [found EXCEPT ![w] = @ \o matches]
       /\ Again(w)
       /\ UNCHANGED <<stop, overflow>>

(* Pages that are not resident, or cannot be read, are skipped and make the *)
(* read short; ok says whether it succeeded at all.  One that fails leaves  *)
(* in the buffer what it has copied until then.  The kernel copies a page   *)
(* or none of it.                                                           *)
ScanChunk(w, pages, ok) ==
  LET t == Tasks(request.byteStep)[work[w]]
      n == t.readEnd - t.start
      skipped == {a \in t.start .. t.readEnd - 1 : a - (a % Page) \in pages}
      bytes == IF ok THEN n - Cardinality(skipped) ELSE 0
      data == ReadInto(buffer[w], t.start, n, skipped)
      value(o) == [i \in 1 .. Width |-> data[o + i]]
      hits == {o \in Offsets(Limit(bytes, t.scanEnd - t.start)) :
                 Promise!Wanted(request.cond, value(o))}
  IN
  /\ wpc[w] = "first"
  /\ buffer' = [buffer EXCEPT ![w] = data]
  /\ full' = (full /\ bytes = n)
  /\ IF request.strict /\ Short(bytes, n)
     THEN Fail(w) /\ UNCHANGED <<total, overflow, found>>
     ELSE IF bytes < Width
     THEN Again(w) /\ UNCHANGED <<total, stop, failed, overflow, found>>
     ELSE /\ \E at \in InOrder(hits) :
               AppendMatches(w, [i \in DOMAIN at |-> [addr |-> t.start + at[i],
                                                     value |-> value(at[i])]])
          /\ UNCHANGED failed
  /\ UNCHANGED <<mem, list, request, changed, given, work>>

-----------------------------------------------------------------------------
(* An entry of a next scan. *)

(* Mutant: an entry is compared with what it was replaced by. *)
CurrentValue(i) == Element(mem, list[i].addr)

LastValue(i) == list[i].value

(* On to the next entry of the batch. *)
Onward(w) ==
  IF work[w] % Batch = 0 \/ work[w] = Len(list)
  THEN Again(w) /\ UNCHANGED work
  ELSE work' = [work EXCEPT ![w] = @ + 1] /\ UNCHANGED wpc

Recheck(w) ==
  LET i == work[w]
      now == Element(mem, list[i].addr)
      match == Promise!WantedAgain(request.cond, now, LastValue(i)) IN
  /\ wpc[w] = "next" /\ ~stop
  /\ IF match
     THEN /\ found' = [found EXCEPT ![w] =
                          Append(@, [index |-> i, addr |-> list[i].addr, value |-> now])]
          /\ total' = total + 1
     ELSE UNCHANGED <<found, total>>
  /\ Onward(w)
  /\ UNCHANGED <<promised, given, stop, failed, overflow, buffer>>

(* The value cannot be read: the entry is dropped, or the scan fails. *)
RecheckFails(w) ==
  /\ wpc[w] = "next" /\ ~stop
  /\ full' = FALSE
  /\ IF request.strict
     THEN Fail(w) /\ UNCHANGED work
     ELSE Onward(w) /\ UNCHANGED <<stop, failed>>
  /\ UNCHANGED <<mem, list, request, changed, given, total, overflow, buffer, found>>

RecheckStopped(w) ==
  /\ wpc[w] = "next" /\ stop
  /\ GiveUp(w)
  /\ UNCHANGED <<promised, shared, work, buffer, found>>

-----------------------------------------------------------------------------
(* The end of a scan, when every worker has been joined. *)

Joined == request # NoScan /\ \A w \in Workers : wpc[w] = "done"

EndScan(l) ==
  /\ Joined
  /\ list' = l
  /\ request' = NoScan /\ changed' = {} /\ full' = TRUE
  /\ given' = 0 /\ total' = 0 /\ stop' = FALSE /\ failed' = FALSE /\ overflow' = FALSE
  /\ work' = [w \in Workers |-> 0]
  /\ buffer' = [w \in Workers |-> <<>>]
  /\ found' = [w \in Workers |-> <<>>]
  /\ UNCHANGED <<mem, wpc>>

(* The matches: f[1] found it, as its f[2]-th. *)
Finds == UNION {{<<w, i>> : i \in 1 .. Len(found[w])} : w \in Workers}
Match(f) == found[f[1]][f[2]]

(* The workers' matches, one worker after the other.  The workers are       *)
(* numbered, but which one got which work is chance.                        *)
Orders ==
  {order \in [Workers -> 1 .. Cardinality(Workers)] :
     \A v, w \in Workers : v # w => order[v] # order[w]}
NotAfter(order, f, g) ==
  order[f[1]] < order[g[1]] \/ (f[1] = g[1] /\ f[2] <= g[2])
Together(order) ==
  {at \in [1 .. Cardinality(Finds) -> Finds] :
     \A i \in DOMAIN at : Cardinality({f \in Finds : NotAfter(order, f, at[i])}) = i}

Entry(e) == [addr |-> e.addr, value |-> e.value]
Listed(at) == [i \in DOMAIN at |-> Entry(Match(at[i]))]

FirstScanEnds(order) ==
  /\ request.kind = "first"
  /\ IF failed \/ overflow THEN EndScan(<<>>)
     ELSE \E at \in Together(order) : EndScan(Listed(at))

(* Mutant: the workers' matches are put together unsorted. *)
Unsorted(order) == Together(order)

Sorted(order) ==
  {at \in [1 .. Cardinality(Finds) -> Finds] :
     \A i \in DOMAIN at :
       Cardinality({f \in Finds : Match(f).index <= Match(at[i]).index}) = i}

NextScanEnds(order) ==
  /\ request.kind = "next"
  /\ IF failed THEN EndScan(list) ELSE \E at \in Sorted(order) : EndScan(Listed(at))

-----------------------------------------------------------------------------
Worker(w) ==
  \/ Claim(w)
  \/ \E pages \in SUBSET Pages, ok \in BOOLEAN : ScanChunk(w, pages, ok)
  \/ Recheck(w) \/ RecheckFails(w) \/ RecheckStopped(w)

Next ==
  \/ \E a \in Address, c \in Cells : WriteMemory(a, c)
  \/ Clear
  \/ \E r \in Promise!Requests : FirstScan(r) \/ NextScan(r)
  \/ \E w \in Workers : Worker(w)
  \/ \E order \in Orders : FirstScanEnds(order) \/ NextScanEnds(order)

Spec == Init /\ [][Next]_vars

-----------------------------------------------------------------------------
Value == [1 .. Width -> Cells]
Entries == [addr : Address, value : Value]
Matches == Entries \cup [index : Nat, addr : Address, value : Value]

(* Every variable has its type; in particular, what the workers find        *)
(* together is never more than the list may hold.                           *)
TypeOK ==
  /\ mem \in [Address -> Cells]
  /\ list \in Seq(Entries) /\ Len(list) <= MaxResults
  /\ request \in Promise!Requests \cup {NoScan}
  /\ changed \subseteq Address /\ full \in BOOLEAN
  /\ given \in Nat /\ total \in 0 .. MaxResults + 1
  /\ stop \in BOOLEAN /\ failed \in BOOLEAN /\ overflow \in BOOLEAN
  /\ wpc \in [Workers -> {"claim", "first", "next", "done"}]
  /\ work \in [Workers -> Nat]
  /\ buffer \in [Workers -> Seq(Cells)]
  /\ found \in [Workers -> Seq(Matches)]
  /\ Cardinality(Finds) <= MaxResults

(* Scanning with threads keeps the promise of ScanList: no position twice,  *)
(* no entry out of order, nothing missed or made up by a strict scan or by  *)
(* one whose reads were complete, and a failed scan changes the list only   *)
(* by dropping it (first) or not at all (next).                             *)
Promised == Promise!Spec
=============================================================================
