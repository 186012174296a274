------------------------------- MODULE ScanList -------------------------------
(***************************************************************************)
(* What a memory scan promises: the list of the scanner between commands,  *)
(* with every scan a single step.  The target may write its memory while a *)
(* scan runs; nothing is promised about a position it wrote in that time.  *)
(***************************************************************************)
EXTENDS Naturals, Sequences

CONSTANTS
  Size,     \* addresses 0 .. Size - 1
  Cells,    \* what a byte may hold
  Regions,  \* readable regions, a set of records [start, end)
  Width,    \* bytes of a value
  Target,   \* the value looked for
  Skipped   \* positions a first scan by steps of a value leaves out

VARIABLES
  mem,
  list,     \* results_ and last_values_, together
  request,  \* the scan in progress, or NoScan
  changed,  \* addresses written since it began
  full      \* every read of it was complete

vars == <<mem, list, request, changed, full>>

NoScan == [kind |-> "none"]
Conditions == {"eq", "changed", "unchanged"}
Requests ==
  [kind : {"first"}, strict : BOOLEAN, byteStep : BOOLEAN, cond : Conditions]
    \cup [kind : {"next"}, strict : BOOLEAN, cond : Conditions]

Element(m, a) == [i \in 1 .. Width |-> m[a + i - 1]]
Stable(a) == \A i \in a .. a + Width - 1 : i \notin changed

(* A value looked for again is compared with the one found before; a first  *)
(* scan has none, and finds nothing changed or unchanged.                   *)
Wanted(cond, value) == cond = "eq" /\ value = Target
WantedAgain(cond, value, before) ==
  \/ Wanted(cond, value)
  \/ cond = "changed" /\ value # before
  \/ cond = "unchanged" /\ value = before

(* Where a first scan looks: wherever a value fits a region, or only at     *)
(* multiples of the width from its start.                                   *)
Positions(byteStep) ==
  UNION {{a \in r.start .. r.end - 1 :
            /\ a + Width <= r.end
            /\ byteStep \/ (a - r.start) % Width = 0} : r \in Regions}

Addresses(l) == {l[i].addr : i \in 1 .. Len(l)}

(* The list a scan that misses nothing leaves behind. *)
LooksAt(a) == request.byteStep \/ a \notin Skipped
ExactFirst(l) ==
  \A a \in Positions(request.byteStep) : Stable(a) =>
    IF LooksAt(a) /\ Wanted(request.cond, Element(mem, a))
    THEN \E i \in 1 .. Len(l) : l[i] = [addr |-> a, value |-> Element(mem, a)]
    ELSE a \notin Addresses(l)

ExactNext(l) ==
  \A i \in 1 .. Len(list) :
    LET a == list[i].addr IN
    Stable(a) =>
      IF WantedAgain(request.cond, Element(mem, a), list[i].value)
      THEN \E j \in 1 .. Len(l) : l[j] = [addr |-> a, value |-> Element(mem, a)]
      ELSE a \notin Addresses(l)

NoDuplicates(l) == \A i, j \in 1 .. Len(l) : i # j => l[i].addr # l[j].addr

(* l keeps some entries of the list, in their order. *)
Refines(l) ==
  \E at \in [1 .. Len(l) -> 1 .. Len(list)] :
    /\ \A i, j \in 1 .. Len(l) : i < j => at[i] < at[j]
    /\ \A i \in 1 .. Len(l) : l[i].addr = list[at[i]].addr

Missing == ~(request.strict \/ full)   \* some reads came short

Init ==
  /\ mem \in [0 .. Size - 1 -> Cells]
  /\ list = <<>>
  /\ request = NoScan
  /\ changed = {}
  /\ full = TRUE

Write ==
  /\ mem' \in [0 .. Size - 1 -> Cells]
  /\ IF request = NoScan
     THEN UNCHANGED changed
     ELSE changed' = changed \cup {a \in 0 .. Size - 1 : mem'[a] # mem[a]}
  /\ UNCHANGED <<list, request, full>>

Clear ==
  /\ request = NoScan
  /\ list' = <<>>
  /\ UNCHANGED <<mem, request, changed, full>>

Start ==
  /\ request = NoScan
  /\ request' \in Requests
  /\ list' = IF request'.kind = "first" THEN <<>> ELSE list
  /\ UNCHANGED <<mem, changed, full>>

ReadShort == full' = FALSE /\ UNCHANGED <<mem, list, request, changed>>

Finish ==
  /\ request # NoScan
  /\ request' = NoScan /\ changed' = {} /\ full' = TRUE
  /\ UNCHANGED mem
  /\ IF request.kind = "first"
     THEN \/ list' = <<>>
          \/ /\ NoDuplicates(list')
             /\ Addresses(list') \subseteq Positions(request.byteStep)
             /\ Missing \/ ExactFirst(list')
     ELSE \/ list' = list
          \/ Refines(list') /\ (Missing \/ ExactNext(list'))

Next == Write \/ Clear \/ Start \/ ReadShort \/ Finish

Spec == Init /\ [][Next]_vars
=============================================================================
