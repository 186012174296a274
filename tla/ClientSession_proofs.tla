------------------------ MODULE ClientSession_proofs ------------------------
(***************************************************************************)
(* Proofs about ClientSession, for every number of processes, addresses    *)
(* and scan lists.                                                         *)
(*                                                                         *)
(* ListAgrees is not inductive: the result of a scan that is on its way    *)
(* becomes the list in the table only when the GUI thread takes it, and    *)
(* meanwhile the agent may have dropped or lost its results.  OnItsWay     *)
(* says what such a result still has to do with them.  ListedIsSet is      *)
(* inductive on its own, given the types.                                  *)
(*                                                                         *)
(* The last part is about the tabs of the Win32 client (ScanTabs), as      *)
(* MCClientSession composes them: T, with socket for its connection and    *)
(* shown for its view.                                                     *)
(***************************************************************************)
EXTENDS MCClientSession, TLAPS

(* Results live only on a live connection; one on its way is of the list   *)
(* the agent holds, if it holds any.                                       *)
OnItsWay ==
  /\ net # "live" => scanner = NoList
  /\ task.at = "done" /\ scanner # NoList =>
       task.ok /\ (~task.failed => task.list = scanner)

Task == [at : {"none", "queued", "done"}, first : BOOLEAN, ok : BOOLEAN,
         failed : BOOLEAN, list : Lists]
Tables == [Backends -> [pid : Pids \cup {NoPid}, addrs : SUBSET Addrs]]

(* The types, with the shape of the records TypeOK leaves open. *)
Shape == TypeOK /\ task \in Task /\ bps \in Tables

IInv == Shape /\ OnItsWay /\ ListAgrees

-----------------------------------------------------------------------------
LEMMA NoListTyped == NoList \in Lists /\ NoTask \in Task
  BY DEF NoList, Lists, NoTask, Task

LEMMA FreshTyped ==
  ASSUME FreshServer
  PROVE  /\ reader' \in Pids \cup {NoPid} /\ scanner' \in Lists /\ scanner' = NoList
         /\ bps' \in Tables
  BY NoListTyped DEF FreshServer, Tables, NoTable

(* Marking entries as lost keeps them entries, one for each address and    *)
(* backend.                                                                *)
LEMMA LosingTyped ==
  ASSUME TypeOK, breakpoints_' = Losing(breakpoints_)
  PROVE  /\ breakpoints_' \subseteq Entries
         /\ \A e, f \in breakpoints_' :
              e.addr = f.addr /\ e.backend = f.backend => e = f
         /\ \A e \in breakpoints_' : e.lost
<1>1. ASSUME NEW e \in breakpoints_'
      PROVE  /\ e \in Entries /\ e.lost
             /\ \E g \in breakpoints_ : e = [g EXCEPT !.lost = TRUE]
  BY <1>1 DEF TypeOK, Losing, Entries
<1>2. ASSUME NEW e \in breakpoints_', NEW f \in breakpoints_',
             e.addr = f.addr, e.backend = f.backend
      PROVE  e = f
  <2>1. PICK g \in breakpoints_ : e = [g EXCEPT !.lost = TRUE]
    BY <1>1, <1>2
  <2>2. PICK h \in breakpoints_ : f = [h EXCEPT !.lost = TRUE]
    BY <1>1, <1>2
  <2>3. g \in Entries /\ h \in Entries
    BY DEF TypeOK
  <2>4. g.addr = h.addr /\ g.backend = h.backend
    BY <1>2, <2>1, <2>2, <2>3 DEF Entries
  <2> QED
    BY <2>1, <2>2, <2>4 DEF TypeOK
<1> QED
  BY <1>1, <1>2

(* A set of entries taken from the list keeps what TypeOK says of it. *)
LEMMA ShapeInit == Init => Shape
<1> SUFFICES ASSUME Init PROVE Shape
  OBVIOUS
<1>1. task \in Task /\ bps \in Tables
  BY NoListTyped DEF Init, Tables, NoTable
<1>2. TypeOK
  BY NoListTyped DEF Init, TypeOK, Entries, Tables, NoTable, NoTask
<1> QED
  BY <1>1, <1>2 DEF Shape

LEMMA IInvInit == Init => IInv
  BY ShapeInit DEF Init, IInv, OnItsWay, ListAgrees, NoTask

-----------------------------------------------------------------------------
(* The types: one step for each action. *)
LEMMA ShapeStep == Shape /\ [Next]_vars => Shape'
<1> SUFFICES ASSUME Shape, [Next]_vars PROVE Shape'
  OBVIOUS
<1> USE DEF Shape
<1>1. CASE Break
  <2>1. UNCHANGED <<alive, window, pid_>> /\ net' = "dead" /\ FreshServer
    BY <1>1 DEF Break
  <2> QED
    BY <1>1, <2>1, FreshTyped, LosingTyped DEF Break, TypeOK, window, Tables
<1>2. CASE ConnectToService
  BY <1>2, FreshTyped, LosingTyped DEF ConnectToService, TypeOK, Tables
<1>3. CASE DisconnectService
  BY <1>3, FreshTyped, LosingTyped DEF DisconnectService, TypeOK, Tables
<1>4. ASSUME NEW p \in Pids, AttachProcess(p) PROVE Shape'
  <2>1. CASE Lost
    BY <1>4, <2>1, FreshTyped, LosingTyped DEF AttachProcess, Lost, TypeOK, Tables
  <2>2. CASE ReaderFor(p) /\ UNCHANGED <<net, bps, breakpoints_>>
    BY <1>4, <2>2, NoListTyped DEF AttachProcess, ReaderFor, DropResults, TypeOK, Tables
  <2> QED
    BY <1>4, <2>1, <2>2 DEF AttachProcess
<1>5. ASSUME NEW p \in Pids, BuildPointerIndex(p) PROVE Shape'
  BY <1>5, NoListTyped DEF BuildPointerIndex, ReaderFor, DropResults, window, view,
     TypeOK, Tables
<1>6. ASSUME NEW p \in Pids, Exit(p) PROVE Shape'
  <2>1. bps' \in Tables
    BY <1>6 DEF Exit, Tables, NoTable, Backends
  <2> QED
    BY <1>6, <2>1 DEF Exit, window, view, TypeOK, Tables
<1>7. ASSUME NEW first \in BOOLEAN, StartScan(first) PROVE Shape'
  <2>1. task' \in Task /\ task'.at = "queued"
    BY <1>7, NoListTyped DEF StartScan, NoTask, Task
  <2> QED
    BY <1>7, <2>1 DEF StartScan, view, server, TypeOK, Tables, Task
<1>8. CASE RunScan
  <2>1. CASE Scan /\ UNCHANGED <<net, reader, bps, breakpoints_>>
    <3>1. scanner' \in Lists
      BY <2>1, NoListTyped DEF Scan, FreshLists, Lists, TypeOK
    <3>2. task' \in Task /\ task'.at = "done"
      BY <2>1, <3>1 DEF Scan, Task
    <3> QED
      BY <1>8, <2>1, <3>1, <3>2 DEF RunScan, TypeOK, Tables, Task
  <2>2. CASE /\ task' = [task EXCEPT !.at = "done", !.failed = TRUE]
             /\ IF net = "none" THEN UNCHANGED <<net, server, breakpoints_>> ELSE Lost
    <3>1. task' \in Task /\ task'.at = "done"
      BY <2>2 DEF Task
    <3>2. CASE net = "none"
      BY <1>8, <2>2, <3>1, <3>2 DEF RunScan, server, TypeOK, Tables, Task
    <3>3. CASE Lost
      BY <1>8, <3>1, <3>3, FreshTyped, LosingTyped DEF RunScan, Lost, TypeOK, Tables, Task
    <3> QED
      BY <2>2, <3>2, <3>3
  <2> QED
    BY <1>8, <2>1, <2>2 DEF RunScan
<1>9. CASE OnScanTaskFinished
  <2>1. rows' \in Lists
    BY <1>9, NoListTyped DEF OnScanTaskFinished, Shown, TypeOK
  <2> QED
    BY <1>9, <2>1, NoListTyped DEF OnScanTaskFinished, InFlightAfter, NoTask, view, server,
       TypeOK, Tables, Task
<1>10. CASE OnUndoScanClicked
  BY <1>10, NoListTyped DEF OnUndoScanClicked, view, server, TypeOK, Tables
<1>11. CASE OpenMemoryView
  BY <1>11 DEF OpenMemoryView, Kept, window, server, TypeOK, Tables
<1>12. CASE OnClearAllBreakpoints
  <2>1. CASE Lost
    BY <1>12, <2>1, FreshTyped, LosingTyped DEF OnClearAllBreakpoints, Lost, window,
       TypeOK, Tables
  <2>2. CASE ~Lost
    <3>1. bps' \in Tables
      BY <1>12, <2>2 DEF OnClearAllBreakpoints, Tables, NoTable
    <3> QED
      BY <1>12, <2>2, <3>1 DEF OnClearAllBreakpoints, window, TypeOK, Tables
  <2> QED
    BY <2>1, <2>2
<1>13. ASSUME NEW a \in Addrs, NEW b \in Backends, AddBreakpoint(a, b) PROVE Shape'
  <2>1. CASE Lost
    BY <1>13, <2>1, FreshTyped, LosingTyped DEF AddBreakpoint, Lost, window, TypeOK, Tables
  <2>2. CASE ~Lost
    <3>1. bps' \in Tables
      BY <1>13, <2>2 DEF AddBreakpoint, TableFor, Planted, Tables, TypeOK
    <3> DEFINE new == [addr |-> a, backend |-> b, lost |-> FALSE]
    <3>2. breakpoints_' = breakpoints_ \/ breakpoints_' = breakpoints_ \cup {new}
      BY <1>13, <2>2 DEF AddBreakpoint
    <3>3. new \in Entries /\ new.addr = a /\ new.backend = b
      BY DEF Entries
    <3>4. \A e \in breakpoints_ : ~(e.addr = a /\ e.backend = b)
      BY <1>13 DEF AddBreakpoint, Listed
    <3> HIDE DEF new
    <3>5. breakpoints_' \subseteq Entries
      BY <3>2, <3>3 DEF TypeOK
    <3>6. \A e, f \in breakpoints_' :
            e.addr = f.addr /\ e.backend = f.backend => e = f
      BY <3>2, <3>3, <3>4 DEF TypeOK
    <3> QED
      BY <1>13, <2>2, <3>1, <3>5, <3>6 DEF AddBreakpoint, window, TypeOK, Tables
  <2> QED
    BY <2>1, <2>2
<1>14. ASSUME NEW a \in Addrs, NEW which \in SUBSET Backends \ {{}},
              RemoveBreakpoints(a, which)
       PROVE  Shape'
  <2>1. CASE Lost
    BY <1>14, <2>1, FreshTyped, LosingTyped DEF RemoveBreakpoints, Lost, window, TypeOK,
       Tables
  <2>2. CASE ~Lost
    <3>1. bps' \in Tables
      BY <1>14, <2>2 DEF RemoveBreakpoints, Tables
    <3> QED
      BY <1>14, <2>2, <3>1 DEF RemoveBreakpoints, window, TypeOK, Tables
  <2> QED
    BY <2>1, <2>2
<1>15. CASE UNCHANGED vars
  BY <1>15 DEF vars, window, view, server, TypeOK
<1> QED
  BY <1>1, <1>2, <1>3, <1>4, <1>5, <1>6, <1>7, <1>8, <1>9, <1>10, <1>11, <1>12, <1>13,
     <1>14, <1>15 DEF Next

-----------------------------------------------------------------------------
(* A connection that ends leaves no results. *)
LEMMA LostAgrees ==
  ASSUME scanner' = NoList PROVE OnItsWay' /\ ListAgrees'
  BY DEF OnItsWay, ListAgrees

LEMMA AgreeStep == IInv /\ [Next]_vars => (OnItsWay /\ ListAgrees)'
<1> SUFFICES ASSUME IInv, [Next]_vars PROVE (OnItsWay /\ ListAgrees)'
  OBVIOUS
<1> USE DEF IInv
<1>1. CASE Break \/ ConnectToService \/ DisconnectService
  BY <1>1, LostAgrees DEF Break, ConnectToService, DisconnectService, FreshServer
<1>2. ASSUME NEW p \in Pids, AttachProcess(p) \/ BuildPointerIndex(p)
      PROVE  (OnItsWay /\ ListAgrees)'
  BY <1>2, LostAgrees DEF AttachProcess, BuildPointerIndex, ReaderFor, DropResults, Lost,
     FreshServer
<1>3. ASSUME NEW p \in Pids, Exit(p) PROVE (OnItsWay /\ ListAgrees)'
  BY <1>3 DEF Exit, window, view, OnItsWay, ListAgrees
<1>4. ASSUME NEW first \in BOOLEAN, StartScan(first) PROVE (OnItsWay /\ ListAgrees)'
  BY <1>4 DEF StartScan, server, NoTask, OnItsWay, ListAgrees
<1>5. CASE RunScan
  <2>1. CASE Scan /\ UNCHANGED <<net, reader, bps, breakpoints_>> /\ net = "live"
    <3>1. scan_in_flight_'
      BY <1>5 DEF RunScan, Shape, TypeOK
    <3>2. scanner' # NoList => scanner'.pid = reader'
      BY <2>1 DEF Scan, FreshLists, ListAgrees
    <3>3. task'.at = "done" /\ task'.ok /\ (~task'.failed /\ scanner' # NoList => task'.list = scanner')
      BY <2>1 DEF Scan, Shape, Task
    <3> QED
      BY <2>1, <3>1, <3>2, <3>3 DEF OnItsWay, ListAgrees
  <2>2. CASE scanner' = NoList
    BY <2>2, LostAgrees
  <2>3. CASE net = "none" /\ UNCHANGED <<net, server, breakpoints_>>
    BY <2>2, <2>3 DEF server, OnItsWay
  <2> QED
    BY <1>5, <2>1, <2>2, <2>3 DEF RunScan, Lost, FreshServer
<1>6. CASE OnScanTaskFinished
  <2>1. UNCHANGED <<net, scanner, reader>> /\ task'.at = "none"
    BY <1>6 DEF OnScanTaskFinished, server, NoTask
  <2>2. scanner # NoList => rows' = scanner
    BY <1>6 DEF OnScanTaskFinished, Shown, OnItsWay
  <2> QED
    BY <2>1, <2>2 DEF OnItsWay, ListAgrees
<1>7. CASE OnUndoScanClicked
  BY <1>7 DEF OnUndoScanClicked, server, OnItsWay, ListAgrees
<1>8. CASE OpenMemoryView
  BY <1>8 DEF OpenMemoryView, window, server, OnItsWay, ListAgrees
<1>9. CASE OnClearAllBreakpoints
  BY <1>9, LostAgrees DEF OnClearAllBreakpoints, Lost, FreshServer, window, OnItsWay,
     ListAgrees
<1>10. ASSUME NEW a \in Addrs, NEW b \in Backends, AddBreakpoint(a, b)
       PROVE  (OnItsWay /\ ListAgrees)'
  BY <1>10, LostAgrees DEF AddBreakpoint, Lost, FreshServer, window, OnItsWay, ListAgrees
<1>11. ASSUME NEW a \in Addrs, NEW which \in SUBSET Backends \ {{}},
              RemoveBreakpoints(a, which)
       PROVE  (OnItsWay /\ ListAgrees)'
  BY <1>11, LostAgrees DEF RemoveBreakpoints, Lost, FreshServer, window, OnItsWay,
     ListAgrees
<1>12. CASE UNCHANGED vars
  BY <1>12 DEF vars, window, view, server, OnItsWay, ListAgrees
<1> QED
  BY <1>1, <1>2, <1>3, <1>4, <1>5, <1>6, <1>7, <1>8, <1>9, <1>10, <1>11, <1>12 DEF Next

LEMMA IInvAlways == Spec => []IInv
<1>1. IInv /\ [Next]_vars => IInv'
  BY ShapeStep, AgreeStep DEF IInv
<1> QED
  BY <1>1, IInvInit, PTL DEF Spec

(* Types, with the scan flag up exactly while a task is on its way. *)
THEOREM SessionTypeCorrect == Spec => []TypeOK
<1>1. IInv => TypeOK
  BY DEF IInv, Shape
<1> QED
  BY <1>1, IInvAlways, PTL

(* The scan results of the agent are of the process its reader is on, and  *)
(* the ones in the client's table unless a scan is on its way.             *)
THEOREM ScanListsAgree == Spec => []ListAgrees
<1>1. IInv => ListAgrees
  BY DEF IInv
<1> QED
  BY <1>1, IInvAlways, PTL

-----------------------------------------------------------------------------
(* The breakpoint list. *)
LEMMA AllLost ==
  ASSUME TypeOK, breakpoints_' = Losing(breakpoints_) PROVE ListedIsSet'
  BY LosingTyped DEF ListedIsSet

LEMMA ListedStep == Shape /\ ListedIsSet /\ [Next]_vars => ListedIsSet'
<1> SUFFICES ASSUME Shape, ListedIsSet, [Next]_vars PROVE ListedIsSet'
  OBVIOUS
<1> USE DEF Shape
<1>1. CASE Break \/ ConnectToService \/ DisconnectService
  BY <1>1, AllLost DEF Break, ConnectToService, DisconnectService
<1>2. ASSUME NEW p \in Pids, AttachProcess(p) PROVE ListedIsSet'
  BY <1>2, AllLost DEF AttachProcess, Lost, ListedIsSet
<1>3. ASSUME NEW p \in Pids, BuildPointerIndex(p) PROVE ListedIsSet'
  BY <1>3 DEF BuildPointerIndex, view, ListedIsSet
<1>4. ASSUME NEW p \in Pids, Exit(p) PROVE ListedIsSet'
  <2>1. ASSUME NEW e \in breakpoints_, ~e.lost, pid_ \in alive'
        PROVE  bps'[e.backend].pid = pid_ /\ e.addr \in bps'[e.backend].addrs
    <3>1. pid_ \in alive /\ pid_ # p /\ e.backend \in Backends
      BY <1>4, <2>1 DEF Exit, TypeOK, Entries
    <3>2. bps[e.backend].pid = pid_ /\ e.addr \in bps[e.backend].addrs
      BY <2>1, <3>1 DEF ListedIsSet
    <3>3. bps'[e.backend] = bps[e.backend]
      BY <1>4, <3>1, <3>2 DEF Exit, Tables
    <3> QED
      BY <3>2, <3>3
  <2> QED
    BY <1>4, <2>1 DEF Exit, view, ListedIsSet
<1>5. ASSUME NEW first \in BOOLEAN, StartScan(first) PROVE ListedIsSet'
  BY <1>5 DEF StartScan, view, server, ListedIsSet
<1>6. CASE RunScan
  BY <1>6, AllLost DEF RunScan, Lost, server, ListedIsSet
<1>7. CASE OnScanTaskFinished \/ OnUndoScanClicked
  BY <1>7 DEF OnScanTaskFinished, OnUndoScanClicked, view, server, ListedIsSet
<1>8. CASE OpenMemoryView
  BY <1>8 DEF OpenMemoryView, Kept, window, server, ListedIsSet
<1>9. CASE OnClearAllBreakpoints
  BY <1>9, AllLost DEF OnClearAllBreakpoints, Lost, window, ListedIsSet
<1>10. ASSUME NEW a \in Addrs, NEW b \in Backends, AddBreakpoint(a, b) PROVE ListedIsSet'
  <2>1. CASE Lost
    BY <2>1, AllLost DEF Lost
  <2>2. CASE ~Lost
    <3> SUFFICES ASSUME NEW e \in breakpoints_', ~e.lost, pid_ \in alive
                 PROVE  bps'[e.backend].pid = pid_ /\ e.addr \in bps'[e.backend].addrs
      BY <1>10, <2>2 DEF AddBreakpoint, window, ListedIsSet
    <3>1. CASE e \in breakpoints_
      <4>1. /\ bps[e.backend].pid = pid_ /\ e.addr \in bps[e.backend].addrs
            /\ e.backend \in Backends
        BY <3>1 DEF ListedIsSet, TypeOK, Entries
      <4>2. CASE e.backend = b
        BY <1>10, <2>2, <4>1, <4>2 DEF AddBreakpoint, TableFor, Planted, Tables
      <4>3. CASE e.backend # b
        BY <1>10, <2>2, <4>1, <4>3 DEF AddBreakpoint, Tables
      <4> QED
        BY <4>2, <4>3
    <3>2. CASE e \notin breakpoints_
      <4>1. /\ e = [addr |-> a, backend |-> b, lost |-> FALSE]
            /\ bps' = [bps EXCEPT ![b] = Planted(a, TableFor(pid_, bps[b]))]
        BY <1>10, <2>2, <3>2 DEF AddBreakpoint
      <4> QED
        BY <4>1 DEF TableFor, Planted, Tables
    <3> QED
      BY <3>1, <3>2
  <2> QED
    BY <2>1, <2>2
<1>11. ASSUME NEW a \in Addrs, NEW which \in SUBSET Backends \ {{}},
              RemoveBreakpoints(a, which)
       PROVE  ListedIsSet'
  <2>1. CASE Lost
    BY <2>1, AllLost DEF Lost
  <2>2. CASE ~Lost
    <3> SUFFICES ASSUME NEW e \in breakpoints_', ~e.lost, pid_ \in alive
                 PROVE  bps'[e.backend].pid = pid_ /\ e.addr \in bps'[e.backend].addrs
      BY <1>11, <2>2 DEF RemoveBreakpoints, window, ListedIsSet
    <3>1. e \in breakpoints_ /\ ~(e.addr = a /\ e.backend \in Cleared(a, which))
      BY <1>11, <2>2 DEF RemoveBreakpoints
    <3>2. /\ bps[e.backend].pid = pid_ /\ e.addr \in bps[e.backend].addrs
          /\ e.backend \in Backends
      BY <3>1 DEF ListedIsSet, TypeOK, Entries
    <3>3. bps' = [b \in Backends |->
                    IF b \in Cleared(a, which) THEN [bps[b] EXCEPT !.addrs = @ \ {a}]
                    ELSE bps[b]]
      BY <1>11, <2>2 DEF RemoveBreakpoints
    <3> QED
      BY <3>1, <3>2, <3>3 DEF Tables
  <2> QED
    BY <2>1, <2>2
<1>12. CASE UNCHANGED vars
  BY <1>12 DEF vars, window, view, server, ListedIsSet
<1> QED
  BY <1>1, <1>2, <1>3, <1>4, <1>5, <1>6, <1>7, <1>8, <1>9, <1>10, <1>11, <1>12 DEF Next

(* A listed breakpoint of the connection is set on the agent, for the      *)
(* process the memory view is of.                                          *)
THEOREM ListedBreakpointsSet == Spec => []ListedIsSet
<1>1. Init => ListedIsSet
  BY DEF Init, ListedIsSet
<1>2. Spec => []Shape
  BY ShapeInit, ShapeStep, PTL DEF Spec
<1> QED
  BY <1>1, <1>2, ListedStep, PTL DEF Spec

-----------------------------------------------------------------------------
(***************************************************************************)
(* The scan tabs of the Win32 client (ScanTabs), for lists, heads and      *)
(* pages of every size, a page being no longer than the head a scan        *)
(* answers with (128 and 1024 in the code).                                *)
(*                                                                         *)
(* PageShown is about the tab in front.  The other one comes to the front  *)
(* as it was saved, so the invariant says the same of the page a tab       *)
(* shows or has saved.                                                     *)
(***************************************************************************)
Founds == {T!NoList} \cup [total : 1 .. MaxTotal, tab : T!Tabs]

(* v is a page of the agent's list: all of the page it names, and nothing  *)
(* before it.                                                              *)
IsPage(v) ==
  /\ v.total = found.total
  /\ T!From(v.index * PageSize, PageSize) \cap (0 .. found.total - 1) \subseteq v.rows
  /\ v.rows \subseteq v.index * PageSize .. found.total - 1

ViewOf(t) == IF t = tab THEN shown ELSE saved.view
OwnerShows ==
  \A t \in T!Tabs :
    t = backend /\ t \in fresh /\ found # T!NoList => t \in current /\ IsPage(ViewOf(t))

TabInv == TabBounds /\ T!TypeOK /\ found \in Founds /\ T!TabsApart /\ OwnerShows

LEMMA FoundsTyped ==
  ASSUME TabBounds
  PROVE  /\ T!NoList \in Founds
         /\ \A l \in Founds : l.total \in 0 .. MaxTotal /\ (l # T!NoList => l.tab \in T!Tabs)
BY DEF TabBounds, Founds, T!NoList, T!Tabs, T!NoTab

LEMMA NoViews ==
  ASSUME TabBounds
  PROVE  T!Empty \in T!Views
BY DEF TabBounds, T!Empty, T!Views

(* The head of a list of n, and a page of it, are rows a view can have. *)
LEMMA PageTyped ==
  ASSUME TabBounds, NEW index \in 0 .. MaxIndex, NEW n \in 0 .. MaxTotal, NEW k \in Nat
  PROVE  /\ [total |-> n, index |-> index,
             rows |-> T!From(index * PageSize, k) \cap (0 .. n - 1)] \in T!Views
         /\ [total |-> n, index |-> index, rows |-> T!From(0, k) \cap (0 .. n - 1)] \in T!Views
BY DEF TabBounds, T!From, T!Views

(* What ScanPage and a scan put into the view is a page of the list. *)
LEMMA PageIsPage ==
  ASSUME TabBounds, NEW index \in 0 .. MaxIndex, NEW list, list.total \in 0 .. MaxTotal
  PROVE  LET start == index * PageSize
             page == T!From(start, PageSize) \cap (0 .. list.total - 1)
             head == T!From(0, Head) \cap (0 .. list.total - 1)
         IN  /\ page \subseteq start .. list.total - 1
             /\ head \subseteq 0 .. list.total - 1
             /\ T!From(0, PageSize) \cap (0 .. list.total - 1) \subseteq head
<1> DEFINE start == index * PageSize
<1>1. start \in Nat /\ PageSize \in Nat /\ Head \in Nat /\ MaxTotal \in Nat
  BY DEF TabBounds
<1> HIDE DEF start
<1>2. /\ T!From(start, PageSize) \cap (0 .. list.total - 1) \subseteq start .. list.total - 1
      /\ T!From(0, Head) \cap (0 .. list.total - 1) \subseteq 0 .. list.total - 1
  BY <1>1 DEF T!From
<1>3. T!From(0, PageSize) \subseteq T!From(0, Head)
  BY <1>1 DEF T!From, TabBounds
<1> QED
  BY <1>2, <1>3 DEF start

LEMMA TabInit == TabBounds /\ T!Init => TabInv
<1> SUFFICES ASSUME TabBounds, T!Init PROVE TabInv
  OBVIOUS
<1>1. T!TypeOK
  BY NoViews DEF T!Init, T!TypeOK, T!Tabs, T!NoTab
<1>2. found \in Founds /\ T!TabsApart /\ OwnerShows
  BY FoundsTyped DEF T!Init, T!TabsApart, OwnerShows
<1> QED
  BY <1>1, <1>2 DEF TabInv

LEMMA TabAssembled ==
  ASSUME TabBounds, T!TypeOK', found' \in Founds, T!TabsApart', OwnerShows'
  PROVE  TabInv'
BY DEF TabInv, TabBounds, Founds, T!NoList, T!Tabs, T!NoTab

(* Without a list of the agent there is nothing to show. *)
LEMMA NothingLeft == found' = T!NoList => T!TabsApart' /\ OwnerShows'
BY DEF T!TabsApart, OwnerShows, T!NoList, T!NoTab

(* The types that only answers disturb. *)
LEMMA AnswerTyped ==
  ASSUME TabInv, NEW index \in 0 .. MaxIndex, NEW total, NEW rowSet,
         [total |-> total, index |-> index, rows |-> rowSet] \in T!Views,
         T!ApplyScanResult(index, total, rowSet)
  PROVE  /\ shown' \in T!Views /\ prev' \in T!Views \cup {T!NoPrev}
         /\ tab' = tab /\ saved' = saved
<1>1. shown \in T!Views
  BY DEF TabInv, T!TypeOK
<1>2. [shown EXCEPT !.index = index] \in T!Views
  BY <1>1 DEF T!Views
<1> QED
  BY <1>2 DEF T!ApplyScanResult

(* Clearing a view keeps it a view. *)
LEMMA ClearedTyped ==
  ASSUME NEW v \in T!Views, 0 \in 0 .. MaxTotal
  PROVE  [v EXCEPT !.total = 0, !.rows = {}] \in T!Views
<1>1. [v EXCEPT !.total = 0] \in T!Views
  BY DEF T!Views
<1> DEFINE w == [v EXCEPT !.total = 0]
<1>2. [w EXCEPT !.rows = {}] \in T!Views
  <2>1. w \in T!Views
    BY <1>1
  <2> HIDE DEF w
  <2> QED
    BY <2>1 DEF T!Views
<1>3. [v EXCEPT !.total = 0, !.rows = {}] = [w EXCEPT !.rows = {}]
  BY DEF T!Views
<1> QED
  BY <1>2, <1>3

LEMMA ConnectionStep ==
  ASSUME TabInv, T!EnsureConnected \/ T!Break \/ (\E settings \in BOOLEAN : T!Disconnect(settings))
  PROVE  TabInv'
<1> USE DEF TabInv, T!server, T!window
<1>1. CASE T!EnsureConnected
  <2>1. T!TypeOK' /\ found' \in Founds
    BY <1>1 DEF T!EnsureConnected, T!TypeOK
  <2>2. T!TabsApart' /\ OwnerShows'
    BY <1>1 DEF T!EnsureConnected, T!TabsApart, OwnerShows, ViewOf, IsPage
  <2> QED
    BY <2>1, <2>2, TabAssembled
<1>2. CASE T!Break
  <2>1. found' = T!NoList
    BY <1>2 DEF T!Break, T!Dead
  <2>2. T!TypeOK'
    BY <1>2 DEF T!Break, T!Dead, T!TypeOK
  <2> QED
    BY <2>1, <2>2, FoundsTyped, NothingLeft, TabAssembled
<1>3. ASSUME NEW settings \in BOOLEAN, T!Disconnect(settings) PROVE TabInv'
  <2>1. found' = T!NoList
    BY <1>3 DEF T!Disconnect, T!Forget
  <2>2. shown' \in T!Views
    <3>1. [shown EXCEPT !.total = 0, !.rows = {}] \in T!Views
      <4>1. shown \in T!Views
        BY DEF T!TypeOK
      <4>2. 0 \in 0 .. MaxTotal
        BY DEF TabBounds
      <4> QED
        BY <4>1, <4>2, ClearedTyped
    <3> QED
      BY <1>3, <3>1 DEF T!Disconnect, T!TypeOK
  <2>3. T!TypeOK'
    BY <1>3, <2>1, <2>2, NoViews DEF T!Disconnect, T!Forget, T!TypeOK
  <2> QED
    BY <2>1, <2>3, FoundsTyped, NothingLeft, TabAssembled
<1> QED
  BY <1>1, <1>2, <1>3

LEMMA TabAttachStep == ASSUME TabInv, T!Attach PROVE TabInv'
<1> USE DEF TabInv
<1>1. found' = T!NoList
  BY DEF T!Attach, T!Forget, T!Dead
<1>2. T!TypeOK'
  <2>1. CASE T!Forget /\ socket = "live" /\ socket' = "live" /\ open' = TRUE
             /\ shown' = T!Empty /\ tab' = tab
    BY <1>1, <2>1, NoViews DEF T!Forget, T!TypeOK
  <2>2. CASE found' = T!NoList /\ current' = {} /\ UNCHANGED <<socket, open, T!window, fresh>>
    BY <2>2 DEF T!TypeOK, T!window
  <2>3. CASE T!Dead /\ UNCHANGED <<open, T!window, fresh>>
    BY <2>3 DEF T!Dead, T!TypeOK, T!window
  <2> QED
    BY <2>1, <2>2, <2>3 DEF T!Attach
<1> QED
  BY <1>1, <1>2, FoundsTyped, NothingLeft, TabAssembled

(* A request that is lost takes the list with it. *)
LEMMA LostStep ==
  ASSUME TabInv, T!Lost, open' = open, backend' = backend, tab' = tab, saved' = saved,
         shown' \in T!Views, prev' = prev
  PROVE  TabInv'
<1>1. found' = T!NoList
  BY DEF T!Lost, T!Dead
<1>2. T!TypeOK'
  BY DEF T!Lost, T!Dead, T!Stale, TabInv, T!TypeOK
<1> QED
  BY <1>1, <1>2, FoundsTyped, NothingLeft, TabAssembled DEF TabInv

LEMMA RefusedTyped ==
  ASSUME TabInv, T!Refused
  PROVE  /\ shown' \in T!Views /\ prev' \in T!Views \cup {T!NoPrev}
         /\ tab' = tab /\ saved' = saved /\ socket' = socket /\ fresh' = fresh \ {tab}
<1>1. [total |-> Status, index |-> 0, rows |-> {}] \in T!Views /\ 0 \in 0 .. MaxIndex
  BY DEF T!Views, TabInv, TabBounds
<1>2. T!ApplyScanResult(0, Status, {})
  BY DEF T!Refused
<1> QED
  BY <1>1, <1>2, AnswerTyped DEF T!Refused, T!Stale

(* A scan that answers shows the head of the list. *)
LEMMA ScannedStep ==
  ASSUME TabInv, NEW list \in Founds, list # T!NoList => list.tab = tab,
         T!Scanned(list), backend' = tab, open' = open, open, socket = "live"
  PROVE  TabInv'
<1> USE DEF TabInv
<1>1. list.total \in 0 .. MaxTotal /\ 0 \in 0 .. MaxIndex /\ Head \in Nat /\ PageSize \in Nat
  BY FoundsTyped DEF TabBounds
<1> DEFINE head == T!From(0, Head) \cap (0 .. list.total - 1)
<1>2. [total |-> list.total, index |-> 0, rows |-> head] \in T!Views
  BY <1>1, PageTyped
<1>3. T!ApplyScanResult(0, list.total, head)
  BY DEF T!Scanned
<1>4. /\ shown' \in T!Views /\ prev' \in T!Views \cup {T!NoPrev}
      /\ tab' = tab /\ saved' = saved
  BY <1>1, <1>2, <1>3, AnswerTyped
<1>5. /\ found' = list /\ socket' = socket
      /\ fresh' = fresh \cup {tab} /\ current' \subseteq T!Tabs /\ tab \in current'
  BY DEF T!Scanned, T!Fresh, T!TypeOK
<1>6. shown' = [total |-> list.total, index |-> 0, rows |-> head]
  BY <1>3 DEF T!ApplyScanResult
<1>7. T!TypeOK'
  BY <1>4, <1>5 DEF T!TypeOK
<1>8. T!TabsApart'
  BY <1>5 DEF T!TabsApart
<1>9. IsPage(shown)'
  <2>1. 0 * PageSize = 0
    BY <1>1
  <2>2. /\ head \subseteq 0 .. list.total - 1
        /\ T!From(0, PageSize) \cap (0 .. list.total - 1) \subseteq head
    BY <1>1, PageIsPage
  <2> HIDE DEF head
  <2>3. shown'.total = list.total /\ shown'.index = 0 /\ shown'.rows = head
    BY <1>6
  <2> QED
    BY <1>5, <2>1, <2>2, <2>3 DEF IsPage, T!From
<1>10. OwnerShows'
  BY <1>4, <1>5, <1>9 DEF OwnerShows, ViewOf, IsPage
<1> QED
  BY <1>5, <1>7, <1>8, <1>10, TabAssembled

LEMMA FirstScanStep == ASSUME TabInv, T!FirstScan PROVE TabInv'
<1> USE DEF TabInv
<1>1. open /\ open' = open /\ tab \in T!Tabs
  BY DEF T!FirstScan, T!TypeOK
<1>2. ASSUME NEW n \in 0 .. MaxTotal, socket = "live", backend' = tab,
             T!Scanned(IF n = 0 THEN T!NoList ELSE [total |-> n, tab |-> tab])
      PROVE  TabInv'
  <2> DEFINE list == IF n = 0 THEN T!NoList ELSE [total |-> n, tab |-> tab]
  <2>1. list \in Founds /\ (list # T!NoList => list.tab = tab)
    BY <1>1, <1>2 DEF Founds, TabBounds
  <2> HIDE DEF list
  <2>2. T!Scanned(list)
    BY <1>2 DEF list
  <2> QED
    BY <1>1, <1>2, <2>1, <2>2, ScannedStep
<1>3. CASE socket = "live" /\ backend' = tab /\ T!Refused /\ found' = T!NoList /\ current' = {}
  <2>1. T!TypeOK'
    BY <1>1, <1>3, RefusedTyped DEF T!TypeOK
  <2> QED
    BY <1>3, <2>1, FoundsTyped, NothingLeft, TabAssembled
<1>4. CASE T!Lost /\ UNCHANGED T!window
  BY <1>1, <1>4, LostStep DEF T!window, T!TypeOK
<1> QED
  BY <1>2, <1>3, <1>4 DEF T!FirstScan

LEMMA NextScanStep == ASSUME TabInv, T!NextScan PROVE TabInv'
<1> USE DEF TabInv
<1>1. open /\ open' = open /\ tab \in T!Tabs /\ backend = tab
  BY DEF T!NextScan, T!OwnTab, T!TypeOK
<1>2. CASE socket = "live" /\ backend' = backend /\ found = T!NoList /\ T!Scanned(found)
  BY <1>1, <1>2, ScannedStep
<1>3. ASSUME NEW n \in 0 .. found.total, socket = "live", backend' = backend, found # T!NoList,
             T!Scanned(IF n = 0 THEN T!NoList ELSE [found EXCEPT !.total = n])
      PROVE  TabInv'
  <2> DEFINE list == IF n = 0 THEN T!NoList ELSE [found EXCEPT !.total = n]
  <2>1. found \in [total : 1 .. MaxTotal, tab : T!Tabs] /\ found.tab = tab
    BY <1>1, <1>3 DEF Founds, T!TabsApart
  <2>2. list \in Founds /\ (list # T!NoList => list.tab = tab)
    BY <2>1 DEF Founds, TabBounds
  <2> HIDE DEF list
  <2>3. T!Scanned(list)
    BY <1>3 DEF list
  <2> QED
    BY <1>1, <1>3, <2>2, <2>3, ScannedStep
<1>4. CASE socket = "live" /\ backend' = backend /\ T!Refused /\ UNCHANGED <<found, current>>
  <2>1. T!TypeOK'
    BY <1>1, <1>4, RefusedTyped DEF T!TypeOK
  <2>2. T!TabsApart' /\ found' \in Founds
    BY <1>4 DEF T!TabsApart
  <2>3. OwnerShows'
    <3>1. tab \notin fresh' /\ backend' = tab
      BY <1>1, <1>4, RefusedTyped
    <3> QED
      BY <3>1 DEF OwnerShows
  <2> QED
    BY <2>1, <2>2, <2>3, TabAssembled
<1>5. CASE T!Lost /\ UNCHANGED T!window
  BY <1>1, <1>5, LostStep DEF T!window, T!TypeOK
<1> QED
  BY <1>2, <1>3, <1>4, <1>5 DEF T!NextScan

LEMMA UndoStep == ASSUME TabInv, T!UndoScan PROVE TabInv'
<1> USE DEF TabInv
<1>1. /\ shown' = prev /\ prev' = shown /\ fresh' = fresh \ {tab}
      /\ UNCHANGED <<socket, open, found, tab, backend, saved, current>>
      /\ prev # T!NoPrev
  BY DEF T!UndoScan, T!Stale, T!server
<1>2. T!TypeOK' /\ T!TabsApart' /\ found' \in Founds
  BY <1>1 DEF T!TypeOK, T!TabsApart
<1>3. OwnerShows'
  BY <1>1 DEF OwnerShows, ViewOf, IsPage
<1> QED
  BY <1>2, <1>3, TabAssembled

(* A page, by any of its three commands. *)
LEMMA PageStep ==
  ASSUME TabInv, NEW index \in Nat, T!ScanPage(index)
  PROVE  TabInv'
<1> USE DEF TabInv
<1>1. index \in 0 .. MaxIndex /\ backend = tab /\ tab \in T!Tabs
      /\ open' = open /\ backend' = backend
  BY DEF T!ScanPage, T!OwnTab, T!TypeOK, TabBounds
<1>2. CASE T!Lost /\ shown' = [shown EXCEPT !.index = index] /\ UNCHANGED <<tab, prev, saved>>
  <2>1. shown' \in T!Views
    BY <1>1, <1>2 DEF T!TypeOK, T!Views
  <2> QED
    BY <1>1, <1>2, <2>1, LostStep
<1>3. CASE /\ socket = "live"
           /\ T!ApplyScanResult(index, found.total,
                T!From(index * PageSize, PageSize) \cap (0 .. found.total - 1))
           /\ T!Fresh /\ current' = current \cup {tab}
           /\ UNCHANGED <<socket, found>>
  <2> DEFINE page == T!From(index * PageSize, PageSize) \cap (0 .. found.total - 1)
  <2>1. found.total \in 0 .. MaxTotal /\ PageSize \in Nat
    BY FoundsTyped DEF TabBounds
  <2>2. [total |-> found.total, index |-> index, rows |-> page] \in T!Views
    BY <1>1, <2>1, PageTyped
  <2>3. T!ApplyScanResult(index, found.total, page)
    BY <1>3
  <2>4. /\ shown' \in T!Views /\ prev' \in T!Views \cup {T!NoPrev}
        /\ tab' = tab /\ saved' = saved
    BY <1>1, <2>2, <2>3, AnswerTyped
  <2>5. fresh' = fresh \cup {tab}
    BY <1>3 DEF T!Fresh
  <2>6. T!TypeOK'
    BY <1>1, <1>3, <2>4, <2>5 DEF T!TypeOK
  <2>7. T!TabsApart' /\ found' \in Founds
    BY <1>1, <1>3 DEF T!TabsApart
  <2>8. page \subseteq index * PageSize .. found.total - 1
    BY <1>1, <2>1, PageIsPage
  <2>9. shown' = [total |-> found.total, index |-> index, rows |-> page]
    BY <2>3 DEF T!ApplyScanResult
  <2>10. IsPage(shown)'
    <3>1. shown'.total = found.total /\ shown'.index = index /\ shown'.rows = page
      BY <2>9
    <3>2. found' = found
      BY <1>3
    <3> QED
      BY <2>8, <3>1, <3>2 DEF IsPage, T!From
  <2>11. OwnerShows'
    BY <1>1, <1>3, <2>4, <2>10 DEF OwnerShows, ViewOf, IsPage
  <2> QED
    BY <2>6, <2>7, <2>11, TabAssembled
<1> QED
  BY <1>1, <1>2, <1>3 DEF T!ScanPage

LEMMA SwitchStep == ASSUME TabInv, T!SwitchTab PROVE TabInv'
<1> USE DEF TabInv
<1>1. /\ tab' = 1 - tab /\ shown' = saved.view /\ prev' = saved.prev
      /\ saved'.view = shown /\ saved'.prev = prev
      /\ UNCHANGED <<socket, open, found, backend, fresh, current>>
  BY DEF T!SwitchTab, T!Left, T!server
<1>2. tab \in {0, 1} /\ tab' \in {0, 1} /\ tab' # tab
  BY <1>1 DEF T!TypeOK, T!Tabs
<1>3. T!TypeOK'
  BY <1>1, <1>2 DEF T!TypeOK, T!Tabs
<1>4. T!TabsApart' /\ found' \in Founds
  BY <1>1 DEF T!TabsApart
<1>5. \A t \in T!Tabs : ViewOf(t)' = ViewOf(t)
  BY <1>1, <1>2 DEF ViewOf, T!Tabs
<1>6. OwnerShows'
  <2> SUFFICES ASSUME NEW t \in T!Tabs, t = backend, t \in fresh, found # T!NoList
               PROVE  t \in current /\ IsPage(ViewOf(t))'
    BY <1>1 DEF OwnerShows
  <2>1. t \in current /\ IsPage(ViewOf(t))
    BY DEF OwnerShows
  <2>2. ViewOf(t)' = ViewOf(t)
    BY <1>5
  <2> QED
    BY <1>1, <2>1, <2>2 DEF IsPage
<1> QED
  BY <1>3, <1>4, <1>6, TabAssembled

LEMMA TabNext == TabInv /\ [T!Next]_(T!vars) => TabInv'
<1> SUFFICES ASSUME TabInv, [T!Next]_(T!vars) PROVE TabInv'
  OBVIOUS
<1>1. shown.index \in Nat /\ (shown.index > 0 => shown.index - 1 \in Nat)
  BY DEF TabInv, T!TypeOK, T!Views, TabBounds
<1>2. CASE T!PrevPage \/ T!NextPage \/ T!RefreshValue
  BY <1>1, <1>2, PageStep DEF T!PrevPage, T!NextPage, T!RefreshValue
<1>3. CASE UNCHANGED T!vars
  <2>1. T!TypeOK' /\ T!TabsApart' /\ found' \in Founds
    BY <1>3 DEF TabInv, T!vars, T!server, T!window, T!TypeOK, T!TabsApart
  <2>2. OwnerShows'
    BY <1>3 DEF TabInv, T!vars, T!server, T!window, OwnerShows, ViewOf, IsPage
  <2> QED
    BY <2>1, <2>2, TabAssembled DEF TabInv
<1> QED
  BY <1>2, <1>3, ConnectionStep, TabAttachStep, FirstScanStep, NextScanStep, UndoStep, SwitchStep
     DEF T!Next

(* The tab of CeLayoutWindow that owns the agent's list shows a page of    *)
(* it, and no scan or page continues the list for the other tab, for every *)
(* number of results and pages.                                            *)
THEOREM ScanTabsAgree == MCSpec => []TabsAgree
<1>1. MCInit => TabInv
  BY TabInit, TabAssumption DEF MCInit
<1>2. TabInv /\ [MCNext]_<<program, vars, tabVars>> => TabInv'
  <2> SUFFICES ASSUME TabInv, [MCNext]_<<program, vars, tabVars>> PROVE TabInv'
    OBVIOUS
  <2>1. T!Next \/ UNCHANGED tabVars
    BY DEF MCNext
  <2>2. [T!Next]_(T!vars)
    BY <2>1 DEF tabVars, T!vars, T!server, T!window
  <2> QED
    BY <2>2, TabNext
<1>3. TabInv => TabsAgree
  <2> SUFFICES ASSUME TabInv PROVE TabsAgree
    OBVIOUS
  <2>1. T!TypeOK /\ T!TabsApart /\ OwnerShows /\ tab \in T!Tabs
    BY DEF TabInv, T!TypeOK
  <2>2. T!PageShown
    BY <2>1 DEF OwnerShows, ViewOf, IsPage, T!PageShown
  <2> QED
    BY <2>1, <2>2 DEF TabsAgree, T!TabsAgree
<1> QED
  BY <1>1, <1>2, <1>3, PTL DEF MCSpec
=============================================================================
