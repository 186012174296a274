--------------------------- MODULE ClientSession ----------------------------
(***************************************************************************)
(* What the Qt client keeps about the process it works on, against what    *)
(* the agent keeps for the connection: MainWindow's connection, attached   *)
(* process and scan session, MemoryViewWindow's breakpoint list, and the   *)
(* reader, the scan results and the two breakpoint tables that             *)
(* HandleClient owns and drops when the connection ends.                   *)
(*                                                                         *)
(* The handlers of the windows run on the GUI thread, one at a time; the   *)
(* scan runs on a worker thread and its result waits for the GUI thread,   *)
(* which meanwhile may attach, reconnect or clear.  An exchange is one     *)
(* step (module Transport); it can be lost, and then the connection is     *)
(* dead, which connected_ does not show.  Values, value types, addresses   *)
(* of results and the page limits are left out: a scan list is an id.      *)
(***************************************************************************)
EXTENDS Naturals, FiniteSets

CONSTANTS
  Pids,     \* processes of the device
  NoPid,    \* pid 0
  Addrs,    \* addresses for breakpoints
  ListIds   \* bound: scan lists that exist at a time, the last shown included

Backends == {"perf", "ptrace"}
NoList == [id |-> 0, pid |-> NoPid]
Lists == {NoList} \cup [id : ListIds, pid : Pids]

ASSUME ConstantsAssumption ==
  NoPid \notin Pids /\ IsFiniteSet(ListIds) /\ ListIds \subseteq Nat \ {0}

VARIABLES
  alive,             \* processes that have not exited
  \* NetClient and MainWindow
  net,               \* socket: "none", "live", or "dead" and not yet noticed
  connected_, attached_pid_,
  scan_in_flight_,
  task,              \* the scan task: waiting, or done and not yet shown;
                     \* first: scan_task_is_first_
  rows,              \* the list in the scan table
  \* MemoryViewWindow
  pid_,
  breakpoints_,      \* entries; lost: their connection has ended since
  \* HandleClient of the current connection
  reader, scanner, bps

window == <<connected_, attached_pid_, scan_in_flight_, task, rows>>
view == <<pid_, breakpoints_>>
server == <<reader, scanner, bps>>
vars == <<alive, net, window, view, server>>

NoTask == [at |-> "none", first |-> TRUE, ok |-> FALSE, failed |-> FALSE, list |-> NoList]
Entries == [addr : Addrs, backend : Backends, lost : BOOLEAN]
NoTable == [pid |-> NoPid, addrs |-> {}]

TypeOK ==
  /\ alive \subseteq Pids
  /\ net \in {"none", "live", "dead"} /\ connected_ \in BOOLEAN
  /\ attached_pid_ \in Pids \cup {NoPid} /\ pid_ \in Pids \cup {NoPid}
  /\ (net = "live") => connected_
  /\ scan_in_flight_ \in BOOLEAN
  /\ task.at \in {"none", "queued", "done"} /\ task.list \in Lists
  /\ scan_in_flight_ = (task.at # "none")
  /\ rows \in Lists
  /\ breakpoints_ \subseteq Entries
  /\ \A e, f \in breakpoints_ :
       e.addr = f.addr /\ e.backend = f.backend => e = f
  /\ reader \in Pids \cup {NoPid} /\ scanner \in Lists
  /\ \A b \in Backends :
       bps[b].pid \in Pids \cup {NoPid} /\ bps[b].addrs \subseteq Addrs

Init ==
  /\ alive = Pids
  /\ net = "none" /\ connected_ = FALSE /\ attached_pid_ = NoPid
  /\ scan_in_flight_ = FALSE /\ task = NoTask
  /\ rows = NoList
  /\ pid_ = NoPid /\ breakpoints_ = {}
  /\ reader = NoPid /\ scanner = NoList
  /\ bps = [b \in Backends |-> NoTable]

-----------------------------------------------------------------------------
(* The connection.  When it ends, by a close or by a break, the agent's    *)
(* thread clears its breakpoints and everything it kept is gone.           *)
FreshServer ==
  /\ reader' = NoPid /\ scanner' = NoList
  /\ bps' = [b \in Backends |-> NoTable]

Losing(entries) == {[e EXCEPT !.lost = TRUE] : e \in entries}

Break ==
  /\ net = "live" /\ net' = "dead"
  /\ FreshServer
  /\ breakpoints_' = Losing(breakpoints_)
  /\ UNCHANGED <<alive, window, pid_>>

(* An exchange is lost: the connection breaks, or was broken before. *)
Lost ==
  /\ net \in {"live", "dead"} /\ net' = "dead"
  /\ FreshServer
  /\ breakpoints_' = Losing(breakpoints_)

(* ConnectToService.  The user asks for it when not connected; a finished  *)
(* automatic start asks for it at any time.  A new connection, or none,    *)
(* replaces the old one, but the attached process is kept.                 *)
ConnectToService ==
  /\ \E ok \in BOOLEAN :
       /\ connected_' = ok
       /\ net' \in IF ok THEN {"live", "dead"} ELSE {"none"}
  /\ FreshServer
  /\ breakpoints_' = Losing(breakpoints_)
  /\ UNCHANGED <<alive, attached_pid_, scan_in_flight_,
                 task, rows, pid_>>

DisconnectService ==
  /\ connected_
  /\ connected_' = FALSE /\ net' = "none" /\ attached_pid_' = NoPid
  /\ FreshServer
  /\ breakpoints_' = Losing(breakpoints_)
  /\ UNCHANGED <<alive, scan_in_flight_, task, rows, pid_>>

-----------------------------------------------------------------------------
(* HandleClient: CMD_ATTACH and CMD_PTR_INDEX_BUILD for another process    *)
(* replace the reader, whether or not it opens, and with it the scanner's  *)
(* results.                                                                *)
KeepResults == UNCHANGED scanner
DropResults == scanner' = NoList

ReaderFor(p) ==
  /\ reader' = p
  /\ DropResults

(* EnsureConnected has seen connected_; the socket may be dead.  A refused *)
(* attach leaves the window with the process it had.                       *)
AttachProcess(p) ==
  /\ connected_
  /\ \/ /\ net = "live"
        /\ ReaderFor(p)
        /\ \/ p \in alive /\ attached_pid_' = p
           \/ UNCHANGED attached_pid_
        /\ UNCHANGED <<net, bps, breakpoints_>>
     \/ Lost /\ UNCHANGED attached_pid_
  /\ UNCHANGED <<alive, connected_, scan_in_flight_, task,
                 rows, pid_>>

(* A pointer scan from a PointerToolsDialog, which keeps the process it    *)
(* was opened for: that may be another than the attached one.              *)
BuildPointerIndex(p) ==
  /\ net = "live" /\ reader # p
  /\ ReaderFor(p)
  /\ UNCHANGED <<alive, net, window, view, bps>>

-----------------------------------------------------------------------------
(* The scan session. *)
StartScan(first) ==
  /\ ~scan_in_flight_
  /\ connected_ /\ attached_pid_ # NoPid
  /\ scan_in_flight_' = TRUE
  /\ task' = [NoTask EXCEPT !.at = "queued", !.first = first]
  /\ UNCHANGED <<alive, net, connected_, attached_pid_, rows, view, server>>

FreshLists(p) ==
  {[id |-> i, pid |-> p] : i \in ListIds \ {rows.id, scanner.id}}

(* The command on the agent.  A first scan drops the results before it     *)
(* starts, unless its request is refused; a next scan that fails keeps     *)
(* them, and over none it has nothing to do.  Without a reader both are    *)
(* refused.                                                                *)
Scan ==
  \/ /\ reader = NoPid
     /\ task' = [task EXCEPT !.at = "done", !.ok = TRUE, !.failed = TRUE]
     /\ UNCHANGED scanner
  \/ /\ reader # NoPid
     /\ task.first \/ scanner # NoList
     /\ scanner' \in FreshLists(reader) \cup {NoList}
     /\ task' = [task EXCEPT !.at = "done", !.ok = TRUE, !.list = scanner']
  \/ /\ reader # NoPid /\ ~task.first /\ scanner = NoList
     /\ task' = [task EXCEPT !.at = "done", !.ok = TRUE]
     /\ UNCHANGED scanner
  \/ /\ reader # NoPid
     /\ UNCHANGED scanner \/ (task.first /\ scanner' = NoList)
     /\ task' = [task EXCEPT !.at = "done", !.ok = TRUE, !.failed = TRUE]

(* The worker thread.  A failure of the scan comes as a StatusResponse of  *)
(* eight bytes, which ScanImpl takes for a count of results and no         *)
(* addresses: ok, and a total that is not 0.                               *)
RunScan ==
  /\ task.at = "queued"
  /\ \/ net = "live" /\ Scan /\ UNCHANGED <<net, reader, bps, breakpoints_>>
     \/ /\ task' = [task EXCEPT !.at = "done", !.failed = TRUE]
        /\ IF net = "none" THEN UNCHANGED <<net, server, breakpoints_>> ELSE Lost
  /\ UNCHANGED <<alive, connected_, attached_pid_, scan_in_flight_,
                 rows, pid_>>

(* OnScanTaskFinished.  Results without addresses but with a total make    *)
(* PopulateScanResultRows ask for the first page of what the agent has.    *)
Shown ==
  IF task.failed THEN (IF net = "live" THEN scanner ELSE NoList) ELSE task.list

InFlightUnlessShown == ~task.ok
InFlightAfter == FALSE

OnScanTaskFinished ==
  /\ task.at = "done"
  /\ scan_in_flight_' = InFlightAfter /\ task' = NoTask
  /\ rows' = IF task.ok THEN Shown ELSE rows
  /\ UNCHANGED <<alive, net, connected_, attached_pid_,
                 view, server>>

(* Only the table: the agent keeps its results. *)
OnUndoScanClicked ==
  /\ ~scan_in_flight_
  /\ rows' = NoList
  /\ UNCHANGED <<alive, net, connected_, attached_pid_, scan_in_flight_,
                 task, view, server>>

-----------------------------------------------------------------------------
(* The memory view.  SetService, on opening it, is told the attached       *)
(* process and forgets the breakpoints of another one; the agent does not. *)
KeptAll(p) == breakpoints_
Kept(p) == IF p = pid_ THEN breakpoints_ ELSE {}

OpenMemoryView ==
  /\ pid_' = attached_pid_
  /\ breakpoints_' = Kept(attached_pid_)
  /\ UNCHANGED <<alive, net, window, server>>

(* EnsureBreakpointReady asks for a process and a socket, which may be     *)
(* dead; with the service disconnected the window refuses.                 *)
Ready == pid_ # NoPid /\ net # "none"

ListedLive(a, b) ==
  {e \in breakpoints_ : e.addr = a /\ e.backend = b /\ ~e.lost}
Listed(a, b) == {e \in breakpoints_ : e.addr = a /\ e.backend = b}

(* The managers: one process at a time.  A Set for another process clears  *)
(* the table first; one that fails adds nothing.                           *)
TableFor(p, table) == IF table.pid = p THEN table ELSE [pid |-> p, addrs |-> {}]
Planted(a, table) == [table EXCEPT !.addrs = @ \cup {a}]

AddBreakpoint(a, b) ==
  /\ Ready /\ Listed(a, b) = {}
  /\ \/ /\ net = "live" /\ pid_ \in alive
        /\ bps' = [bps EXCEPT ![b] = Planted(a, TableFor(pid_, @))]
        /\ breakpoints_' = breakpoints_ \cup
             {[addr |-> a, backend |-> b, lost |-> FALSE]}
        /\ UNCHANGED <<net, reader, scanner>>
     \/ /\ net = "live"
        /\ bps' = [bps EXCEPT ![b] = TableFor(pid_, @)]
        /\ UNCHANGED <<net, reader, scanner, breakpoints_>>
     \/ Lost
  /\ UNCHANGED <<alive, window, pid_>>

(* RemoveBreakpoint and RemoveAllBreakpointsAt: each listed entry of the   *)
(* address (of the given backends) is cleared on the agent, and only those *)
(* the agent cleared leave the list.  The agent refuses what its table     *)
(* does not hold.                                                          *)
Cleared(a, which) == {b \in which : bps[b].pid = pid_ /\ a \in bps[b].addrs}

RemoveBreakpoints(a, which) ==
  /\ Ready
  /\ \A b \in which : Listed(a, b) # {}
  /\ \/ /\ net = "live"
        /\ LET gone == Cleared(a, which) IN
           /\ bps' = [b \in Backends |->
                IF b \in gone THEN [bps[b] EXCEPT !.addrs = @ \ {a}] ELSE bps[b]]
           /\ breakpoints_' = {e \in breakpoints_ :
                ~(e.addr = a /\ e.backend \in gone)}
        /\ UNCHANGED <<net, reader, scanner>>
     \/ Lost
  /\ UNCHANGED <<alive, window, pid_>>

(* OnClearAllBreakpoints: the backends of the listed entries are cleared,  *)
(* whatever process their table is for.                                    *)
OnClearAllBreakpoints ==
  /\ Ready
  /\ \/ /\ net = "live"
        /\ bps' = [b \in Backends |->
             IF breakpoints_ = {} \/ \E e \in breakpoints_ : e.backend = b
             THEN NoTable ELSE bps[b]]
        /\ breakpoints_' = {}
        /\ UNCHANGED <<net, reader, scanner>>
     \/ Lost
  /\ UNCHANGED <<alive, window, pid_>>

-----------------------------------------------------------------------------
(* A process exits: its last thread takes the ptrace table with it.  (The  *)
(* perf table stays, with counters that count nothing.)                    *)
Exit(p) ==
  /\ p \in alive /\ alive' = alive \ {p}
  /\ bps' = IF bps["ptrace"].pid = p THEN [bps EXCEPT !["ptrace"] = NoTable] ELSE bps
  /\ UNCHANGED <<net, window, view, reader, scanner>>

Next ==
  \/ Break \/ ConnectToService \/ DisconnectService
  \/ \E p \in Pids : AttachProcess(p) \/ BuildPointerIndex(p) \/ Exit(p)
  \/ \E first \in BOOLEAN : StartScan(first)
  \/ RunScan \/ OnScanTaskFinished \/ OnUndoScanClicked
  \/ OpenMemoryView \/ OnClearAllBreakpoints
  \/ \E a \in Addrs :
       \/ \E b \in Backends : AddBreakpoint(a, b)
       \/ \E which \in SUBSET Backends \ {{}} : RemoveBreakpoints(a, which)

(* The thread pool runs the task (its exchange returns: Transport), and    *)
(* the event loop delivers the result.                                     *)
Spec ==
  /\ Init /\ [][Next]_vars
  /\ WF_vars(RunScan) /\ WF_vars(OnScanTaskFinished)

-----------------------------------------------------------------------------
(* The results the agent holds belong to the process its reader is on, so  *)
(* a next scan never takes addresses of one process to the memory of       *)
(* another; and when no task is on its way they are the ones in the table, *)
(* unless the table was cleared.                                           *)
ListAgrees ==
  scanner # NoList =>
    /\ scanner.pid = reader
    /\ ~scan_in_flight_ /\ rows # NoList => rows = scanner

(* A breakpoint in the list of the memory view is set on the agent, for    *)
(* the process of the view, as long as the connection it was set on and    *)
(* the process live.                                                       *)
ListedIsSet ==
  \A e \in breakpoints_ :
    ~e.lost /\ pid_ \in alive =>
      bps[e.backend].pid = pid_ /\ e.addr \in bps[e.backend].addrs

(* A started scan ends for the user: the buttons are enabled again,        *)
(* whatever happened to the connection meanwhile.                          *)
ScanEnds == scan_in_flight_ ~> ~scan_in_flight_
=============================================================================
