--------------------------- MODULE MCClientSession ---------------------------
(***************************************************************************)
(* The sessions of two clients: the Qt client's (ClientSession) and the    *)
(* scan tabs of the Win32 client (ScanTabs).  They share no state: a       *)
(* behaviour is of one of them.                                            *)
(***************************************************************************)
EXTENDS ClientSession

CONSTANTS MaxTotal, MaxIndex, Head, PageSize, Status   \* of ScanTabs: see there

(* The answer to a scan holds at least a page. *)
TabBounds == {MaxTotal, MaxIndex, Head, PageSize} \subseteq Nat /\ PageSize <= Head

ASSUME TabAssumption == TabBounds

VARIABLES
  socket, open, found, tab, backend, shown, prev, saved, fresh, current,
  program   \* which of the two runs

T == INSTANCE ScanTabs WITH net <- socket, view <- shown

tabVars == <<socket, open, found, tab, backend, shown, prev, saved, fresh, current>>

MCInit == program \in {"qt", "win32"} /\ Init /\ T!Init

MCNext ==
  /\ UNCHANGED program
  /\ \/ program = "qt" /\ Next /\ UNCHANGED tabVars
     \/ program = "win32" /\ T!Next /\ UNCHANGED vars

(* The fairness is that of the Qt client's scan task: see there. *)
MCSpec ==
  /\ MCInit /\ [][MCNext]_<<program, vars, tabVars>>
  /\ WF_vars(RunScan) /\ WF_vars(OnScanTaskFinished)

(* The tab that owns the agent's list shows a page of it, and the list is   *)
(* never continued for the other tab: see there.                            *)
TabsAgree == T!TypeOK /\ T!TabsAgree
=============================================================================
