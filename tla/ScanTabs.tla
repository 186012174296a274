------------------------------- MODULE ScanTabs -------------------------------
(***************************************************************************)
(* The scan results of the Win32 client's main window, CeLayoutWindow: two *)
(* tabs, each with a page of results and the one before it, over the one   *)
(* list of results that the agent keeps for the connection.                *)
(*                                                                         *)
(* Every handler runs to its end on the GUI thread.  An exchange can be    *)
(* lost; the socket is then dead, which the window does not notice before  *)
(* the user disconnects.  Addresses are positions in the list; what is     *)
(* looked for, the selected row and the address list are left out.         *)
(***************************************************************************)
EXTENDS Integers, FiniteSets

CONSTANTS
  MaxTotal,  \* bound: results of a scan
  MaxIndex,  \* bound: pages the user turns to
  Head,      \* kMaxScanReturn: addresses in the answer to a scan
  PageSize,  \* page_size: addresses in a page
  Status     \* the count that a refusal is taken for: more than any list has

VARIABLES
  net,       \* socket: "none", "live", or "dead" and not yet noticed
  open,      \* state_.pid # 0
  found,     \* the agent's list: its length, and of which tab (history)
  tab,       \* scan_tab_
  backend,   \* backend_scan_tab_
  view,      \* match_total, page_index, page_addresses
  prev,      \* prev_scan_, if has_prev_scan_
  saved,     \* scan_tabs_: view and prev of the other tab
  fresh,     \* tabs that show the last answer they had (history)
  current    \* tabs whose last answer was of the list the agent has (history)

server == <<net, open, found>>
window == <<tab, backend, view, prev, saved>>
vars == <<server, window, fresh, current>>

Tabs == {0, 1}
NoTab == -1
NoList == [total |-> 0, tab |-> NoTab]
Empty == [total |-> 0, index |-> 0, rows |-> {}]
NoPrev == [total |-> 0, index |-> NoTab, rows |-> {}]

Views ==
  [total : (0 .. MaxTotal) \cup {Status}, index : 0 .. MaxIndex,
   rows : SUBSET (0 .. MaxTotal - 1)]

TypeOK ==
  /\ net \in {"none", "live", "dead"} /\ open \in BOOLEAN
  /\ tab \in Tabs /\ backend \in Tabs \cup {NoTab}
  /\ {view, saved.view} \subseteq Views /\ {prev, saved.prev} \subseteq Views \cup {NoPrev}
  /\ fresh \subseteq Tabs /\ current \subseteq Tabs
  /\ backend # NoTab => open
  /\ open => net # "none"
  /\ net # "live" => found = NoList

Init ==
  /\ net = "none" /\ open = FALSE /\ found = NoList
  /\ tab = 0 /\ backend = NoTab /\ view = Empty /\ prev = NoPrev
  /\ saved = [view |-> Empty, prev |-> NoPrev]
  /\ fresh = {} /\ current = {}

-----------------------------------------------------------------------------
(* The connection. *)

EnsureConnected ==
  /\ net = "none" /\ net' = "live"
  /\ UNCHANGED <<open, found, window, fresh, current>>

(* With it the agent's list is gone. *)
Dead == net' = "dead" /\ found' = NoList /\ current' = {}

Break == net = "live" /\ Dead /\ UNCHANGED <<open, window, fresh>>

Forget ==
  /\ backend' = NoTab /\ prev' = NoPrev /\ saved' = [view |-> Empty, prev |-> NoPrev]
  /\ fresh' = {} /\ current' = {} /\ found' = NoList

(* The button of the window clears the rows, but not the number of the      *)
(* page; the one in the settings leaves the rows, too.                      *)
Disconnect(settings) ==
  /\ net # "none" /\ net' = "none" /\ open' = FALSE /\ Forget
  /\ view' = IF settings THEN view ELSE [view EXCEPT !.total = 0, !.rows = {}]
  /\ UNCHANGED tab

(* The agent drops its list also when it cannot open the process; then the  *)
(* window stays as it is.                                                   *)
Attach ==
  /\ net # "none"
  /\ \/ net = "live" /\ Forget /\ open' = TRUE /\ view' = Empty /\ UNCHANGED <<net, tab>>
     \/ /\ net = "live" /\ found' = NoList /\ current' = {}
        /\ UNCHANGED <<net, open, window, fresh>>
     \/ Dead /\ UNCHANGED <<open, window, fresh>>

-----------------------------------------------------------------------------
(* Answers. *)

From(start, n) == {i \in 0 .. MaxTotal - 1 : i \in start .. start + n - 1}

(* ApplyScanResult, when page_index is already `index`, also in what is     *)
(* kept for undo.                                                           *)
ApplyScanResult(index, total, rows) ==
  /\ prev' = IF view.total = 0 /\ view.rows = {} THEN NoPrev
             ELSE [view EXCEPT !.index = index]
  /\ view' = [total |-> total, index |-> index, rows |-> rows]
  /\ UNCHANGED <<tab, saved>>

Fresh == fresh' = fresh \cup {tab}
Stale == fresh' = fresh \ {tab}

(* A list of n, or the one there is, shown from its beginning.              *)
Scanned(list) ==
  /\ found' = list /\ UNCHANGED net
  /\ ApplyScanResult(0, list.total, From(0, Head) \cap (0 .. list.total - 1))
  /\ Fresh
  /\ current' = IF list = found THEN current \cup {tab} ELSE {tab}

(* A StatusResponse is eight bytes: a count and no addresses. *)
Refused ==
  UNCHANGED net /\ ApplyScanResult(0, Status, {}) /\ Stale

Lost == Dead /\ Stale

-----------------------------------------------------------------------------
(* Scans.  A first scan takes the agent's list for this tab. *)

FirstScan ==
  /\ net # "none" /\ open
  /\ \/ /\ net = "live" /\ backend' = tab
        /\ \/ \E n \in 0 .. MaxTotal :
                Scanned(IF n = 0 THEN NoList ELSE [total |-> n, tab |-> tab])
           \/ Refused /\ found' = NoList /\ current' = {}
     \/ Lost /\ UNCHANGED window
  /\ UNCHANGED open

(* Mutant: the guard of the tab is left out. *)
AnyTab == backend # NoTab
OwnTab == backend = tab

HasResults == view.total > 0 \/ view.rows # {}

(* A next scan keeps some of the list; one that fails keeps the list. *)
NextScan ==
  /\ net # "none" /\ open /\ HasResults /\ OwnTab
  /\ \/ /\ net = "live" /\ UNCHANGED backend
        /\ \/ found = NoList /\ Scanned(found)
           \/ /\ found # NoList
              /\ \/ \E n \in 0 .. found.total :
                      Scanned(IF n = 0 THEN NoList ELSE [found EXCEPT !.total = n])
                 \/ Refused /\ UNCHANGED <<found, current>>
     \/ Lost /\ UNCHANGED window
  /\ UNCHANGED open

UndoScan ==
  /\ net # "none" /\ open /\ HasResults /\ prev # NoPrev
  /\ view' = prev /\ prev' = view /\ Stale
  /\ UNCHANGED <<server, tab, backend, saved, current>>

-----------------------------------------------------------------------------
(* Pages.  page_index moves before the agent is asked, and stays there when *)
(* it does not answer.                                                      *)
ScanPage(index) ==
  /\ net # "none" /\ OwnTab /\ index <= MaxIndex
  /\ \/ /\ net = "live"
        /\ ApplyScanResult(index, found.total,
                           From(index * PageSize, PageSize) \cap (0 .. found.total - 1))
        /\ Fresh /\ current' = current \cup {tab}
        /\ UNCHANGED <<net, found>>
     \/ Lost /\ view' = [view EXCEPT !.index = index] /\ UNCHANGED <<tab, prev, saved>>
  /\ UNCHANGED <<open, backend>>

PrevPage == view.index > 0 /\ ScanPage(view.index - 1)

NextPage ==
  /\ view.total # 0
  /\ (view.index + 1) * PageSize < view.total
  /\ ScanPage(view.index + 1)

RefreshValue == ScanPage(view.index)

-----------------------------------------------------------------------------
(* SaveCurrentTabState and LoadTabState.  Mutant: the tab that is left is   *)
(* not saved.                                                               *)
NotSaved == saved
Left == [view |-> view, prev |-> prev]

SwitchTab ==
  /\ tab' = 1 - tab
  /\ view' = saved.view /\ prev' = saved.prev /\ saved' = Left
  /\ UNCHANGED <<server, backend, fresh, current>>

Next ==
  \/ EnsureConnected \/ Break \/ Attach \/ \E settings \in BOOLEAN : Disconnect(settings)
  \/ FirstScan \/ NextScan \/ UndoScan
  \/ PrevPage \/ NextPage \/ RefreshValue \/ SwitchTab

Spec == Init /\ [][Next]_vars

-----------------------------------------------------------------------------
(* The agent's list is the one of the tab that may go on with it: a next    *)
(* scan or a page never continues the results of the other tab.             *)
TabsApart == found # NoList => found.tab = backend

(* The tab that owns the agent's list shows a page of that list: all of the *)
(* page it names, and nothing before it; also after the other tab was in    *)
(* front, and however scans, pages and attaches followed each other.  An    *)
(* undo, a failed request and a refusal show something else until the next  *)
(* answer.                                                                  *)
PageShown ==
  tab = backend /\ tab \in fresh /\ found # NoList =>
    LET start == view.index * PageSize IN
    /\ tab \in current /\ view.total = found.total
    /\ From(start, PageSize) \cap (0 .. found.total - 1) \subseteq view.rows
    /\ view.rows \subseteq start .. found.total - 1

TabsAgree == TabsApart /\ PageShown
=============================================================================
