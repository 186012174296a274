----------------------------- MODULE PointerFiles -----------------------------
(***************************************************************************)
(* PointerToolsWindow of the Win32 client: search for chains of exactly    *)
(* Depth words in an index of the agent, check of the chains that were     *)
(* found, files of chains, and the comparison of two files.                *)
(*                                                                         *)
(* The index belongs to the window, not to a process: it stays when the    *)
(* user opens another one.  The target runs, so its words change between   *)
(* the index, the search and the check.  A file whose save was cut short   *)
(* has the count 0 in its header and is read as far as it goes.  The two   *)
(* exchanges of a build are one step; options of reads are left out.       *)
(***************************************************************************)
EXTENDS Lists

CONSTANTS
  Processes,
  Cells,       \* addresses of words
  Layouts,     \* what the words of each process may hold
  Goal,        \* target
  Depth,
  Reach, Unit, \* abs_offset, step
  MaxResults,  \* max_results
  BatchSize,   \* batch_size
  Files,       \* bound: files of the user
  MaxCrashes   \* bound: how often a save is cut short

VARIABLES
  pid,             \* state_->pid; the agent's reader is on the same process
  contents,        \* the words of each process
  pointer_index,
  at,              \* "idle", or "verify" in the middle of a search
  raw, verified,   \* raw_chains; those of the batches checked so far
  checked,         \* start: how many have been checked
  search_results,
  claim,           \* history: what search_results are, "all" chains or "sound" ones;
                   \* "none" when words have changed, or the process, since
  files, crashes

search == <<at, raw, verified, checked, search_results, claim>>
disk == <<files, crashes>>
vars == <<pid, contents, pointer_index, search, disk>>

Words(p) ==
  {[value |-> contents[p][c], address |-> c] : c \in {d \in Cells : contents[p][d] # 0}}

(* count is 0 until a save is complete; torn: what is cut in two.  History: *)
(* of, the chains that belong in the file, and whether all are promised.    *)
NoFile == [chains |-> <<>>, count |-> 0, torn |-> "header", of |-> {}, whole |-> FALSE]

TypeOK ==
  /\ pid \in Processes /\ \A p \in Processes : contents[p] \in Layouts[p]
  /\ at \in {"idle", "verify"} /\ claim \in {"none", "sound", "all"}
  /\ Len(raw) <= MaxResults /\ IsInjective(raw) /\ checked \in 0 .. Len(raw)
  /\ Range(verified) \subseteq Range(SubSeq(raw, 1, checked))
  /\ at = "verify" => checked < Len(raw) /\ search_results = <<>>
  /\ crashes \in 0 .. MaxCrashes
  /\ \A f \in Files : files[f].count = 0 \/ files[f].count = Len(files[f].chains)

Init ==
  /\ pid \in Processes /\ pointer_index = {}
  /\ contents \in {c \in [Processes -> UNION Range(Layouts)] :
                     \A p \in Processes : c[p] \in Layouts[p]}
  /\ at = "idle" /\ raw = <<>> /\ verified = <<>> /\ checked = 0
  /\ search_results = <<>> /\ claim = "none"
  /\ files = [f \in Files |-> NoFile] /\ crashes = 0

-----------------------------------------------------------------------------
(* Around the window: the user opens another process, the target writes. *)

Attach(p) ==
  /\ at = "idle" /\ p # pid /\ pid' = p /\ claim' = "none"
  /\ UNCHANGED <<contents, pointer_index, at, raw, verified, checked, search_results,
                 disk>>

TargetWrites(p, layout) ==
  /\ layout # contents[p]
  /\ contents' = [contents EXCEPT ![p] = layout]
  /\ claim' = IF p = pid THEN "none" ELSE claim
  /\ UNCHANGED <<pid, pointer_index, at, raw, verified, checked, search_results, disk>>

-----------------------------------------------------------------------------
(* The search. *)

(* The agent finds some of the words: reads may fail, the index is limited. *)
BuildPointerIndex ==
  /\ at = "idle"
  /\ \E S \in SUBSET Words(pid) : pointer_index' = S
  /\ UNCHANGED <<pid, contents, search, disk>>

(* offset_candidates *)
Offsets == {o \in -Reach .. Reach : (o + Reach) % Unit = 0} \cup {0}

(* dfs, from the target back; the offset next to the base comes first.      *)
(* Mutant: in the order in which they are found.                            *)
AsFound(offsets, o) == Append(offsets, o)
Reversed(offsets, o) == <<o>> \o offsets

Back(items, entries) ==
  UNION {{[base |-> e.address, offsets |-> Reversed(i.offsets, i.base - e.value)] :
            e \in {x \in entries : i.base - x.value \in Offsets}} : i \in items}

SearchChains(entries) ==
  LET items[d \in 0 .. Depth] ==
        IF d = 0 THEN {[base |-> Goal, offsets |-> <<>>]} ELSE Back(items[d - 1], entries)
  IN  items[Depth]

(* The index is built if there is none.  A failed build leaves none; no     *)
(* chain ends the search.  Which chains max_results keeps is left open.     *)
RunPointerSearch ==
  /\ at = "idle"
  /\ IF pointer_index # {} THEN UNCHANGED pointer_index
     ELSE \E S \in SUBSET Words(pid) : pointer_index' = S
  /\ LET found == ListOf(SearchChains(pointer_index'))
     IN  /\ raw' = SubSeq(found, 1, Min2(MaxResults, Len(found)))
         /\ claim' = IF pointer_index' = Words(pid) /\ Len(found) <= MaxResults
                     THEN "all" ELSE "sound"
  /\ at' = IF raw' = <<>> THEN "idle" ELSE "verify"
  /\ search_results' = <<>> /\ verified' = <<>> /\ checked' = 0
  /\ UNCHANGED <<pid, contents, disk>>

(* ResolvePointerChainAfterDeref: read, then add; 0 stands for a failure.   *)
Resolve(memory, chain) ==
  LET current[i \in 0 .. Depth] ==
        IF i = 0 THEN chain.base
        ELSE IF current[i - 1] \in Cells /\ memory[current[i - 1]] # 0
             THEN memory[current[i - 1]] + chain.offsets[i]
             ELSE 0
  IN  current[Depth]

(* The agent answers with positions in the batch.                           *)
Matched(batch) == Places({i \in DOMAIN batch : Resolve(contents[pid], batch[i]) = Goal})

(* Mutant: taken for positions in the list. *)
OfList(i) == raw[i]
OfBatch(i) == raw[checked + i]

Gone == at' = "idle" /\ raw' = <<>> /\ verified' = <<>> /\ checked' = 0

VerifyBatch ==
  /\ at = "verify"
  /\ LET upTo == Min2(checked + BatchSize, Len(raw))
         matched == Matched(SubSeq(raw, checked + 1, upTo))
         all == verified \o [i \in DOMAIN matched |-> OfBatch(matched[i])]
     IN  IF upTo < Len(raw)
         THEN verified' = all /\ checked' = upTo /\ UNCHANGED <<at, raw, search_results>>
         ELSE Gone /\ search_results' = all
  /\ UNCHANGED <<pid, contents, pointer_index, claim, disk>>

VerifyFails ==
  /\ at = "verify" /\ Gone /\ claim' = "none"
  /\ UNCHANGED <<pid, contents, pointer_index, search_results, disk>>

ClearSearch == search_results' = <<>> /\ pointer_index' = {} /\ claim' = "none"

Clear ==
  /\ at = "idle" /\ ClearSearch
  /\ UNCHANGED <<pid, contents, at, raw, verified, checked, disk>>

-----------------------------------------------------------------------------
(* Files. *)

Written(chains, of, whole) ==
  [chains |-> chains, count |-> Len(chains), torn |-> "no", of |-> of, whole |-> whole]

SavePointerSearchResult(f) ==
  /\ at = "idle" /\ search_results # <<>>
  /\ files' = [files EXCEPT ![f] = Written(search_results, Range(search_results), TRUE)]
  /\ UNCHANGED <<pid, contents, pointer_index, search, crashes>>

(* The program ends while it saves: the first n chains are in the file, and *)
(* perhaps a part of the next.  It is started again.                        *)
SaveCut(f, n, torn) ==
  /\ at = "idle" /\ crashes < MaxCrashes
  /\ search_results # <<>> /\ n \in 0 .. Len(search_results)
  /\ torn = "header" => n = 0
  /\ torn \in {"base", "offsets"} => n < Len(search_results)
  /\ files' = [files EXCEPT ![f] = [chains |-> SubSeq(search_results, 1, n), count |-> 0,
                                    torn |-> torn, of |-> Range(search_results),
                                    whole |-> FALSE]]
  /\ crashes' = crashes + 1 /\ ClearSearch
  /\ UNCHANGED <<pid, contents, at, raw, verified, checked>>

(* load_file: the base of a chain that is cut is the end of a file without  *)
(* a count; cut offsets are an error.  Mutant: they are an end, too, and    *)
(* missing offsets are 0.                                                   *)
Loadable(f) == files[f].torn \notin {"header", "offsets"}
LoadedCut(f) ==
  files[f].chains \o
    IF files[f].torn # "base" THEN <<>>
    ELSE <<[base |-> Goal, offsets |-> [d \in 1 .. Depth |-> 0]]>>
Loaded(f) ==
  IF files[f].count = 0 THEN files[f].chains ELSE SubSeq(files[f].chains, 1, files[f].count)

(* The chains of the larger file that are in the smaller one, each once;    *)
(* saved to a file o.                                                       *)
Common(a, b) ==
  LET small == IF Len(a) <= Len(b) THEN a ELSE b
      large == IF Len(a) <= Len(b) THEN b ELSE a
  IN  ListOf({c \in Range(large) : c \in Range(small)})

RunPointerCompare(a, b, o) ==
  /\ at = "idle" /\ Loadable(a) /\ Loadable(b)
  /\ files' = [files EXCEPT ![o] = Written(Common(Loaded(a), Loaded(b)),
                  files[a].of \cap files[b].of, files[a].whole /\ files[b].whole)]
  /\ UNCHANGED <<pid, contents, pointer_index, search, crashes>>

Next ==
  \/ \E p \in Processes : Attach(p) \/ \E l \in Layouts[p] : TargetWrites(p, l)
  \/ BuildPointerIndex \/ RunPointerSearch \/ VerifyBatch \/ VerifyFails \/ Clear
  \/ \E f \in Files :
       \/ SavePointerSearchResult(f)
       \/ \E n \in 0 .. MaxResults, torn \in {"no", "header", "base", "offsets"} :
            SaveCut(f, n, torn)
  \/ \E a, b, o \in Files : RunPointerCompare(a, b, o)

Spec == Init /\ [][Next]_vars

-----------------------------------------------------------------------------
(* Reference: the ways of Depth words to the target. *)
Gap(way, i) == (IF i = Depth THEN Goal ELSE way[i + 1]) - contents[pid][way[i]]

AllChains ==
  {[base |-> w[1], offsets |-> [i \in 1 .. Depth |-> Gap(w, i)]] :
     w \in {v \in [1 .. Depth -> Cells] :
              \A i \in 1 .. Depth : contents[pid][v[i]] # 0 /\ Gap(v, i) \in Offsets}}

(* The chains a search shows lead to the target in the process it asked,    *)
(* also with an index of another process or of earlier words; with an index *)
(* of all its words, and unless max_results cut them, they are all there    *)
(* are.  As long as the process is the same and its words have not changed  *)
(* since the search began.                                                  *)
SearchExact ==
  at = "idle" =>
    /\ claim # "none" => \A c \in Range(search_results) : Resolve(contents[pid], c) = Goal
    /\ claim = "all" => Range(search_results) = AllChains /\ IsInjective(search_results)

(* A comparison writes only chains that both searches had, each once, also  *)
(* when the save of one was cut short, and all of them if none was.         *)
FilesExact ==
  \A f \in Files :
    /\ Range(files[f].chains) \subseteq files[f].of /\ IsInjective(files[f].chains)
    /\ files[f].whole => Range(files[f].chains) = files[f].of
=============================================================================
