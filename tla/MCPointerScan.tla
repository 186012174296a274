---------------------------- MODULE MCPointerScan -----------------------------
(***************************************************************************)
(* The pointer searches: the Qt client's (PointerScan), the scan and the   *)
(* compare of the ImGui client, which its window runs one at a time, and   *)
(* the search and the files of the Win32 client.  They share no state: a   *)
(* behaviour is of one of them.                                            *)
(***************************************************************************)
EXTENDS Lists, TLC

CONSTANTS
  Regions, Word, Chunk, Page, WordValues, MaxEntries, PageSize,
  Target, Depth, MaxOffset, MaxResults,
  Workers, Processes, Cells, Memories, Selections, Goals, Height, Reach, FetchSize, Limit,
  Threads, Chains, Commons, SessionMax, FilterMin, MinBatch, FirstBatch, MaxBatch,
  WindowCells, Layouts, WindowGoal, WindowDepth, Unit, WindowResults, BatchSize,
  Files, MaxCrashes

VARIABLES
  pc, request, region, cursor, words, holes, index, truncated, entries,
  layer, level, nextLevel, turn, chains, limited,
  job, asked, process, memory, cache, fetch, direct, at, item, taken, found, total,
  stop, error, generation, seen, waiting, reached, nodes, gaps,
  phase, candidates, leads, knows, position, batch, supported, filterEver, lane, span,
  part, streak, valid, recall, missed,
  pid, contents, pointer_index, doing, raw, verified, checked, search_results, claim,
  files, crashes,
  program   \* which of the four runs

Q == INSTANCE PointerScan WITH Values <- WordValues, next <- nextLevel
L == INSTANCE PointerLevels WITH pending <- waiting
C == INSTANCE PointerCompare
F == INSTANCE PointerFiles WITH
       Cells <- WindowCells, Goal <- WindowGoal, Depth <- WindowDepth,
       MaxResults <- WindowResults, at <- doing

(* Of a scan of the Qt client: its regions are in order and disjoint, a     *)
(* chunk has whole words and more than one.                                 *)
ASSUME ScanAssumption ==
  /\ Regions \in Seq([start : Nat, end : Nat]) /\ Regions # <<>>
  /\ \A k \in DOMAIN Regions : Regions[k].start <= Regions[k].end
  /\ \A j, k \in DOMAIN Regions : j < k => Regions[j].end <= Regions[k].start
  /\ {Word, Chunk, Page, MaxEntries, PageSize, Depth, MaxOffset, MaxResults}
       \subseteq Nat \ {0}
  /\ Word < Chunk /\ Chunk % Word = 0 /\ Target \in Nat \ {0}
  /\ WordValues \subseteq Nat /\ IsFiniteSet(WordValues)

(* Of a scan of the ImGui client: it has a worker, and the modules are in   *)
(* readable regions.                                                        *)
ASSUME LevelsAssumption ==
  /\ IsFiniteSet(Workers) /\ Workers # {}
  /\ Goals \subseteq Int /\ IsFiniteSet(Goals)
  /\ Cells \subseteq Int /\ IsFiniteSet(Cells)
  /\ \A m \in Memories : m \in [Cells -> Int]
  /\ Selections \subseteq Seq(SUBSET Cells)
  /\ {Height, FetchSize} \subseteq Nat \ {0} /\ {Reach, Limit} \subseteq Nat

(* Of a compare: the client itself is the first thread; the files are       *)
(* sorted and hold a chain once.                                            *)
ASSUME CompareAssumption ==
  /\ 1 \in Threads
  /\ Chains \in Seq({Chains[i] : i \in DOMAIN Chains}) /\ IsInjective(Chains)
  /\ {MinBatch, FirstBatch, MaxBatch} \subseteq Nat \ {0}
  /\ MinBatch <= FirstBatch /\ FirstBatch <= MaxBatch

(* Of a search of the Win32 client. *)
ASSUME FilesAssumption ==
  /\ WindowCells \subseteq Int /\ IsFiniteSet(WindowCells)
  /\ \A p \in Processes : Layouts[p] \subseteq [WindowCells -> Int]
  /\ WindowGoal \in Int
  /\ {WindowDepth, WindowResults, BatchSize} \subseteq Nat \ {0} /\ MaxCrashes \in Nat

MCRegions == <<[start |-> 3, end |-> 9], [start |-> 10, end |-> 12]>>
MCSelections == {<<{4, 5}, {6}>>, <<{6}>>}
Memory(a, b, c) == 4 :> a @@ 5 :> b @@ 6 :> c
MCMemories == {Memory(5, 7, 7), Memory(6, 4, 0), Memory(0, 0, 0), Memory(5, 5, 7)}
Symmetry == Permutations(Workers)
MCChains == <<"a", "b", "c", "d">>
MCCommons == {{}, {"a", "b"}, {"a", "b", "c", "d"}}

MCLayouts == <<{4 :> 5 @@ 5 :> 6, 4 :> 0 @@ 5 :> 5}, {4 :> 5 @@ 5 :> 6}>>

scanVars ==
  <<pc, request, region, cursor, words, holes, index, truncated, entries,
    layer, level, nextLevel, turn, chains, limited>>
levelVars ==
  <<job, asked, process, memory, cache, fetch, direct, at, item, taken, found, total,
    stop, error, generation, seen, waiting, reached, nodes, gaps>>
compareVars ==
  <<phase, candidates, leads, knows, position, batch, supported, filterEver, lane, span,
    part, streak, valid, recall, missed>>
fileVars ==
  <<pid, contents, pointer_index, doing, raw, verified, checked, search_results, claim,
    files, crashes>>

(* The processes of a scan are interchangeable: one order of their memories *)
(* is enough.                                                               *)
Rank(m) == 8 * m[4] + m[5]

MCInit ==
  /\ program \in {"qt", "scan", "compare", "win32"}
  /\ Q!Init /\ C!Init /\ L!Init /\ F!Init
  /\ program # "compare" => knows = {}
  /\ program # "scan" => process = 1 /\ memory = [p \in Processes |-> Memory(0, 0, 0)]
  /\ program = "scan" => Rank(memory[1]) <= Rank(memory[2])
  /\ program # "win32" => pid = 1 /\ contents[1] = 4 :> 5 @@ 5 :> 6

MCNext ==
  /\ UNCHANGED program
  /\ \/ program = "qt" /\ Q!Next /\ UNCHANGED <<levelVars, compareVars, fileVars>>
     \/ program = "scan" /\ L!Next /\ UNCHANGED <<scanVars, compareVars, fileVars>>
     \/ program = "compare" /\ C!Next /\ UNCHANGED <<scanVars, levelVars, fileVars>>
     \/ program = "win32" /\ F!Next /\ UNCHANGED <<scanVars, levelVars, compareVars>>

MCSpec == MCInit /\ [][MCNext]_<<program, scanVars, levelVars, compareVars, fileVars>>

(* The types of all four. *)
MCTypeOK == Q!TypeOK /\ L!TypeOK /\ C!TypeOK /\ F!TypeOK

(* A search of the Qt client, a scan of the ImGui client and a search of    *)
(* the Win32 client find exactly the chains there are, as far as nothing    *)
(* was missed: see there.                                                   *)
SearchesExact == Q!ChainsExact /\ L!LevelsExact /\ F!SearchExact

(* A compare of the ImGui client keeps the chains that still lead to a      *)
(* target, one of the Win32 client the chains both files were to have.      *)
CompareExact == C!CompareExact /\ F!FilesExact
=============================================================================
