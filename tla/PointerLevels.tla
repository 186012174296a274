---------------------------- MODULE PointerLevels -----------------------------
(***************************************************************************)
(* The pointer scan of the ImGui client: ClientUI::RunPointerScan searches *)
(* level by level, with a pool of worker threads, for the chains of        *)
(* exactly Height words that lead to a target.  It searches an index of    *)
(* the words of the process, which it keeps between scans, has from the    *)
(* agent, or else reads itself with one connection per worker; without an  *)
(* index the workers read the memory anew for every level.                 *)
(*                                                                         *)
(* The user selects modules for each scan, but only what the workers read  *)
(* is of these: the agent's index is of every readable region, and a kept  *)
(* index of whatever it was made of.                                       *)
(*                                                                         *)
(* The words of a process do not change here.  Byte steps, index files and *)
(* the sizes of reads are left out.                                        *)
(***************************************************************************)
EXTENDS Lists

CONSTANTS
  Workers,    \* thread_count
  Processes,
  Cells,      \* addresses of words in the readable regions
  Memories,   \* what the words may hold
  Selections, \* modules to select: their cells, cut into tasks
  Goals,      \* target_values
  Height,     \* depth
  Reach,      \* max_offset
  FetchSize,  \* max_query
  Limit       \* kPointerIndexLimit, kPointerNodeLimit

VARIABLES
  job,         \* where RunPointerScan is
  asked,       \* pointer_scan_freeze_ (strict_reads), pointer_scan_use_index_, tasks
  process,     \* state_.pid
  memory,      \* the words of each process
  cache,       \* pointer_index_*; history: of which cells, and whether it has them all
  fetch,       \* the index of the agent, from which a page is fetched next
  direct,      \* not use_index_lookup
  at, item,    \* where a worker is, and with which item of the queue
  taken,       \* task_index or target_index
  found,       \* thread_entries or thread_nodes
  total,       \* total_entries or total_nodes
  stop, error, \* stop, read_error
  generation, seen, pending,  \* of the ScanWorkerPool
  reached, nodes,               \* levels: how many, and the last of them
  gaps         \* a word of the process has been missed (history)

index == <<cache, fetch>>
pool == <<generation, seen, pending>>
queue == <<item, taken, found, total, stop, error>>
levelVars == <<direct, reached, nodes>>
vars == <<job, asked, process, memory, index, levelVars, at, queue, pool, gaps>>

Words(p, cells) ==
  {[value |-> memory[p][c], address |-> c] : c \in {d \in cells : memory[p][d] # 0}}

NoCache ==
  [entries |-> {}, process |-> 0, strict |-> FALSE, cells |-> {}, whole |-> FALSE]

TypeOK ==
  /\ job \in {"idle", "build", "fetch", "check", "local", "levels", "connect",
              "level", "run", "done", "failed"}
  /\ at \in [Workers -> {"wait", "work", "item", "end"}]
  /\ item \in [Workers -> Nat] /\ seen \in [Workers -> 0 .. Height]
  /\ generation \in 0 .. Height /\ pending \in 0 .. Cardinality(Workers)
  /\ reached \in 0 .. Height /\ total \in Nat
  /\ {direct, stop, error, gaps, cache.strict, cache.whole} \subseteq BOOLEAN
  /\ pending # 0 => job = "run"

Resting == {"idle", "done", "failed"}

Init ==
  /\ job = "idle" /\ asked = [freeze |-> FALSE, index |-> FALSE, tasks |-> <<>>]
  /\ process \in Processes /\ memory \in [Processes -> Memories]
  /\ cache = NoCache /\ fetch = <<>> /\ direct = FALSE
  /\ at = [w \in Workers |-> "wait"] /\ item = [w \in Workers |-> 0]
  /\ taken = 0 /\ found = [w \in Workers |-> {}] /\ total = 0
  /\ stop = FALSE /\ error = FALSE
  /\ generation = 0 /\ seen = [w \in Workers |-> 0] /\ pending = 0
  /\ reached = 0 /\ nodes = {} /\ gaps = FALSE

-----------------------------------------------------------------------------
(* The user opens another process, or asks for a scan.                      *)

Attach(p) ==
  /\ job \in Resting /\ job' = "idle" /\ process' = p
  /\ UNCHANGED <<asked, memory, index, levelVars, at, queue, pool, gaps>>

(* cached_ok: the process and the flags of the index, but not the modules  *)
(* it was made of.  Mutant: whichever process it is of.                    *)
AnyProcess == cache.entries # {} /\ (asked'.freeze => cache.strict)
CachedOk ==
  cache.entries # {} /\ cache.process = process /\ (asked'.freeze => cache.strict)

Scan(freeze, useIndex, tasks) ==
  /\ job \in Resting
  /\ asked' = [freeze |-> freeze, index |-> useIndex, tasks |-> tasks]
  /\ job' = IF ~useIndex THEN "connect" ELSE IF CachedOk THEN "levels" ELSE "build"
  /\ at' = [w \in Workers |-> "wait"] /\ item' = [w \in Workers |-> 0]
  /\ taken' = 0 /\ found' = [w \in Workers |-> {}] /\ total' = 0
  /\ stop' = FALSE /\ error' = FALSE
  /\ generation' = 0 /\ seen' = [w \in Workers |-> 0] /\ pending' = 0
  /\ direct' = FALSE /\ reached' = 0 /\ nodes' = {} /\ gaps' = FALSE
  /\ UNCHANGED <<process, memory, index>>

-----------------------------------------------------------------------------
(* The index: BuildPointerIndexFromAgent, or else the workers.              *)

(* The agent refuses, finds no word, is cut at max_entries, or the exchange *)
(* is lost.                                                                 *)
BuildFails ==
  /\ job = "build" /\ job' = "check"
  /\ UNCHANGED <<asked, process, memory, index, levelVars, at, queue, pool, gaps>>

(* It has words of every readable region, whatever the selection.  Chunks   *)
(* may be missing without a sign of it, in a strict build those of which    *)
(* nothing could be read (PointerScan).                                     *)
AgentBuilds(S) ==
  /\ job = "build" /\ S # {}
  /\ job' = "fetch" /\ fetch' = ListOf(S)
  /\ cache' = [cache EXCEPT !.entries = {}, !.whole = FALSE]
  /\ gaps' = (S # Words(process, Cells))
  /\ UNCHANGED <<asked, process, memory, levelVars, at, queue, pool>>

FetchPage ==
  /\ job = "fetch"
  /\ LET page == SubSeq(fetch, 1, IF FetchSize < Len(fetch) THEN FetchSize ELSE Len(fetch))
         all == cache.entries \cup Range(page)
     IN  IF Len(fetch) > FetchSize
         THEN /\ cache' = [cache EXCEPT !.entries = all]
              /\ fetch' = SubSeq(fetch, FetchSize + 1, Len(fetch)) /\ UNCHANGED job
         ELSE /\ cache' = [entries |-> all, process |-> process, strict |-> asked.freeze,
                           cells |-> Cells, whole |-> ~gaps]
              /\ fetch' = <<>> /\ job' = "levels"
  /\ UNCHANGED <<asked, process, memory, levelVars, at, queue, pool, gaps>>

(* What has been fetched stays, under the process and flags of before. *)
FetchFails ==
  /\ job = "fetch" /\ job' = "check" /\ fetch' = <<>> /\ gaps' = TRUE
  /\ UNCHANGED <<asked, process, memory, cache, levelVars, at, queue, pool>>

Check ==
  /\ job = "check"
  /\ IF cache.entries = {} \/ cache.process # process
     THEN job' = "local" /\ at' = [w \in Workers |-> "work"] /\ gaps' = FALSE
     ELSE job' = "levels" /\ UNCHANGED <<at, gaps>>
  /\ UNCHANGED <<asked, process, memory, index, levelVars, queue, pool>>

(* A worker without a connection goes, the others do its part. *)
NoConnection(w) ==
  /\ job = "local" /\ at[w] = "work" /\ item[w] = 0
  /\ at' = [at EXCEPT ![w] = "end"]
  /\ UNCHANGED <<job, asked, process, memory, index, levelVars, queue, pool, gaps>>

-----------------------------------------------------------------------------
(* The workers: the same loop over tasks or over targets.                   *)

(* target_refs: the targets, then the nodes of the level before. *)
Refs ==
  IF reached = 0 THEN {[base |-> t, offsets |-> <<>>] : t \in Goals} ELSE nodes

Items == IF job = "local" \/ direct THEN asked.tasks ELSE ListOf(Refs)

(* process_value and the lookup: one node per word within reach of a target. *)
Pointers(refs, entries) ==
  UNION {{[base |-> e.address, offsets |-> Append(r.offsets, r.base - e.value)] :
            e \in {d \in entries : r.base - d.value \in -Reach .. Reach}} : r \in refs}

Harvest(i) ==
  IF job = "local" THEN Words(process, asked.tasks[i])
  ELSE IF direct THEN Pointers(Refs, Words(process, asked.tasks[i]))
  ELSE Pointers({Items[i]}, cache.entries)

(* fetch_add on the shared index; the loop ends after the last item. *)
Take(w) ==
  /\ at[w] = "work" /\ job \in {"local", "run"}
  /\ IF stop \/ taken >= Len(Items)
     THEN at' = [at EXCEPT ![w] = "end"] /\ UNCHANGED <<item, taken>>
     ELSE /\ taken' = taken + 1
          /\ item' = [item EXCEPT ![w] = taken'] /\ at' = [at EXCEPT ![w] = "item"]
  /\ UNCHANGED <<job, asked, process, memory, index, levelVars, found, total, stop,
                 error, pool, gaps>>

Work(w) ==
  /\ at[w] = "item" /\ at' = [at EXCEPT ![w] = "work"]
  /\ found' = [found EXCEPT ![w] = @ \cup Harvest(item[w])]
  /\ total' = total + Cardinality(Harvest(item[w]))
  /\ stop' = (stop \/ total' > Limit)
  /\ UNCHANGED <<job, asked, process, memory, index, levelVars, item, taken, error,
                 pool, gaps>>

(* A read fails or is short: the end of a strict scan; else its words are   *)
(* left out and nothing tells.                                              *)
ReadFails(w) ==
  /\ at[w] = "item" /\ (job = "local" \/ direct)
  /\ at' = [at EXCEPT ![w] = "work"] /\ gaps' = TRUE
  /\ stop' = (stop \/ asked.freeze) /\ error' = (error \/ asked.freeze)
  /\ UNCHANGED <<job, asked, process, memory, index, levelVars, item, taken, found,
                 total, pool>>

Gathered == UNION Range(found)
Selected == UNION Range(asked.tasks)

(* The threads are joined. *)
EndLocal ==
  /\ job = "local" /\ \A w \in Workers : at[w] = "end"
  /\ at' = [w \in Workers |-> "wait"]
  /\ IF error \/ total >= Limit
     THEN job' = "failed" /\ UNCHANGED cache
     ELSE /\ job' = "levels"
          /\ cache' = [entries |-> Gathered, process |-> process, strict |-> asked.freeze,
                       cells |-> Selected, whole |-> ~gaps]
  /\ UNCHANGED <<asked, process, memory, fetch, levelVars, queue, pool, gaps>>

-----------------------------------------------------------------------------
(* The levels. *)

(* An empty index is no index. *)
Lookup ==
  /\ job = "levels"
  /\ IF cache.entries = {} THEN job' = "connect" /\ UNCHANGED gaps
                           ELSE job' = "level" /\ gaps' = ~cache.whole
  /\ UNCHANGED <<asked, process, memory, index, levelVars, at, queue, pool>>

(* scan_clients: a connection for every worker, or no scan. *)
Connect(ok) ==
  /\ job = "connect"
  /\ IF ok THEN job' = "level" /\ direct' = TRUE /\ gaps' = FALSE
           ELSE job' = "failed" /\ UNCHANGED <<direct, gaps>>
  /\ UNCHANGED <<asked, process, memory, index, reached, nodes, at, queue, pool>>

(* ScanWorkerPool::Run. *)
Run ==
  /\ job = "level" /\ job' = "run"
  /\ generation' = generation + 1 /\ pending' = Cardinality(Workers)
  /\ taken' = 0 /\ found' = [w \in Workers |-> {}] /\ total' = 0 /\ stop' = FALSE
  /\ item' = [w \in Workers |-> 0]
  /\ UNCHANGED <<asked, process, memory, index, levelVars, at, error, seen, gaps>>

Wake(w) ==
  /\ job = "run" /\ at[w] = "wait" /\ seen[w] # generation
  /\ seen' = [seen EXCEPT ![w] = generation] /\ at' = [at EXCEPT ![w] = "work"]
  /\ UNCHANGED <<job, asked, process, memory, index, levelVars, queue, generation,
                 pending, gaps>>

Finish(w) ==
  /\ job = "run" /\ at[w] = "end"
  /\ at' = [at EXCEPT ![w] = "wait"] /\ pending' = pending - 1
  /\ UNCHANGED <<job, asked, process, memory, index, levelVars, queue, generation,
                 seen, gaps>>

(* Run returns.  Mutant: when the first worker is done. *)
FirstDone == pending < Cardinality(Workers)
AllDone == pending = 0

EndLevel ==
  /\ job = "run" /\ AllDone
  /\ IF error \/ total >= Limit \/ Gathered = {}
     THEN job' = "failed" /\ UNCHANGED <<reached, nodes>>
     ELSE /\ nodes' = Gathered /\ reached' = reached + 1
          /\ job' = IF reached' = Height THEN "done" ELSE "level"
  /\ UNCHANGED <<asked, process, memory, index, direct, at, queue, pool, gaps>>

Next ==
  \/ \E p \in Processes : Attach(p)
  \/ \E freeze, useIndex \in BOOLEAN, tasks \in Selections : Scan(freeze, useIndex, tasks)
  \/ BuildFails \/ FetchPage \/ FetchFails \/ Check \/ EndLocal
  \/ \E S \in SUBSET Words(process, Cells) : AgentBuilds(S)
  \/ \E w \in Workers : NoConnection(w) \/ Take(w) \/ Work(w) \/ ReadFails(w)
  \/ Lookup \/ (\E ok \in BOOLEAN : Connect(ok)) \/ Run \/ EndLevel
  \/ \E w \in Workers : Wake(w) \/ Finish(w)

Spec == Init /\ [][Next]_vars

-----------------------------------------------------------------------------
(* Reference: the ways of Height words in some cells to a target, the word  *)
(* nearest to it first, which is the order in which the offsets are written. *)
Offset(way, goal, i) ==
  (IF i = 1 THEN goal ELSE way[i - 1]) - memory[process][way[i]]

Leads(way, goal) ==
  \A i \in 1 .. Height :
    memory[process][way[i]] # 0 /\ Offset(way, goal, i) \in -Reach .. Reach

AllChains(cells) ==
  {[base |-> p[1][Height], offsets |-> [i \in 1 .. Height |-> Offset(p[1], p[2], i)]] :
     p \in {q \in [1 .. Height -> cells] \X Goals : Leads(q[1], q[2])}}

(* The cells a scan has searched: those of the modules selected for it, or  *)
(* those its index was made of, which may be fewer, more or others.         *)
Searched == IF direct THEN Selected ELSE cache.cells

(* A scan writes every chain there is of the process it is asked of in the  *)
(* cells it searched, and no other: whichever worker takes which item,      *)
(* whenever the pool wakes it, with workers that have no connection, with   *)
(* the index kept from an earlier scan of this process and after scans of   *)
(* another.  They are the chains of the selected modules when it used no    *)
(* index or one that was made of these; that an index of other cells is     *)
(* used is not checked by the code.  Not promised when a read or a page of  *)
(* the index has been missed, now or when the index was made; the workers'  *)
(* own strict reads never let that pass.                                    *)
LevelsExact ==
  /\ job = "done" /\ ~gaps => nodes = AllChains(Searched)
  /\ job = "done" /\ asked.freeze /\ direct => ~gaps
=============================================================================
