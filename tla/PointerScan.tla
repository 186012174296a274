----------------------------- MODULE PointerScan ------------------------------
(***************************************************************************)
(* The pointer scan of the Qt client: the agent collects the words of the  *)
(* target that may be pointers (CMD_PTR_INDEX_BUILD), PointerToolsDialog   *)
(* fetches them page by page and searches, backwards from a target         *)
(* address, for chains of them: a chain <<a1 .. an>> with offsets          *)
(* <<o1 .. on>> leads to the target when the word at a(i) plus o(i) is     *)
(* a(i+1), and the word at a(n) plus o(n) the target.                      *)
(*                                                                         *)
(* The target runs meanwhile: there is no memory here, a read finds any    *)
(* words and the model remembers them.  Tags of pointers, the detection of *)
(* the pointer size and the format of the file are left out.               *)
(***************************************************************************)
EXTENDS Lists

CONSTANTS
  Regions,     \* the readable regions, in order: [start, end]
  Word,        \* pointer_size
  Chunk,       \* chunk_size
  Page,        \* page size of the target
  Values,      \* what a word may hold
  MaxEntries,  \* max_entries
  PageSize,    \* kPageSize: entries the client asks for at a time
  Target, Depth, MaxOffset, MaxResults  \* what the user asks for

VARIABLES
  pc,         \* where the scan is
  request,    \* byteStep, strict: options of the user
  region, cursor,
  words,      \* the words read so far, by address
  holes,      \* a read has been short or has failed
  index,      \* pointer_index of the agent
  truncated,
  entries,    \* what the client has fetched of it
  layer, level, next, turn,  \* BuildChainsToTarget: current_level, next_level,
                             \* the chain of current_level whose turn it is
  chains,     \* out_chains
  limited     \* a limit on the results has cut the search

build == <<region, cursor, words, holes, index, truncated>>
search == <<layer, level, next, turn, chains, limited>>
vars == <<pc, request, build, entries, search>>

Entries == [value : Values, address : Nat]
Starts == UNION {Regions[k].start .. Regions[k].end - Word : k \in DOMAIN Regions}

TypeOK ==
  /\ pc \in {"idle", "build", "query", "search", "done", "failed"}
  /\ request \in [byteStep : BOOLEAN, strict : BOOLEAN]
  /\ Range(index) \subseteq Entries /\ Len(index) <= MaxEntries
  /\ DOMAIN words \subseteq Starts
  /\ entries = SubSeq(index, 1, Len(entries))
  /\ layer \in 0 .. Depth
  /\ Len(chains) <= MaxResults /\ IsInjective(chains)
  /\ limited \in BOOLEAN /\ truncated \in BOOLEAN /\ holes \in BOOLEAN

NoSearch ==
  /\ layer = 0 /\ level = <<>> /\ next = <<>> /\ turn = 1
  /\ chains = <<>> /\ limited = FALSE

Init ==
  /\ pc = "idle" /\ request = [byteStep |-> FALSE, strict |-> FALSE]
  /\ region = 1 /\ cursor = 0 /\ words = <<>> /\ holes = FALSE
  /\ index = <<>> /\ truncated = FALSE
  /\ entries = <<>>
  /\ NoSearch

-----------------------------------------------------------------------------
(* The agent builds the index. *)

Aligned(a) == ((a + Word - 1) \div Word) * Word
First(k) ==
  IF k \notin DOMAIN Regions THEN 0
  ELSE IF request.byteStep THEN Regions[k].start ELSE Aligned(Regions[k].start)

Start ==
  /\ pc = "idle" /\ pc' = "build"
  /\ request' \in [byteStep : BOOLEAN, strict : BOOLEAN]
  /\ cursor' = IF request'.byteStep THEN Regions[1].start ELSE Aligned(Regions[1].start)
  /\ UNCHANGED <<region, words, holes, index, truncated, entries, search>>

Length ==
  LET n == Min2(Regions[region].end - cursor, Chunk)
  IN  IF request.byteStep THEN n ELSE (n \div Word) * Word

(* Byte steps: the next chunk begins where a word can no longer end in this *)
(* one.  Mutant: it begins where this one ends.                             *)
NoOverlap == 0
Overlap == IF request.byteStep THEN Word - 1 ELSE 0

EndOfRegion == cursor >= Regions[region].end \/ Length < Word

NextRegion ==
  /\ pc = "build" /\ region \in DOMAIN Regions /\ EndOfRegion
  /\ region' = region + 1 /\ cursor' = First(region + 1)
  /\ UNCHANGED <<pc, request, words, holes, index, truncated, entries, search>>

(* The start positions of a chunk of which `bytes` bytes were read.  The    *)
(* count is all the agent knows of a read with holes.                       *)
Offsets(bytes) ==
  {o \in 0 .. bytes - Word : request.byteStep \/ o % Word = 0}

(* A chunk, of which the bytes of the pages in skipped were not read.  Where *)
(* they are missing the buffer holds what an earlier chunk left.            *)
Missing(skipped) == {a \in cursor .. cursor + Length - 1 : a - (a % Page) \in skipped}
Whole(skipped) ==
  {a \in cursor .. cursor + Length - Word :
     a - cursor \in Offsets(Length) /\ (a .. a + Word - 1) \cap Missing(skipped) = {}}

NonZero(data) ==
  LET some == Places({a \in DOMAIN data : data[a] # 0})
  IN  [i \in DOMAIN some |-> [value |-> data[some[i]], address |-> some[i]]]

(* A strict build ends at a read that fails or is short, but not at one of  *)
(* which no byte came.                                                      *)
ReadChunk(skipped, ok) ==
  LET bytes == IF ok THEN Length - Cardinality(Missing(skipped)) ELSE 0
      short == bytes < Length
  IN
  /\ pc = "build" /\ region \in DOMAIN Regions /\ ~EndOfRegion
  /\ ok \/ skipped = {}
  /\ holes' = (holes \/ short)
  /\ IF request.strict /\ short /\ (ok => bytes > 0)
     THEN /\ pc' = "failed" /\ index' = <<>>
          /\ UNCHANGED <<region, cursor, words, truncated>>
     ELSE \E data \in [{cursor + o : o \in Offsets(bytes)} -> Values] :
            LET all == index \o NonZero(data)
                read == Whole(skipped) \cap DOMAIN data
            IN  /\ words' = [a \in DOMAIN words \cup read |->
                              IF a \in read THEN data[a] ELSE words[a]]
                /\ index' = SubSeq(all, 1, Min2(Len(all), MaxEntries))
                /\ truncated' = (Len(all) >= MaxEntries)
                /\ IF truncated'
                   THEN region' = Len(Regions) + 1 /\ cursor' = 0
                   ELSE cursor' = cursor + Length - Overlap /\ UNCHANGED region
                /\ UNCHANGED pc
  /\ UNCHANGED <<request, entries, search>>

Before(e, f) == e.value < f.value \/ (e.value = f.value /\ e.address < f.address)

Sorted(S) ==
  [i \in 1 .. Cardinality(S) |-> CHOOSE e \in S : Cardinality({f \in S : Before(f, e)}) = i - 1]

FinishBuild ==
  /\ pc = "build" /\ region \notin DOMAIN Regions
  /\ pc' = "query"
  /\ index' = Sorted(Range(index))
  /\ UNCHANGED <<request, region, cursor, words, holes, truncated, entries, search>>

-----------------------------------------------------------------------------
(* QueryEntirePointerIndex. *)

(* A page of the index from the number of entries fetched so far.  Mutant:  *)
(* the page begins one entry late.                                          *)
PageAfter(start) == SubSeq(index, start + 2, Min2(start + PageSize, Len(index)))
PageFrom(start) == SubSeq(index, start + 1, Min2(start + PageSize, Len(index)))

(* Words near an address. *)
Window(wanted) ==
  Picked(entries, {i \in DOMAIN entries :
                     entries[i].value \in wanted - MaxOffset .. wanted + MaxOffset})

Link(e, wanted) == [base |-> e.address, offsets |-> <<wanted - e.value>>]

QueryPage ==
  /\ pc = "query"
  /\ LET page == PageFrom(Len(entries))
     IN  /\ entries' = entries \o page
         /\ pc' = IF page = <<>> \/ Len(entries') >= Len(index) THEN "search" ELSE "query"
  /\ UNCHANGED <<request, build, search>>

(* An exchange is lost: the scan is given up and nothing is shown. *)
Fail ==
  /\ pc \in {"build", "query"}
  /\ pc' = "failed" /\ entries' = <<>>
  /\ UNCHANGED <<request, build, search>>

-----------------------------------------------------------------------------
(* BuildChainsToTarget. *)

(* Keep what has not been found before, up to the limit. *)
NewOf(found) ==
  Picked(found, {i \in DOMAIN found :
                   /\ found[i] \notin Range(chains)
                   /\ \A j \in 1 .. i - 1 : found[j] # found[i]})

Take(found) ==
  LET new == NewOf(found)
      kept == SubSeq(new, 1, Min2(Len(new), MaxResults - Len(chains)))
  IN  /\ chains' = chains \o kept
      /\ limited' = (limited \/ Len(chains') >= MaxResults)

FirstLayer ==
  /\ pc = "search" /\ layer = 0
  /\ level' = LET near == Window(Target)
              IN  [i \in DOMAIN near |-> Link(near[i], Target)]
  /\ Take(level')
  /\ layer' = 1 /\ turn' = 1
  /\ pc' = IF level' = <<>> \/ Len(chains') >= MaxResults \/ Depth = 1
           THEN "done" ELSE "search"
  /\ UNCHANGED <<request, build, entries, next>>

(* append_candidates: each word near the base of a chain, in front of each  *)
(* chain of the level with that base.  Mutant: in front of every chain.     *)
AllTails(wanted) == level
Tails(wanted) == Picked(level, {i \in DOMAIN level : level[i].base = wanted})

Extended(wanted) ==
  LET near == Window(wanted)
      tails == Tails(wanted)
      n == Len(tails)
  IN  [k \in 1 .. Len(near) * n |->
         LET e == near[((k - 1) \div n) + 1]
             tail == tails[((k - 1) % n) + 1]
         IN  [base |-> e.address,
              offsets |-> <<wanted - e.value>> \o tail.offsets]]

Extend ==
  /\ pc = "search" /\ layer > 0 /\ turn \in DOMAIN level
  /\ next' = next \o Extended(level[turn].base)
  /\ IF Len(next') >= MaxResults
     THEN turn' = Len(level) + 1 /\ limited' = TRUE
     ELSE turn' = turn + 1 /\ UNCHANGED limited
  /\ UNCHANGED <<pc, request, build, entries, layer, level, chains>>

EndLayer ==
  /\ pc = "search" /\ layer > 0 /\ turn \notin DOMAIN level
  /\ Take(next)
  /\ level' = SubSeq(chains', Len(chains) + 1, Len(chains'))
  /\ layer' = layer + 1 /\ turn' = 1 /\ next' = <<>>
  /\ pc' = IF Len(chains') >= MaxResults \/ layer' = Depth \/ level' = <<>>
           THEN "done" ELSE "search"
  /\ UNCHANGED <<request, build, entries>>

(* Saved to a file and shown; the next scan starts afresh. *)
Again ==
  /\ pc \in {"done", "failed"} /\ pc' = "idle"
  /\ region' = 1 /\ cursor' = 0 /\ words' = <<>> /\ holes' = FALSE
  /\ index' = <<>> /\ truncated' = FALSE /\ entries' = <<>>
  /\ layer' = 0 /\ level' = <<>> /\ next' = <<>> /\ turn' = 1
  /\ chains' = <<>> /\ limited' = FALSE
  /\ request' = [byteStep |-> FALSE, strict |-> FALSE]

Next ==
  \/ Start \/ NextRegion \/ FinishBuild \/ QueryPage \/ Fail
  \/ \E skipped \in SUBSET {p \in 0 .. Regions[Len(Regions)].end : p % Page = 0},
        ok \in BOOLEAN : ReadChunk(skipped, ok)
  \/ FirstLayer \/ Extend \/ EndLayer \/ Again

Spec == Init /\ [][Next]_vars

-----------------------------------------------------------------------------
(* Reference: the ways of at most Depth words to the target, as chains. *)
Step(a, b) == words[a] # 0 /\ words[a] - b \in -MaxOffset .. MaxOffset

Leads(way) ==
  \A i \in DOMAIN way :
    Step(way[i], IF i = Len(way) THEN Target ELSE way[i + 1])

AsChain(way) ==
  [base |-> way[1],
   offsets |-> [i \in DOMAIN way |->
     (IF i = Len(way) THEN Target ELSE way[i + 1]) - words[way[i]]]]

Ways == UNION {[1 .. n -> DOMAIN words] : n \in 1 .. Depth}
AllChains == {AsChain(way) : way \in {w \in Ways : Leads(w)}}

(* Every word of the regions has been read once the build is over. *)
Positions ==
  UNION {{a \in Regions[k].start .. Regions[k].end - Word :
            request.byteStep \/ a % Word = 0} : k \in DOMAIN Regions}

(* The chains of a scan lead to the target in the memory that was read, and *)
(* none of at most Depth words is missing, unless a limit has cut the index *)
(* or the search: the chunks and regions, byte steps over their seams, the  *)
(* pages of the query and the layers of the search lose and invent nothing. *)
(* A read with holes may shift words, so nothing is promised of a scan that *)
(* had one; a strict scan lets pass only chunks of which nothing was read,  *)
(* which makes it miss chains but never invent one.                         *)
ChainsExact ==
  pc = "done" =>
    /\ ~holes \/ request.strict => Range(chains) \subseteq AllChains
    /\ ~holes /\ ~truncated => DOMAIN words = Positions
    /\ ~holes /\ ~truncated /\ ~limited => Range(chains) = AllChains
=============================================================================
