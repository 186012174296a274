---------------------------- MODULE PointerCompare ----------------------------
(***************************************************************************)
(* ClientUI::RunPointerCompare: the chains that all files hold are asked   *)
(* of the agent, in batches, and those that lead to a target are kept.  A  *)
(* short list is asked over the connection of the client, a long one by    *)
(* threads, each with a connection of its own, that share the position in  *)
(* the list and the size of the next batch.  An agent of before may not    *)
(* know the batch commands: then the filter, then the batches are given up *)
(* for reads of single words.                                              *)
(*                                                                         *)
(* The files are sets of chains; where a chain leads does not change       *)
(* during a compare.  Buckets and caches of the benchmark are left out.    *)
(***************************************************************************)
EXTENDS Lists, TLC

CONSTANTS
  Threads,     \* thread_count of a long list
  Chains,      \* chains a file may hold, in their order: a sequence
  Commons,     \* the sets of chains that all files may hold
  SessionMax,  \* a list up to this length is asked over the client's connection
  FilterMin,   \* the shortest batch that is filtered by the agent
  MinBatch, FirstBatch, MaxBatch

VARIABLES
  phase,       \* where RunPointerCompare is
  candidates,
  leads,       \* the chains that lead to a target, as the agent reads them
  knows,       \* the commands the agent knows
  position,    \* index, cursor
  batch,       \* dynamic_batch
  supported,   \* batch_supported, batch_filter_supported
  filterEver,  \* s_verify_batch_v2_supported, kept between compares
  lane,        \* what a thread does: loading, taking, asking, walking or gone
  span, part,  \* batch_span and the batch it has taken
  streak,      \* batch_success_streak
  valid,       \* what a thread has found
  recall,      \* prefix_cache of the client's own thread
  missed       \* a chain has not been asked of the process as it is (history)

shared == <<position, batch, supported, filterEver>>
lists == <<phase, candidates, leads, knows>>
vars == <<lists, shared, lane, span, part, streak, valid, recall, missed>>

Max2(a, b) == IF a > b THEN a ELSE b

TypeOK ==
  /\ phase \in {"idle", "verify", "done", "failed"}
  /\ Range(candidates) \subseteq Range(Chains) /\ IsInjective(candidates)
  /\ batch \in MinBatch .. MaxBatch
  /\ supported \in [batch : BOOLEAN, filter : BOOLEAN] /\ filterEver \in BOOLEAN
  /\ lane \in [Threads -> {"gone", "load", "take", "filter", "batch", "walk"}]
  /\ \A t \in Threads : Range(part[t]) \subseteq Range(candidates)
  /\ \A t \in Threads : lane[t] \in {"take", "filter", "batch", "walk"} =>
       span[t] \in MinBatch .. MaxBatch

Nobody(x) == [t \in Threads |-> x]

(* use_attached_session *)
Alone == Len(candidates) <= SessionMax

Init ==
  /\ phase = "idle" /\ candidates = <<>> /\ leads = {}
  /\ knows \in {{}, {"batch"}, {"batch", "filter"}}
  /\ position = 0 /\ batch = FirstBatch
  /\ supported = [batch |-> TRUE, filter |-> TRUE] /\ filterEver = TRUE
  /\ lane = Nobody("gone") /\ span = Nobody(MinBatch) /\ part = Nobody(<<>>)
  /\ streak = Nobody(0) /\ valid = Nobody(<<>>)
  /\ recall = <<>> /\ missed = FALSE

-----------------------------------------------------------------------------
(* The chains of the files.                                                 *)

(* The merge of two sorted files, or the counts of several, leaves what all *)
(* of them hold.                                                            *)
Compare(common, good) ==
  /\ phase \in {"idle", "done", "failed"}
  /\ candidates' = Picked(Chains, {i \in DOMAIN Chains : Chains[i] \in common})
  /\ leads' = good
  /\ phase' = IF candidates' = <<>> THEN "failed" ELSE "verify"
  /\ position' = 0 /\ batch' = FirstBatch
  /\ supported' = [batch |-> TRUE, filter |-> filterEver]
  /\ lane' = [t \in Threads |->
                IF candidates' # <<>> /\ (Len(candidates') > SessionMax \/ t = 1)
                THEN "load" ELSE "gone"]
  /\ span' = Nobody(MinBatch) /\ part' = Nobody(<<>>)
  /\ streak' = Nobody(0) /\ valid' = Nobody(<<>>) /\ missed' = FALSE
  /\ UNCHANGED <<knows, filterEver, recall>>

-----------------------------------------------------------------------------
(* A thread, or the client itself.                                          *)

(* No connection, or it is lost at once: the others do it. *)
NoConnection(t) ==
  /\ phase = "verify" /\ ~Alone
  /\ lane[t] = "load" /\ part[t] = <<>>
  /\ lane' = [lane EXCEPT ![t] = "gone"]
  /\ UNCHANGED <<lists, shared, span, part, streak, valid, recall, missed>>

Load(t) ==
  /\ lane[t] = "load"
  /\ span' = [span EXCEPT ![t] = Max2(1, Min2(MaxBatch, batch))]
  /\ lane' = [lane EXCEPT ![t] = "take"]
  /\ UNCHANGED <<lists, shared, part, streak, valid, recall, missed>>

(* The way a batch is asked. *)
Way(n) ==
  IF ~supported.batch THEN "walk"
  ELSE IF supported.filter /\ n >= FilterMin THEN "filter" ELSE "batch"

(* fetch_add of what was loaded, whatever the size is now.  Mutant: of the  *)
(* size as it is now.                                                       *)
AddNow(t) == batch
AddLoaded(t) == span[t]

Take(t) ==
  /\ lane[t] = "take"
  /\ position' = position + AddLoaded(t)
  /\ part' = [part EXCEPT ![t] =
                SubSeq(candidates, position + 1,
                       Min2(position + span[t], Len(candidates)))]
  /\ lane' = [lane EXCEPT ![t] = IF part'[t] = <<>> THEN "gone" ELSE Way(Len(part'[t]))]
  /\ UNCHANGED <<lists, batch, supported, filterEver, span, streak, valid, recall, missed>>

(* compare_exchange_weak: lost against another thread, or spuriously. *)
Exchange(t, size) ==
  \/ batch = span[t] /\ batch' = size
  \/ UNCHANGED batch

(* After two batches in full, larger ones. *)
Grow(t) ==
  IF Len(part[t]) = span[t] /\ streak[t] >= 1 /\ span[t] < MaxBatch
  THEN streak' = [streak EXCEPT ![t] = 0] /\ Exchange(t, Min2(MaxBatch, span[t] * 2))
  ELSE streak' = [streak EXCEPT ![t] = Min2(@ + 1, 2)] /\ UNCHANGED batch

Keep(t, found) ==
  /\ valid' = [valid EXCEPT ![t] = @ \o found]
  /\ lane' = [lane EXCEPT ![t] = "load"]

(* What leads to a target over the connection of a thread.  The status of   *)
(* CMD_ATTACH is not looked at: when the agent could not open the process   *)
(* the thread takes its batches all the same, and no chain of them matches. *)
Reads(process) ==
  /\ process = leads \/ (process = {} /\ ~Alone)
  /\ missed' = (missed \/ process # leads)

(* CMD_PTR_VERIFY_BATCH_V2: the agent answers which of the batch lead to a  *)
(* target.                                                                  *)
Matched(asked, process) == Places({i \in DOMAIN asked : asked[i] \in process})

FilterAnswered(t, process) ==
  /\ lane[t] = "filter" /\ "filter" \in knows /\ Reads(process)
  /\ LET matched == Matched(part[t], process)
     IN  Keep(t, [i \in DOMAIN matched |-> part[t][matched[i]]])
  /\ Grow(t)
  /\ UNCHANGED <<lists, position, supported, filterEver, span, part, recall>>

(* CMD_PTR_VERIFY_BATCH: it answers for each chain whether it leads         *)
(* somewhere and where, here to a target or not.                            *)
Verified(asked, process) == [i \in DOMAIN asked |-> asked[i] \in process]

BatchAnswered(t, process) ==
  /\ lane[t] = "batch" /\ "batch" \in knows /\ Reads(process)
  /\ LET hit == Verified(part[t], process)
         good == Places({i \in DOMAIN hit : hit[i]})
     IN  Keep(t, [i \in DOMAIN good |-> part[t][good[i]]])
  /\ Grow(t)
  /\ UNCHANGED <<lists, position, supported, filterEver, span, part, recall>>

(* A command the agent does not know, or a lost exchange. *)
FilterRefused(t) ==
  /\ lane[t] = "filter"
  /\ supported' = [supported EXCEPT !.filter = FALSE] /\ filterEver' = FALSE
  /\ lane' = [lane EXCEPT ![t] = "batch"]
  /\ UNCHANGED <<lists, position, batch, span, part, streak, valid, recall, missed>>

(* Smaller batches, and at the smallest none any more; this one is walked. *)
BatchRefused(t) ==
  /\ lane[t] = "batch"
  /\ IF span[t] > MinBatch
     THEN Exchange(t, Max2(MinBatch, span[t] \div 2)) /\ UNCHANGED supported
     ELSE supported' = [supported EXCEPT !.batch = FALSE] /\ UNCHANGED batch
  /\ streak' = [streak EXCEPT ![t] = 0]
  /\ lane' = [lane EXCEPT ![t] = "walk"]
  /\ UNCHANGED <<lists, position, filterEver, span, part, valid, recall, missed>>

(* verify_chain for each chain: one whose words cannot be read is left out  *)
(* as one that leads elsewhere.  What was found of its first words is kept  *)
(* by the thread, and the client's own thread still has it in later         *)
(* compares.  Mutant: a batch that was refused is not walked.               *)
Own(t) == IF Alone THEN recall ELSE <<>>
Finds(t, c, unread) ==
  IF c \in DOMAIN Own(t) THEN Own(t)[c] ELSE c \in leads \ unread

NotWalked(t, unread) == <<>>
Walked(t, unread) ==
  Picked(part[t], {i \in DOMAIN part[t] : Finds(t, part[t][i], unread)})

Walk(t, unread) ==
  /\ lane[t] = "walk"
  /\ Keep(t, Walked(t, unread))
  /\ recall' = IF Alone THEN Own(t) @@ [c \in Range(part[t]) |-> Finds(t, c, unread)]
                        ELSE recall
  /\ missed' = (missed \/ unread # {} \/ Range(part[t]) \cap DOMAIN Own(t) # {})
  /\ streak' = [streak EXCEPT ![t] = 0]
  /\ UNCHANGED <<lists, shared, span, part>>

(* Joined; the lists of the threads make the file. *)
Join ==
  /\ phase = "verify" /\ \A t \in Threads : lane[t] = "gone"
  /\ phase' = IF \A t \in Threads : valid[t] = <<>> THEN "failed" ELSE "done"
  /\ UNCHANGED <<candidates, leads, knows, shared, lane, span, part, streak, valid, recall, missed>>

Next ==
  \/ \E common \in Commons : \E good \in SUBSET common : Compare(common, good)
  \/ \E t \in Threads :
       \/ NoConnection(t) \/ Load(t) \/ Take(t)
       \/ \E process \in {leads, {}} : FilterAnswered(t, process) \/ BatchAnswered(t, process)
       \/ FilterRefused(t) \/ BatchRefused(t)
       \/ \E unread \in SUBSET Range(part[t]) : Walk(t, unread)
  \/ Join

Spec == Init /\ [][Next]_vars
-----------------------------------------------------------------------------
Shown == UNION {Range(valid[t]) : t \in Threads}

(* The chains that a compare keeps are exactly those that all files hold    *)
(* and that lead to a target, each once: however the threads share the list *)
(* while the size of the batches changes under them, whichever commands the *)
(* agent knows, and as long as one thread has a connection.  Not promised   *)
(* when a word could not be read, a thread's process not be opened, or when *)
(* an earlier compare is recalled.                                          *)
CompareExact ==
  phase \in {"done", "failed"} /\ position > 0 /\ ~missed =>
    /\ Shown = Range(candidates) \cap leads
    /\ \A t \in Threads : IsInjective(valid[t])
    /\ \A t, u \in Threads : t # u => Range(valid[t]) \cap Range(valid[u]) = {}
=============================================================================
