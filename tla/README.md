# Android_Debugger: a verification project

TLA+ models of the Android_Debugger repository, checked with TLC and proved
about with TLAPS. The program is a memory debugger in two halves: an **agent**
that runs as root on an Android device (`src/android_agent`) and **clients** on
a PC: the Qt client (`src/windows_client_qt`, on top of the services of
`src/windows_client_ng` and the socket of `src/windows_client`), and two older
ones, with ImGui windows (`src/windows_client/ClientUI.cpp`) and with Win32 windows
(`src/windows_client_ng/ui`). Paths in this
document are relative to the repository.

1. Inventory  2. Modules  3. Runs  4. Proofs  5. Known differences
6. What is not modelled  7. Plan  8. How to run

## 1. Inventory

### Parts, state, operations

| Part | State it keeps | Operations | Modelled |
|---|---|---|---|
| Agent: command loop, `HandleClient` (`main.cpp`) | per connection: reader, scanner, debugger flags, breakpoint tables, pointer index | one packet, one answer; one thread per connection | framing and life in `Transport`; what the connection owns in `ClientSession`; the commands in the modules below |
| Agent: software breakpoints, `PtraceBreakpointManager` | traced pid and tids, breakpoint table, hit counts, last reported counts | Set, Clear, ClearAll, Poll, ListThreads, teardown | `PtraceBreakpoints` |
| Agent: debugger session | attached pid, who stopped it | attach, detach, step, step over, registers, end of connection | `DebugSession` |
| Agent: perf hardware breakpoints, `PerfBreakpointManager` | events, last counts, watched values | Set, Clear, ClearAll, Poll | `PerfBreakpoints` |
| Agent: scanner, `MemoryScanner` | results and last values, options of the scan | first scan, next scan, page | `ScanList`, `MemoryScanner` |
| Agent: memory access, `SafeMemoryReader` | `/proc/pid/mem`, regions, residency maps | validated read, write, pointer chains | the read, in `MemoryScanner` and `PointerScan` |
| Agent: pointer index | sorted words that may be pointers | build, page, verify batches | `PointerScan`, `PointerLevels`, `PointerCompare` |
| Client: transport, `NetClient` | a socket | one exchange at a time | `Exchange`, `Transport` |
| Client: `ClientService` | attached pid, capabilities, provider configuration, fuse, override hooks; one mutex | attach, read, write, batch read | `MemoryChain`, batch read in `AddressTable` |
| Client: plugin runtime, `PluginRuntime` | library, handlers, fuse, error count | activate, deactivate, analyze, memory events | `PluginHost` |
| Client: address list (`MainWindow`) | rows, freeze marks, refresh flags | add, edit, freeze, remove, timer refresh | `AddressTable` |
| Client: scan session (`MainWindow`) | scan in flight, rows shown, attached pid | scan, result, undo, attach, reconnect | `ClientSession` |
| Client: breakpoint panel (`MemoryViewWindow`) | its own list of breakpoints | add, remove, clear all | `ClientSession` |
| Client: pointer tools (`PointerToolsDialog`) | fetched index, layers, chains | scan | `PointerScan` |
| ImGui client: pointer scan and compare (`ClientUI`) | index kept between scans, worker pool, shared batches | scan, compare | `PointerLevels`, `PointerCompare` |
| Win32 client: scan tabs (`CeLayoutWindow`) | two tabs of results with undo, which of them owns the agent's list | scans, pages, undo, switch, attach, disconnect | `ScanTabs` |
| Win32 client: pointer tools (`PointerToolsWindow`) | index, chains found, files | build, search, save, compare, clear | `PointerFiles` |
| Wire protocol, run-length codec | none | encode, decode | no |

### Who talks to whom

The client's GUI thread starts jobs on a thread pool; a job calls
`ClientService`, which holds `service_mutex_` for the length of a call. A read or
write goes to the **override hook** (a plugin, called in the client's own
process), then to the **custom provider** (a `CMD_CUSTOM_MEM_OP` that makes the
agent use other system calls), then to the **built-in command**
(`CMD_READ_MEM`, `CMD_WRITE_MEM`). The agent answers one packet at a time per
connection. What it does to the **target**, a process of somebody else, happens
through ptrace and `/proc/pid/mem` while the target's threads run, fork off
threads, receive signals and die.

The agent's **debugger session**, its two **breakpoint managers** and the end of
the connection all act on the same tracees, since ptrace belongs to the thread
that serves the connection. The client's **windows** keep their own copies of
what the connection owns: a process id, a scan list, a breakpoint list.

### What is hard here

* The target moves between any two system calls of the agent (breakpoints, scans).
* The kernel's ptrace rules: most requests fail with ESRCH on a running tracee,
  `waitpid(-1)` returns whichever thread stopped, a seized thread stays stopped
  until somebody continues it.
* State that is checked in one place and used in another: the plugin that is
  deactivated under a running call, the table rows a refresh names by number,
  the process id client and agent each remember.
* Failures part way: attaching to the n-th thread, a plugin that loads but does
  not start, an agent that goes away in the middle of a call, a page that
  cannot be read.
* Copies: the scan rows, breakpoint list, index and process id of a window
  against what the agent holds for the connection, which attaches, a broken link
  or a reconnect change under them.
* Exchanges without number or timeout: two threads share a socket that may break
  at any byte.
* Limits: the failure streak that fuses a provider, the stops one poll drains,
  the events one poll reports, the results a scan may have, the rows a refresh
  takes, the pages of an index.

`PROJECT.json` lists these hazards line by line with the properties that watch them.

### What makes each part correct

* **Breakpoints**: a registered breakpoint really is in the text; no call leaves
  a thread of the target stopped; the table never survives its process; calls return.
* **Plugins**: hooks are installed only with a started plugin behind them; a
  plugin that fails too often is cut off; reconfiguring always ends.
* **Memory chain**: a hook's verdict is final; a fused provider is not asked;
  fallback follows the configuration in force; client and agent mean the same process.
* **Address list**: a refresh result fits the rows it is applied to; refreshes do
  not overlap and never get stuck; a frozen value is held.
* **Scanner**: whatever the number of workers, a complete scan lists every match
  exactly once and nothing else; a failed scan leaves nothing half done.
* **Debugger session**: a stop it recorded ends when it lets go; reading registers,
  also when it fails, gives a process back as it was, unless a stop it asked for is
  still to come; nothing but letting go takes its tracee; a step that succeeds leaves
  no BRK of its own.
* **Perf breakpoints**: no hit a poll counted is dropped, those of execution
  breakpoints are reported exactly once; a hit waits no longer than the events in
  front of it are hit; a watched value is never compared with one kept for an
  earlier breakpoint.
* **Transport**: no call gets another's answer, no request is executed twice or
  out of order, calls return, the agent's threads end.
* **Windows**: the list shown is the list the agent would scan next; a listed
  breakpoint is set; the buttons come back after a scan.
* **Pointer searches**: exactly the chains there are in the memory that was searched,
  whatever the seams of chunks and pages, the schedule of the workers, the size of the
  batches and the process an index was kept of.

## 2. Modules

| Module | What it is |
|---|---|
| `PtraceBreakpoints`, `MCPtraceBreakpoints` | the agent's breakpoint manager and the kernel's ptrace rules |
| `DebugSession` | the debugger of one connection, with the tracees it shares with the breakpoint manager |
| `PerfBreakpoints`, `MCPerfBreakpoints` | the hardware breakpoints over perf events |
| `PluginHost` | the plugin runtime, its reconfiguration and the calls into it |
| `MemoryChain`, `MCMemoryChain` | one memory call from hook to agent |
| `AddressTable` | the address list and its refresh |
| `ScanList` | the promise of the scanner: every scan one step |
| `MemoryScanner`, `MCMemoryScanner` | the scanner with its workers, shown to keep that promise |
| `Exchange` | the promise of the transport: one call at a time, answered by its own answer |
| `Transport` | sockets, packets in pieces, the agent's threads, shown to keep that promise |
| `ClientSession` | what the windows keep against what the agent keeps for the connection |
| `Lists` | parts of lists the pointer modules are built from |
| `PointerScan` | building the agent's pointer index and the Qt client's search in it |
| `PointerLevels` | the ImGui client's pointer scan: index, worker pool, levels |
| `PointerCompare` | the ImGui client's pointer compare: threads, batches, old agents |
| `PointerFiles` | the Win32 client's pointer search, its files and their comparison |
| `MCPointerScan` | instances of the four pointer modules, and the composition that runs one of them per behaviour |
| `ScanTabs` | the Win32 client's two scan tabs over the agent's one list |
| `MCClientSession` | the composition that runs `ClientSession` or `ScanTabs` |
| `PtraceBreakpoints_proofs`, `DebugSession_proofs`, `PerfBreakpoints_proofs`, `MemoryScanner_proofs`, `Transport_proofs` | proofs about the modules they are named after |
| `MemoryPath_proofs` | proofs about the two parts of the path of a memory call, `MemoryChain` and `PluginHost`; the names of the latter begin with `Plugin` where both have one |
| `ClientTools_proofs` | proofs about tools of the clients, `AddressTable` and the pointer modules as `MCPointerScan` composes them; the two share the proof module but no state |
| `ClientSession_proofs` | proofs about `ClientSession`, and about `ScanTabs` as `MCClientSession` composes it |

**PtraceBreakpoints.** The manager's fields have their own names (`bps`, `hits`,
`tids`, `lastReport`); `target` is the kernel's view: text, who traces a thread,
its scheduling state and its unreported stop. `Traceable` is the ESRCH rule:
PEEK, POKE, CONT, SINGLESTEP and DETACH act only on a stopped tracee. Where the
code waits (`AttachThreadLocked`, the `waitpid` loop of `Poll`, the single step
over a breakpoint) the call is split, so the target moves in between:
`Set` .. `AttachThread` .. `Plant`, and `Poll` .. `HandleExit | HandleOther |
HandleUnread | HandleHit` .. `FinishStep` .. `Report`. An attach may be refused, and
fails for the main thread and for one that is gone but still listed. A stop of a tid
the manager does not know makes it its own (`Adopt`), and only then are its options
set. `Clear`, `ClearAll` and `ListThreads` do not wait and are single steps. Target actions are `Execute`, `Signal`, `Clone`,
`StartStop`, `ThreadExit`, `Kill`. `TracerExit` is the end of the connection's
thread, whose remaining tracees the kernel kills (EXITKILL).

**PluginHost.** `ApplyCustomProviderConfig` is split at each call into the plugin
(`Stop`, `Unload`, `ForgetPlugin`, `Load`, `InitPlugin`, `StartPlugin`,
`RegisterEvents`), where it asks the plugin whether it takes memory events
(`DecideHooks`) and at the wait for the mutex (`Configure`), because none of
the former holds it. A request too large for the plugin is an error of the call, not
counted against the plugin (`FindMemOp`). One worker stands for all threads that call memory, since
the mutex serialises them. `phase` is what the library saw of its lifecycle;
`code` is the library a worker executes.

**MemoryChain.** `pc` walks through `hook`, `custom`, `native`, `done`. The
mutex makes configuration changes possible only between calls; the connection
may `Break` at any time. `ApplyCustomProviderConfig` is separate from the change
of the settings. `BeginSelfCheck` is the part of `RunPluginSelfCheck` that reads
with the custom read system call removed. `tried`, `hookRc` and `attachFailed`
are history.

**AddressTable.** Rows are on the GUI thread, the job is a snapshot on a worker,
results come back by row number. `pending` and `posted` are the two ways a tick
is remembered. Texts are values or `Blank`; a short read shows `Zero`. A job is the
active rows in their order (`InOrder` counts, for each, the rows up to it), cut at
`MaxJobs`; a removal keeps the other rows in the same way, so that a proof can speak
of the row at a place without unfolding a loop.

**ScanList / MemoryScanner.** `ScanList` has the list and a pending request, and
lets a scan finish in one step with any list it promises: all matches, each
once, for positions the target did not write meanwhile, if the scan was strict
or every read was complete; otherwise a list without duplicates, or (next scan)
some entries of the old one in their order; after a failure the empty list
(first) or the old one (next). `MemoryScanner` has the shared work counter, the
stop, failed and overflow flags, and per worker its work, read buffer and
matches. A read skips pages and leaves the bytes of the worker's previous chunk
there, and reports only a sum, as `ValidateAndReadEx` does; a read that fails leaves
what it had copied, since the kernel copies a page or nothing of it. A chunk is read and
searched in one step: writes of the target during it only matter for positions
the promise excludes. The list of chunks, the order in which a chunk's matches are
appended and the merged and sorted lists are defined by places (a chunk's place is
the number of chunks that start no later), so that a proof can speak of them
without unfolding a loop. On arm64 the vector code leaves out the last value of a
chunk; `ScanList` excepts these positions, and no others, by its constant
`Skipped`. `Promise == INSTANCE ScanList WITH ...` maps `mem`, `list`, `request`,
`changed` and `full` to the variables of the same names; worker steps are
stutters or `ReadShort`.

**DebugSession.** `target` is the kernel's view of the processes: SIGSTOP in
effect (`gstop`), traced, the ptrace stop and whether it was reported, signals
sent and not taken (`late`), BRKs in the text. An operator named after a function
of the code (`Stop`, `Ensure`, `Attach`, `Detach`, `Release`, `Resume`) gives the
set of outcomes of a call, so a command is a composition of calls as in the code;
a process in an uninterruptible sleep takes its stop after the wait has given up.
`EnsureTraceeStopped` has the outcomes of both its waits, also that the second takes
the stop of PTRACE_INTERRUPT and SIGSTOP is still pending behind a call that
succeeded. Step and step over are split at their wait (`StepStart` .. `StepEnd`). The
breakpoint manager appears as far as it shares tracees (`BpSet`, `BpClear`,
`BpPoll`, `BpReap`, `PerfWatchRead`); its own rules are `PtraceBreakpoints`.

**PerfBreakpoints.** An event has the hits the kernel counted since the last read of
its counter (`unread`, the difference `count - last_count` of the code) and, as
history, those counted and not reported (`owed`); so the target may run for ever.
`Set` is split at every `perf_event_open`, so threads are born and hit meanwhile.
Poll is one step: the counter may advance between the reads of two events, which is
an `Access` before or after; any of the reads, of a counter or of a watched
location, may fail.

**Exchange / Transport.** `Exchange` lets one caller at a time ask, the agent
execute a request at most once and in order, and the call succeed with its own
answer or fail, after which the connection serves nobody. `Transport` has pipes of
limited capacity in both directions, packets of one or two pieces, the thread of
the agent per connection, and cuts at any moment. `Promise == INSTANCE Exchange
WITH ...` maps the shared variables to themselves; pieces under way are stutters.
The other modules use the promise: an exchange is one step or a failure there.

**ClientSession.** Handlers of the GUI thread are single steps; the scan task is
`StartScan` .. `RunScan` .. `OnScanTaskFinished`, between which the user may
attach, reconnect, undo or clear, the link may break and processes exit. A first scan
the agent refuses before it starts keeps the results of before. `net` is
what is true of the link, `connected_` what the client believes. A scan list is
an id with the process it was made of; `lost` in a breakpoint entry is history.

**PointerScan.** The agent's build reads chunk by chunk over the regions, with
holes where pages are missing, into an index that is sorted and cut at
`MaxEntries`; in a strict build a short read ends it, but not one of which no byte
came, which is passed over. The client fetches pages and searches layer by layer with the
limit on results. Words are chosen when they are read, since the target runs.
`ChainsExact`, a part of `SearchesExact`, compares with all chains over the words
that were read.

**PointerLevels.** `RunPointerScan`: `job` is where the function is. The user selects
modules for every scan (`Selections`: their cells, cut into tasks), and only what the
workers read is of these. The index comes from the cache, whatever modules it was made
of, from the agent, which has all readable regions, page by page, or from workers with
a connection each; without one the workers read the memory for every level. `Searched`
are the cells a scan has gone through. `Run`, `Wake`,
`Finish`, `EndLevel` are the pool with its generation and pending counters;
`Take`, `Work`, `ReadFails` the loop over the shared counter. `cache.whole` and
`gaps` are history: whether a word of the process was missed. `AllChains`, the
reference, is defined over ways of cells and knows nothing of levels.

**PointerCompare.** `RunPointerCompare` after the files are merged: threads load the
batch size, take a batch, ask with the filter command, the batch command or word
by word, and change the size for all. A thread without a connection leaves; one
whose process the agent refused to open goes on and gets no matches (`Reads`), since
the status of CMD_ATTACH is not looked at. `recall` is the cache of the client's own
thread, which outlives a compare.

**PointerFiles.** One search is `RunPointerSearch`, then a `VerifyBatch` for each
exchange with the agent, between which the target writes; the index stays over
searches and attaches. `SaveCut` is a program that ends inside
`SavePointerSearchResult`: the file then has some chains, perhaps a part of one
(`torn`), and the count 0 of a header whose count is written last. `of` and
`whole` are history: what the files a comparison read were to have. The two
exchanges of a build are one step, the structure view is left out.

**ScanTabs.** Handlers are single steps, and so are their exchanges. `found` is
the agent's list with the tab it was made for (history), `backend` what the window
believes of that, `saved` the tab that is not in front. `fresh` and `current` are
history: tabs whose rows are those of their last answer, and whether that was of
the list the agent has now.

`MCPointerScan` and `MCClientSession` start each behaviour as one of the
programs, since these share no state; the others keep their initial state, chosen
once.

## 3. Runs

| Run | Module and question | Instance |
|---|---|---|
| `ptrace_threads` | Armed, NoParkedThread with cloning, exiting, signalled threads | 1 process, 2 threads (one unborn), 2 adjacent addresses, 2 stops per poll, 1 event, counters modulo 2 |
| `ptrace_procs` | TypeOK, RegistrationAttached, CallsReturn over two processes | 3 threads, one or two of them already traced by another debugger, 1 address, counters modulo 3 |
| `ptrace_clear_all` | violation of ClearedRestores | 2 processes |
| `debug` | TypeOK, RecordedStopsEnd, KeepsTracee, RegsTransparent, StepHolds | 2 processes, one of which may sleep through a stop |
| `perf` | TypeOK, HitsExact, WatchBacked, HitsReported | 3 threads of 2 processes (one unborn), 1 execution and 1 data breakpoint, 2 values, 1 hit of an event between two reads of it, accesses without end, polls of 1 or 2 events |
| `plugin_host` | PluginTypeOK, HooksBacked, PluginFuseHolds, ApplyEnds | 2 plugins, fuse at 3, 2 queued calls |
| `chain` | TypeOK, HookSettles, FuseHolds, FallbackAllowed, SameTarget | 2 processes (symmetric), fuse at 2 |
| `table` | TypeOK, UpdatesFitRows, RefreshEnds | 2 rows, 2 addresses, jobs of 1 row, 1 range per batch |
| `scan` | TypeOK, Promised (the scanner implements ScanList) | 4 bytes of 2 values, values of 2 bytes, chunks and pages of 2, 2 workers (symmetric), at most 2 results, 1 address written per scan, the portable loop (`Neon` false) |
| `transport` | TypeOK, Promised (the sockets implement Exchange), CallsReturn, ThreadsEnd | 2 callers, 4 requests, 2 connections, pipes of 1 piece, all lengths of requests and answers |
| `session` | TypeOK, ListAgrees, ListedIsSet, TabsAgree, ScanEnds | Qt: 2 processes, 1 address, 2 list ids. Win32: lists of up to 2 results, 2 of them in the answer to a scan, pages of 1 |
| `pointer` | MCTypeOK, SearchesExact, CompareExact | Qt: regions of 6 and 2 bytes, words of 2, chunks and pages of 4, 4 values, 5 entries, pages of 2, depth 3, offsets to 2, 12 results. ImGui scan: 2 workers (symmetric), 2 processes with 3 words each in 4 layouts (one order of them), selections of all words in 2 tasks and of one word in 1, depth 2, offsets to 1, index pages of 1, 4 nodes. Compare: 2 threads, files with 0, 2 or 4 chains in common, up to 2 over the client's own connection, batches of 1 to 4, three kinds of agent. Win32: 2 processes, 2 words in 2 layouts for one of them and one for the other, depth 2, offsets to 1 in steps of 1, 2 results, batches of 1, 2 files, 1 save cut short |

A `TypeOK` carries the bounds of its module (stops of a poll, failure streak, rows
of a job, results of a scan, capacity of a pipe, pool counters).

`SearchesExact` is `ChainsExact`, `LevelsExact` of `PointerLevels` and `SearchExact`
of `PointerFiles`; `CompareExact` of the run is that of `PointerCompare` with `FilesExact` of
`PointerFiles`; each behaviour has one of them to keep.

**Why the bounds suffice.** Two addresses one instruction apart are the smallest
case in which the agent's "pc or pc minus one instruction" lookup can confuse
them; two threads are the smallest in which one hits while the other clones,
exits or is stepped; three threads over two processes let an attach fail after
it succeeded for another thread, and let a Set move from one process to the next.
A poll of 2 stops reaches its limit; counters modulo 2 or 3 wrap. Two plugins
let one replace another during a call; a fuse of 2 or 3 separates "below",
"at" and "one past" the threshold. Two rows with jobs of one make the list
longer than a job, and removals shift numbers. Four bytes in chunks of two
have a value across the chunk border, two chunks for two workers to finish in
either order, and three possible matches for a list of two, so the overflow happens.

Two processes, one of them a sleeper, give every order of attach, time-out and
attach to the other; the session's own process and one that a breakpoint holds.
One key of each kind of breakpoint with two threads of one process gives two
events of the same key, which a poll of one event cuts between. One hit between two
reads (`MaxHits`) tells "none" from "some", which is all Poll branches on; how many
there are only adds up, and the target may hit again after every read. Pipes of one
piece make both ends block; two connections let an answer of the first be under
way when the second is used. Regions of three words and one put a pointer on a
seam of chunks and on the end of a region; five entries and pages of two make
the index overflow and its last page short. In the ImGui scan two tasks for two
workers let one empty the queue before the other wakes; a second selection with
fewer words makes a kept index too large or too small for the next scan; the layouts have chains
that share a word or pass one twice, a single chain, and none; the limit of four
nodes is met. Four chains in batches that start at two and go
between one and four have threads grow and halve the size under each other. In the
Win32 client's search both words can lead to the target, so lists have none, one or
two chains, the limit is met, the second batch has another position than its
first, and a saved file can be cut before, in and behind a chain; two files let a
comparison read a cut and a whole one and overwrite either. Two results over pages
of one give a page to turn to in each tab, and a first answer larger than a page.
The bounds that are not the code's own: `MaxRows`, `MaxCalls`, `MaxChanged`,
`MaxHits`, `MaxRequests`, `MaxConnections`, `ListIds`, `MaxTotal`, `MaxIndex`,
`MaxCrashes`, `Files`, and the sizes of the
constant sets; `PumpLimit`, `MaxEvents`, `FuseThreshold`, `Threshold`, `MaxJobs`,
`MaxRanges`, `Chunk`, `Page`, `Batch`, `MaxResults`, `MaxEntries`, `PageSize`,
`FetchSize`, `Limit`, `SessionMax`, `FilterMin`, `MinBatch`, `FirstBatch`,
`MaxBatch`, `BatchSize` and `Head` stand for constants of the code, made small, `Capacity` for the socket
buffers. `W` is the width of a counter.

**Symmetry** is used where the constants are interchangeable and only in safety
runs: processes in `chain`, worker threads in `scan` and `pointer` (in `scan` the order
in which the workers' matches are put together is any order of the workers, so it does
not break the symmetry; in `pointer` they are put together as a set).

**Deadlock** is checked in `debug`, `perf`, `session` and `pointer`, where the user
or the target can always act. In the other runs the system may come to rest: no
client, no call left, a process crashed, the target dead.

**Fairness.** `ptrace_procs` assumes weak fairness of the agent's thread
(`AgentStep`), nothing of the target's threads: a call waits for the target only
where the kernel has the stop already, or gives up. `plugin_host` assumes it of
the GUI thread, of the worker (a plugin's callback is assumed to return) and of
a crash that is due. `table` assumes it of the thread pool and of the event
loop's deliveries, not of the user or the timer. `perf` assumes weak fairness of
a Set in progress and strong fairness of polling: the window polls on a timer for
as long as it has breakpoints, whatever else it asks in between, and the kernel
answers the reads of a poll again and again, though not always. `transport`
assumes it of each caller and each thread of the agent that can go on; cuts,
connects and new calls owe nothing. `session` assumes it of the worker (its
exchange returns, which `transport` checks) and of the delivery of its result.

## 4. Proofs

For every value of the constants, under the assumptions named in the modules
(`ThreadAssumption`: each thread has an owner and each process a main thread of
its own; `NoValueAssumption`, `BelowAssumption`, `BoundAssumption`,
`ChainAssumption`, `PluginAssumption`, `ProcAssumption`, `ConstantsAssumption`,
`PerfAssumption`, `TableAssumption`, `BoundsAssumption`, `TabAssumption`,
`ScannerAssumption`; of the pointer modules `ScanAssumption`, `LevelsAssumption`,
`CompareAssumption`, `FilesAssumption`), TLAPS proves:

* `PtraceBreakpoints_proofs`: `TypeCorrect`, `BreakpointsArmed`, `NothingParked`,
  `TableHasTracee`, i.e. `Spec => []TypeOK`, `[]Armed`, `[]NoParkedThread`,
  `[]RegistrationAttached`.
* `MemoryPath_proofs`: `ChainTypeCorrect`, `FuseRespected`, `HookDecides`,
  `FallbackOnlyIfAllowed`, `TargetAgreed`, i.e. the five invariants of run `chain`;
  `PluginTypeCorrect`, `HooksHavePlugin`, `PluginFused`, i.e. the three invariants of
  run `plugin_host`.
* `ClientSession_proofs`: `SessionTypeCorrect`, `ScanListsAgree`,
  `ListedBreakpointsSet`, i.e. three of the four invariants of run `session`.
  `ScanTabsAgree` is the fourth, `MCSpec => []TabsAgree`, about the composition with
  the Win32 client's tabs.
* `DebugSession_proofs`: `DebugTypeCorrect`, i.e. `Spec => []TypeOK`, and the action
  properties: `RecordedStops`, `StepsHold`, `RegistersTransparent`, `TraceeKept`, i.e.
  `Spec => RecordedStopsEnd`, `StepHolds`, `RegsTransparent`, `KeepsTracee`.
* `PerfBreakpoints_proofs`: `PerfTypeCorrect`, `HitsReportedExactly`,
  `WatchValuesBacked`, i.e. the three invariants of run `perf`.
* `ClientTools_proofs`: `TableTypeCorrect`, `ResultsFit`, i.e. the two invariants of
  run `table`; `PointersTypeCorrect`, `SearchesFindAll`, `ComparesKeepExactly`, i.e. the
  three invariants of run `pointer`. These follow from a theorem for each of the four
  pointer programs alone: `QtScanExact`, `ImGuiScanExact`, `ImGuiCompareExact`,
  `Win32SearchExact`.
* `Transport_proofs`: `TransportTypeCorrect`, and `PromiseKept`, the refinement: every
  behaviour of the sockets is one of `Exchange` (`Spec => Promised`). `NobodyWaits`
  (`Spec => []SomebodyGoesOn`, defined there) is the safety half of `CallsReturn`,
  without fairness.
* `MemoryScanner_proofs`: `Safety` (`Spec => []TypeOK`), and `Implements`, the
  refinement: whatever the number of workers, the cut of the work and the size of
  a chunk, a page and a batch, scanning is what `ScanList` says (`Spec => Promised`),
  with the vector code and without it.

*Breakpoints.* `Armed` is not inductive: a hit takes the BRK out and puts it back
only if the stepped thread is still a stopped tracee of the agent, and a new
`Set` would inherit a table left by a process that went away. The inductive
invariant is `IInv == TypeOK /\ Held /\ RegistrationAttached /\ Armed`, where
`Held` says which threads the agent has stopped and why: those of the Set in
progress, and the one the Poll in progress steps, unless its process was killed.
`NoParkedThread` follows from `Held`. Each part is proved separately for every
action, with lemmas for the sets of threads that `CONT` and `DETACH` act on.

*Memory chain.* `HookSettles`, `FuseHolds` and `FallbackAllowed` speak of a call whose
earlier steps they do not see; `CallOrder` (nothing was tried before the hook was
asked, a call the hook settled goes nowhere else, the custom provider is the
first one tried) makes them inductive together.

*Plugins.* `HooksBacked` speaks of the time between reconfigurations; `Lifecycle`
says, for every position of the GUI thread inside one, what is loaded and what
it has seen, also between the question whether it takes memory events and the hooks
installed on the answer. `PluginFuseHolds` allows one failure past the threshold; `InFlight` says
why there is only one: a worker entered below the threshold, and while it is
inside nobody else passes the fuse.

*Windows.* `ListAgrees` is not inductive: a result on its way becomes the list only
when the GUI thread takes it, and meanwhile the agent may have dropped its own.
`OnItsWay` says what such a result still has to do with the agent's. What it promises
is about the agent's results: they are of the process its reader is on, and the rows
shown are those results while there are any and the table was not cleared. Rows the
agent no longer has results for, such as those kept after an attach, are not bound.
`ListedIsSet` is inductive on its own, given the types.

*Scan tabs.* `TabsAgree` speaks of the tab in front, but a switch brings back what
the other one kept: `OwnerShows` says of whichever tab owns the agent's list, in
front or saved, that its rows are a page of it. `TabAssumption` asks that the answer to
a scan holds at least a page; in the code these are 1024 and 128. Without it the
first page would show less than the page turn assumes.

*Debugger session.* A handler is a chain of calls, each about one process:
`Touches(t, u, p)` says what a call about `p` may change, one lemma per call shows
it, and `RecordedStops` follows from what `Release` does and from the rest of the
handler being about another process, so that it sends the one let go of no further
SIGSTOP. Besides the types it needs `Clean`: a
process that died with its stop recorded has nothing left to resume. The other
action properties follow the same calls: `TraceeKept` the set of tracees,
`RegistersTransparent` the process between the stop and the release of one read, for
every outcome of the two (`EnsureOutcomes`), failures included,
`StepsHold` the BRK that step over plants, over a wait in which anything may happen.

*Perf breakpoints.* That an event is of a thread of the process in `pid_` needs the
same of the threads a Set has still to open (`Setting`); that no hit is reported
twice, what is owed for each event, -1 standing for any number reported in excess
(`Truthful`). What Clear leaves of the
table is defined by counting places, and the lemmas about `Place` (in range,
different for different events, every place taken) replace an induction over the list.

*Address list.* `UpdatesFitRows` is inductive with the types: a row number beyond the
list would say nothing of the row added there later. `SameAddresses` covers what
edits, results and new rows do to the list; a removal sets `removed`, which ends
the claim. What a job or a removal takes from the list needs only that `InOrder` gives
rows of the list (`RowNumbers`: no more of them than there are); that the text a
result leaves is one of its own, that a row's updates have a last one (`LastUpdate`,
from the library's theorem about well-founded orders).

*Transport.* That a call gets its own answer is compared nowhere in the code: it
follows from what is under way. The invariant says where the pieces of the call in
progress can be, in the caller, in either pipe or in the agent's thread (`Sending`
and its counterparts), that a connection that has not failed carries nothing else,
and that a failed one delivers nothing again (`FailedIsDead`). From it each step is
one of `Exchange` (a request is issued, executed, answered, fails) or a stutter (a
piece moves, a cut, a thread that ends).
`NobodyWaits` needs the end of the call besides: on a connection that is not broken
the last piece of the packet in progress is in one of five places, with the caller, in
either pipe, in the handler or in the answer to be written (`EndUnderWay`), a thread
has not left it (`AgentServes`), and the client has it open (`OpenHere`). So a caller
that waits for room finds a reader, and one that waits for an answer a writer.

*Scanner.* A first and a next scan are alike: work is numbered, by chunks or by
entries. A number is `Pending` for the one worker that claimed it and has not dealt
with it, and `Done` once it is handed out and pending for nobody; `Spots` are the
positions a number stands for. The inductive invariant says that portions are
handed to one worker each and nobody leaves before all of them are (`Handed`), that
what was found was found in work that is done, each position once (`FoundOK`), that
the count is the number of matches until it overflows (`Counts`), and, for a strict
scan or one that read everything, that the work done has all its matches and no
others among the positions nobody wrote (`Exact`). At the end all work is done, and
since chunks do not overlap and cover every position (`ChunksApart`, `ChunksCover`)
the list is as promised. `LeftOut` shows that the vector code misses the last value
of a chunk and nothing else. `ScannerAssumption` asks what the code has: regions
apart, as `/proc/pid/maps` gives them, a chunk of whole values, at least one
worker, vector code only for values of several bytes.

*Pointer searches.* A reference of each program is the set of all chains, over ways of
words, and knows nothing of layers, seams or batches. A search goes layer by layer:
`ItemsBack` (and `InItemsTo` for the Qt client) say that the chains of one word more are
those with a word in front of a chain of the layer before, which replaces the
induction over the depth; `ItemsFinite`, that there are finitely many. Lists are
dealt with through the set of what is in them and their being without repetition
(`PlacesOf`, `PickedOf`, `TakenOf`). Each program has an invariant of its own that says
at every step which part of the result is there:

* `ScanInv` (Qt). While the agent builds, the words read are those that start before
  the cursor on the grid the request asks for, the index has an entry for each that
  is not zero, or is full; a chunk adds the words between two cursors, its overlap
  makes the next one begin where a word can no longer end (`ReadOnce`, `ReachedMore`).
  Then the pages fetched are a prefix of the index, the chains found are those of the
  layers done, and `next` has the extensions of the chains whose turn is over, unless
  a limit was met.
* `LInv` (ImGui). The pool's counters say who is under way, and the tasks and nodes
  handed out are of one worker each until harvested; nothing of a level is missing
  from what the workers hold, and a level ends only when `pending` is back at zero
  (`LPool`, `LQueue`), so none starts before the last has ended. An index kept from
  before is whole for the cells and the process it is of, or says so (`LCache`).
* `CInv`. A candidate has not been taken, is in the batch of one thread, or is done;
  those found are those that lead to a target among the ones done (`CFound`), also
  when the size of a batch changes under another thread.
* `FInv` (Win32). `verified` is what leads to the target among the chains checked, as
  long as no word changed; a file holds what it was to hold, or a part of it and the
  count 0.

`ScanAssumption` asks that the regions are apart and in order, as `/proc/pid/maps`
gives them, and a chunk of more than one word, of whole words; `LevelsAssumption`
that there is a worker and the selections are of readable cells; `CompareAssumption` that
the client itself is one of the threads and a merged file has a chain once.

Only model-checked:

* Liveness (`CallsReturn` twice, `ApplyEnds`, `RefreshEnds`, `HitsReported`, `ThreadsEnd`,
  `ScanEnds`): fairness and ENABLED are beyond the prover.
* That `ClearedRestores` fails: a counterexample.

## 5. Known differences

`ptrace_clear_all` is a run that TLC ends with a counterexample: ClearAll restores
instructions through a tracee that runs, so the request fails, is ignored, and
success is reported with the BRK still in place (`main.cpp:1631`).

The others were met while modelling and have no run; the models follow the code,
and a property that one of them would break excludes it by name.

*Breakpoints and debugger (`android_agent/main.cpp`).* The count last reported is
kept by address across Clear and Set, so the next report is an unsigned
difference that may be negative (1140). A pump takes stops of threads that are
nobody's and lists them as its own (1462). Reading a watched value detaches the
debugger's tracee. At the end of a connection the debugger lets go before the
breakpoints are restored, so the restoring may meet a running process
(4043-4059). A stop that was asked for and comes after its wait has ended stops the
process then, and nobody resumes it: after a register read or an attach that timed out
(4470-4482, 4678-4690), also a SIGSTOP sent in a second wait that the stop of
PTRACE_INTERRUPT ended with success (306-321). `RegsTransparent` excludes these reads
(`LeavesPending`), and reads of a process that is traced without being the
breakpoints' (an attach that failed left it), or that a perf watch took from them: the
manager's `IsAttached` stands for a trace that may not be there, and reading such a
process stops it with a SIGSTOP that PTRACE_CONT cannot end.
DEBUG_DETACH of a process that breakpoints hold only clears flags (3730), while
the window says it goes on (`MemoryViewWindow.cpp:805`). DEBUG_ATTACH to such a process
forgets the SIGSTOP recorded for the one before (3656). `RecordedStopsEnd` excludes
these two, and nothing else. A step over that times
out leaves its BRK in the program (4920). A poll of perf breakpoints starts at the front
of the list and ends after `max_events` reports (592, 675), so while the first events are
hit between all polls, those behind the cut are never read; `HitsReported` therefore
binds an event only while nothing in front of it is hit again. The fallback of perf watches may report
a hit for a change nobody made through that breakpoint; with `inherit = 1` the
kernel refuses the ring buffer, so its hits are always 0.

*Scans.* The arm64 vector code takes a number of start positions for a number of
bytes and misses the last value of every chunk (`MemoryScanner.cpp:182`, 776). A
failed scan is answered with an 8-byte status, which `ClientService::ScanImpl`
(755-819) takes for a total of 4294967295 and no addresses; the window shows a
number of matches (`MainWindow.cpp:1532`) instead of its warning (1437). A strict
next scan for a pattern drops an entry it could only read in part
(`MemoryScanner.cpp:1066`); a relaxed scan may compare bytes of a worker's previous
chunk where a page was skipped (738).

*Memory chain and plugins.* A reconfiguration stops and unloads a plugin a worker
is executing (`MainWindow.cpp:650`; `PLUGIN_SDK.md:24` describes the lifecycle).
A successful fallback resets the failure streak, so a provider that always fails
is never fused (`ClientService.cpp:1277`; `PLUGIN_SDK.md:27`). `Deactivate` calls
`R3Plugin_Stop` of a plugin that failed to start (`PluginRuntime.cpp:223`); a fused
provider falls back although fallback is off (`ClientService.cpp:1227`); the self
check leaves fallback on (`MainWindow.cpp:956`).

*Address list (`MainWindow.cpp`).* The refresh writes what it read into the text
that is the frozen value (2286). A refresh of more than 128 active rows is
refused as a whole, since it collects up to 512 (2338, `ClientService.cpp:1306`).
Removing rows during a refresh makes its result land in other rows until the
next one (2283).

*Windows against the agent.* Building the pointer index of another process replaces
the reader of the connection (`main.cpp:3163`) while the client's `attached_pid_`
stays, so later writes, which name no process, go to the other one; a build that
fails keeps the old index. Attaching does not clear the scan rows nor tell the
open pointer and memory windows; undo clears only the table. A reconnect keeps
the attached pid in the window; the breakpoint panel then lists breakpoints the
agent has lost, and adding one of them again sends nothing
(`MemoryViewWindow.cpp:1747`). `connected_` stays true after the link broke.

*Scan tabs of the Win32 client (`CeLayoutWindow.cpp`).* A page turn keeps, for undo,
the rows of the old page with the number of the new one, since the number moves
before `ApplyScanResult` (5722) stores it; when the agent does not answer it stays
moved (5921, 5947). A scan shows up to 1024 addresses while a page has 128, so the
next page repeats shown rows. A refused scan shows 4294967295 results, as in the
Qt client. The disconnect of the settings window leaves the rows (6775), that of
the main window the page number (5779). Attaching another process keeps the
address list, so frozen entries are written into the new process (5663), with the
last value read from the old one if no other was set. `EditAddressValue` (6093) holds
a reference into the list and a resolved address over a dialog that disables only
the main window; the memory view may add rows meanwhile, and the settings window
may attach another process.

*Pointer files.* The Win32 grid of offsets starts at minus the largest offset, so
one that is no multiple of the pointer size misses the aligned offsets
(`PointerToolsWindow.cpp:960`). The Qt client reads the last line of a text file that
was cut inside a number as a chain with another offset (`PointerToolsDialog.cpp:727`).

*Pointer searches.* The next layer counts duplicates against `max_results`
(`PointerToolsDialog.cpp:563`); an index built over holes has entries of words that
are not there (`main.cpp:3268`); a strict build rejects a chunk that came short but passes over
one of which nothing could be read (3251-3267, `SafeMemoryReader.cpp:534`), and reports
success, so that both clients may search an incomplete index as a complete one:
`ChainsExact` promises of such a scan only that its chains are there. In the ImGui client (`ClientUI.cpp`): the scan
writes the offsets of a chain with the one nearest the target first (8700-8715),
while compare and the agent (`main.cpp:719`) apply the first one at the base, as
the Win32 client writes them (`PointerToolsWindow.cpp:1000`), so longer chains
with different offsets fail the compare; `LevelsExact` states the scan's order,
and where a chain leads is an input of `PointerCompare`. A scan reads the modules
selected for it (7801-7840, 7922-7931), but an index kept from before is accepted by
process, size, step and strictness only (7984-7988, 8023-8038), though the workers made
it of the modules selected then (8177-8190), and the agent's is of every readable
region. So after another selection a scan misses chains of the modules selected now, or
writes chains of others. `LevelsExact` is therefore about the cells searched
(`Searched`), which are those selected only without an index or with one made of the same
modules. An index of which a page
failed to come stays under the pid and flags of before (8827), and this scan and
later ones accept it; a strict local build that fails leaves a relaxed index in
use. A worker whose connection breaks in a relaxed scan drains the queue, and
the result is reported as complete. Opening a process sets the pid even when
the agent refuses (4745), and workers ignore that answer too: in a compare (9633) the
thread's batches match nothing, and their chains are dropped as if they did not lead
to a target. The cache of
chains of the client's own thread (9425) survives compares, so chains asked
word by word may be answered from before.

## 6. What is not modelled

Instruction encodings and register values (the non-arm64 agent has no
breakpoints); payload formats, texts and logging; the run-length codec; the
out-of-process test double of the plugin runtime; scans for patterns and for any
type, region filters, result pages beyond the first; disassembly and the stepping
buttons of the memory view; index files, byte steps and benchmark caches of the
ImGui client's pointer tools, and its other windows, which have their counterpart in
the Qt client; the address list, memory view, structure view and settings of the
Win32 client, the first two counterparts of the Qt client's; dialogs, process,
module and icon listings, which only read; scripts and vendored code. Target
processes are modelled as far as ptrace, perf events and memory show them. A peer
that vanishes in silence is not modelled: neither side has a timeout for it. The
index modules take the words of a process as fixed during a search (`PointerLevels`,
`PointerCompare`) or choose them once, when read (`PointerScan`); in `PointerFiles` the
target goes on writing.

## 7. Plan

Done, in this order: breakpoints, plugin host, memory chain, address list, the
scanner with its abstract specification; debugger session, perf breakpoints, the
transport with its abstract specification, the windows' session state, the four
pointer searches, the Win32 client's scan tabs and pointer files; proofs of every safety
invariant, action property and refinement the runs check.

Left: scans for patterns and values of any type, the ImGui and Win32 clients' own
address lists, the Qt client's result pages; the codec as functions, decode after encode.

## 8. How to run

    tlc -config ptrace_threads.cfg MCPtraceBreakpoints.tla
    tlapm PtraceBreakpoints_proofs.tla

`PROJECT.json` has, for every run, its module, configuration and properties; for
every definition that models code, the lines it models; and for every property,
a change of the model (a definition marked "Mutant") that breaks it.
