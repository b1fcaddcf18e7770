# MCPSim in TLA+

MCPSim simulates a host processor and memory-centric processing units (MCP): near-memory cores (NMP, one per vault of
a Hybrid Memory Cube) and near-LLC cores (NLP). It replays a trace of instructions, decides line by line which side
performs a line, and sends the lines' loads and stores through caches to a model of the cube. These modules describe
that program, `src/src/`, as state machines. TLC checks them on small instances; TLAPS proves the theorems.

Paths below are relative to `src/`; a line number without a path is one of `src/Processor.cpp`.

## 1. The system

| Component | State | Operations | Who it talks to |
|---|---|---|---|
| Offload protocol: `Core`, `Processor` (`Processor.cpp`) | per core: the line it holds, `more_reqs`, `lock_core`, `inst_queue`, `inFlightMemoryAccess`; per host core: window, `inside_region`, `offload_region_ids`, `pending_inst_bypass`, `wait_for_nmp_finish`, `enable_proc_switching`, decision overhead | a tick of a host core (`tick_outOrder`), of an MCP core (`tick_inOrder`), an answer of the memory (`receive`) | host cores push lines into the MCP cores' queues, start them, lock one another, and ask whether the other side has finished |
| Instruction window: `Window` | ring of `depth` slots with two marks each; `load`, `head`, `tail` | `insert`, `retire`, `set_ready` | its core; answers from the caches |
| Caches: `Cache`, `CacheSystem` | sets of lines (tag, lock, dirty) in LRU order, MSHRs, retry lists, wait and hit lists | `send`, `evict`, `invalidate`, `evictline`, `callback`, `tick`, `CacheSystem::tick`, the flush of `can_context_switch` | cores above, next level below, memory; upward calls into the levels above |
| Host controller: `Memory<HMC>` (`HMC_Memory.h`) | tag pool of each link, request counter, page table | `send`, `receive_packets`, `restore_hmc_tags`, `page_allocator` | cores and caches above; links, and directly the vaults for near requests |
| Links, switch: `LogicLayer` | input and output buffer of each link | `Switch::tick`, `LinkMaster::send` | host controller, vaults |
| Vault controller: `Controller<HMC>` | read, write, refresh queues; pending reads; recorded packets; responses; mode | `receive`, `enqueue`, `tick` | switch, DRAM; near cores by callback |
| Scheduler, row policy, DRAM, refresh | open rows, bank states, next-possible times of commands | choice of a command, `check`, `update` | vault controller |
| Main loop (`Main.cpp`) | next tick times of three clocks, warm-up flag | ticks in a fixed order | all |
| Configuration, statistics, trace extractor, other memories | options; counters; none | reading, counting, writing a trace | - |

The program is one thread: a tick runs to its end. What makes it hard is not preemption but protocol: many ticks of
many objects share flags and queues, an operation refused by a full queue or a full buffer is tried again later, when
the state it was decided on has changed, and answers come back in another order than requests went out.

| Component | Hard behaviours | What makes it correct |
|---|---|---|
| Offload protocol | the two sides alternate by flags set in five functions; queues at their limit; retries; nested and adjacent regions; the end of the file; other threads | every line is performed once, on the right side, in trace order; a side runs only when the other is done; the simulation ends |
| Window | the ring wraps; one answer serves several entries | an in-order queue; no entry waits for an answer that was used up |
| Caches | inclusive levels, lines locked while in flight, merged misses, retries, invalidation upwards | inclusion; an MSHR for each locked line; each request answered to its core |
| Host controller, links, vaults | tags lost on refusals; near requests that bypass links and limits; reads forwarded from queued writes; pools refilled under way | each request is answered once; no read overtakes a write to its address; a link never stays without a tag; buffers bounded |
| Scheduler, DRAM, refresh | timing between commands, refresh against open rows | no command violates the state or the timing of its bank; refresh is not postponed for ever |
| Main loop | three clocks, restart after the warm-up | no tick is lost; the run ends when all work is done |

## 2. The modules

| Module | Models | State and actions |
|---|---|---|
| `Offload` | the offload protocol | The variables are the members named above. A host tick is unfolded: `ctl` says which host core is in its tick and where, and nothing but that core moves until `ctl = Idle`. `Tick...` retire and pass the gate of 930-951; `Wait` is 975-981; `Execute`, `SkipExecution`, `FetchRefused` are 984-1034; `ReadOwn`, `ReadOther`, `ReadQueue` are `get_next_instruction`; `HostOnly`, `NmpOnly...`, `OffloadLine`, `LeaveRegion`, `ReadTag`, `Scan...` the four strategies; `Bypass...` is `instruction_bypass`; `Finish` the end of the tick. `McpBegin`, `McpStall`, `McpComplete` are `tick_inOrder`; `Receive...` is `Core::receive`. |
| `MCOffload` | traces for it | plain, nested, adjacent, repeated regions, one the trace ends in, a second thread |
| `OffloadProofs`, `OffloadOnceProofs`, `OffloadLineProofs` | proofs about `Offload`, each on top of the one before | |
| `InOrderQueue` | what a window promises | a queue of entries, at most `Ipc` ready ones leave at a time, an answer makes all entries of its block ready |
| `Window` | `struct Window` | `InsertBubble`, `InsertLoad`, `retire`, `set_ready` |
| `WindowProofs` | proofs about `Window` | |
| `HmcHost` | host controller, links, switch, vault queues | `SendUntagged`, `SendRefused`, `SendFar`, `SendNear` are the outcomes of `Memory::send`; `SwitchIn` and `SwitchOut` the halves of `Switch::tick`, for one link and one vault; `LinkSend` a packet over the link with `receive_packets`; `VaultTicks` one `Controller::tick`; `RestoreTags` |
| `HmcHostProofs` | proofs about `HmcHost` | |
| `MCHmcHost` | traffic for it | the host alone and both sides, in batches; near reads that drain the pool |
| `CacheHierarchy` | `Cache`, `CacheSystem`, `Processor::receive` | `CoreTick` begins a core's tick; the loops of `Cache::tick` over the retry lists follow, unfolded: `Resend` is one round, `EndLoop` the end of one, and nothing else moves before the last has ended (`Runs`); `Execute` is one `send` from a core through all levels (`Send`, with the recursion over the three levels written out, `Allocate`, `Evict`); `CacheSystemTick` is `CacheSystem::tick` with the hits that call back (`Callback`); `Answer` an answer of the memory; `TryContextSwitch` a call of `can_context_switch` with its flush |
| `MCCacheHierarchy` | three hierarchies for it | private blocks; the code's latencies; one block shared with an NLP core |
| `CacheProofs` | proofs about `CacheHierarchy` | |
| `VaultController` | `Controller<HMC>` with scheduler, row table, DRAM and refresh, cycle by cycle | `Receive` is `receive` and `enqueue` of a near request; a tick is one of `TickRefresh`, `TickIdle`, `TickRow` (ACT or PRE), `TickRead`, `TickWrite`; each begins with `Clock`, the steps 1 to 3 of `Controller::tick` |
| `MCVaultController` | timing and traffic for it | two banks, two rows, times scaled down in their order |
| `VaultProofs`, `VaultRefinementProofs` | proofs about `VaultController`, the second, of the refinement, on top of the first | |

`Offload` takes the answers of `Window`'s entries in order of the window (a window counts its entries and its prefix of
ready ones); `Window` shows that this is all a window does. `CacheHierarchy` is what stands between a core and its
memory, `HmcHost` the memory; each leaves the other side open (cores send what they like, the memory answers reads in
any order). `VaultController` is composed with `HmcHost` by a refinement: `Host == INSTANCE HmcHost WITH ...` maps its
queues to those of one vault, and `ImplementsVault` says that the controller with its DRAM takes no step that
`HmcHost`'s `VaultTick` and `SendNear` do not allow.

**Abstractions.** Offload: an instruction is its place in the trace and has a region, a thread, a vault and a number of
window entries; whether the LLC holds a dirty line of its operands is a free choice at every look. The model is of one
process, `debug_context_swithing` off, out-of-order host cores, and MCP cores no faster than the host (`McpTicks = 1`;
`Configs/` has 500 MHz against 4000). A window entry is counted, not named. MCP-Only is started without a warm-up, as
`Configs/co-sim.cfg:56` demands. HmcHost: time is left out, so a link sends and a read departs when it does; DRAM
commands are left out, so any request of the queue in turn may complete (that this is all the DRAM does to it is
`ImplementsVault`); tokens are left out, since in host source mode
no packet waits for them; a transfer of several bursts is one completion. The address of a request is a byte address, as the code
passes it on (`HMC_Memory.h:607` clears the low bits of a local copy only); its `Block` selects vault and link. `Batches` are
the sets of requests that one behaviour may have to send, so that a run has small mixes of a common traffic; the history
variable `batch` keeps the one chosen.

CacheHierarchy: the blocks fall into one set of each cache, where lines compete; an address is a block. A core's window is
its number of unready reads; an in-order core waits for instruction fetches only. The dirty bit that `invalidate` reads
from the line it has just erased (`Cache.cpp:258`) keeps its value, as the allocator leaves that part of the freed node
alone. A block counts as written back (`WrittenBack`, which only the history variable `unwritten` reads) when its write-back
is queued, unless a first level holds a newer write of it in a line that `invalidate` did not come to.
`TryContextSwitch` needs `NlpCores = {}`: the flush is reached with `debug_context_swithing` on and without the
NLP side. An NLP processor's tick ticks the host's cache system again, which `Turns` shows. VaultController: times are
counted down, so no clock grows; one vault with one bank group; near requests only, which enter without the switch;
power-down and auto-precharge commands are left out since no request leads to them, nFAW since two banks reach four ACTs
no sooner than two nRC (`TimingAssumption`).

## 3. What is checked

| Run | Question | Bounds |
|---|---|---|
| `offload_cosim` | Co-Simulation with one host thread: is every line performed once (`PerformedOnce`), none lost (`NothingLost`), by the right side and in order (`SidesKeepTraceOrder`), no tag performed but the one case below (`TagsNotPerformed`), do the sides take turns (`HostWaitsForMcp`, `McpRunsAfterDrain`), does the region flag agree with the regions (`RegionFlagAgrees`), does the run complete (`EventuallyCompleted`)? | 10 scenarios of up to 11 lines, 2 regions, 2 NMP cores with queues of 1 line: a queue fills inside each region and at the border of two, so every retry happens. `Overhead = 0` as in `Configs/` (`overhead_cycle`): see violation 2 |
| `offload_modes` | All modes, two host threads, two NLP cores, instruction fetching, warm-up, limit: lines kept but for the first of MCP-Only (`KeptButFirst`) and performed once but for the last of MCP-Only and of traces that end in an offloaded region (`OnceButLast`), queues bounded (`QueuesBounded`), each core in trace order (`CoresKeepTraceOrder`) | 25 scenarios, queues of 2 lines, an overhead of 1 cycle |
| `offload_alloffload` | violation: in All-Offload the host does not wait for the MCP side (1197) | one trace |
| `offload_retarget` | violation: a refused bypass is retried to another, idle core, and the host goes on without waiting for it (968) | one trace, an NLP core |
| `offload_threads` | violation: a participating core that a region locked unlocks itself (916) | one trace, two threads |
| `window` | Is the ring an in-order queue (`ImplementsQueue`), is no entry forgotten (`NoEntryForgotten`), does a full window drain (`FullWindowDrains`)? | 4 slots, 2 a tick, 2 blocks, at most 2 answers under way for each (`MaxAnswers`): every wrap of the ring, merged and separate misses |
| `hmc_mixed` | Both sides and the host alone, with a refill of the pool under way: answers match and come at most once (`ResponseMatched`, `AnsweredOnce`), a link has a tag free or on its way back until a near read has gone over it (`SuppliedBeforeNearReads`), tags are distinct until the refill (`TagsDistinct`), buffers and the queues of the host's requests are bounded (`BuffersBounded`), no read overtakes a write of its side to its byte address (`ReadsSeeWrites`), the host alone is always answered (`AllAnswered`) and so is the near side (`NearAnswered`) | 5 batches of 3 or 4 out of 7 requests, 2 vaults, 2 tags, buffers of 2 packets, queues of 2, `MaxRestores = 1`. The host alone sends more reads than there are tags or places in a queue, to the address of a write, to another offset of its block and to another block of its vault; in the other batches near reads and writes overtake the host's on the link, enter full queues and keep tags over the refill (201,597 states) |
| `hmc_drained` | violation: near reads keep their tags until none is left | 4 requests, 2 tags |
| `cache_private` | Two host cores on blocks of their own: no assertion fails (`NeverAborts`), exactly locked lines have MSHRs (`MshrTracksLocks`), inclusion (`Inclusive`), no write is forgotten, flushes refused by the memory included (`DirtyIsKept`), every read is answered (`EveryReadAnswered`) | 3 blocks for an LLC of 2 ways and 1 MSHR: evictions at each level, refusals, retries and merges all occur; an L1 hit takes one cycle, see `cache_late` (45,608 states) |
| `cache_late` | violation: the late callback of a hit releases a miss that is still to be sent again (`Cache.cpp:515`) | 2 host cores with 2 blocks each, the latencies of `Cache.h:53`, an LLC of 2 ways and 1 MSHR |
| `cache_shared` | violation: a miss merged into another core's is not answered | 2 host cores, 1 NLP core, 1 block |
| `vault` | Does a vault keep its row table and counter right (`AssertionsHold`), complete each burst (`BurstsComplete`), keep the DRAM's timing (`TimingKept`), do refreshes in time (`RefreshKeepsUp`), serve everybody (`EveryRequestServed`), and do what `HmcHost` says (`ImplementsVault`)? | 4 requests to 3 rows of 2 banks, bursts of 2, queues of 3 (write mode at 2, which the two writes reach, back at 0), arriving in every order and at every time between refreshes (205,789 states) |

Longer traces repeat what these do: a region's behaviour depends on the queue being empty, filling or full, on the tags
that come before and after, and on whether it was visited before; the traces have each. `Depth` (reads of a window),
`MaxWait` (entries of `wait_list`) and `AtMemoryMax` (reads of a core and block at the memory) bound what a core may start
in `CacheHierarchy`, not what the caches do with it. In `cache_private` an L1 hit takes one cycle, in which no line can be
fetched anew: the code's four cycles are the subject of `cache_late`, whose violation would otherwise hide what else may go
wrong. Deadlock is checked in every run: a simulation that has nothing left to do still ticks.

**Fairness.** Offload: the main loop ticks every core for ever in one thread, so a started tick is continued (weak), a
core's tick comes round again (strong, since other ticks disable it while they run), and the memory answers and does not
refuse for ever (strong, on completing and on making progress with the held line). Window: the core retires every tick
and the memory answers. HmcHost: refused senders try again each tick, the links, the switch and the vaults are ticked
for ever (weak), and a vault whose queue has its turn again and again completes a request of it (strong: the DRAM
below is not modelled there; `EveryRequestServed` shows of `VaultController` that it does). CacheHierarchy: the main loop's
turns go round and a retry loop that has begun goes on (weak); the memory takes what is due and answers each read in the end (strong, since both have to wait for
their turn). VaultController: the controller is ticked for ever (weak on `Clock`, whatever requests arrive).

**What the violations show.**
1. *All-Offload* (1195-1200): the wait for the MCP side depends on `inside_region`, which the same scan cleared when it
   read the closing tag; `compiler_assist_offload` (1280) sets the wait unconditionally.
2. *Retargeted bypass* (968): the retry of a refused bypass looks for dirty lines anew, after the tick's calls of
   `get_first_instruction`. If the answer has changed, the line goes to the other side, into the queue of a core that may be
   idle. When the next line leaves the region the host waits for `can_context_switch`, which asks `more_reqs` but not the
   queues, and performs lines while this one lies in its queue until some later region wakes the core. It happens without NLP cores as
   well when `overhead_cycle` is not 0 (trace `SameVault` with `Overhead = 1`): two regions on one vault follow each other
   directly, the first line of the second is refused, and while the host pays for opening that region the core runs dry.
   The retry finds it idle. If no region follows, the line is never performed.
3. *Threads* (916): `lock_core` is overwritten on the next read.
4. *Tags of the cube* (`HMC_Memory.h:551`, `HMC_Controller.h:735`): a near read's tag is never returned.
5. *Merged misses* (253, 275): an answer goes to the core of the request that missed. A second core whose miss the shared
   LLC merged into the same MSHR (`Cache.cpp:143`) is not told and its window entry waits for ever. It is worse with the
   NLP side, whose `receive` calls back an LLC object of its own that no core uses: the host's LLC keeps the line locked.
6. *Late hits* (`Cache.cpp:515`): a hit calls back 4 cycles after it found its line in the L1 (16 in the L2). Meanwhile the
   LLC may evict the block for another core's miss, which invalidates it above, and the same core may miss it again. If
   the LLC has no MSHR free the miss waits in the L2's `retry_list`; the callback of the old hit unlocks the new line in L1 and
   L2 and releases its MSHRs. The L2 then evicts a line that the LLC never got: `evictline` fails at line 204.

Two more that a property states as an exception. MCP-Only starts the master locked (858), and a locked core drops the
line it holds (1036): line 1 is performed by nobody (`KeptButFirst`). At the end of the file 1039 calls the strategy
although no line was read; in MCP-Only, and when the trace ends within an offloaded region, it bypasses the last line once
more (`OnceButLast`).

Milder: the scan of `compiler_assist_offload` takes the closing tag of a region that is not offloaded for an
instruction when it directly follows another tag (1248); `TagsNotPerformed` says exactly when. A trace that begins with a tag
has it performed too, since the constructor reads the first line and the first tick executes it: the region is not opened.
The traces here begin with an instruction.

That refused sends lose their tags too (`HMC_Memory.h:714`) turned out to be harmless: a send is refused for want of
room only when the link's input buffer holds packets, and each of those brings back a tag. `SuppliedBeforeNearReads` and
`AllAnswered` say so.

## 4. What is proved

`WindowProofs`, for every depth, width and set of blocks:

* `WindowTypeOK`: the ring is well formed, in particular `head = (tail + load) % depth`, from which the assertions of
  `insert` and `retire` follow.
* `WindowForgetsNone`: an entry that is not ready has an answer to come. `NoEntryForgotten` is inductive together with
  the type invariant, given that slots of different entries differ (`SlotInjective`).
* `WindowImplementsQueue`: every step of the ring is a step of `InOrderQueue` or none. The lemmas `InsertAppends`,
  `AnswerMarks` and `RetireTakes` map each action.

The assumptions are those of the module (positive depth and width, `NoBlock` not a block).

`HmcHostProofs`, for every number of links, vaults and tags, every size of the buffers and every finite traffic:

* `HmcTypeOK`: the type invariant, one lemma per action, traffic of both sides included.
* `HmcSuppliedBeforeNearReads`: until a near read has gone to a vault, its link always has a free tag or one on its way back,
  although `SendRefused` loses a tag at each call and near writes may go with a tag or without one. The property alone is not
  inductive; `RouteInv` adds that a packet stays on the link its address selects, that the host's packets have a tag, and that
  reads and writes wait apart in a vault, and `OnceInv` (below) that what is under way was sent. The step that matters is
  `RefusedBehindAnother`: since `buffer_max` exceeds the largest packet, a send is refused for room only behind a packet of the
  same link. `NearSentGrows` says that the condition, once false, stays so. `HostLinksNotStarved` is the consequence for traffic of the
  host alone (`HostOnly`), where `HostNotStarved` holds; run `hmc_drained` is the counterexample without it.

It also proves the other safety invariants of `hmc_mixed`, all for traffic of both sides and refills of the pools:

* `HmcAnsweredOnce`. `AnsweredOnce` counts places, which no step can be reasoned about directly; `OnceInv` says instead, of one function `Placement` from the queues (slots) to the packets in
  them, that two packets of one request or one number are the same packet in the same slot, that a request placed is neither
  unsent nor answered, and that no sequence holds a packet twice. Each action then does one of three things: it places a
  new packet (`PlaceNew`), moves one from slot to slot (`PlaceMove`) or takes one out (`PlaceLeave`).
* `HmcResponseMatched`: what a vault has recorded under a number is the packet that waits under it. The number of a packet
  that is recorded is no waiting packet's (`OneNumber`, from `OnceInv`).
* `HmcTagsDistinct`: until the first refill. A refill hands out again what is under way, and near reads then keep it for
  good. Near requests may have no tag, so the packets compared are those that have one (`TagsOut`), and what a near read
  leaves behind is still no free tag (`LinkSendLeaves`); a pool never repeats a tag (`Unrepeated`).
* `HmcReadsSeeWrites`: of two requests of the same side to one byte address. `OrderInv` adds that the buffers of a link hold
  their packets in the order of sending, so that what is still on it is younger than every host read that has arrived. A
  read at another offset of the block of a queued write is not forwarded (680 compares whole addresses) and may overtake it;
  the simulator moves no data, so this changes latencies only.
* `HmcBuffersBounded`: near requests are not subject to the limit of a queue, so the queues bounded are those that none has
  gone to (`HostsOwn`). `BoundInv` adds that queues are finite, and `Owned` which requests lie in them.

The assumptions are `SizeAssumption` and `TrafficAssumption` of `HmcHost`, and `HostOnly` for
`HostLinksNotStarved`. All safety invariants that passing runs check of `HmcHost` and `Window` are thereby proved.

`OffloadProofs`, for every number of cores, size of the queues, set of traces, mode and number of threads:

* `OffloadTypeOK`: one lemma per action. What is not immediate is that a core always holds a line of the trace, which needs
  the same of everything that is queued, and that a tick which reads a line returns to the strategy that asked for it.
* `OffloadQueuesBounded`: a step either shortens an MCP queue or leaves it (`GetFirstShorter`, `PopShorter`), or is a bypass,
  which has just found the queue it pushes to not full (`BypassBound`), also when it is a retry.
* `OffloadRegionFlagAgrees`: only `ReadTag` changes the flag or the set, and it changes both.
* `OffloadHostsKeepOrder`, an action property: no host core goes back in the trace. The places a core has, in hand and queued,
  rise up to the line read last (`HostsRise(0)`, which the lemmas about `Rising` keep at both ends of a queue), and what the
  master hands over is behind them, whether the core queues it or, being idle, takes its oldest line at once.

And, with any number of threads as well, for a simulation in Host-Only:

* `OffloadThreadsOnce`, `OffloadThreadsLoseNothing`, `OffloadThreadsKeepOrder`. `HostOnlyInv` says that nothing is bypassed, that
  a core with a line is not locked (a locked one reads on without performing it), and that a core which loses its line in a
  tick has no other queued. `ThreadsInv` says that every line a core has is its own (`Owner`; the master takes the first line
  of the file whatever its thread), that its places rise strictly (`HostsRise(1)`), and that what waits was not begun; it has
  one exception, a master that reads the last line for ever because that is another thread's (894), where nothing moves any
  more (`ForEverStays`). `ThreadsKept` says that a core that reads on has begun its line or skips a tag. The modes that
  offload have no such theorem: there a locked core reads on and one that was unlocked performs what it had bypassed
  (violation 3), so that with a second thread lines are lost and performed twice.

`OffloadOnceProofs` and `OffloadLineProofs` take traces of one host thread (`OneThread`): with a second one, a thread's core
pushes and takes lines at the same time as the master, and a locked one unlocks itself (violation 3). `OneThreadInductive`
proves an invariant of four parts, on which both modules rest:

* `ControlInv` says where the master is in its tick: it alone is in a tick, it holds the line read last, it has a line at
  every point but at the end of the file, and a bypass to be retried is pending only between its refusal and its retry.
* `RegionInv`: it is inside regions that the trace opens for offloading only, and only in the modes that offload.
* `OnceInv` looks at the places where a line may wait on the MCP side: in hand and not begun, or a position of a queue. No
  two places hold the same line, a line that waits was not begun, and the line of the master waits nowhere while it has yet
  to be handled (`NeedsNew`). Every step moves lines forward between places (`MovedBy`), adds one place (a bypass) or takes
  one away (a line is begun).
* the type invariant.

From these follow:

* `OffloadOnceButLast`: in every mode no line but the last is begun twice, and the last only in MCP-Only or when the trace
  ends in an offloaded region. `OffloadPerformedOnce` excludes both by assumption (`EndsOutside`) and so covers all lines.
* `OffloadKeptButFirst`, `OffloadNothingLost` (the latter with `NoMcpOnly`): `KeptInv` says that each line read was begun,
  waits on the MCP side or is the one in the master's hands, and, so that this survives reading on, that whenever the master
  is done with its line (`Handled`) the line is not only in its hands. Once the limit has stopped the master (`Live` is false)
  nothing is claimed.
* `OffloadKeepsTraceOrder`, an action property: the queue of each MCP core is sorted and lies between the line the core holds
  and the line the master read last (`OrderInv`); a step leaves such a queue, takes its head or appends the line read last.

The second part of `OffloadLineProofs` proves that host and MCP side take turns in Co-Simulation (`OffloadHostWaits`, `OffloadRunsAfterDrain`):
when the host may perform a line the MCP side has none, in hand or queued, and an MCP core has one only while the host's
window is empty. Which side has its turn is `enable_proc_switching`: `SideInv` says that without it no MCP core has a line in
hand, and with it the host's window is empty. The difficulty is the queues, which no flag covers. `RestTurn` and `TickTurn` say
that, unless the host is locked inside a region and will dispatch again, no MCP core is idle with lines queued (`AllWoken`);
`PendingTurn` that the target of a refused bypass is never idle when the line is retried: at the refusal its queue was full, and
between two ticks of the host it completes one line at most. The assumption `CoSimAlone` is what this needs:

* no NLP cores, or the retry may turn to another target (violation 2);
* `Overhead = 0`, or the target may run dry while the host pays (violation 2, second case);
* Co-Simulation, for All-Offload does not wait (violation 1), and MCP-Only has no host turn;
* `McpTicks = 1`, or a faster MCP core empties a short queue between two ticks of the host;
* `OneThread`, for a second thread's core unlocks itself (violation 3).

The third part proves `OffloadTagsNotPerformed`, in every mode. `OpenInv` says that `region_ids` is the set of offloaded regions
that the lines dealt with so far have opened and not closed (`OpenAt`), so that a tag that closes an offloaded region always
finds it open and is skipped. `TagInv` says where the master can stand with a tag in hand: only behind another tag, where the
scan takes the end of a region that was not offloaded for an instruction; and that only instructions are bypassed. The trace
is assumed to start with an instruction (the host executes its first line whatever it is) and to close only regions it opened,
and no warm-up, during which tags are skipped, to precede an offloading mode (`TagsPaired`).

The fourth part proves `OffloadSidesKeepOrder`, an action property: under `CoSimAlone` the MCP side begins the lines of offloaded
regions, the host all others, and each after every earlier line of the other side. `SidesInv` says that the master is locked
just when its line is one for the MCP side, that only such lines wait there, and that the host has begun each of its own
before the line it holds: this orders the MCP side after the host. The reverse is the turns again: every earlier line was begun or
waits (`KeptInv`), and when the host executes nothing waits (`TurnInv`, lemma `NoneWaits`). It is further assumed that an instruction
which names a region lies between the tags of it (`LinesMarked`). The tracer writes such traces for regions that nest without
one being entered again inside itself: it keeps a stack of regions, and an instruction names the top one
(`src/Trace_Extractor/MCPSimTracer.cpp:73`, 92, 112). The scenarios of `offload_cosim` satisfy both assumptions about traces.

The assumptions of all these are `NumAssumption` and `ScenarioAssumption` of `Offload` and those named. The scenarios of
`offload_cosim` satisfy all of them.

`VaultProofs`, for every finite traffic of near requests, every burst length and queue size, and every timing table that
meets the assumptions of `VaultController`:

* `VaultTypeOK`: `DramTypeOK` and `QueueTypeOK`. No time to wait exceeds the longest gap (`Oldest`), and `burst_count` stays
  between zero and its start.
* `VaultBurstsComplete`: `QueueInv` says where a request is. It is in one place: a queue, pending, called back, or in the
  responses; the queues hold no request twice (`PlaceInv`); a pending read is a forwarded one exactly if no command was
  issued for it (`BegunInv`). `ErasedTakes` is what `q.erase` does to a queue without repetitions.
* `VaultAssertionsHold`: `table = row` is inductive by itself. That `cur_serving_requests` counts the requests begun and not
  done needs `QueueInv`: the tick at which a request is begun, is done or departs adds it to the set or takes it out once,
  and a read departing in the same tick as a command for another one is told apart from it (`ServingTick`).
* `VaultTimingKept`: the model, like the code, keeps no times of commands but counters until the next one is possible.
  `TimeInv` relates the two: for every bank, event and gap after it, either the event is as old as the gap, or the counter of
  the vault or of the bank covers the rest (`Covers`). Issuing a command puts its gap into the counters and never shortens
  one (`After`), time shortens both sides alike, and a command is issued when the counter is at zero (`TimingTick`). This
  holds whichever of the two levels has the gap in its table: `PREA` and `REF` are checked in the vault's only.
* `VaultRefreshKeepsUp`: once a refresh waits nothing else is scheduled, so the counters run down in `Oldest` cycles to the
  `PREA`, and in as many again to the `REF` (`RefreshInv`).

The assumptions are `TrafficAssumption`, `TimingAssumption` and `RefreshAssumption` (twice the longest gap and two cycles
are less than `nREFI`). The entries of `speed_table` (`src/HMC.h:214`) satisfy all of them, with an `nREFI` of 9750 and no
gap above 200; so do the times of `MCVaultController`. If the last one fails, a refresh may come due before the one before is done.

`VaultRefinementProofs` proves `VaultImplementsVault`: every step of `VaultController` is a step of the `HmcHost` of one vault
and one link, or leaves its variables. `Receive` is `SendNear` (`ReceiveSees`); the tick that completes no request, a read or a
write is a `VaultTick` with nothing served, the read or the write (`QuietTick`, `ReadTick`, `WriteTick`). Packets carry numbers,
which are places in the order of arrival: `NumberInv` (no request arrives twice) is what makes them differ, and makes an
arrival leave those of the others (`NumberStable`). The sets of `HmcHost` stand for sequences here, so that its count of writes,
which sets the mode, is a length (`ModesAgree`), for which `PlaceInv` is needed. What `HmcHostProofs` shows of
a vault's near requests thereby holds with the DRAM below it.

`CacheProofs`, for any cores, blocks (private or shared), sizes and latencies, NLP cores included:

* `CacheTypeOK`: sets never outgrow their ways nor hold a block twice, MSHRs never outgrow their entries. A request is
  followed through the levels by one notion, `Sound`, which a hit (`HitFacts`), a merge (`MergeFacts`), a miss that goes to
  the memory (`ToMemoryFacts`) and one that is handed down (`PassedFacts`) each have if the level below has it.
* `CacheKeepsWrites`: until an assertion of the code fails, a block that was written and not written back is dirty in some
  cache. `Keeps` says of two states of the caches that no block stops to be dirty but by a write-back queued between them;
  it is transitive (`KeepsOn`), so an eviction, the new line and what the levels below do compose. The block of the request
  is never the one evicted, which is what keeps a write that has just been accepted (the parameter `own`).
* `CacheLocksHaveMshrs`: a locked line has its MSHR in every cache; in a first level the MSHRs are exactly the locked lines.
  The code keeps in the MSHR an iterator to the line, so this is what makes a write that merges in a first level
  (`Cache.cpp:148`) reach a line that is still there.
The inductive invariant is `CacheInv`: `SetInv` for each cache (the sizes, lines of one block each, MSHRs of locked lines) and
that unwritten blocks are dirty somewhere. The assumptions are `CoreAssumption` and `SizeAssumption`.

`NeverAborts`, `MshrTracksLocks`, `Inclusive` and `DirtyIsKept` do not hold for all sizes: run `cache_late` has the late
callback of a hit release a miss that a lower level has refused and that is still in a `retry_list` (violation 6).
`RetriesWait` says that this does not happen: what is in a `retry_list` still has its MSHR. No run checks it; it is the
hypothesis of the following theorems. It is all that is needed. For the host's cores (`NlpCores = {}`; an NLP
processor calls back its own first levels alone) and any sizes and latencies, blocks private or shared:

* `CacheNeverAborts`, `CacheMshrTracksLocks`, `CacheInclusive`, `CacheDirtyIsKept`: `Spec /\ []RetriesWait` implies each.
  `LinkInv` is inductive as long as `RetriesWait` holds. It adds to `CacheInv` that an MSHR has a locked line (`Waiting`),
  that a line with data has one with data below (`Backed`), and that a miss which waits has come to the level below or is in
  the `retry_list` (`Asked`); a callback frees the block at all levels at once, so `Asked` turns into `Backed` just where the
  miss was not kept, which is where `RetriesWait` comes in (`CalledLinked`). While a request goes down, `Asked` is false of
  the levels it has passed: `Linked(s, E)` names them in `E`, and each level takes its own out again (`PassedLinked`). An
  eviction invalidates upwards all it finds (`GoneAbove`), so it leaves nothing above a hole (`EvictLinked`).
* `CacheNeverRetries`: with `Roomy` sizes no `retry_list` is ever used. `Roomy` asks that the L2 has the MSHRs and ways of
  the L1 above it, and the LLC those of all L1s together. `Processor.h` has 8 ways and 16 MSHRs in L1 and L2 (117 to 124),
  which is as it asks; the LLC has 32 ways (231), enough for four host cores, and 16 MSHRs for each trace file (233,
  `Processor.cpp:21`), enough where there are as many trace files as cores. The MSHRs of a level are blocks that wait in a
  first level above (`Nested`), and when a set has no victim its lines are lines above as well (`PinnedAbove`); both are
  thereby counted (`SetsFinite`, `RoomBelow`), and there is one more for the miss under way.
* `CacheRoomyIsSound`: for `Roomy` sizes `RetriesWait` holds, and so do the four invariants, with no condition on the
  behaviour, however late hits call back. The 16 cores on one trace file of `Configs/` are not `Roomy`: the LLC has 16
  MSHRs for the 256 of their L1s, retries are used, and `RetriesWait` may fail there. The four theorems above then say
  that nothing breaks the caches but a callback which releases a miss still to be sent again; `cache_late`, whose sizes are not
  `Roomy`, shows one that does.

Like the module, these theorems are about blocks that fall into one set of each cache. The inductive invariant of the last two
is `EasyInv`.

Only model-checked, because the prover cannot reach it: everything under fairness (`EventuallyCompleted`,
`FullWindowDrains`, `AllAnswered`, `NearAnswered`, `EveryReadAnswered`, `EveryRequestServed`). Not proved: what the runs with several
threads show in the modes that offload, but for what `OffloadProofs` has for every mode.

## 5. Plan

Done: `Offload`, `Window`, `HmcHost`, `CacheHierarchy`, `VaultController` and the proofs of section 4. What is left, in this
order:

1. `PageAllocator`: two pages never share a frame while one is free; the search finds the free frame.
2. An abstract memory that answers each request once, which `HmcHost` and `CacheHierarchy` implement, and an ordered
   executor that `Offload` implements.
3. `VaultController` with requests of both sides and several bank groups.

## 6. Not modelled

- Several processes in one trace, and in-order host cores. Of `debug_context_swithing` (off in `Configs/`) the flush is
  modelled in `CacheHierarchy`, the wait for it in `Offload` is not. No property is about what a switch leaves behind: blocks
  can be dirtied again between the flush and the switch (468), and with several processes `is_wait_list_empty` asks for cores
  that flushed writes are not recorded under (`Cache.cpp:346`).
- The in-order cores' retries: their first-level cache is never ticked (1423). `CacheHierarchy` has this (`InOrder`), but no
  property is about it: what they read is not waited for unless instruction fetches are on.
- The page allocator: its result decides which vault, bank and row a request goes to, which the modules leave open. Its
  random choice of frames and its search have no other effect.
- The arithmetic of the three clocks in `Main.cpp`: a fixed sequence in which nothing is chosen. The restart of `i` after
  the warm-up (141) makes the host idle until `i` reaches the tick times again.
- Energy and statistics (nothing reads them but the instruction count) and the configuration reader.
- The other memory standards that Ramulator brought along and `main` does not start, the Gem5 wrapper, DRAMPower, and the Pin
  tool that writes traces together with the libpfm library and the sample applications beside it. These are most of the
  repository's lines; the simulator proper, which the modules are about, is `Main.cpp`, `Processor.*`, `Cache.*`, `HMC_*`,
  `LogicLayer.*`, `Packet.h`, `HMC.*`, `DRAM.h`, `Scheduler.h` and `Refresh.*`.
- Undefined behaviour on reading past the four operands of a line (1011) is outside the traces.
