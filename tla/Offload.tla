------------------------------ MODULE Offload ------------------------------
(***************************************************************************)
(* The co-simulation protocol of Processor.cpp: how the host cores, the    *)
(* near-memory (NMP) cores and the near-LLC (NLP) cores share the lines of *)
(* one trace.                                                              *)
(*                                                                         *)
(* One tick of a host core is Core::tick_outOrder, which calls             *)
(* get_next_instruction, the offload strategy and instruction_bypass in    *)
(* loops.  The loops are unfolded: ctl names the host core in its tick and *)
(* the point it has reached, and nothing else moves until the tick returns *)
(* (ctl.at = "idle"), since the simulator is one thread.                   *)
(*                                                                         *)
(* Data the protocol does not look at is abstracted: an instruction is its *)
(* place in the trace, the caches and the memory answer in their own time, *)
(* and whether the last-level cache holds a dirty line of an instruction's *)
(* operands is a free choice at every look.                                *)
(***************************************************************************)
EXTENDS Integers, Sequences, FiniteSets

CONSTANTS
  HostNum,       \* number_cores
  NmpNum,        \* number_mcp_cores: one NMP core per vault
  NlpNum,        \* llc_slice: the NLP cores
  QueueMax,      \* mcp_core_queue_max_size; 0 stands for no limit
  Overhead,      \* overhead_cycle, charged for each offloading decision
  Depth, IPC,    \* size of a host core's window, and how much it moves a tick
  InstFetching,  \* consider_inst_fetching
  McpTicks,      \* ticks of an MCP core between two of the host: 1 when
                 \* mcp_frequency <= cpu_frequency, as in Configs/
  Scenarios      \* the configurations and traces a simulation may start with

(***************************************************************************)
(* A scenario is what the simulation reads at start-up:                    *)
(*   mode, nlp, warm, limit  sim_mode, nlp_facility, a warm-up requested,  *)
(*                           expected_limit_insts                          *)
(*   offloadable             the regions whose compiler information counts *)
(*                           more memory than other instructions           *)
(*   trace                   the lines of the master thread's trace file:  *)
(*                           op, region, thread, the vault of instPointer  *)
(*                           and mem, its window entries                   *)
(***************************************************************************)
Modes == {"Host-Only", "MCP-Only", "All-Offload", "Co-Simulation"}
Ops == {"INST", "ROI_BEGIN", "ROI_END"}
Regions == Nat

Lines == [op : Ops, region : Regions, thread : 0 .. HostNum - 1,
          vault : 0 .. NmpNum - 1, mem : Nat]

ASSUME NumAssumption ==
  /\ HostNum \in Nat \ {0} /\ NmpNum \in Nat \ {0} /\ NlpNum \in Nat \ {0}
  /\ QueueMax \in Nat /\ Overhead \in Nat
  /\ Depth \in Nat \ {0} /\ IPC \in Nat \ {0}
  /\ InstFetching \in BOOLEAN /\ McpTicks \in Nat \ {0}

ASSUME ScenarioAssumption ==
  \A s \in Scenarios :
    /\ s.mode \in Modes /\ s.nlp \in BOOLEAN /\ s.warm \in BOOLEAN
    /\ s.limit \in Nat /\ s.offloadable \in SUBSET Regions
    /\ s.trace \in Seq(Lines) /\ s.trace # <<>>
    /\ \* MCP-Only is documented to need simulated_warmup_insts = 0
       s.mode = "MCP-Only" => ~s.warm

HostCores == 0 .. HostNum - 1
NmpCores == HostNum .. HostNum + NmpNum - 1
NlpCores == HostNum + NmpNum .. HostNum + NmpNum + NlpNum - 1
Mcp == NmpCores \cup NlpCores
Cores == HostCores \cup Mcp
Master == 0   \* the host core whose trace file exists (trace_assigned)

VARIABLES
  config,          \* the scenario, fixed for the simulation
  file_pos,        \* how many lines of the trace file have been read
  warmed_up,       \* is_warmup_done of the host cores
  ctl,             \* the host core in its tick, where it is, where it returns
  trace_line,      \* place in the trace of the line each core holds
  fresh,           \* trace_line.instPointer # 0: the line is not yet begun
  more_reqs, lock_core, in_flight, inst_queue,
  load, ready,     \* host window: its entries, and its prefix of ready ones
  ops,             \* window entries the held line has still to insert
  deployed,        \* deployed_app_id is the process of the trace
  overhead,        \* decision_overhead_cycles
  proc_switching, pending_bypass, wait_for_nmp,
  inside_region, region_ids,
  nlp_gen,         \* nlp_core_id_gen modulo NlpNum, all that is read of it
  reached_limit,
  mcp_ticks,       \* ticks of each MCP core since the host last ticked
  cpu_inst,        \* instructions begun so far on all sides
  begun            \* history: how often the line at each place was begun

execVars == <<trace_line, fresh, more_reqs, in_flight, inst_queue>>
windowVars == <<load, ready, ops>>
regionVars == <<inside_region, region_ids, nlp_gen>>
switchVars == <<overhead, proc_switching, pending_bypass, wait_for_nmp>>
countVars == <<cpu_inst, begun>>
fixedVars == <<config, warmed_up>>
outerVars == <<fixedVars, mcp_ticks>>
vars == <<fixedVars, file_pos, ctl, execVars, lock_core, windowVars, deployed,
          switchVars, regionVars, reached_limit, countVars, mcp_ticks>>
(* all but ctl, for the steps of a tick that only decide where it goes on *)
dataVars == <<fixedVars, file_pos, execVars, lock_core, windowVars, deployed,
              switchVars, regionVars, reached_limit, countVars, mcp_ticks>>

----------------------------------------------------------------------------
(* The trace and the line a core holds *)

Trace == config.trace
Held(c) == Trace[trace_line[c]]
IsTag(line) == line.op # "INST"
NlpOn == config.nlp
MinOf(a, b) == IF a < b THEN a ELSE b

(* A tick in progress is at a point of tick_outOrder or of what it calls. *)
Idle == [core |-> Master, at |-> "idle", ret |-> "none"]
At(c, place) == ctl.at = place /\ ctl.core = c
Goto(c, place, back) == ctl' = [core |-> c, at |-> place, ret |-> back]

(* Line p enters execution on core c (cpu_inst++, instPointer = 0). *)
Begin(c) ==
  /\ fresh' = [fresh EXCEPT ![c] = FALSE]
  /\ cpu_inst' = cpu_inst + 1
  /\ begun' = [begun EXCEPT ![trace_line[c]] = @ + 1]

(* Variants: an operator named Wrong... is never used.  It is a slip that  *)
(* could be made in the definition that follows it, kept to show that the  *)
(* properties notice it.                                                   *)
WrongLockOwn(flag) == lock_core   \* finds no core of the process

(* Core::lock_own_cores: the cores running the process, and no others. *)
LockOwn(flag) ==
  [u \in Cores |-> IF u \in HostCores /\ deployed[u] THEN flag ELSE lock_core[u]]

WrongEnqueued(queue, p) == <<p>> \o queue   \* puts the line in front

(* SqueduleQueue: lines are added at the back, and the oldest goes next. *)
Enqueued(queue, p) == Append(queue, p)
NextQueued(queue) == Head(queue)

(* Core::get_first_instruction of the queue-fed cores in S, their queues   *)
(* being q: each idle one takes the head of its queue or is locked.        *)
GetFirst(S, q) ==
  LET Woken == {u \in S : ~more_reqs[u] /\ q[u] # <<>>} IN
  /\ more_reqs' = [u \in Cores |-> more_reqs[u] \/ u \in Woken]
  /\ trace_line' = [u \in Cores |-> IF u \in Woken THEN NextQueued(q[u]) ELSE trace_line[u]]
  /\ fresh' = [u \in Cores |-> fresh[u] \/ u \in Woken]
  /\ inst_queue' = [u \in Cores |-> IF u \in Woken THEN Tail(q[u]) ELSE q[u]]
  /\ lock_core' = [u \in Cores |->
       IF u \in S /\ ~more_reqs[u] THEN u \notin Woken ELSE lock_core[u]]

WrongFinished(S) == \E u \in S : ~more_reqs[u]   \* some core is finished

(* Core::finished of every core in S *)
Finished(S) == \A u \in S : ~more_reqs[u]

----------------------------------------------------------------------------
(* Start-up: the Processor constructor makes the master read its first line *)

Init ==
  /\ config \in Scenarios
  /\ file_pos = 1
  /\ warmed_up = ~config.warm
  /\ ctl = Idle
  /\ trace_line = [u \in Cores |-> 1]
  /\ fresh = [u \in Cores |-> u = Master]
  /\ more_reqs = [u \in Cores |-> u = Master]
  /\ lock_core = [u \in Cores |-> u # Master \/ config.mode = "MCP-Only"]
  /\ in_flight = [u \in Cores |-> 0]
  /\ inst_queue = [u \in Cores |-> <<>>]
  /\ load = [c \in HostCores |-> 0]
  /\ ready = [c \in HostCores |-> 0]
  /\ ops = [c \in HostCores |-> IF c = Master THEN config.trace[1].mem ELSE 0]
  /\ deployed = [c \in HostCores |-> c = Master]
  /\ overhead = [c \in HostCores |-> 0]
  /\ proc_switching = [c \in HostCores |-> FALSE]
  /\ pending_bypass = [c \in HostCores |-> FALSE]
  /\ wait_for_nmp = [c \in HostCores |-> FALSE]
  /\ inside_region = [c \in HostCores |-> FALSE]
  /\ region_ids = [c \in HostCores |-> {}]
  /\ nlp_gen = [c \in HostCores |-> 0]
  /\ reached_limit = [c \in HostCores |-> c # Master]
  /\ mcp_ticks = [u \in Mcp |-> 0]
  /\ cpu_inst = 0
  /\ begun = [p \in DOMAIN config.trace |-> 0]

----------------------------------------------------------------------------
(* Core::tick_outOrder, its first half: retire, then wait to be allowed on *)

WrongRetired(c) == MinOf(IPC, load[c])   \* retires entries not ready
Retired(c) == MinOf(IPC, ready[c])

(* Window::retire, at the head of every tick; the host clock moves on. *)
Retire(c) ==
  /\ load' = [load EXCEPT ![c] = @ - Retired(c)]
  /\ ready' = [ready EXCEPT ![c] = @ - Retired(c)]
  /\ UNCHANGED ops
  /\ mcp_ticks' = IF c = Master THEN [u \in Mcp |-> 0] ELSE mcp_ticks

WrongHostDrained == \A h \in HostCores : deployed[h] => ready'[h] = 0

(* Processor::can_context_switch of the host side, after this retirement *)
HostDrained == \A h \in HostCores : deployed[h] => load'[h] = 0

MayProceed(c) == more_reqs[c] /\ in_flight[c] = 0

WrongForgets(c) == Goto(c, "wait", "retry")   \* never retries a bypass
WrongRepeats(c) == Goto(c, IF lock_core[c] THEN "bypass" ELSE "wait", "retry")
AfterGate(c) == Goto(c, IF pending_bypass[c] THEN "bypass" ELSE "wait", "retry")

(* The tick ends at an early return: nothing to do, an instruction fetch   *)
(* in flight, or a locked core whose process has a window not yet empty.   *)
TickHeld(c) ==
  /\ ctl = Idle
  /\ Retire(c)
  /\ \/ ~MayProceed(c)
     \/ /\ lock_core[c] /\ overhead[c] = 0
        /\ ~proc_switching[c] /\ ~HostDrained
  /\ UNCHANGED <<fixedVars, file_pos, ctl, execVars, lock_core, deployed,
                 switchVars, regionVars, reached_limit, countVars>>

(* A locked core pays one cycle of decision overhead. *)
TickOverhead(c) ==
  /\ ctl = Idle
  /\ Retire(c)
  /\ MayProceed(c) /\ lock_core[c] /\ overhead[c] > 0
  /\ overhead' = [overhead EXCEPT ![c] = @ - 1]
  /\ UNCHANGED <<fixedVars, file_pos, ctl, execVars, lock_core, deployed,
                 proc_switching, pending_bypass, wait_for_nmp, regionVars,
                 reached_limit, countVars>>

(* A locked core whose process has drained hands queued lines to idle MCP  *)
(* cores, and goes on.                                                     *)
TickDispatch(c) ==
  /\ ctl = Idle
  /\ Retire(c)
  /\ MayProceed(c) /\ lock_core[c] /\ overhead[c] = 0
  /\ proc_switching[c] \/ HostDrained
  /\ proc_switching' = [proc_switching EXCEPT ![c] = TRUE]
  /\ GetFirst(IF NlpOn THEN Mcp ELSE NmpCores, inst_queue)
  /\ AfterGate(c)
  /\ UNCHANGED <<fixedVars, file_pos, in_flight, deployed, overhead,
                 pending_bypass, wait_for_nmp, regionVars, reached_limit, countVars>>

TickUnlocked(c) ==
  /\ ctl = Idle
  /\ Retire(c)
  /\ MayProceed(c) /\ ~lock_core[c]
  /\ AfterGate(c)
  /\ UNCHANGED <<fixedVars, file_pos, execVars, lock_core, deployed, switchVars,
                 regionVars, reached_limit, countVars>>

(* wait_for_nmp_finish: the host goes on once every MCP core is finished. *)
Wait(c) ==
  /\ At(c, "wait")
  /\ LET over == Finished(NmpCores) /\ (NlpOn => Finished(NlpCores)) IN
     IF wait_for_nmp[c] /\ ~over
       THEN ctl' = Idle /\ UNCHANGED <<proc_switching, wait_for_nmp>>
       ELSE /\ Goto(c, "execute", "none")
            /\ wait_for_nmp' = [wait_for_nmp EXCEPT ![c] = FALSE]
            /\ proc_switching' = [proc_switching EXCEPT ![c] = @ /\ ~wait_for_nmp[c]]
  /\ UNCHANGED <<outerVars, file_pos, execVars, lock_core, windowVars, deployed,
                 overhead, pending_bypass, regionVars, reached_limit, countVars>>

----------------------------------------------------------------------------
(* Core::tick_outOrder, its second half: execute, read on, finish *)

(* A locked core executes nothing and reads the next line. *)
SkipExecution(c) ==
  /\ At(c, "execute") /\ lock_core[c]
  /\ Goto(c, "next", "decide")
  /\ UNCHANGED dataVars

(* The instruction fetch of a new line is refused below: try next tick. *)
FetchRefused(c) ==
  /\ At(c, "execute") /\ ~lock_core[c] /\ fresh[c]
  /\ ctl' = Idle
  /\ UNCHANGED dataVars

(* Fetch the line if it is new, then insert up to IPC operations in the    *)
(* window; a refused load or store leaves the line for the next tick.      *)
Execute(c, complete) ==
  /\ At(c, "execute") /\ ~lock_core[c]
  /\ IF fresh[c]
       THEN Begin(c) /\ in_flight' = [in_flight EXCEPT ![c] = @ + 1]
       ELSE UNCHANGED <<fresh, in_flight, countVars>>
  /\ LET width == IF fresh[c] THEN IPC - 1 ELSE IPC
         most == MinOf(MinOf(width, Depth - load[c]), ops[c])
     IN \E n \in IF complete THEN {ops[c]} ELSE 0 .. most :
          /\ n <= most
          /\ load' = [load EXCEPT ![c] = @ + n]
          /\ ops' = [ops EXCEPT ![c] = @ - n]
  /\ IF complete THEN Goto(c, "next", "decide") ELSE ctl' = Idle
  /\ UNCHANGED <<outerVars, file_pos, trace_line, more_reqs, inst_queue, lock_core,
                 ready, deployed, switchVars, regionVars, reached_limit>>

(* Core::get_next_instruction of the master.  At the end of the file the   *)
(* line stays, and its addresses are translated once more (instPointer is  *)
(* non-zero again).                                                        *)
NextPlace == IF file_pos < Len(Trace) THEN file_pos + 1 ELSE file_pos
NextMore == file_pos < Len(Trace)

ReadOwn(c) ==
  /\ At(c, "next") /\ c = Master
  /\ Trace[NextPlace].thread = Master
  /\ file_pos' = NextPlace
  /\ trace_line' = [trace_line EXCEPT ![c] = NextPlace]
  /\ fresh' = [fresh EXCEPT ![c] = TRUE]
  /\ more_reqs' = [more_reqs EXCEPT ![c] = NextMore]
  /\ lock_core' = [lock_core EXCEPT ![c] = ~NextMore]
  /\ Goto(c, ctl.ret, "none")
  /\ UNCHANGED <<outerVars, in_flight, inst_queue, windowVars, deployed, switchVars,
                 regionVars, reached_limit, countVars>>

(* A line of another thread goes to the queue of that host core, which is  *)
(* started if it is idle; the master reads on.                             *)
ReadOther(c) ==
  /\ At(c, "next") /\ c = Master
  /\ LET t == Trace[NextPlace].thread
         q == [inst_queue EXCEPT ![t] = Enqueued(@, NextPlace)]
     IN /\ t # Master
        /\ GetFirst({t}, q)
        /\ IF more_reqs[t] THEN UNCHANGED <<ops, deployed, reached_limit>>
           ELSE /\ ops' = [ops EXCEPT ![t] = Trace[NextQueued(q[t])].mem]
                /\ deployed' = [deployed EXCEPT ![t] = TRUE]
                /\ reached_limit' = [reached_limit EXCEPT ![t] = FALSE]
  /\ file_pos' = NextPlace
  /\ UNCHANGED <<outerVars, ctl, in_flight, load, ready, switchVars, regionVars,
                 countVars>>

(* Core::get_next_instruction of a core fed by its queue *)
Pop(c) ==
  IF inst_queue[c] # <<>>
    THEN /\ trace_line' = [trace_line EXCEPT ![c] = NextQueued(inst_queue[c])]
         /\ fresh' = [fresh EXCEPT ![c] = TRUE]
         /\ inst_queue' = [inst_queue EXCEPT ![c] = Tail(@)]
         /\ lock_core' = [lock_core EXCEPT ![c] = FALSE]
         /\ UNCHANGED more_reqs
    ELSE /\ more_reqs' = [more_reqs EXCEPT ![c] = FALSE]
         /\ lock_core' = [lock_core EXCEPT ![c] = TRUE]
         /\ UNCHANGED <<trace_line, inst_queue>>

ReadQueue(c) ==
  /\ At(c, "next") /\ c # Master
  /\ Pop(c)
  /\ inst_queue[c] = <<>> => UNCHANGED fresh
  /\ Goto(c, ctl.ret, "none")
  /\ UNCHANGED <<outerVars, file_pos, in_flight, windowVars, deployed, switchVars,
                 regionVars, reached_limit, countVars>>

(* The end of the tick: stop everything at the instruction limit, note the *)
(* end of the trace, or set the line up for execution.                     *)
Finish(c) ==
  /\ At(c, "finish")
  /\ ctl' = Idle
  /\ IF cpu_inst >= config.limit /\ ~reached_limit[c]
       THEN /\ more_reqs' = [u \in Cores |-> FALSE]
            /\ reached_limit' = [h \in HostCores |-> TRUE]
            /\ UNCHANGED ops
       ELSE /\ reached_limit' = [reached_limit EXCEPT ![c] = @ \/ ~more_reqs[c]]
            /\ ops' = [ops EXCEPT ![c] = IF more_reqs[c] THEN Held(c).mem ELSE @]
            /\ UNCHANGED more_reqs
  /\ UNCHANGED <<outerVars, file_pos, trace_line, fresh, in_flight, inst_queue,
                 lock_core, load, ready, deployed, switchVars, regionVars, countVars>>

----------------------------------------------------------------------------
(* The offload strategies *)

Offloading == warmed_up /\ config.mode \in {"All-Offload", "Co-Simulation"}

(* tick_outOrder's test, and offload_stratigy's choice of a strategy *)
NoStrategy(c) ==
  /\ At(c, "decide")
  /\ ~IsTag(Held(c)) /\ ~inside_region[c] /\ config.mode # "MCP-Only"
  /\ Goto(c, "finish", "none")
  /\ UNCHANGED dataVars

Strategy(c) ==
  /\ At(c, "decide")
  /\ IsTag(Held(c)) \/ inside_region[c] \/ config.mode = "MCP-Only"

(* Core::host_only: read lines until one is no tag, or the trace ends. *)
HostOnly(c) ==
  /\ \/ Strategy(c) /\ (~warmed_up \/ config.mode = "Host-Only")
        /\ Goto(c, "next", "host_only")
     \/ /\ At(c, "host_only")
        /\ IF more_reqs[c] /\ IsTag(Held(c)) THEN Goto(c, "next", "host_only")
                                            ELSE Goto(c, "finish", "none")
  /\ UNCHANGED dataVars

(* Core::nmp_only: skip tags, then bypass the line whatever it is. *)
NmpOnlySkip(c) ==
  /\ \/ Strategy(c) /\ config.mode = "MCP-Only" /\ IsTag(Held(c))
     \/ At(c, "nmp_only") /\ (IsTag(Held(c)) \/ ~more_reqs[c])
  /\ IF At(c, "nmp_only") /\ ~more_reqs[c] THEN Goto(c, "finish", "none")
                                          ELSE Goto(c, "next", "nmp_only")
  /\ UNCHANGED dataVars

NmpOnlyBypass(c) ==
  /\ \/ Strategy(c) /\ config.mode = "MCP-Only"
     \/ At(c, "nmp_only") /\ more_reqs[c]
  /\ ~IsTag(Held(c))
  /\ overhead' = [overhead EXCEPT ![c] = @ + Overhead]
  /\ lock_core' = [lock_core EXCEPT ![c] = TRUE]
  /\ Goto(c, "bypass", "finish")
  /\ UNCHANGED <<outerVars, file_pos, execVars, windowVars, deployed, proc_switching,
                 pending_bypass, wait_for_nmp, regionVars, reached_limit, countVars>>

(* all_offload and compiler_assist_offload differ in which regions they    *)
(* offload, and in when leaving one makes the host wait.                   *)
Chosen(region) == config.mode = "All-Offload" \/ region \in config.offloadable
InRegion(c) == ~IsTag(Held(c)) /\ Held(c).region \in region_ids[c]
OutOfRegion(c) ==
  ~IsTag(Held(c)) /\ region_ids[c] # {} /\ Held(c).region \notin region_ids[c]
WrongOpens(c) == Held(c).op = "ROI_BEGIN" /\ Chosen(Held(c).region)
Opens(c) == Held(c).op = "ROI_BEGIN"
Closes(c) == Held(c).op = "ROI_END" /\ Held(c).region \in region_ids[c]

(* A line of an offloaded region is bypassed. *)
OffloadLine(c) ==
  /\ \/ Strategy(c) /\ Offloading
     \/ At(c, "scan") /\ more_reqs[c]
  /\ InRegion(c)
  /\ Goto(c, "bypass", "finish")
  /\ UNCHANGED dataVars

(* A line of another region interrupts an offloaded one: the host performs *)
(* it, after the MCP side.                                                 *)
LeaveRegion(c) ==
  /\ Strategy(c) /\ Offloading /\ OutOfRegion(c)
  /\ wait_for_nmp' = [wait_for_nmp EXCEPT ![c] = TRUE]
  /\ lock_core' = LockOwn(FALSE)
  /\ Goto(c, "finish", "none")
  /\ UNCHANGED <<outerVars, file_pos, execVars, windowVars, deployed, overhead,
                 proc_switching, pending_bypass, regionVars, reached_limit, countVars>>

WrongStillInside(ids) == FALSE   \* any closing tag leaves the outermost region
StillInside(ids) == ids # {}

(* A tag opens or closes an offloaded region or does neither; then read on. *)
ReadTag(c) ==
  /\ \/ Strategy(c) /\ Offloading /\ ~InRegion(c) /\ ~OutOfRegion(c)
     \/ At(c, "scan") /\ more_reqs[c] /\ (Opens(c) \/ Closes(c))
  /\ LET region == Held(c).region
         opened == Opens(c) /\ Chosen(region)
     IN /\ region_ids' = [region_ids EXCEPT ![c] =
                            CASE opened -> @ \cup {region}
                              [] Closes(c) -> @ \ {region}
                              [] OTHER -> @]
        /\ inside_region' = [inside_region EXCEPT ![c] =
                            CASE opened -> TRUE
                              [] Closes(c) -> StillInside(region_ids'[c])
                              [] OTHER -> @]
        /\ nlp_gen' = [nlp_gen EXCEPT ![c] = IF opened THEN 0 ELSE @]
        /\ overhead' = [overhead EXCEPT ![c] = IF opened THEN @ + Overhead ELSE @]
        /\ lock_core' = IF opened THEN LockOwn(TRUE) ELSE lock_core
  /\ Goto(c, "next", "scan")
  /\ UNCHANGED <<outerVars, file_pos, execVars, windowVars, deployed, proc_switching,
                 pending_bypass, wait_for_nmp, reached_limit, countVars>>

(* The scan met a line for the host: unlock it, to wait for the MCP side   *)
(* first (all_offload: only if inside_region is still set).                *)
ScanToHost(c) ==
  /\ At(c, "scan") /\ more_reqs[c]
  /\ ~InRegion(c) /\ ~Opens(c) /\ ~Closes(c)
  /\ wait_for_nmp' = [wait_for_nmp EXCEPT ![c] =
       @ \/ config.mode = "Co-Simulation" \/ inside_region[c]]
  /\ lock_core' = LockOwn(FALSE)
  /\ Goto(c, "finish", "none")
  /\ UNCHANGED <<outerVars, file_pos, execVars, windowVars, deployed, overhead,
                 proc_switching, pending_bypass, regionVars, reached_limit, countVars>>

ScanEnd(c) ==
  /\ At(c, "scan") /\ ~more_reqs[c]
  /\ Goto(c, "finish", "none")
  /\ UNCHANGED dataVars

----------------------------------------------------------------------------
(* Core::instruction_bypass: queue the held line on an MCP core *)

WrongFull(u) == Len(inst_queue[u]) + 1 >= QueueMax   \* one too early, no "no limit"
WrongOverfull(u) == Len(inst_queue[u]) > QueueMax    \* one too late
Full(u) == QueueMax # 0 /\ Len(inst_queue[u]) >= QueueMax

(* The NLP core next in turn takes a line with a dirty operand; any other  *)
(* line goes to the NMP core of its vault (past the end of the trace the   *)
(* line's addresses were translated twice, and may be in any vault).       *)
NlpTarget(c) == HostNum + NmpNum + nlp_gen[c]
NmpTargets(c) == IF more_reqs[c] THEN {HostNum + Held(c).vault} ELSE NmpCores

BypassFull(c) ==
  /\ At(c, "bypass")
  /\ \/ NlpOn /\ Full(NlpTarget(c))
     \/ \E u \in NmpTargets(c) : Full(u)
  /\ pending_bypass' = [pending_bypass EXCEPT ![c] = TRUE]
  /\ lock_core' = LockOwn(TRUE)
  /\ IF ctl.ret = "retry" THEN ctl' = Idle ELSE Goto(c, "finish", "none")
  /\ UNCHANGED <<outerVars, file_pos, execVars, windowVars, deployed, overhead,
                 proc_switching, wait_for_nmp, regionVars, reached_limit, countVars>>

Queued(c, u) ==
  /\ ~Full(u)
  /\ inst_queue' = [inst_queue EXCEPT ![u] = Enqueued(@, trace_line[c])]
  /\ pending_bypass' = [pending_bypass EXCEPT ![c] = FALSE]
  /\ Goto(c, IF ctl.ret = "retry" THEN "wait" ELSE "finish", "none")
  /\ UNCHANGED <<outerVars, file_pos, trace_line, fresh, more_reqs, in_flight,
                 windowVars, deployed, overhead, proc_switching, wait_for_nmp,
                 inside_region, region_ids, reached_limit, countVars>>

BypassToNlp(c) ==
  /\ At(c, "bypass") /\ NlpOn
  /\ Queued(c, NlpTarget(c))
  /\ nlp_gen' = [nlp_gen EXCEPT ![c] = (@ + 1) % NlpNum]
  /\ lock_core' = [u \in Cores |-> u \in NmpCores \/ LockOwn(TRUE)[u]]

BypassToNmp(c) ==
  /\ At(c, "bypass")
  /\ \E u \in NmpTargets(c) : Queued(c, u)
  /\ lock_core' = LockOwn(TRUE)
  /\ UNCHANGED nlp_gen

----------------------------------------------------------------------------
(* Core::tick_inOrder of the MCP cores *)

(* An NMP core stands aside while an NLP core has a line, and is unlocked  *)
(* when none has.  (can_nmp_switch of the NMP side holds at once when      *)
(* debug_context_swithing is off.)                                         *)
McpTick(u) ==
  /\ ctl = Idle /\ warmed_up /\ config.mode # "Host-Only"
  /\ mcp_ticks[u] < McpTicks
  /\ mcp_ticks' = [mcp_ticks EXCEPT ![u] = @ + 1]
  /\ more_reqs[u] /\ in_flight[u] = 0
  /\ IF u \in NmpCores
       THEN IF NlpOn THEN Finished(NlpCores) ELSE ~lock_core[u]
       ELSE NlpOn /\ ~lock_core[u]

mcpUnchanged == <<fixedVars, file_pos, ctl, windowVars, deployed, switchVars,
                  regionVars, reached_limit>>

(* The line is begun, and its tick ends with more of it to do. *)
McpBegin(u) ==
  /\ McpTick(u) /\ fresh[u]
  /\ Begin(u)
  /\ in_flight' = [in_flight EXCEPT ![u] = IF InstFetching THEN @ + 1 ELSE @]
  /\ lock_core' = [lock_core EXCEPT ![u] = FALSE]
  /\ UNCHANGED <<mcpUnchanged, trace_line, more_reqs, inst_queue>>

(* The line makes no visible progress: a request is refused below. *)
McpStall(u) ==
  /\ McpTick(u)
  /\ lock_core' = [lock_core EXCEPT ![u] = FALSE]
  /\ UNCHANGED <<mcpUnchanged, execVars, countVars>>

(* The line is completed (its loads are not waited for) and the next one   *)
(* taken from the queue.                                                   *)
McpComplete(u) ==
  /\ McpTick(u) /\ (fresh[u] => ~InstFetching)
  /\ IF fresh[u] THEN /\ cpu_inst' = cpu_inst + 1
                      /\ begun' = [begun EXCEPT ![trace_line[u]] = @ + 1]
                 ELSE UNCHANGED countVars
  /\ Pop(u)
  /\ inst_queue[u] = <<>> => fresh' = [fresh EXCEPT ![u] = FALSE]
  /\ UNCHANGED <<mcpUnchanged, in_flight>>

----------------------------------------------------------------------------
(* The memory below, and the warm-up of the main loop *)

(* Core::receive: the next entry of a window in order, or a fetch *)
ReceiveLoad(c) ==
  /\ ctl = Idle /\ ready[c] < load[c]
  /\ ready' = [ready EXCEPT ![c] = @ + 1]
  /\ UNCHANGED <<outerVars, file_pos, ctl, execVars, lock_core, load, ops, deployed,
                 switchVars, regionVars, reached_limit, countVars>>

ReceiveFetch(u) ==
  /\ ctl = Idle /\ in_flight[u] > 0
  /\ in_flight' = [in_flight EXCEPT ![u] = @ - 1]
  /\ UNCHANGED <<outerVars, file_pos, ctl, trace_line, fresh, more_reqs, inst_queue,
                 lock_core, windowVars, deployed, switchVars, regionVars,
                 reached_limit, countVars>>

(* Processor::warmedup_activate, once enough instructions were executed *)
WarmedUp ==
  /\ ctl = Idle /\ ~warmed_up
  /\ warmed_up' = TRUE
  /\ UNCHANGED <<config, file_pos, ctl, execVars, lock_core, windowVars, deployed,
                 switchVars, regionVars, reached_limit, countVars, mcp_ticks>>

----------------------------------------------------------------------------
StartTick(c) == TickHeld(c) \/ TickOverhead(c) \/ TickDispatch(c) \/ TickUnlocked(c)

ContinueTick(c) ==
  \/ Wait(c) \/ SkipExecution(c)
  \/ ReadOwn(c) \/ ReadOther(c) \/ ReadQueue(c) \/ Finish(c)
  \/ NoStrategy(c) \/ HostOnly(c) \/ NmpOnlySkip(c) \/ NmpOnlyBypass(c)
  \/ OffloadLine(c) \/ LeaveRegion(c) \/ ReadTag(c) \/ ScanToHost(c) \/ ScanEnd(c)
  \/ BypassFull(c) \/ BypassToNlp(c) \/ BypassToNmp(c)

TryExecute(c) == FetchRefused(c) \/ Execute(c, FALSE) \/ Execute(c, TRUE)

HostStep(c) == StartTick(c) \/ ContinueTick(c) \/ TryExecute(c) \/ ReceiveLoad(c)
McpStep(u) == McpBegin(u) \/ McpStall(u) \/ McpComplete(u)

Next ==
  \/ \E c \in HostCores : HostStep(c)
  \/ \E u \in Mcp : McpStep(u)
  \/ \E u \in Cores : ReceiveFetch(u)
  \/ WarmedUp

(***************************************************************************)
(* Fairness: the main loop ticks every core for ever, one thread doing so  *)
(* (a tick, once begun, is finished; each core's tick comes round again),  *)
(* and the memory side answers what it took and does not refuse for ever.  *)
(***************************************************************************)
Fairness ==
  /\ \A c \in HostCores :
       /\ SF_vars(StartTick(c))
       /\ WF_vars(ContinueTick(c) \/ TryExecute(c))
       /\ SF_vars(Execute(c, TRUE))
       /\ SF_vars(Execute(c, FALSE) /\ <<load, fresh>>' # <<load, fresh>>)
       /\ SF_vars(ReceiveLoad(c))
  /\ \A u \in Mcp : SF_vars(McpBegin(u)) /\ SF_vars(McpComplete(u))
  /\ \A u \in Cores : SF_vars(ReceiveFetch(u))

Spec == Init /\ [][Next]_vars
FairSpec == Spec /\ Fairness

----------------------------------------------------------------------------
(* Type invariant *)

Places == {"idle", "bypass", "wait", "execute", "next", "decide", "scan",
           "host_only", "nmp_only", "finish"}
Callers == {"decide", "scan", "host_only", "nmp_only"}
Returns == {"none", "retry", "finish"} \cup Callers

(* Every variable keeps its kind: what each core holds is a line of the    *)
(* trace, and a window never counts more ready entries than entries, nor   *)
(* more entries than its depth.                                            *)
LineType ==
  /\ config \in Scenarios /\ file_pos \in DOMAIN Trace
  /\ trace_line \in [Cores -> DOMAIN Trace]
  /\ inst_queue \in [Cores -> Seq(DOMAIN Trace)]
  /\ begun \in [DOMAIN Trace -> Nat]

ControlType ==
  /\ ctl \in [core : HostCores, at : Places, ret : Returns]
  /\ ctl.at = "next" => ctl.ret \in Callers

CoreType ==
  /\ fresh \in [Cores -> BOOLEAN] /\ more_reqs \in [Cores -> BOOLEAN]
  /\ lock_core \in [Cores -> BOOLEAN] /\ in_flight \in [Cores -> Nat]

WindowType ==
  /\ load \in [HostCores -> 0 .. Depth] /\ ready \in [HostCores -> 0 .. Depth]
  /\ \A c \in HostCores : ready[c] <= load[c]
  /\ ops \in [HostCores -> Nat]

SwitchType ==
  /\ deployed \in [HostCores -> BOOLEAN] /\ overhead \in [HostCores -> Nat]
  /\ proc_switching \in [HostCores -> BOOLEAN]
  /\ pending_bypass \in [HostCores -> BOOLEAN] /\ wait_for_nmp \in [HostCores -> BOOLEAN]

RegionType ==
  /\ inside_region \in [HostCores -> BOOLEAN]
  /\ region_ids \in [HostCores -> SUBSET Regions]
  /\ nlp_gen \in [HostCores -> 0 .. NlpNum - 1]

CountType ==
  /\ warmed_up \in BOOLEAN /\ reached_limit \in [HostCores -> BOOLEAN]
  /\ cpu_inst \in Nat /\ mcp_ticks \in [Mcp -> 0 .. McpTicks]

TypeOK ==
  /\ LineType /\ ControlType /\ CoreType /\ WindowType
  /\ SwitchType /\ RegionType /\ CountType

----------------------------------------------------------------------------
(* Safety *)

AtRest == ctl = Idle
Holds(u, p) == more_reqs[u] /\ trace_line[u] = p
InQueue(u, p) == \E i \in DOMAIN inst_queue[u] : inst_queue[u][i] = p
Instruction(p) == Trace[p].op = "INST"
LimitReached == cpu_inst >= config.limit
McpEmpty == \A u \in Mcp : ~more_reqs[u] /\ inst_queue[u] = <<>>

(* The flag inside_region (Processor.h:135) and the set of offloaded       *)
(* regions agree on every core whenever its tick is over, though they are  *)
(* set and reset at four places each.                                      *)
RegionFlagAgrees ==
  AtRest => \A c \in HostCores : inside_region[c] <=> region_ids[c] # {}

OnceIn(places) == \A p \in places : begun[p] <= 1
NotLostIn(places) ==
  AtRest /\ ~LimitReached =>
    \A p \in places : Instruction(p) /\ begun[p] = 0 =>
      \E u \in Cores : Holds(u, p) \/ InQueue(u, p)

(* No line is performed twice, on whatever side: not when a full queue     *)
(* makes the bypass retry it, not when the host leaves or enters a region. *)
PerformedOnce == OnceIn(DOMAIN Trace)

(* No instruction read from the trace is lost on the way: until it is      *)
(* begun some core holds it or has it queued (but once the instruction     *)
(* limit is reached, when all cores drop what they hold).                  *)
NothingLost == NotLostIn(1 .. file_pos)

(* The same two over all modes.  MCP-Only loses the first line (the core   *)
(* starts locked, and a locked core reads on).  The last line is bypassed  *)
(* once more at the end of the file (tick_outOrder calls the strategy      *)
(* without a line) in MCP-Only, and when the trace ends inside a region    *)
(* that is offloaded.  Every other line is kept, and performed once.       *)
McpOnly == config.mode = "MCP-Only"
LastLine == Trace[Len(Trace)]
EndsInRegion ==
  /\ ~IsTag(LastLine)
  /\ \E i \in DOMAIN Trace :
       Trace[i].op = "ROI_BEGIN" /\ Chosen(Trace[i].region)
       /\ Trace[i].region = LastLine.region
Safe == IF McpOnly \/ EndsInRegion THEN 1 .. Len(Trace) - 1 ELSE DOMAIN Trace
OnceButLast == OnceIn(Safe)
KeptButFirst == NotLostIn(IF McpOnly THEN 2 .. file_pos ELSE 1 .. file_pos)

(* When the host may perform a line, no MCP core has one left: it waited   *)
(* for the MCP side to complete (Processor.cpp:974).                       *)
HostWaitsForMcp ==
  \A c \in HostCores :
    AtRest /\ more_reqs[c] /\ ~lock_core[c] /\ ~wait_for_nmp[c] => McpEmpty

(* While an MCP core has a line in hand, the windows of the host cores of  *)
(* the process are empty (can_context_switch, Processor.cpp:946).          *)
McpRunsAfterDrain ==
  (\E u \in Mcp : more_reqs[u]) => \A c \in HostCores : deployed[c] => load[c] = 0

(* Of the tags that delimit regions none is performed as an instruction,   *)
(* but one that closes a region which was not offloaded, and that follows  *)
(* another tag: the scan of compiler_assist_offload, which reads on to the *)
(* next instruction (Processor.cpp:1248), takes it for one.                *)
TagsNotPerformed ==
  \A p \in DOMAIN Trace : IsTag(Trace[p]) /\ begun[p] > 0 =>
    /\ Trace[p].op = "ROI_END" /\ ~Chosen(Trace[p].region)
    /\ p > 1 /\ IsTag(Trace[p - 1])

(* While a core is inside an offloaded region, the participating cores of   *)
(* its process perform no instruction (Processor.cpp:1154).                *)
RegionLocksProcess ==
  AtRest => \A c, h \in HostCores :
    more_reqs[c] /\ InRegion(c) /\ deployed[h] /\ more_reqs[h] => lock_core[h]

(* A queue never exceeds mcp_core_queue_max_size, also when a bypass is    *)
(* retried against a queue that meanwhile changed.                         *)
QueuesBounded == QueueMax # 0 => \A u \in Mcp : Len(inst_queue[u]) <= QueueMax

----------------------------------------------------------------------------
(* Action properties *)

BegunBy(u, p) == begun'[p] > begun[p] /\ trace_line[u] = p /\ more_reqs[u] /\ fresh[u]
Offloaded(p) == Chosen(Trace[p].region) /\ Trace[p].region # 0

(* A line of an offloaded region is begun by an MCP core and any other by  *)
(* the host, each after every earlier line of the other side: the two      *)
(* sides together keep the order of the trace.                             *)
SidesKeepTraceOrder ==
  [][\A p \in DOMAIN Trace : begun'[p] > begun[p] =>
       /\ \E u \in (IF Offloaded(p) THEN Mcp ELSE HostCores) : BegunBy(u, p)
       /\ \A q \in 1 .. p - 1 :
            Instruction(q) /\ ~(Offloaded(p) /\ Offloaded(q)) => begun[q] > 0]_vars

(* Each core begins its lines in trace order, so lines of one vault are    *)
(* performed in that order.                                                *)
CoresKeepTraceOrder ==
  [][\A u \in Cores : trace_line'[u] >= trace_line[u]]_vars

----------------------------------------------------------------------------
(* Liveness *)

Completed ==
  /\ \A p \in DOMAIN Trace : Instruction(p) => begun[p] > 0
  /\ McpEmpty /\ \A c \in HostCores : ~more_reqs[c] /\ load[c] = 0

(* The simulation performs the whole trace and comes to rest.              *)
EventuallyCompleted == <>[]Completed
============================================================================
