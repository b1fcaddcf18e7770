---------------------------- MODULE OffloadProofs ----------------------------
(***************************************************************************)
(* Proofs about Offload: the type invariant, the bound on the queues of    *)
(* the MCP cores and the flag of regions, for every number of cores, every *)
(* size of a queue and every trace; and what several host threads keep:    *)
(* the order of their lines, and in Host-Only every line, performed once.  *)
(***************************************************************************)
EXTENDS Offload, TLAPS

LEMMA CoreFacts ==
  /\ Cores = HostCores \cup Mcp /\ Master \in HostCores /\ HostCores \subseteq Nat
  /\ NmpCores \subseteq Mcp /\ NlpCores \subseteq Mcp /\ HostCores \cap Mcp = {}
  <1>1. Cores = HostCores \cup Mcp /\ NmpCores \subseteq Mcp /\ NlpCores \subseteq Mcp
    BY DEF Cores, Mcp
  <1>2. Master \in HostCores
    BY NumAssumption DEF HostCores, Master
  <1>3. HostCores \subseteq Nat
    BY DEF HostCores
  <1>4. \A u \in Mcp : u \notin HostCores
    BY NumAssumption DEF Mcp, HostCores, NmpCores, NlpCores
  <1> QED
    BY <1>1, <1>2, <1>3, <1>4

(* The trace is one of the scenarios', and a held line one of its lines. *)
LEMMA TraceFacts ==
  ASSUME LineType
  PROVE  /\ Trace \in Seq(Lines) /\ Len(Trace) \in Nat \ {0}
         /\ DOMAIN Trace = 1 .. Len(Trace)
         /\ \A p \in DOMAIN Trace : Trace[p] \in Lines
         /\ \A c \in Cores : Held(c) \in Lines
  <1>1. Trace \in Seq(Lines) /\ Trace # <<>>
    BY ScenarioAssumption DEF LineType, Trace
  <1>2. Len(Trace) \in Nat \ {0} /\ DOMAIN Trace = 1 .. Len(Trace)
    BY <1>1
  <1>3. \A p \in DOMAIN Trace : Trace[p] \in Lines
    BY <1>1
  <1> QED
    BY <1>1, <1>2, <1>3 DEF LineType, Held

LEMMA LineFields ==
  ASSUME NEW line \in Lines
  PROVE  /\ line.op \in Ops /\ line.region \in Regions /\ line.mem \in Nat
         /\ line.thread \in HostCores /\ line.vault \in 0 .. NmpNum - 1
  BY DEF Lines, HostCores

(* The head and the rest of a queue that is not empty *)
LEMMA QueueFacts ==
  ASSUME NEW S, NEW q \in Seq(S), q # <<>>
  PROVE  Head(q) \in S /\ Tail(q) \in Seq(S) /\ Len(q) \in Nat \ {0}
  OBVIOUS

LEMMA GetFirstLines ==
  ASSUME LineType, NEW S \in SUBSET Cores, NEW q \in [Cores -> Seq(DOMAIN Trace)],
         GetFirst(S, q)
  PROVE  /\ trace_line' \in [Cores -> DOMAIN Trace]
         /\ inst_queue' \in [Cores -> Seq(DOMAIN Trace)]
  <1> DEFINE Woken == {u \in S : ~more_reqs[u] /\ q[u] # <<>>}
  <1>1. \A u \in Woken : Head(q[u]) \in DOMAIN Trace /\ Tail(q[u]) \in Seq(DOMAIN Trace)
    BY QueueFacts
  <1>2. trace_line' = [u \in Cores |-> IF u \in Woken THEN Head(q[u]) ELSE trace_line[u]]
    BY DEF GetFirst, NextQueued
  <1>3. inst_queue' = [u \in Cores |-> IF u \in Woken THEN Tail(q[u]) ELSE q[u]]
    BY DEF GetFirst
  <1> QED
    BY <1>1, <1>2, <1>3 DEF LineType

LEMMA PopLines ==
  ASSUME LineType, NEW c \in Cores, Pop(c)
  PROVE  /\ trace_line' \in [Cores -> DOMAIN Trace]
         /\ inst_queue' \in [Cores -> Seq(DOMAIN Trace)]
  <1>1. CASE inst_queue[c] = <<>>
    BY <1>1 DEF Pop, LineType
  <1>2. CASE inst_queue[c] # <<>>
    <2>1. inst_queue[c] \in Seq(DOMAIN Trace)
      BY DEF LineType
    <2>2. Head(inst_queue[c]) \in DOMAIN Trace /\ Tail(inst_queue[c]) \in Seq(DOMAIN Trace)
      BY <1>2, <2>1, QueueFacts
    <2>3. trace_line' = [trace_line EXCEPT ![c] = Head(inst_queue[c])]
          /\ inst_queue' = [inst_queue EXCEPT ![c] = Tail(inst_queue[c])]
      BY <1>2 DEF Pop, NextQueued
    <2> QED
      BY <2>2, <2>3 DEF LineType
  <1> QED
    BY <1>1, <1>2

(* What is appended to a queue is a place in the trace. *)
LEMMA EnqueuedLines ==
  ASSUME LineType, NEW u \in Cores, NEW p \in DOMAIN Trace
  PROVE  [inst_queue EXCEPT ![u] = Enqueued(@, p)] \in [Cores -> Seq(DOMAIN Trace)]
  <1>1. inst_queue[u] \in Seq(DOMAIN Trace)
    BY DEF LineType
  <1>2. Append(inst_queue[u], p) \in Seq(DOMAIN Trace)
    BY <1>1
  <1> QED
    BY <1>2 DEF LineType, Enqueued

(* An instruction begun is counted at its place. *)
LEMMA BeginLines ==
  ASSUME LineType, NEW p \in DOMAIN Trace, begun' = [begun EXCEPT ![p] = @ + 1]
  PROVE  begun' \in [DOMAIN Trace -> Nat]
  BY DEF LineType

LEMMA RetireWindow ==
  ASSUME WindowType, NEW c \in HostCores, Retire(c)
  PROVE  WindowType'
  <1>1. load[c] \in 0 .. Depth /\ ready[c] \in 0 .. load[c]
    BY DEF WindowType
  <1>2. Retired(c) \in 0 .. ready[c]
    BY <1>1, NumAssumption DEF Retired, MinOf
  <1> QED
    BY <1>1, <1>2, NumAssumption DEF Retire, WindowType

(* A bypassed line goes to an MCP core. *)
LEMMA TargetFacts ==
  ASSUME TypeOK, NEW c \in HostCores
  PROVE  NlpTarget(c) \in NlpCores /\ NmpTargets(c) \subseteq NmpCores
  <1>1. NlpTarget(c) \in NlpCores
    BY NumAssumption DEF TypeOK, RegionType, NlpTarget, NlpCores
  <1>2. Held(c).vault \in 0 .. NmpNum - 1
    BY CoreFacts, TraceFacts, LineFields DEF TypeOK
  <1>3. HostNum + Held(c).vault \in NmpCores
    BY <1>2, NumAssumption DEF NmpCores
  <1> QED
    BY <1>1, <1>3 DEF NmpTargets

----------------------------------------------------------------------------
(* The type invariant *)

(* What an action leaves alone keeps its type. *)
LEMMA TypeStable ==
  /\ LineType /\ UNCHANGED <<config, file_pos, trace_line, inst_queue, begun>> => LineType'
  /\ ControlType /\ UNCHANGED <<ctl>> => ControlType'
  /\ CoreType /\ UNCHANGED <<fresh, more_reqs, lock_core, in_flight>> => CoreType'
  /\ WindowType /\ UNCHANGED <<load, ready, ops>> => WindowType'
  /\ SwitchType /\ UNCHANGED <<deployed, overhead, proc_switching, pending_bypass, wait_for_nmp>> => SwitchType'
  /\ RegionType /\ UNCHANGED <<inside_region, region_ids, nlp_gen>> => RegionType'
  /\ CountType /\ UNCHANGED <<warmed_up, reached_limit, cpu_inst, mcp_ticks>> => CountType'
  BY DEF Trace, LineType, ControlType, CoreType, WindowType, SwitchType, RegionType,
     CountType

LEMMA TickHeldType ==
  ASSUME TypeOK, NEW c \in HostCores, TickHeld(c)
  PROVE  TypeOK'
  <1>1. WindowType'
    BY RetireWindow DEF TypeOK, TickHeld
  <1>2. CountType'
    BY CoreFacts, NumAssumption DEF TypeOK, CountType, TickHeld, countVars, regionVars,
      switchVars, execVars, fixedVars, Retire
  <1> QED
    BY TypeStable, <1>1, <1>2
    DEF TypeOK, TickHeld, countVars, regionVars, switchVars, execVars, fixedVars, Retire

LEMMA TickOverheadType ==
  ASSUME TypeOK, NEW c \in HostCores, TickOverhead(c)
  PROVE  TypeOK'
  <1>1. WindowType'
    BY RetireWindow DEF TypeOK, TickOverhead
  <1>2. CountType'
    BY CoreFacts, NumAssumption DEF TypeOK, CountType, TickOverhead, countVars,
      regionVars, execVars, fixedVars, Retire
  <1>3. SwitchType'
    BY CoreFacts, NumAssumption DEF TypeOK, SwitchType, TickOverhead, countVars,
      regionVars, execVars, fixedVars, Retire
  <1> QED
    BY TypeStable, <1>1, <1>2, <1>3
    DEF TypeOK, TickOverhead, countVars, regionVars, execVars, fixedVars, Retire

LEMMA TickDispatchType ==
  ASSUME TypeOK, NEW c \in HostCores, TickDispatch(c)
  PROVE  TypeOK'
  <1>1. WindowType'
    BY RetireWindow DEF TypeOK, TickDispatch
  <1>2. CountType'
    BY CoreFacts, NumAssumption DEF TypeOK, CountType, TickDispatch, countVars,
      regionVars, fixedVars, GetFirst, Retire
  <1>3. SwitchType'
    BY CoreFacts, NumAssumption DEF TypeOK, SwitchType, TickDispatch, countVars,
      regionVars, fixedVars, GetFirst, Retire
  <1>4. CoreType'
    BY CoreFacts DEF TypeOK, CoreType, TickDispatch, countVars, regionVars, fixedVars,
      GetFirst, Retire
  <1>5. LineType'
    <2>1. (IF NlpOn THEN Mcp ELSE NmpCores) \in SUBSET Cores
      BY CoreFacts
    <2>2. LineType /\ inst_queue \in [Cores -> Seq(DOMAIN Trace)]
      BY DEF TypeOK, LineType
    <2>3. GetFirst(IF NlpOn THEN Mcp ELSE NmpCores, inst_queue)
      BY DEF TickDispatch
    <2>4. trace_line' \in [Cores -> DOMAIN Trace] /\ inst_queue' \in [Cores ->
      Seq(DOMAIN Trace)]
      BY <2>1, <2>2, <2>3, GetFirstLines
    <2> QED
      BY <2>2, <2>4 DEF TickDispatch, LineType, Trace, fixedVars, countVars
  <1>6. ControlType'
    BY CoreFacts DEF TypeOK, ControlType, TickDispatch, countVars, regionVars,
      fixedVars, AfterGate, Goto, GetFirst, Retire, Idle, At, Places, Returns, Callers
  <1> QED
    BY TypeStable, <1>1, <1>2, <1>3, <1>4, <1>5, <1>6
    DEF TypeOK, TickDispatch, countVars, regionVars, fixedVars, GetFirst, Retire

LEMMA TickUnlockedType ==
  ASSUME TypeOK, NEW c \in HostCores, TickUnlocked(c)
  PROVE  TypeOK'
  <1>1. WindowType'
    BY RetireWindow DEF TypeOK, TickUnlocked
  <1>2. CountType'
    BY CoreFacts, NumAssumption DEF TypeOK, CountType, TickUnlocked, countVars,
      regionVars, switchVars, execVars, fixedVars, Retire
  <1>3. ControlType'
    BY CoreFacts DEF TypeOK, ControlType, TickUnlocked, countVars, regionVars,
      switchVars, execVars, fixedVars, AfterGate, Goto, Retire, Idle, At, Places,
      Returns, Callers
  <1> QED
    BY TypeStable, <1>1, <1>2, <1>3
    DEF TypeOK, TickUnlocked, countVars, regionVars, switchVars, execVars, fixedVars,
      Retire

LEMMA WaitType ==
  ASSUME TypeOK, NEW c \in HostCores, Wait(c)
  PROVE  TypeOK'
  <1>1. ControlType'
    BY CoreFacts DEF TypeOK, ControlType, Wait, countVars, regionVars, windowVars,
      execVars, outerVars, fixedVars, Goto, Idle, At, Places, Returns, Callers
  <1>2. SwitchType'
    BY CoreFacts, NumAssumption DEF TypeOK, SwitchType, Wait, countVars, regionVars,
      windowVars, execVars, outerVars, fixedVars
  <1> QED
    BY TypeStable, <1>1, <1>2
    DEF TypeOK, Wait, countVars, regionVars, windowVars, execVars, outerVars, fixedVars

LEMMA SkipExecutionType ==
  ASSUME TypeOK, NEW c \in HostCores, SkipExecution(c)
  PROVE  TypeOK'
  <1>1. ControlType'
    BY CoreFacts DEF TypeOK, ControlType, SkipExecution, dataVars, countVars,
      regionVars, switchVars, windowVars, execVars, fixedVars, Goto, At, Idle, Places,
      Returns, Callers
  <1> QED
    BY TypeStable, <1>1
    DEF TypeOK, SkipExecution, dataVars, countVars, regionVars, switchVars, windowVars,
      execVars, fixedVars

LEMMA FetchRefusedType ==
  ASSUME TypeOK, NEW c \in HostCores, FetchRefused(c)
  PROVE  TypeOK'
  <1>1. ControlType'
    BY CoreFacts DEF TypeOK, ControlType, FetchRefused, dataVars, countVars, regionVars,
      switchVars, windowVars, execVars, fixedVars, Idle, At, Places, Returns, Callers
  <1> QED
    BY TypeStable, <1>1
    DEF TypeOK, FetchRefused, dataVars, countVars, regionVars, switchVars, windowVars,
      execVars, fixedVars

LEMMA ExecuteType ==
  ASSUME TypeOK, NEW c \in HostCores, NEW complete \in BOOLEAN, Execute(c, complete)
  PROVE  TypeOK'
  <1>1. ControlType'
    BY CoreFacts DEF TypeOK, ControlType, Execute, regionVars, switchVars, outerVars,
      fixedVars, Idle, Goto, countVars, Begin, At, Places, Returns, Callers
  <1>2. CoreType'
    <2>1. fresh' \in [Cores -> BOOLEAN]
      BY CoreFacts DEF TypeOK, CoreType, Execute, Begin
    <2>2. in_flight' = in_flight \/ in_flight' = [in_flight EXCEPT ![c] = @ + 1]
      BY DEF Execute
    <2>3. in_flight \in [Cores -> Nat] /\ c \in Cores
      BY CoreFacts DEF TypeOK, CoreType
    <2>4. in_flight' \in [Cores -> Nat]
      BY <2>2, <2>3
    <2> QED
      BY <2>1, <2>4 DEF TypeOK, CoreType, Execute
  <1>3. LineType'
    <2>1. LineType /\ trace_line[c] \in DOMAIN Trace
      BY CoreFacts DEF TypeOK, LineType
    <2>2. begun' \in [DOMAIN Trace -> Nat]
      BY <2>1, BeginLines DEF Execute, Begin, countVars, LineType
    <2> QED
      BY <2>1, <2>2 DEF Execute, LineType, Trace, fixedVars, outerVars
  <1>4. CountType'
    BY CoreFacts, NumAssumption DEF TypeOK, CountType, Execute, regionVars, switchVars,
      outerVars, fixedVars, countVars, Begin
  <1>5. WindowType'
    BY CoreFacts, NumAssumption DEF TypeOK, WindowType, Execute, regionVars, switchVars,
      outerVars, fixedVars, MinOf, countVars, Begin
  <1> QED
    BY TypeStable, <1>1, <1>2, <1>3, <1>4, <1>5
    DEF TypeOK, Execute, regionVars, switchVars, outerVars, fixedVars, countVars, Begin

LEMMA ReadOwnType ==
  ASSUME TypeOK, NEW c \in HostCores, ReadOwn(c)
  PROVE  TypeOK'
  <1>1. ControlType'
    BY CoreFacts DEF TypeOK, ControlType, ReadOwn, countVars, regionVars, switchVars,
      windowVars, outerVars, fixedVars, Goto, At, Idle, Places, Returns, Callers
  <1>2. CoreType'
    BY CoreFacts DEF TypeOK, CoreType, ReadOwn, countVars, regionVars, switchVars,
      windowVars, outerVars, fixedVars, NextMore
  <1>3. LineType'
    <2>1. LineType /\ NextPlace \in DOMAIN Trace
      BY TraceFacts DEF TypeOK, LineType, NextPlace
    <2> QED
      BY <2>1 DEF ReadOwn, LineType, Trace, fixedVars, outerVars, countVars
  <1> QED
    BY TypeStable, <1>1, <1>2, <1>3
    DEF TypeOK, ReadOwn, countVars, regionVars, switchVars, windowVars, outerVars,
      fixedVars

LEMMA ReadOtherType ==
  ASSUME TypeOK, NEW c \in HostCores, ReadOther(c)
  PROVE  TypeOK'
  <1>1. CoreType'
    BY CoreFacts DEF TypeOK, CoreType, ReadOther, countVars, regionVars, switchVars,
      outerVars, fixedVars, GetFirst
  <1>2. LineType'
    <2> DEFINE t == Trace[NextPlace].thread
               q == [inst_queue EXCEPT ![t] = Enqueued(@, NextPlace)]
    <2>1. LineType /\ NextPlace \in DOMAIN Trace /\ t \in HostCores
      <3>1. NextPlace \in DOMAIN Trace
        BY TraceFacts DEF TypeOK, LineType, NextPlace
      <3> QED
        BY <3>1, TraceFacts, LineFields DEF TypeOK
    <2>2. q \in [Cores -> Seq(DOMAIN Trace)] /\ {t} \in SUBSET Cores
      BY <2>1, CoreFacts, EnqueuedLines
    <2>3. GetFirst({t}, q)
      BY DEF ReadOther
    <2>4. trace_line' \in [Cores -> DOMAIN Trace] /\ inst_queue' \in [Cores ->
      Seq(DOMAIN Trace)]
      BY <2>1, <2>2, <2>3, GetFirstLines
    <2> QED
      BY <2>1, <2>4 DEF ReadOther, LineType, Trace, fixedVars, outerVars, countVars
  <1>3. WindowType'
    <2> DEFINE t == Trace[NextPlace].thread
               q == [inst_queue EXCEPT ![t] = Enqueued(@, NextPlace)]
    <2>1. LineType /\ NextPlace \in DOMAIN Trace
      BY TraceFacts DEF TypeOK, LineType, NextPlace
    <2>2. t \in HostCores
      BY <2>1, TraceFacts, LineFields
    <2>3. q[t] \in Seq(DOMAIN Trace) /\ q[t] # <<>>
      <3>1. q[t] = Append(inst_queue[t], NextPlace) /\ inst_queue[t] \in Seq(DOMAIN
        Trace)
        BY <2>2, CoreFacts DEF TypeOK, LineType, Enqueued
      <3> QED
        BY <2>1, <3>1
    <2>4. Trace[Head(q[t])].mem \in Nat
      <3>1. Head(q[t]) \in DOMAIN Trace
        BY <2>3, QueueFacts
      <3> QED
        BY <2>1, <3>1, TraceFacts, LineFields
    <2>5. UNCHANGED <<load, ready>>
          /\ (ops' = ops \/ ops' = [ops EXCEPT ![t] = Trace[Head(q[t])].mem])
      BY DEF ReadOther, NextQueued
    <2> QED
      BY <2>2, <2>4, <2>5 DEF TypeOK, WindowType
  <1>4. SwitchType'
    BY CoreFacts, NumAssumption DEF TypeOK, SwitchType, ReadOther, countVars,
      regionVars, switchVars, outerVars, fixedVars, GetFirst
  <1>5. CountType'
    BY CoreFacts, NumAssumption DEF TypeOK, CountType, ReadOther, countVars, regionVars,
      switchVars, outerVars, fixedVars, GetFirst
  <1> QED
    BY TypeStable, <1>1, <1>2, <1>3, <1>4, <1>5
    DEF TypeOK, ReadOther, countVars, regionVars, switchVars, outerVars, fixedVars,
      GetFirst

LEMMA ReadQueueType ==
  ASSUME TypeOK, NEW c \in HostCores, ReadQueue(c)
  PROVE  TypeOK'
  <1>1. ControlType'
    BY CoreFacts DEF TypeOK, ControlType, ReadQueue, countVars, regionVars, switchVars,
      windowVars, outerVars, fixedVars, Goto, Pop, At, Idle, Places, Returns, Callers
  <1>2. CoreType'
    BY CoreFacts DEF TypeOK, CoreType, ReadQueue, countVars, regionVars, switchVars,
      windowVars, outerVars, fixedVars, Pop
  <1>3. LineType'
    <2>1. LineType /\ c \in Cores /\ Pop(c)
      BY CoreFacts DEF TypeOK, ReadQueue
    <2>2. trace_line' \in [Cores -> DOMAIN Trace] /\ inst_queue' \in [Cores ->
      Seq(DOMAIN Trace)]
      BY <2>1, PopLines
    <2> QED
      BY <2>1, <2>2 DEF ReadQueue, LineType, Trace, fixedVars, outerVars, countVars
  <1> QED
    BY TypeStable, <1>1, <1>2, <1>3
    DEF TypeOK, ReadQueue, countVars, regionVars, switchVars, windowVars, outerVars,
      fixedVars, Pop

LEMMA FinishType ==
  ASSUME TypeOK, NEW c \in HostCores, Finish(c)
  PROVE  TypeOK'
  <1>1. ControlType'
    BY CoreFacts DEF TypeOK, ControlType, Finish, countVars, regionVars, switchVars,
      outerVars, fixedVars, Idle, At, Places, Returns, Callers
  <1>2. CoreType'
    BY CoreFacts DEF TypeOK, CoreType, Finish, countVars, regionVars, switchVars,
      outerVars, fixedVars
  <1>3. CountType'
    BY CoreFacts, NumAssumption DEF TypeOK, CountType, Finish, countVars, regionVars,
      switchVars, outerVars, fixedVars
  <1>4. WindowType'
    <2>1. Held(c).mem \in Nat
      BY CoreFacts, TraceFacts, LineFields DEF TypeOK
    <2> QED
      BY <2>1 DEF TypeOK, WindowType, Finish
  <1> QED
    BY TypeStable, <1>1, <1>2, <1>3, <1>4
    DEF TypeOK, Finish, countVars, regionVars, switchVars, outerVars, fixedVars

LEMMA NoStrategyType ==
  ASSUME TypeOK, NEW c \in HostCores, NoStrategy(c)
  PROVE  TypeOK'
  <1>1. ControlType'
    BY CoreFacts DEF TypeOK, ControlType, NoStrategy, dataVars, countVars, regionVars,
      switchVars, windowVars, execVars, fixedVars, Goto, At, Idle, Places, Returns,
      Callers
  <1> QED
    BY TypeStable, <1>1
    DEF TypeOK, NoStrategy, dataVars, countVars, regionVars, switchVars, windowVars,
      execVars, fixedVars

LEMMA HostOnlyType ==
  ASSUME TypeOK, NEW c \in HostCores, HostOnly(c)
  PROVE  TypeOK'
  <1>1. ControlType'
    BY CoreFacts DEF TypeOK, ControlType, HostOnly, dataVars, countVars, regionVars,
      switchVars, windowVars, execVars, fixedVars, Goto, At, Idle, Places, Returns,
      Callers
  <1> QED
    BY TypeStable, <1>1
    DEF TypeOK, HostOnly, dataVars, countVars, regionVars, switchVars, windowVars,
      execVars, fixedVars

LEMMA NmpOnlySkipType ==
  ASSUME TypeOK, NEW c \in HostCores, NmpOnlySkip(c)
  PROVE  TypeOK'
  <1>1. ControlType'
    BY CoreFacts DEF TypeOK, ControlType, NmpOnlySkip, dataVars, countVars, regionVars,
      switchVars, windowVars, execVars, fixedVars, Goto, At, Idle, Places, Returns,
      Callers
  <1> QED
    BY TypeStable, <1>1
    DEF TypeOK, NmpOnlySkip, dataVars, countVars, regionVars, switchVars, windowVars,
      execVars, fixedVars

LEMMA NmpOnlyBypassType ==
  ASSUME TypeOK, NEW c \in HostCores, NmpOnlyBypass(c)
  PROVE  TypeOK'
  <1>1. ControlType'
    BY CoreFacts DEF TypeOK, ControlType, NmpOnlyBypass, countVars, regionVars,
      windowVars, execVars, outerVars, fixedVars, Goto, At, Idle, Places, Returns,
      Callers
  <1>2. CoreType'
    BY CoreFacts DEF TypeOK, CoreType, NmpOnlyBypass, countVars, regionVars, windowVars,
      execVars, outerVars, fixedVars
  <1>3. SwitchType'
    BY CoreFacts, NumAssumption DEF TypeOK, SwitchType, NmpOnlyBypass, countVars,
      regionVars, windowVars, execVars, outerVars, fixedVars
  <1> QED
    BY TypeStable, <1>1, <1>2, <1>3
    DEF TypeOK, NmpOnlyBypass, countVars, regionVars, windowVars, execVars, outerVars,
      fixedVars

LEMMA OffloadLineType ==
  ASSUME TypeOK, NEW c \in HostCores, OffloadLine(c)
  PROVE  TypeOK'
  <1>1. ControlType'
    BY CoreFacts DEF TypeOK, ControlType, OffloadLine, dataVars, countVars, regionVars,
      switchVars, windowVars, execVars, fixedVars, Goto, At, Idle, Places, Returns,
      Callers
  <1> QED
    BY TypeStable, <1>1
    DEF TypeOK, OffloadLine, dataVars, countVars, regionVars, switchVars, windowVars,
      execVars, fixedVars

LEMMA LeaveRegionType ==
  ASSUME TypeOK, NEW c \in HostCores, LeaveRegion(c)
  PROVE  TypeOK'
  <1>1. ControlType'
    BY CoreFacts DEF TypeOK, ControlType, LeaveRegion, countVars, regionVars,
      windowVars, execVars, outerVars, fixedVars, Goto, At, Idle, Places, Returns,
      Callers
  <1>2. CoreType'
    BY CoreFacts DEF TypeOK, CoreType, LeaveRegion, countVars, regionVars, windowVars,
      execVars, outerVars, fixedVars, LockOwn
  <1>3. SwitchType'
    BY CoreFacts, NumAssumption DEF TypeOK, SwitchType, LeaveRegion, countVars,
      regionVars, windowVars, execVars, outerVars, fixedVars
  <1> QED
    BY TypeStable, <1>1, <1>2, <1>3
    DEF TypeOK, LeaveRegion, countVars, regionVars, windowVars, execVars, outerVars,
      fixedVars

LEMMA ReadTagType ==
  ASSUME TypeOK, NEW c \in HostCores, ReadTag(c)
  PROVE  TypeOK'
  <1>1. ControlType'
    BY CoreFacts DEF TypeOK, ControlType, ReadTag, countVars, windowVars, execVars,
      outerVars, fixedVars, Goto, At, Idle, Places, Returns, Callers
  <1>2. CoreType'
    BY CoreFacts DEF TypeOK, CoreType, ReadTag, countVars, windowVars, execVars,
      outerVars, fixedVars, LockOwn
  <1>3. SwitchType'
    BY CoreFacts, NumAssumption DEF TypeOK, SwitchType, ReadTag, countVars, windowVars,
      execVars, outerVars, fixedVars
  <1>4. RegionType'
    <2>1. Held(c).region \in Regions
      BY CoreFacts, TraceFacts, LineFields DEF TypeOK
    <2>2. region_ids' \in [HostCores -> SUBSET Regions]
      BY <2>1 DEF TypeOK, RegionType, ReadTag
    <2>3. inside_region' \in [HostCores -> BOOLEAN]
      BY DEF TypeOK, RegionType, ReadTag, StillInside
    <2>4. nlp_gen' \in [HostCores -> 0 .. NlpNum - 1]
      BY NumAssumption DEF TypeOK, RegionType, ReadTag
    <2> QED
      BY <2>2, <2>3, <2>4 DEF RegionType
  <1> QED
    BY TypeStable, <1>1, <1>2, <1>3, <1>4
    DEF TypeOK, ReadTag, countVars, windowVars, execVars, outerVars, fixedVars

LEMMA ScanToHostType ==
  ASSUME TypeOK, NEW c \in HostCores, ScanToHost(c)
  PROVE  TypeOK'
  <1>1. ControlType'
    BY CoreFacts DEF TypeOK, ControlType, ScanToHost, countVars, regionVars, windowVars,
      execVars, outerVars, fixedVars, Goto, At, Idle, Places, Returns, Callers
  <1>2. CoreType'
    BY CoreFacts DEF TypeOK, CoreType, ScanToHost, countVars, regionVars, windowVars,
      execVars, outerVars, fixedVars, LockOwn
  <1>3. SwitchType'
    BY CoreFacts, NumAssumption DEF TypeOK, SwitchType, ScanToHost, countVars,
      regionVars, windowVars, execVars, outerVars, fixedVars
  <1> QED
    BY TypeStable, <1>1, <1>2, <1>3
    DEF TypeOK, ScanToHost, countVars, regionVars, windowVars, execVars, outerVars,
      fixedVars

LEMMA ScanEndType ==
  ASSUME TypeOK, NEW c \in HostCores, ScanEnd(c)
  PROVE  TypeOK'
  <1>1. ControlType'
    BY CoreFacts DEF TypeOK, ControlType, ScanEnd, dataVars, countVars, regionVars,
      switchVars, windowVars, execVars, fixedVars, Goto, At, Idle, Places, Returns,
      Callers
  <1> QED
    BY TypeStable, <1>1
    DEF TypeOK, ScanEnd, dataVars, countVars, regionVars, switchVars, windowVars,
      execVars, fixedVars

LEMMA BypassFullType ==
  ASSUME TypeOK, NEW c \in HostCores, BypassFull(c)
  PROVE  TypeOK'
  <1>1. ControlType'
    BY CoreFacts DEF TypeOK, ControlType, BypassFull, countVars, regionVars, windowVars,
      execVars, outerVars, fixedVars, Goto, Idle, At, Places, Returns, Callers
  <1>2. CoreType'
    BY CoreFacts DEF TypeOK, CoreType, BypassFull, countVars, regionVars, windowVars,
      execVars, outerVars, fixedVars, LockOwn
  <1>3. SwitchType'
    BY CoreFacts, NumAssumption DEF TypeOK, SwitchType, BypassFull, countVars,
      regionVars, windowVars, execVars, outerVars, fixedVars
  <1> QED
    BY TypeStable, <1>1, <1>2, <1>3
    DEF TypeOK, BypassFull, countVars, regionVars, windowVars, execVars, outerVars,
      fixedVars

LEMMA BypassToNlpType ==
  ASSUME TypeOK, NEW c \in HostCores, BypassToNlp(c)
  PROVE  TypeOK'
  <1>1. ControlType'
    BY CoreFacts DEF TypeOK, ControlType, BypassToNlp, Queued, countVars, windowVars,
      outerVars, fixedVars, Goto, At, Idle, Places, Returns, Callers
  <1>2. CoreType'
    BY CoreFacts DEF TypeOK, CoreType, BypassToNlp, LockOwn, Queued, countVars,
      windowVars, outerVars, fixedVars
  <1>3. SwitchType'
    BY CoreFacts, NumAssumption DEF TypeOK, SwitchType, BypassToNlp, Queued, countVars,
      windowVars, outerVars, fixedVars
  <1>4. RegionType'
    BY CoreFacts, NumAssumption DEF TypeOK, RegionType, BypassToNlp, Queued, countVars,
      windowVars, outerVars, fixedVars
  <1>5. LineType'
    <2>1. LineType /\ trace_line[c] \in DOMAIN Trace /\ NlpTarget(c) \in Cores
      BY CoreFacts, TargetFacts DEF TypeOK, LineType
    <2> QED
      BY <2>1, EnqueuedLines
      DEF BypassToNlp, Queued, LineType, Trace, fixedVars, outerVars, countVars
  <1> QED
    BY TypeStable, <1>1, <1>2, <1>3, <1>4, <1>5
    DEF TypeOK, BypassToNlp, Queued, countVars, windowVars, outerVars, fixedVars

LEMMA BypassToNmpType ==
  ASSUME TypeOK, NEW c \in HostCores, BypassToNmp(c)
  PROVE  TypeOK'
  <1>1. ControlType'
    BY CoreFacts DEF TypeOK, ControlType, BypassToNmp, Queued, countVars, windowVars,
      outerVars, fixedVars, Goto, At, Idle, Places, Returns, Callers
  <1>2. CoreType'
    BY CoreFacts DEF TypeOK, CoreType, BypassToNmp, LockOwn, Queued, countVars,
      windowVars, outerVars, fixedVars
  <1>3. SwitchType'
    BY CoreFacts, NumAssumption DEF TypeOK, SwitchType, BypassToNmp, Queued, countVars,
      windowVars, outerVars, fixedVars
  <1>4. RegionType'
    BY CoreFacts, NumAssumption DEF TypeOK, RegionType, BypassToNmp, Queued, countVars,
      windowVars, outerVars, fixedVars
  <1>5. LineType'
    <2>1. PICK u \in NmpTargets(c) : Queued(c, u)
      BY DEF BypassToNmp
    <2>2. LineType /\ trace_line[c] \in DOMAIN Trace /\ u \in Cores
      BY CoreFacts, TargetFacts DEF TypeOK, LineType
    <2> QED
      BY <2>1, <2>2, EnqueuedLines
      DEF Queued, LineType, Trace, fixedVars, outerVars, countVars
  <1> QED
    BY TypeStable, <1>1, <1>2, <1>3, <1>4, <1>5
    DEF TypeOK, BypassToNmp, Queued, countVars, windowVars, outerVars, fixedVars

LEMMA McpBeginType ==
  ASSUME TypeOK, NEW u \in Mcp, McpBegin(u)
  PROVE  TypeOK'
  <1>1. CoreType'
    BY CoreFacts DEF TypeOK, CoreType, McpBegin, mcpUnchanged, regionVars, switchVars,
      windowVars, fixedVars, Begin
  <1>2. LineType'
    BY CoreFacts DEF TypeOK, LineType, McpBegin, mcpUnchanged, regionVars, switchVars,
      windowVars, fixedVars, Begin, Trace
  <1>3. CountType'
    BY CoreFacts, NumAssumption DEF TypeOK, CountType, McpBegin, mcpUnchanged,
      regionVars, switchVars, windowVars, fixedVars, Begin, McpTick
  <1> QED
    BY TypeStable, <1>1, <1>2, <1>3
    DEF TypeOK, McpBegin, mcpUnchanged, regionVars, switchVars, windowVars, fixedVars,
      Begin

LEMMA McpStallType ==
  ASSUME TypeOK, NEW u \in Mcp, McpStall(u)
  PROVE  TypeOK'
  <1>1. CoreType'
    BY CoreFacts DEF TypeOK, CoreType, McpStall, countVars, execVars, mcpUnchanged,
      regionVars, switchVars, windowVars, fixedVars
  <1>2. CountType'
    BY CoreFacts, NumAssumption DEF TypeOK, CountType, McpStall, countVars, execVars,
      mcpUnchanged, regionVars, switchVars, windowVars, fixedVars, McpTick
  <1> QED
    BY TypeStable, <1>1, <1>2
    DEF TypeOK, McpStall, countVars, execVars, mcpUnchanged, regionVars, switchVars,
      windowVars, fixedVars

LEMMA McpCompleteType ==
  ASSUME TypeOK, NEW u \in Mcp, McpComplete(u)
  PROVE  TypeOK'
  <1>1. CoreType'
    BY CoreFacts DEF TypeOK, CoreType, McpComplete, mcpUnchanged, regionVars,
      switchVars, windowVars, fixedVars, Pop, countVars
  <1>2. LineType'
    <2>1. LineType /\ u \in Cores /\ Pop(u) /\ trace_line[u] \in DOMAIN Trace
      BY CoreFacts DEF TypeOK, McpComplete, LineType
    <2>2. trace_line' \in [Cores -> DOMAIN Trace] /\ inst_queue' \in [Cores ->
      Seq(DOMAIN Trace)]
      BY <2>1, PopLines
    <2>3. begun' \in [DOMAIN Trace -> Nat]
      BY <2>1, BeginLines DEF McpComplete, countVars, LineType
    <2> QED
      BY <2>1, <2>2, <2>3 DEF McpComplete, LineType, Trace, mcpUnchanged, fixedVars
  <1>3. CountType'
    BY CoreFacts, NumAssumption DEF TypeOK, CountType, McpComplete, mcpUnchanged,
      regionVars, switchVars, windowVars, fixedVars, Pop, countVars, McpTick
  <1> QED
    BY TypeStable, <1>1, <1>2, <1>3
    DEF TypeOK, McpComplete, mcpUnchanged, regionVars, switchVars, windowVars,
      fixedVars, Pop, countVars

LEMMA ReceiveLoadType ==
  ASSUME TypeOK, NEW c \in HostCores, ReceiveLoad(c)
  PROVE  TypeOK'
  <1>1. WindowType'
    BY CoreFacts, NumAssumption DEF TypeOK, WindowType, ReceiveLoad, countVars,
      regionVars, switchVars, execVars, outerVars, fixedVars
  <1> QED
    BY TypeStable, <1>1
    DEF TypeOK, ReceiveLoad, countVars, regionVars, switchVars, execVars, outerVars,
      fixedVars

LEMMA ReceiveFetchType ==
  ASSUME TypeOK, NEW u \in Cores, ReceiveFetch(u)
  PROVE  TypeOK'
  <1>1. CoreType'
    BY CoreFacts DEF TypeOK, CoreType, ReceiveFetch, countVars, regionVars, switchVars,
      windowVars, outerVars, fixedVars
  <1> QED
    BY TypeStable, <1>1
    DEF TypeOK, ReceiveFetch, countVars, regionVars, switchVars, windowVars, outerVars,
      fixedVars

LEMMA WarmedUpType ==
  ASSUME TypeOK, WarmedUp
  PROVE  TypeOK'
  <1>1. CountType'
    BY CoreFacts, NumAssumption DEF TypeOK, CountType, WarmedUp, countVars, regionVars,
      switchVars, windowVars, execVars
  <1> QED
    BY TypeStable, <1>1
    DEF TypeOK, WarmedUp, countVars, regionVars, switchVars, windowVars, execVars

LEMMA InitType == Init => TypeOK
  <1> SUFFICES ASSUME Init PROVE TypeOK
    OBVIOUS
  <1>1. Trace \in Seq(Lines) /\ Trace # <<>>
    BY ScenarioAssumption DEF Init, Trace
  <1>2. 1 \in DOMAIN Trace
    BY <1>1
  <1>3. Trace[1].mem \in Nat
    BY <1>1, <1>2, LineFields
  <1>4. LineType
    BY <1>2 DEF Init, LineType, Trace
  <1>5. ControlType
    BY CoreFacts DEF Init, ControlType, Idle, Places, Returns
  <1>6. CoreType
    BY DEF Init, CoreType
  <1>7. WindowType
    BY <1>3, NumAssumption DEF Init, WindowType, Trace
  <1>8. SwitchType
    BY DEF Init, SwitchType
  <1>9. RegionType
    BY NumAssumption DEF Init, RegionType
  <1>10. CountType
    BY ScenarioAssumption, NumAssumption DEF Init, CountType
  <1> QED
    BY <1>4, <1>5, <1>6, <1>7, <1>8, <1>9, <1>10 DEF TypeOK

LEMMA NextType == TypeOK /\ [Next]_vars => TypeOK'
  <1> SUFFICES ASSUME TypeOK, [Next]_vars PROVE TypeOK'
    OBVIOUS
  <1>1. ASSUME NEW c \in HostCores, StartTick(c) PROVE TypeOK'
    BY <1>1, TickHeldType, TickOverheadType, TickDispatchType, TickUnlockedType
    DEF StartTick
  <1>2. ASSUME NEW c \in HostCores, ContinueTick(c) PROVE TypeOK'
    BY <1>2, WaitType, SkipExecutionType, ReadOwnType, ReadOtherType, ReadQueueType,
       FinishType, NoStrategyType, HostOnlyType, NmpOnlySkipType, NmpOnlyBypassType,
       OffloadLineType, LeaveRegionType, ReadTagType, ScanToHostType, ScanEndType,
       BypassFullType, BypassToNlpType, BypassToNmpType
    DEF ContinueTick
  <1>3. ASSUME NEW c \in HostCores, TryExecute(c) \/ ReceiveLoad(c) PROVE TypeOK'
    BY <1>3, FetchRefusedType, ExecuteType, ReceiveLoadType DEF TryExecute
  <1>4. ASSUME NEW u \in Mcp, McpStep(u) PROVE TypeOK'
    BY <1>4, McpBeginType, McpStallType, McpCompleteType DEF McpStep
  <1>5. CASE UNCHANGED vars
    BY <1>5, TypeStable
    DEF TypeOK, vars, fixedVars, execVars, windowVars, switchVars, regionVars, countVars
  <1> QED
    BY <1>1, <1>2, <1>3, <1>4, <1>5, ReceiveFetchType, WarmedUpType DEF Next, HostStep

(* Every variable of the protocol keeps its kind, for every scenario: what *)
(* a core holds or queues is a line of the trace, and windows and counters *)
(* stay within their limits (Processor.cpp).                               *)
THEOREM OffloadTypeOK == Spec => []TypeOK
  BY InitType, NextType, PTL DEF Spec

----------------------------------------------------------------------------
(* The bound of the queues *)

(* Only a bypass lengthens the queue of an MCP core, by one line. *)
LEMMA BypassBound ==
  ASSUME TypeOK, QueuesBounded, QueueMax # 0, NEW c \in HostCores, NEW u \in Mcp,
         Queued(c, u), NEW w \in Mcp
  PROVE  Len(inst_queue'[w]) <= QueueMax
  <1>1. inst_queue[u] \in Seq(DOMAIN Trace) /\ Len(inst_queue[u]) < QueueMax
    BY CoreFacts, NumAssumption DEF TypeOK, LineType, Queued, Full
  <1>2. inst_queue' = [inst_queue EXCEPT ![u] = Append(@, trace_line[c])]
    BY DEF Queued, Enqueued
  <1>3. Len(Append(inst_queue[u], trace_line[c])) = Len(inst_queue[u]) + 1
    BY <1>1
  <1>4. Len(inst_queue[u]) + 1 <= QueueMax
    BY <1>1, NumAssumption
  <1> QED
    BY <1>2, <1>3, <1>4, CoreFacts DEF TypeOK, LineType, QueuesBounded

LEMMA TailShorter ==
  ASSUME NEW S, NEW q \in Seq(S), q # <<>>
  PROVE  Len(Tail(q)) \in Nat /\ Len(Tail(q)) < Len(q)
  OBVIOUS

(* An MCP core's queue does not grow when cores take what they have queued, *)
(* or when a line goes to the queue of a host core.                         *)
LEMMA GetFirstShorter ==
  ASSUME TypeOK, NEW S, NEW q, GetFirst(S, q), NEW w \in Mcp, q[w] = inst_queue[w]
  PROVE  Len(inst_queue'[w]) <= Len(inst_queue[w])
  <1>1. w \in Cores /\ inst_queue[w] \in Seq(DOMAIN Trace)
    BY CoreFacts DEF TypeOK, LineType
  <1>2. inst_queue'[w] = inst_queue[w]
        \/ (inst_queue[w] # <<>> /\ inst_queue'[w] = Tail(inst_queue[w]))
    BY <1>1 DEF GetFirst
  <1>3. Len(inst_queue[w]) \in Nat
    BY <1>1
  <1>4. inst_queue[w] # <<>> =>
          Len(Tail(inst_queue[w])) \in Nat /\ Len(Tail(inst_queue[w])) < Len(inst_queue[w])
    BY <1>1, TailShorter
  <1>5. CASE inst_queue'[w] = inst_queue[w]
    BY <1>3, <1>5
  <1>6. CASE inst_queue[w] # <<>> /\ inst_queue'[w] = Tail(inst_queue[w])
    BY <1>3, <1>4, <1>6
  <1> QED
    BY <1>2, <1>5, <1>6

LEMMA PopShorter ==
  ASSUME TypeOK, NEW u \in Cores, Pop(u), NEW w \in Mcp
  PROVE  Len(inst_queue'[w]) <= Len(inst_queue[w])
  <1>1. w \in Cores /\ inst_queue[w] \in Seq(DOMAIN Trace)
    BY CoreFacts DEF TypeOK, LineType
  <1>2. inst_queue'[w] = inst_queue[w]
        \/ (inst_queue[w] # <<>> /\ inst_queue'[w] = Tail(inst_queue[w]))
    BY <1>1 DEF Pop, TypeOK, LineType
  <1>3. Len(inst_queue[w]) \in Nat
    BY <1>1
  <1>4. inst_queue[w] # <<>> =>
          Len(Tail(inst_queue[w])) \in Nat /\ Len(Tail(inst_queue[w])) < Len(inst_queue[w])
    BY <1>1, TailShorter
  <1>5. CASE inst_queue'[w] = inst_queue[w]
    BY <1>3, <1>5
  <1>6. CASE inst_queue[w] # <<>> /\ inst_queue'[w] = Tail(inst_queue[w])
    BY <1>3, <1>4, <1>6
  <1> QED
    BY <1>2, <1>5, <1>6

LEMMA NextBounded == TypeOK /\ QueuesBounded /\ [Next]_vars => QueuesBounded'
  <1> SUFFICES ASSUME TypeOK, QueuesBounded, [Next]_vars, QueueMax # 0, NEW w \in Mcp
               PROVE  Len(inst_queue'[w]) <= QueueMax
    BY DEF QueuesBounded
  <1> DEFINE Shorter == Len(inst_queue'[w]) <= Len(inst_queue[w])
  <1>1. Len(inst_queue[w]) \in Nat /\ Len(inst_queue[w]) <= QueueMax /\ QueueMax \in Nat
    BY CoreFacts, NumAssumption DEF TypeOK, LineType, QueuesBounded
  <1>2. UNCHANGED inst_queue => Shorter
    BY <1>1
  <1>3. ASSUME NEW c \in HostCores, StartTick(c) PROVE Shorter
    <2>1. CASE TickDispatch(c)
      BY <2>1, GetFirstShorter DEF TickDispatch
    <2> QED
      BY <1>2, <1>3, <2>1
      DEF StartTick, TickHeld, TickOverhead, TickUnlocked, execVars
  <1>4. ASSUME NEW c \in HostCores, ReadOther(c) PROVE Shorter
    <2> DEFINE t == Trace[NextPlace].thread
               q == [inst_queue EXCEPT ![t] = Enqueued(@, NextPlace)]
    <2>1. t \in HostCores
      <3>1. NextPlace \in DOMAIN Trace
        BY TraceFacts DEF TypeOK, LineType, NextPlace
      <3> QED
        BY <3>1, TraceFacts, LineFields DEF TypeOK
    <2>2. q[w] = inst_queue[w]
      BY <2>1, CoreFacts DEF TypeOK, LineType
    <2>3. GetFirst({t}, q)
      BY <1>4 DEF ReadOther
    <2> QED
      BY <2>2, <2>3, GetFirstShorter
  <1>5. ASSUME NEW c \in HostCores, BypassToNlp(c) \/ BypassToNmp(c)
        PROVE  Len(inst_queue'[w]) <= QueueMax
    <2>1. \E u \in Mcp : Queued(c, u)
      BY <1>5, TargetFacts, CoreFacts DEF BypassToNlp, BypassToNmp
    <2> QED
      BY <2>1, BypassBound
  <1>6. ASSUME NEW c \in HostCores, ContinueTick(c), ~ReadOther(c),
               ~BypassToNlp(c), ~BypassToNmp(c)
        PROVE  Shorter
    <2>1. CASE ReadQueue(c)
      BY <2>1, PopShorter, CoreFacts DEF ReadQueue
    <2> QED
      BY <1>2, <1>6, <2>1
      DEF ContinueTick, Wait, SkipExecution, ReadOwn, Finish, NoStrategy, HostOnly,
          NmpOnlySkip, NmpOnlyBypass, OffloadLine, LeaveRegion, ReadTag, ScanToHost,
          ScanEnd, BypassFull, dataVars, execVars
  <1>7. ASSUME NEW c \in HostCores, TryExecute(c) \/ ReceiveLoad(c) PROVE Shorter
    BY <1>2, <1>7 DEF TryExecute, FetchRefused, Execute, ReceiveLoad, dataVars, execVars
  <1>8. ASSUME NEW u \in Mcp, McpStep(u) PROVE Shorter
    <2>1. CASE McpComplete(u)
      BY <2>1, PopShorter, CoreFacts DEF McpComplete
    <2> QED
      BY <1>2, <1>8, <2>1 DEF McpStep, McpBegin, McpStall, execVars
  <1>9. ASSUME (\E u \in Cores : ReceiveFetch(u)) \/ WarmedUp \/ UNCHANGED vars
        PROVE  Shorter
    <2>1. CASE \E u \in Cores : ReceiveFetch(u)
      BY <1>2, <2>1 DEF ReceiveFetch
    <2>2. CASE WarmedUp
      BY <1>2, <2>2 DEF WarmedUp, execVars
    <2>3. CASE UNCHANGED vars
      BY <1>2, <2>3 DEF vars, execVars
    <2> QED
      BY <1>9, <2>1, <2>2, <2>3
  <1>10. Len(inst_queue'[w]) <= QueueMax \/ Shorter
    BY <1>3, <1>4, <1>5, <1>6, <1>7, <1>8, <1>9 DEF Next, HostStep
  <1>11. Len(inst_queue'[w]) \in Nat
    BY NextType, CoreFacts DEF TypeOK, LineType
  <1> QED
    BY <1>1, <1>10, <1>11

(* No MCP core ever has more lines queued than mcp_core_queue_max_size,    *)
(* for every limit and every trace, though lines are refused by full       *)
(* queues and bypassed again later, to queues that have changed meanwhile  *)
(* (Core::instruction_bypass).                                             *)
THEOREM OffloadQueuesBounded == Spec => []QueuesBounded
  <1>1. Init => TypeOK /\ QueuesBounded
    <2>1. Init => \A u \in Mcp : Len(inst_queue[u]) = 0
      BY CoreFacts DEF Init
    <2> QED
      BY <2>1, InitType, NumAssumption DEF QueuesBounded
  <1>2. TypeOK /\ QueuesBounded /\ [Next]_vars => (TypeOK /\ QueuesBounded)'
    BY NextType, NextBounded
  <1> QED
    BY <1>1, <1>2, PTL DEF Spec

----------------------------------------------------------------------------
(* The flag and the set of regions *)

FlagInv == \A c \in HostCores : inside_region[c] <=> region_ids[c] # {}

(* A tag sets, clears or leaves both for the core that reads it. *)
LEMMA ReadTagFlag ==
  ASSUME TypeOK, FlagInv, NEW c \in HostCores, ReadTag(c)
  PROVE  FlagInv'
  <1> DEFINE opened == Opens(c) /\ Chosen(Held(c).region)
  <1>1. /\ region_ids'[c] = CASE opened -> region_ids[c] \cup {Held(c).region}
                              [] Closes(c) -> region_ids[c] \ {Held(c).region}
                              [] OTHER -> region_ids[c]
        /\ inside_region'[c] = CASE opened -> TRUE
                                 [] Closes(c) -> region_ids'[c] # {}
                                 [] OTHER -> inside_region[c]
    BY DEF ReadTag, TypeOK, RegionType, StillInside
  <1>2. opened => ~Closes(c)
    BY DEF Opens, Closes
  <1>3. inside_region'[c] <=> region_ids'[c] # {}
    <2>1. CASE opened
      BY <1>1, <1>2, <2>1
    <2>2. CASE Closes(c)
      BY <1>1, <1>2, <2>2
    <2>3. CASE ~opened /\ ~Closes(c)
      BY <1>1, <2>3 DEF FlagInv
    <2> QED
      BY <2>1, <2>2, <2>3
  <1>4. \A h \in HostCores \ {c} :
          inside_region'[h] = inside_region[h] /\ region_ids'[h] = region_ids[h]
    BY DEF ReadTag, TypeOK, RegionType
  <1> QED
    BY <1>3, <1>4 DEF FlagInv

LEMMA FlagStable ==
  ASSUME FlagInv, UNCHANGED <<inside_region, region_ids>>
  PROVE  FlagInv'
  BY DEF FlagInv

LEMMA NextFlag == TypeOK /\ FlagInv /\ [Next]_vars => FlagInv'
  <1> SUFFICES ASSUME TypeOK, FlagInv, [Next]_vars PROVE FlagInv'
    OBVIOUS
  <1>1. ASSUME NEW c \in HostCores, StartTick(c) PROVE FlagInv'
    BY <1>1, FlagStable DEF StartTick, TickHeld, TickOverhead, TickDispatch, TickUnlocked,
      regionVars
  <1>2. ASSUME NEW c \in HostCores, ContinueTick(c) PROVE FlagInv'
    <2>1. CASE BypassToNlp(c) \/ BypassToNmp(c)
      BY <2>1, FlagStable DEF BypassToNlp, BypassToNmp, Queued
    <2>2. CASE ReadOwn(c) \/ ReadOther(c) \/ ReadQueue(c)
      BY <2>2, FlagStable DEF ReadOwn, ReadOther, ReadQueue, regionVars
    <2>3. CASE Wait(c) \/ SkipExecution(c) \/ Finish(c) \/ BypassFull(c)
      BY <2>3, FlagStable DEF Wait, SkipExecution, Finish, BypassFull, dataVars, regionVars
    <2>4. CASE \/ NoStrategy(c) \/ HostOnly(c) \/ NmpOnlySkip(c) \/ NmpOnlyBypass(c)
               \/ OffloadLine(c) \/ LeaveRegion(c) \/ ScanToHost(c) \/ ScanEnd(c)
      BY <2>4, FlagStable DEF NoStrategy, HostOnly, NmpOnlySkip, NmpOnlyBypass, OffloadLine,
        LeaveRegion, ScanToHost, ScanEnd, dataVars, regionVars
    <2> QED
      BY <1>2, <2>1, <2>2, <2>3, <2>4, ReadTagFlag DEF ContinueTick
  <1>3. ASSUME NEW c \in HostCores, TryExecute(c) \/ ReceiveLoad(c) PROVE FlagInv'
    BY <1>3, FlagStable DEF TryExecute, FetchRefused, Execute, ReceiveLoad, dataVars, regionVars
  <1>4. ASSUME NEW u \in Mcp, McpStep(u) PROVE FlagInv'
    BY <1>4, FlagStable DEF McpStep, McpBegin, McpStall, McpComplete, mcpUnchanged, regionVars
  <1>5. ASSUME NEW u \in Cores, ReceiveFetch(u) PROVE FlagInv'
    BY <1>5, FlagStable DEF ReceiveFetch, regionVars
  <1>6. CASE WarmedUp \/ UNCHANGED vars
    BY <1>6, FlagStable DEF WarmedUp, vars, regionVars
  <1> QED
    BY <1>1, <1>2, <1>3, <1>4, <1>5, <1>6 DEF Next, HostStep

(* The flag inside_region and the set of offloaded regions agree at all    *)
(* times, for nested and interleaved regions, any number of threads and    *)
(* every trace: the strategies may ask either (Processor.h:135).           *)
THEOREM OffloadRegionFlagAgrees == Spec => []RegionFlagAgrees
  <1>1. Init => TypeOK /\ FlagInv
    BY InitType DEF Init, FlagInv
  <1>2. TypeOK /\ FlagInv /\ [Next]_vars => (TypeOK /\ FlagInv)'
    BY NextType, NextFlag
  <1>3. FlagInv => RegionFlagAgrees
    BY DEF FlagInv, RegionFlagAgrees
  <1> QED
    BY <1>1, <1>2, <1>3, PTL DEF Spec

----------------------------------------------------------------------------
(* Several host threads: the order of lines *)

(* Places that rise from a on, by at least d each, and end at b at the latest *)
Rising(d, a, q, b) ==
  /\ a <= b
  /\ \A i \in DOMAIN q : /\ a + d <= q[i] /\ q[i] <= b
                         /\ \A j \in 1 .. i - 1 : q[j] + d <= q[i]

LEMMA RisingTail ==
  ASSUME NEW d \in {0, 1}, NEW a \in Nat, NEW b \in Nat, NEW q \in Seq(Nat), q # <<>>,
         Rising(d, a, q, b)
  PROVE  Rising(d, Head(q), Tail(q), b) /\ a + d <= Head(q)
  <1>1. /\ 1 \in DOMAIN q /\ Head(q) = q[1] /\ q[1] \in Nat
        /\ \A i \in DOMAIN Tail(q) :
             i \in Nat \ {0} /\ i + 1 \in DOMAIN q /\ Tail(q)[i] = q[i + 1]
    OBVIOUS
  <1>2. a + d <= q[1] /\ q[1] <= b
    BY <1>1 DEF Rising
  <1>3. ASSUME NEW i \in DOMAIN Tail(q)
        PROVE  /\ q[1] + d <= Tail(q)[i] /\ Tail(q)[i] <= b
               /\ \A j \in 1 .. i - 1 : Tail(q)[j] + d <= Tail(q)[i]
    <2>1. /\ i \in Nat \ {0} /\ i + 1 \in DOMAIN q /\ Tail(q)[i] = q[i + 1]
          /\ 1 \in 1 .. (i + 1) - 1
      BY <1>1
    <2>2. q[i + 1] <= b /\ \A j \in 1 .. (i + 1) - 1 : q[j] + d <= q[i + 1]
      BY <2>1 DEF Rising
    <2>3. ASSUME NEW j \in 1 .. i - 1 PROVE Tail(q)[j] + d <= Tail(q)[i]
      <3>1. j \in DOMAIN Tail(q) /\ j + 1 \in 1 .. (i + 1) - 1
        BY <2>1
      <3> QED
        BY <1>1, <2>1, <2>2, <3>1
    <2> QED
      BY <2>1, <2>2, <2>3
  <1> QED
    BY <1>1, <1>2, <1>3 DEF Rising

LEMMA RisingAppend ==
  ASSUME NEW d \in {0, 1}, NEW a \in Nat, NEW b \in Nat, NEW c \in Nat, NEW q \in Seq(Nat),
         Rising(d, a, q, b), b + d <= c
  PROVE  Rising(d, a, Append(q, c), c)
  <1>1. a <= b /\ \A i \in DOMAIN q : /\ a + d <= q[i] /\ q[i] <= b /\ q[i] \in Nat
                                      /\ \A j \in 1 .. i - 1 : q[j] + d <= q[i]
    BY DEF Rising
  <1>2. ASSUME NEW i \in DOMAIN Append(q, c)
        PROVE  /\ a + d <= Append(q, c)[i] /\ Append(q, c)[i] <= c
               /\ \A j \in 1 .. i - 1 : Append(q, c)[j] + d <= Append(q, c)[i]
    <2>1. CASE i \in DOMAIN q
      <3>1. Append(q, c)[i] = q[i] /\ \A j \in 1 .. i - 1 : Append(q, c)[j] = q[j]
        BY <2>1
      <3> QED
        BY <1>1, <2>1, <3>1
    <2>2. CASE i \notin DOMAIN q
      <3>1. i = Len(q) + 1 /\ Append(q, c)[i] = c
        BY <2>2
      <3>2. \A j \in 1 .. i - 1 : j \in DOMAIN q /\ Append(q, c)[j] = q[j]
        BY <3>1
      <3> QED
        BY <1>1, <3>1, <3>2
    <2> QED
      BY <2>1, <2>2
  <1> QED
    BY <1>1, <1>2 DEF Rising

(* What bounds the places may move on. *)
LEMMA RisingLater ==
  ASSUME NEW d \in {0, 1}, NEW a \in Nat, NEW b \in Nat, NEW c \in Nat, NEW q \in Seq(Nat),
         Rising(d, a, q, b), b <= c
  PROVE  Rising(d, a, q, c)
  BY DEF Rising

HostsRise(d) ==
  /\ inst_queue[Master] = <<>>
  /\ \A h \in HostCores : Rising(d, trace_line[h], inst_queue[h], file_pos)

HostLineStays(h) == trace_line'[h] = trace_line[h] /\ inst_queue'[h] = inst_queue[h]

LEMMA HostTypes ==
  ASSUME TypeOK
  PROVE  /\ file_pos \in DOMAIN Trace /\ NextPlace \in DOMAIN Trace
         /\ file_pos \in Nat \ {0} /\ NextPlace \in Nat \ {0} /\ file_pos <= NextPlace
         /\ DOMAIN Trace = 1 .. Len(Trace) /\ Len(Trace) \in Nat \ {0}
         /\ \A p \in DOMAIN Trace : Trace[p].thread \in HostCores
         /\ \A u \in Cores : /\ trace_line[u] \in DOMAIN Trace /\ trace_line[u] \in Nat \ {0}
                             /\ inst_queue[u] \in Seq(DOMAIN Trace)
                             /\ inst_queue[u] \in Seq(Nat)
  <1>1. DOMAIN Trace = 1 .. Len(Trace) /\ Len(Trace) \in Nat \ {0} /\ file_pos \in DOMAIN Trace
    BY TraceFacts DEF TypeOK, LineType
  <1>2. NextPlace \in DOMAIN Trace /\ file_pos <= NextPlace
    BY <1>1 DEF NextPlace
  <1>3. \A p \in DOMAIN Trace : Trace[p].thread \in HostCores
    BY TraceFacts, LineFields DEF TypeOK
  <1>4. ASSUME NEW u \in Cores
        PROVE  /\ trace_line[u] \in DOMAIN Trace /\ trace_line[u] \in Nat \ {0}
               /\ inst_queue[u] \in Seq(DOMAIN Trace) /\ inst_queue[u] \in Seq(Nat)
    <2>1. trace_line[u] \in DOMAIN Trace /\ inst_queue[u] \in Seq(DOMAIN Trace)
      BY DEF TypeOK, LineType
    <2>2. DOMAIN Trace \subseteq Nat
      BY <1>1
    <2> QED
      BY <1>1, <2>1, <2>2
  <1> QED
    BY <1>1, <1>2, <1>3, <1>4

(* Only reading on changes what a host core holds or has queued. *)
LEMMA HostLinesSteps ==
  ASSUME TypeOK, [Next]_vars
  PROVE  \/ file_pos' = file_pos /\ \A h \in HostCores : HostLineStays(h)
         \/ ReadOwn(Master) \/ ReadOther(Master)
         \/ \E c \in HostCores : ReadQueue(c)
  <1> DEFINE Stays == file_pos' = file_pos /\ \A h \in HostCores : HostLineStays(h)
  <1>1. UNCHANGED <<file_pos, trace_line, inst_queue>> => Stays
    BY DEF HostLineStays
  <1>2. ASSUME NEW c \in HostCores, StartTick(c) PROVE Stays
    <2>1. CASE TickDispatch(c)
      <3>1. PICK S \in SUBSET Mcp : GetFirst(S, inst_queue)
        BY <2>1, CoreFacts DEF TickDispatch
      <3>2. file_pos' = file_pos
        BY <2>1 DEF TickDispatch
      <3> QED
        BY <3>1, <3>2, CoreFacts DEF GetFirst, HostLineStays
    <2> QED
      BY <1>1, <1>2, <2>1 DEF StartTick, TickHeld, TickOverhead, TickUnlocked, execVars
  <1>3. ASSUME NEW c \in HostCores, BypassToNlp(c) \/ BypassToNmp(c) PROVE Stays
    <2>1. PICK u \in Mcp : Queued(c, u)
      BY <1>3, TargetFacts, CoreFacts DEF BypassToNlp, BypassToNmp
    <2> QED
      BY <2>1, CoreFacts DEF Queued, HostLineStays, TypeOK, LineType
  <1>4. ASSUME NEW c \in HostCores, ContinueTick(c), ~ReadOwn(c), ~ReadOther(c), ~ReadQueue(c)
        PROVE  Stays
    <2>1. CASE BypassToNlp(c) \/ BypassToNmp(c)
      BY <1>3, <2>1
    <2> QED
      BY <1>1, <1>4, <2>1
      DEF ContinueTick, Wait, SkipExecution, Finish, NoStrategy, HostOnly, NmpOnlySkip,
          NmpOnlyBypass, OffloadLine, LeaveRegion, ReadTag, ScanToHost, ScanEnd, BypassFull,
          dataVars, execVars
  <1>5. ASSUME NEW c \in HostCores, TryExecute(c) \/ ReceiveLoad(c) PROVE Stays
    BY <1>1, <1>5 DEF TryExecute, FetchRefused, Execute, ReceiveLoad, dataVars, execVars
  <1>6. ASSUME NEW u \in Mcp, McpStep(u) PROVE Stays
    <2>1. CASE McpComplete(u)
      BY <2>1, CoreFacts DEF McpComplete, mcpUnchanged, Pop, HostLineStays, TypeOK, LineType
    <2> QED
      BY <1>1, <1>6, <2>1 DEF McpStep, McpBegin, McpStall, mcpUnchanged, execVars
  <1>7. ASSUME (\E u \in Cores : ReceiveFetch(u)) \/ WarmedUp \/ UNCHANGED vars
        PROVE  Stays
    <2>1. CASE \E u \in Cores : ReceiveFetch(u)
      BY <1>1, <2>1 DEF ReceiveFetch
    <2>2. CASE WarmedUp
      BY <1>1, <2>2 DEF WarmedUp, execVars
    <2>3. CASE UNCHANGED vars
      BY <1>1, <2>3 DEF vars, execVars
    <2> QED
      BY <1>7, <2>1, <2>2, <2>3
  <1>8. \A c \in HostCores : ReadOwn(c) \/ ReadOther(c) => c = Master
    BY DEF ReadOwn, ReadOther
  <1> QED
    BY <1>2, <1>4, <1>5, <1>6, <1>7, <1>8 DEF Next, HostStep

(* The core of another thread is given a line: at the back of its queue,   *)
(* whose oldest it takes in hand if it is idle.                            *)
LEMMA ReadOtherLines ==
  ASSUME TypeOK, ReadOther(Master)
  PROVE  LET t == Trace[NextPlace].thread
             q == Append(inst_queue[t], NextPlace) IN
         /\ t \in HostCores /\ t # Master /\ file_pos' = NextPlace
         /\ q \in Seq(DOMAIN Trace) /\ q \in Seq(Nat) /\ q # <<>>
         /\ IF more_reqs[t]
              THEN /\ trace_line'[t] = trace_line[t] /\ inst_queue'[t] = q
                   /\ more_reqs'[t] /\ fresh'[t] = fresh[t] /\ lock_core'[t] = lock_core[t]
              ELSE /\ trace_line'[t] = Head(q) /\ inst_queue'[t] = Tail(q)
                   /\ more_reqs'[t] /\ fresh'[t] /\ ~lock_core'[t]
         /\ \A h \in HostCores \ {t} :
              /\ HostLineStays(h)
              /\ more_reqs'[h] = more_reqs[h] /\ fresh'[h] = fresh[h]
              /\ lock_core'[h] = lock_core[h]
  <1> DEFINE t == Trace[NextPlace].thread
             q == Append(inst_queue[t], NextPlace)
             all == [inst_queue EXCEPT ![t] = Enqueued(@, NextPlace)]
  <1>1. t \in HostCores /\ t \in Cores /\ t # Master /\ file_pos' = NextPlace
    BY HostTypes, CoreFacts DEF ReadOther
  <1>2. q \in Seq(DOMAIN Trace) /\ q \in Seq(Nat) /\ q # <<>>
    BY <1>1, HostTypes
  <1>3. /\ all[t] = q /\ \A u \in Cores \ {t} : all[u] = inst_queue[u]
        /\ GetFirst({t}, all)
    BY <1>1 DEF ReadOther, Enqueued, TypeOK, LineType
  <1>4. /\ more_reqs \in [Cores -> BOOLEAN] /\ fresh \in [Cores -> BOOLEAN]
        /\ lock_core \in [Cores -> BOOLEAN]
    BY DEF TypeOK, CoreType
  <1>5. \A h \in HostCores \ {t} :
          /\ HostLineStays(h)
          /\ more_reqs'[h] = more_reqs[h] /\ fresh'[h] = fresh[h]
          /\ lock_core'[h] = lock_core[h]
    BY <1>3, <1>4, CoreFacts DEF GetFirst, HostLineStays
  <1>6. CASE more_reqs[t]
    <2>1. /\ trace_line'[t] = trace_line[t] /\ inst_queue'[t] = q
          /\ more_reqs'[t] /\ fresh'[t] = fresh[t] /\ lock_core'[t] = lock_core[t]
      BY <1>1, <1>3, <1>4, <1>6 DEF GetFirst
    <2> QED
      BY <1>1, <1>2, <1>5, <1>6, <2>1
  <1>7. CASE ~more_reqs[t]
    <2>1. /\ trace_line'[t] = Head(q) /\ inst_queue'[t] = Tail(q)
          /\ more_reqs'[t] /\ fresh'[t] /\ ~lock_core'[t]
      BY <1>1, <1>2, <1>3, <1>4, <1>7 DEF GetFirst, NextQueued
    <2> QED
      BY <1>1, <1>2, <1>5, <1>7, <2>1
  <1> QED
    BY <1>6, <1>7

LEMMA ReadQueueLines ==
  ASSUME TypeOK, NEW c \in HostCores, ReadQueue(c)
  PROVE  /\ c # Master /\ UNCHANGED <<file_pos, begun>>
         /\ IF inst_queue[c] # <<>>
              THEN /\ trace_line'[c] = Head(inst_queue[c]) /\ inst_queue'[c] = Tail(inst_queue[c])
                   /\ more_reqs'[c] = more_reqs[c] /\ fresh'[c] /\ ~lock_core'[c]
              ELSE HostLineStays(c) /\ ~more_reqs'[c] /\ fresh'[c] = fresh[c]
         /\ \A h \in HostCores \ {c} :
              /\ HostLineStays(h)
              /\ more_reqs'[h] = more_reqs[h] /\ fresh'[h] = fresh[h]
              /\ lock_core'[h] = lock_core[h]
  <1>1. c # Master /\ UNCHANGED <<file_pos, begun>> /\ c \in Cores
    BY CoreFacts DEF ReadQueue, countVars
  <1>2. CASE inst_queue[c] # <<>>
    BY <1>1, <1>2, CoreFacts
    DEF ReadQueue, Pop, NextQueued, HostLineStays, TypeOK, LineType, CoreType
  <1>3. CASE inst_queue[c] = <<>>
    BY <1>1, <1>3, CoreFacts
    DEF ReadQueue, Pop, HostLineStays, TypeOK, LineType, CoreType
  <1> QED
    BY <1>2, <1>3

(* The order is kept, and host cores only move on in the trace.            *)
LEMMA NextRises ==
  ASSUME TypeOK, TypeOK', [Next]_vars, NEW d \in {0, 1}, HostsRise(d),
         ReadOther(Master) => file_pos + d <= NextPlace
  PROVE  HostsRise(d)' /\ \A h \in HostCores : trace_line'[h] >= trace_line[h]
  <1> DEFINE Kept(h) == /\ Rising(d, trace_line'[h], inst_queue'[h], file_pos')
                        /\ trace_line'[h] >= trace_line[h]
  <1>1. /\ file_pos \in Nat /\ NextPlace \in Nat /\ file_pos <= NextPlace
        /\ Master \in HostCores
        /\ \A h \in HostCores : trace_line[h] \in Nat /\ inst_queue[h] \in Seq(Nat)
    BY HostTypes, CoreFacts
  <1>2. ASSUME NEW h \in HostCores, HostLineStays(h),
               file_pos' = file_pos \/ file_pos' = NextPlace
        PROVE  Kept(h)
    <2>1. Rising(d, trace_line[h], inst_queue[h], file_pos)
      BY DEF HostsRise
    <2>2. file_pos' \in Nat /\ file_pos <= file_pos'
      BY <1>1, <1>2
    <2>3. Rising(d, trace_line[h], inst_queue[h], file_pos')
      BY <1>1, <2>1, <2>2, RisingLater
    <2> QED
      BY <1>1, <1>2, <2>3 DEF HostLineStays
  <1>3. CASE file_pos' = file_pos /\ \A h \in HostCores : HostLineStays(h)
    BY <1>1, <1>2, <1>3 DEF HostsRise, HostLineStays
  <1>4. CASE ReadOwn(Master)
    <2>1. /\ file_pos' = NextPlace /\ trace_line'[Master] = NextPlace
          /\ inst_queue' = inst_queue
          /\ \A h \in HostCores \ {Master} : HostLineStays(h)
      BY <1>4, CoreFacts DEF ReadOwn, HostLineStays, TypeOK, LineType
    <2>2. trace_line[Master] <= file_pos
      BY <1>1 DEF HostsRise, Rising
    <2>3. Kept(Master)
      BY <1>1, <2>1, <2>2 DEF HostsRise, Rising
    <2>4. \A h \in HostCores : Kept(h)
      BY <1>2, <2>1, <2>3
    <2> QED
      BY <2>1, <2>4 DEF HostsRise
  <1>5. CASE ReadOther(Master)
    <2> DEFINE t == Trace[NextPlace].thread
               q == Append(inst_queue[t], NextPlace)
    <2>1. /\ t \in HostCores /\ t # Master /\ file_pos' = NextPlace
          /\ q \in Seq(Nat) /\ q # <<>>
          /\ \/ trace_line'[t] = trace_line[t] /\ inst_queue'[t] = q
             \/ trace_line'[t] = Head(q) /\ inst_queue'[t] = Tail(q)
          /\ \A h \in HostCores \ {t} : HostLineStays(h)
      BY <1>5, ReadOtherLines
    <2>2. Rising(d, trace_line[t], q, NextPlace)
      BY <1>1, <1>5, <2>1, RisingAppend DEF HostsRise
    <2> HIDE DEF q, t
    <2>3. Head(q) \in Nat /\ trace_line[t] \in Nat
      BY <1>1, <2>1
    <2>4. Kept(t)
      <3>1. CASE trace_line'[t] = trace_line[t] /\ inst_queue'[t] = q
        BY <2>1, <2>2, <2>3, <3>1
      <3>2. CASE trace_line'[t] = Head(q) /\ inst_queue'[t] = Tail(q)
        <4>1. Rising(d, Head(q), Tail(q), NextPlace) /\ trace_line[t] + d <= Head(q)
          BY <1>1, <2>1, <2>2, <2>3, RisingTail
        <4>2. trace_line[t] <= Head(q)
          BY <2>3, <4>1
        <4> QED
          BY <2>1, <3>2, <4>1, <4>2
      <3> QED
        BY <2>1, <3>1, <3>2
    <2>5. \A h \in HostCores : Kept(h)
      BY <1>2, <2>1, <2>4
    <2>6. inst_queue'[Master] = <<>>
      BY <1>1, <2>1 DEF HostsRise, HostLineStays
    <2> QED
      BY <2>5, <2>6 DEF HostsRise
  <1>6. ASSUME NEW c \in HostCores, ReadQueue(c)
        PROVE  HostsRise(d)' /\ \A h \in HostCores : trace_line'[h] >= trace_line[h]
    <2>1. /\ c # Master /\ file_pos' = file_pos
          /\ \/ HostLineStays(c)
             \/ /\ inst_queue[c] # <<>> /\ trace_line'[c] = Head(inst_queue[c])
                /\ inst_queue'[c] = Tail(inst_queue[c])
          /\ \A h \in HostCores \ {c} : HostLineStays(h)
      BY <1>6, ReadQueueLines
    <2>2. inst_queue[c] # <<>> =>
            /\ Rising(d, Head(inst_queue[c]), Tail(inst_queue[c]), file_pos)
            /\ trace_line[c] + d <= Head(inst_queue[c]) /\ Head(inst_queue[c]) \in Nat
      BY <1>1, RisingTail DEF HostsRise
    <2>3. Kept(c)
      BY <1>1, <1>2, <2>1, <2>2
    <2>4. \A h \in HostCores : Kept(h)
      BY <1>2, <2>1, <2>3
    <2>5. inst_queue'[Master] = <<>>
      BY <1>1, <2>1 DEF HostsRise, HostLineStays
    <2> QED
      BY <2>4, <2>5 DEF HostsRise
  <1> QED
    BY <1>3, <1>4, <1>5, <1>6, HostLinesSteps

(* Each host core goes through its lines in the order of the trace, in     *)
(* every mode and for any number of threads: what the master hands over to *)
(* another thread's core is behind all that this core has                  *)
(* (Core::get_next_instruction).                                           *)
THEOREM OffloadHostsKeepOrder ==
  Spec => [][\A h \in HostCores : trace_line'[h] >= trace_line[h]]_vars
  <1>1. Init => TypeOK /\ HostsRise(0)
    <2>1. Init => HostsRise(0)
      BY CoreFacts DEF Init, HostsRise, Rising
    <2> QED
      BY <2>1, InitType
  <1>2. TypeOK /\ HostsRise(0) /\ [Next]_vars =>
          /\ (TypeOK /\ HostsRise(0))'
          /\ [\A h \in HostCores : trace_line'[h] >= trace_line[h]]_vars
    <2> SUFFICES ASSUME TypeOK, HostsRise(0), [Next]_vars
                 PROVE  /\ (TypeOK /\ HostsRise(0))'
                        /\ \A h \in HostCores : trace_line'[h] >= trace_line[h]
      OBVIOUS
    <2>1. TypeOK'
      BY NextType
    <2>2. file_pos + 0 <= NextPlace
      BY HostTypes
    <2> QED
      BY <2>1, <2>2, NextRises
  <1> QED
    BY <1>1, <1>2, PTL DEF Spec

----------------------------------------------------------------------------
(* Several host threads, all lines performed by the host *)

HostOnlyMode == config.mode = "Host-Only"

InTick == ctl.at # "idle"

(* Nothing is bypassed, a core that has a line is not locked, and one that *)
(* loses its line in a tick has no other queued.                           *)
HostOnlyInv ==
  /\ HostOnlyMode
  /\ \A h \in HostCores : /\ ~inside_region[h] /\ ~pending_bypass[h]
                          /\ lock_core[h] => ~more_reqs[h]
  /\ ctl.at \in {"idle", "wait", "execute", "next", "decide", "host_only", "finish"}
  /\ ctl.at = "next" => ctl.ret \in {"decide", "host_only"}
  /\ ctl.at \in {"wait", "execute"} => more_reqs[ctl.core]
  /\ InTick /\ ctl.core # Master /\ ~more_reqs[ctl.core] => inst_queue[ctl.core] = <<>>

lineVars == <<file_pos, trace_line, inst_queue, fresh, more_reqs, cpu_inst, begun>>
quietVars == <<config, lineVars, lock_core, inside_region, pending_bypass>>

(* The core goes on in its tick, or ends it, before it reads a line. *)
GoesOn(c) ==
  \/ ctl' = Idle
  \/ \E back \in Returns : Goto(c, "wait", back) /\ more_reqs[c]
  \/ \E back \in Returns : Goto(c, "execute", back) /\ more_reqs[c]
  \/ InTick /\ ctl.core = c /\ Goto(c, "finish", "none")
  \/ InTick /\ ctl.core = c /\ IsTag(Held(c)) /\ Goto(c, "next", "host_only")

(* What happens when the host performs all lines *)
LEMMA HostOnlySteps ==
  ASSUME TypeOK, HostOnlyInv, [Next]_vars
  PROVE  \/ UNCHANGED <<quietVars, ctl>>
         \/ \E c \in HostCores : /\ ctl = Idle \/ (ctl.core = c /\ ctl.at # "next")
                                 /\ GoesOn(c) /\ UNCHANGED quietVars
         \/ \E c \in HostCores : Execute(c, TRUE) \/ Execute(c, FALSE) \/ Finish(c)
         \/ ReadOwn(Master) \/ ReadOther(Master)
         \/ \E c \in HostCores : ReadQueue(c)
  <1> DEFINE Quiet(c) == /\ ctl = Idle \/ (ctl.core = c /\ ctl.at # "next")
                         /\ GoesOn(c) /\ UNCHANGED quietVars
  <1>1. ASSUME NEW c \in HostCores, StartTick(c) PROVE Quiet(c)
    <2>1. CASE TickHeld(c)
      BY <2>1 DEF TickHeld, GoesOn, quietVars, lineVars, execVars, countVars, switchVars,
        regionVars, fixedVars
    <2>2. CASE TickUnlocked(c)
      <3>1. Goto(c, "wait", "retry") /\ more_reqs[c] /\ ctl = Idle
        BY <2>2 DEF TickUnlocked, AfterGate, MayProceed, HostOnlyInv
      <3>2. UNCHANGED quietVars
        BY <2>2 DEF TickUnlocked, quietVars, lineVars, execVars, countVars, switchVars,
          regionVars, fixedVars
      <3> QED
        BY <3>1, <3>2 DEF GoesOn, Returns
    <2>3. CASE TickOverhead(c) \/ TickDispatch(c)
      BY <2>3 DEF TickOverhead, TickDispatch, MayProceed, HostOnlyInv
    <2> QED
      BY <1>1, <2>1, <2>2, <2>3 DEF StartTick
  <1>2. ASSUME NEW c \in HostCores, Wait(c) PROVE Quiet(c)
    <2>1. ctl' = Idle \/ (Goto(c, "execute", "none") /\ more_reqs[c])
      BY <1>2 DEF Wait, At, HostOnlyInv
    <2>2. UNCHANGED quietVars /\ ctl.core = c /\ ctl.at # "next"
      BY <1>2 DEF Wait, At, quietVars, lineVars, execVars, countVars, regionVars, outerVars,
        fixedVars
    <2> QED
      BY <2>1, <2>2 DEF GoesOn, Returns
  <1>3. ASSUME NEW c \in HostCores, FetchRefused(c) \/ NoStrategy(c) \/ HostOnly(c)
        PROVE  Quiet(c)
    <2>1. UNCHANGED quietVars /\ ctl.core = c /\ ctl.at # "next" /\ InTick
      BY <1>3 DEF InTick, FetchRefused, NoStrategy, HostOnly, Strategy, At, dataVars, quietVars,
        lineVars, execVars, countVars, switchVars, regionVars, fixedVars
    <2>2. \/ ctl' = Idle \/ Goto(c, "finish", "none")
          \/ Goto(c, "next", "host_only") /\ IsTag(Held(c))
      BY <1>3 DEF FetchRefused, NoStrategy, HostOnly, Strategy, HostOnlyInv, HostOnlyMode
    <2> QED
      BY <2>1, <2>2 DEF GoesOn, Returns
  <1>4. ASSUME NEW c \in HostCores, ContinueTick(c)
        PROVE  \/ Quiet(c)
               \/ Finish(c) \/ ReadQueue(c) \/ (c = Master /\ (ReadOwn(c) \/ ReadOther(c)))
    <2>1. ~SkipExecution(c) /\ ~BypassFull(c) /\ ~BypassToNlp(c) /\ ~BypassToNmp(c)
      BY DEF SkipExecution, BypassFull, BypassToNlp, BypassToNmp, At, HostOnlyInv
    <2>2. ~NmpOnlySkip(c) /\ ~NmpOnlyBypass(c)
      BY DEF NmpOnlySkip, NmpOnlyBypass, At, HostOnlyInv, HostOnlyMode
    <2>3. /\ ~OffloadLine(c) /\ ~LeaveRegion(c) /\ ~ReadTag(c)
          /\ ~ScanToHost(c) /\ ~ScanEnd(c)
      BY DEF OffloadLine, LeaveRegion, ReadTag, ScanToHost, ScanEnd, Offloading, At, HostOnlyInv,
        HostOnlyMode
    <2> QED
      BY <1>2, <1>3, <1>4, <2>1, <2>2, <2>3 DEF ContinueTick, ReadOwn, ReadOther
  <1>5. ASSUME NEW u \in Mcp PROVE ~McpStep(u)
    BY DEF McpStep, McpBegin, McpStall, McpComplete, McpTick, HostOnlyInv, HostOnlyMode
  <1>6. ASSUME \/ \E c \in HostCores : ReceiveLoad(c)
               \/ \E u \in Cores : ReceiveFetch(u)
               \/ WarmedUp \/ UNCHANGED vars
        PROVE  UNCHANGED <<quietVars, ctl>>
    <2>1. CASE \E c \in HostCores : ReceiveLoad(c)
      BY <2>1 DEF ReceiveLoad, quietVars, lineVars, execVars, countVars, switchVars, regionVars,
        outerVars, fixedVars
    <2>2. CASE \E u \in Cores : ReceiveFetch(u)
      BY <2>2 DEF ReceiveFetch, quietVars, lineVars, execVars, countVars, switchVars, regionVars,
        outerVars, fixedVars
    <2>3. CASE WarmedUp \/ UNCHANGED vars
      BY <2>3 DEF WarmedUp, vars, quietVars, lineVars, execVars, countVars, switchVars, regionVars,
        outerVars, fixedVars
    <2> QED
      BY <1>6, <2>1, <2>2, <2>3
  <1>7. ASSUME NEW c \in HostCores, TryExecute(c)
        PROVE  Quiet(c) \/ Execute(c, TRUE) \/ Execute(c, FALSE)
    BY <1>3, <1>7 DEF TryExecute
  <1>8. ASSUME NEW c \in HostCores, HostStep(c)
        PROVE  \/ UNCHANGED <<quietVars, ctl>> \/ Quiet(c)
               \/ Execute(c, TRUE) \/ Execute(c, FALSE) \/ Finish(c) \/ ReadQueue(c)
               \/ (c = Master /\ (ReadOwn(c) \/ ReadOther(c)))
    BY <1>1, <1>4, <1>6, <1>7, <1>8 DEF HostStep
  <1> HIDE DEF Quiet
  <1>9. CASE UNCHANGED <<quietVars, ctl>>
    BY <1>9
  <1>10. CASE \E c \in HostCores : HostStep(c)
    <2>1. PICK c \in HostCores : HostStep(c)
      BY <1>10
    <2> QED
      BY <1>8, <2>1 DEF Quiet
  <1> QED
    BY <1>5, <1>6, <1>10 DEF Next

LEMMA NextHostOnly ==
  ASSUME TypeOK, TypeOK', HostOnlyInv, [Next]_vars
  PROVE  HostOnlyInv'
  <1>1. CASE UNCHANGED <<quietVars, ctl>>
    BY <1>1 DEF quietVars, lineVars, HostOnlyInv, HostOnlyMode, InTick
  <1>2. ASSUME NEW c \in HostCores, GoesOn(c), UNCHANGED quietVars
        PROVE  HostOnlyInv'
    <2>1. /\ ctl'.at \in {"idle", "wait", "execute", "next", "finish"}
          /\ ctl'.at = "next" => ctl'.ret = "host_only"
          /\ ctl'.at \in {"wait", "execute"} => more_reqs[ctl'.core]
          /\ InTick' => ctl'.core = c /\ (more_reqs[c] \/ (InTick /\ ctl.core = c))
      BY <1>2 DEF GoesOn, Goto, Idle, InTick
    <2>2. UNCHANGED <<config, inst_queue, more_reqs, lock_core, inside_region, pending_bypass>>
      BY <1>2 DEF quietVars, lineVars
    <2> QED
      BY <2>1, <2>2 DEF HostOnlyInv, HostOnlyMode
  <1>3. ASSUME NEW c \in HostCores, Execute(c, TRUE) \/ Execute(c, FALSE)
        PROVE  HostOnlyInv'
    <2>1. ctl' = Idle \/ Goto(c, "next", "decide")
      BY <1>3 DEF Execute
    <2>2. /\ UNCHANGED <<config, inst_queue, more_reqs, lock_core, inside_region, pending_bypass>>
          /\ more_reqs[c]
      BY <1>3 DEF Execute, At, HostOnlyInv, outerVars, fixedVars, switchVars, regionVars
    <2> QED
      BY <2>1, <2>2 DEF HostOnlyInv, HostOnlyMode, Goto, Idle, InTick
  <1>4. ASSUME NEW c \in HostCores, Finish(c) PROVE HostOnlyInv'
    <2>1. ctl' = Idle /\ UNCHANGED <<config, lock_core, inside_region, pending_bypass>>
      BY <1>4 DEF Finish, outerVars, fixedVars, switchVars, regionVars
    <2>2. \A h \in HostCores : more_reqs'[h] => more_reqs[h]
      BY <1>4, CoreFacts DEF Finish, TypeOK, CoreType
    <2> QED
      BY <2>1, <2>2 DEF HostOnlyInv, HostOnlyMode, Idle, InTick
  <1>5. CASE ReadOwn(Master)
    <2>1. ctl' = [core |-> Master, at |-> ctl.ret, ret |-> "none"]
          /\ ctl.ret \in {"decide", "host_only"}
      BY <1>5 DEF ReadOwn, Goto, At, HostOnlyInv
    <2>2. /\ UNCHANGED <<config, inside_region, pending_bypass>>
          /\ \A h \in HostCores : lock_core'[h] => ~more_reqs'[h]
      BY <1>5, CoreFacts DEF ReadOwn, outerVars, fixedVars, switchVars, regionVars, HostOnlyInv,
        TypeOK, CoreType
    <2> QED
      BY <2>1, <2>2 DEF HostOnlyInv, HostOnlyMode
  <1>6. CASE ReadOther(Master)
    <2>1. /\ UNCHANGED <<config, ctl, inside_region, pending_bypass>>
          /\ ctl.at = "next" /\ ctl.core = Master
      BY <1>6 DEF ReadOther, At, outerVars, fixedVars, switchVars, regionVars
    <2>2. \A h \in HostCores : lock_core'[h] => ~more_reqs'[h]
      BY <1>6, ReadOtherLines DEF HostOnlyInv
    <2> QED
      BY <2>1, <2>2 DEF HostOnlyInv, HostOnlyMode
  <1>7. ASSUME NEW c \in HostCores, ReadQueue(c) PROVE HostOnlyInv'
    <2>1. ctl' = [core |-> c, at |-> ctl.ret, ret |-> "none"]
          /\ ctl.ret \in {"decide", "host_only"}
      BY <1>7 DEF ReadQueue, Goto, At, HostOnlyInv
    <2>2. UNCHANGED <<config, inside_region, pending_bypass>>
      BY <1>7 DEF ReadQueue, outerVars, fixedVars, switchVars, regionVars
    <2>3. \A h \in HostCores : lock_core'[h] => ~more_reqs'[h]
      BY <1>7, ReadQueueLines DEF HostOnlyInv
    <2>4. ~more_reqs'[c] => inst_queue'[c] = <<>>
      BY <1>7, ReadQueueLines DEF HostOnlyInv, HostLineStays, InTick, ReadQueue, At
    <2> QED
      BY <2>1, <2>2, <2>3, <2>4 DEF HostOnlyInv, HostOnlyMode
  <1> QED
    BY <1>1, <1>2, <1>3, <1>4, <1>5, <1>6, <1>7, HostOnlySteps

LEMMA InitHostOnly == Init /\ HostOnlyMode => HostOnlyInv
  <1> SUFFICES ASSUME Init, HostOnlyMode PROVE HostOnlyInv
    OBVIOUS
  <1>1. \A h \in HostCores : lock_core[h] => ~more_reqs[h]
    BY CoreFacts DEF Init, HostOnlyMode
  <1>2. \A h \in HostCores : ~inside_region[h] /\ ~pending_bypass[h]
    BY DEF Init
  <1> QED
    BY <1>1, <1>2 DEF Init, HostOnlyInv, Idle, InTick

(* When the last line of the file is another thread's, the master reads it *)
(* over and over, and its tick never ends.                                 *)
ReadsForEver ==
  At(Master, "next") /\ file_pos = Len(Trace) /\ LastLine.thread # Master

(* The core that a line is for: the master takes the first whatever it is. *)
Owner(p) == IF p = 1 THEN Master ELSE Trace[p].thread

(* Core h has lines of its own only, no two the same, and those that wait  *)
(* were not begun.                                                         *)
HostLines(h) ==
  /\ \A i \in DOMAIN inst_queue[h] :
       Owner(inst_queue[h][i]) = h /\ begun[inst_queue[h][i]] = 0
  /\ more_reqs[h] => Owner(trace_line[h]) = h
  /\ more_reqs[h] /\ fresh[h] => begun[trace_line[h]] = 0

ThreadsOnce ==
  /\ HostsRise(1)
  /\ \A h \in HostCores : HostLines(h)
  /\ \A p \in DOMAIN Trace : p > file_pos => begun[p] = 0

ThreadsInv == PerformedOnce /\ (ReadsForEver \/ ThreadsOnce)

(* What a step leaves *)
LEMMA QuietOnce ==
  ASSUME UNCHANGED quietVars
  PROVE  /\ PerformedOnce => PerformedOnce'
         /\ ThreadsOnce => ThreadsOnce'
  <1>1. UNCHANGED <<Trace, file_pos, trace_line, inst_queue, fresh, more_reqs, begun>>
    BY DEF quietVars, lineVars, Trace
  <1>2. PerformedOnce => PerformedOnce'
    BY <1>1 DEF PerformedOnce, OnceIn
  <1>3. ThreadsOnce => ThreadsOnce'
    BY <1>1 DEF ThreadsOnce, HostsRise, HostLines, Owner, Rising
  <1> QED
    BY <1>2, <1>3

LEMMA ExecuteThreads ==
  ASSUME TypeOK, HostOnlyInv, PerformedOnce, ThreadsOnce, NEW c \in HostCores,
         Execute(c, TRUE) \/ Execute(c, FALSE)
  PROVE  PerformedOnce' /\ ThreadsOnce'
  <1>1. /\ UNCHANGED <<Trace, file_pos, trace_line, inst_queue, more_reqs>>
        /\ more_reqs[c] /\ c \in Cores
        /\ IF fresh[c] THEN /\ fresh' = [fresh EXCEPT ![c] = FALSE]
                            /\ begun' = [begun EXCEPT ![trace_line[c]] = @ + 1]
                       ELSE UNCHANGED <<fresh, begun>>
    BY CoreFacts DEF Execute, At, Begin, countVars, outerVars, fixedVars, Trace, HostOnlyInv
  <1>2. CASE ~fresh[c]
    BY <1>1, <1>2 DEF PerformedOnce, OnceIn, ThreadsOnce, HostsRise, HostLines, Owner, Rising
  <1>3. CASE fresh[c]
    <2> DEFINE p == trace_line[c]
    <2>1. /\ p \in DOMAIN Trace /\ p <= file_pos /\ begun[p] = 0 /\ Owner(p) = c
          /\ begun \in [DOMAIN Trace -> Nat] /\ fresh \in [Cores -> BOOLEAN]
      BY <1>1, <1>3 DEF ThreadsOnce, HostsRise, HostLines, Rising, TypeOK, LineType, CoreType
    <2>2. begun'[p] = 1 /\ \A o \in DOMAIN Trace : o # p => begun'[o] = begun[o]
      BY <1>1, <1>3, <2>1
    <2>3. PerformedOnce'
      BY <1>1, <2>1, <2>2 DEF PerformedOnce, OnceIn
    <2>4. ASSUME NEW h \in HostCores PROVE HostLines(h)'
      <3>1. /\ trace_line[h] \in DOMAIN Trace /\ trace_line[h] \in Nat \ {0}
            /\ inst_queue[h] \in Seq(DOMAIN Trace) /\ inst_queue[h] \in Seq(Nat)
            /\ h \in Cores
        BY HostTypes, CoreFacts
      <3>2. ASSUME NEW i \in DOMAIN inst_queue[h] PROVE inst_queue[h][i] # p
        <4>1. inst_queue[h][i] \in Nat /\ trace_line[h] + 1 <= inst_queue[h][i]
          BY <3>1 DEF ThreadsOnce, HostsRise, Rising
        <4>2. CASE h = c
          BY <3>1, <4>1, <4>2
        <4>3. CASE h # c
          BY <2>1, <4>3 DEF ThreadsOnce, HostLines
        <4> QED
          BY <4>2, <4>3
      <3>3. \A i \in DOMAIN inst_queue[h] :
              inst_queue[h][i] \in DOMAIN Trace /\ begun'[inst_queue[h][i]] = 0
        BY <2>2, <3>1, <3>2 DEF ThreadsOnce, HostLines
      <3>4. (more_reqs[h] /\ fresh[h])' => begun'[trace_line[h]] = 0
        <4>1. CASE h = c
          BY <1>1, <1>3, <2>1, <3>1, <4>1
        <4>2. CASE h # c
          <5>1. more_reqs[h] => trace_line[h] # p
            BY <2>1, <4>2 DEF ThreadsOnce, HostLines
          <5>2. fresh'[h] = fresh[h]
            BY <1>1, <1>3, <2>1, <3>1, <4>2
          <5> QED
            BY <1>1, <2>2, <3>1, <5>1, <5>2 DEF ThreadsOnce, HostLines
        <4> QED
          BY <4>1, <4>2
      <3>5. \A i \in DOMAIN inst_queue[h] : Owner(inst_queue[h][i]) = h
        BY DEF ThreadsOnce, HostLines
      <3>6. more_reqs[h] => Owner(trace_line[h]) = h
        BY DEF ThreadsOnce, HostLines
      <3> QED
        BY <1>1, <3>3, <3>4, <3>5, <3>6 DEF HostLines, Owner
    <2>5. HostsRise(1)'
      BY <1>1 DEF ThreadsOnce, HostsRise, Rising
    <2>6. \A o \in DOMAIN Trace : o > file_pos => begun'[o] = 0
      <3>1. file_pos \in Nat /\ p \in Nat /\ DOMAIN Trace \subseteq Nat
        BY HostTypes, CoreFacts
      <3>2. \A o \in DOMAIN Trace : o > file_pos => o # p
        BY <2>1, <3>1
      <3> QED
        BY <2>2, <3>2 DEF ThreadsOnce
    <2> QED
      BY <1>1, <2>3, <2>4, <2>5, <2>6 DEF ThreadsOnce
  <1> QED
    BY <1>2, <1>3

LEMMA FinishThreads ==
  ASSUME TypeOK, PerformedOnce, ThreadsOnce, NEW c \in HostCores, Finish(c)
  PROVE  PerformedOnce' /\ ThreadsOnce'
  <1>1. /\ UNCHANGED <<Trace, file_pos, trace_line, inst_queue, fresh, begun>>
        /\ \A h \in HostCores : more_reqs'[h] => more_reqs[h]
    BY CoreFacts DEF Finish, outerVars, fixedVars, countVars, Trace, TypeOK, CoreType
  <1>2. PerformedOnce'
    BY <1>1 DEF PerformedOnce, OnceIn
  <1>3. \A h \in HostCores : HostLines(h)'
    BY <1>1 DEF ThreadsOnce, HostLines, Owner
  <1>4. HostsRise(1)'
    BY <1>1 DEF ThreadsOnce, HostsRise, Rising
  <1> QED
    BY <1>1, <1>2, <1>3, <1>4 DEF ThreadsOnce

(* The line behind those read: not begun, and no core has it. *)
LEMMA NewPlace ==
  ASSUME TypeOK, ThreadsOnce, file_pos < Len(Trace)
  PROVE  /\ NextPlace = file_pos + 1 /\ NextPlace # 1 /\ begun[NextPlace] = 0
         /\ Owner(NextPlace) = Trace[NextPlace].thread
  BY HostTypes DEF NextPlace, ThreadsOnce, Owner

LEMMA ReadOwnThreads ==
  ASSUME TypeOK, TypeOK', [Next]_vars, PerformedOnce, ThreadsOnce, ReadOwn(Master)
  PROVE  PerformedOnce' /\ ThreadsOnce'
  <1>1. /\ UNCHANGED <<Trace, inst_queue, begun>> /\ file_pos' = NextPlace
        /\ Trace[NextPlace].thread = Master
        /\ trace_line'[Master] = NextPlace /\ more_reqs'[Master] = NextMore
        /\ \A h \in HostCores \ {Master} :
             HostLineStays(h) /\ more_reqs'[h] = more_reqs[h] /\ fresh'[h] = fresh[h]
    BY CoreFacts DEF ReadOwn, outerVars, fixedVars, countVars, Trace, HostLineStays, TypeOK, LineType,
      CoreType
  <1>2. PerformedOnce'
    BY <1>1 DEF PerformedOnce, OnceIn
  <1>3. HostsRise(1)'
    <2>1. ~ReadOther(Master)
      BY <1>1 DEF ReadOther
    <2> QED
      BY <2>1, NextRises DEF ThreadsOnce
  <1>4. HostLines(Master)'
    <2>1. inst_queue'[Master] = <<>>
      BY <1>1 DEF ThreadsOnce, HostsRise
    <2>2. more_reqs'[Master] => begun[NextPlace] = 0
      BY <1>1, NewPlace DEF NextMore
    <2>3. Owner(NextPlace) = Master
      BY <1>1 DEF Owner
    <2> QED
      BY <1>1, <2>1, <2>2, <2>3 DEF HostLines, Owner
  <1>5. \A h \in HostCores \ {Master} : HostLines(h)'
    BY <1>1 DEF ThreadsOnce, HostLines, Owner, HostLineStays
  <1>6. \A p \in DOMAIN Trace : p > file_pos' => begun[p] = 0
    BY <1>1, HostTypes DEF ThreadsOnce
  <1> QED
    BY <1>1, <1>2, <1>3, <1>4, <1>5, <1>6 DEF ThreadsOnce

LEMMA ReadOtherThreads ==
  ASSUME TypeOK, TypeOK', [Next]_vars, PerformedOnce, ThreadsOnce, ReadOther(Master),
         ~ReadsForEver
  PROVE  PerformedOnce' /\ ThreadsOnce'
  <1> PICK t \in HostCores : t = Trace[NextPlace].thread
    BY HostTypes
  <1> DEFINE q == Append(inst_queue[t], NextPlace)
  <1>1. /\ UNCHANGED <<Trace, begun>> /\ t # Master /\ file_pos' = NextPlace /\ At(Master, "next")
    BY DEF ReadOther, outerVars, fixedVars, countVars, Trace
  <1>2. file_pos < Len(Trace)
    BY <1>1, HostTypes DEF ReadsForEver, NextPlace, LastLine
  <1>3. /\ NextPlace = file_pos + 1 /\ begun[NextPlace] = 0 /\ Owner(NextPlace) = t
    BY <1>2, NewPlace
  <1>4. PerformedOnce'
    BY <1>1 DEF PerformedOnce, OnceIn
  <1>5. HostsRise(1)'
    BY <1>3, HostTypes, NextRises DEF ThreadsOnce
  <1>6. /\ t \in HostCores /\ q \in Seq(Nat) /\ q # <<>> /\ inst_queue[t] \in Seq(Nat)
        /\ \/ /\ trace_line'[t] = trace_line[t] /\ inst_queue'[t] = q
              /\ more_reqs[t] /\ fresh'[t] = fresh[t]
           \/ trace_line'[t] = Head(q) /\ inst_queue'[t] = Tail(q)
        /\ \A h \in HostCores \ {t} :
             HostLineStays(h) /\ more_reqs'[h] = more_reqs[h] /\ fresh'[h] = fresh[h]
    BY ReadOtherLines, HostTypes, CoreFacts
  <1>7. \A i \in DOMAIN q : Owner(q[i]) = t /\ begun[q[i]] = 0
    <2>1. ASSUME NEW i \in DOMAIN q
          PROVE  q[i] = NextPlace \/ (i \in DOMAIN inst_queue[t] /\ q[i] = inst_queue[t][i])
      <3>1. CASE i \in DOMAIN inst_queue[t]
        BY <1>6, <3>1
      <3>2. CASE i \notin DOMAIN inst_queue[t]
        <4>1. i = Len(inst_queue[t]) + 1
          BY <1>6, <3>2
        <4> QED
          BY <1>6, <4>1
      <3> QED
        BY <3>1, <3>2
    <2> QED
      BY <1>3, <1>6, <2>1 DEF ThreadsOnce, HostLines
  <1>8. HostLines(t)'
    <2> HIDE DEF q
    <2>1. CASE /\ trace_line'[t] = trace_line[t] /\ inst_queue'[t] = q
               /\ more_reqs[t] /\ fresh'[t] = fresh[t]
      BY <1>1, <1>6, <1>7, <2>1 DEF ThreadsOnce, HostLines, Owner
    <2>2. CASE trace_line'[t] = Head(q) /\ inst_queue'[t] = Tail(q)
      <3>1. /\ 1 \in DOMAIN q /\ Head(q) = q[1]
            /\ \A i \in DOMAIN Tail(q) : i + 1 \in DOMAIN q /\ Tail(q)[i] = q[i + 1]
        BY <1>6
      <3> QED
        BY <1>1, <1>7, <2>2, <3>1 DEF HostLines, Owner
    <2> QED
      BY <1>6, <2>1, <2>2
  <1>9. \A h \in HostCores \ {t} : HostLines(h)'
    BY <1>1, <1>6 DEF ThreadsOnce, HostLines, Owner, HostLineStays
  <1>10. \A p \in DOMAIN Trace : p > file_pos' => begun[p] = 0
    BY <1>1, HostTypes DEF ThreadsOnce
  <1> HIDE DEF q
  <1> QED
    BY <1>1, <1>4, <1>5, <1>8, <1>9, <1>10 DEF ThreadsOnce

LEMMA ReadQueueThreads ==
  ASSUME TypeOK, TypeOK', [Next]_vars, PerformedOnce, ThreadsOnce, NEW c \in HostCores,
         ReadQueue(c)
  PROVE  PerformedOnce' /\ ThreadsOnce'
  <1> DEFINE q == inst_queue[c]
  <1>1. /\ UNCHANGED <<Trace, begun, file_pos>>
        /\ \/ HostLineStays(c) /\ ~more_reqs'[c]
           \/ q # <<>> /\ trace_line'[c] = Head(q) /\ inst_queue'[c] = Tail(q)
        /\ \A h \in HostCores \ {c} :
             HostLineStays(h) /\ more_reqs'[h] = more_reqs[h] /\ fresh'[h] = fresh[h]
    <2>1. UNCHANGED Trace
      BY DEF ReadQueue, outerVars, fixedVars, Trace
    <2> QED
      BY <2>1, ReadQueueLines
  <1>2. PerformedOnce'
    BY <1>1 DEF PerformedOnce, OnceIn
  <1>3. HostsRise(1)'
    <2>1. ~ReadOther(Master)
      BY ReadQueueLines DEF ReadQueue, ReadOther, At
    <2> QED
      BY <2>1, NextRises DEF ThreadsOnce
  <1>4. HostLines(c)'
    <2>1. CASE HostLineStays(c) /\ ~more_reqs'[c]
      BY <1>1, <2>1 DEF ThreadsOnce, HostLines, Owner, HostLineStays
    <2>2. CASE q # <<>> /\ trace_line'[c] = Head(q) /\ inst_queue'[c] = Tail(q)
      <3>1. /\ 1 \in DOMAIN q /\ Head(q) = q[1]
            /\ \A i \in DOMAIN Tail(q) : i + 1 \in DOMAIN q /\ Tail(q)[i] = q[i + 1]
        BY <2>2, HostTypes, CoreFacts
      <3> QED
        BY <1>1, <2>2, <3>1 DEF ThreadsOnce, HostLines, Owner
    <2> QED
      BY <1>1, <2>1, <2>2
  <1>5. \A h \in HostCores \ {c} : HostLines(h)'
    BY <1>1 DEF ThreadsOnce, HostLines, Owner, HostLineStays
  <1> QED
    BY <1>1, <1>2, <1>3, <1>4, <1>5 DEF ThreadsOnce

(* A master that reads the last line for ever stops everything. *)
LEMMA ForEverStays ==
  ASSUME TypeOK, HostOnlyInv, [Next]_vars, ReadsForEver
  PROVE  ReadsForEver' /\ UNCHANGED <<Trace, begun>>
  <1>1. ctl.core = Master /\ ctl.at = "next" /\ NextPlace = file_pos
    BY HostTypes DEF ReadsForEver, At, NextPlace
  <1>2. Trace[NextPlace].thread # Master
    BY <1>1 DEF ReadsForEver, LastLine
  <1>3. UNCHANGED <<quietVars, ctl>> \/ ReadOther(Master)
    <2>1. ctl # Idle
      BY <1>1 DEF Idle
    <2>2. ~ReadOwn(Master)
      BY <1>2 DEF ReadOwn
    <2>3. \A c \in HostCores : ~Execute(c, TRUE) /\ ~Execute(c, FALSE) /\ ~Finish(c) /\ ~ReadQueue(c)
      BY <1>1 DEF Execute, Finish, ReadQueue, At
    <2> QED
      BY <1>1, <2>1, <2>2, <2>3, HostOnlySteps
  <1>4. CASE UNCHANGED <<quietVars, ctl>>
    BY <1>4 DEF ReadsForEver, At, LastLine, quietVars, lineVars, Trace
  <1>5. CASE ReadOther(Master)
    BY <1>1, <1>5 DEF ReadOther, ReadsForEver, At, LastLine, outerVars, fixedVars, countVars, Trace
  <1> QED
    BY <1>3, <1>4, <1>5

LEMMA NextThreads ==
  ASSUME TypeOK, TypeOK', HostOnlyInv, ThreadsInv, [Next]_vars
  PROVE  ThreadsInv'
  <1>1. CASE ReadsForEver
    BY <1>1, ForEverStays DEF ThreadsInv, PerformedOnce, OnceIn
  <1>2. CASE ThreadsOnce /\ ~ReadsForEver
    BY <1>2, HostOnlySteps, QuietOnce, ExecuteThreads, FinishThreads, ReadOwnThreads, ReadOtherThreads,
      ReadQueueThreads
    DEF ThreadsInv
  <1> QED
    BY <1>1, <1>2 DEF ThreadsInv

LEMMA InitThreads == Init => ThreadsInv
  <1> SUFFICES ASSUME Init PROVE PerformedOnce /\ ThreadsOnce
    BY DEF ThreadsInv
  <1>1. TypeOK
    BY InitType
  <1>2. /\ file_pos = 1 /\ \A p \in DOMAIN Trace : begun[p] = 0
        /\ \A h \in HostCores : /\ trace_line[h] = 1 /\ inst_queue[h] = <<>>
                                /\ more_reqs[h] => h = Master
    BY CoreFacts DEF Init, Trace
  <1>3. 1 \in DOMAIN Trace
    BY <1>1, HostTypes
  <1>4. \A h \in HostCores : HostLines(h)
    <2> SUFFICES ASSUME NEW h \in HostCores PROVE HostLines(h)
      OBVIOUS
    <2>1. DOMAIN inst_queue[h] = {} /\ trace_line[h] = 1 /\ begun[1] = 0
      BY <1>2, <1>3
    <2>2. more_reqs[h] => Owner(1) = h
      BY <1>2 DEF Owner
    <2> QED
      BY <2>1, <2>2 DEF HostLines
  <1>5. HostsRise(1)
    <2>1. \A h \in HostCores : DOMAIN inst_queue[h] = {}
      BY <1>2
    <2> QED
      BY <1>2, <2>1, CoreFacts DEF HostsRise, Rising
  <1> QED
    BY <1>2, <1>4, <1>5 DEF PerformedOnce, OnceIn, ThreadsOnce

(* A line that was begun, or that a host core has yet *)
HostKept(p) == begun[p] > 0 \/ \E h \in HostCores : Holds(h, p) \/ InQueue(h, p)
Passed(p) == begun[p] > 0 \/ ~Instruction(p)

(* No instruction read is lost: a core that reads on is done with the line *)
(* in its hand.                                                            *)
ThreadsKept ==
  /\ ~LimitReached => \A p \in 1 .. file_pos : Passed(p) \/ HostKept(p)
  /\ \A h \in HostCores : more_reqs[h] /\ ~fresh[h] => begun[trace_line[h]] > 0
  /\ ctl.at = "next" => Passed(trace_line[ctl.core])

LEMMA ExecuteThreadsKept ==
  ASSUME TypeOK, HostOnlyInv, ThreadsKept, NEW c \in HostCores,
         Execute(c, TRUE) \/ Execute(c, FALSE)
  PROVE  ThreadsKept'
  <1>1. /\ UNCHANGED <<Trace, config, file_pos, trace_line, inst_queue, more_reqs>>
        /\ more_reqs[c] /\ c \in Cores
        /\ ctl' = Idle \/ (ctl'.at = "next" /\ ctl'.core = c)
        /\ IF fresh[c] THEN /\ fresh' = [fresh EXCEPT ![c] = FALSE]
                            /\ begun' = [begun EXCEPT ![trace_line[c]] = @ + 1]
                            /\ cpu_inst' = cpu_inst + 1
                       ELSE UNCHANGED <<fresh, begun, cpu_inst>>
    BY CoreFacts DEF Execute, At, Begin, Goto, countVars, outerVars, fixedVars, Trace, HostOnlyInv
  <1>2. /\ trace_line[c] \in DOMAIN Trace /\ begun \in [DOMAIN Trace -> Nat]
        /\ fresh \in [Cores -> BOOLEAN] /\ cpu_inst \in Nat /\ config.limit \in Nat
        /\ 1 .. file_pos \subseteq DOMAIN Trace
    BY <1>1, HostTypes, ScenarioAssumption DEF TypeOK, LineType, CoreType, CountType
  <1>3. /\ begun'[trace_line[c]] > 0
        /\ \A p \in DOMAIN Trace : begun[p] > 0 => begun'[p] > 0
    BY <1>1, <1>2 DEF ThreadsKept
  <1>4. ~LimitReached' => ~LimitReached
    BY <1>1, <1>2 DEF LimitReached
  <1>5. \A p \in 1 .. file_pos : /\ Passed(p) => Passed(p)'
                                 /\ HostKept(p) => HostKept(p)'
    BY <1>1, <1>2, <1>3 DEF Passed, HostKept, Holds, InQueue, Instruction
  <1>6. ASSUME NEW h \in HostCores, (more_reqs[h] /\ ~fresh[h])' PROVE begun'[trace_line[h]] > 0
    <2>1. h \in Cores /\ trace_line[h] \in DOMAIN Trace
      BY HostTypes, CoreFacts
    <2>2. h = c \/ ~fresh[h]
      BY <1>1, <1>2, <1>6, <2>1
    <2> QED
      BY <1>1, <1>3, <1>6, <2>1, <2>2 DEF ThreadsKept
  <1> QED
    BY <1>1, <1>3, <1>4, <1>5, <1>6 DEF ThreadsKept, Passed, Idle

LEMMA FinishThreadsKept ==
  ASSUME TypeOK, ThreadsKept, NEW c \in HostCores, Finish(c)
  PROVE  ThreadsKept'
  <1>1. /\ UNCHANGED <<Trace, config, file_pos, trace_line, inst_queue, fresh, begun, cpu_inst>>
        /\ ctl' = Idle
        /\ \A h \in HostCores : more_reqs'[h] => more_reqs[h]
        /\ ~LimitReached => more_reqs' = more_reqs
    BY CoreFacts DEF Finish, outerVars, fixedVars, countVars, Trace, TypeOK, CoreType, LimitReached
  <1>2. LimitReached' = LimitReached
    BY <1>1 DEF LimitReached
  <1>3. ~LimitReached => \A p \in 1 .. file_pos : (Passed(p) \/ HostKept(p))'
    BY <1>1 DEF ThreadsKept, Passed, HostKept, Holds, InQueue, Instruction
  <1> QED
    BY <1>1, <1>2, <1>3 DEF ThreadsKept, Idle

(* What reading on has to leave: a core keeps its lines but one passed. *)
LEMMA ReadKeeps ==
  ASSUME TypeOK, ThreadsKept, UNCHANGED <<config, begun, cpu_inst>>,
         \A h \in HostCores : \A p \in DOMAIN Trace :
           Holds(h, p) \/ InQueue(h, p) => Passed(p) \/ Holds(h, p)' \/ InQueue(h, p)',
         \A p \in 1 .. file_pos' : p \notin 1 .. file_pos => (Passed(p) \/ HostKept(p))',
         \A h \in HostCores : (more_reqs[h] /\ ~fresh[h] => begun[trace_line[h]] > 0)',
         ctl'.at = "next" => Passed(trace_line[ctl.core])'
  PROVE  ThreadsKept'
  <1>1. \A p : Passed(p)' = Passed(p)
    BY DEF Passed, Instruction, Trace
  <1>2. LimitReached' = LimitReached
    BY DEF LimitReached
  <1>3. 1 .. file_pos \subseteq DOMAIN Trace
    BY HostTypes
  <1>4. ASSUME ~LimitReached, NEW p \in 1 .. file_pos PROVE (Passed(p) \/ HostKept(p))'
    <2>1. Passed(p) \/ \E h \in HostCores : Holds(h, p) \/ InQueue(h, p)
      BY <1>4 DEF ThreadsKept, HostKept, Passed
    <2> QED
      BY <1>1, <1>3, <2>1 DEF HostKept
  <1>5. \A p \in 1 .. file_pos' : ~LimitReached' => (Passed(p) \/ HostKept(p))'
    BY <1>2, <1>4
  <1> QED
    BY <1>5 DEF ThreadsKept

(* The oldest line of a queue goes in hand, and the others stay queued. *)
LEMMA HeadHeld ==
  ASSUME NEW S, NEW q \in Seq(S), q # <<>>, NEW i \in DOMAIN q
  PROVE  q[i] = Head(q) \/ \E j \in DOMAIN Tail(q) : Tail(q)[j] = q[i]
  <1>1. CASE i = 1
    BY <1>1
  <1>2. CASE i # 1
    <2>1. i - 1 \in DOMAIN Tail(q) /\ Tail(q)[i - 1] = q[i]
      BY <1>2
    <2> QED
      BY <2>1
  <1> QED
    BY <1>1, <1>2

LEMMA ReadOwnKeepsThreads ==
  ASSUME TypeOK, HostOnlyInv, ThreadsKept, ReadOwn(Master)
  PROVE  ThreadsKept'
  <1>1. /\ UNCHANGED <<config, begun, cpu_inst, inst_queue>> /\ file_pos' = NextPlace
        /\ trace_line'[Master] = NextPlace /\ more_reqs'[Master] = NextMore /\ fresh'[Master]
        /\ ctl.at = "next" /\ ctl.core = Master /\ ctl'.at # "next"
        /\ \A h \in HostCores \ {Master} :
             HostLineStays(h) /\ more_reqs'[h] = more_reqs[h] /\ fresh'[h] = fresh[h]
    BY CoreFacts DEF ReadOwn, At, Goto, outerVars, fixedVars, countVars, HostLineStays, TypeOK,
      LineType, CoreType, HostOnlyInv
  <1>2. Passed(trace_line[Master])
    BY <1>1 DEF ThreadsKept
  <1>3. ASSUME NEW h \in HostCores, NEW p, Holds(h, p) \/ InQueue(h, p)
        PROVE  Passed(p) \/ Holds(h, p)' \/ InQueue(h, p)'
    BY <1>1, <1>2, <1>3 DEF Holds, InQueue, HostLineStays
  <1>4. ASSUME NEW p \in 1 .. file_pos', p \notin 1 .. file_pos PROVE HostKept(p)'
    <2>1. p = NextPlace /\ NextMore
      BY <1>1, <1>4, HostTypes DEF NextPlace, NextMore
    <2> QED
      BY <1>1, <2>1, CoreFacts DEF HostKept, Holds
  <1>5. \A h \in HostCores : (more_reqs[h] /\ ~fresh[h] => begun[trace_line[h]] > 0)'
    BY <1>1 DEF ThreadsKept, HostLineStays
  <1> QED
    BY <1>1, <1>3, <1>4, <1>5, ReadKeeps

LEMMA ReadOtherKeepsThreads ==
  ASSUME TypeOK, ThreadsKept, ReadOther(Master)
  PROVE  ThreadsKept'
  <1> PICK t \in HostCores : t = Trace[NextPlace].thread
    BY HostTypes
  <1> DEFINE q == Append(inst_queue[t], NextPlace)
  <1>1. /\ UNCHANGED <<config, begun, cpu_inst, ctl>> /\ file_pos' = NextPlace
        /\ ctl.at = "next" /\ ctl.core = Master /\ t # Master
    BY DEF ReadOther, At, outerVars, fixedVars, countVars
  <1>2. /\ q \in Seq(Nat) /\ q # <<>> /\ inst_queue[t] \in Seq(Nat)
        /\ \/ /\ trace_line'[t] = trace_line[t] /\ inst_queue'[t] = q
              /\ more_reqs[t] /\ more_reqs'[t] /\ fresh'[t] = fresh[t]
           \/ /\ trace_line'[t] = Head(q) /\ inst_queue'[t] = Tail(q)
              /\ ~more_reqs[t] /\ more_reqs'[t] /\ fresh'[t]
        /\ \A h \in HostCores \ {t} :
             HostLineStays(h) /\ more_reqs'[h] = more_reqs[h] /\ fresh'[h] = fresh[h]
    BY ReadOtherLines, HostTypes, CoreFacts
  <1>3. /\ \A i \in DOMAIN inst_queue[t] : i \in DOMAIN q /\ q[i] = inst_queue[t][i]
        /\ \E i \in DOMAIN q : q[i] = NextPlace
    <2>1. Len(q) = Len(inst_queue[t]) + 1 /\ Len(q) \in DOMAIN q /\ q[Len(q)] = NextPlace
      BY <1>2
    <2>2. ASSUME NEW i \in DOMAIN inst_queue[t] PROVE i \in DOMAIN q /\ q[i] = inst_queue[t][i]
      BY <1>2
    <2> HIDE DEF q
    <2> QED
      BY <2>1, <2>2
  <1> HIDE DEF q
  <1>4. ASSUME NEW p, NEW i \in DOMAIN q, q[i] = p PROVE Holds(t, p)' \/ InQueue(t, p)'
    <2>1. CASE inst_queue'[t] = q
      BY <1>4, <2>1 DEF InQueue
    <2>2. CASE trace_line'[t] = Head(q) /\ inst_queue'[t] = Tail(q) /\ more_reqs'[t]
      <3>1. p = Head(q) \/ \E j \in DOMAIN Tail(q) : Tail(q)[j] = p
        BY <1>2, <1>4, HeadHeld
      <3> QED
        BY <2>2, <3>1 DEF Holds, InQueue
    <2> QED
      BY <1>2, <2>1, <2>2
  <1>5. ASSUME NEW h \in HostCores, NEW p, Holds(h, p) \/ InQueue(h, p)
        PROVE  Holds(h, p)' \/ InQueue(h, p)'
    <2>1. CASE h # t
      BY <1>2, <1>5, <2>1 DEF Holds, InQueue, HostLineStays
    <2>2. CASE h = t /\ InQueue(h, p)
      BY <1>3, <1>4, <2>2 DEF InQueue
    <2>3. CASE h = t /\ Holds(h, p)
      BY <1>2, <2>3 DEF Holds
    <2> QED
      BY <1>5, <2>1, <2>2, <2>3
  <1>6. ASSUME NEW p \in 1 .. file_pos', p \notin 1 .. file_pos PROVE HostKept(p)'
    <2>1. p = NextPlace
      BY <1>1, <1>6, HostTypes DEF NextPlace
    <2> QED
      BY <1>3, <1>4, <2>1 DEF HostKept
  <1>7. \A h \in HostCores : (more_reqs[h] /\ ~fresh[h] => begun[trace_line[h]] > 0)'
    BY <1>1, <1>2 DEF ThreadsKept, HostLineStays
  <1>8. Passed(trace_line[ctl.core])'
    <2>1. trace_line'[Master] = trace_line[Master]
      BY <1>1, <1>2, CoreFacts DEF HostLineStays
    <2> QED
      BY <1>1, <2>1 DEF ThreadsKept, Passed, Instruction, Trace
  <1> QED
    BY <1>1, <1>5, <1>6, <1>7, <1>8, ReadKeeps

LEMMA ReadQueueKeepsThreads ==
  ASSUME TypeOK, HostOnlyInv, ThreadsKept, NEW c \in HostCores, ReadQueue(c)
  PROVE  ThreadsKept'
  <1> DEFINE q == inst_queue[c]
  <1>1. /\ UNCHANGED <<config, begun, cpu_inst, file_pos>>
        /\ ctl.at = "next" /\ ctl.core = c /\ ctl'.at # "next"
    BY DEF ReadQueue, At, Goto, outerVars, fixedVars, countVars, HostOnlyInv
  <1>2. /\ \/ HostLineStays(c) /\ ~more_reqs'[c]
           \/ /\ q # <<>> /\ trace_line'[c] = Head(q) /\ inst_queue'[c] = Tail(q)
              /\ more_reqs'[c] = more_reqs[c] /\ fresh'[c]
        /\ \A h \in HostCores \ {c} :
             HostLineStays(h) /\ more_reqs'[h] = more_reqs[h] /\ fresh'[h] = fresh[h]
    BY ReadQueueLines
  <1>3. Passed(trace_line[c])
    BY <1>1 DEF ThreadsKept
  <1>4. ASSUME NEW h \in HostCores, NEW p, Holds(h, p) \/ InQueue(h, p)
        PROVE  Passed(p) \/ Holds(h, p)' \/ InQueue(h, p)'
    <2>1. CASE h # c
      BY <1>2, <1>4, <2>1 DEF Holds, InQueue, HostLineStays
    <2>2. CASE h = c /\ Holds(h, p)
      BY <1>3, <2>2 DEF Holds
    <2>3. CASE h = c /\ InQueue(h, p) /\ HostLineStays(c)
      BY <2>3 DEF InQueue, HostLineStays
    <2>4. CASE /\ h = c /\ InQueue(h, p) /\ q # <<>> /\ trace_line'[c] = Head(q)
               /\ inst_queue'[c] = Tail(q) /\ more_reqs'[c] = more_reqs[c]
      <3>1. q \in Seq(Nat) /\ more_reqs[c]
        BY <1>1, <2>4, HostTypes, CoreFacts DEF HostOnlyInv, InTick, ReadQueue
      <3>2. p = Head(q) \/ \E j \in DOMAIN Tail(q) : Tail(q)[j] = p
        BY <2>4, <3>1, HeadHeld DEF InQueue
      <3> QED
        BY <2>4, <3>1, <3>2 DEF Holds, InQueue
    <2> QED
      BY <1>2, <1>4, <2>1, <2>2, <2>3, <2>4
  <1>5. \A p \in 1 .. file_pos' : p \in 1 .. file_pos
    BY <1>1
  <1>6. \A h \in HostCores : (more_reqs[h] /\ ~fresh[h] => begun[trace_line[h]] > 0)'
    BY <1>1, <1>2 DEF ThreadsKept, HostLineStays
  <1> QED
    BY <1>1, <1>4, <1>5, <1>6, ReadKeeps

LEMMA QuietThreadsKept ==
  ASSUME TypeOK, ThreadsKept, UNCHANGED quietVars,
         ctl'.at = "next" => Passed(trace_line[ctl'.core])
  PROVE  ThreadsKept'
  <1>1. UNCHANGED <<config, Trace, file_pos, trace_line, inst_queue, fresh, more_reqs, cpu_inst, begun>>
    BY DEF quietVars, lineVars, Trace
  <1>2. LimitReached' = LimitReached /\ (\A p : Passed(p)' = Passed(p) /\ HostKept(p)' = HostKept(p))
    BY <1>1 DEF LimitReached, Passed, HostKept, Holds, InQueue, Instruction
  <1>3. ~LimitReached' => \A p \in 1 .. file_pos' : (Passed(p) \/ HostKept(p))'
    BY <1>1, <1>2 DEF ThreadsKept
  <1>4. \A h \in HostCores : (more_reqs[h] /\ ~fresh[h] => begun[trace_line[h]] > 0)'
    BY <1>1 DEF ThreadsKept
  <1>5. ctl'.at = "next" => Passed(trace_line[ctl.core])'
    BY <1>1 DEF Passed, Instruction
  <1> QED
    BY <1>3, <1>4, <1>5 DEF ThreadsKept

LEMMA NextThreadsKept ==
  ASSUME TypeOK, HostOnlyInv, ThreadsKept, [Next]_vars
  PROVE  ThreadsKept'
  <1>1. CASE UNCHANGED <<quietVars, ctl>>
    <2>1. trace_line' = trace_line /\ ctl' = ctl
      BY <1>1 DEF quietVars, lineVars
    <2> QED
      BY <1>1, <2>1, QuietThreadsKept DEF ThreadsKept
  <1>2. ASSUME NEW c \in HostCores, GoesOn(c), UNCHANGED quietVars
        PROVE  ThreadsKept'
    <2>1. ctl'.at = "next" => ctl'.core = c /\ IsTag(Held(c))
      BY <1>2 DEF GoesOn, Goto, Idle
    <2>2. IsTag(Held(c)) => Passed(trace_line[c])
      BY DEF IsTag, Held, Passed, Instruction
    <2> QED
      BY <1>2, <2>1, <2>2, QuietThreadsKept
  <1> QED
    BY <1>1, <1>2, HostOnlySteps, ExecuteThreadsKept, FinishThreadsKept, ReadOwnKeepsThreads,
      ReadOtherKeepsThreads, ReadQueueKeepsThreads

LEMMA InitThreadsKept == Init => ThreadsKept
  <1> SUFFICES ASSUME Init PROVE ThreadsKept
    OBVIOUS
  <1>1. /\ file_pos = 1 /\ trace_line[Master] = 1 /\ more_reqs[Master]
        /\ \A h \in HostCores : more_reqs[h] => fresh[h]
    BY CoreFacts DEF Init
  <1>2. \A p \in 1 .. file_pos : HostKept(p)
    BY <1>1, CoreFacts DEF HostKept, Holds
  <1> QED
    BY <1>1, <1>2 DEF Init, Idle, ThreadsKept

----------------------------------------------------------------------------
(* What several host threads keep *)

HostThreadsInv == TypeOK /\ HostOnlyInv /\ ThreadsInv /\ ThreadsKept

LEMMA HostThreadsInductive ==
  /\ Init /\ HostOnlyMode => HostThreadsInv
  /\ HostThreadsInv /\ [Next]_vars => HostThreadsInv'
  <1>1. Init /\ HostOnlyMode => HostThreadsInv
    BY InitType, InitHostOnly, InitThreads, InitThreadsKept DEF HostThreadsInv
  <1>2. HostThreadsInv /\ [Next]_vars => HostThreadsInv'
    <2> SUFFICES ASSUME HostThreadsInv, [Next]_vars PROVE HostThreadsInv'
      OBVIOUS
    <2>1. TypeOK'
      BY NextType DEF HostThreadsInv
    <2> QED
      BY <2>1, NextHostOnly, NextThreads, NextThreadsKept DEF HostThreadsInv
  <1> QED
    BY <1>1, <1>2

(* In Host-Only, whatever the number of threads and however their lines    *)
(* mix in the file, no line is performed twice: a line goes to the core of *)
(* its thread alone, which goes through strictly rising places             *)
(* (Core::get_next_instruction, Core::get_first_instruction).              *)
THEOREM OffloadThreadsOnce == Spec /\ HostOnlyMode => []PerformedOnce
  <1>1. HostThreadsInv => PerformedOnce
    BY DEF HostThreadsInv, ThreadsInv
  <1> QED
    BY <1>1, HostThreadsInductive, PTL DEF Spec

(* Nor is an instruction lost on its way to the core of its thread, be     *)
(* that idle, or in the midst of another line: up to the instruction limit *)
(* each one read was begun, or a core holds it or has it queued.           *)
THEOREM OffloadThreadsLoseNothing == Spec /\ HostOnlyMode => []NothingLost
  <1>1. HostThreadsInv => NothingLost
    <2> SUFFICES ASSUME HostThreadsInv, ~LimitReached, NEW p \in 1 .. file_pos, Instruction(p),
                        begun[p] = 0
                 PROVE  \E u \in Cores : Holds(u, p) \/ InQueue(u, p)
      BY DEF NothingLost, NotLostIn
    <2>1. Passed(p) \/ HostKept(p)
      BY DEF HostThreadsInv, ThreadsKept
    <2> QED
      BY <2>1, CoreFacts DEF Passed, HostKept
  <1> QED
    BY <1>1, HostThreadsInductive, PTL DEF Spec

(* And every core performs its lines in the order of the trace, the MCP    *)
(* cores none.                                                             *)
THEOREM OffloadThreadsKeepOrder == Spec /\ HostOnlyMode => CoresKeepTraceOrder
  <1>1. HostThreadsInv /\ HostsRise(0) /\ [Next]_vars =>
          HostsRise(0)' /\ [\A u \in Cores : trace_line'[u] >= trace_line[u]]_vars
    <2> SUFFICES ASSUME HostThreadsInv, HostsRise(0), [Next]_vars
                 PROVE  /\ HostsRise(0)'
                        /\ \A u \in Cores : trace_line'[u] >= trace_line[u]
      OBVIOUS
    <2>1. /\ TypeOK /\ TypeOK' /\ HostOnlyInv /\ file_pos + 0 <= NextPlace
          /\ \A u \in Cores : trace_line[u] \in Nat
      BY NextType, HostTypes DEF HostThreadsInv
    <2>2. HostsRise(0)' /\ \A h \in HostCores : trace_line'[h] >= trace_line[h]
      BY <2>1, NextRises
    <2>3. ASSUME NEW u \in Mcp PROVE trace_line'[u] = trace_line[u]
      <3>1. u \in Cores /\ u \notin HostCores
        BY CoreFacts
      <3>2. CASE UNCHANGED trace_line
        BY <3>2
      <3>3. CASE ReadOwn(Master)
        BY <2>1, <3>1, <3>3, CoreFacts DEF ReadOwn, TypeOK, LineType
      <3>4. CASE ReadOther(Master)
        <4>1. PICK q : GetFirst({Trace[NextPlace].thread}, q)
          BY <3>4 DEF ReadOther
        <4>2. Trace[NextPlace].thread # u
          BY <2>1, <3>1, HostTypes
        <4> QED
          BY <3>1, <4>1, <4>2 DEF GetFirst
      <3>5. CASE \E c \in HostCores : ReadQueue(c)
        BY <2>1, <3>1, <3>5 DEF ReadQueue, Pop, TypeOK, LineType
      <3> QED
        BY <2>1, <3>2, <3>3, <3>4, <3>5, HostOnlySteps
        DEF quietVars, lineVars, Execute, Finish
    <2> QED
      BY <2>1, <2>2, <2>3, CoreFacts
  <1>2. Init => HostsRise(0)
    BY CoreFacts DEF Init, HostsRise, Rising
  <1> QED
    BY <1>1, <1>2, HostThreadsInductive, PTL DEF Spec, CoresKeepTraceOrder
============================================================================
