-------------------------- MODULE OffloadLineProofs --------------------------
(***************************************************************************)
(* Proofs about Offload with one host thread, in four parts: no            *)
(* instruction is lost and each core performs its lines in the order of    *)
(* the trace; in Co-Simulation the host and the MCP side take turns; tags  *)
(* are not performed; and each side performs the lines of its own, after   *)
(* all earlier ones of the other.                                          *)
(***************************************************************************)
EXTENDS OffloadOnceProofs

(* A line that has left the master's hands: it was begun or waits. *)
Kept(p) == begun[p] > 0 \/ Waits(p)
ReadLines == IF McpOnly THEN 2 .. file_pos ELSE 1 .. file_pos

(* Where the master has done with its line: it is about to read on, or     *)
(* locked without a bypass to be retried.                                  *)
Handled ==
  \/ ctl.at = "next"
  \/ /\ ctl.at \in {"idle", "wait", "execute", "finish"}
     /\ lock_core[Master] /\ ~pending_bypass[Master]

(* The instruction limit has not stopped the master, which would drop what *)
(* every core has in hand.                                                 *)
Live == more_reqs[Master] \/ ~LimitReached

(* Every line read is kept, or is the one that the master has in hand.     *)
KeptInv ==
  Live =>
    /\ \A p \in ReadLines :
         Instruction(p) => Kept(p) \/ (p = file_pos /\ more_reqs[Master])
    /\ file_pos \in ReadLines /\ Instruction(file_pos) =>
         /\ Handled => Kept(file_pos)
         /\ ~fresh[Master] => begun[file_pos] > 0

----------------------------------------------------------------------------
(* What is kept stays so *)

LEMMA ReadFacts ==
  ASSUME TypeOK
  PROVE  /\ ReadLines \subseteq DOMAIN Trace /\ file_pos \in Nat
         /\ begun \in [DOMAIN Trace -> Nat] /\ DOMAIN Trace \subseteq Nat
  <1>1. /\ Len(Trace) \in Nat /\ DOMAIN Trace = 1 .. Len(Trace)
        /\ file_pos \in DOMAIN Trace /\ begun \in [DOMAIN Trace -> Nat]
    BY TraceFacts DEF TypeOK, LineType
  <1> QED
    BY <1>1 DEF ReadLines

(* The lines of a queue whose head is taken *)
LEMMA TakenFacts ==
  ASSUME NEW S, NEW q \in Seq(S), q # <<>>, NEW i \in DOMAIN q, i # 1
  PROVE  i - 1 \in DOMAIN Tail(q) /\ Tail(q)[i - 1] = q[i] /\ i - 1 # 0
  OBVIOUS

(* Core u takes the head of its queue in hand. *)
LEMMA TakeKeeps ==
  ASSUME TypeOK, NEW u \in Mcp, inst_queue[u] # <<>>,
         trace_line'[u] = Head(inst_queue[u]), inst_queue'[u] = Tail(inst_queue[u]),
         more_reqs'[u], fresh'[u], NEW i \in Spots(u), i # 0
  PROVE  \E j \in Spots(u)' : LineAt(u, j)' = LineAt(u, i)
  <1>1. inst_queue[u] \in Seq(DOMAIN Trace) /\ i \in DOMAIN inst_queue[u]
    BY SpotFacts
  <1>2. CASE i = 1
    <2>1. Head(inst_queue[u]) = inst_queue[u][1]
      BY <1>1, TailFacts
    <2>2. 0 \in Spots(u)' /\ LineAt(u, 0)' = LineAt(u, i)
      BY <1>2, <2>1 DEF Spots, LineAt
    <2> QED
      BY <2>2
  <1>3. CASE i # 1
    <2>1. PICK j : j = i - 1
      OBVIOUS
    <2>2. j \in DOMAIN Tail(inst_queue[u]) /\ Tail(inst_queue[u])[j] = inst_queue[u][i] /\ j # 0
      BY <1>1, <1>3, <2>1, TakenFacts
    <2>3. j \in Spots(u)' /\ LineAt(u, j)' = LineAt(u, i)
      BY <2>2 DEF Spots, LineAt
    <2> QED
      BY <2>3
  <1> QED
    BY <1>2, <1>3

LEMMA GetFirstKeeps ==
  ASSUME TypeOK, NEW S \in SUBSET Mcp, GetFirst(S, inst_queue), NEW p, Waits(p)
  PROVE  Waits(p)'
  <1>1. PICK u \in Mcp : \E i \in Spots(u) : LineAt(u, i) = p
    BY DEF Waits
  <1>2. PICK i \in Spots(u) : LineAt(u, i) = p
    BY <1>1
  <1>3. u \in Cores
    BY CoreFacts
  <1>4. CASE u \in S /\ ~more_reqs[u] /\ inst_queue[u] # <<>>
    <2>1. /\ trace_line'[u] = Head(inst_queue[u]) /\ inst_queue'[u] = Tail(inst_queue[u])
          /\ more_reqs'[u] /\ fresh'[u]
      BY <1>3, <1>4 DEF GetFirst, NextQueued
    <2>2. i # 0
      BY <1>4, SpotFacts DEF Spots
    <2> QED
      BY <1>2, <1>4, <2>1, <2>2, TakeKeeps DEF Waits
  <1>5. CASE ~(u \in S /\ ~more_reqs[u] /\ inst_queue[u] # <<>>)
    <2>1. /\ trace_line'[u] = trace_line[u] /\ inst_queue'[u] = inst_queue[u]
          /\ more_reqs'[u] = more_reqs[u] /\ fresh'[u] = fresh[u]
      BY <1>3, <1>5 DEF GetFirst, TypeOK, CoreType
    <2>2. i \in Spots(u)' /\ LineAt(u, i)' = p
      BY <1>2, <2>1 DEF Spots, LineAt
    <2> QED
      BY <2>2 DEF Waits
  <1> QED
    BY <1>4, <1>5

(* A place that a step leaves alone *)
LEMMA SpotStays ==
  ASSUME NEW u \in Mcp, NEW i \in Spots(u), inst_queue'[u] = inst_queue[u],
         i = 0 => more_reqs'[u] /\ fresh'[u] /\ trace_line'[u] = trace_line[u]
  PROVE  i \in Spots(u)' /\ LineAt(u, i)' = LineAt(u, i)
  BY DEF Spots, LineAt

LEMMA McpKeeps ==
  ASSUME TypeOK, NEW u \in Mcp, McpStep(u), NEW p \in DOMAIN Trace, Kept(p)
  PROVE  Kept(p)'
  <1>1. u \in Cores /\ begun \in [DOMAIN Trace -> Nat] /\ trace_line[u] \in DOMAIN Trace
    BY CoreFacts DEF TypeOK, LineType
  <1>2. CASE begun[p] > 0
    <2>1. begun' = begun \/ begun' = [begun EXCEPT ![trace_line[u]] = @ + 1]
      BY DEF McpStep, McpBegin, McpStall, McpComplete, Begin, countVars
    <2>2. begun'[p] > 0
      BY <1>1, <1>2, <2>1
    <2> QED
      BY <2>2 DEF Kept
  <1>3. ASSUME NEW v \in Mcp, NEW i \in Spots(v), LineAt(v, i) = p PROVE Kept(p)'
    <2>1. CASE v # u
      <3>1. /\ v \in Cores /\ trace_line'[v] = trace_line[v] /\ inst_queue'[v] = inst_queue[v]
            /\ more_reqs'[v] = more_reqs[v] /\ fresh'[v] = fresh[v]
        BY <1>1, <2>1, CoreFacts DEF McpStep, McpBegin, McpStall, McpComplete, Begin, Pop,
          execVars, TypeOK, LineType, CoreType
      <3>2. i \in Spots(v)' /\ LineAt(v, i)' = p
        BY <1>3, <3>1 DEF Spots, LineAt
      <3> QED
        BY <3>2 DEF Kept, Waits
    <2>2. CASE v = u /\ i = 0 /\ ~McpStall(u)
      <3>1. fresh[u] /\ p = trace_line[u]
        BY <1>3, <2>2, SpotFacts DEF Spots, LineAt
      <3>2. begun' = [begun EXCEPT ![p] = @ + 1]
        BY <2>2, <3>1 DEF McpStep, McpBegin, McpComplete, Begin
      <3>3. begun'[p] > 0
        BY <1>1, <3>2
      <3> QED
        BY <3>3 DEF Kept
    <2>3. CASE v = u /\ McpStall(u)
      <3>1. i \in Spots(v)' /\ LineAt(v, i)' = p
        BY <1>3, <2>3 DEF Spots, LineAt, McpStall, execVars
      <3> QED
        BY <3>1 DEF Kept, Waits
    <2>4. CASE v = u /\ i # 0 /\ McpBegin(u)
      <3>1. i \in Spots(v)' /\ LineAt(v, i)' = p
        BY <1>3, <2>4, SpotStays DEF McpBegin
      <3> QED
        BY <3>1 DEF Kept, Waits
    <2>5. CASE v = u /\ i # 0 /\ McpComplete(u)
      <3>1. inst_queue[u] # <<>> /\ more_reqs[u]
        BY <2>5, SpotFacts DEF McpComplete, McpTick
      <3>2. /\ trace_line'[u] = Head(inst_queue[u]) /\ inst_queue'[u] = Tail(inst_queue[u])
            /\ more_reqs'[u] /\ fresh'[u]
        BY <1>1, <2>5, <3>1 DEF McpComplete, Pop, NextQueued, TypeOK, LineType, CoreType
      <3> QED
        BY <1>3, <2>5, <3>1, <3>2, TakeKeeps DEF Kept, Waits
    <2> QED
      BY <2>1, <2>2, <2>3, <2>4, <2>5 DEF McpStep
  <1> QED
    BY <1>2, <1>3 DEF Kept, Waits

LEMMA KeptStable ==
  ASSUME TypeOK, KeptInv, UNCHANGED <<config, file_pos>>, Live' => Live,
         \A p \in DOMAIN Trace : Kept(p) => Kept(p)',
         Live' => more_reqs'[Master] = more_reqs[Master],
         file_pos \in ReadLines /\ Instruction(file_pos) /\ Live' =>
           (Handled' => Kept(file_pos)') /\ (~fresh'[Master] => begun'[file_pos] > 0)
  PROVE  KeptInv'
  <1> SUFFICES ASSUME Live' PROVE KeptInv'
    BY DEF KeptInv
  <1>1. Trace' = Trace /\ ReadLines' = ReadLines
    BY ConfigFacts DEF ReadLines
  <1>2. \A p : Instruction(p)' = Instruction(p)
    BY <1>1 DEF Instruction
  <1>3. ReadLines \subseteq DOMAIN Trace
    BY ReadFacts
  <1>4. \A p \in ReadLines :
          Instruction(p) => Kept(p)' \/ (p = file_pos /\ more_reqs'[Master])
    BY <1>3 DEF KeptInv
  <1> QED
    BY <1>1, <1>2, <1>4 DEF KeptInv

(* A step that moves no line *)
LEMMA StayKept ==
  ASSUME TypeOK, KeptInv,
         UNCHANGED <<config, file_pos, trace_line, fresh, inst_queue, more_reqs, countVars>>,
         Handled' => Handled \/ ~more_reqs[Master] \/ ~Instruction(file_pos)
  PROVE  KeptInv'
  <1>1. \A u : Spots(u)' = Spots(u) /\ \A i : LineAt(u, i)' = LineAt(u, i)
    BY DEF Spots, LineAt
  <1>2. \A p : Kept(p)' = Kept(p)
    BY <1>1 DEF Kept, Waits, countVars
  <1>3. Live' = Live
    BY DEF Live, LimitReached, countVars
  <1>4. file_pos \in ReadLines /\ Instruction(file_pos) /\ Live' =>
          (Handled' => Kept(file_pos)') /\ (~fresh'[Master] => begun'[file_pos] > 0)
    BY <1>2, <1>3 DEF KeptInv, countVars
  <1> QED
    BY <1>2, <1>3, <1>4, KeptStable

(* A step that leaves the master where it is, but may move other lines *)
LEMMA AwayKept ==
  ASSUME TypeOK, TypeOK', KeptInv, UNCHANGED <<config, file_pos>>,
         more_reqs'[Master] = more_reqs[Master], fresh'[Master] = fresh[Master],
         cpu_inst' >= cpu_inst, Handled' => Handled,
         \A p \in DOMAIN Trace : begun'[p] >= begun[p] /\ (Kept(p) => Kept(p)')
  PROVE  KeptInv'
  <1>1. /\ cpu_inst \in Nat /\ cpu_inst' \in Nat /\ config.limit \in Nat
    BY ScenarioAssumption DEF TypeOK, CountType, LineType
  <1>2. Live' => Live
    BY <1>1 DEF Live, LimitReached
  <1>3. begun[file_pos] \in Nat /\ begun'[file_pos] \in Nat /\ file_pos \in DOMAIN Trace
    <2>1. file_pos \in DOMAIN Trace /\ begun \in [DOMAIN Trace -> Nat]
      BY DEF TypeOK, LineType
    <2>2. begun' \in [DOMAIN Trace -> Nat]
      BY ConfigFacts DEF TypeOK, LineType
    <2> QED
      BY <2>1, <2>2
  <1>4. file_pos \in ReadLines /\ Instruction(file_pos) /\ Live' =>
          (Handled' => Kept(file_pos)') /\ (~fresh'[Master] => begun'[file_pos] > 0)
    <2> SUFFICES ASSUME file_pos \in ReadLines, Instruction(file_pos), Live'
                 PROVE  (Handled' => Kept(file_pos)') /\ (~fresh'[Master] => begun'[file_pos] > 0)
      OBVIOUS
    <2>1. (Handled => Kept(file_pos)) /\ (~fresh[Master] => begun[file_pos] > 0)
      BY <1>2 DEF KeptInv
    <2>2. Handled' => Kept(file_pos)'
      BY <1>3, <2>1
    <2>3. ~fresh'[Master] => begun'[file_pos] > 0
      BY <1>3, <2>1
    <2> QED
      BY <2>2, <2>3
  <1> QED
    BY <1>2, <1>4, KeptStable

----------------------------------------------------------------------------
(* The master's steps *)

(* A strategy reads on, or leaves the line to a locked master, only when   *)
(* the line is a tag or was read before.                                   *)
LEMMA StrategyHandled ==
  ASSUME TypeOK, OneThread, ControlInv, RegionInv, StrategyStep, Handled'
  PROVE  ~more_reqs[Master] \/ ~Instruction(file_pos)
  <1>1. Held(Master) = Trace[file_pos] /\ ctl.at \in Callers
    BY StrategyGoes DEF ControlInv, Held
  <1>2. IsTag(Held(Master)) <=> ~Instruction(file_pos)
    BY <1>1 DEF IsTag, Instruction
  <1>3. lock_core[Master] => ~more_reqs[Master]
    BY <1>1 DEF ControlInv
  <1>4. CASE NoStrategy(Master)
    BY <1>3, <1>4 DEF NoStrategy, Goto, Handled, dataVars
  <1>5. CASE HostOnly(Master)
    <2>1. CASE Strategy(Master) /\ (~warmed_up \/ config.mode = "Host-Only")
      BY <1>2, <2>1 DEF Strategy, RegionInv, Offloading, McpOnly
    <2>2. CASE At(Master, "host_only") /\ more_reqs[Master] /\ IsTag(Held(Master))
      BY <1>2, <2>2
    <2>3. CASE At(Master, "host_only") /\ Goto(Master, "finish", "none") /\ UNCHANGED dataVars
      <3>1. ctl'.at = "finish" /\ lock_core' = lock_core
        BY <2>3 DEF Goto, dataVars
      <3> QED
        BY <1>3, <3>1 DEF Handled
    <2> QED
      BY <1>5, <2>1, <2>2, <2>3 DEF HostOnly
  <1>6. CASE NmpOnlySkip(Master)
    BY <1>2, <1>6 DEF NmpOnlySkip
  <1>7. CASE NmpOnlyBypass(Master) \/ OffloadLine(Master)
    <2>1. Goto(Master, "bypass", "finish")
      BY <1>7 DEF NmpOnlyBypass, OffloadLine
    <2> QED
      BY <2>1 DEF Goto, Handled
  <1>8. CASE LeaveRegion(Master) \/ ScanToHost(Master)
    <2>1. Goto(Master, "finish", "none") /\ lock_core' = LockOwn(FALSE)
      BY <1>8 DEF LeaveRegion, ScanToHost
    <2>2. ~lock_core'[Master]
      BY <2>1, OneThreadFacts DEF LockOwn, ControlInv
    <2> QED
      BY <2>1, <2>2 DEF Goto, Handled
  <1>9. CASE ReadTag(Master)
    <2>1. CASE Strategy(Master) /\ Offloading /\ ~InRegion(Master) /\ ~OutOfRegion(Master)
      <3>1. ~IsTag(Held(Master)) => region_ids[Master] = {}
        BY <2>1 DEF InRegion, OutOfRegion
      <3> QED
        BY <1>2, <2>1, <3>1 DEF Strategy, Offloading, RegionInv
    <2>2. CASE Opens(Master) \/ Closes(Master)
      BY <1>2, <2>2 DEF Opens, Closes, IsTag
    <2> QED
      BY <1>9, <2>1, <2>2 DEF ReadTag
  <1>10. CASE ScanEnd(Master)
    BY <1>10 DEF ScanEnd
  <1> QED
    BY <1>4, <1>5, <1>6, <1>7, <1>8, <1>9, <1>10 DEF StrategyStep

LEMMA StrategyKept ==
  ASSUME TypeOK, OneThread, ControlInv, RegionInv, KeptInv, StrategyStep
  PROVE  KeptInv'
  <1>1. UNCHANGED linesUnchanged
    BY StrategyGoes
  <1> QED
    BY <1>1, StrategyHandled, StayKept DEF linesUnchanged, execVars

LEMMA StartKept ==
  ASSUME TypeOK, TypeOK', OneThread, ControlInv, KeptInv, StartTick(Master)
  PROVE  KeptInv'
  <1>1. UNCHANGED <<config, file_pos, countVars, pending_bypass>>
    BY DEF StartTick, TickHeld, TickOverhead, TickDispatch, TickUnlocked, fixedVars,
       switchVars
  <1>2. /\ more_reqs'[Master] = more_reqs[Master] /\ fresh'[Master] = fresh[Master]
        /\ lock_core'[Master] = lock_core[Master]
    BY OneThreadFacts, CoreFacts DEF StartTick, TickHeld, TickOverhead, TickDispatch,
      TickUnlocked, GetFirst, execVars, TypeOK, CoreType
  <1>3. Handled' => Handled
    <2>1. ctl = Idle /\ (ctl' = ctl \/ AfterGate(Master))
      BY DEF StartTick, TickHeld, TickOverhead, TickDispatch, TickUnlocked
    <2>2. ctl.at = "idle" /\ ctl'.at \in {"idle", "wait", "bypass"}
      BY <2>1 DEF AfterGate, Goto, Idle
    <2> QED
      BY <1>1, <1>2, <2>2 DEF Handled
  <1>4. CASE TickDispatch(Master)
    <2>1. PICK S \in SUBSET Mcp : GetFirst(S, inst_queue)
      BY <1>4, CoreFacts DEF TickDispatch
    <2>2. \A p \in DOMAIN Trace : begun'[p] = begun[p] /\ (Kept(p) => Kept(p)')
      BY <1>1, <2>1, GetFirstKeeps DEF Kept, countVars
    <2>3. cpu_inst' >= cpu_inst /\ \A p \in DOMAIN Trace : begun[p] >= begun[p]
      BY <1>1, ReadFacts DEF TypeOK, CountType, countVars
    <2> QED
      BY <1>1, <1>2, <1>3, <2>2, <2>3, AwayKept
  <1>5. CASE ~TickDispatch(Master)
    <2>1. UNCHANGED execVars
      BY <1>5 DEF StartTick, TickHeld, TickOverhead, TickUnlocked
    <2> QED
      BY <1>1, <1>3, <2>1, StayKept DEF execVars
  <1> QED
    BY <1>4, <1>5

(* A line that is performed has been begun. *)
LEMMA ExecuteKept ==
  ASSUME TypeOK, TypeOK', OneThread, ControlInv, KeptInv, NEW complete \in BOOLEAN,
         Execute(Master, complete)
  PROVE  KeptInv'
  <1>1. /\ UNCHANGED <<config, file_pos, trace_line, more_reqs, inst_queue, lock_core>>
        /\ ctl.at = "execute" /\ ~lock_core[Master] /\ trace_line[Master] = file_pos
    BY DEF Execute, At, outerVars, fixedVars, ControlInv
  <1>2. /\ cpu_inst \in Nat /\ config.limit \in Nat
        /\ begun \in [DOMAIN Trace -> Nat] /\ file_pos \in DOMAIN Trace
    BY ScenarioAssumption DEF TypeOK, CountType, LineType
  <1>3. \A u \in Mcp : fresh'[u] = fresh[u]
    BY CoreFacts DEF Execute, Begin, TypeOK, CoreType
  <1>4. \A u \in Mcp : Spots(u)' = Spots(u) /\ \A i : LineAt(u, i)' = LineAt(u, i)
    BY <1>1, <1>3 DEF Spots, LineAt
  <1>5. \/ ~fresh[Master] /\ UNCHANGED countVars
        \/ /\ fresh[Master] /\ cpu_inst' = cpu_inst + 1
           /\ begun' = [begun EXCEPT ![file_pos] = @ + 1]
    BY <1>1 DEF Execute, Begin
  <1>6. Live' => Live
    BY <1>1, <1>2, <1>5 DEF Live, LimitReached, countVars
  <1>7. \A p \in DOMAIN Trace : begun[p] > 0 => begun'[p] > 0
    BY <1>2, <1>5 DEF countVars
  <1>8. \A p \in DOMAIN Trace : Kept(p) => Kept(p)'
    BY <1>4, <1>7 DEF Kept, Waits
  <1>9. ASSUME file_pos \in ReadLines, Instruction(file_pos), Live'
        PROVE  begun'[file_pos] > 0
    <2>1. CASE ~fresh[Master]
      <3>1. begun[file_pos] > 0
        BY <1>6, <1>9, <2>1 DEF KeptInv
      <3> QED
        BY <1>2, <1>7, <3>1
    <2>2. CASE fresh[Master]
      BY <1>2, <1>5, <2>2
    <2> QED
      BY <2>1, <2>2
  <1>10. file_pos \in ReadLines /\ Instruction(file_pos) /\ Live' =>
           (Handled' => Kept(file_pos)') /\ (~fresh'[Master] => begun'[file_pos] > 0)
    BY <1>1, <1>9 DEF Kept
  <1> QED
    BY <1>1, <1>6, <1>8, <1>10, KeptStable

(* A bypassed line waits. *)
LEMMA BypassKept ==
  ASSUME TypeOK, TypeOK', OneThread, ControlInv, KeptInv,
         BypassToNlp(Master) \/ BypassToNmp(Master)
  PROVE  KeptInv'
  <1>1. PICK u \in Mcp : Queued(Master, u)
    BY TargetFacts, CoreFacts DEF BypassToNlp, BypassToNmp
  <1>2. UNCHANGED <<config, file_pos, more_reqs, fresh, countVars>>
    BY <1>1 DEF Queued, outerVars, fixedVars
  <1>3. Live' = Live
    BY <1>2 DEF Live, LimitReached, countVars
  <1>4. PICK n : /\ n \notin Spots(u) /\ Spots(u)' = Spots(u) \cup {n}
                 /\ LineAt(u, n)' = file_pos
                 /\ \A i \in Spots(u) : LineAt(u, i)' = LineAt(u, i)
                 /\ \A v \in Mcp \ {u} : /\ Spots(v)' = Spots(v)
                                         /\ \A i : LineAt(v, i)' = LineAt(v, i)
    BY <1>1, QueuedSpots
  <1>5. \A v \in Mcp : \A i \in Spots(v) : i \in Spots(v)' /\ LineAt(v, i)' = LineAt(v, i)
    BY <1>4
  <1>6. \A p \in DOMAIN Trace : Kept(p) => Kept(p)'
    BY <1>2, <1>5 DEF Kept, Waits, countVars
  <1>7. n \in Spots(u)' /\ LineAt(u, n)' = file_pos'
    BY <1>2, <1>4
  <1>8. Kept(file_pos)'
    BY <1>7 DEF Kept, Waits
  <1>9. file_pos \in ReadLines /\ Instruction(file_pos) /\ Live' =>
          (Handled' => Kept(file_pos)') /\ (~fresh'[Master] => begun'[file_pos] > 0)
    BY <1>2, <1>3, <1>8 DEF KeptInv, countVars
  <1> QED
    BY <1>2, <1>3, <1>6, <1>9, KeptStable

LEMMA ReadOwnKept ==
  ASSUME TypeOK, TypeOK', OneThread, ControlInv, KeptInv, ReadOwn(Master)
  PROVE  KeptInv'
  <1>1. /\ UNCHANGED <<config, inst_queue, countVars>> /\ file_pos' = NextPlace
        /\ more_reqs'[Master] = NextMore /\ fresh'[Master] = TRUE
        /\ ctl.at = "next" /\ ctl'.at = ctl.ret /\ ctl.ret \in Callers
    BY OneThreadFacts DEF ReadOwn, At, Goto, outerVars, fixedVars, TypeOK, CoreType,
      ControlType
  <1>2. \A u \in Mcp : /\ trace_line'[u] = trace_line[u] /\ fresh'[u] = fresh[u]
                       /\ more_reqs'[u] = more_reqs[u]
    BY CoreFacts, OneThreadFacts DEF ReadOwn, TypeOK, LineType, CoreType
  <1>3. \A u \in Mcp : Spots(u)' = Spots(u) /\ \A i : LineAt(u, i)' = LineAt(u, i)
    BY <1>1, <1>2 DEF Spots, LineAt
  <1>4. \A p : Kept(p)' = Kept(p)
    BY <1>1, <1>3 DEF Kept, Waits, countVars
  <1>5. (Live' => Live) /\ Trace' = Trace /\ McpOnly' = McpOnly
    <2>1. more_reqs'[Master] => more_reqs[Master]
      BY <1>1, OneThreadFacts DEF ReadOwn, NextMore, ControlInv, TypeOK, CoreType
    <2> QED
      BY <1>1, <2>1, ConfigFacts DEF Live, LimitReached, countVars
  <1>6. \A p : Instruction(p)' = Instruction(p)
    BY <1>5 DEF Instruction
  <1>7. ~Handled'
    BY <1>1 DEF Handled, Callers
  <1>8. \A p \in ReadLines' : p \in ReadLines \/ (p = file_pos' /\ more_reqs'[Master])
    <2>1. Len(Trace) \in Nat /\ file_pos \in 1 .. Len(Trace)
      BY OneThreadFacts
    <2>2. CASE NextMore
      <3>1. NextPlace = file_pos + 1 /\ more_reqs'[Master]
        BY <1>1, <2>2 DEF NextPlace, NextMore
      <3>2. ReadLines' = IF McpOnly THEN 2 .. NextPlace ELSE 1 .. NextPlace
        BY <1>1, <1>5 DEF ReadLines
      <3> QED
        BY <1>1, <2>1, <3>1, <3>2 DEF ReadLines
    <2>3. CASE ~NextMore
      <3>1. NextPlace = file_pos
        BY <2>3 DEF NextPlace, NextMore
      <3> QED
        BY <1>1, <1>5, <3>1 DEF ReadLines
    <2> QED
      BY <2>2, <2>3
  <1>9. ASSUME Live, NEW p \in ReadLines, Instruction(p) PROVE Kept(p)
    <2>1. Handled
      BY <1>1 DEF Handled
    <2> QED
      BY <1>9, <2>1 DEF KeptInv
  <1> QED
    BY <1>1, <1>4, <1>5, <1>6, <1>7, <1>8, <1>9 DEF KeptInv

(* The points of a tick that leave every line where it is *)
LEMMA PassKept ==
  ASSUME TypeOK, OneThread, ControlInv, KeptInv,
         Wait(Master) \/ SkipExecution(Master) \/ FetchRefused(Master) \/ BypassFull(Master)
  PROVE  KeptInv'
  <1>1. UNCHANGED <<config, file_pos, trace_line, fresh, inst_queue, more_reqs, countVars>>
    BY DEF Wait, SkipExecution, FetchRefused, BypassFull, dataVars, execVars, outerVars,
       fixedVars
  <1>2. CASE Wait(Master)
    <2>1. /\ UNCHANGED <<lock_core, pending_bypass>> /\ ctl.at = "wait"
          /\ ctl' = Idle \/ Goto(Master, "execute", "none")
      BY <1>2 DEF Wait, At
    <2>2. Handled' => Handled
      BY <2>1 DEF Handled, Idle, Goto
    <2> QED
      BY <1>1, <2>2, StayKept
  <1>3. CASE SkipExecution(Master)
    <2>1. ctl.at = "execute" /\ lock_core[Master] /\ ~pending_bypass[Master]
      BY <1>3 DEF SkipExecution, At, ControlInv
    <2>2. Handled
      BY <2>1 DEF Handled
    <2> QED
      BY <1>1, <2>2, StayKept
  <1>4. CASE FetchRefused(Master)
    <2>1. UNCHANGED <<lock_core, pending_bypass>> /\ ctl.at = "execute" /\ ctl'.at = "idle"
      BY <1>4 DEF FetchRefused, At, Idle, dataVars, switchVars
    <2>2. Handled' => Handled
      BY <2>1 DEF Handled
    <2> QED
      BY <1>1, <2>2, StayKept
  <1>5. CASE BypassFull(Master)
    <2>1. pending_bypass'[Master] /\ (ctl' = Idle \/ Goto(Master, "finish", "none"))
      BY <1>5, OneThreadFacts DEF BypassFull, TypeOK, SwitchType
    <2>2. ~Handled'
      BY <2>1 DEF Handled, Idle, Goto
    <2> QED
      BY <1>1, <2>2, StayKept
  <1> QED
    BY <1>2, <1>3, <1>4, <1>5

LEMMA FinishKept ==
  ASSUME TypeOK, OneThread, ControlInv, KeptInv, Finish(Master)
  PROVE  KeptInv'
  <1>1. /\ UNCHANGED <<config, file_pos, trace_line, fresh, inst_queue, lock_core,
                       pending_bypass, countVars>>
        /\ ctl.at = "finish" /\ ctl'.at = "idle"
    BY DEF Finish, At, Idle, outerVars, fixedVars, switchVars
  <1>2. CASE LimitReached /\ ~reached_limit[Master]
    <2>1. ~more_reqs'[Master] /\ LimitReached'
      BY <1>1, <1>2, OneThreadFacts DEF Finish, LimitReached, countVars
    <2> QED
      BY <2>1 DEF KeptInv, Live
  <1>3. CASE ~(LimitReached /\ ~reached_limit[Master])
    <2>1. UNCHANGED more_reqs
      BY <1>3 DEF Finish, LimitReached
    <2>2. Handled' => Handled
      BY <1>1 DEF Handled
    <2> QED
      BY <1>1, <2>1, <2>2, StayKept
  <1> QED
    BY <1>2, <1>3

LEMMA ContinueKept ==
  ASSUME TypeOK, TypeOK', OneThread, ControlInv, RegionInv, KeptInv, ContinueTick(Master)
  PROVE  KeptInv'
  <1>1. CASE Wait(Master) \/ SkipExecution(Master) \/ BypassFull(Master)
    BY <1>1, PassKept
  <1> QED
    BY <1>1, StrategyKept, BypassKept, ReadOwnKept, FinishKept, OwnLine
    DEF ContinueTick, StrategyStep

----------------------------------------------------------------------------
(* All steps *)

LEMMA McpKept ==
  ASSUME TypeOK, TypeOK', KeptInv, NEW u \in Mcp, McpStep(u)
  PROVE  KeptInv'
  <1>1. /\ UNCHANGED <<config, file_pos, ctl, pending_bypass>>
        /\ Master # u /\ Master \in Cores /\ u \in Cores
    BY CoreFacts DEF McpStep, McpBegin, McpStall, McpComplete, mcpUnchanged, fixedVars,
      switchVars
  <1>2. /\ more_reqs'[Master] = more_reqs[Master] /\ fresh'[Master] = fresh[Master]
        /\ lock_core'[Master] = lock_core[Master]
    BY <1>1 DEF McpStep, McpBegin, McpStall, McpComplete, Begin, Pop, execVars, TypeOK,
      CoreType
  <1>3. Handled' => Handled
    BY <1>1, <1>2 DEF Handled
  <1>4. \/ UNCHANGED countVars
        \/ cpu_inst' = cpu_inst + 1 /\ begun' = [begun EXCEPT ![trace_line[u]] = @ + 1]
    BY DEF McpStep, McpBegin, McpStall, McpComplete, Begin
  <1>5. cpu_inst \in Nat /\ begun \in [DOMAIN Trace -> Nat]
    BY DEF TypeOK, CountType, LineType
  <1>6. cpu_inst' >= cpu_inst /\ \A p \in DOMAIN Trace : begun'[p] >= begun[p]
    <2>1. CASE UNCHANGED countVars
      BY <1>5, <2>1 DEF countVars
    <2>2. CASE cpu_inst' = cpu_inst + 1 /\ begun' = [begun EXCEPT ![trace_line[u]] = @ + 1]
      BY <1>5, <2>2
    <2> QED
      BY <1>4, <2>1, <2>2
  <1>7. \A p \in DOMAIN Trace : Kept(p) => Kept(p)'
    BY McpKeeps
  <1> QED
    BY <1>1, <1>2, <1>3, <1>6, <1>7, AwayKept

LEMMA OutsideKept ==
  ASSUME TypeOK, KeptInv,
         UNCHANGED <<config, file_pos, ctl, trace_line, fresh, more_reqs, inst_queue,
                     lock_core, pending_bypass, countVars>>
  PROVE  KeptInv'
  <1>1. Handled' => Handled
    BY DEF Handled
  <1> QED
    BY <1>1, StayKept

LEMMA NextKept ==
  ASSUME TypeOK, TypeOK', OneThread, ControlInv, RegionInv, KeptInv, [Next]_vars
  PROVE  KeptInv'
  <1>1. ASSUME NEW c \in HostCores, TickHeld(c) \/ ReceiveLoad(c) PROVE KeptInv'
    BY <1>1, OutsideKept DEF TickHeld, ReceiveLoad, execVars, switchVars, outerVars,
       fixedVars
  <1>2. CASE TryExecute(Master)
    BY <1>2, PassKept, ExecuteKept DEF TryExecute
  <1>3. ASSUME NEW c \in HostCores, HostStep(c) PROVE KeptInv'
    <2>1. CASE c = Master
      BY <1>1, <1>2, <1>3, <2>1, StartKept, ContinueKept DEF HostStep
    <2>2. CASE c # Master
      BY <1>1, <1>3, <2>2, OtherHost
    <2> QED
      BY <2>1, <2>2
  <1>4. ASSUME NEW u \in Cores, ReceiveFetch(u) PROVE KeptInv'
    BY <1>4, OutsideKept DEF ReceiveFetch, switchVars, outerVars, fixedVars
  <1>5. CASE WarmedUp
    BY <1>5, OutsideKept DEF WarmedUp, execVars, switchVars
  <1>6. CASE UNCHANGED vars
    BY <1>6, OutsideKept DEF vars, execVars, switchVars, fixedVars
  <1> QED
    BY <1>3, <1>4, <1>5, <1>6, McpKept DEF Next

LEMMA InitKept ==
  ASSUME Init
  PROVE  KeptInv
  <1>1. /\ file_pos = 1 /\ ctl = Idle /\ more_reqs[Master] /\ fresh[Master]
        /\ lock_core[Master] <=> McpOnly
    BY CoreFacts DEF Init, McpOnly
  <1>2. file_pos \in ReadLines => ~McpOnly
    BY <1>1 DEF ReadLines
  <1>3. ~McpOnly => ~Handled
    BY <1>1 DEF Handled, Idle
  <1>4. \A p \in ReadLines : p = file_pos
    BY <1>1 DEF ReadLines
  <1> QED
    BY <1>1, <1>2, <1>3, <1>4 DEF KeptInv

LEMMA KeptInductive ==
  ASSUME OneThread
  PROVE  /\ Init => OneThreadInv /\ KeptInv
         /\ OneThreadInv /\ KeptInv /\ [Next]_vars => (OneThreadInv /\ KeptInv)'
  <1>1. Init => OneThreadInv /\ KeptInv
    BY InitKept, OneThreadInductive
  <1>2. ASSUME OneThreadInv, KeptInv, [Next]_vars PROVE (OneThreadInv /\ KeptInv)'
    <2>1. OneThreadInv'
      BY <1>2, OneThreadInductive
    <2> QED
      BY <1>2, <2>1, NextKept DEF OneThreadInv
  <1> QED
    BY <1>1, <1>2

(* A line that is kept is in the hands of a core, or queued. *)
LEMMA KeptNotLost ==
  ASSUME OneThreadInv, KeptInv
  PROVE  KeptButFirst
  <1> SUFFICES ASSUME ~LimitReached, NEW p \in ReadLines, Instruction(p), begun[p] = 0
               PROVE  \E u \in Cores : Holds(u, p) \/ InQueue(u, p)
    BY DEF KeptButFirst, NotLostIn, ReadLines
  <1>1. TypeOK /\ trace_line[Master] = file_pos
    BY DEF OneThreadInv, ControlInv
  <1>2. CASE p = file_pos /\ more_reqs[Master]
    BY <1>1, <1>2, CoreFacts DEF Holds
  <1>3. CASE Waits(p)
    <2>1. PICK u \in Mcp : \E i \in Spots(u) : LineAt(u, i) = p
      BY <1>3 DEF Waits
    <2>2. PICK i \in Spots(u) : LineAt(u, i) = p
      BY <2>1
    <2>3. CASE i = 0
      <3>1. more_reqs[u] /\ trace_line[u] = p
        BY <1>1, <2>2, <2>3, SpotFacts DEF Spots, LineAt
      <3> QED
        BY <3>1, CoreFacts DEF Holds
    <2>4. CASE i # 0
      <3>1. i \in DOMAIN inst_queue[u] /\ inst_queue[u][i] = p
        BY <2>2, <2>4 DEF Spots, LineAt
      <3> QED
        BY <3>1, CoreFacts DEF InQueue
    <2> QED
      BY <2>3, <2>4
  <1> QED
    BY <1>2, <1>3 DEF KeptInv, Live, Kept

(* With one host thread, in every mode and for every trace, no instruction *)
(* that was read is lost before it is begun: not when a full queue refuses *)
(* it, not at the borders of regions, not while both sides wait for each   *)
(* other.  The first line of MCP-Only is excepted (the core starts locked  *)
(* and reads on, Processor.cpp:858), and what the instruction limit drops. *)
THEOREM OffloadKeptButFirst ==
  ASSUME OneThread
  PROVE  Spec => []KeptButFirst
  <1>1. OneThreadInv /\ KeptInv => KeptButFirst
    BY KeptNotLost
  <1> QED
    BY <1>1, KeptInductive, PTL DEF Spec

(* In the other modes that holds of every line. *)
NoMcpOnly == \A s \in Scenarios : s.mode # "MCP-Only"

THEOREM OffloadNothingLost ==
  ASSUME OneThread, NoMcpOnly
  PROVE  Spec => []NothingLost
  <1>1. OneThreadInv /\ KeptInv => NothingLost
    <2> SUFFICES ASSUME OneThreadInv, KeptInv PROVE NothingLost
      OBVIOUS
    <2>1. config \in Scenarios
      BY DEF OneThreadInv, TypeOK, LineType
    <2>2. ~McpOnly
      BY <2>1 DEF NoMcpOnly, McpOnly
    <2> QED
      BY <2>2, KeptNotLost DEF KeptButFirst, NothingLost
  <1> QED
    BY <1>1, KeptInductive, PTL DEF Spec

----------------------------------------------------------------------------
(* The order of lines *)

(* Core u has lines of the trace behind each other, up to the one read last. *)
InOrder(u) == Rising(0, trace_line[u], inst_queue[u], file_pos)

OrderInv == \A u \in Mcp : InOrder(u)

(* What a step does to the lines of an MCP core: it leaves them, takes the *)
(* oldest one in hand, or adds the one read last.                          *)
LeavesLines(u) == trace_line'[u] = trace_line[u] /\ inst_queue'[u] = inst_queue[u]
TakesOldest(u) ==
  /\ inst_queue[u] # <<>>
  /\ trace_line'[u] = Head(inst_queue[u]) /\ inst_queue'[u] = Tail(inst_queue[u])
AddsLine(u) ==
  trace_line'[u] = trace_line[u] /\ inst_queue'[u] = Append(inst_queue[u], file_pos)

McpLinesStep == \A u \in Mcp : LeavesLines(u) \/ TakesOldest(u) \/ AddsLine(u)
HostLinesStay == \A h \in HostCores \ {Master} : trace_line'[h] = trace_line[h]
LinesStep == McpLinesStep /\ HostLinesStay

LEMMA StayLines ==
  ASSUME UNCHANGED <<trace_line, inst_queue>>
  PROVE  LinesStep
  BY DEF LinesStep, McpLinesStep, HostLinesStay, LeavesLines

LEMMA StartLines ==
  ASSUME TypeOK, StartTick(Master)
  PROVE  LinesStep
  <1>1. CASE TickDispatch(Master)
    <2>1. PICK S \in SUBSET Mcp : GetFirst(S, inst_queue)
      BY <1>1, CoreFacts DEF TickDispatch
    <2>2. ASSUME NEW u \in Mcp PROVE LeavesLines(u) \/ TakesOldest(u)
      BY <2>1, CoreFacts DEF GetFirst, NextQueued, LeavesLines, TakesOldest
    <2>3. HostLinesStay
      BY <2>1, CoreFacts DEF GetFirst, HostLinesStay
    <2> QED
      BY <2>2, <2>3 DEF LinesStep, McpLinesStep
  <1>2. CASE ~TickDispatch(Master)
    BY <1>2, StayLines DEF StartTick, TickHeld, TickOverhead, TickUnlocked, execVars
  <1> QED
    BY <1>1, <1>2

LEMMA BypassLines ==
  ASSUME TypeOK, OneThread, ControlInv, BypassToNlp(Master) \/ BypassToNmp(Master)
  PROVE  LinesStep
  <1>1. PICK u \in Mcp : Queued(Master, u)
    BY TargetFacts, CoreFacts DEF BypassToNlp, BypassToNmp
  <1>2. /\ trace_line' = trace_line
        /\ inst_queue' = [inst_queue EXCEPT ![u] = Append(@, file_pos)]
    BY <1>1 DEF Queued, Enqueued, ControlInv
  <1>3. ASSUME NEW v \in Mcp PROVE LeavesLines(v) \/ AddsLine(v)
    BY <1>2, CoreFacts DEF LeavesLines, AddsLine, TypeOK, LineType
  <1> QED
    BY <1>2, <1>3 DEF LinesStep, McpLinesStep, HostLinesStay

LEMMA McpLines ==
  ASSUME TypeOK, NEW u \in Mcp, McpStep(u)
  PROVE  LinesStep
  <1>1. CASE ~McpComplete(u)
    BY <1>1, StayLines DEF McpStep, McpBegin, McpStall, execVars
  <1>2. CASE McpComplete(u)
    <2>1. ASSUME NEW v \in Mcp PROVE LeavesLines(v) \/ TakesOldest(v)
      BY <1>2, CoreFacts DEF McpComplete, Pop, NextQueued, LeavesLines, TakesOldest, TypeOK,
        LineType
    <2>2. HostLinesStay
      BY <1>2, CoreFacts DEF McpComplete, Pop, HostLinesStay, TypeOK, LineType
    <2> QED
      BY <2>1, <2>2 DEF LinesStep, McpLinesStep
  <1> QED
    BY <1>1, <1>2

LEMMA StrategyLines ==
  ASSUME TypeOK, OneThread, ControlInv, RegionInv, StrategyStep
  PROVE  LinesStep /\ file_pos' = file_pos
  <1>1. UNCHANGED linesUnchanged
    BY StrategyGoes
  <1> QED
    BY <1>1, StayLines DEF linesUnchanged, execVars

(* The master reads on. *)
LEMMA ReadOwnLines ==
  ASSUME TypeOK, OneThread, ReadOwn(Master)
  PROVE  LinesStep /\ file_pos' >= file_pos
  <1>1. \A u \in Cores \ {Master} : trace_line'[u] = trace_line[u]
    BY DEF ReadOwn, TypeOK, LineType
  <1>2. LinesStep
    BY <1>1, CoreFacts DEF ReadOwn, LinesStep, McpLinesStep, HostLinesStay, LeavesLines
  <1>3. file_pos' = NextPlace /\ file_pos \in Nat
    BY OneThreadFacts DEF ReadOwn
  <1> QED
    BY <1>2, <1>3 DEF NextPlace

LEMMA ContinueLines ==
  ASSUME TypeOK, OneThread, ControlInv, RegionInv, ContinueTick(Master)
  PROVE  LinesStep /\ file_pos' >= file_pos
  <1>1. file_pos \in Nat
    BY OneThreadFacts
  <1>2. CASE Wait(Master) \/ SkipExecution(Master) \/ Finish(Master) \/ BypassFull(Master)
    <2>1. UNCHANGED <<trace_line, inst_queue, file_pos>>
      BY <1>2 DEF Wait, SkipExecution, Finish, BypassFull, dataVars, execVars
    <2> QED
      BY <1>1, <2>1, StayLines
  <1>3. CASE BypassToNlp(Master) \/ BypassToNmp(Master)
    <2>1. file_pos' = file_pos
      BY <1>3 DEF BypassToNlp, BypassToNmp, Queued
    <2> QED
      BY <1>1, <1>3, <2>1, BypassLines
  <1> QED
    BY <1>1, <1>2, <1>3, StrategyLines, ReadOwnLines, OwnLine DEF ContinueTick, StrategyStep

LEMMA NextLines ==
  ASSUME TypeOK, OneThread, ControlInv, RegionInv, [Next]_vars
  PROVE  LinesStep /\ file_pos' >= file_pos
  <1>1. file_pos \in Nat
    BY OneThreadFacts
  <1>2. ASSUME NEW c \in HostCores, TickHeld(c) \/ ReceiveLoad(c)
        PROVE  LinesStep /\ file_pos' >= file_pos
    BY <1>1, <1>2, StayLines DEF TickHeld, ReceiveLoad, execVars
  <1>3. CASE TryExecute(Master)
    <2>1. UNCHANGED <<trace_line, inst_queue, file_pos>>
      BY <1>3 DEF TryExecute, FetchRefused, Execute, dataVars, execVars
    <2> QED
      BY <1>1, <2>1, StayLines
  <1>4. CASE StartTick(Master)
    <2>1. file_pos' = file_pos
      BY <1>4 DEF StartTick, TickHeld, TickOverhead, TickDispatch, TickUnlocked
    <2> QED
      BY <1>1, <1>4, <2>1, StartLines
  <1>5. ASSUME NEW c \in HostCores, HostStep(c) PROVE LinesStep /\ file_pos' >= file_pos
    <2>1. CASE c = Master
      BY <1>2, <1>3, <1>4, <1>5, <2>1, ContinueLines DEF HostStep
    <2>2. CASE c # Master
      BY <1>2, <1>5, <2>2, OtherHost
    <2> QED
      BY <2>1, <2>2
  <1>6. ASSUME NEW u \in Mcp, McpStep(u) PROVE LinesStep /\ file_pos' >= file_pos
    <2>1. file_pos' = file_pos
      BY <1>6 DEF McpStep, McpBegin, McpStall, McpComplete, mcpUnchanged
    <2> QED
      BY <1>1, <1>6, <2>1, McpLines
  <1>7. ASSUME NEW u \in Cores, ReceiveFetch(u) PROVE LinesStep /\ file_pos' >= file_pos
    BY <1>1, <1>7, StayLines DEF ReceiveFetch
  <1>8. CASE WarmedUp \/ UNCHANGED vars
    BY <1>1, <1>8, StayLines DEF WarmedUp, vars, execVars
  <1> QED
    BY <1>5, <1>6, <1>7, <1>8 DEF Next

(* The three ways keep the order, and only move on in the trace. *)
LEMMA McpInOrder ==
  ASSUME TypeOK, TypeOK', NEW u \in Mcp, InOrder(u), file_pos' >= file_pos,
         LeavesLines(u) \/ TakesOldest(u) \/ AddsLine(u)
  PROVE  InOrder(u)' /\ trace_line'[u] >= trace_line[u]
  <1> DEFINE q == inst_queue[u]
  <1>1. q \in Seq(Nat) /\ trace_line[u] \in Nat /\ file_pos \in Nat /\ file_pos' \in Nat
    <2>1. config'.trace \in Seq(Lines) /\ file_pos' \in DOMAIN config'.trace
      BY ScenarioAssumption DEF TypeOK, LineType, Trace
    <2>2. file_pos' \in Nat
      BY <2>1
    <2>3. u \in Cores
      BY CoreFacts
    <2> QED
      BY <2>2, <2>3, HostTypes
  <1>2. Rising(0, trace_line[u], q, file_pos)
    BY DEF InOrder
  <1> HIDE DEF q
  <1>3. CASE LeavesLines(u)
    BY <1>1, <1>2, <1>3, RisingLater DEF LeavesLines, InOrder, q
  <1>4. CASE TakesOldest(u)
    <2>1. q # <<>> /\ trace_line'[u] = Head(q) /\ inst_queue'[u] = Tail(q)
      BY <1>4 DEF TakesOldest, q
    <2>2. Head(q) \in Nat /\ Tail(q) \in Seq(Nat)
      BY <1>1, <2>1
    <2>3. Rising(0, Head(q), Tail(q), file_pos) /\ trace_line[u] + 0 <= Head(q)
      BY <1>1, <1>2, <2>1, RisingTail
    <2>4. Rising(0, Head(q), Tail(q), file_pos')
      BY <1>1, <2>2, <2>3, RisingLater
    <2> QED
      BY <1>1, <2>1, <2>2, <2>3, <2>4 DEF InOrder
  <1>5. CASE AddsLine(u)
    <2>1. trace_line'[u] = trace_line[u] /\ inst_queue'[u] = Append(q, file_pos)
      BY <1>5 DEF AddsLine, q
    <2>2. Append(q, file_pos) \in Seq(Nat)
      BY <1>1
    <2>3. Rising(0, trace_line[u], Append(q, file_pos), file_pos)
      BY <1>1, <1>2, RisingAppend
    <2>4. Rising(0, trace_line[u], Append(q, file_pos), file_pos')
      BY <1>1, <2>2, <2>3, RisingLater
    <2> QED
      BY <1>1, <2>1, <2>4 DEF InOrder
  <1> QED
    BY <1>3, <1>4, <1>5

LEMMA NextInOrder ==
  ASSUME OneThread, OneThreadInv, OrderInv, [Next]_vars
  PROVE  OrderInv' /\ \A u \in Cores : trace_line'[u] >= trace_line[u]
  <1>1. OneThreadInv'
    BY OneThreadInductive
  <1>2. LinesStep /\ file_pos' >= file_pos
    BY NextLines DEF OneThreadInv
  <1>3. \A u \in Mcp : InOrder(u)' /\ trace_line'[u] >= trace_line[u]
    BY <1>1, <1>2, McpInOrder DEF OneThreadInv, OrderInv, LinesStep, McpLinesStep
  <1>4. trace_line'[Master] >= trace_line[Master]
    BY <1>1, <1>2 DEF OneThreadInv, ControlInv
  <1>5. ASSUME NEW h \in HostCores, h # Master PROVE trace_line'[h] >= trace_line[h]
    <2>1. trace_line[h] \in Nat
      BY TraceFacts, CoreFacts DEF OneThreadInv, TypeOK, LineType
    <2> QED
      BY <1>2, <1>5, <2>1 DEF LinesStep, HostLinesStay
  <1> QED
    BY <1>3, <1>4, <1>5, CoreFacts DEF OrderInv

(* With one host thread, each core performs its lines in the order of the  *)
(* trace, however they are spread over the vaults and whenever the queues  *)
(* are handed on (SqueduleQueue; get_first_instruction).                   *)
THEOREM OffloadKeepsTraceOrder ==
  ASSUME OneThread
  PROVE  Spec => CoresKeepTraceOrder
  <1>1. Init => OrderInv
    <2> SUFFICES ASSUME Init, NEW u \in Mcp PROVE InOrder(u)
      BY DEF OrderInv
    <2>1. trace_line[u] = 1 /\ file_pos = 1 /\ inst_queue[u] = <<>>
      BY CoreFacts DEF Init
    <2> QED
      BY <2>1 DEF InOrder, Rising
  <1>2. OneThreadInv /\ OrderInv /\ [Next]_vars => OneThreadInv' /\ OrderInv'
    BY NextInOrder, OneThreadInductive
  <1>3. OneThreadInv /\ OrderInv /\ [Next]_vars =>
          [\A u \in Cores : trace_line'[u] >= trace_line[u]]_vars
    BY NextInOrder
  <1>4. Init => OneThreadInv
    BY OneThreadInductive
  <1> QED
    BY <1>1, <1>2, <1>3, <1>4, PTL DEF Spec, CoresKeepTraceOrder

----------------------------------------------------------------------------
(* Host and MCP side take turns *)

(* What is assumed: no NLP cores, to whose queues a refused line may turn  *)
(* on its retry; no overhead_cycle, during which the target of a refused   *)
(* bypass may run dry; and MCP cores no faster than the host.              *)
CoSimAlone ==
  /\ Overhead = 0 /\ McpTicks = 1
  /\ \A s \in Scenarios : s.mode = "Co-Simulation" /\ ~s.nlp

(* Where the master stands, a read counted as the point it returns to *)
Point == IF ctl.at = "next" THEN ctl.ret ELSE ctl.at

(* No MCP core is idle with lines queued. *)
AllWoken == \A u \in Mcp : inst_queue[u] # <<>> => more_reqs[u]

(* The master may pass the gate of its tick while its process drains.      *)
Open == proc_switching[Master] /\ in_flight[Master] = 0

(* proc_switching tells which side has its turn: without it no MCP core    *)
(* has a line in hand, with it the master's window is empty.               *)
SideInv ==
  /\ overhead[Master] = 0
  /\ \A u \in NlpCores : ~more_reqs[u] /\ inst_queue[u] = <<>>
  /\ \A h \in HostCores \ {Master} : ~deployed[h]
  /\ ~proc_switching[Master] => \A u \in Mcp : ~more_reqs[u]
  /\ proc_switching[Master] => load[Master] = 0

(* Between ticks: a locked master is inside a region; an unlocked one has  *)
(* left no core idle with lines queued, and has its turn unless it waits.  *)
RestTurn ==
  ctl.at \in {"idle", "finish", "wait"} =>
    /\ lock_core[Master] => inside_region[Master] /\ ~wait_for_nmp[Master]
    /\ ~lock_core[Master] =>
         /\ AllWoken
         /\ wait_for_nmp[Master] \/ ~proc_switching[Master]

(* Within a tick, past its gate *)
TickTurn ==
  ctl.at \notin {"idle", "finish"} =>
    /\ AllWoken
    /\ ctl.at = "wait" \/ ~wait_for_nmp[Master]
    /\ ctl.at \in {"wait", "execute"} =>
         (lock_core[Master] => inside_region[Master] /\ Open)
    /\ ctl.at = "execute" => (~lock_core[Master] => ~proc_switching[Master])
    /\ ctl.at \notin {"wait", "execute"} =>
         /\ proc_switching[Master] => Open
    /\ Point = "decide" => (proc_switching[Master] => inside_region[Master])
    /\ Point = "host_only" => ~proc_switching[Master]
    /\ Point # "nmp_only"
    /\ ctl.at = "bypass" =>
         /\ inside_region[Master]
         /\ ctl.ret = "retry" => pending_bypass[Master]

(* A refused bypass keeps the gate open; its target had lines in hand and  *)
(* queued, and can have completed but one of them since.                   *)
PendingTurn ==
  pending_bypass[Master] =>
    LET u == HostNum + Held(Master).vault IN
    /\ lock_core[Master] /\ Open /\ more_reqs[u]
    /\ ctl.at \in {"idle", "finish"} => Full(u) \/ mcp_ticks[u] = McpTicks

TurnInv == SideInv /\ (more_reqs[Master] => RestTurn /\ TickTurn /\ PendingTurn)

----------------------------------------------------------------------------
(* Facts *)

LEMMA TurnFacts ==
  ASSUME TypeOK, OneThread, CoSimAlone
  PROVE  /\ config.mode = "Co-Simulation" /\ ~NlpOn /\ ~McpOnly
         /\ Overhead = 0 /\ McpTicks = 1
         /\ Master \in HostCores /\ Master \in Cores /\ Master \notin Mcp
         /\ HostNum + Held(Master).vault \in NmpCores
         /\ Mcp = NmpCores \cup NlpCores /\ Mcp \subseteq Cores
  <1>1. config.mode = "Co-Simulation" /\ ~NlpOn
    BY DEF TypeOK, LineType, CoSimAlone, NlpOn
  <1>2. Held(Master).vault \in 0 .. NmpNum - 1
    BY TraceFacts, LineFields, OneThreadFacts DEF TypeOK
  <1>3. HostNum + Held(Master).vault \in NmpCores
    BY <1>2, NumAssumption DEF NmpCores
  <1> QED
    BY <1>1, <1>3, OneThreadFacts, CoreFacts DEF McpOnly, CoSimAlone, Mcp

LEMMA StableSide ==
  ASSUME SideInv, UNCHANGED <<overhead, deployed, proc_switching>>,
         proc_switching[Master] => load'[Master] = 0,
         \A u \in Mcp : more_reqs'[u] => more_reqs[u],
         \A u \in NlpCores : inst_queue'[u] = inst_queue[u]
  PROVE  SideInv'
  BY CoreFacts DEF SideInv

(* Steps that touch neither the master nor the MCP side *)
LEMMA OutsideTurn ==
  ASSUME TurnInv,
         UNCHANGED <<config, ctl, trace_line, more_reqs, inst_queue, lock_core, deployed,
                     switchVars, inside_region, mcp_ticks>>,
         load'[Master] = load[Master], in_flight[Master] = 0 => in_flight'[Master] = 0
  PROVE  TurnInv'
  <1>1. SideInv'
    BY StableSide DEF TurnInv, SideInv, switchVars
  <1>2. AllWoken' = AllWoken /\ Point' = Point /\ Held(Master)' = Held(Master)
        /\ \A u : Full(u)' = Full(u)
    BY DEF AllWoken, Point, Held, Trace, Full
  <1>3. Open => Open'
    BY DEF Open, switchVars
  <1>4. RestTurn => RestTurn'
    BY <1>2 DEF RestTurn, switchVars
  <1>5. TickTurn => TickTurn'
    BY <1>2, <1>3 DEF TickTurn, switchVars
  <1>6. PendingTurn => PendingTurn'
    BY <1>2, <1>3 DEF PendingTurn, switchVars
  <1> QED
    BY <1>1, <1>4, <1>5, <1>6 DEF TurnInv

----------------------------------------------------------------------------
(* The gate of the master's tick *)

LEMMA DrainedRetires ==
  ASSUME TypeOK, Retire(Master), load[Master] = 0
  PROVE  load'[Master] = 0
  <1>1. ready[Master] = 0
    BY CoreFacts DEF TypeOK, WindowType
  <1>2. load'[Master] = load[Master] - MinOf(IPC, ready[Master])
    BY CoreFacts, <1>1 DEF Retire, Retired, TypeOK, WindowType
  <1>3. MinOf(IPC, 0) = 0
    BY NumAssumption DEF MinOf
  <1> QED
    BY <1>1, <1>2, <1>3

(* With a bypass to retry the master passes the gate. *)
LEMMA TickHeldTurn ==
  ASSUME TypeOK, OneThread, CoSimAlone, ControlInv, TurnInv, TickHeld(Master)
  PROVE  TurnInv'
  <1>1. /\ UNCHANGED <<config, ctl, trace_line, more_reqs, inst_queue, in_flight, lock_core,
                       overhead, deployed, proc_switching, pending_bypass, wait_for_nmp,
                       inside_region>>
        /\ ctl.at = "idle" /\ Retire(Master)
    BY DEF TickHeld, Idle, execVars, switchVars, regionVars, fixedVars
  <1>2. SideInv'
    BY <1>1, DrainedRetires, StableSide DEF TurnInv, SideInv
  <1>3. more_reqs[Master] => ~pending_bypass[Master]
    <2> SUFFICES ASSUME more_reqs[Master], pending_bypass[Master] PROVE FALSE
      OBVIOUS
    <2>1. lock_core[Master] /\ in_flight[Master] = 0 /\ proc_switching[Master]
      BY DEF TurnInv, PendingTurn, Open
    <2> QED
      BY <2>1 DEF TickHeld, MayProceed
  <1>4. AllWoken' = AllWoken
    BY <1>1 DEF AllWoken
  <1>5. more_reqs[Master] => RestTurn' /\ TickTurn' /\ PendingTurn'
    BY <1>1, <1>3, <1>4 DEF TurnInv, RestTurn, TickTurn, PendingTurn
  <1> QED
    BY <1>1, <1>2, <1>5 DEF TurnInv

LEMMA TickDispatchTurn ==
  ASSUME TypeOK, OneThread, CoSimAlone, ControlInv, TurnInv, TickDispatch(Master)
  PROVE  TurnInv'
  <1>1. /\ UNCHANGED <<config, in_flight, deployed, overhead, pending_bypass, wait_for_nmp,
                       inside_region>>
        /\ ctl.at = "idle" /\ Retire(Master) /\ GetFirst(NmpCores, inst_queue)
        /\ in_flight[Master] = 0 /\ lock_core[Master] /\ more_reqs[Master]
        /\ AfterGate(Master)
    BY TurnFacts DEF TickDispatch, MayProceed, Idle, regionVars, fixedVars
  <1>2. proc_switching'[Master]
    BY TurnFacts DEF TickDispatch, TypeOK, SwitchType
  <1>3. load'[Master] = 0
    <2>1. CASE proc_switching[Master]
      BY <1>1, <2>1, DrainedRetires DEF TurnInv, SideInv
    <2>2. CASE HostDrained
      BY <2>2, TurnFacts DEF HostDrained, ControlInv
    <2> QED
      BY <2>1, <2>2 DEF TickDispatch
  <1>4. /\ more_reqs'[Master] = more_reqs[Master] /\ lock_core'[Master] = lock_core[Master]
        /\ trace_line'[Master] = trace_line[Master]
    BY <1>1, TurnFacts, CoreFacts DEF GetFirst, TypeOK, CoreType
  <1>5. \A u \in NlpCores : ~more_reqs'[u] /\ inst_queue'[u] = <<>>
    <2>1. \A u \in NlpCores : u \notin NmpCores
      BY NumAssumption DEF NlpCores, NmpCores
    <2> QED
      BY <1>1, <2>1, TurnFacts, CoreFacts DEF GetFirst, TurnInv, SideInv
  <1>6. SideInv'
    BY <1>1, <1>2, <1>3, <1>5 DEF TurnInv, SideInv
  <1>7. AllWoken'
    <2>1. ASSUME NEW u \in NmpCores, inst_queue'[u] # <<>> PROVE more_reqs'[u]
      BY <1>1, <2>1, TurnFacts DEF GetFirst
    <2> QED
      BY <1>5, <2>1, TurnFacts DEF AllWoken
  <1>8. \A u \in Mcp : more_reqs[u] => more_reqs'[u]
    BY <1>1, TurnFacts DEF GetFirst
  <1>9. Open'
    BY <1>1, <1>2 DEF Open
  <1>10. inside_region[Master] /\ ~wait_for_nmp[Master]
    BY <1>1 DEF TurnInv, RestTurn
  <1>11. ctl'.at = (IF pending_bypass[Master] THEN "bypass" ELSE "wait") /\ ctl'.ret = "retry"
    BY <1>1 DEF AfterGate, Goto
  <1>12. RestTurn' /\ TickTurn'
    BY <1>1, <1>4, <1>7, <1>9, <1>10, <1>11 DEF RestTurn, TickTurn, Point
  <1>13. PendingTurn'
    <2>1. Held(Master)' = Held(Master)
      BY <1>1, <1>4 DEF Held, Trace
    <2>2. pending_bypass[Master] => more_reqs'[HostNum + Held(Master).vault]
      BY <1>1, <1>8, TurnFacts DEF TurnInv, PendingTurn
    <2> QED
      BY <1>1, <1>4, <1>9, <1>11, <2>1, <2>2 DEF PendingTurn
  <1> QED
    BY <1>6, <1>12, <1>13 DEF TurnInv

LEMMA TickUnlockedTurn ==
  ASSUME TypeOK, OneThread, CoSimAlone, ControlInv, TurnInv, TickUnlocked(Master)
  PROVE  TurnInv'
  <1>1. /\ UNCHANGED <<config, trace_line, more_reqs, inst_queue, in_flight, lock_core,
                       overhead, deployed, proc_switching, pending_bypass, wait_for_nmp,
                       inside_region>>
        /\ ctl.at = "idle" /\ Retire(Master) /\ AfterGate(Master)
        /\ more_reqs[Master] /\ ~lock_core[Master]
    BY DEF TickUnlocked, MayProceed, Idle, execVars, switchVars, regionVars, fixedVars
  <1>2. SideInv'
    BY <1>1, DrainedRetires, StableSide DEF TurnInv, SideInv
  <1>3. ~pending_bypass[Master]
    BY <1>1 DEF TurnInv, PendingTurn
  <1>4. ctl'.at = "wait"
    BY <1>1, <1>3 DEF AfterGate, Goto
  <1>5. AllWoken' = AllWoken
    BY <1>1 DEF AllWoken
  <1>6. RestTurn' /\ TickTurn' /\ PendingTurn'
    BY <1>1, <1>3, <1>4, <1>5 DEF TurnInv, RestTurn, TickTurn, PendingTurn, Point
  <1> QED
    BY <1>2, <1>6 DEF TurnInv

----------------------------------------------------------------------------
(* The rest of the master's tick *)

LEMMA WaitTurn ==
  ASSUME TypeOK, OneThread, CoSimAlone, ControlInv, TurnInv, Wait(Master)
  PROVE  TurnInv'
  <1> DEFINE over == Finished(NmpCores) /\ (NlpOn => Finished(NlpCores))
  <1>1. /\ UNCHANGED <<config, trace_line, more_reqs, inst_queue, in_flight, lock_core, load,
                       overhead, deployed, pending_bypass, inside_region>>
        /\ ctl.at = "wait" /\ more_reqs[Master] /\ ~pending_bypass[Master]
    BY DEF Wait, At, execVars, windowVars, regionVars, outerVars, fixedVars, ControlInv
  <1>2. AllWoken' = AllWoken /\ AllWoken
    BY <1>1 DEF AllWoken, TurnInv, TickTurn
  <1>3. CASE wait_for_nmp[Master] /\ ~over
    <2>1. ctl'.at = "idle" /\ UNCHANGED <<proc_switching, wait_for_nmp>>
      BY <1>3 DEF Wait, Idle
    <2>2. SideInv'
      BY <1>1, <2>1, StableSide DEF TurnInv, SideInv
    <2>3. RestTurn' /\ TickTurn' /\ PendingTurn'
      BY <1>1, <1>2, <2>1 DEF TurnInv, RestTurn, TickTurn, PendingTurn
    <2> QED
      BY <2>2, <2>3 DEF TurnInv
  <1>4. CASE ~(wait_for_nmp[Master] /\ ~over)
    <2>1. /\ ctl'.at = "execute" /\ ~wait_for_nmp'[Master]
          /\ proc_switching'[Master] = (proc_switching[Master] /\ ~wait_for_nmp[Master])
      BY <1>4, TurnFacts DEF Wait, Goto, TypeOK, SwitchType
    <2>2. wait_for_nmp[Master] => \A u \in NmpCores : ~more_reqs[u]
      BY <1>4 DEF Finished
    <2>3. ~proc_switching'[Master] => \A u \in Mcp : ~more_reqs[u]
      BY <2>1, <2>2, TurnFacts DEF TurnInv, SideInv
    <2>4. SideInv'
      BY <1>1, <2>1, <2>3 DEF TurnInv, SideInv
    <2>5. Open /\ ~wait_for_nmp[Master] => Open'
      BY <1>1, <2>1 DEF Open
    <2>6. RestTurn' /\ TickTurn' /\ PendingTurn'
      BY <1>1, <1>2, <2>1, <2>5 DEF TurnInv, RestTurn, TickTurn, PendingTurn, Point
    <2> QED
      BY <2>4, <2>6 DEF TurnInv
  <1> QED
    BY <1>3, <1>4

LEMMA SkipExecutionTurn ==
  ASSUME TypeOK, OneThread, CoSimAlone, ControlInv, TurnInv, SkipExecution(Master)
  PROVE  TurnInv'
  <1>1. /\ UNCHANGED dataVars /\ ctl.at = "execute" /\ lock_core[Master]
        /\ more_reqs[Master] /\ ~pending_bypass[Master]
        /\ ctl'.at = "next" /\ ctl'.ret = "decide"
    BY DEF SkipExecution, At, Goto, ControlInv
  <1>2. AllWoken' = AllWoken /\ Open' = Open
    BY <1>1 DEF AllWoken, Open, dataVars, execVars, switchVars
  <1>3. SideInv'
    BY <1>1, StableSide DEF TurnInv, SideInv, dataVars, execVars, switchVars, windowVars
  <1>4. RestTurn' /\ TickTurn' /\ PendingTurn'
    BY <1>1, <1>2 DEF TurnInv, RestTurn, TickTurn, PendingTurn, Point, dataVars, execVars,
      switchVars, regionVars
  <1> QED
    BY <1>3, <1>4 DEF TurnInv

LEMMA FetchRefusedTurn ==
  ASSUME TypeOK, OneThread, CoSimAlone, ControlInv, TurnInv, FetchRefused(Master)
  PROVE  TurnInv'
  <1>1. /\ UNCHANGED dataVars /\ ctl.at = "execute" /\ ~lock_core[Master]
        /\ more_reqs[Master] /\ ~pending_bypass[Master] /\ ctl'.at = "idle"
    BY DEF FetchRefused, At, Idle, ControlInv
  <1>2. AllWoken' = AllWoken
    BY <1>1 DEF AllWoken, dataVars, execVars
  <1>3. SideInv'
    BY <1>1, StableSide DEF TurnInv, SideInv, dataVars, execVars, switchVars, windowVars
  <1>4. RestTurn' /\ TickTurn' /\ PendingTurn'
    BY <1>1, <1>2 DEF TurnInv, RestTurn, TickTurn, PendingTurn, dataVars, execVars,
      switchVars, regionVars
  <1> QED
    BY <1>3, <1>4 DEF TurnInv

(* The host performs a line only in its turn. *)
LEMMA ExecuteTurn ==
  ASSUME TypeOK, OneThread, CoSimAlone, ControlInv, TurnInv, NEW complete \in BOOLEAN,
         Execute(Master, complete)
  PROVE  TurnInv'
  <1>1. /\ UNCHANGED <<config, trace_line, more_reqs, inst_queue, lock_core, overhead,
                       deployed, proc_switching, pending_bypass, wait_for_nmp, inside_region>>
        /\ ctl.at = "execute" /\ ~lock_core[Master] /\ more_reqs[Master]
        /\ ~pending_bypass[Master]
        /\ IF complete THEN Goto(Master, "next", "decide") ELSE ctl' = Idle
    BY DEF Execute, At, outerVars, fixedVars, switchVars, regionVars, ControlInv
  <1>2. ctl'.at = "idle" \/ (ctl'.at = "next" /\ ctl'.ret = "decide")
    BY <1>1 DEF Goto, Idle
  <1>3. AllWoken /\ ~wait_for_nmp[Master] /\ ~proc_switching[Master]
    BY <1>1 DEF TurnInv, TickTurn
  <1>4. AllWoken' = AllWoken
    BY <1>1 DEF AllWoken
  <1>5. SideInv'
    BY <1>1, <1>3, StableSide DEF TurnInv, SideInv
  <1>6. RestTurn' /\ TickTurn' /\ PendingTurn'
    BY <1>1, <1>2, <1>3, <1>4 DEF TurnInv, RestTurn, TickTurn, PendingTurn, Point
  <1> QED
    BY <1>5, <1>6 DEF TurnInv

LEMMA ReadOwnTurn ==
  ASSUME TypeOK, OneThread, CoSimAlone, ControlInv, TurnInv, ReadOwn(Master)
  PROVE  TurnInv'
  <1>1. /\ UNCHANGED <<config, inst_queue, in_flight, load, overhead, deployed,
                       proc_switching, pending_bypass, wait_for_nmp, inside_region>>
        /\ ctl.at = "next" /\ ctl.ret \in Callers /\ ctl'.at = ctl.ret
        /\ ~pending_bypass[Master]
    BY DEF ReadOwn, At, Goto, outerVars, fixedVars, windowVars, switchVars, regionVars,
      TypeOK, ControlType, ControlInv
  <1>2. more_reqs'[Master] => more_reqs[Master]
    BY <1>1, OneThreadFacts DEF ReadOwn, NextMore, ControlInv, TypeOK, CoreType
  <1>3. \A u \in Mcp : more_reqs'[u] = more_reqs[u]
    BY TurnFacts DEF ReadOwn, TypeOK, CoreType
  <1>4. AllWoken' = AllWoken /\ Open' = Open
    BY <1>1, <1>3 DEF AllWoken, Open
  <1>5. Point' = Point /\ ctl'.at \notin {"idle", "finish", "wait", "execute", "bypass", "next"}
    BY <1>1 DEF Point, Callers
  <1>6. SideInv'
    BY <1>1, <1>3, StableSide DEF TurnInv, SideInv
  <1>7. more_reqs'[Master] => RestTurn' /\ TickTurn' /\ PendingTurn'
    BY <1>1, <1>2, <1>4, <1>5 DEF TurnInv, RestTurn, TickTurn, PendingTurn
  <1> QED
    BY <1>6, <1>7 DEF TurnInv

LEMMA FinishTurn ==
  ASSUME TypeOK, OneThread, CoSimAlone, ControlInv, TurnInv, Finish(Master)
  PROVE  TurnInv'
  <1>1. /\ UNCHANGED <<config, trace_line, inst_queue, in_flight, lock_core, load, overhead,
                       deployed, proc_switching, pending_bypass, wait_for_nmp, inside_region,
                       mcp_ticks>>
        /\ ctl.at = "finish" /\ ctl'.at = "idle"
    BY DEF Finish, At, Idle, outerVars, fixedVars, switchVars, regionVars
  <1>2. \A u \in Mcp : more_reqs'[u] => more_reqs[u]
    BY TurnFacts DEF Finish
  <1>3. SideInv'
    BY <1>1, <1>2, StableSide DEF TurnInv, SideInv
  <1>4. CASE more_reqs'[Master]
    <2>1. more_reqs' = more_reqs
      BY <1>4, TurnFacts DEF Finish
    <2>2. AllWoken' = AllWoken /\ Open' = Open /\ Held(Master)' = Held(Master)
          /\ \A u : Full(u)' = Full(u)
      BY <1>1, <2>1 DEF AllWoken, Open, Held, Trace, Full
    <2>3. RestTurn' /\ TickTurn' /\ PendingTurn'
      BY <1>1, <1>4, <2>1, <2>2 DEF TurnInv, RestTurn, TickTurn, PendingTurn
    <2> QED
      BY <1>3, <2>3 DEF TurnInv
  <1> QED
    BY <1>3, <1>4 DEF TurnInv

----------------------------------------------------------------------------
(* The strategies and the bypass *)

(* Steps of a strategy change none of what the sides share. *)
sharedVars ==
  <<config, more_reqs, inst_queue, load, in_flight, overhead, deployed, proc_switching,
    pending_bypass, mcp_ticks>>

LEMMA StrategyShares ==
  ASSUME TypeOK, OneThread, CoSimAlone, StrategyStep
  PROVE  UNCHANGED sharedVars
  <1>1. \A c \in HostCores : [overhead EXCEPT ![c] = @ + Overhead] = overhead
    BY TurnFacts DEF TypeOK, SwitchType
  <1>2. CASE NoStrategy(Master) \/ HostOnly(Master) \/ NmpOnlySkip(Master)
             \/ OffloadLine(Master) \/ ScanEnd(Master)
    <2>1. UNCHANGED dataVars
      BY <1>2 DEF NoStrategy, HostOnly, NmpOnlySkip, OffloadLine, ScanEnd
    <2> QED
      BY <2>1 DEF dataVars, sharedVars, fixedVars, execVars, windowVars, switchVars
  <1>3. CASE NmpOnlyBypass(Master)
    BY <1>1, <1>3, TurnFacts DEF NmpOnlyBypass, sharedVars, outerVars, fixedVars, execVars,
      windowVars
  <1>4. CASE LeaveRegion(Master) \/ ScanToHost(Master)
    BY <1>4 DEF LeaveRegion, ScanToHost, sharedVars, outerVars, fixedVars, execVars,
      windowVars
  <1>5. CASE ReadTag(Master)
    <2>1. overhead' = overhead
      BY <1>1, <1>5, TurnFacts DEF ReadTag, TypeOK, SwitchType
    <2> QED
      BY <1>5, <2>1 DEF ReadTag, sharedVars, outerVars, fixedVars, execVars, windowVars
  <1> QED
    BY <1>2, <1>3, <1>4, <1>5 DEF StrategyStep

(* The ways on from a strategy that has a line: it reads on, looking for a *)
(* tag or as the host; it leaves the line to the host, which waits unless  *)
(* it has its turn; or it bypasses it, inside a region.                    *)
WayOn ==
  \/ /\ ctl'.at = "next" /\ wait_for_nmp'[Master] = wait_for_nmp[Master]
     /\ ctl'.ret = "scan" \/ (ctl'.ret = "host_only" /\ ~proc_switching[Master])
  \/ /\ ctl'.at = "finish" /\ ~lock_core'[Master]
     /\ wait_for_nmp'[Master] \/ ~proc_switching[Master]
  \/ /\ ctl'.at = "bypass" /\ ctl'.ret = "finish" /\ inside_region'[Master]
     /\ wait_for_nmp'[Master] = wait_for_nmp[Master]

LEMMA StrategyWayOn ==
  ASSUME TypeOK, OneThread, CoSimAlone, ControlInv, RegionInv, TurnInv, StrategyStep,
         more_reqs[Master]
  PROVE  WayOn
  <1>1. /\ ~lock_core[Master] /\ ctl.at \in Callers
        /\ ctl.at = "decide" => (proc_switching[Master] => inside_region[Master])
        /\ ctl.at = "host_only" => ~proc_switching[Master]
        /\ ctl.at # "nmp_only"
    <2>1. ctl.at \in Callers
      BY StrategyGoes
    <2> QED
      BY <2>1 DEF Callers, ControlInv, TurnInv, TickTurn, Point
  <1>2. deployed[Master] => ~LockOwn(FALSE)[Master]
    BY TurnFacts DEF LockOwn
  <1>3. CASE NoStrategy(Master)
    BY <1>1, <1>3 DEF NoStrategy, At, Goto, WayOn, dataVars
  <1>4. CASE HostOnly(Master)
    <2>1. ~proc_switching[Master]
      BY <1>1, <1>4, TurnFacts DEF HostOnly, Strategy, At, RegionInv, Offloading
    <2>2. UNCHANGED <<lock_core, wait_for_nmp>>
      BY <1>4 DEF HostOnly, dataVars, switchVars
    <2>3. Goto(Master, "next", "host_only") \/ Goto(Master, "finish", "none")
      BY <1>4 DEF HostOnly
    <2> QED
      BY <1>1, <2>1, <2>2, <2>3 DEF Goto, WayOn
  <1>5. CASE NmpOnlySkip(Master) \/ NmpOnlyBypass(Master)
    BY <1>1, <1>5, TurnFacts DEF NmpOnlySkip, NmpOnlyBypass, Strategy, At
  <1>6. CASE OffloadLine(Master)
    <2>1. inside_region[Master]
      BY <1>6 DEF OffloadLine, InRegion, RegionInv
    <2> QED
      BY <1>6, <2>1 DEF OffloadLine, Goto, WayOn, dataVars, switchVars, regionVars
  <1>7. CASE LeaveRegion(Master)
    BY <1>2, <1>7, TurnFacts DEF LeaveRegion, Goto, WayOn, ControlInv, TypeOK, SwitchType
  <1>8. CASE ReadTag(Master)
    BY <1>8 DEF ReadTag, Goto, WayOn
  <1>9. CASE ScanToHost(Master)
    BY <1>2, <1>9, TurnFacts DEF ScanToHost, Goto, WayOn, ControlInv, TypeOK, SwitchType
  <1>10. CASE ScanEnd(Master)
    BY <1>10 DEF ScanEnd
  <1> QED
    BY <1>3, <1>4, <1>5, <1>6, <1>7, <1>8, <1>9, <1>10 DEF StrategyStep

LEMMA StrategyTurn ==
  ASSUME TypeOK, OneThread, CoSimAlone, ControlInv, RegionInv, TurnInv, StrategyStep
  PROVE  TurnInv'
  <1>1. UNCHANGED sharedVars
    BY StrategyShares
  <1>2. SideInv'
    BY <1>1, StableSide DEF TurnInv, SideInv, sharedVars
  <1>3. AllWoken' = AllWoken /\ Open' = Open
    BY <1>1 DEF sharedVars, AllWoken, Open
  <1>4. CASE more_reqs[Master]
    <2>1. WayOn
      BY <1>4, StrategyWayOn
    <2>2. ctl.at \in Callers /\ ~pending_bypass[Master]
      BY StrategyGoes DEF ControlInv, Callers
    <2>3. AllWoken /\ ~wait_for_nmp[Master] /\ (proc_switching[Master] => Open)
      BY <1>4, <2>2 DEF TurnInv, TickTurn, Callers
    <2>4. RestTurn' /\ TickTurn' /\ PendingTurn'
      BY <1>1, <1>3, <2>1, <2>2, <2>3 DEF WayOn, RestTurn, TickTurn, PendingTurn, Point,
        sharedVars
    <2> QED
      BY <1>2, <2>4 DEF TurnInv
  <1>5. CASE ~more_reqs[Master]
    BY <1>1, <1>2, <1>5 DEF TurnInv, sharedVars
  <1> QED
    BY <1>4, <1>5

(* Where a core at the bypass stands *)
LEMMA AtBypass ==
  ASSUME TurnInv, ctl.at = "bypass", more_reqs[Master]
  PROVE  /\ AllWoken /\ ~wait_for_nmp[Master] /\ inside_region[Master]
         /\ proc_switching[Master] => Open
         /\ ctl.ret = "retry" => pending_bypass[Master]
  BY DEF TurnInv, TickTurn

(* A full queue belongs to a core with a line in hand. *)
LEMMA BypassFullTurn ==
  ASSUME TypeOK, OneThread, CoSimAlone, ControlInv, TurnInv, BypassFull(Master)
  PROVE  TurnInv'
  <1> DEFINE t == HostNum + Held(Master).vault
  <1>1. /\ UNCHANGED <<config, trace_line, more_reqs, inst_queue, in_flight, load, overhead,
                       deployed, proc_switching, wait_for_nmp, inside_region>>
        /\ ctl.at = "bypass" /\ ctl'.at \in {"idle", "finish"}
    BY DEF BypassFull, At, Goto, Idle, outerVars, fixedVars, execVars, windowVars, regionVars
  <1>2. lock_core'[Master] /\ pending_bypass'[Master]
    BY TurnFacts DEF BypassFull, LockOwn, ControlInv, TypeOK, SwitchType
  <1>3. SideInv'
    BY <1>1, StableSide DEF TurnInv, SideInv
  <1>4. CASE more_reqs[Master]
    <2>1. Full(t)
      BY <1>4, TurnFacts DEF BypassFull, NmpTargets
    <2>2. inst_queue[t] # <<>>
      BY <2>1, NumAssumption DEF Full
    <2>3. more_reqs[t]
      BY <1>1, <1>4, <2>2, TurnFacts, AtBypass DEF AllWoken
    <2>4. Open
      BY <1>1, <1>4, <2>3, TurnFacts, AtBypass DEF TurnInv, SideInv
    <2>5. Held(Master)' = Held(Master) /\ Full(t)' = Full(t) /\ Open' = Open
      BY <1>1 DEF Held, Trace, Full, Open
    <2>6. RestTurn' /\ TickTurn' /\ PendingTurn'
      BY <1>1, <1>2, <1>4, <2>1, <2>3, <2>4, <2>5, AtBypass DEF RestTurn, TickTurn,
        PendingTurn, Full
    <2> QED
      BY <1>3, <2>6 DEF TurnInv
  <1>5. CASE ~more_reqs[Master]
    BY <1>1, <1>3, <1>5 DEF TurnInv
  <1> QED
    BY <1>4, <1>5

(* On its retry a line finds its target with a line in hand, after which   *)
(* it will be performed.                                                   *)
LEMMA BypassTurn ==
  ASSUME TypeOK, OneThread, CoSimAlone, ControlInv, TurnInv,
         BypassToNlp(Master) \/ BypassToNmp(Master)
  PROVE  TurnInv'
  <1>1. BypassToNmp(Master)
    BY TurnFacts DEF BypassToNlp
  <1>2. PICK u \in NmpTargets(Master) : Queued(Master, u)
    BY <1>1 DEF BypassToNmp
  <1>3. /\ UNCHANGED <<config, trace_line, more_reqs, in_flight, load, overhead, deployed,
                       proc_switching, wait_for_nmp, inside_region>>
        /\ ctl.at = "bypass" /\ ~pending_bypass'[Master] /\ lock_core'[Master]
        /\ ctl'.at = (IF ctl.ret = "retry" THEN "wait" ELSE "finish")
    BY <1>1, <1>2, TurnFacts DEF BypassToNmp, Queued, At, Goto, outerVars, fixedVars,
      windowVars, LockOwn, ControlInv, TypeOK, SwitchType
  <1>4. u \in NmpCores /\ u \in Mcp
    BY TurnFacts DEF NmpTargets
  <1>5. \A v \in Mcp : v # u => inst_queue'[v] = inst_queue[v]
    BY <1>2, <1>4, TurnFacts DEF Queued, TypeOK, LineType
  <1>6. SideInv'
    <2>1. \A v \in NlpCores : v # u
      BY <1>4, NumAssumption DEF NlpCores, NmpCores
    <2> QED
      BY <1>3, <1>5, <2>1, TurnFacts, StableSide DEF TurnInv, SideInv
  <1>7. CASE more_reqs[Master]
    <2>1. u = HostNum + Held(Master).vault
      BY <1>7 DEF NmpTargets
    <2>2. CASE ctl.ret = "retry"
      <3>1. more_reqs[u] /\ Open
        BY <1>3, <1>7, <2>1, <2>2, AtBypass DEF TurnInv, PendingTurn
      <3>2. AllWoken'
        BY <1>3, <1>5, <1>7, <3>1, AtBypass DEF AllWoken
      <3>3. Open'
        BY <1>3, <3>1 DEF Open
      <3>4. RestTurn' /\ TickTurn' /\ PendingTurn'
        BY <1>3, <1>7, <2>2, <3>2, <3>3, AtBypass DEF RestTurn, TickTurn, PendingTurn, Point
      <3> QED
        BY <1>6, <3>4 DEF TurnInv
    <2>3. CASE ctl.ret # "retry"
      <3>1. RestTurn' /\ TickTurn' /\ PendingTurn'
        BY <1>3, <1>7, <2>3, AtBypass DEF RestTurn, TickTurn, PendingTurn
      <3> QED
        BY <1>6, <3>1 DEF TurnInv
    <2> QED
      BY <2>2, <2>3
  <1>8. CASE ~more_reqs[Master]
    BY <1>3, <1>6, <1>8 DEF TurnInv
  <1> QED
    BY <1>7, <1>8

----------------------------------------------------------------------------
(* The MCP side *)

(* An MCP core ticks only in the turn of its side; completing a line, the  *)
(* target of a refused bypass takes the next one of its full queue.        *)
LEMMA McpTurn ==
  ASSUME TypeOK, OneThread, CoSimAlone, ControlInv, TurnInv, NEW u \in Mcp, McpStep(u)
  PROVE  TurnInv'
  <1> DEFINE t == HostNum + Held(Master).vault
  <1>1. /\ UNCHANGED <<config, ctl, load, overhead, deployed, proc_switching, pending_bypass,
                       wait_for_nmp, inside_region>>
        /\ McpTick(u) /\ ctl.at = "idle"
    BY DEF McpStep, McpBegin, McpStall, McpComplete, McpTick, mcpUnchanged, fixedVars,
      windowVars, switchVars, regionVars, Idle
  <1>2. more_reqs[u] /\ mcp_ticks[u] = 0 /\ mcp_ticks'[u] = 1
    BY <1>1, TurnFacts DEF McpTick, TypeOK, CountType
  <1>3. u \notin NlpCores /\ u # Master /\ proc_switching[Master]
    BY <1>2, TurnFacts DEF TurnInv, SideInv
  <1>4. \A v \in Cores : v # u =>
          /\ trace_line'[v] = trace_line[v] /\ more_reqs'[v] = more_reqs[v]
          /\ lock_core'[v] = lock_core[v] /\ in_flight'[v] = in_flight[v]
          /\ inst_queue'[v] = inst_queue[v]
    BY TurnFacts DEF McpStep, McpBegin, McpStall, McpComplete, Pop, execVars, TypeOK,
      LineType, CoreType
  <1>5. more_reqs'[u] \/ inst_queue[u] = <<>>
    BY <1>2 DEF McpStep, McpBegin, McpStall, McpComplete, Pop, execVars
  <1>6. inst_queue[u] = <<>> => inst_queue'[u] = <<>>
    BY DEF McpStep, McpBegin, McpStall, McpComplete, Pop, execVars
  <1>7. \A v \in Mcp : v # u => mcp_ticks'[v] = mcp_ticks[v]
    BY <1>1 DEF McpTick, TypeOK, CountType
  <1>8. SideInv'
    <2>1. \A v \in NlpCores : ~more_reqs'[v] /\ inst_queue'[v] = <<>>
      BY <1>3, <1>4, TurnFacts DEF TurnInv, SideInv
    <2> QED
      BY <1>1, <1>3, <2>1, CoreFacts DEF TurnInv, SideInv
  <1>9. AllWoken => AllWoken'
    <2> SUFFICES ASSUME AllWoken, NEW v \in Mcp, inst_queue'[v] # <<>> PROVE more_reqs'[v]
      BY DEF AllWoken
    <2>1. CASE v = u
      BY <1>5, <1>6, <2>1
    <2>2. CASE v # u
      BY <1>4, <2>2, TurnFacts DEF AllWoken
    <2> QED
      BY <2>1, <2>2
  <1>10. /\ more_reqs'[Master] = more_reqs[Master] /\ lock_core'[Master] = lock_core[Master]
         /\ Open' = Open /\ Held(Master)' = Held(Master)
    BY <1>1, <1>3, <1>4, TurnFacts DEF Open, Held, Trace
  <1>11. RestTurn => RestTurn'
    BY <1>1, <1>9, <1>10 DEF RestTurn
  <1>12. TickTurn'
    BY <1>1 DEF TickTurn
  <1>13. PendingTurn => PendingTurn'
    <2> SUFFICES ASSUME PendingTurn, pending_bypass[Master] PROVE PendingTurn'
      BY <1>1 DEF PendingTurn
    <2>1. /\ lock_core[Master] /\ Open /\ more_reqs[t]
          /\ Full(t) \/ mcp_ticks[t] = McpTicks
      BY <1>1 DEF PendingTurn
    <2>2. CASE t = u
      <3>1. Full(u)
        BY <1>2, <2>1, <2>2, TurnFacts
      <3>2. inst_queue[u] # <<>>
        BY <3>1, NumAssumption DEF Full
      <3>3. more_reqs'[t] /\ mcp_ticks'[t] = McpTicks
        BY <1>2, <1>5, <2>2, <3>2, TurnFacts
      <3> QED
        BY <1>10, <2>1, <3>3 DEF PendingTurn
    <2>3. CASE t # u
      <3>1. more_reqs'[t] /\ Full(t)' = Full(t) /\ mcp_ticks'[t] = mcp_ticks[t]
        BY <1>4, <1>7, <1>10, <2>1, <2>3, TurnFacts DEF Full
      <3> QED
        BY <1>10, <2>1, <3>1 DEF PendingTurn, Full
    <2> QED
      BY <2>2, <2>3
  <1> QED
    BY <1>8, <1>10, <1>11, <1>12, <1>13 DEF TurnInv

----------------------------------------------------------------------------
(* The invariant *)

LEMMA StartTurn ==
  ASSUME TypeOK, OneThread, CoSimAlone, ControlInv, TurnInv, StartTick(Master)
  PROVE  TurnInv'
  <1>1. ~TickOverhead(Master)
    BY DEF TickOverhead, TurnInv, SideInv
  <1> QED
    BY <1>1, TickHeldTurn, TickDispatchTurn, TickUnlockedTurn DEF StartTick

LEMMA ContinueTurn ==
  ASSUME TypeOK, OneThread, CoSimAlone, ControlInv, RegionInv, TurnInv,
         ContinueTick(Master)
  PROVE  TurnInv'
  BY WaitTurn, SkipExecutionTurn, ReadOwnTurn, OwnLine, FinishTurn, StrategyTurn,
     BypassFullTurn, BypassTurn DEF ContinueTick, StrategyStep

LEMMA NextTurn ==
  ASSUME TypeOK, OneThread, CoSimAlone, ControlInv, RegionInv, TurnInv, [Next]_vars
  PROVE  TurnInv'
  <1>1. ASSUME NEW c \in HostCores, ReceiveLoad(c) PROVE TurnInv'
    BY <1>1, OutsideTurn DEF ReceiveLoad, execVars, regionVars, outerVars, fixedVars
  <1>2. ASSUME NEW c \in HostCores, c # Master, TickHeld(c) PROVE TurnInv'
    <2>1. load'[Master] = load[Master] /\ UNCHANGED mcp_ticks
      BY <1>2, TurnFacts DEF TickHeld, Retire, TypeOK, WindowType
    <2> QED
      BY <1>2, <2>1, OutsideTurn DEF TickHeld, execVars, regionVars, fixedVars
  <1>3. ASSUME NEW c \in HostCores, HostStep(c) PROVE TurnInv'
    <2>1. CASE c = Master
      BY <1>1, <1>3, <2>1, StartTurn, ContinueTurn, FetchRefusedTurn, ExecuteTurn
      DEF HostStep, TryExecute
    <2>2. CASE c # Master
      BY <1>1, <1>2, <1>3, <2>2, OtherHost
    <2> QED
      BY <2>1, <2>2
  <1>4. ASSUME NEW u \in Cores, ReceiveFetch(u) PROVE TurnInv'
    <2>1. in_flight[Master] = 0 => in_flight'[Master] = 0
      BY <1>4, TurnFacts DEF ReceiveFetch, TypeOK, CoreType
    <2> QED
      BY <1>4, <2>1, OutsideTurn DEF ReceiveFetch, windowVars, regionVars, outerVars, fixedVars
  <1>5. CASE WarmedUp
    BY <1>5, OutsideTurn DEF WarmedUp, execVars, windowVars, regionVars
  <1>6. CASE UNCHANGED vars
    BY <1>6, OutsideTurn DEF vars, execVars, windowVars, regionVars, fixedVars
  <1> QED
    BY <1>3, <1>4, <1>5, <1>6, McpTurn DEF Next

LEMMA InitTurn ==
  ASSUME OneThread, CoSimAlone, Init
  PROVE  TurnInv
  <1>1. TypeOK
    BY InitType
  <1>2. \A u \in Mcp : u \in Cores /\ u # Master
    BY CoreFacts
  <1>3. \A u \in Mcp : ~more_reqs[u] /\ inst_queue[u] = <<>>
    BY <1>2 DEF Init
  <1>4. /\ overhead[Master] = 0 /\ load[Master] = 0 /\ ~lock_core[Master]
        /\ ~proc_switching[Master] /\ ~pending_bypass[Master] /\ ctl.at = "idle"
        /\ \A h \in HostCores \ {Master} : ~deployed[h]
    BY <1>1, TurnFacts DEF Init, Idle
  <1>5. SideInv
    BY <1>1, <1>3, <1>4, TurnFacts DEF SideInv
  <1> QED
    BY <1>3, <1>4, <1>5 DEF TurnInv, RestTurn, TickTurn, PendingTurn, AllWoken

LEMMA TurnInductive ==
  ASSUME OneThread, CoSimAlone
  PROVE  /\ Init => OneThreadInv /\ TurnInv
         /\ OneThreadInv /\ TurnInv /\ [Next]_vars => (OneThreadInv /\ TurnInv)'
  BY OneThreadInductive, InitTurn, NextTurn DEF OneThreadInv

(* With one host thread and no NLP cores, in Co-Simulation without         *)
(* overhead_cycle, the host performs a line only when the MCP side has     *)
(* none left, in hand or queued (Processor.cpp:974), whatever the queue    *)
(* bound and the regions of the trace.                                     *)
THEOREM OffloadHostWaits ==
  ASSUME OneThread, CoSimAlone
  PROVE  Spec => []HostWaitsForMcp
  <1>1. OneThreadInv /\ TurnInv => HostWaitsForMcp
    <2> SUFFICES ASSUME OneThreadInv, TurnInv, AtRest, NEW c \in HostCores,
                        more_reqs[c], ~lock_core[c], ~wait_for_nmp[c]
                 PROVE  McpEmpty
      BY DEF HostWaitsForMcp
    <2>1. c = Master /\ ctl.at = "idle"
      BY DEF OneThreadInv, ControlInv, AtRest, Idle
    <2>2. AllWoken /\ ~proc_switching[Master]
      BY <2>1 DEF TurnInv, RestTurn
    <2> QED
      BY <2>2 DEF TurnInv, SideInv, AllWoken, McpEmpty
  <1> QED
    BY <1>1, TurnInductive, PTL DEF Spec

(* And under the same assumptions an MCP core has a line in hand only      *)
(* while the windows of the process are empty (can_context_switch,         *)
(* Processor.cpp:946): the two sides never run at once.                    *)
THEOREM OffloadRunsAfterDrain ==
  ASSUME OneThread, CoSimAlone
  PROVE  Spec => []McpRunsAfterDrain
  <1>1. OneThreadInv /\ TurnInv => McpRunsAfterDrain
    BY DEF TurnInv, SideInv, McpRunsAfterDrain
  <1> QED
    BY <1>1, TurnInductive, PTL DEF Spec

----------------------------------------------------------------------------
(* The kinds of steps *)

(* The points of a tick at which the master stands with a line *)
Standing == {"idle", "wait", "execute", "finish"}

(* A step that begins no line and bypasses none, and that at most moves    *)
(* the master between points of its tick where it keeps its line.          *)
Pass ==
  /\ UNCHANGED <<config, file_pos, begun, region_ids>>
  /\ warmed_up => warmed_up'
  /\ more_reqs'[Master] => more_reqs[Master]
  /\ fresh'[Master] = fresh[Master]
  /\ \A p : Waits(p)' => Waits(p)
  /\ pending_bypass'[Master] => pending_bypass[Master] \/ ctl.at = "bypass"
  /\ \/ ctl' = ctl /\ lock_core'[Master] = lock_core[Master]
     \/ /\ ctl.at \in Standing /\ ctl'.at \in Standing
        /\ lock_core'[Master] = lock_core[Master]
     \/ ctl.at \in Standing /\ pending_bypass[Master] /\ ctl'.at = "bypass"
     \/ ctl.at = "bypass" /\ ctl'.at \in Standing /\ lock_core'[Master]
     \/ /\ ctl.at = "execute" /\ lock_core[Master]
        /\ ctl'.at = "next" /\ ctl'.ret = "decide"

LEMMA MovedWaits ==
  ASSUME NEW k, MovedBy(k)
  PROVE  \A p : Waits(p)' => Waits(p)
  <1> SUFFICES ASSUME NEW p, Waits(p)' PROVE Waits(p)
    OBVIOUS
  <1>1. PICK u \in Mcp : \E i \in Spots(u)' : LineAt(u, i)' = p
    BY DEF Waits
  <1>2. PICK i \in Spots(u)' : LineAt(u, i)' = p
    BY <1>1
  <1>3. i + k[u] \in Spots(u) /\ LineAt(u, i + k[u]) = p
    BY <1>2 DEF MovedBy
  <1> QED
    BY <1>3 DEF Waits

(* Where no line is handed on, none waits that did not wait before. *)
LEMMA StayWaits ==
  ASSUME TypeOK, UNCHANGED <<trace_line, inst_queue>>,
         \A u \in Mcp : (more_reqs[u] /\ fresh[u])' => more_reqs[u] /\ fresh[u]
  PROVE  \A p : Waits(p)' => Waits(p)
  BY StayMoved, MovedWaits

LEMMA StartPass ==
  ASSUME TypeOK, OneThread, StartTick(Master)
  PROVE  Pass
  <1>1. /\ UNCHANGED <<config, warmed_up, file_pos, begun, region_ids, pending_bypass>>
        /\ ctl.at = "idle"
    BY DEF StartTick, TickHeld, TickOverhead, TickDispatch, TickUnlocked, fixedVars,
      countVars, regionVars, switchVars, Idle
  <1>2. /\ more_reqs'[Master] = more_reqs[Master] /\ fresh'[Master] = fresh[Master]
        /\ lock_core'[Master] = lock_core[Master]
    BY OneThreadFacts, CoreFacts DEF StartTick, TickHeld, TickOverhead, TickDispatch,
      TickUnlocked, GetFirst, execVars, TypeOK, CoreType
  <1>3. \A p : Waits(p)' => Waits(p)
    <2>1. CASE TickDispatch(Master)
      <3>1. PICK S \in SUBSET Mcp : GetFirst(S, inst_queue)
        BY <2>1, CoreFacts DEF TickDispatch
      <3> QED
        BY <3>1, GetFirstMoved, MovedWaits
    <2>2. CASE ~TickDispatch(Master)
      BY <2>2, StayWaits DEF StartTick, TickHeld, TickOverhead, TickUnlocked, execVars
    <2> QED
      BY <2>1, <2>2
  <1>4. \/ ctl' = ctl
        \/ ctl'.at = "wait"
        \/ pending_bypass[Master] /\ ctl'.at = "bypass"
    BY DEF StartTick, TickHeld, TickOverhead, TickDispatch, TickUnlocked, AfterGate, Goto
  <1> QED
    BY <1>1, <1>2, <1>3, <1>4 DEF Pass, Standing

LEMMA ContinuePass ==
  ASSUME TypeOK, OneThread, ControlInv,
         \/ Wait(Master) \/ SkipExecution(Master) \/ FetchRefused(Master)
         \/ Finish(Master) \/ BypassFull(Master)
  PROVE  Pass
  <1>1. UNCHANGED <<config, warmed_up, file_pos, begun, region_ids, trace_line, inst_queue,
                    fresh>>
    BY DEF Wait, SkipExecution, FetchRefused, Finish, BypassFull, dataVars, execVars,
       outerVars, fixedVars, countVars, regionVars
  <1>2. \A u \in Cores : more_reqs'[u] => more_reqs[u]
    BY OneThreadFacts DEF Wait, SkipExecution, FetchRefused, Finish, BypassFull, dataVars,
       execVars, TypeOK, CoreType
  <1>3. \A p : Waits(p)' => Waits(p)
    BY <1>1, <1>2, StayWaits, CoreFacts
  <1>4. CASE BypassFull(Master)
    <2>1. lock_core'[Master]
      BY <1>4, OneThreadFacts DEF BypassFull, LockOwn, ControlInv
    <2>2. ctl.at = "bypass" /\ ctl'.at \in Standing
      BY <1>4 DEF BypassFull, At, Goto, Idle, Standing
    <2> QED
      BY <1>1, <1>2, <1>3, <2>1, <2>2, OneThreadFacts DEF Pass
  <1>5. CASE SkipExecution(Master)
    <2>1. /\ UNCHANGED pending_bypass /\ ctl.at = "execute" /\ lock_core[Master]
          /\ ctl'.at = "next" /\ ctl'.ret = "decide"
      BY <1>5 DEF SkipExecution, At, Goto, dataVars, switchVars
    <2> QED
      BY <1>1, <1>2, <1>3, <2>1, OneThreadFacts DEF Pass
  <1>6. CASE Wait(Master) \/ FetchRefused(Master) \/ Finish(Master)
    <2>1. /\ UNCHANGED <<pending_bypass, lock_core>> /\ ctl.at \in Standing
          /\ ctl'.at \in Standing
      BY <1>6 DEF Wait, FetchRefused, Finish, At, Goto, Idle, dataVars, switchVars, Standing
    <2> QED
      BY <1>1, <1>2, <1>3, <2>1, OneThreadFacts DEF Pass
  <1> QED
    BY <1>4, <1>5, <1>6

LEMMA OutsidePass ==
  ASSUME TypeOK,
         UNCHANGED <<config, file_pos, ctl, trace_line, fresh, more_reqs, inst_queue,
                     lock_core, pending_bypass, region_ids, begun>>,
         warmed_up => warmed_up'
  PROVE  Pass
  BY StayWaits DEF Pass

Bypass == BypassToNlp(Master) \/ BypassToNmp(Master)

LEMMA StepKinds ==
  ASSUME TypeOK, OneThread, ControlInv, [Next]_vars
  PROVE  \/ ReadOwn(Master) \/ StrategyStep \/ Bypass \/ Pass
         \/ \E complete \in BOOLEAN : Execute(Master, complete)
         \/ \E u \in Mcp : McpStep(u)
  <1>1. ASSUME NEW c \in HostCores, TickHeld(c) \/ ReceiveLoad(c) PROVE Pass
    BY <1>1, OutsidePass DEF TickHeld, ReceiveLoad, execVars, switchVars, outerVars,
       fixedVars, countVars, regionVars
  <1>2. ASSUME NEW u \in Cores, ReceiveFetch(u) PROVE Pass
    BY <1>2, OutsidePass DEF ReceiveFetch, switchVars, outerVars, fixedVars, countVars,
       regionVars
  <1>3. CASE WarmedUp \/ UNCHANGED vars
    BY <1>3, OutsidePass DEF WarmedUp, vars, execVars, switchVars, fixedVars, countVars,
       regionVars
  <1>4. ASSUME NEW c \in HostCores, HostStep(c), c # Master PROVE Pass
    BY <1>1, <1>4, OtherHost
  <1>5. CASE HostStep(Master)
    <2>1. CASE StartTick(Master)
      BY <2>1, StartPass
    <2>2. CASE ContinueTick(Master)
      BY <2>2, ContinuePass, OwnLine DEF ContinueTick, StrategyStep, Bypass
    <2>3. CASE TryExecute(Master)
      BY <2>3, ContinuePass DEF TryExecute
    <2>4. CASE ReceiveLoad(Master)
      BY <1>1, <2>4, CoreFacts
    <2> QED
      BY <1>5, <2>1, <2>2, <2>3, <2>4 DEF HostStep
  <1> QED
    BY <1>2, <1>3, <1>4, <1>5 DEF Next

(* What an MCP core does to the lines, and that it leaves the master alone *)
LEMMA McpBegins ==
  ASSUME TypeOK, NEW u \in Mcp, McpStep(u)
  PROVE  /\ \A p : Waits(p)' => Waits(p)
         /\ \/ UNCHANGED begun
            \/ /\ more_reqs[u] /\ fresh[u] /\ Waits(trace_line[u])
               /\ begun' = [begun EXCEPT ![trace_line[u]] = @ + 1]
         /\ UNCHANGED <<config, warmed_up, file_pos, ctl, pending_bypass, region_ids>>
         /\ more_reqs'[Master] = more_reqs[Master] /\ fresh'[Master] = fresh[Master]
         /\ lock_core'[Master] = lock_core[Master]
  <1>1. /\ UNCHANGED <<config, warmed_up, file_pos, ctl, pending_bypass, region_ids>>
        /\ Master # u /\ Master \in Cores /\ u \in Cores /\ more_reqs[u]
    BY CoreFacts DEF McpStep, McpBegin, McpStall, McpComplete, McpTick, mcpUnchanged,
      fixedVars, switchVars, regionVars
  <1>2. /\ more_reqs'[Master] = more_reqs[Master] /\ fresh'[Master] = fresh[Master]
        /\ lock_core'[Master] = lock_core[Master]
    BY <1>1 DEF McpStep, McpBegin, McpStall, McpComplete, Begin, Pop, execVars, TypeOK,
      CoreType
  <1>3. fresh[u] => Waits(trace_line[u])
    BY <1>1 DEF Waits, Spots, LineAt
  <1>4. \/ UNCHANGED begun
        \/ fresh[u] /\ begun' = [begun EXCEPT ![trace_line[u]] = @ + 1]
    BY DEF McpStep, McpBegin, McpStall, McpComplete, Begin, countVars
  <1>5. \A p : Waits(p)' => Waits(p)
    <2>1. CASE McpStall(u)
      BY <2>1, StayWaits DEF McpStall, execVars
    <2>2. CASE McpBegin(u)
      <3>1. \A v \in Mcp : fresh'[v] => fresh[v]
        BY <2>2, CoreFacts DEF McpBegin, Begin, TypeOK, CoreType
      <3> QED
        BY <2>2, <3>1, StayWaits DEF McpBegin
    <2>3. CASE McpComplete(u)
      <3>1. \A v \in Mcp \ {u} : more_reqs'[v] = more_reqs[v] /\ fresh'[v] = fresh[v]
        BY <2>3, CoreFacts DEF McpComplete, Pop, TypeOK, CoreType
      <3>2. PICK k \in [Mcp -> {0, 1}] : MovedBy(k)
        BY <2>3, <3>1, PopMoved DEF McpComplete
      <3> QED
        BY <3>2, MovedWaits
    <2> QED
      BY <2>1, <2>2, <2>3 DEF McpStep
  <1> QED
    BY <1>1, <1>2, <1>3, <1>4, <1>5

(* A bypass adds the master's line to those that wait. *)
LEMMA BypassAdds ==
  ASSUME TypeOK, OneThread, ControlInv, Bypass
  PROVE  /\ \A p : Waits(p)' => Waits(p) \/ p = file_pos
         /\ UNCHANGED <<config, warmed_up, file_pos, begun, fresh, more_reqs, region_ids>>
         /\ ctl.at = "bypass" /\ ctl'.at \in {"wait", "finish"}
         /\ lock_core'[Master] /\ ~pending_bypass'[Master]
  <1>1. PICK u \in Mcp : Queued(Master, u)
    BY TargetFacts, CoreFacts DEF Bypass, BypassToNlp, BypassToNmp
  <1>2. /\ UNCHANGED <<config, warmed_up, file_pos, begun, fresh, more_reqs, region_ids>>
        /\ ctl'.at \in {"wait", "finish"} /\ ~pending_bypass'[Master]
    BY <1>1, OneThreadFacts DEF Queued, Goto, outerVars, fixedVars, countVars, TypeOK,
      SwitchType
  <1>3. ctl.at = "bypass" /\ lock_core'[Master]
    BY OneThreadFacts DEF Bypass, BypassToNlp, BypassToNmp, At, LockOwn, ControlInv
  <1>4. PICK n : /\ Spots(u)' = Spots(u) \cup {n} /\ LineAt(u, n)' = file_pos
                 /\ \A i \in Spots(u) : LineAt(u, i)' = LineAt(u, i)
                 /\ \A v \in Mcp \ {u} : /\ Spots(v)' = Spots(v)
                                         /\ \A i : LineAt(v, i)' = LineAt(v, i)
    BY <1>1, QueuedSpots
  <1>5. ASSUME NEW v \in Mcp, NEW i \in Spots(v)'
        PROVE  LineAt(v, i)' = file_pos \/ (i \in Spots(v) /\ LineAt(v, i)' = LineAt(v, i))
    BY <1>4
  <1>6. \A p : Waits(p)' => Waits(p) \/ p = file_pos
    BY <1>5 DEF Waits
  <1> QED
    BY <1>2, <1>3, <1>6

(* Executing its line the host at most begins it. *)
LEMMA ExecuteBegins ==
  ASSUME TypeOK, OneThread, ControlInv, NEW complete \in BOOLEAN,
         Execute(Master, complete)
  PROVE  /\ \A p : Waits(p)' => Waits(p)
         /\ \/ UNCHANGED <<begun, fresh>> /\ ~fresh[Master]
            \/ fresh[Master] /\ begun' = [begun EXCEPT ![file_pos] = @ + 1]
         /\ UNCHANGED <<config, warmed_up, file_pos, more_reqs, lock_core, pending_bypass,
                        region_ids>>
         /\ ctl.at = "execute" /\ ~lock_core[Master] /\ more_reqs[Master]
         /\ ctl'.at = "idle" \/ (ctl'.at = "next" /\ ctl'.ret = "decide")
  <1>1. /\ UNCHANGED <<config, warmed_up, file_pos, trace_line, inst_queue, more_reqs,
                       lock_core, pending_bypass, region_ids>>
        /\ ctl.at = "execute" /\ ~lock_core[Master] /\ more_reqs[Master]
        /\ trace_line[Master] = file_pos
        /\ ctl' = Idle \/ Goto(Master, "next", "decide")
    BY DEF Execute, At, outerVars, fixedVars, switchVars, regionVars, ControlInv
  <1>2. \A u \in Mcp : fresh'[u] = fresh[u]
    BY CoreFacts DEF Execute, Begin, TypeOK, CoreType
  <1>3. \A p : Waits(p)' => Waits(p)
    BY <1>1, <1>2, StayWaits
  <1>4. \/ UNCHANGED <<begun, fresh>> /\ ~fresh[Master]
        \/ fresh[Master] /\ begun' = [begun EXCEPT ![file_pos] = @ + 1]
    BY <1>1 DEF Execute, Begin, countVars
  <1> QED
    BY <1>1, <1>3, <1>4 DEF Goto, Idle

(* Reading on, the master comes to the next line, if there is one. *)
LEMMA ReadOwnReads ==
  ASSUME TypeOK, OneThread, ControlInv, ReadOwn(Master)
  PROVE  /\ \A p : Waits(p)' => Waits(p)
         /\ UNCHANGED <<config, warmed_up, begun, region_ids>>
         /\ ~pending_bypass'[Master] /\ fresh'[Master]
         /\ ctl.at = "next" /\ ctl'.at = ctl.ret /\ ctl.ret \in Callers
         /\ \/ /\ file_pos' = file_pos + 1 /\ more_reqs[Master]
            \/ file_pos' = file_pos /\ ~more_reqs'[Master]
  <1>1. /\ UNCHANGED <<config, warmed_up, begun, region_ids, inst_queue, pending_bypass>>
        /\ ctl.at = "next" /\ ctl'.at = ctl.ret /\ ctl.ret \in Callers
        /\ file_pos' = NextPlace /\ ~pending_bypass[Master]
    BY DEF ReadOwn, At, Goto, outerVars, fixedVars, countVars, regionVars, switchVars,
      TypeOK, ControlType, ControlInv
  <1>2. more_reqs'[Master] = NextMore /\ fresh'[Master] = TRUE
    BY OneThreadFacts DEF ReadOwn, TypeOK, CoreType
  <1>3. \A u \in Mcp : /\ trace_line'[u] = trace_line[u] /\ fresh'[u] = fresh[u]
                       /\ more_reqs'[u] = more_reqs[u]
    BY CoreFacts, OneThreadFacts DEF ReadOwn, TypeOK, LineType, CoreType
  <1>4. \A u \in Mcp : Spots(u)' = Spots(u) /\ \A i : LineAt(u, i)' = LineAt(u, i)
    BY <1>1, <1>3 DEF Spots, LineAt
  <1>5. \A p : Waits(p)' => Waits(p)
    BY <1>4 DEF Waits
  <1>6. NextMore => more_reqs[Master]
    BY <1>1, OneThreadFacts DEF NextMore, ControlInv
  <1>7. CASE NextMore
    BY <1>1, <1>2, <1>5, <1>6, <1>7 DEF NextPlace, NextMore
  <1>8. CASE ~NextMore
    BY <1>1, <1>2, <1>5, <1>8 DEF NextPlace, NextMore
  <1> QED
    BY <1>7, <1>8

(* A strategy goes on with the line it was given. *)
LEMMA StrategyLeaves ==
  ASSUME TypeOK, OneThread, ControlInv, RegionInv, StrategyStep
  PROVE  /\ \A p : Waits(p)' => Waits(p)
         /\ UNCHANGED <<config, warmed_up, file_pos, begun, fresh, more_reqs>>
         /\ ~pending_bypass'[Master] /\ ctl.at \in Callers
         /\ ctl'.at \in {"bypass", "next", "finish"}
         /\ Held(Master) = Trace[file_pos]
         /\ ~IsTag(Held(Master)) <=> Instruction(file_pos)
  <1>1. /\ ctl.at \in Callers /\ UNCHANGED linesUnchanged
        /\ ToBypass \/ ToNext \/ Goto(Master, "finish", "none")
    BY StrategyGoes
  <1>2. /\ UNCHANGED <<config, warmed_up, file_pos, begun, fresh, more_reqs, trace_line,
                       inst_queue, pending_bypass>>
    BY <1>1 DEF linesUnchanged, execVars, countVars
  <1>3. ~pending_bypass[Master] /\ trace_line[Master] = file_pos
    BY <1>1 DEF ControlInv, Callers
  <1>4. ctl'.at \in {"bypass", "next", "finish"}
    BY <1>1 DEF ToBypass, ToNext, Goto
  <1>5. \A p : Waits(p)' => Waits(p)
    BY <1>2, StayWaits
  <1> QED
    BY <1>1, <1>2, <1>3, <1>4, <1>5 DEF Held, IsTag, Instruction

----------------------------------------------------------------------------
(* The tags of a trace, and the regions open between them *)

OffloadModes == {"All-Offload", "Co-Simulation"}

(* The line at place p of a trace lies between the tags of its region. *)
WithinRegion(trace, p) ==
  \E i \in 1 .. p - 1 :
    /\ trace[i].op = "ROI_BEGIN" /\ trace[i].region = trace[p].region
    /\ \A j \in i + 1 .. p - 1 :
         ~(trace[j].op = "ROI_END" /\ trace[j].region = trace[p].region)

(* What is assumed of a trace: it starts with an instruction (the master   *)
(* executes its first line whatever it is), and a tag closes a region only *)
(* when one has opened it.  During a warm-up tags are skipped.             *)
TagsPaired ==
  \A s \in Scenarios :
    /\ s.trace[1].op = "INST"
    /\ s.mode \in OffloadModes =>
         /\ ~s.warm
         /\ \A p \in DOMAIN s.trace :
              s.trace[p].op = "ROI_END" => WithinRegion(s.trace, p)

(* The offloaded regions open after the first n lines of the trace *)
OpenAt(n) ==
  {g \in Regions :
     /\ Chosen(g)
     /\ \E i \in 1 .. n :
          /\ Trace[i].op = "ROI_BEGIN" /\ Trace[i].region = g
          /\ \A j \in i + 1 .. n : ~(Trace[j].op = "ROI_END" /\ Trace[j].region = g)}

(* How many lines the strategies have dealt with *)
Handed == IF ctl.at \in Callers THEN file_pos - 1 ELSE file_pos

(* The offloading strategies know which regions are open.  (A tag at the   *)
(* end of the file is dealt with twice.)                                   *)
OpenInv ==
  config.mode \in OffloadModes =>
    /\ warmed_up /\ Point \notin {"host_only", "nmp_only"}
    /\ more_reqs[Master] \/ Instruction(file_pos) => region_ids[Master] = OpenAt(Handed)

LEMMA PlaceFacts ==
  ASSUME TypeOK
  PROVE  /\ file_pos \in DOMAIN Trace /\ file_pos \in Nat \ {0} /\ file_pos - 1 \in Nat
         /\ DOMAIN Trace = 1 .. Len(Trace) /\ Len(Trace) \in Nat
         /\ \A p \in DOMAIN Trace : Trace[p].op \in Ops /\ Trace[p].region \in Regions
  <1>1. Len(Trace) \in Nat /\ DOMAIN Trace = 1 .. Len(Trace) /\ file_pos \in DOMAIN Trace
    BY TraceFacts DEF TypeOK, LineType
  <1>2. \A p \in DOMAIN Trace : Trace[p].op \in Ops /\ Trace[p].region \in Regions
    BY TraceFacts, LineFields DEF TypeOK
  <1> QED
    BY <1>1, <1>2

(* A line that is no tag leaves the regions open that are. *)
LEMMA OpenSame ==
  ASSUME NEW p \in Nat \ {0}, NEW g \in Regions,
         ~(Trace[p].op \in {"ROI_BEGIN", "ROI_END"} /\ Trace[p].region = g)
  PROVE  g \in OpenAt(p) <=> g \in OpenAt(p - 1)
  <1>1. p = (p - 1) + 1 /\ p - 1 \in Nat
    OBVIOUS
  <1>2. ASSUME g \in OpenAt(p) PROVE g \in OpenAt(p - 1)
    <2>1. PICK i \in 1 .. p :
            /\ Trace[i].op = "ROI_BEGIN" /\ Trace[i].region = g
            /\ \A j \in i + 1 .. p : ~(Trace[j].op = "ROI_END" /\ Trace[j].region = g)
      BY <1>2 DEF OpenAt
    <2>2. i # p
      BY <2>1
    <2>3. i \in 1 .. p - 1 /\ \A j \in i + 1 .. p - 1 : j \in i + 1 .. p
      BY <2>2
    <2> QED
      BY <1>2, <2>1, <2>3 DEF OpenAt
  <1>3. ASSUME g \in OpenAt(p - 1) PROVE g \in OpenAt(p)
    <2>1. PICK i \in 1 .. p - 1 :
            /\ Trace[i].op = "ROI_BEGIN" /\ Trace[i].region = g
            /\ \A j \in i + 1 .. p - 1 : ~(Trace[j].op = "ROI_END" /\ Trace[j].region = g)
      BY <1>3 DEF OpenAt
    <2>2. i \in 1 .. p /\ \A j \in i + 1 .. p : j = p \/ j \in i + 1 .. p - 1
      OBVIOUS
    <2>3. \A j \in i + 1 .. p : ~(Trace[j].op = "ROI_END" /\ Trace[j].region = g)
      BY <2>1, <2>2
    <2> QED
      BY <1>3, <2>1, <2>2, <2>3 DEF OpenAt
  <1> QED
    BY <1>2, <1>3

LEMMA OpenBegins ==
  ASSUME NEW p \in Nat \ {0}, NEW g \in Regions, Trace[p].op = "ROI_BEGIN",
         Trace[p].region = g
  PROVE  g \in OpenAt(p) <=> Chosen(g)
  <1>1. p \in 1 .. p /\ \A j \in p + 1 .. p : FALSE
    OBVIOUS
  <1> QED
    BY <1>1 DEF OpenAt

LEMMA OpenEnds ==
  ASSUME NEW p \in Nat \ {0}, NEW g, Trace[p].op = "ROI_END", Trace[p].region = g
  PROVE  g \notin OpenAt(p)
  <1> SUFFICES ASSUME NEW i \in 1 .. p, Trace[i].op = "ROI_BEGIN",
                      \A j \in i + 1 .. p : ~(Trace[j].op = "ROI_END" /\ Trace[j].region = g)
               PROVE  FALSE
    BY DEF OpenAt
  <1>1. i # p
    OBVIOUS
  <1>2. p \in i + 1 .. p
    BY <1>1
  <1> QED
    BY <1>2

(* What one line does to the open regions *)
LEMMA OpenNext ==
  ASSUME NEW p \in Nat \ {0}, Trace[p].region \in Regions
  PROVE  /\ Trace[p].op = "INST" => OpenAt(p) = OpenAt(p - 1)
         /\ Trace[p].op = "ROI_BEGIN" =>
              OpenAt(p) = IF Chosen(Trace[p].region) THEN OpenAt(p - 1) \cup {Trace[p].region}
                                                     ELSE OpenAt(p - 1)
         /\ Trace[p].op = "ROI_END" => OpenAt(p) = OpenAt(p - 1) \ {Trace[p].region}
  <1> DEFINE region == Trace[p].region
  <1>1. OpenAt(p) \subseteq Regions /\ OpenAt(p - 1) \subseteq Regions
    BY DEF OpenAt
  <1>2. \A g \in OpenAt(p - 1) : Chosen(g)
    BY DEF OpenAt
  <1>3. ASSUME NEW g \in Regions, g # region PROVE g \in OpenAt(p) <=> g \in OpenAt(p - 1)
    BY <1>3, OpenSame
  <1>4. CASE Trace[p].op = "INST"
    <2>1. \A g \in Regions : g \in OpenAt(p) <=> g \in OpenAt(p - 1)
      BY <1>4, OpenSame
    <2> QED
      BY <1>1, <1>4, <2>1
  <1>5. CASE Trace[p].op = "ROI_BEGIN"
    <2>1. region \in OpenAt(p) <=> Chosen(region)
      BY <1>5, OpenBegins
    <2> QED
      BY <1>1, <1>2, <1>3, <1>5, <2>1
  <1>6. CASE Trace[p].op = "ROI_END"
    <2>1. region \notin OpenAt(p)
      BY <1>6, OpenEnds
    <2> QED
      BY <1>1, <1>3, <1>6, <2>1
  <1> QED
    BY <1>4, <1>5, <1>6

LEMMA OpenFixed ==
  ASSUME UNCHANGED config
  PROVE  /\ \A n : OpenAt(n)' = OpenAt(n)
         /\ \A g : Chosen(g)' = Chosen(g)
         /\ \A p : /\ Instruction(p)' = Instruction(p) /\ Offloaded(p)' = Offloaded(p)
                   /\ IsTag(Trace[p])' = IsTag(Trace[p])
  <1>1. Trace' = Trace /\ \A g : Chosen(g)' = Chosen(g)
    BY DEF Trace, Chosen
  <1> QED
    BY <1>1 DEF OpenAt, Instruction, Offloaded, IsTag

(* A tag is read by the strategies that offload, never an instruction. *)
LEMMA ReadTagReads ==
  ASSUME TypeOK, OneThread, ControlInv, RegionInv, ReadTag(Master)
  PROVE  /\ IsTag(Held(Master)) /\ ctl'.at = "next" /\ ctl'.ret = "scan"
         /\ ctl.at \in {"decide", "scan"}
         /\ region_ids'[Master] =
              CASE Opens(Master) /\ Chosen(Held(Master).region) ->
                     region_ids[Master] \cup {Held(Master).region}
                [] Closes(Master) -> region_ids[Master] \ {Held(Master).region}
                [] OTHER -> region_ids[Master]
  <1>1. /\ region_ids'[Master] =
              CASE Opens(Master) /\ Chosen(Held(Master).region) ->
                     region_ids[Master] \cup {Held(Master).region}
                [] Closes(Master) -> region_ids[Master] \ {Held(Master).region}
                [] OTHER -> region_ids[Master]
        /\ Goto(Master, "next", "scan")
    BY OneThreadFacts DEF ReadTag, TypeOK, RegionType
  <1>2. CASE Strategy(Master) /\ Offloading /\ ~InRegion(Master) /\ ~OutOfRegion(Master)
    <2>1. ~IsTag(Held(Master)) => region_ids[Master] = {}
      BY <1>2 DEF InRegion, OutOfRegion
    <2>2. IsTag(Held(Master)) /\ ctl.at = "decide"
      BY <1>2, <2>1 DEF Strategy, At, Offloading, RegionInv
    <2> QED
      BY <1>1, <2>2 DEF Goto
  <1>3. CASE At(Master, "scan") /\ more_reqs[Master] /\ (Opens(Master) \/ Closes(Master))
    BY <1>1, <1>3 DEF At, Goto, Opens, Closes, IsTag
  <1> QED
    BY <1>2, <1>3 DEF ReadTag

(* A step that leaves the regions alone and the line as dealt with as before *)
LEMMA OpenStays ==
  ASSUME OpenInv, UNCHANGED <<config, file_pos, region_ids>>, warmed_up => warmed_up',
         more_reqs'[Master] => more_reqs[Master],
         Handed' = Handed, Point' \in {Point, "bypass", "decide"} \cup Standing
  PROVE  OpenInv'
  <1> SUFFICES ASSUME config.mode \in OffloadModes PROVE OpenInv'
    BY DEF OpenInv
  <1>1. warmed_up' /\ Point' \notin {"host_only", "nmp_only"}
    BY DEF OpenInv, Standing
  <1>2. ASSUME more_reqs'[Master] \/ Instruction(file_pos)' PROVE region_ids'[Master] = OpenAt(Handed)'
    <2>1. region_ids[Master] = OpenAt(Handed)
      BY <1>2, OpenFixed DEF OpenInv
    <2>2. OpenAt(Handed)' = OpenAt(Handed)
      <3>1. PICK n : n = Handed
        OBVIOUS
      <3>2. OpenAt(n)' = OpenAt(n)
        BY OpenFixed
      <3> QED
        BY <3>1, <3>2
    <2> QED
      BY <2>1, <2>2
  <1> QED
    BY <1>1, <1>2 DEF OpenInv

LEMMA StrategyOpen ==
  ASSUME TypeOK, OneThread, ControlInv, RegionInv, OpenInv, StrategyStep
  PROVE  OpenInv'
  <1> SUFFICES ASSUME config.mode \in OffloadModes PROVE OpenInv'
    BY StrategyLeaves DEF OpenInv
  <1> DEFINE p == file_pos
             g == Held(Master).region
  <1>1. /\ UNCHANGED <<config, warmed_up, file_pos, more_reqs>>
        /\ ctl.at \in Callers /\ ctl'.at \in {"bypass", "next", "finish"}
        /\ Held(Master) = Trace[p]
        /\ ~IsTag(Held(Master)) <=> Instruction(p)
    BY StrategyLeaves
  <1>2. warmed_up /\ Point \notin {"host_only", "nmp_only"} /\ ctl.at \in {"decide", "scan"}
    BY <1>1 DEF OpenInv, Point, Callers
  <1>3. /\ p \in Nat \ {0} /\ Trace[p].region \in Regions /\ Trace[p].op \in Ops
    BY PlaceFacts
  <1>4. config.mode \notin {"MCP-Only", "Host-Only"}
    BY DEF OffloadModes
  <1>5. Handed = p - 1 /\ Handed' = p
    BY <1>1 DEF Handed, Callers
  <1>6. /\ Point' \notin {"host_only", "nmp_only"}
        /\ more_reqs[Master] \/ Instruction(p) =>
             \/ /\ region_ids'[Master] = region_ids[Master]
                /\ \/ Instruction(p)
                   \/ Trace[p].op = "ROI_END" /\ g \notin region_ids[Master]
             \/ ReadTag(Master)
    <2>1. CASE NoStrategy(Master) \/ OffloadLine(Master) \/ LeaveRegion(Master)
      <3>1. UNCHANGED region_ids /\ ~IsTag(Held(Master)) /\ ctl'.at # "next"
        <4>1. CASE NoStrategy(Master)
          BY <4>1 DEF NoStrategy, Goto, dataVars, regionVars
        <4>2. CASE OffloadLine(Master)
          BY <4>2 DEF OffloadLine, InRegion, Goto, dataVars, regionVars
        <4>3. CASE LeaveRegion(Master)
          BY <4>3 DEF LeaveRegion, OutOfRegion, Goto, regionVars
        <4> QED
          BY <2>1, <4>1, <4>2, <4>3
      <3> QED
        BY <1>1, <3>1 DEF Point
    <2>2. CASE HostOnly(Master) \/ NmpOnlySkip(Master) \/ NmpOnlyBypass(Master)
      BY <1>2, <1>4, <2>2 DEF HostOnly, NmpOnlySkip, NmpOnlyBypass, Strategy, At
    <2>3. CASE ReadTag(Master)
      BY <2>3, ReadTagReads DEF Point
    <2>4. CASE ScanToHost(Master)
      <3>1. UNCHANGED region_ids /\ ctl'.at = "finish" /\ ~Opens(Master) /\ ~Closes(Master)
        BY <2>4 DEF ScanToHost, Goto, regionVars
      <3>2. Instruction(p) \/ (Trace[p].op = "ROI_END" /\ g \notin region_ids[Master])
        BY <1>1, <1>3, <3>1 DEF Opens, Closes, Instruction, Ops
      <3> QED
        BY <3>1, <3>2 DEF Point
    <2>5. CASE ScanEnd(Master)
      <3>1. UNCHANGED region_ids /\ ctl'.at = "finish" /\ ~more_reqs[Master]
        BY <2>5 DEF ScanEnd, Goto, dataVars, regionVars
      <3> QED
        BY <3>1 DEF Point
    <2> QED
      BY <2>1, <2>2, <2>3, <2>4, <2>5 DEF StrategyStep
  <1>7. ASSUME more_reqs[Master] \/ Instruction(p) PROVE region_ids'[Master] = OpenAt(p)
    <2>1. region_ids[Master] = OpenAt(p - 1)
      BY <1>5, <1>7 DEF OpenInv
    <2>2. CASE /\ region_ids'[Master] = region_ids[Master]
               /\ \/ Instruction(p)
                  \/ Trace[p].op = "ROI_END" /\ g \notin region_ids[Master]
      <3>1. Instruction(p) => OpenAt(p) = OpenAt(p - 1)
        BY <1>3, OpenNext DEF Instruction
      <3>2. Trace[p].op = "ROI_END" => OpenAt(p) = OpenAt(p - 1) \ {g}
        BY <1>1, <1>3, OpenNext
      <3> QED
        BY <2>1, <2>2, <3>1, <3>2
    <2>3. CASE ReadTag(Master)
      <3>1. /\ Trace[p].op \in {"ROI_BEGIN", "ROI_END"}
            /\ Opens(Master) <=> Trace[p].op = "ROI_BEGIN"
            /\ Closes(Master) <=> Trace[p].op = "ROI_END" /\ g \in region_ids[Master]
        BY <1>1, <1>3, <2>3, ReadTagReads DEF Opens, Closes, IsTag, Ops
      <3>2. CASE Trace[p].op = "ROI_BEGIN"
        <4>1. region_ids'[Master] = IF Chosen(g) THEN region_ids[Master] \cup {g}
                                                 ELSE region_ids[Master]
          BY <2>3, <3>1, <3>2, ReadTagReads
        <4> QED
          BY <1>1, <1>3, <2>1, <3>2, <4>1, OpenNext
      <3>3. CASE Trace[p].op = "ROI_END"
        <4>1. region_ids'[Master] = region_ids[Master] \ {g}
          BY <2>3, <3>1, <3>3, ReadTagReads
        <4> QED
          BY <1>1, <1>3, <2>1, <3>3, <4>1, OpenNext
      <3> QED
        BY <3>1, <3>2, <3>3
    <2> QED
      BY <1>6, <1>7, <2>2, <2>3
  <1>8. \A n : OpenAt(n)' = OpenAt(n) /\ Instruction(n)' = Instruction(n)
    BY <1>1, OpenFixed
  <1>9. OpenAt(Handed)' = OpenAt(p)
    <2>1. PICK n : n = p
      OBVIOUS
    <2>2. OpenAt(n)' = OpenAt(n) /\ Handed' = n
      BY <1>5, <1>8, <2>1
    <2> QED
      BY <2>1, <2>2
  <1>10. Instruction(file_pos)' = Instruction(p)
    BY <1>1, <1>8
  <1> QED
    BY <1>1, <1>2, <1>6, <1>7, <1>9, <1>10 DEF OpenInv

LEMMA ReadOwnOpen ==
  ASSUME TypeOK, TypeOK', OneThread, ControlInv, OpenInv, ReadOwn(Master)
  PROVE  OpenInv'
  <1> SUFFICES ASSUME config.mode \in OffloadModes PROVE OpenInv'
    BY ReadOwnReads DEF OpenInv
  <1>1. /\ UNCHANGED <<config, warmed_up, region_ids>>
        /\ ctl.at = "next" /\ ctl'.at = ctl.ret /\ ctl.ret \in Callers
        /\ \/ file_pos' = file_pos + 1 /\ more_reqs[Master]
           \/ file_pos' = file_pos /\ ~more_reqs'[Master]
    BY ReadOwnReads
  <1>2. Point' = Point /\ Handed = file_pos /\ Handed' = file_pos' - 1
    BY <1>1 DEF Point, Handed, Callers
  <1>3. file_pos \in Nat \ {0} /\ Trace[file_pos].region \in Regions
    BY PlaceFacts
  <1>4. ASSUME more_reqs'[Master] \/ Instruction(file_pos)'
        PROVE  region_ids'[Master] = OpenAt(Handed)'
    <2>1. PICK n : n = file_pos' - 1
      OBVIOUS
    <2>2. OpenAt(Handed)' = OpenAt(n)
      <3>1. OpenAt(n)' = OpenAt(n) /\ Handed' = n
        BY <1>1, <1>2, <2>1, OpenFixed
      <3> QED
        BY <3>1
    <2>3. CASE file_pos' = file_pos + 1 /\ more_reqs[Master]
      <3>1. n = file_pos
        BY <1>3, <2>1, <2>3
      <3> QED
        BY <1>1, <1>2, <2>2, <2>3, <3>1 DEF OpenInv
    <2>4. CASE file_pos' = file_pos /\ ~more_reqs'[Master]
      <3>1. Instruction(file_pos) /\ n = file_pos - 1
        BY <1>1, <1>4, <2>1, <2>4, OpenFixed
      <3>2. OpenAt(file_pos) = OpenAt(n)
        BY <1>3, <3>1, OpenNext DEF Instruction
      <3> QED
        BY <1>1, <1>2, <2>2, <3>1, <3>2 DEF OpenInv
    <2> QED
      BY <1>1, <2>3, <2>4
  <1> QED
    BY <1>1, <1>2, <1>4 DEF OpenInv

LEMMA PassOpen ==
  ASSUME TypeOK, OpenInv, Pass
  PROVE  OpenInv'
  <1>1. ctl' = ctl \/ (ctl.at \notin Callers /\ ctl'.at \notin Callers)
    BY DEF Pass, Standing, Callers
  <1>2. Handed' = Handed
    BY <1>1 DEF Pass, Handed
  <1>3. Point' \in {Point, "bypass", "decide"} \cup Standing
    BY DEF Pass, Point, Standing
  <1> QED
    BY <1>2, <1>3, OpenStays DEF Pass

LEMMA NextOpen ==
  ASSUME TypeOK, TypeOK', OneThread, ControlInv, RegionInv, OpenInv, [Next]_vars
  PROVE  OpenInv'
  <1>1. CASE Bypass
    <2>1. Handed' = Handed /\ Point' \in Standing
      BY <1>1, BypassAdds DEF Handed, Callers, Point, Standing
    <2> QED
      BY <1>1, <2>1, BypassAdds, OpenStays
  <1>2. ASSUME NEW complete \in BOOLEAN, Execute(Master, complete) PROVE OpenInv'
    <2>1. Handed' = Handed /\ Point' \in {"decide"} \cup Standing
      BY <1>2, ExecuteBegins DEF Handed, Callers, Point, Standing
    <2> QED
      BY <1>2, <2>1, ExecuteBegins, OpenStays
  <1>3. ASSUME NEW u \in Mcp, McpStep(u) PROVE OpenInv'
    <2>1. UNCHANGED <<config, warmed_up, file_pos, ctl, region_ids>>
          /\ more_reqs'[Master] = more_reqs[Master]
      BY <1>3, McpBegins
    <2>2. Handed' = Handed /\ Point' = Point
      BY <2>1 DEF Handed, Point
    <2> QED
      BY <2>1, <2>2, OpenStays
  <1> QED
    BY <1>1, <1>2, <1>3, StepKinds, ReadOwnOpen, StrategyOpen, PassOpen

LEMMA InitOpen ==
  ASSUME TagsPaired, Init
  PROVE  OpenInv
  <1> SUFFICES ASSUME config.mode \in OffloadModes PROVE OpenInv
    BY DEF OpenInv
  <1>1. TypeOK /\ config \in Scenarios
    BY InitType DEF Init
  <1>2. warmed_up /\ Trace[1].op = "INST"
    BY <1>1 DEF TagsPaired, Init, Trace
  <1>3. file_pos = 1 /\ Handed = 1 /\ Point = "idle" /\ region_ids[Master] = {}
    BY CoreFacts DEF Init, Idle, Handed, Callers, Point
  <1>4. \A i \in 1 .. 1 : Trace[i].op # "ROI_BEGIN"
    BY <1>2
  <1>5. OpenAt(1) = {}
    BY <1>4 DEF OpenAt
  <1> QED
    BY <1>2, <1>3, <1>5 DEF OpenInv

----------------------------------------------------------------------------
(* Tags are not performed *)

(* A line that may be performed: an instruction, or the tag that the scan  *)
(* of the strategies takes for one                                         *)
MayPerform(p) ==
  \/ Instruction(p)
  \/ /\ Trace[p].op = "ROI_END" /\ ~Chosen(Trace[p].region)
     /\ p > 1 /\ IsTag(Trace[p - 1])

(* Where the master stands it has a line that may be performed; it scans   *)
(* only from a tag on; and only instructions are bypassed.                 *)
StandInv ==
  /\ ctl.at = "next" /\ ctl.ret = "scan" => ~Instruction(file_pos)
  /\ ctl.at = "scan" /\ more_reqs[Master] => file_pos > 1 /\ ~Instruction(file_pos - 1)
  /\ ctl.at \in Standing /\ more_reqs[Master] => MayPerform(file_pos)
  /\ ctl.at = "bypass" \/ pending_bypass[Master] => Instruction(file_pos)

TagInv ==
  /\ StandInv
  /\ \A p \in DOMAIN Trace :
       (Waits(p) => Instruction(p)) /\ (begun[p] > 0 => MayPerform(p))

LEMMA MayFixed ==
  ASSUME UNCHANGED config
  PROVE  /\ Trace' = Trace
         /\ \A p : MayPerform(p)' = MayPerform(p) /\ Instruction(p)' = Instruction(p)
         /\ (\A p \in DOMAIN Trace :
              (Waits(p)' => Instruction(p)) /\ (begun'[p] > 0 => MayPerform(p)))
              /\ StandInv' => TagInv'
  <1>1. Trace' = Trace /\ \A p : MayPerform(p)' = MayPerform(p) /\ Instruction(p)' = Instruction(p)
    BY OpenFixed DEF MayPerform, Trace, Instruction, IsTag, Chosen
  <1> QED
    BY <1>1 DEF TagInv

(* What each strategy says of the line it goes on with *)
LEMMA StrategyStand ==
  ASSUME TypeOK, OneThread, TagsPaired, ControlInv, RegionInv, OpenInv, StandInv, StrategyStep
  PROVE  StandInv'
  <1> DEFINE p == file_pos
  <1>1. /\ UNCHANGED <<config, warmed_up, file_pos, more_reqs>>
        /\ ~pending_bypass'[Master] /\ ctl.at \in Callers
        /\ ctl'.at \in {"bypass", "next", "finish"}
        /\ Held(Master) = Trace[p]
        /\ ~IsTag(Held(Master)) <=> Instruction(p)
    BY StrategyLeaves
  <1>2. \A n : MayPerform(n)' = MayPerform(n) /\ Instruction(n)' = Instruction(n)
    BY <1>1, MayFixed
  <1>3. /\ ctl'.at = "next" /\ ctl'.ret = "scan" => ~Instruction(p)
        /\ ctl'.at = "bypass" => Instruction(p)
        /\ ctl'.at = "finish" /\ more_reqs[Master] => MayPerform(p)
    <2>1. CASE NoStrategy(Master) \/ OffloadLine(Master) \/ LeaveRegion(Master)
               \/ NmpOnlyBypass(Master)
      <3>1. ~IsTag(Held(Master))
        BY <2>1 DEF NoStrategy, OffloadLine, InRegion, LeaveRegion, OutOfRegion, NmpOnlyBypass
      <3>2. Goto(Master, "finish", "none") \/ Goto(Master, "bypass", "finish")
        BY <2>1 DEF NoStrategy, OffloadLine, LeaveRegion, NmpOnlyBypass
      <3>3. ctl'.at # "next"
        BY <3>2 DEF Goto
      <3> QED
        BY <1>1, <3>1, <3>3 DEF MayPerform
    <2>2. CASE HostOnly(Master)
      <3>1. \/ ctl'.at = "next" /\ ctl'.ret = "host_only"
            \/ ctl'.at = "finish" /\ ~(more_reqs[Master] /\ IsTag(Held(Master)))
        BY <2>2 DEF HostOnly, Goto
      <3> QED
        BY <1>1, <3>1 DEF MayPerform
    <2>3. CASE NmpOnlySkip(Master)
      <3>1. \/ ctl'.at = "next" /\ ctl'.ret = "nmp_only"
            \/ ctl'.at = "finish" /\ ~more_reqs[Master]
        BY <2>3 DEF NmpOnlySkip, Goto
      <3> QED
        BY <3>1
    <2>4. CASE ReadTag(Master)
      BY <1>1, <2>4, ReadTagReads
    <2>5. CASE ScanToHost(Master)
      <3>1. /\ ctl.at = "scan" /\ ctl'.at = "finish" /\ more_reqs[Master]
            /\ ~InRegion(Master) /\ ~Opens(Master) /\ ~Closes(Master)
        BY <2>5 DEF ScanToHost, At, Goto
      <3>2. CASE Instruction(p)
        BY <3>1, <3>2 DEF MayPerform
      <3>3. CASE ~Instruction(p)
        <4>1. /\ p \in DOMAIN Trace /\ p \in Nat \ {0} /\ Trace[p].region \in Regions
              /\ Trace[p].op \in Ops
          BY PlaceFacts
        <4>2. Trace[p].op = "ROI_END" /\ Trace[p].region \notin region_ids[Master]
          BY <1>1, <3>1, <3>3, <4>1 DEF Opens, Closes, Instruction, Ops
        <4>3. p > 1 /\ ~Instruction(p - 1)
          BY <3>1 DEF StandInv
        <4>4. config.mode \in OffloadModes /\ config \in Scenarios
          BY <3>1 DEF RegionInv, Offloading, OffloadModes, TypeOK, LineType
        <4>5. region_ids[Master] = OpenAt(p - 1)
          BY <3>1, <4>4 DEF OpenInv, Handed, Callers
        <4>6. WithinRegion(Trace, p)
          BY <4>1, <4>2, <4>4 DEF TagsPaired, Trace
        <4>7. ~Chosen(Trace[p].region)
          BY <4>1, <4>2, <4>5, <4>6 DEF WithinRegion, OpenAt
        <4> QED
          <5>1. IsTag(Trace[p - 1])
            BY <4>3 DEF IsTag, Instruction
          <5>2. MayPerform(p)
            BY <4>2, <4>3, <4>7, <5>1 DEF MayPerform
          <5> QED
            BY <3>1, <3>3, <5>2
      <3> QED
        BY <3>1, <3>2, <3>3
    <2>6. CASE ScanEnd(Master)
      BY <2>6 DEF ScanEnd, Goto
    <2> QED
      BY <2>1, <2>2, <2>3, <2>4, <2>5, <2>6 DEF StrategyStep
  <1> QED
    BY <1>1, <1>2, <1>3 DEF StandInv, Standing

LEMMA PassStand ==
  ASSUME TypeOK, StandInv, Pass
  PROVE  StandInv'
  <1>1. \A n : MayPerform(n)' = MayPerform(n) /\ Instruction(n)' = Instruction(n)
    BY MayFixed DEF Pass
  <1>2. file_pos' = file_pos
    BY DEF Pass
  <1>3. MayPerform(file_pos)' = MayPerform(file_pos)
        /\ Instruction(file_pos)' = Instruction(file_pos)
        /\ Instruction(file_pos - 1)' = Instruction(file_pos - 1)
    BY <1>1, <1>2
  <1>4. ctl'.at \in Standing => ctl.at \in Standing \cup {"bypass"}
    BY DEF Pass, Standing
  <1>5. ctl'.at = "bypass" => ctl.at = "bypass" \/ pending_bypass[Master]
    BY DEF Pass, Standing
  <1>6. ctl'.at = "next" /\ ctl'.ret = "scan" => ctl' = ctl
    BY DEF Pass, Standing
  <1>7. ctl'.at = "scan" => ctl' = ctl
    BY DEF Pass, Standing
  <1> QED
    BY <1>2, <1>3, <1>4, <1>5, <1>6, <1>7 DEF StandInv, MayPerform, Pass

LEMMA ReadOwnStand ==
  ASSUME TypeOK, TypeOK', OneThread, ControlInv, StandInv, ReadOwn(Master)
  PROVE  StandInv'
  <1>1. /\ UNCHANGED config /\ ~pending_bypass'[Master]
        /\ ctl.at = "next" /\ ctl'.at = ctl.ret /\ ctl.ret \in Callers
        /\ \/ file_pos' = file_pos + 1 /\ more_reqs[Master]
           \/ file_pos' = file_pos /\ ~more_reqs'[Master]
    BY ReadOwnReads
  <1>2. file_pos \in Nat \ {0}
    BY PlaceFacts
  <1>3. ASSUME ctl'.at = "scan", more_reqs'[Master]
        PROVE  file_pos' > 1 /\ ~Instruction(file_pos - 1)'
    <2>1. file_pos' = file_pos + 1 /\ ~Instruction(file_pos)
      BY <1>1, <1>3 DEF StandInv
    <2>2. file_pos' - 1 = file_pos
      BY <1>2, <2>1
    <2>3. PICK n : n = file_pos
      OBVIOUS
    <2>4. ~Instruction(n)' /\ file_pos' - 1 = n
      BY <1>1, <2>1, <2>2, <2>3, MayFixed
    <2> QED
      BY <1>2, <2>1, <2>4
  <1> QED
    BY <1>1, <1>3 DEF StandInv, Callers, Standing

LEMMA NextTag ==
  ASSUME TypeOK, TypeOK', OneThread, TagsPaired, ControlInv, RegionInv, OpenInv, TagInv,
         [Next]_vars
  PROVE  TagInv'
  <1>1. CASE ReadOwn(Master)
    BY <1>1, ReadOwnStand, ReadOwnReads, MayFixed DEF TagInv
  <1>2. CASE StrategyStep
    BY <1>2, StrategyStand, StrategyLeaves, MayFixed DEF TagInv
  <1>3. CASE Pass
    <2>1. UNCHANGED <<config, begun>> /\ \A p : Waits(p)' => Waits(p)
      BY <1>3 DEF Pass
    <2> QED
      BY <1>3, <2>1, PassStand, MayFixed DEF TagInv
  <1>4. CASE Bypass
    <2>1. /\ \A p : Waits(p)' => Waits(p) \/ p = file_pos
          /\ UNCHANGED <<config, file_pos, begun, more_reqs>>
          /\ ctl.at = "bypass" /\ ctl'.at \in {"wait", "finish"} /\ ~pending_bypass'[Master]
      BY <1>4, BypassAdds
    <2>2. Instruction(file_pos) /\ Instruction(file_pos)'
      BY <2>1, MayFixed DEF TagInv, StandInv
    <2>3. StandInv'
      BY <2>1, <2>2 DEF StandInv, MayPerform
    <2> QED
      BY <2>1, <2>2, <2>3, MayFixed DEF TagInv
  <1>5. ASSUME NEW complete \in BOOLEAN, Execute(Master, complete) PROVE TagInv'
    <2>1. /\ \A p : Waits(p)' => Waits(p)
          /\ UNCHANGED begun \/ begun' = [begun EXCEPT ![file_pos] = @ + 1]
          /\ UNCHANGED <<config, file_pos, more_reqs, pending_bypass>>
          /\ ctl.at = "execute" /\ more_reqs[Master]
          /\ ctl'.at = "idle" \/ (ctl'.at = "next" /\ ctl'.ret = "decide")
      BY <1>5, ExecuteBegins
    <2>2. MayPerform(file_pos) /\ MayPerform(file_pos)'
      BY <2>1, MayFixed DEF TagInv, StandInv, Standing
    <2>3. Instruction(file_pos)' = Instruction(file_pos)
      BY <2>1, MayFixed
    <2>4. StandInv'
      BY <2>1, <2>2, <2>3 DEF TagInv, StandInv
    <2>5. \A p \in DOMAIN Trace : begun'[p] > 0 => MayPerform(p)
      BY <2>1, <2>2 DEF TagInv, TypeOK, LineType
    <2> QED
      BY <2>1, <2>4, <2>5, MayFixed DEF TagInv
  <1>6. ASSUME NEW u \in Mcp, McpStep(u) PROVE TagInv'
    <2>1. /\ \A p : Waits(p)' => Waits(p)
          /\ \/ UNCHANGED begun
             \/ Waits(trace_line[u]) /\ begun' = [begun EXCEPT ![trace_line[u]] = @ + 1]
          /\ UNCHANGED <<config, file_pos, ctl, pending_bypass>>
          /\ more_reqs'[Master] = more_reqs[Master]
      BY <1>6, McpBegins
    <2>2. StandInv'
      <3>1. MayPerform(file_pos)' = MayPerform(file_pos)
            /\ Instruction(file_pos)' = Instruction(file_pos)
            /\ Instruction(file_pos - 1)' = Instruction(file_pos - 1)
        BY <2>1, MayFixed
      <3> QED
        BY <2>1, <3>1 DEF TagInv, StandInv
    <2>3. \A p \in DOMAIN Trace : begun'[p] > 0 => MayPerform(p)
      BY <2>1 DEF TagInv, TypeOK, LineType, MayPerform
    <2> QED
      BY <2>1, <2>2, <2>3, MayFixed DEF TagInv
  <1> QED
    BY <1>1, <1>2, <1>3, <1>4, <1>5, <1>6, StepKinds

LEMMA InitTag ==
  ASSUME TagsPaired, Init
  PROVE  TagInv
  <1>1. \A u \in Mcp : u \in Cores /\ u # Master
    BY CoreFacts
  <1>2. \A u \in Mcp : Spots(u) = {}
    <2>1. \A u \in Mcp : ~more_reqs[u] /\ inst_queue[u] = <<>>
      BY <1>1 DEF Init
    <2> QED
      BY <2>1 DEF Spots
  <1>3. /\ file_pos = 1 /\ ctl = Idle /\ ~pending_bypass[Master]
        /\ \A p \in DOMAIN Trace : begun[p] = 0
    BY CoreFacts DEF Init, Trace
  <1>4. Instruction(file_pos)
    BY <1>3 DEF TagsPaired, Init, Instruction, Trace
  <1> QED
    BY <1>2, <1>3, <1>4 DEF TagInv, StandInv, MayPerform, Waits, Idle

LEMMA TagInductive ==
  ASSUME OneThread, TagsPaired
  PROVE  /\ Init => OneThreadInv /\ OpenInv /\ TagInv
         /\ OneThreadInv /\ OpenInv /\ TagInv /\ [Next]_vars => (OneThreadInv /\ OpenInv /\ TagInv)'
  <1>1. Init => OneThreadInv /\ OpenInv /\ TagInv
    BY InitOpen, InitTag, OneThreadInductive
  <1>2. ASSUME OneThreadInv, OpenInv, TagInv, [Next]_vars
        PROVE  (OneThreadInv /\ OpenInv /\ TagInv)'
    <2>1. OneThreadInv'
      BY <1>2, OneThreadInductive
    <2> QED
      BY <1>2, <2>1, NextOpen, NextTag DEF OneThreadInv
  <1> QED
    BY <1>1, <1>2

(* With one host thread, in every mode and for every trace whose tags      *)
(* pair, no tag is performed as an instruction on either side, but one     *)
(* that closes a region which was not offloaded and follows another tag    *)
(* (compiler_assist_offload, Processor.cpp:1248).                          *)
THEOREM OffloadTagsNotPerformed ==
  ASSUME OneThread, TagsPaired
  PROVE  Spec => []TagsNotPerformed
  <1>1. TagInv => TagsNotPerformed
    BY DEF TagInv, TagsNotPerformed, MayPerform, Instruction, IsTag
  <1> QED
    BY <1>1, TagInductive, PTL DEF Spec

----------------------------------------------------------------------------
(* Each side performs the lines of its own, after those of the other *)

(* What is assumed of a trace besides: an instruction that carries a       *)
(* region lies between its tags, and 0 stands for no region.               *)
LinesMarked ==
  \A s \in Scenarios : \A p \in DOMAIN s.trace :
    /\ s.trace[p].op = "INST" /\ s.trace[p].region # 0 => WithinRegion(s.trace, p)
    /\ s.trace[p].op = "ROI_BEGIN" => s.trace[p].region # 0

(* The master is locked just when its line belongs to the MCP side; only   *)
(* such lines go there; and the host has begun each of its own lines when  *)
(* it reads on.                                                            *)
OwnLines ==
  /\ ctl.at \in Standing /\ more_reqs[Master] => (lock_core[Master] <=> Offloaded(file_pos))
  /\ ctl.at = "bypass" \/ pending_bypass[Master] => Offloaded(file_pos)
  /\ ctl.at = "next" /\ more_reqs[Master] /\ Instruction(file_pos) =>
       Offloaded(file_pos) \/ begun[file_pos] > 0
  /\ ~fresh[Master] => begun[file_pos] > 0

SidesInv ==
  /\ OwnLines
  /\ \A p \in DOMAIN Trace : Waits(p) => Offloaded(p)
  /\ \A q \in 1 .. file_pos - 1 : Instruction(q) => Offloaded(q) \/ begun[q] > 0

(* An instruction is offloaded when its region is open. *)
LEMMA MarkedOpen ==
  ASSUME TypeOK, LinesMarked, NEW p \in DOMAIN Trace, Instruction(p)
  PROVE  Offloaded(p) <=> Trace[p].region \in OpenAt(p - 1)
  <1>1. config \in Scenarios /\ DOMAIN Trace = 1 .. Len(Trace) /\ Len(Trace) \in Nat
        /\ Trace[p].region \in Regions
    BY PlaceFacts DEF TypeOK, LineType
  <1>2. ASSUME Offloaded(p) PROVE Trace[p].region \in OpenAt(p - 1)
    <2>1. WithinRegion(Trace, p) /\ Chosen(Trace[p].region)
      BY <1>1, <1>2 DEF LinesMarked, Offloaded, Instruction, Trace
    <2> QED
      BY <1>1, <2>1 DEF WithinRegion, OpenAt
  <1>3. ASSUME Trace[p].region \in OpenAt(p - 1) PROVE Offloaded(p)
    <2>1. PICK i \in 1 .. p - 1 : Trace[i].op = "ROI_BEGIN" /\ Trace[i].region = Trace[p].region
      BY <1>3 DEF OpenAt
    <2>2. i \in DOMAIN Trace
      BY <1>1
    <2>3. Trace[i].region # 0
      BY <1>1, <2>1, <2>2 DEF LinesMarked, Trace
    <2> QED
      BY <1>3, <2>1, <2>3 DEF Offloaded, OpenAt
  <1> QED
    BY <1>2, <1>3

LEMMA StrategyOwn ==
  ASSUME TypeOK, OneThread, CoSimAlone, TagsPaired, LinesMarked, ControlInv, RegionInv,
         OpenInv, StandInv, OwnLines, StrategyStep
  PROVE  OwnLines'
  <1> DEFINE p == file_pos
  <1>1. /\ UNCHANGED <<config, warmed_up, file_pos, begun, fresh, more_reqs>>
        /\ ~pending_bypass'[Master] /\ ctl.at \in Callers
        /\ ctl'.at \in {"bypass", "next", "finish"}
        /\ Held(Master) = Trace[p]
        /\ ~IsTag(Held(Master)) <=> Instruction(p)
    BY StrategyLeaves
  <1>2. Offloaded(p)' = Offloaded(p) /\ Instruction(p)' = Instruction(p)
    BY <1>1, OpenFixed
  <1>3. /\ config.mode \in OffloadModes /\ warmed_up
        /\ config.mode \notin {"MCP-Only", "Host-Only"}
        /\ Point \notin {"host_only", "nmp_only"}
    BY TurnFacts DEF OpenInv, OffloadModes
  <1>4. ctl.at \in {"decide", "scan"} /\ (lock_core[Master] => ~more_reqs[Master])
    BY <1>1, <1>3 DEF ControlInv, Point, Callers
  <1>5. p \in DOMAIN Trace
    BY PlaceFacts
  <1>6. Instruction(p) => (Offloaded(p) <=> Trace[p].region \in region_ids[Master])
    BY <1>1, <1>3, <1>5, MarkedOpen DEF OpenInv, Handed
  <1>7. ~LockOwn(FALSE)[Master]
    BY TurnFacts DEF LockOwn, ControlInv
  <1>8. /\ ctl'.at = "next" => ~Instruction(p)
        /\ ctl'.at = "bypass" => Offloaded(p)
        /\ ctl'.at = "finish" /\ more_reqs[Master] => ~lock_core'[Master] /\ ~Offloaded(p)
    <2>1. CASE NoStrategy(Master)
      <3>1. /\ UNCHANGED lock_core /\ ctl'.at = "finish" /\ Instruction(p)
            /\ region_ids[Master] = {}
        BY <1>1, <2>1 DEF NoStrategy, Goto, dataVars, RegionInv
      <3> QED
        BY <1>4, <1>6, <3>1
    <2>2. CASE OffloadLine(Master)
      <3>1. Instruction(p) /\ Trace[p].region \in region_ids[Master] /\ ctl'.at = "bypass"
        BY <1>1, <2>2 DEF OffloadLine, InRegion, Goto
      <3> QED
        BY <1>6, <3>1
    <2>3. CASE LeaveRegion(Master)
      <3>1. /\ Instruction(p) /\ Trace[p].region \notin region_ids[Master]
            /\ ctl'.at = "finish" /\ lock_core' = LockOwn(FALSE)
        BY <1>1, <2>3 DEF LeaveRegion, OutOfRegion, Goto
      <3> QED
        BY <1>6, <1>7, <3>1
    <2>4. CASE HostOnly(Master) \/ NmpOnlySkip(Master) \/ NmpOnlyBypass(Master)
      BY <1>3, <1>4, <2>4 DEF HostOnly, NmpOnlySkip, NmpOnlyBypass, Strategy, At
    <2>5. CASE ReadTag(Master)
      BY <1>1, <2>5, ReadTagReads
    <2>6. CASE ScanToHost(Master)
      <3>1. /\ ctl'.at = "finish" /\ lock_core' = LockOwn(FALSE) /\ ~InRegion(Master)
            /\ more_reqs[Master]
        BY <2>6 DEF ScanToHost, Goto
      <3>2. CASE Instruction(p)
        BY <1>1, <1>6, <1>7, <3>1, <3>2 DEF InRegion
      <3>3. CASE ~Instruction(p)
        <4>1. MayPerform(p)
          <5>1. MayPerform(file_pos)'
            BY <1>1, <3>1, StrategyStand DEF StandInv, Standing
          <5> QED
            BY <1>1, <5>1, MayFixed
        <4>2. ~Offloaded(p)
          BY <3>3, <4>1 DEF MayPerform, Offloaded
        <4> QED
          BY <1>7, <3>1, <4>2
      <3> QED
        BY <3>2, <3>3
    <2>7. CASE ScanEnd(Master)
      BY <2>7 DEF ScanEnd, Goto
    <2> QED
      BY <2>1, <2>2, <2>3, <2>4, <2>5, <2>6, <2>7 DEF StrategyStep
  <1> QED
    BY <1>1, <1>2, <1>8 DEF OwnLines, Standing

LEMMA PassOwn ==
  ASSUME TypeOK, OwnLines, Pass
  PROVE  OwnLines'
  <1>1. UNCHANGED <<config, file_pos, begun>> /\ fresh'[Master] = fresh[Master]
        /\ (more_reqs'[Master] => more_reqs[Master])
    BY DEF Pass
  <1>2. Offloaded(file_pos)' = Offloaded(file_pos)
        /\ Instruction(file_pos)' = Instruction(file_pos)
    BY <1>1, OpenFixed
  <1>3. ctl'.at \in Standing =>
          \/ ctl.at \in Standing /\ lock_core'[Master] = lock_core[Master]
          \/ ctl.at = "bypass" /\ lock_core'[Master]
    BY DEF Pass, Standing
  <1>4. ctl'.at = "bypass" \/ pending_bypass'[Master] =>
          ctl.at = "bypass" \/ pending_bypass[Master]
    BY DEF Pass, Standing
  <1>5. ctl'.at = "next" => ctl.at = "next" \/ (ctl.at \in Standing /\ lock_core[Master])
    BY DEF Pass, Standing
  <1> QED
    BY <1>1, <1>2, <1>3, <1>4, <1>5 DEF OwnLines

(* The host executes a line of its own. *)
LEMMA ExecuteOwn ==
  ASSUME TypeOK, OneThread, ControlInv, OwnLines, NEW complete \in BOOLEAN,
         Execute(Master, complete)
  PROVE  /\ OwnLines' /\ ~Offloaded(file_pos)
         /\ \A p \in DOMAIN Trace : begun[p] > 0 => begun'[p] > 0
  <1>1. /\ \/ UNCHANGED <<begun, fresh>> /\ ~fresh[Master]
           \/ fresh[Master] /\ begun' = [begun EXCEPT ![file_pos] = @ + 1]
        /\ UNCHANGED <<config, file_pos, more_reqs, lock_core, pending_bypass>>
        /\ ctl.at = "execute" /\ ~lock_core[Master] /\ more_reqs[Master]
        /\ ctl'.at = "idle" \/ (ctl'.at = "next" /\ ctl'.ret = "decide")
    BY ExecuteBegins
  <1>2. begun \in [DOMAIN Trace -> Nat] /\ file_pos \in DOMAIN Trace
    BY DEF TypeOK, LineType
  <1>3. ~Offloaded(file_pos)
    BY <1>1 DEF OwnLines, Standing
  <1>4. begun'[file_pos] > 0 /\ \A p \in DOMAIN Trace : begun[p] > 0 => begun'[p] > 0
    <2>1. CASE UNCHANGED <<begun, fresh>> /\ ~fresh[Master]
      BY <1>2, <2>1 DEF OwnLines
    <2>2. CASE begun' = [begun EXCEPT ![file_pos] = @ + 1]
      BY <1>2, <2>2
    <2> QED
      BY <1>1, <2>1, <2>2
  <1>5. Offloaded(file_pos)' = Offloaded(file_pos)
    BY <1>1, OpenFixed
  <1>6. ~pending_bypass[Master]
    BY <1>1 DEF ControlInv
  <1>7. OwnLines'
    BY <1>1, <1>3, <1>4, <1>5, <1>6 DEF OwnLines, Standing
  <1> QED
    BY <1>3, <1>4, <1>7

LEMMA ReadOwnSides ==
  ASSUME TypeOK, TypeOK', OneThread, ControlInv, SidesInv, ReadOwn(Master)
  PROVE  SidesInv'
  <1>1. /\ UNCHANGED <<config, begun>> /\ ~pending_bypass'[Master] /\ fresh'[Master]
        /\ \A p : Waits(p)' => Waits(p)
        /\ ctl.at = "next" /\ ctl'.at = ctl.ret /\ ctl.ret \in Callers
        /\ \/ file_pos' = file_pos + 1 /\ more_reqs[Master]
           \/ file_pos' = file_pos /\ ~more_reqs'[Master]
    BY ReadOwnReads
  <1>2. OwnLines'
    BY <1>1 DEF OwnLines, Callers, Standing
  <1>3. \A n : Instruction(n)' = Instruction(n) /\ Offloaded(n)' = Offloaded(n)
    BY <1>1, OpenFixed
  <1>4. file_pos \in Nat
    BY PlaceFacts
  <1>5. ASSUME NEW q \in 1 .. file_pos' - 1, Instruction(q)
        PROVE  Offloaded(q) \/ begun[q] > 0
    <2>1. CASE q \in 1 .. file_pos - 1
      BY <1>5, <2>1 DEF SidesInv
    <2>2. CASE q \notin 1 .. file_pos - 1
      <3>1. q = file_pos /\ more_reqs[Master]
        BY <1>1, <1>4, <2>2
      <3> QED
        BY <1>1, <1>5, <3>1 DEF SidesInv, OwnLines
    <2> QED
      BY <2>1, <2>2
  <1>6. Trace' = Trace
    BY <1>1 DEF Trace
  <1> QED
    BY <1>1, <1>2, <1>3, <1>5, <1>6 DEF SidesInv

(* Waiting and begun lines, in a step that reads none *)
LEMMA SidesStay ==
  ASSUME TypeOK, SidesInv, UNCHANGED <<config, file_pos>>, OwnLines',
         \A p \in DOMAIN Trace : /\ Waits(p)' => Offloaded(p)
                                 /\ begun[p] > 0 => begun'[p] > 0
  PROVE  SidesInv'
  <1>1. /\ Trace' = Trace
        /\ \A n : Instruction(n)' = Instruction(n) /\ Offloaded(n)' = Offloaded(n)
    BY OpenFixed DEF Trace
  <1>2. 1 .. file_pos - 1 \subseteq DOMAIN Trace
    BY PlaceFacts
  <1> QED
    BY <1>1, <1>2 DEF SidesInv

LEMMA McpSides ==
  ASSUME TypeOK, SidesInv, NEW u \in Mcp, McpStep(u)
  PROVE  SidesInv'
  <1>1. /\ \A p : Waits(p)' => Waits(p)
        /\ UNCHANGED begun \/ begun' = [begun EXCEPT ![trace_line[u]] = @ + 1]
        /\ UNCHANGED <<config, file_pos, ctl, pending_bypass>>
        /\ more_reqs'[Master] = more_reqs[Master] /\ fresh'[Master] = fresh[Master]
        /\ lock_core'[Master] = lock_core[Master]
    BY McpBegins
  <1>2. begun \in [DOMAIN Trace -> Nat] /\ file_pos \in DOMAIN Trace
    BY DEF TypeOK, LineType
  <1>3. \A p \in DOMAIN Trace : begun[p] > 0 => begun'[p] > 0
    BY <1>1, <1>2
  <1>4. Offloaded(file_pos)' = Offloaded(file_pos)
        /\ Instruction(file_pos)' = Instruction(file_pos)
    BY <1>1, OpenFixed
  <1>5. OwnLines'
    BY <1>1, <1>2, <1>3, <1>4 DEF SidesInv, OwnLines
  <1> QED
    BY <1>1, <1>3, <1>5, SidesStay DEF SidesInv

LEMMA NextSides ==
  ASSUME TypeOK, TypeOK', OneThread, CoSimAlone, TagsPaired, LinesMarked, ControlInv,
         RegionInv, OpenInv, TagInv, SidesInv, [Next]_vars
  PROVE  SidesInv'
  <1>1. CASE StrategyStep
    <2>1. /\ \A p : Waits(p)' => Waits(p)
          /\ UNCHANGED <<config, file_pos, begun>>
      BY <1>1, StrategyLeaves
    <2>2. OwnLines'
      BY <1>1, StrategyOwn DEF TagInv, SidesInv
    <2> QED
      BY <2>1, <2>2, SidesStay DEF SidesInv
  <1>2. CASE Pass
    <2>1. /\ \A p : Waits(p)' => Waits(p)
          /\ UNCHANGED <<config, file_pos, begun>>
      BY <1>2 DEF Pass
    <2>2. OwnLines'
      BY <1>2, PassOwn DEF SidesInv
    <2> QED
      BY <2>1, <2>2, SidesStay DEF SidesInv
  <1>3. CASE Bypass
    <2>1. /\ \A p : Waits(p)' => Waits(p) \/ p = file_pos
          /\ UNCHANGED <<config, file_pos, begun, fresh>>
          /\ ctl.at = "bypass" /\ ctl'.at \in {"wait", "finish"}
          /\ lock_core'[Master] /\ ~pending_bypass'[Master]
      BY <1>3, BypassAdds
    <2>2. Offloaded(file_pos) /\ Offloaded(file_pos)' = Offloaded(file_pos)
      BY <2>1, OpenFixed DEF SidesInv, OwnLines
    <2>3. OwnLines'
      BY <2>1, <2>2 DEF SidesInv, OwnLines, Standing
    <2> QED
      BY <2>1, <2>2, <2>3, SidesStay DEF SidesInv
  <1>4. ASSUME NEW complete \in BOOLEAN, Execute(Master, complete) PROVE SidesInv'
    <2>1. /\ \A p : Waits(p)' => Waits(p)
          /\ UNCHANGED <<config, file_pos>>
      BY <1>4, ExecuteBegins
    <2>2. OwnLines' /\ \A p \in DOMAIN Trace : begun[p] > 0 => begun'[p] > 0
      BY <1>4, ExecuteOwn DEF SidesInv
    <2> QED
      BY <2>1, <2>2, SidesStay DEF SidesInv
  <1> QED
    BY <1>1, <1>2, <1>3, <1>4, ReadOwnSides, McpSides, StepKinds

LEMMA InitSides ==
  ASSUME OneThread, CoSimAlone, TagsPaired, LinesMarked, Init
  PROVE  SidesInv
  <1>1. TypeOK
    BY InitType
  <1>2. \A u \in Mcp : u \in Cores /\ u # Master /\ ~more_reqs[u] /\ inst_queue[u] = <<>>
    BY CoreFacts DEF Init
  <1>3. \A u \in Mcp : Spots(u) = {}
    BY <1>2 DEF Spots
  <1>4. /\ file_pos = 1 /\ ctl = Idle /\ ~pending_bypass[Master] /\ fresh[Master]
        /\ ~lock_core[Master] /\ config \in Scenarios
    BY <1>1, TurnFacts DEF Init
  <1>5. Instruction(1) /\ 1 \in DOMAIN Trace
    BY <1>1, <1>4, PlaceFacts DEF TagsPaired, Instruction, Trace
  <1>6. OpenAt(1 - 1) = {}
    BY DEF OpenAt
  <1>7. ~Offloaded(1)
    BY <1>1, <1>5, <1>6, MarkedOpen
  <1>8. OwnLines
    BY <1>4, <1>7 DEF OwnLines, Idle, Standing
  <1>9. ~\E p : Waits(p)
    BY <1>3 DEF Waits
  <1>10. ~\E q \in 1 .. file_pos - 1 : TRUE
    BY <1>4
  <1> QED
    BY <1>8, <1>9, <1>10 DEF SidesInv

OrderedSides == OneThreadInv /\ KeptInv /\ TurnInv /\ OpenInv /\ TagInv /\ SidesInv

LEMMA SidesInductive ==
  ASSUME OneThread, CoSimAlone, TagsPaired, LinesMarked
  PROVE  /\ Init => OrderedSides
         /\ OrderedSides /\ [Next]_vars => OrderedSides'
  <1>1. Init => OrderedSides
    BY KeptInductive, TurnInductive, TagInductive, InitSides DEF OrderedSides
  <1>2. ASSUME OrderedSides, [Next]_vars PROVE OrderedSides'
    <2>1. (OneThreadInv /\ KeptInv)'
      BY <1>2, KeptInductive DEF OrderedSides
    <2>2. TurnInv'
      BY <1>2, TurnInductive DEF OrderedSides
    <2>3. (OpenInv /\ TagInv)'
      BY <1>2, TagInductive DEF OrderedSides
    <2>4. SidesInv'
      BY <1>2, <2>1, NextSides DEF OrderedSides, OneThreadInv
    <2> QED
      BY <2>1, <2>2, <2>3, <2>4 DEF OrderedSides
  <1> QED
    BY <1>1, <1>2

(* When the master executes, no line of the MCP side waits. *)
LEMMA NoneWaits ==
  ASSUME TurnInv, more_reqs[Master], ctl.at = "execute", ~lock_core[Master]
  PROVE  ~\E p : Waits(p)
  <1>1. AllWoken /\ ~proc_switching[Master]
    BY DEF TurnInv, TickTurn
  <1>2. \A u \in Mcp : ~more_reqs[u] /\ inst_queue[u] = <<>>
    BY <1>1 DEF TurnInv, SideInv, AllWoken
  <1>3. \A u \in Mcp : Spots(u) = {}
    BY <1>2 DEF Spots
  <1> QED
    BY <1>3 DEF Waits

InTurn(p) ==
  /\ \E u \in (IF Offloaded(p) THEN Mcp ELSE HostCores) : BegunBy(u, p)
  /\ \A q \in 1 .. p - 1 :
       Instruction(q) /\ ~(Offloaded(p) /\ Offloaded(q)) => begun[q] > 0

LEMMA HostInTurn ==
  ASSUME OneThread, CoSimAlone, OrderedSides, NEW complete \in BOOLEAN,
         Execute(Master, complete), NEW p \in DOMAIN Trace, begun'[p] > begun[p]
  PROVE  InTurn(p)
  <1>1. TypeOK /\ ControlInv /\ SidesInv /\ TurnInv /\ KeptInv
    BY DEF OrderedSides, OneThreadInv
  <1>2. begun \in [DOMAIN Trace -> Nat] /\ file_pos \in DOMAIN Trace
    BY <1>1 DEF TypeOK, LineType
  <1>3. fresh[Master] /\ begun' = [begun EXCEPT ![file_pos] = @ + 1]
        /\ more_reqs[Master] /\ ctl.at = "execute" /\ ~lock_core[Master]
    BY <1>1, <1>2, ExecuteBegins
  <1>4. p = file_pos
    BY <1>2, <1>3
  <1>5. ~Offloaded(p)
    BY <1>1, <1>4, ExecuteOwn DEF SidesInv
  <1>6. trace_line[Master] = p /\ Master \in HostCores
    BY <1>1, <1>4, TurnFacts DEF ControlInv
  <1>7. BegunBy(Master, p)
    BY <1>3, <1>6 DEF BegunBy
  <1>8. ASSUME NEW q \in 1 .. p - 1, Instruction(q) PROVE begun[q] > 0
    <2>1. q \in ReadLines /\ q # file_pos
      BY <1>1, <1>4, PlaceFacts, TurnFacts DEF ReadLines
    <2>2. Kept(q)
      BY <1>1, <1>3, <1>8, <2>1 DEF KeptInv, Live
    <2> QED
      BY <1>1, <1>3, <2>2, NoneWaits DEF Kept
  <1> QED
    BY <1>5, <1>6, <1>7, <1>8 DEF InTurn

LEMMA McpInTurn ==
  ASSUME OrderedSides, NEW u \in Mcp, McpStep(u),
         NEW p \in DOMAIN Trace, begun'[p] > begun[p]
  PROVE  InTurn(p)
  <1>1. TypeOK /\ SidesInv /\ OnceInv
    BY DEF OrderedSides, OneThreadInv
  <1>2. begun \in [DOMAIN Trace -> Nat]
    BY <1>1 DEF TypeOK, LineType
  <1>3. /\ more_reqs[u] /\ fresh[u] /\ Waits(trace_line[u])
        /\ begun' = [begun EXCEPT ![trace_line[u]] = @ + 1]
    BY <1>1, <1>2, McpBegins
  <1>4. trace_line[u] = p
    BY <1>2, <1>3
  <1>5. Offloaded(p)
    BY <1>1, <1>3, <1>4 DEF SidesInv
  <1>6. p <= file_pos
    BY <1>1, <1>3, <1>4 DEF OnceInv
  <1>7. 1 .. p - 1 \subseteq 1 .. file_pos - 1
    BY <1>1, <1>6, PlaceFacts
  <1>8. BegunBy(u, p)
    BY <1>3, <1>4 DEF BegunBy
  <1> QED
    BY <1>1, <1>5, <1>7, <1>8 DEF InTurn, SidesInv

LEMMA NextInTurn ==
  ASSUME OneThread, CoSimAlone, OrderedSides, [Next]_vars,
         NEW p \in DOMAIN Trace, begun'[p] > begun[p]
  PROVE  InTurn(p)
  <1>1. TypeOK /\ ControlInv /\ RegionInv
    BY DEF OrderedSides, OneThreadInv
  <1>2. begun' # begun
    BY <1>1 DEF TypeOK, LineType
  <1>3. ~ReadOwn(Master) /\ ~StrategyStep /\ ~Bypass /\ ~Pass
    BY <1>1, <1>2, ReadOwnReads, StrategyLeaves, BypassAdds DEF Pass
  <1> QED
    BY <1>1, <1>3, StepKinds, HostInTurn, McpInTurn

(* With one host thread and no NLP cores, in Co-Simulation without         *)
(* overhead_cycle, and for every trace whose lines carry their region, the *)
(* MCP side performs the lines of offloaded regions and the host all other *)
(* ones, each after every earlier line of the other side: the order of the *)
(* trace is kept by the switch alone (Processor.cpp:974 and 1154), though  *)
(* no line waits for another.                                              *)
THEOREM OffloadSidesKeepOrder ==
  ASSUME OneThread, CoSimAlone, TagsPaired, LinesMarked
  PROVE  Spec => SidesKeepTraceOrder
  <1>1. ASSUME OrderedSides, [Next]_vars
        PROVE  \A p \in DOMAIN Trace : begun'[p] > begun[p] => InTurn(p)
    BY <1>1, NextInTurn
  <1>2. OrderedSides /\ [Next]_vars =>
          [\A p \in DOMAIN Trace : begun'[p] > begun[p] =>
             /\ \E u \in (IF Offloaded(p) THEN Mcp ELSE HostCores) : BegunBy(u, p)
             /\ \A q \in 1 .. p - 1 :
                  Instruction(q) /\ ~(Offloaded(p) /\ Offloaded(q)) => begun[q] > 0]_vars
    BY <1>1 DEF InTurn
  <1> QED
    BY <1>2, SidesInductive, PTL DEF Spec, SidesKeepTraceOrder
=============================================================================
