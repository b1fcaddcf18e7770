-------------------------- MODULE OffloadOnceProofs --------------------------
(***************************************************************************)
(* Proofs about Offload with one host thread: no line of the trace is      *)
(* performed twice.  A line not yet begun waits at most at one place of    *)
(* the MCP side; lines only move forward between these places, a bypass    *)
(* adds one place, and beginning a line removes it.                        *)
(***************************************************************************)
EXTENDS OffloadProofs

OneThread == \A s \in Scenarios : \A i \in DOMAIN s.trace : s.trace[i].thread = Master

(* The regions a trace opens for offloading *)
Opened ==
  {Trace[i].region : i \in {j \in DOMAIN Trace : Trace[j].op = "ROI_BEGIN" /\ Chosen(Trace[j].region)}}

(* The master alone is in its ticks, with the line read last; it is at a   *)
(* point of a tick where it needs a line only while it has one.            *)
ControlInv ==
  /\ ctl.core = Master /\ deployed[Master] /\ trace_line[Master] = file_pos
  /\ \A h \in HostCores \ {Master} : ~more_reqs[h]
  /\ ctl.at # "idle" => more_reqs[Master] \/ file_pos = Len(Trace)
  /\ ctl.at \in {"wait", "execute"} \/ ctl.ret = "retry" => more_reqs[Master]
  /\ pending_bypass[Master] => ctl.at \in {"idle", "bypass", "finish"}
  /\ ctl.at \in Callers /\ lock_core[Master] => ~more_reqs[Master]
  /\ ctl.at = "bypass" => more_reqs[Master] \/ McpOnly \/ EndsInRegion

(* Only the strategies that offload enter regions, and only regions that   *)
(* the trace opens.                                                        *)
RegionInv ==
  /\ region_ids[Master] \subseteq Opened
  /\ inside_region[Master] <=> region_ids[Master] # {}
  /\ inside_region[Master] => Offloading
  /\ ctl.at = "scan" \/ ctl.ret = "scan" => Offloading
  /\ McpOnly => warmed_up

----------------------------------------------------------------------------
(* The master's tick *)

LEMMA OneThreadFacts ==
  ASSUME OneThread, TypeOK
  PROVE  /\ \A p \in DOMAIN Trace : Trace[p].thread = Master
         /\ Len(Trace) \in Nat \ {0} /\ DOMAIN Trace = 1 .. Len(Trace)
         /\ file_pos \in DOMAIN Trace /\ NextPlace \in DOMAIN Trace
         /\ Master \in HostCores /\ Master \in Cores /\ Master \notin Mcp
  <1>1. config \in Scenarios /\ file_pos \in DOMAIN Trace /\ LineType
    BY DEF TypeOK, LineType
  <1>2. Len(Trace) \in Nat \ {0} /\ DOMAIN Trace = 1 .. Len(Trace)
    BY <1>1, TraceFacts
  <1>3. \A p \in DOMAIN Trace : Trace[p].thread = Master
    BY <1>1 DEF OneThread, Trace
  <1>4. NextPlace \in DOMAIN Trace
    BY <1>1, <1>2 DEF NextPlace
  <1> QED
    BY <1>1, <1>2, <1>3, <1>4, CoreFacts

LEMMA ConfigFacts ==
  ASSUME UNCHANGED config
  PROVE  /\ Trace' = Trace /\ Safe' = Safe /\ Opened' = Opened
         /\ McpOnly' = McpOnly /\ EndsInRegion' = EndsInRegion
  BY DEF Trace, Safe, Opened, McpOnly, EndsInRegion, LastLine, Chosen

LEMMA TickHeldControl ==
  ASSUME TypeOK, OneThread, ControlInv, TickHeld(Master)
  PROVE  ControlInv'
  <1>1. UNCHANGED config
    BY DEF TickHeld, countVars, regionVars, switchVars, execVars, fixedVars
  <1> QED
    BY <1>1, ConfigFacts, OneThreadFacts, CoreFacts
    DEF TypeOK, LineType, ControlType, CoreType, ControlInv, Callers, TickHeld,
      countVars, regionVars, switchVars, execVars, fixedVars, MayProceed, Retire, Idle

LEMMA TickOverheadControl ==
  ASSUME TypeOK, OneThread, ControlInv, TickOverhead(Master)
  PROVE  ControlInv'
  <1>1. UNCHANGED config
    BY DEF TickOverhead, countVars, regionVars, execVars, fixedVars
  <1> QED
    BY <1>1, ConfigFacts, OneThreadFacts, CoreFacts
    DEF TypeOK, LineType, ControlType, CoreType, ControlInv, Callers, TickOverhead,
      countVars, regionVars, execVars, fixedVars, MayProceed, Retire, Idle

LEMMA TickDispatchControl ==
  ASSUME TypeOK, OneThread, ControlInv, TickDispatch(Master)
  PROVE  ControlInv'
  <1>1. UNCHANGED config
    BY DEF TickDispatch, countVars, regionVars, fixedVars
  <1> QED
    BY <1>1, ConfigFacts, OneThreadFacts, CoreFacts
    DEF TypeOK, LineType, ControlType, CoreType, ControlInv, Callers, TickDispatch,
      countVars, regionVars, fixedVars, AfterGate, Goto, GetFirst, MayProceed, Retire,
      Idle

LEMMA TickUnlockedControl ==
  ASSUME TypeOK, OneThread, ControlInv, TickUnlocked(Master)
  PROVE  ControlInv'
  <1>1. UNCHANGED config
    BY DEF TickUnlocked, countVars, regionVars, switchVars, execVars, fixedVars
  <1> QED
    BY <1>1, ConfigFacts, OneThreadFacts, CoreFacts
    DEF TypeOK, LineType, ControlType, CoreType, ControlInv, Callers, TickUnlocked,
      countVars, regionVars, switchVars, execVars, fixedVars, AfterGate, Goto,
      MayProceed, Retire, Idle

LEMMA WaitControl ==
  ASSUME TypeOK, OneThread, ControlInv, Wait(Master)
  PROVE  ControlInv'
  <1>1. UNCHANGED config
    BY DEF Wait, countVars, regionVars, windowVars, execVars, outerVars, fixedVars
  <1> QED
    BY <1>1, ConfigFacts, OneThreadFacts, CoreFacts
    DEF TypeOK, LineType, ControlType, CoreType, ControlInv, Callers, Wait, countVars,
      regionVars, windowVars, execVars, outerVars, fixedVars, Goto, Idle, At

LEMMA SkipExecutionControl ==
  ASSUME TypeOK, OneThread, ControlInv, SkipExecution(Master)
  PROVE  ControlInv'
  <1>1. UNCHANGED config
    BY DEF SkipExecution, dataVars, countVars, regionVars, switchVars, windowVars,
      execVars, fixedVars
  <1> QED
    BY <1>1, ConfigFacts, OneThreadFacts, CoreFacts
    DEF TypeOK, LineType, ControlType, CoreType, ControlInv, Callers, SkipExecution,
      dataVars, countVars, regionVars, switchVars, windowVars, execVars, fixedVars,
      Goto, At

LEMMA FetchRefusedControl ==
  ASSUME TypeOK, OneThread, ControlInv, FetchRefused(Master)
  PROVE  ControlInv'
  <1>1. UNCHANGED config
    BY DEF FetchRefused, dataVars, countVars, regionVars, switchVars, windowVars,
      execVars, fixedVars
  <1> QED
    BY <1>1, ConfigFacts, OneThreadFacts, CoreFacts
    DEF TypeOK, LineType, ControlType, CoreType, ControlInv, Callers, FetchRefused,
      dataVars, countVars, regionVars, switchVars, windowVars, execVars, fixedVars,
      Idle, At

LEMMA ExecuteControl ==
  ASSUME TypeOK, OneThread, ControlInv, NEW complete \in BOOLEAN, Execute(Master,
    complete)
  PROVE  ControlInv'
  <1>1. UNCHANGED config
    BY DEF Execute, regionVars, switchVars, outerVars, fixedVars, countVars
  <1> QED
    BY <1>1, ConfigFacts, OneThreadFacts, CoreFacts
    DEF TypeOK, LineType, ControlType, CoreType, ControlInv, Callers, Execute,
      regionVars, switchVars, outerVars, fixedVars, Idle, Goto, countVars, Begin, At

LEMMA FinishControl ==
  ASSUME TypeOK, OneThread, ControlInv, Finish(Master)
  PROVE  ControlInv'
  <1>1. UNCHANGED config
    BY DEF Finish, countVars, regionVars, switchVars, outerVars, fixedVars
  <1> QED
    BY <1>1, ConfigFacts, OneThreadFacts, CoreFacts
    DEF TypeOK, LineType, ControlType, CoreType, ControlInv, Callers, Finish, countVars,
      regionVars, switchVars, outerVars, fixedVars, Idle, At

LEMMA BypassFullControl ==
  ASSUME TypeOK, OneThread, ControlInv, BypassFull(Master)
  PROVE  ControlInv'
  <1>1. UNCHANGED config
    BY DEF BypassFull, countVars, regionVars, windowVars, execVars, outerVars, fixedVars
  <1> QED
    BY <1>1, ConfigFacts, OneThreadFacts, CoreFacts
    DEF TypeOK, LineType, ControlType, CoreType, ControlInv, Callers, BypassFull,
      countVars, regionVars, windowVars, execVars, outerVars, fixedVars, Goto, Idle,
      LockOwn, At

(* The steps of the strategies choose a way on, and change no line. *)
StrategyStep ==
  \/ NoStrategy(Master) \/ HostOnly(Master) \/ NmpOnlySkip(Master) \/ NmpOnlyBypass(Master)
  \/ OffloadLine(Master) \/ LeaveRegion(Master) \/ ReadTag(Master) \/ ScanToHost(Master)
  \/ ScanEnd(Master)

linesUnchanged ==
  <<config, warmed_up, file_pos, execVars, deployed, pending_bypass, countVars>>

ToBypass ==
  Goto(Master, "bypass", "finish") /\ (more_reqs[Master] \/ McpOnly \/ EndsInRegion)
ToNext == \E r \in Callers : Goto(Master, "next", r)

LEMMA OffloadLineGoes ==
  ASSUME TypeOK, OneThread, ControlInv, RegionInv, OffloadLine(Master)
  PROVE  ToBypass
  <1>1. Goto(Master, "bypass", "finish") /\ ~IsTag(Held(Master))
        /\ Held(Master).region \in Opened
    BY DEF OffloadLine, InRegion, RegionInv
  <1>2. CASE more_reqs[Master]
    BY <1>1, <1>2 DEF ToBypass
  <1>3. CASE ~more_reqs[Master]
    <2>1. ctl.at # "idle"
      BY DEF OffloadLine, Strategy, At
    <2>2. Held(Master) = LastLine
      BY <1>3, <2>1 DEF ControlInv, Held, LastLine
    <2>3. EndsInRegion
      BY <1>1, <2>2 DEF EndsInRegion, Opened
    <2> QED
      BY <1>1, <2>3 DEF ToBypass
  <1> QED
    BY <1>2, <1>3

LEMMA StrategyGoes ==
  ASSUME TypeOK, OneThread, ControlInv, RegionInv, StrategyStep
  PROVE  /\ ctl.at \in Callers /\ UNCHANGED linesUnchanged
         /\ ToBypass \/ ToNext \/ Goto(Master, "finish", "none")
  <1>1. CASE NoStrategy(Master)
    BY <1>1 DEF NoStrategy, At, Callers, dataVars, fixedVars, switchVars, linesUnchanged
  <1>2. CASE HostOnly(Master)
    BY <1>2 DEF HostOnly, Strategy, At, Callers, dataVars, fixedVars, switchVars,
                linesUnchanged, ToNext
  <1>3. CASE NmpOnlySkip(Master)
    BY <1>3 DEF NmpOnlySkip, Strategy, At, Callers, dataVars, fixedVars, switchVars,
                linesUnchanged, ToNext
  <1>4. CASE NmpOnlyBypass(Master)
    BY <1>4 DEF NmpOnlyBypass, Strategy, At, Callers, outerVars, fixedVars,
                linesUnchanged, ToBypass, McpOnly
  <1>5. CASE OffloadLine(Master)
    BY <1>5, OffloadLineGoes DEF OffloadLine, Strategy, At, Callers, dataVars, fixedVars,
                switchVars, linesUnchanged
  <1>6. CASE LeaveRegion(Master)
    BY <1>6 DEF LeaveRegion, Strategy, At, Callers, outerVars, fixedVars, linesUnchanged
  <1>7. CASE ReadTag(Master)
    BY <1>7 DEF ReadTag, Strategy, At, Callers, outerVars, fixedVars, linesUnchanged,
                ToNext
  <1>8. CASE ScanToHost(Master)
    BY <1>8 DEF ScanToHost, At, Callers, outerVars, fixedVars, linesUnchanged
  <1>9. CASE ScanEnd(Master)
    BY <1>9 DEF ScanEnd, At, Callers, dataVars, fixedVars, switchVars, linesUnchanged
  <1> QED
    BY <1>1, <1>2, <1>3, <1>4, <1>5, <1>6, <1>7, <1>8, <1>9 DEF StrategyStep

LEMMA StrategyControl ==
  ASSUME TypeOK, OneThread, ControlInv, RegionInv, StrategyStep
  PROVE  ControlInv'
  <1>1. /\ ctl.at \in Callers /\ UNCHANGED linesUnchanged
        /\ ToBypass \/ ToNext \/ Goto(Master, "finish", "none")
    BY StrategyGoes
  <1>2. ~pending_bypass[Master] /\ ctl.at # "idle"
    BY <1>1 DEF ControlInv, Callers
  <1>3. /\ ctl'.core = Master /\ ctl'.at \in {"bypass", "next", "finish"}
        /\ ctl'.ret # "retry"
        /\ ctl'.at = "bypass" => more_reqs[Master] \/ McpOnly \/ EndsInRegion
    BY <1>1 DEF ToBypass, ToNext, Goto, Callers
  <1>4. UNCHANGED <<config, file_pos, trace_line, deployed, more_reqs, pending_bypass>>
    BY <1>1 DEF linesUnchanged, execVars
  <1> QED
    BY <1>2, <1>3, <1>4, ConfigFacts DEF ControlInv, Callers

LEMMA ReadOwnControl ==
  ASSUME TypeOK, OneThread, ControlInv, ReadOwn(Master)
  PROVE  ControlInv'
  <1>1. /\ UNCHANGED <<config, deployed, pending_bypass>>
        /\ ctl.at = "next" /\ ctl' = [core |-> Master, at |-> ctl.ret, ret |-> "none"]
    BY DEF ReadOwn, At, Goto, outerVars, fixedVars, switchVars
  <1>2. ctl.ret \in Callers /\ ~pending_bypass[Master]
    BY <1>1 DEF TypeOK, ControlType, ControlInv
  <1>3. /\ trace_line'[Master] = file_pos' /\ more_reqs'[Master] = NextMore
        /\ lock_core'[Master] = ~NextMore /\ (NextMore \/ file_pos' = Len(Trace))
    BY OneThreadFacts DEF ReadOwn, TypeOK, LineType, CoreType, NextPlace, NextMore
  <1>4. \A h \in HostCores \ {Master} : ~more_reqs'[h]
    BY OneThreadFacts, CoreFacts DEF ReadOwn, TypeOK, CoreType, ControlInv
  <1> QED
    BY <1>1, <1>2, <1>3, <1>4, ConfigFacts DEF ControlInv, Callers

LEMMA QueuedControl ==
  ASSUME TypeOK, OneThread, ControlInv, NEW u \in Mcp, At(Master, "bypass"),
         Queued(Master, u)
  PROVE  ControlInv'
  <1>1. /\ UNCHANGED <<config, file_pos, trace_line, deployed, more_reqs>>
        /\ pending_bypass'[Master] = FALSE
        /\ ctl.at = "bypass"
        /\ ctl' = [core |-> Master, at |-> IF ctl.ret = "retry" THEN "wait" ELSE "finish",
                   ret |-> "none"]
    BY OneThreadFacts DEF Queued, At, Goto, outerVars, fixedVars, TypeOK, SwitchType
  <1> QED
    BY <1>1, ConfigFacts DEF ControlInv, Callers

LEMMA BypassControl ==
  ASSUME TypeOK, OneThread, ControlInv, BypassToNlp(Master) \/ BypassToNmp(Master)
  PROVE  ControlInv'
  <1>1. \E u \in Mcp : At(Master, "bypass") /\ Queued(Master, u)
    BY TargetFacts, CoreFacts DEF BypassToNlp, BypassToNmp
  <1> QED
    BY <1>1, QueuedControl

LEMMA ReadTagRegion ==
  ASSUME TypeOK, OneThread, ControlInv, RegionInv, ReadTag(Master)
  PROVE  RegionInv'
  <1> DEFINE region == Held(Master).region
             opened == Opens(Master) /\ Chosen(region)
  <1>1. UNCHANGED <<config, warmed_up>> /\ Offloading
    BY DEF ReadTag, Strategy, RegionInv, At, outerVars, fixedVars
  <1>2. opened => region \in Opened
    <2>1. trace_line[Master] \in DOMAIN Trace
      BY OneThreadFacts DEF TypeOK, LineType
    <2> QED
      BY <2>1 DEF Opened, Opens, Held
  <1>3. /\ region_ids'[Master] =
             CASE opened -> region_ids[Master] \cup {region}
               [] Closes(Master) -> region_ids[Master] \ {region}
               [] OTHER -> region_ids[Master]
        /\ inside_region'[Master] =
             CASE opened -> TRUE
               [] Closes(Master) -> region_ids'[Master] # {}
               [] OTHER -> inside_region[Master]
    BY OneThreadFacts DEF ReadTag, TypeOK, RegionType, StillInside
  <1>4. opened => ~Closes(Master)
    BY DEF Opens, Closes
  <1>5. region_ids'[Master] \subseteq Opened /\ (inside_region'[Master] <=> region_ids'[Master] # {})
    <2>1. CASE opened
      BY <1>2, <1>3, <1>4, <2>1 DEF RegionInv
    <2>2. CASE Closes(Master)
      BY <1>3, <1>4, <2>2 DEF RegionInv
    <2>3. CASE ~opened /\ ~Closes(Master)
      BY <1>3, <2>3 DEF RegionInv
    <2> QED
      BY <2>1, <2>2, <2>3
  <1>6. Offloading' /\ (McpOnly' => warmed_up')
    BY <1>1, ConfigFacts DEF Offloading, RegionInv
  <1> QED
    BY <1>1, <1>5, <1>6, ConfigFacts DEF RegionInv

(* Every other step leaves the regions alone. *)
LEMMA RegionStable ==
  ASSUME RegionInv, UNCHANGED <<config, inside_region, region_ids>>,
         warmed_up => warmed_up',
         (ctl.at = "scan" \/ ctl.ret = "scan")' => ctl.at = "scan" \/ ctl.ret = "scan"
  PROVE  RegionInv'
  BY ConfigFacts DEF RegionInv, Offloading

(* What a step outside the master's tick leaves alone. *)
masterUnchanged ==
  <<config, file_pos, ctl, deployed, pending_bypass, inside_region, region_ids>>

LEMMA OutsideControl ==
  ASSUME ControlInv, RegionInv, UNCHANGED masterUnchanged, warmed_up => warmed_up',
         \A h \in HostCores : /\ trace_line'[h] = trace_line[h]
                              /\ more_reqs'[h] = more_reqs[h]
                              /\ lock_core'[h] = lock_core[h]
  PROVE  ControlInv' /\ RegionInv'
  <1>1. Master \in HostCores
    BY CoreFacts
  <1>2. RegionInv'
    BY RegionStable DEF masterUnchanged
  <1>3. ControlInv'
    BY <1>1, ConfigFacts DEF ControlInv, masterUnchanged
  <1> QED
    BY <1>2, <1>3

(* Another host core never has a line: its ticks do nothing. *)
LEMMA OtherHost ==
  ASSUME ControlInv, NEW c \in HostCores, c # Master, HostStep(c)
  PROVE  TickHeld(c) \/ ReceiveLoad(c)
  <1>1. ctl.core # c /\ ~MayProceed(c)
    BY DEF ControlInv, MayProceed
  <1>2. \A place : ~At(c, place)
    BY <1>1 DEF At
  <1>3. ~TickOverhead(c) /\ ~TickDispatch(c) /\ ~TickUnlocked(c)
    BY <1>1 DEF TickOverhead, TickDispatch, TickUnlocked
  <1>4. ~TryExecute(c)
    BY <1>2 DEF TryExecute, FetchRefused, Execute
  <1>5. ~ContinueTick(c)
    BY <1>2 DEF ContinueTick, Wait, SkipExecution, ReadOwn, ReadOther, ReadQueue, Finish,
      NoStrategy, Strategy, HostOnly, NmpOnlySkip, NmpOnlyBypass, OffloadLine,
      LeaveRegion, ReadTag, ScanToHost, ScanEnd, BypassFull, BypassToNlp, BypassToNmp
  <1> QED
    BY <1>3, <1>4, <1>5 DEF HostStep, StartTick

(* With one thread, no line is read for another, nor is the master's from  *)
(* its queue.                                                              *)
LEMMA OwnLine ==
  ASSUME TypeOK, OneThread
  PROVE  ~ReadOther(Master) /\ ~ReadQueue(Master)
  BY OneThreadFacts DEF ReadOther, ReadQueue

LEMMA HostControl ==
  ASSUME TypeOK, OneThread, ControlInv, RegionInv, NEW c \in HostCores,
         TickHeld(c) \/ ReceiveLoad(c)
  PROVE  ControlInv' /\ RegionInv'
  BY OutsideControl DEF TickHeld, ReceiveLoad, execVars, switchVars, regionVars,
     outerVars, fixedVars, masterUnchanged

LEMMA McpControl ==
  ASSUME TypeOK, OneThread, ControlInv, RegionInv, NEW u \in Mcp, McpStep(u)
  PROVE  ControlInv' /\ RegionInv'
  <1>1. \A h \in HostCores : h # u /\ h \in Cores
    BY CoreFacts
  <1>2. UNCHANGED <<masterUnchanged, warmed_up>>
    BY DEF McpStep, McpBegin, McpStall, McpComplete, mcpUnchanged, switchVars,
           regionVars, fixedVars, masterUnchanged
  <1>3. \A h \in HostCores : /\ trace_line'[h] = trace_line[h]
                             /\ more_reqs'[h] = more_reqs[h]
                             /\ lock_core'[h] = lock_core[h]
    BY <1>1 DEF McpStep, McpBegin, McpStall, McpComplete, Pop, execVars, TypeOK,
                LineType, CoreType
  <1> QED
    BY <1>2, <1>3, OutsideControl

LEMMA MasterRegion ==
  ASSUME TypeOK, OneThread, ControlInv, RegionInv, ~ReadTag(Master),
         StartTick(Master) \/ ContinueTick(Master) \/ TryExecute(Master)
  PROVE  RegionInv'
  <1>1. UNCHANGED <<config, warmed_up, inside_region, region_ids>>
    BY OwnLine DEF StartTick, ContinueTick, TryExecute, TickHeld, TickOverhead,
      TickDispatch, TickUnlocked, Wait, SkipExecution, FetchRefused, Execute, ReadOwn,
      Finish, NoStrategy, HostOnly, NmpOnlySkip, NmpOnlyBypass, OffloadLine,
      LeaveRegion, ScanToHost, ScanEnd, BypassFull, BypassToNlp, BypassToNmp, Queued,
      dataVars, outerVars, fixedVars, regionVars
  <1>2. (ctl.at = "scan" \/ ctl.ret = "scan")' => ctl.at = "scan" \/ ctl.ret = "scan"
    <2>1. CASE StartTick(Master) \/ TryExecute(Master)
      BY <2>1 DEF StartTick, TryExecute, TickHeld, TickOverhead,
        TickDispatch, TickUnlocked, FetchRefused, Execute, AfterGate, Goto, Idle
    <2>2. CASE ReadOwn(Master) \/ SkipExecution(Master) \/ Wait(Master) \/ Finish(Master)
      BY <2>2 DEF ReadOwn, SkipExecution, Wait, Finish, Goto, Idle
    <2>3. CASE NoStrategy(Master) \/ HostOnly(Master) \/ NmpOnlySkip(Master)
      BY <2>3 DEF NoStrategy, HostOnly, NmpOnlySkip, Goto
    <2>4. CASE NmpOnlyBypass(Master) \/ OffloadLine(Master) \/ LeaveRegion(Master)
               \/ ScanToHost(Master) \/ ScanEnd(Master)
      <3>1. Goto(Master, "bypass", "finish") \/ Goto(Master, "finish", "none")
        BY <2>4 DEF NmpOnlyBypass, OffloadLine, LeaveRegion, ScanToHost, ScanEnd
      <3> QED
        BY <3>1 DEF Goto
    <2>5. CASE BypassFull(Master)
      BY <2>5 DEF BypassFull, Goto, Idle
    <2>6. CASE BypassToNlp(Master) \/ BypassToNmp(Master)
      <3>1. \E u : Queued(Master, u)
        BY <2>6 DEF BypassToNlp, BypassToNmp
      <3>2. ctl'.at \in {"wait", "finish"} /\ ctl'.ret = "none"
        BY <3>1 DEF Queued, Goto
      <3> QED
        BY <3>2
    <2> QED
      BY <2>1, <2>2, <2>3, <2>4, <2>5, <2>6, OwnLine DEF ContinueTick
  <1> QED
    BY <1>1, <1>2, RegionStable

LEMMA MasterControl ==
  ASSUME TypeOK, OneThread, ControlInv, RegionInv,
         StartTick(Master) \/ ContinueTick(Master) \/ TryExecute(Master)
  PROVE  ControlInv' /\ RegionInv'
  <1>1. RegionInv'
    BY MasterRegion, ReadTagRegion
  <1>2. CASE StartTick(Master)
    BY <1>1, <1>2, TickHeldControl, TickOverheadControl, TickDispatchControl,
       TickUnlockedControl DEF StartTick
  <1>3. CASE TryExecute(Master)
    BY <1>1, <1>3, FetchRefusedControl, ExecuteControl DEF TryExecute
  <1>4. CASE ContinueTick(Master)
    <2>1. CASE StrategyStep
      BY <1>1, <2>1, StrategyControl
    <2> QED
      BY <1>1, <1>4, <2>1, OwnLine, WaitControl, SkipExecutionControl, ReadOwnControl,
         FinishControl, BypassFullControl, BypassControl DEF ContinueTick, StrategyStep
  <1> QED
    BY <1>2, <1>3, <1>4

LEMMA NextControl ==
  ASSUME TypeOK, OneThread, ControlInv, RegionInv, [Next]_vars
  PROVE  ControlInv' /\ RegionInv'
  <1>1. ASSUME NEW c \in HostCores, HostStep(c) PROVE ControlInv' /\ RegionInv'
    <2>1. CASE c = Master
      BY <1>1, <2>1, MasterControl, HostControl DEF HostStep
    <2>2. CASE c # Master
      BY <1>1, <2>2, OtherHost, HostControl
    <2> QED
      BY <2>1, <2>2
  <1>2. ASSUME NEW u \in Cores, ReceiveFetch(u) PROVE ControlInv' /\ RegionInv'
    BY <1>2, OutsideControl DEF ReceiveFetch, switchVars, regionVars, outerVars,
       fixedVars, masterUnchanged
  <1>3. CASE WarmedUp
    BY <1>3, OutsideControl DEF WarmedUp, execVars, switchVars, regionVars,
       masterUnchanged
  <1>4. CASE UNCHANGED vars
    BY <1>4, OutsideControl DEF vars, execVars, switchVars, regionVars, fixedVars,
       masterUnchanged
  <1> QED
    BY <1>1, <1>2, <1>3, <1>4, McpControl DEF Next

LEMMA InitControl ==
  ASSUME Init
  PROVE  ControlInv /\ RegionInv
  <1>1. Master \in HostCores /\ Master \in Cores /\ HostCores \subseteq Cores
    BY CoreFacts
  <1>2. config \in Scenarios
    BY DEF Init
  <1>3. McpOnly => warmed_up
    BY <1>2, ScenarioAssumption DEF Init, McpOnly
  <1>4. RegionInv
    BY <1>1, <1>3 DEF Init, RegionInv, Idle
  <1>5. ControlInv
    BY <1>1 DEF Init, ControlInv, Idle, Callers
  <1> QED
    BY <1>4, <1>5

----------------------------------------------------------------------------
(* Where the lines not yet performed are *)

(* The places of the lines that MCP core u has still to begin: 0 for the   *)
(* one in its hand, i for the i-th of its queue.                           *)
Spots(u) ==
  (IF more_reqs[u] /\ fresh[u] THEN {0} ELSE {}) \cup DOMAIN inst_queue[u]
LineAt(u, i) == IF i = 0 THEN trace_line[u] ELSE inst_queue[u][i]
Waits(p) == \E u \in Mcp : \E i \in Spots(u) : LineAt(u, i) = p

(* The master has a line that must be performed or bypassed yet. *)
NeedsNew ==
  /\ more_reqs[Master]
  /\ \/ ctl.at \in Callers \cup {"bypass"} \/ pending_bypass[Master]
     \/ ~lock_core[Master] /\ fresh[Master]

Distinct ==
  \A u, v \in Mcp : \A i \in Spots(u), j \in Spots(v) :
    LineAt(u, i) = LineAt(v, j) /\ LineAt(u, i) \in Safe => u = v /\ i = j

(* A line waits at one place at most, until it is begun, and the line that *)
(* the master has yet to handle waits nowhere.                             *)
OnceInv ==
  /\ Distinct
  /\ \A p \in DOMAIN Trace : Waits(p) => p <= file_pos
  /\ \A p \in DOMAIN Trace : p > file_pos => begun[p] = 0
  /\ \A p \in Safe : begun[p] <= 1 /\ (Waits(p) => begun[p] = 0)
  /\ NeedsNew /\ file_pos \in Safe => begun[file_pos] = 0 /\ ~Waits(file_pos)

LEMMA SpotFacts ==
  ASSUME TypeOK, NEW u \in Mcp
  PROVE  /\ u \in Cores /\ inst_queue[u] \in Seq(DOMAIN Trace)
         /\ \A i \in Spots(u) : i \in Nat /\ LineAt(u, i) \in DOMAIN Trace
         /\ \A i \in Spots(u) : i # 0 <=> i \in DOMAIN inst_queue[u]
  <1>1. u \in Cores /\ inst_queue[u] \in Seq(DOMAIN Trace) /\ trace_line[u] \in DOMAIN Trace
    BY CoreFacts DEF TypeOK, LineType
  <1>2. \A i \in DOMAIN inst_queue[u] : i \in Nat \ {0} /\ inst_queue[u][i] \in DOMAIN Trace
    BY <1>1
  <1> QED
    BY <1>1, <1>2 DEF Spots, LineAt

LEMMA TailFacts ==
  ASSUME NEW S, NEW q \in Seq(S), q # <<>>
  PROVE  /\ 1 \in DOMAIN q /\ Head(q) = q[1]
         /\ \A i \in DOMAIN Tail(q) :
              i \in Nat \ {0} /\ i + 1 \in DOMAIN q /\ Tail(q)[i] = q[i + 1]
  OBVIOUS

(* Lines go nowhere but forward: core u's places have moved by k[u]. *)
MovedBy(k) ==
  \A u \in Mcp : \A i \in Spots(u)' :
    i + k[u] \in Spots(u) /\ LineAt(u, i)' = LineAt(u, i + k[u])

LEMMA MovedLines ==
  ASSUME TypeOK, TypeOK', Distinct, UNCHANGED config,
         NEW k \in [Mcp -> {0, 1}], MovedBy(k)
  PROVE  Distinct' /\ \A p : Waits(p)' => Waits(p)
  <1>1. \A u \in Mcp : \A i \in Spots(u)' : i \in Nat
    <2>1. \A u \in Mcp : inst_queue'[u] \in Seq(DOMAIN Trace')
      BY CoreFacts DEF TypeOK, LineType
    <2>2. \A u \in Mcp : DOMAIN inst_queue'[u] \subseteq Nat
      BY <2>1
    <2> QED
      BY <2>2 DEF Spots
  <1>2. Distinct'
    <2> SUFFICES ASSUME NEW u \in Mcp, NEW v \in Mcp,
                        NEW i \in Spots(u)', NEW j \in Spots(v)',
                        LineAt(u, i)' = LineAt(v, j)', LineAt(u, i)' \in Safe'
                 PROVE  u = v /\ i = j
      BY DEF Distinct
    <2>1. /\ i + k[u] \in Spots(u) /\ LineAt(u, i)' = LineAt(u, i + k[u])
          /\ j + k[v] \in Spots(v) /\ LineAt(v, j)' = LineAt(v, j + k[v])
      BY DEF MovedBy
    <2>2. LineAt(u, i + k[u]) = LineAt(v, j + k[v]) /\ LineAt(u, i + k[u]) \in Safe
      BY <2>1, ConfigFacts
    <2>3. u = v /\ i + k[u] = j + k[v]
      BY <2>1, <2>2 DEF Distinct
    <2>4. i \in Nat /\ j \in Nat /\ k[u] \in {0, 1}
      BY <1>1
    <2> QED
      BY <2>3, <2>4
  <1>3. ASSUME NEW p, Waits(p)' PROVE Waits(p)
    <2>1. PICK u \in Mcp : \E i \in Spots(u)' : LineAt(u, i)' = p
      BY <1>3 DEF Waits
    <2>2. PICK i \in Spots(u)' : LineAt(u, i)' = p
      BY <2>1
    <2>3. i + k[u] \in Spots(u) /\ LineAt(u, i + k[u]) = p
      BY <2>2 DEF MovedBy
    <2> QED
      BY <2>3 DEF Waits
  <1> QED
    BY <1>2, <1>3

(* A step that only moves waiting lines. *)
LEMMA MovedOnce ==
  ASSUME TypeOK, TypeOK', OnceInv, UNCHANGED <<config, file_pos, begun>>,
         NEW k \in [Mcp -> {0, 1}], MovedBy(k), NeedsNew' => NeedsNew
  PROVE  OnceInv'
  <1>1. Distinct' /\ (\A p : Waits(p)' => Waits(p))
    BY MovedLines DEF OnceInv
  <1>2. Trace' = Trace /\ Safe' = Safe
    BY ConfigFacts
  <1> QED
    BY <1>1, <1>2 DEF OnceInv

LEMMA StayMoved ==
  ASSUME TypeOK, UNCHANGED <<trace_line, inst_queue>>,
         \A u \in Mcp : (more_reqs[u] /\ fresh[u])' => more_reqs[u] /\ fresh[u]
  PROVE  MovedBy([u \in Mcp |-> 0])
  <1> SUFFICES ASSUME NEW u \in Mcp, NEW i \in Spots(u)'
               PROVE  i + 0 \in Spots(u) /\ LineAt(u, i)' = LineAt(u, i + 0)
    BY DEF MovedBy
  <1>1. i \in Spots(u)
    BY DEF Spots
  <1>2. i \in Nat
    BY <1>1, SpotFacts
  <1>3. i + 0 = i
    BY <1>2
  <1> QED
    BY <1>1, <1>3 DEF LineAt

LEMMA StayOnce ==
  ASSUME TypeOK, TypeOK', OnceInv,
         UNCHANGED <<config, file_pos, begun, trace_line, inst_queue>>,
         \A u \in Mcp : (more_reqs[u] /\ fresh[u])' => more_reqs[u] /\ fresh[u],
         NeedsNew' => NeedsNew
  PROVE  OnceInv'
  <1>1. MovedBy([u \in Mcp |-> 0])
    BY StayMoved
  <1>2. [u \in Mcp |-> 0] \in [Mcp -> {0, 1}]
    OBVIOUS
  <1> QED
    BY <1>1, <1>2, MovedOnce

(* The lines of woken cores move up by one place. *)
LEMMA GetFirstMoved ==
  ASSUME TypeOK, NEW S \in SUBSET Mcp, GetFirst(S, inst_queue)
  PROVE  \E k \in [Mcp -> {0, 1}] : MovedBy(k)
  <1> DEFINE Woken == {u \in S : ~more_reqs[u] /\ inst_queue[u] # <<>>}
             k == [u \in Mcp |-> IF u \in Woken THEN 1 ELSE 0]
  <1>1. k \in [Mcp -> {0, 1}]
    OBVIOUS
  <1>2. ASSUME NEW u \in Mcp, NEW i \in Spots(u)'
        PROVE  i + k[u] \in Spots(u) /\ LineAt(u, i)' = LineAt(u, i + k[u])
    <2>1. u \in Cores /\ inst_queue[u] \in Seq(DOMAIN Trace)
      BY SpotFacts
    <2>2. CASE u \in Woken
      <3>1. /\ trace_line'[u] = Head(inst_queue[u]) /\ inst_queue'[u] = Tail(inst_queue[u])
            /\ inst_queue[u] # <<>>
        BY <2>1, <2>2 DEF GetFirst, NextQueued
      <3>2. k[u] = 1
        BY <2>2
      <3>3. CASE i = 0
        <4>1. i + k[u] = 1 /\ 1 \in DOMAIN inst_queue[u] /\ Head(inst_queue[u]) = inst_queue[u][1]
          BY <3>1, <3>2, <3>3, <2>1, TailFacts
        <4> QED
          BY <3>1, <3>3, <4>1 DEF Spots, LineAt
      <3>4. CASE i # 0
        <4>1. i \in DOMAIN Tail(inst_queue[u])
          BY <3>1, <3>4 DEF Spots
        <4>2. i \in Nat \ {0} /\ i + 1 \in DOMAIN inst_queue[u]
              /\ Tail(inst_queue[u])[i] = inst_queue[u][i + 1]
          BY <3>1, <2>1, <4>1, TailFacts
        <4>3. i + 1 # 0 /\ i # 0
          BY <4>2
        <4> QED
          BY <3>1, <3>2, <4>2, <4>3 DEF Spots, LineAt
      <3> QED
        BY <3>3, <3>4
    <2>3. CASE u \notin Woken
      <3>1. /\ trace_line'[u] = trace_line[u] /\ inst_queue'[u] = inst_queue[u]
            /\ more_reqs'[u] = more_reqs[u] /\ fresh'[u] = fresh[u]
        BY <2>1, <2>3 DEF GetFirst, TypeOK, CoreType
      <3>2. i \in Spots(u) /\ k[u] = 0
        BY <2>3, <3>1 DEF Spots
      <3>3. i \in Nat
        BY <3>2, SpotFacts
      <3>4. i + k[u] = i
        BY <3>2, <3>3
      <3> QED
        BY <3>1, <3>2, <3>4 DEF LineAt
    <2> QED
      BY <2>2, <2>3
  <1>3. MovedBy(k)
    BY <1>2 DEF MovedBy
  <1> QED
    BY <1>1, <1>3

LEMMA SafeFacts ==
  ASSUME TypeOK
  PROVE  Safe \subseteq DOMAIN Trace
  <1>1. Len(Trace) \in Nat /\ DOMAIN Trace = 1 .. Len(Trace)
    BY TraceFacts DEF TypeOK
  <1> QED
    BY <1>1 DEF Safe

(* An MCP core begins the line in its hand, which then waits no more. *)
LEMMA BegunOnce ==
  ASSUME TypeOK, TypeOK', OnceInv, UNCHANGED <<config, file_pos>>,
         NEW u \in Mcp, 0 \in Spots(u), begun' = [begun EXCEPT ![trace_line[u]] = @ + 1],
         NEW k \in [Mcp -> {0, 1}], MovedBy(k), \A i \in Spots(u)' : i + k[u] # 0,
         NeedsNew' => NeedsNew
  PROVE  OnceInv'
  <1>0. PICK p \in DOMAIN Trace : p = trace_line[u]
    BY CoreFacts DEF TypeOK, LineType
  <1>1. Distinct' /\ (\A q : Waits(q)' => Waits(q))
    BY MovedLines DEF OnceInv
  <1>2. Trace' = Trace /\ Safe' = Safe
    BY ConfigFacts
  <1>3. p = LineAt(u, 0) /\ Waits(p)
    BY <1>0 DEF LineAt, Waits
  <1>4. begun \in [DOMAIN Trace -> Nat] /\ Safe \subseteq DOMAIN Trace
    BY SafeFacts DEF TypeOK, LineType
  <1>5. p \in Safe => ~Waits(p)'
    <2> SUFFICES ASSUME p \in Safe, NEW v \in Mcp, NEW i \in Spots(v)', LineAt(v, i)' = p
                 PROVE  FALSE
      BY DEF Waits
    <2>1. i + k[v] \in Spots(v) /\ LineAt(v, i + k[v]) = p
      BY DEF MovedBy
    <2>2. v = u /\ i + k[v] = 0
      BY <1>3, <2>1 DEF OnceInv, Distinct
    <2> QED
      BY <2>2
  <1>6. \A q \in DOMAIN Trace : begun'[q] = IF q = p THEN begun[p] + 1 ELSE begun[q]
    BY <1>0, <1>4
  <1>7. p <= file_pos /\ (p \in Safe => begun[p] = 0)
    BY <1>3, <1>4 DEF OnceInv
  <1>8. \A q \in Safe : begun'[q] <= 1 /\ (Waits(q)' => begun'[q] = 0)
    <2> SUFFICES ASSUME NEW q \in Safe
                 PROVE  begun'[q] <= 1 /\ (Waits(q)' => begun'[q] = 0)
      OBVIOUS
    <2>1. CASE q = p
      BY <1>0, <1>4, <1>5, <1>6, <1>7, <2>1
    <2>2. CASE q # p
      BY <1>1, <1>4, <1>6, <2>2 DEF OnceInv
    <2> QED
      BY <2>1, <2>2
  <1>9. \A q \in DOMAIN Trace : q > file_pos => begun'[q] = 0
    <2> SUFFICES ASSUME NEW q \in DOMAIN Trace, q > file_pos PROVE begun'[q] = 0
      OBVIOUS
    <2>1. file_pos \in Nat /\ DOMAIN Trace \subseteq Nat
      BY HostTypes
    <2>2. q # p
      BY <1>7, <2>1
    <2> QED
      BY <1>6, <2>2 DEF OnceInv
  <1>10. NeedsNew' /\ file_pos \in Safe => begun'[file_pos] = 0 /\ ~Waits(file_pos)'
    <2> SUFFICES ASSUME NeedsNew', file_pos \in Safe
                 PROVE  begun'[file_pos] = 0 /\ ~Waits(file_pos)'
      OBVIOUS
    <2>1. begun[file_pos] = 0 /\ ~Waits(file_pos)
      BY DEF OnceInv
    <2>2. file_pos # p
      BY <1>3, <2>1
    <2> QED
      BY <1>1, <1>4, <1>6, <2>1, <2>2
  <1> QED
    BY <1>1, <1>2, <1>8, <1>9, <1>10 DEF OnceInv

LEMMA PopMoved ==
  ASSUME TypeOK, NEW u \in Mcp, Pop(u),
         \A v \in Mcp \ {u} : more_reqs'[v] = more_reqs[v] /\ fresh'[v] = fresh[v]
  PROVE  \E k \in [Mcp -> {0, 1}] : MovedBy(k) /\ \A i \in Spots(u)' : i + k[u] # 0
  <1> DEFINE k == [v \in Mcp |-> IF v = u /\ inst_queue[u] # <<>> THEN 1 ELSE 0]
  <1>1. k \in [Mcp -> {0, 1}]
    OBVIOUS
  <1>2. u \in Cores /\ inst_queue[u] \in Seq(DOMAIN Trace)
    BY SpotFacts
  <1>3. ASSUME NEW v \in Mcp, v # u, NEW i \in Spots(v)'
        PROVE  i + k[v] \in Spots(v) /\ LineAt(v, i)' = LineAt(v, i + k[v])
    <2>1. v \in Cores /\ k[v] = 0
      BY <1>3, CoreFacts
    <2>2. trace_line'[v] = trace_line[v] /\ inst_queue'[v] = inst_queue[v]
      BY <1>2, <1>3, <2>1 DEF Pop, TypeOK, LineType
    <2>3. i \in Spots(v)
      BY <1>3, <2>2 DEF Spots
    <2>4. i + k[v] = i
      BY <2>1, <2>3, SpotFacts
    <2> QED
      BY <2>2, <2>3, <2>4 DEF LineAt
  <1>4. ASSUME NEW i \in Spots(u)'
        PROVE  i + k[u] \in Spots(u) /\ LineAt(u, i)' = LineAt(u, i + k[u]) /\ i + k[u] # 0
    <2>1. CASE inst_queue[u] = <<>>
      <3>1. ~more_reqs'[u] /\ inst_queue'[u] = inst_queue[u]
        BY <1>2, <2>1 DEF Pop, TypeOK, CoreType
      <3>2. i \in DOMAIN inst_queue[u]
        BY <3>1 DEF Spots
      <3> QED
        BY <2>1, <3>2
    <2>2. CASE inst_queue[u] # <<>>
      <3>1. trace_line'[u] = Head(inst_queue[u]) /\ inst_queue'[u] = Tail(inst_queue[u])
        BY <1>2, <2>2 DEF Pop, NextQueued, TypeOK, LineType
      <3>2. k[u] = 1
        BY <2>2
      <3>3. CASE i = 0
        <4>1. i + k[u] = 1 /\ 1 \in DOMAIN inst_queue[u] /\ Head(inst_queue[u]) = inst_queue[u][1]
          BY <2>2, <3>2, <3>3, <1>2, TailFacts
        <4> QED
          BY <3>1, <3>3, <4>1 DEF Spots, LineAt
      <3>4. CASE i # 0
        <4>1. i \in DOMAIN Tail(inst_queue[u])
          BY <3>1, <3>4 DEF Spots
        <4>2. i \in Nat \ {0} /\ i + 1 \in DOMAIN inst_queue[u]
              /\ Tail(inst_queue[u])[i] = inst_queue[u][i + 1]
          BY <2>2, <1>2, <4>1, TailFacts
        <4>3. i + 1 # 0 /\ i # 0
          BY <4>2
        <4> QED
          BY <3>1, <3>2, <4>2, <4>3 DEF Spots, LineAt
      <3> QED
        BY <3>3, <3>4
    <2> QED
      BY <2>1, <2>2
  <1>5. MovedBy(k) /\ \A i \in Spots(u)' : i + k[u] # 0
    BY <1>3, <1>4 DEF MovedBy
  <1> QED
    BY <1>1, <1>5

LEMMA McpNeeds ==
  ASSUME TypeOK, NEW u \in Mcp, McpStep(u)
  PROVE  NeedsNew' => NeedsNew
  <1>1. UNCHANGED <<ctl, pending_bypass>> /\ Master # u /\ Master \in Cores
    BY CoreFacts DEF McpStep, McpBegin, McpStall, McpComplete, mcpUnchanged, switchVars
  <1>2. /\ more_reqs'[Master] = more_reqs[Master] /\ fresh'[Master] = fresh[Master]
        /\ lock_core'[Master] = lock_core[Master]
    BY <1>1 DEF McpStep, McpBegin, McpStall, McpComplete, Begin, Pop, execVars, TypeOK,
                CoreType
  <1> QED
    BY <1>1, <1>2 DEF NeedsNew

LEMMA McpOnce ==
  ASSUME TypeOK, TypeOK', OnceInv, NEW u \in Mcp, McpStep(u)
  PROVE  OnceInv'
  <1>1. NeedsNew' => NeedsNew
    BY McpNeeds
  <1>2. UNCHANGED <<config, file_pos>> /\ u \in Cores /\ more_reqs[u]
    BY CoreFacts DEF McpStep, McpBegin, McpStall, McpComplete, McpTick, mcpUnchanged, fixedVars
  <1>3. CASE McpStall(u)
    BY <1>1, <1>2, <1>3, StayOnce DEF McpStall, execVars, countVars
  <1>4. CASE McpBegin(u)
    <2> DEFINE k == [v \in Mcp |-> 0]
    <2>1. 0 \in Spots(u) /\ begun' = [begun EXCEPT ![trace_line[u]] = @ + 1]
      BY <1>2, <1>4 DEF McpBegin, Begin, Spots
    <2>2. \A v \in Mcp : fresh'[v] = IF v = u THEN FALSE ELSE fresh[v]
      BY <1>4, CoreFacts DEF McpBegin, Begin, TypeOK, CoreType
    <2>3. MovedBy(k)
      BY <1>4, <2>2, StayMoved DEF McpBegin
    <2>4. \A i \in Spots(u)' : i + k[u] # 0
      <3>1. \A i \in Spots(u)' : i \in DOMAIN inst_queue[u]
        BY <1>4, <2>2 DEF Spots, McpBegin
      <3>2. \A i \in DOMAIN inst_queue[u] : i \in Nat \ {0}
        BY SpotFacts
      <3> QED
        BY <3>1, <3>2
    <2>5. k \in [Mcp -> {0, 1}]
      OBVIOUS
    <2> QED
      BY <1>1, <1>2, <2>1, <2>3, <2>4, <2>5, BegunOnce
  <1>5. CASE McpComplete(u)
    <2>1. \A v \in Mcp \ {u} : more_reqs'[v] = more_reqs[v] /\ fresh'[v] = fresh[v]
      BY <1>5, CoreFacts DEF McpComplete, Pop, TypeOK, CoreType
    <2>2. PICK k \in [Mcp -> {0, 1}] : MovedBy(k) /\ \A i \in Spots(u)' : i + k[u] # 0
      BY <1>5, <2>1, PopMoved DEF McpComplete
    <2>3. CASE fresh[u]
      <3>1. 0 \in Spots(u) /\ begun' = [begun EXCEPT ![trace_line[u]] = @ + 1]
        BY <1>2, <1>5, <2>3 DEF McpComplete, Spots
      <3> QED
        BY <1>1, <1>2, <2>2, <3>1, BegunOnce
    <2>4. CASE ~fresh[u]
      BY <1>1, <1>2, <1>5, <2>2, <2>4, MovedOnce DEF McpComplete, countVars
    <2> QED
      BY <2>3, <2>4
  <1> QED
    BY <1>3, <1>4, <1>5 DEF McpStep

(* The line to be bypassed is new, or the one that may be bypassed twice. *)
LEMMA BypassNew ==
  ASSUME TypeOK, ControlInv, OnceInv, ctl.at = "bypass", file_pos \in Safe
  PROVE  begun[file_pos] = 0 /\ ~Waits(file_pos)
  <1>1. CASE more_reqs[Master]
    BY <1>1 DEF OnceInv, NeedsNew
  <1>2. CASE ~more_reqs[Master]
    <2>1. file_pos = Len(Trace) /\ (McpOnly \/ EndsInRegion) /\ Len(Trace) \in Nat
      BY <1>2, TraceFacts DEF ControlInv, TypeOK
    <2> QED
      BY <2>1 DEF Safe
  <1> QED
    BY <1>1, <1>2

LEMMA QueuedSpots ==
  ASSUME TypeOK, ControlInv, NEW u \in Mcp, Queued(Master, u)
  PROVE  \E n :
           /\ n \notin Spots(u) /\ Spots(u)' = Spots(u) \cup {n}
           /\ LineAt(u, n)' = file_pos
           /\ \A i \in Spots(u) : LineAt(u, i)' = LineAt(u, i)
           /\ \A v \in Mcp \ {u} : /\ Spots(v)' = Spots(v)
                                   /\ \A i : LineAt(v, i)' = LineAt(v, i)
  <1> DEFINE q == inst_queue[u]
  <1>0. PICK n : n = Len(q) + 1
    OBVIOUS
  <1>1. q \in Seq(DOMAIN Trace) /\ u \in Cores
    BY SpotFacts
  <1>2. /\ UNCHANGED <<trace_line, more_reqs, fresh>>
        /\ inst_queue'[u] = Append(q, file_pos)
        /\ \A v \in Mcp \ {u} : inst_queue'[v] = inst_queue[v]
    BY <1>1, CoreFacts DEF Queued, Enqueued, ControlInv, TypeOK, LineType
  <1>3. /\ DOMAIN Append(q, file_pos) = DOMAIN q \cup {n}
        /\ n \notin DOMAIN q /\ n # 0 /\ 0 \notin DOMAIN q
        /\ Append(q, file_pos)[n] = file_pos
        /\ \A i \in DOMAIN q : Append(q, file_pos)[i] = q[i]
    BY <1>0, <1>1
  <1>4. n \notin Spots(u) /\ Spots(u)' = Spots(u) \cup {n}
    BY <1>2, <1>3 DEF Spots
  <1>5. LineAt(u, n)' = file_pos /\ \A i \in Spots(u) : LineAt(u, i)' = LineAt(u, i)
    BY <1>2, <1>3 DEF LineAt, Spots
  <1>6. \A v \in Mcp \ {u} : Spots(v)' = Spots(v) /\ \A i : LineAt(v, i)' = LineAt(v, i)
    BY <1>2 DEF LineAt, Spots
  <1> QED
    BY <1>4, <1>5, <1>6

(* A bypassed line waits at one place more, as no other line does. *)
LEMMA QueuedOnce ==
  ASSUME TypeOK, TypeOK', OneThread, ControlInv, OnceInv, NEW u \in Mcp,
         At(Master, "bypass"), Queued(Master, u), lock_core'[Master] = TRUE
  PROVE  OnceInv'
  <1>1. UNCHANGED <<config, file_pos, begun>> /\ ~NeedsNew'
    <2>1. /\ UNCHANGED <<config, file_pos, begun>> /\ ~pending_bypass'[Master]
          /\ ctl'.at \in {"wait", "finish"}
      BY OneThreadFacts DEF Queued, Goto, outerVars, fixedVars, countVars, TypeOK,
        SwitchType
    <2> QED
      BY <2>1 DEF NeedsNew, Callers
  <1>2. PICK n : /\ n \notin Spots(u) /\ Spots(u)' = Spots(u) \cup {n}
                 /\ LineAt(u, n)' = file_pos
                 /\ \A i \in Spots(u) : LineAt(u, i)' = LineAt(u, i)
                 /\ \A v \in Mcp \ {u} : /\ Spots(v)' = Spots(v)
                                         /\ \A i : LineAt(v, i)' = LineAt(v, i)
    BY QueuedSpots
  <1>3. Trace' = Trace /\ Safe' = Safe
    BY <1>1, ConfigFacts
  <1>4. file_pos \in Safe => begun[file_pos] = 0 /\ ~Waits(file_pos)
    BY BypassNew DEF At
  <1>5. \A v \in Mcp : \A i \in Spots(v)' :
          \/ v = u /\ i = n /\ LineAt(v, i)' = file_pos
          \/ i \in Spots(v) /\ LineAt(v, i)' = LineAt(v, i)
    BY <1>2
  <1>6. Distinct'
    <2> SUFFICES ASSUME NEW v \in Mcp, NEW w \in Mcp,
                        NEW i \in Spots(v)', NEW j \in Spots(w)',
                        LineAt(v, i)' = LineAt(w, j)', LineAt(v, i)' \in Safe
                 PROVE  v = w /\ i = j
      BY <1>3 DEF Distinct
    <2>1. CASE i \in Spots(v) /\ LineAt(v, i)' = LineAt(v, i)
               /\ j \in Spots(w) /\ LineAt(w, j)' = LineAt(w, j)
      <3>1. LineAt(v, i) = LineAt(w, j) /\ LineAt(v, i) \in Safe
        BY <2>1
      <3>2. Distinct
        BY DEF OnceInv
      <3> QED
        BY <2>1, <3>1, <3>2 DEF Distinct
    <2>2. CASE v = u /\ i = n /\ LineAt(v, i)' = file_pos
               /\ j \in Spots(w) /\ LineAt(w, j)' = LineAt(w, j)
      BY <1>4, <2>2 DEF Waits
    <2>3. CASE w = u /\ j = n /\ LineAt(w, j)' = file_pos
               /\ i \in Spots(v) /\ LineAt(v, i)' = LineAt(v, i)
      BY <1>4, <2>3 DEF Waits
    <2> QED
      BY <1>5, <2>1, <2>2, <2>3
  <1>7. \A p : Waits(p)' => p = file_pos \/ Waits(p)
    BY <1>5 DEF Waits
  <1>8. file_pos \in Nat
    BY TraceFacts DEF TypeOK, LineType
  <1> QED
    BY <1>1, <1>3, <1>4, <1>6, <1>7, <1>8 DEF OnceInv

LEMMA BypassOnce ==
  ASSUME TypeOK, TypeOK', OneThread, ControlInv, OnceInv,
         BypassToNlp(Master) \/ BypassToNmp(Master)
  PROVE  OnceInv'
  <1>1. lock_core'[Master] = TRUE
    BY OneThreadFacts, CoreFacts DEF BypassToNlp, BypassToNmp, LockOwn, ControlInv
  <1>2. \E u \in Mcp : At(Master, "bypass") /\ Queued(Master, u)
    BY TargetFacts, CoreFacts DEF BypassToNlp, BypassToNmp
  <1> QED
    BY <1>1, <1>2, QueuedOnce

(* The master performs its line. *)
LEMMA ExecuteOnce ==
  ASSUME TypeOK, TypeOK', OneThread, ControlInv, OnceInv, NEW complete \in BOOLEAN,
         Execute(Master, complete)
  PROVE  OnceInv'
  <1>1. /\ UNCHANGED <<config, file_pos, trace_line, more_reqs, inst_queue,
                       pending_bypass, lock_core>>
        /\ ctl.at = "execute" /\ ~lock_core[Master]
    BY DEF Execute, At, outerVars, fixedVars, switchVars
  <1>2. more_reqs[Master] /\ ~pending_bypass[Master] /\ trace_line[Master] = file_pos
    BY <1>1 DEF ControlInv
  <1>3. \A u \in Mcp : fresh'[u] = fresh[u]
    BY CoreFacts DEF Execute, Begin, TypeOK, CoreType
  <1>4. ~fresh'[Master] /\ ctl'.at \in {"idle", "next"}
    <2>1. ~fresh'[Master]
      BY OneThreadFacts DEF Execute, Begin, TypeOK, CoreType
    <2>2. ctl' = Idle \/ Goto(Master, "next", "decide")
      BY DEF Execute
    <2> QED
      BY <2>1, <2>2 DEF Goto, Idle
  <1>5. ~NeedsNew'
    BY <1>1, <1>2, <1>4 DEF NeedsNew, Callers
  <1>6. CASE ~fresh[Master]
    <2>1. UNCHANGED begun
      BY <1>6 DEF Execute, countVars
    <2> QED
      BY <1>1, <1>3, <1>5, <2>1, StayOnce
  <1>7. CASE fresh[Master]
    <2>1. begun' = [begun EXCEPT ![file_pos] = @ + 1]
      BY <1>2, <1>7 DEF Execute, Begin
    <2>2. file_pos \in Safe => begun[file_pos] = 0 /\ ~Waits(file_pos)
      BY <1>1, <1>2, <1>7 DEF OnceInv, NeedsNew
    <2>3. Distinct' /\ \A p : Waits(p)' => Waits(p)
      <3>1. MovedBy([u \in Mcp |-> 0])
        BY <1>1, <1>3, StayMoved
      <3>2. [u \in Mcp |-> 0] \in [Mcp -> {0, 1}]
        OBVIOUS
      <3> QED
        BY <1>1, <3>1, <3>2, MovedLines DEF OnceInv
    <2>4. Trace' = Trace /\ Safe' = Safe
      BY <1>1, ConfigFacts
    <2>5. begun \in [DOMAIN Trace -> Nat] /\ Safe \subseteq DOMAIN Trace
          /\ file_pos \in DOMAIN Trace /\ file_pos \in Nat
      BY SafeFacts, TraceFacts DEF TypeOK, LineType
    <2>6. \A p \in DOMAIN Trace : begun'[p] = IF p = file_pos THEN begun[p] + 1 ELSE begun[p]
      BY <2>1, <2>5
    <2>7. \A p \in Safe : begun'[p] <= 1 /\ (Waits(p)' => begun'[p] = 0)
      <3> SUFFICES ASSUME NEW p \in Safe
                   PROVE  begun'[p] <= 1 /\ (Waits(p)' => begun'[p] = 0)
        OBVIOUS
      <3>1. CASE p = file_pos
        BY <2>2, <2>3, <2>5, <2>6, <3>1
      <3>2. CASE p # file_pos
        BY <2>3, <2>5, <2>6, <3>2 DEF OnceInv
      <3> QED
        BY <3>1, <3>2
    <2>8. \A p \in DOMAIN Trace : p > file_pos => begun'[p] = 0
      BY <2>5, <2>6 DEF OnceInv
    <2> QED
      BY <1>1, <1>5, <2>3, <2>4, <2>7, <2>8 DEF OnceInv
  <1> QED
    BY <1>6, <1>7

(* The line read next is beyond all that waits or was begun. *)
LEMMA ReadOwnOnce ==
  ASSUME TypeOK, TypeOK', OneThread, OnceInv, ReadOwn(Master)
  PROVE  OnceInv'
  <1>1. /\ UNCHANGED <<config, inst_queue, begun>> /\ file_pos' = NextPlace
        /\ more_reqs'[Master] = NextMore
    BY OneThreadFacts DEF ReadOwn, outerVars, fixedVars, countVars, TypeOK, CoreType
  <1>2. \A u \in Mcp : /\ trace_line'[u] = trace_line[u] /\ fresh'[u] = fresh[u]
                       /\ more_reqs'[u] = more_reqs[u]
    BY CoreFacts, OneThreadFacts DEF ReadOwn, TypeOK, LineType, CoreType
  <1>3. \A u \in Mcp : Spots(u)' = Spots(u) /\ \A i : LineAt(u, i)' = LineAt(u, i)
    BY <1>1, <1>2 DEF Spots, LineAt
  <1>4. Trace' = Trace /\ Safe' = Safe
    BY <1>1, ConfigFacts
  <1>5. Distinct' /\ \A p : Waits(p)' => Waits(p)
    BY <1>3, <1>4 DEF OnceInv, Distinct, Waits
  <1>6. /\ file_pos \in Nat /\ file_pos' \in DOMAIN Trace /\ file_pos' >= file_pos
        /\ DOMAIN Trace \subseteq Nat
        /\ NextMore => file_pos' > file_pos
    BY <1>1, OneThreadFacts DEF NextPlace, NextMore
  <1>7. \A p \in DOMAIN Trace : (Waits(p)' => p <= file_pos') /\ (p > file_pos' => begun'[p] = 0)
    BY <1>1, <1>5, <1>6 DEF OnceInv
  <1>8. \A p \in Safe : begun'[p] <= 1 /\ (Waits(p)' => begun'[p] = 0)
    BY <1>1, <1>5 DEF OnceInv
  <1>9. ASSUME NEW p, p = file_pos', NeedsNew', p \in Safe
        PROVE  begun'[p] = 0 /\ ~Waits(p)'
    <2>1. NextMore
      BY <1>1, <1>9 DEF NeedsNew
    <2>2. p > file_pos /\ p \in DOMAIN Trace
      BY <1>6, <1>9, <2>1
    <2>3. begun[p] = 0 /\ ~Waits(p)
      BY <2>2, <1>6 DEF OnceInv
    <2> QED
      BY <1>1, <1>5, <2>3
  <1>10. ASSUME NeedsNew', file_pos' \in Safe
         PROVE  begun'[file_pos'] = 0 /\ ~Waits(file_pos)'
    <2>1. PICK p : p = file_pos'
      OBVIOUS
    <2>2. begun'[p] = 0 /\ ~Waits(p)'
      BY <1>9, <1>10, <2>1
    <2> QED
      BY <2>1, <2>2 DEF Waits
  <1> QED
    BY <1>4, <1>5, <1>7, <1>8, <1>10 DEF OnceInv

LEMMA StrategyOnce ==
  ASSUME TypeOK, TypeOK', OneThread, ControlInv, RegionInv, OnceInv, StrategyStep
  PROVE  OnceInv'
  <1>1. ctl.at \in Callers /\ UNCHANGED linesUnchanged
    BY StrategyGoes
  <1>2. NeedsNew' => NeedsNew
    BY <1>1 DEF NeedsNew, linesUnchanged, execVars
  <1> QED
    BY <1>1, <1>2, StayOnce DEF linesUnchanged, execVars, countVars

LEMMA StartOnce ==
  ASSUME TypeOK, TypeOK', OneThread, ControlInv, OnceInv, StartTick(Master)
  PROVE  OnceInv'
  <1>1. NeedsNew' => NeedsNew
    <2>1. UNCHANGED pending_bypass /\ (ctl' = ctl \/ AfterGate(Master))
      BY DEF StartTick, TickHeld, TickOverhead, TickDispatch, TickUnlocked, switchVars
    <2>2. ctl'.at \in Callers \cup {"bypass"} => ctl' = ctl \/ pending_bypass[Master]
      BY <2>1 DEF AfterGate, Goto, Callers
    <2>3. /\ more_reqs'[Master] = more_reqs[Master] /\ fresh'[Master] = fresh[Master]
          /\ lock_core'[Master] = lock_core[Master]
      BY OneThreadFacts, CoreFacts DEF StartTick, TickHeld, TickOverhead, TickDispatch,
        TickUnlocked, GetFirst, execVars, TypeOK, CoreType
    <2> QED
      BY <2>1, <2>2, <2>3 DEF NeedsNew
  <1>2. UNCHANGED <<config, file_pos, begun>>
    BY DEF StartTick, TickHeld, TickOverhead, TickDispatch, TickUnlocked, fixedVars,
       countVars
  <1>3. CASE TickDispatch(Master)
    <2>1. \E S \in SUBSET Mcp : GetFirst(S, inst_queue)
      BY <1>3, CoreFacts DEF TickDispatch
    <2>2. \E k \in [Mcp -> {0, 1}] : MovedBy(k)
      BY <2>1, GetFirstMoved
    <2> QED
      BY <1>1, <1>2, <2>2, MovedOnce
  <1>4. CASE ~TickDispatch(Master)
    <2>1. UNCHANGED execVars
      BY <1>4 DEF StartTick, TickHeld, TickOverhead, TickUnlocked
    <2> QED
      BY <1>1, <1>2, <2>1, StayOnce DEF execVars
  <1> QED
    BY <1>3, <1>4

LEMMA ContinueOnce ==
  ASSUME TypeOK, TypeOK', OneThread, ControlInv, RegionInv, OnceInv, ContinueTick(Master)
  PROVE  OnceInv'
  <1>1. CASE Wait(Master) \/ SkipExecution(Master)
    <2>1. UNCHANGED <<config, file_pos, execVars, lock_core, pending_bypass, begun>>
      BY <1>1 DEF Wait, SkipExecution, dataVars, outerVars, fixedVars, switchVars, countVars
    <2>2. ctl'.at \in {"idle", "execute", "next"}
      <3>1. ctl' = Idle \/ Goto(Master, "execute", "none") \/ Goto(Master, "next", "decide")
        BY <1>1 DEF Wait, SkipExecution
      <3> QED
        BY <3>1 DEF Idle, Goto
    <2>3. NeedsNew' => NeedsNew
      BY <2>1, <2>2 DEF NeedsNew, execVars, Callers
    <2> QED
      BY <2>1, <2>3, StayOnce DEF execVars
  <1>2. CASE Finish(Master)
    <2>1. /\ UNCHANGED <<config, file_pos, trace_line, fresh, inst_queue, lock_core,
                         pending_bypass, begun>>
          /\ ctl'.at = "idle" /\ \A u \in Cores : more_reqs'[u] => more_reqs[u]
      BY <1>2 DEF Finish, Idle, outerVars, fixedVars, switchVars, countVars
    <2>2. NeedsNew' => NeedsNew
      BY <2>1, OneThreadFacts DEF NeedsNew, Callers
    <2> QED
      BY <2>1, <2>2, CoreFacts, StayOnce
  <1>3. CASE BypassFull(Master)
    <2>1. /\ UNCHANGED <<config, file_pos, execVars, begun>> /\ ctl.at = "bypass"
      BY <1>3 DEF BypassFull, At, outerVars, fixedVars, countVars
    <2>2. NeedsNew' => NeedsNew
      BY <2>1 DEF NeedsNew, execVars
    <2> QED
      BY <2>1, <2>2, StayOnce DEF execVars
  <1> QED
    BY <1>1, <1>2, <1>3, StrategyOnce, BypassOnce, ReadOwnOnce, OwnLine
    DEF ContinueTick, StrategyStep

LEMMA OutsideOnce ==
  ASSUME TypeOK, TypeOK', OnceInv,
         UNCHANGED <<config, file_pos, ctl, trace_line, fresh, more_reqs, inst_queue,
                     lock_core, pending_bypass, begun>>
  PROVE  OnceInv'
  <1>1. NeedsNew' => NeedsNew
    BY DEF NeedsNew
  <1> QED
    BY <1>1, StayOnce

LEMMA NextOnce ==
  ASSUME TypeOK, TypeOK', OneThread, ControlInv, RegionInv, OnceInv, [Next]_vars
  PROVE  OnceInv'
  <1>1. ASSUME NEW c \in HostCores, TickHeld(c) \/ ReceiveLoad(c) PROVE OnceInv'
    BY <1>1, OutsideOnce DEF TickHeld, ReceiveLoad, execVars, switchVars, outerVars,
       fixedVars, countVars
  <1>2. CASE TryExecute(Master)
    <2>1. CASE FetchRefused(Master)
      <3>1. UNCHANGED <<config, file_pos, execVars, lock_core, pending_bypass, begun>>
            /\ ctl'.at = "idle"
        BY <2>1 DEF FetchRefused, Idle, dataVars, fixedVars, switchVars, countVars
      <3>2. NeedsNew' => NeedsNew
        BY <3>1 DEF NeedsNew, execVars, Callers
      <3> QED
        BY <3>1, <3>2, StayOnce DEF execVars
    <2> QED
      BY <1>2, <2>1, ExecuteOnce DEF TryExecute
  <1>3. ASSUME NEW c \in HostCores, HostStep(c) PROVE OnceInv'
    <2>1. CASE c = Master
      BY <1>1, <1>2, <1>3, <2>1, StartOnce, ContinueOnce DEF HostStep
    <2>2. CASE c # Master
      BY <1>1, <1>3, <2>2, OtherHost
    <2> QED
      BY <2>1, <2>2
  <1>4. ASSUME NEW u \in Cores, ReceiveFetch(u) PROVE OnceInv'
    BY <1>4, OutsideOnce DEF ReceiveFetch, switchVars, outerVars, fixedVars, countVars
  <1>5. CASE WarmedUp
    BY <1>5, OutsideOnce DEF WarmedUp, execVars, switchVars, countVars
  <1>6. CASE UNCHANGED vars
    BY <1>6, OutsideOnce DEF vars, execVars, switchVars, fixedVars, countVars
  <1> QED
    BY <1>3, <1>4, <1>5, <1>6, McpOnce DEF Next

LEMMA InitOnce ==
  ASSUME Init
  PROVE  OnceInv
  <1>1. TypeOK
    BY InitType
  <1>2. \A u \in Mcp : ~more_reqs[u] /\ inst_queue[u] = <<>>
    <2>1. \A u \in Mcp : u \in Cores /\ u # Master
      BY CoreFacts
    <2> QED
      BY <2>1 DEF Init
  <1>3. \A u \in Mcp : Spots(u) = {}
    BY <1>2 DEF Spots
  <1>4. Safe \subseteq DOMAIN Trace /\ file_pos \in DOMAIN Trace
    BY <1>1, SafeFacts DEF TypeOK, LineType
  <1>5. \A p \in DOMAIN Trace : begun[p] = 0
    BY DEF Init, Trace
  <1> QED
    BY <1>3, <1>4, <1>5 DEF OnceInv, Distinct, Waits

OneThreadInv == TypeOK /\ ControlInv /\ RegionInv /\ OnceInv

LEMMA OneThreadInductive ==
  ASSUME OneThread
  PROVE  /\ Init => OneThreadInv
         /\ OneThreadInv /\ [Next]_vars => OneThreadInv'
  <1>1. Init => OneThreadInv
    BY InitType, InitControl, InitOnce DEF OneThreadInv
  <1>2. ASSUME OneThreadInv, [Next]_vars PROVE OneThreadInv'
    <2>1. TypeOK'
      BY <1>2, NextType DEF OneThreadInv
    <2> QED
      BY <1>2, <2>1, NextControl, NextOnce DEF OneThreadInv
  <1> QED
    BY <1>1, <1>2

(* With one host thread, in every mode and for every trace, no line but    *)
(* the last is begun twice: not when a full queue refuses it and it is     *)
(* bypassed again later, to a target chosen anew, not at the borders of    *)
(* regions.  The last line is excepted only in MCP-Only and when the trace *)
(* ends within an offloaded region (Core::instruction_bypass, and          *)
(* Processor.cpp:1039).                                                    *)
THEOREM OffloadOnceButLast ==
  ASSUME OneThread
  PROVE  Spec => []OnceButLast
  <1>1. OneThreadInv => OnceButLast
    BY DEF OneThreadInv, OnceInv, OnceButLast, OnceIn
  <1> QED
    BY <1>1, OneThreadInductive, PTL DEF Spec

(* Traces that end outside of every region, in the modes but MCP-Only *)
EndsOutside ==
  \A s \in Scenarios :
    LET last == s.trace[Len(s.trace)] IN
    /\ s.mode # "MCP-Only"
    /\ IsTag(last) \/ \A i \in DOMAIN s.trace :
                         s.trace[i].op = "ROI_BEGIN" => s.trace[i].region # last.region

(* Then every line is performed at most once (Processor.cpp:968, the retry *)
(* of a refused bypass).                                                   *)
THEOREM OffloadPerformedOnce ==
  ASSUME OneThread, EndsOutside
  PROVE  Spec => []PerformedOnce
  <1>1. OneThreadInv => PerformedOnce
    <2> SUFFICES ASSUME OneThreadInv PROVE PerformedOnce
      OBVIOUS
    <2>1. config \in Scenarios
      BY DEF OneThreadInv, TypeOK, LineType
    <2>2. Safe = DOMAIN Trace
      BY <2>1 DEF EndsOutside, Safe, McpOnly, EndsInRegion, LastLine, Trace
    <2> QED
      BY <2>2 DEF OneThreadInv, OnceInv, PerformedOnce, OnceIn
  <1> QED
    BY <1>1, OneThreadInductive, PTL DEF Spec
============================================================================
