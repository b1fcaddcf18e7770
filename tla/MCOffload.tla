----------------------------- MODULE MCOffload -----------------------------
(***************************************************************************)
(* Small scenarios for Offload: traces of at most eleven lines with two    *)
(* regions, plain, nested, adjacent and repeated.                          *)
(***************************************************************************)
EXTENDS Offload

Inst(region, vault) ==
  [op |-> "INST", region |-> region, thread |-> 0, vault |-> vault, mem |-> 1]
Calm(region) == [Inst(region, 0) EXCEPT !.mem = 0]
Other(region) == [Inst(region, 0) EXCEPT !.thread = 1]
Enter(region) == [Calm(region) EXCEPT !.op = "ROI_BEGIN"]
Leave(region) == [Calm(region) EXCEPT !.op = "ROI_END"]

(* One region, its lines on two vaults, then the host, then it again. *)
TwoVisits == <<Inst(0, 0), Enter(1), Inst(1, 0), Inst(1, 1), Inst(1, 0), Leave(1),
               Inst(0, 0), Enter(1), Inst(1, 1), Leave(1), Calm(0)>>
(* Region 2 within region 1: its lines carry the inner region, and leave   *)
(* the outer one for the host when only that is offloaded.                 *)
Nested == <<Inst(0, 0), Enter(1), Inst(1, 0), Enter(2), Inst(2, 1), Inst(2, 0),
            Leave(2), Inst(1, 1), Inst(1, 1), Leave(1), Inst(0, 1)>>
(* Two regions with nothing between them; the trace ends in a tag. *)
Adjacent == <<Inst(0, 0), Enter(1), Inst(1, 0), Inst(1, 0), Inst(1, 0), Inst(1, 0),
              Leave(1), Enter(2), Inst(2, 1), Leave(2)>>
(* The same on one vault: its queue, full of lines of region 1, refuses the *)
(* line of region 2, after which the host goes on.                          *)
SameVault == <<Inst(0, 0), Enter(1), Inst(1, 0), Inst(1, 0), Inst(1, 0), Leave(1),
               Enter(2), Inst(2, 0), Leave(2), Inst(0, 0)>>
(* Region 1 within region 2, both ending at once: when only 1 is offloaded *)
(* the tag of 2 follows another and closes no offloaded region.            *)
Inner == <<Inst(0, 0), Enter(2), Enter(1), Inst(1, 0), Leave(1), Leave(2), Inst(0, 1)>>
(* The trace ends within region 1. *)
Cut == <<Calm(0), Enter(1), Inst(1, 0), Inst(1, 1)>>
Plain == <<Calm(0), Inst(0, 0), Inst(0, 1), Calm(0)>>
Threads == <<Calm(0), Other(0), Inst(0, 1), Other(0), Calm(0)>>

Scenario(mode, nlp, warm, limit, offloadable, trace) ==
  [mode |-> mode, nlp |-> nlp, warm |-> warm, limit |-> limit,
   offloadable |-> offloadable, trace |-> trace]

(* NoLimit: more instructions than any trace here has *)
NoLimit == 99

CoSim ==
  {Scenario("Co-Simulation", FALSE, FALSE, NoLimit, offloadable, trace) :
     offloadable \in {{1}, {1, 2}},
     trace \in {TwoVisits, Nested, Adjacent, SameVault, Inner}}

(* Every mode with every feature the offload run leaves out: a warm-up, the *)
(* instruction limit, NLP cores, other threads.                             *)
AllModes ==
  {Scenario("Host-Only", FALSE, warm, limit, {}, trace) :
     warm \in BOOLEAN, limit \in {2, NoLimit}, trace \in {Nested, Threads}}
  \cup
  {Scenario("All-Offload", nlp, FALSE, limit, {}, trace) :
     nlp \in BOOLEAN, limit \in {3, NoLimit}, trace \in {Nested, Adjacent, Cut}}
  \cup
  {Scenario("Co-Simulation", TRUE, TRUE, NoLimit, {1}, trace) :
     trace \in {TwoVisits, Adjacent, Cut}}
  \cup
  {Scenario("MCP-Only", FALSE, FALSE, NoLimit, {}, trace) :
     trace \in {Plain, Nested}}

(* What the runs that expect a violation start from *)
AllOffload == {Scenario("All-Offload", FALSE, FALSE, NoLimit, {}, TwoVisits)}
(* A refused bypass may be retried to another side only with NLP cores. *)
Retargeted == {Scenario("Co-Simulation", TRUE, FALSE, NoLimit, {1}, TwoVisits)}
ThreadedRegion ==
  <<Calm(0), Other(0), Other(0), Enter(1), Inst(1, 0), Leave(1), Calm(0)>>
Threaded == {Scenario("All-Offload", FALSE, FALSE, NoLimit, {}, ThreadedRegion)}
============================================================================
