-------------------------- MODULE VaultController --------------------------
(***************************************************************************)
(* One vault controller and its DRAM, cycle by cycle: the scheduler        *)
(* (Scheduler.h, FRFCFS_PriorHit with open rows), the row table, the bank  *)
(* states and timing of HMC (HMC.cpp, DRAM.h) and the refresh              *)
(* (Refresh.cpp).  It serves the requests of near-memory cores, which      *)
(* enter the controller directly, in any order and at any time.            *)
(*                                                                         *)
(* HmcHost leaves open which request of a queue a vault completes in a     *)
(* tick; this module is shown to implement it.  Times to wait are counted  *)
(* down, so no clock grows.  The vault has one bank group.  Left out are   *)
(* the commands no request leads to (RDA, WRA, power down, self refresh),  *)
(* and nFAW: five ACTs to two banks take two nRC, which is longer.         *)
(***************************************************************************)
EXTENDS Integers, Sequences, FiniteSets, FiniteSetsExt, Functions

CONSTANTS
  Traffic,       \* the requests: type, byte address, from_nmp
  BankOf, RowOf, \* of each address, its bank and row
  BurstCount,    \* burst_count: column accesses of a request
  QueueMax,      \* Queue::max
  T              \* speed_entry: the timing parameters

Requests == DOMAIN Traffic
Addresses == {Traffic[r].addr : r \in Requests}
Banks == {BankOf[a] : a \in Addresses}
Rows == {RowOf[a] : a \in Addresses}
Closed == -1

ASSUME TrafficAssumption ==
  /\ IsFiniteSet(Requests)
  /\ Traffic \in [Requests -> [type : {"READ", "WRITE"}, addr : Nat, from_nmp : {TRUE}]]
  /\ BankOf \in [Addresses -> Nat] /\ RowOf \in [Addresses -> Nat]
  /\ Cardinality(Banks) <= 2
  /\ BurstCount \in Nat \ {0} /\ QueueMax \in Nat \ {0}

(* speed_table (HMC.h:214): nBL and nCCDS may be zero *)
ASSUME TimingAssumption ==
  /\ T \in [nBL : Nat, nCCDS : Nat, nCCDL : Nat, nCL : Nat, nRCD : Nat, nRP : Nat,
            nCWL : Nat, nRAS : Nat, nRC : Nat, nRTP : Nat, nWTRS : Nat, nWTRL : Nat,
            nWR : Nat, nRRDS : Nat, nRRDL : Nat, nFAW : Nat, nRFC : Nat, nREFI : Nat]
  /\ T.nCL + T.nCCDS + 2 >= T.nCWL
  /\ T.nRC * 2 >= T.nFAW /\ T.nCL > 0 /\ T.nRCD > 0 /\ T.nREFI > 0

VARIABLES
  arrived,         \* the requests received, in order
  readq, writeq,   \* the queues, in order of arrival
  otherq,          \* refresh requests waiting
  pending,         \* reads about to depart, with the time left
  burst_count,     \* of each request: column accesses still to come
  begun,           \* requests without is_first_command
  serving,         \* cur_serving_requests of the vault
  write_mode,
  row,             \* of each bank: state and row_state, the open row
  table,           \* RowTable: the row entered for each bank, if any
  until,           \* DRAM::next, as the time left: of the vault, of each bank
  refreshed,       \* cycles since the last refresh request
  responses,       \* response_packets_buffer
  answered,        \* near reads called back
  issued, age      \* history: the command of the last tick; cycles since
                   \* each bank was opened, read, written, closed, refreshed

queueVars == <<readq, writeq, otherq, pending, burst_count, begun, serving, write_mode>>
dramVars == <<row, table, until, refreshed>>
historyVars == <<issued, age>>
vars == <<arrived, queueVars, dramVars, responses, answered, historyVars>>

Type(r) == Traffic[r].type
Addr(r) == Traffic[r].addr
Bank(r) == BankOf[Addr(r)]
Row(r) == RowOf[Addr(r)]

----------------------------------------------------------------------------
(* Timing: <<command, later command, cycles between them>> *)

Commands == {"ACT", "PRE", "PREA", "RD", "WR", "REF"}

WriteTime == T.nCWL + T.nBL
VaultGaps ==
  {<<"RD", "RD", T.nBL>>, <<"WR", "WR", T.nBL>>, <<"RD", "RD", T.nCCDS>>,
   <<"WR", "WR", T.nCCDS>>, <<"RD", "WR", T.nCL + T.nCCDS + 2 - T.nCWL>>,
   <<"WR", "RD", WriteTime + T.nWTRS>>, <<"RD", "PREA", T.nRTP>>,
   <<"WR", "PREA", WriteTime + T.nWR>>, <<"ACT", "ACT", T.nRRDS>>,
   <<"ACT", "PREA", T.nRAS>>, <<"PREA", "ACT", T.nRP>>, <<"PRE", "REF", T.nRP>>,
   <<"PREA", "REF", T.nRP>>, <<"REF", "ACT", T.nRFC>>, <<"REF", "REF", T.nRFC>>}
  \cup  \* of the bank group
  {<<"RD", "RD", T.nCCDL>>, <<"WR", "WR", T.nCCDL>>,
   <<"WR", "RD", WriteTime + T.nWTRL>>, <<"ACT", "ACT", T.nRRDL>>}
BankGaps ==
  {<<"ACT", "RD", T.nRCD>>, <<"ACT", "WR", T.nRCD>>, <<"RD", "PRE", T.nRTP>>,
   <<"WR", "PRE", WriteTime + T.nWR>>, <<"ACT", "ACT", T.nRC>>,
   <<"ACT", "PRE", T.nRAS>>, <<"PRE", "ACT", T.nRP>>}

(* The longest gap between each two commands, as a table *)
Table(gaps) ==
  [c \in Commands |-> [d \in Commands |->
    Max({0} \cup {g[3] : g \in {h \in gaps : h[1] = c /\ h[2] = d}})]]
VaultGap == Table(VaultGaps)
BankGap == Table(BankGaps)

(* update_timing: the times left once cmd is issued *)
After(gap, cmd, left) ==
  [c \in Commands |-> IF left[c] > gap[cmd][c] THEN left[c] ELSE gap[cmd][c]]

Later(left) == [c \in Commands |-> IF left[c] = 0 THEN 0 ELSE left[c] - 1]
NoWait == [c \in Commands |-> 0]

(* How long ago something happened to a bank, up to the longest gap *)
Events == {"ACT", "RD", "WR", "PRE", "REF"}
Oldest == Max({g[3] : g \in VaultGaps \cup BankGaps})

Older(n) == IF n = Oldest THEN n ELSE n + 1

(* speed_table has an nREFI of 9750 and no gap above its nRFC of 200. *)
ASSUME RefreshAssumption == 2 * Oldest + 2 < T.nREFI

(* The times left at this tick's clock *)
Vault == Later(until.vault)
OfBank == [b \in Banks |-> Later(until.bank[b])]

(* DRAM::check; PREA and REF have the vault for their scope. *)
WrongCheck(cmd, b) == OfBank[b][cmd] = 0
Check(cmd, b) == Vault[cmd] = 0 /\ (cmd \notin {"PREA", "REF"} => OfBank[b][cmd] = 0)

----------------------------------------------------------------------------
(* Requests arrive: Controller::receive, enqueue *)

Init ==
  /\ arrived = <<>> /\ readq = <<>> /\ writeq = <<>> /\ pending = <<>>
  /\ otherq = 0 /\ serving = 0 /\ refreshed = 0
  /\ burst_count = [r \in Requests |-> BurstCount]
  /\ begun = {} /\ answered = {} /\ responses = <<>>
  /\ write_mode = FALSE
  /\ row = [b \in Banks |-> Closed] /\ table = [b \in Banks |-> Closed]
  /\ until = [vault |-> NoWait, bank |-> [b \in Banks |-> NoWait]]
  /\ issued = "none"
  /\ age = [b \in Banks |-> [c \in Events |-> Oldest]]

(* A read of an address that a queued write is to write is forwarded.      *)
(* (An operator named Wrong... is never used: it is a slip that could be   *)
(* made in the definition that follows it, kept to show that the           *)
(* properties notice it.)                                                  *)
WrongForwarded(r) == FALSE
Forwarded(r) == \E w \in Range(writeq) : Addr(w) = Addr(r)

Receive(r) ==
  /\ r \notin Range(arrived)
  /\ arrived' = Append(arrived, r)
  /\ IF Type(r) = "WRITE"
     THEN writeq' = Append(writeq, r) /\ UNCHANGED <<readq, pending>>
     ELSE IF Forwarded(r)
     THEN /\ pending' = Append(pending, [req |-> r, left |-> 1, forwarded |-> TRUE])
          /\ UNCHANGED <<readq, writeq>>
     ELSE readq' = Append(readq, r) /\ UNCHANGED <<writeq, pending>>
  /\ UNCHANGED <<otherq, burst_count, begun, serving, write_mode, dramVars,
                 responses, answered, historyVars>>

----------------------------------------------------------------------------
(* Controller::tick *)

(* 1. The first pending read, if its time has come.  (It is called back at *)
(* once; depart - arrive > 1 tells one the DRAM served from one forwarded.) *)
Waiting == [i \in DOMAIN pending |->
              [pending[i] EXCEPT !.left = IF @ = 0 THEN 0 ELSE @ - 1]]
Departs == pending # <<>> /\ Waiting[1].left = 0
Remaining == IF Departs THEN Tail(Waiting) ELSE Waiting
WrongLeaving == IF Departs THEN 1 ELSE 0
Leaving == IF Departs /\ ~pending[1].forwarded THEN 1 ELSE 0

(* 2. Refresh::tick_ref *)
RefreshDue == refreshed + 1 >= T.nREFI
Refreshes == IF RefreshDue THEN otherq + 1 ELSE otherq

(* 3. *)
High == (QueueMax * 4) \div 5
Low == QueueMax \div 5
WrongNextMode == write_mode \/ readq = <<>>   \* never back to reads
NextMode ==
  IF ~write_mode THEN Len(writeq) >= High \/ readq = <<>>
                 ELSE ~(Len(writeq) <= Low /\ readq # <<>>)

(* 4. Scheduler::get_head *)
Queue == IF NextMode THEN writeq ELSE readq

IsRowOpen(r) == row[Bank(r)] # Closed
IsRowHit(r) == row[Bank(r)] = Row(r)

(* DRAM::decode: the command the request needs next *)
FirstCmd(r) ==
  IF ~IsRowOpen(r) THEN "ACT"
  ELSE IF ~IsRowHit(r) THEN "PRE"
  ELSE IF Type(r) = "READ" THEN "RD" ELSE "WR"
IsReady(r) == Check(FirstCmd(r), Bank(r))

(* A request that would close a row another one of the queue hits waits. *)
ViolatesHit(r) ==
  /\ IsRowOpen(r) /\ ~IsRowHit(r)
  /\ \E h \in Range(Queue) : IsRowHit(h) /\ Bank(h) = Bank(r)

(* The oldest ready request among the hits, or else among the others *)
ReadyHits == {i \in DOMAIN Queue : IsRowHit(Queue[i]) /\ IsReady(Queue[i])}
Others == {i \in DOMAIN Queue : ~ViolatesHit(Queue[i]) /\ IsReady(Queue[i])}
First(s) == IF s = {} THEN {} ELSE {Queue[Min(s)]}
GetHead == IF ReadyHits # {} THEN First(ReadyHits) ELSE First(Others)

(* issue_cmd: DRAM::update and RowTable::update *)
Issue(cmd, b, r) ==
  /\ row' = [x \in Banks |->
       IF cmd = "PREA" \/ (cmd = "PRE" /\ x = b) THEN Closed
       ELSE IF cmd = "ACT" /\ x = b THEN r ELSE row[x]]
  /\ table' = [x \in Banks |->
       IF cmd = "PREA" \/ (cmd = "PRE" /\ x = b) THEN Closed
       ELSE IF cmd = "ACT" /\ x = b /\ table[x] = Closed THEN r ELSE table[x]]
  /\ until' = [vault |-> After(VaultGap, cmd, Vault),
               bank |-> [x \in Banks |->
                 IF x = b THEN After(BankGap, cmd, OfBank[x]) ELSE OfBank[x]]]
  /\ issued' = cmd
  /\ age' = [x \in Banks |-> [e \in Events |->
       IF (cmd = e /\ x = b) \/ <<cmd, e>> \in {<<"PREA", "PRE">>, <<"REF", "REF">>}
       THEN 0 ELSE Older(age[x][e])]]

NoIssue ==
  /\ UNCHANGED <<row, table>>
  /\ until' = [vault |-> Vault, bank |-> OfBank]
  /\ issued' = "none"
  /\ age' = [x \in Banks |-> [e \in Events |-> Older(age[x][e])]]

(* Steps 1 to 3 of a tick *)
Clock ==
  /\ refreshed' = IF RefreshDue THEN 0 ELSE refreshed + 1
  /\ write_mode' = NextMode
  /\ answered' = IF Departs THEN answered \cup {pending[1].req} ELSE answered
  /\ UNCHANGED arrived

(* A refresh waits, and nothing else is scheduled: its REF or the PREA it  *)
(* needs first is issued when it may be.                                   *)
RefreshCmd == IF \A b \in Banks : row[b] = Closed THEN "REF" ELSE "PREA"

(* REF ends its request, whose burst_count was zero from the start. *)
WrongRefreshesLeft(cmd) == Refreshes
RefreshesLeft(cmd) == IF cmd = "REF" THEN Refreshes - 1 ELSE Refreshes

TickRefresh ==
  /\ Clock
  /\ Refreshes > 0
  /\ IF Vault[RefreshCmd] = 0 THEN Issue(RefreshCmd, Closed, Closed) ELSE NoIssue
  /\ otherq' = RefreshesLeft(issued')
  /\ pending' = Remaining
  /\ serving' = serving - Leaving
  /\ UNCHANGED <<readq, writeq, burst_count, begun, responses>>

TickIdle ==
  /\ Clock
  /\ Refreshes = 0 /\ GetHead = {}
  /\ NoIssue
  /\ pending' = Remaining
  /\ serving' = serving - Leaving
  /\ UNCHANGED <<readq, writeq, otherq, burst_count, begun, responses>>

(* A command for the request r, its first one or a later one *)
Start(r) ==
  /\ Clock
  /\ Refreshes = 0 /\ r \in GetHead
  /\ Issue(FirstCmd(r), Bank(r), Row(r))
  /\ begun' = begun \cup {r}

Begins(r) == IF r \in begun THEN 0 ELSE 1

TickRow(r) ==
  /\ FirstCmd(r) \in {"ACT", "PRE"}
  /\ Start(r)
  /\ pending' = Remaining
  /\ serving' = serving + Begins(r) - Leaving
  /\ UNCHANGED <<readq, writeq, otherq, burst_count, responses>>

(* A column access; the last one completes the request. *)
Finishes(r) == burst_count[r] = 1

(* q.erase *)
Place(q, r) == CHOOSE i \in DOMAIN q : q[i] = r
Erased(q, r) == SubSeq(q, 1, Place(q, r) - 1) \o SubSeq(q, Place(q, r) + 1, Len(q))

WrongTaken(q, r) == Erased(q, r)
Taken(q, r) == IF Finishes(r) THEN Erased(q, r) ELSE q

TickRead(r) ==
  /\ FirstCmd(r) = "RD"
  /\ Start(r)
  /\ burst_count' = [burst_count EXCEPT ![r] = @ - 1]
  /\ readq' = Taken(readq, r)
  /\ pending' = IF Finishes(r)
       THEN Append(Remaining, [req |-> r, left |-> T.nCL + T.nBL, forwarded |-> FALSE])
       ELSE Remaining
  /\ serving' = serving + Begins(r) - Leaving
  /\ UNCHANGED <<writeq, otherq, responses>>

TickWrite(r) ==
  /\ FirstCmd(r) = "WR"
  /\ Start(r)
  /\ burst_count' = [burst_count EXCEPT ![r] = @ - 1]
  /\ writeq' = Taken(writeq, r)
  /\ responses' = IF Finishes(r) THEN Append(responses, r) ELSE responses
  /\ pending' = Remaining
  /\ serving' = serving + Begins(r) - Leaving - (IF Finishes(r) THEN 1 ELSE 0)
  /\ UNCHANGED <<readq, otherq>>

Tick ==
  \/ TickRefresh \/ TickIdle
  \/ \E r \in Requests : TickRow(r) \/ TickRead(r) \/ TickWrite(r)

Next == (\E r \in Requests : Receive(r)) \/ Tick

Spec == Init /\ [][Next]_vars
FairSpec == Spec /\ WF_refreshed(Clock)

----------------------------------------------------------------------------
(* Properties *)

Served(r) == r \in answered \cup Range(responses)
InQueue(r) == r \in Range(readq) \cup Range(writeq)

(* No assertion on the way of a command fails: RowTable's entries are the  *)
(* open rows (its update asserts a match), and cur_serving_requests, which *)
(* must not fall below zero, counts the requests begun and not completed.  *)
AssertionsHold ==
  /\ table = row
  /\ serving = Cardinality({r \in begun : ~Served(r)})

(* A request gets all its column accesses and no more, and keeps its place *)
(* in its queue until the last, however often its row is closed between    *)
(* two of them by the other queue or by a refresh.                         *)
BurstsComplete ==
  \A r \in Range(arrived) :
    IF InQueue(r) THEN burst_count[r] > 0 /\ (burst_count[r] < BurstCount => r \in begun)
    ELSE burst_count[r] = IF r \in begun THEN 0 ELSE BurstCount

(* What the banks see of the timing, whichever level of DRAM::check a      *)
(* command is held back at: a bank is closed only after nRAS, nRTP and the *)
(* write recovery, opened only after nRP, nRC and nRFC, accessed only      *)
(* after nRCD and when open, and refreshed only closed and after nRP.      *)
TimingKept ==
  \A b \in Banks : LET a == age[b] IN
    /\ issued \in {"PRE", "PREA"} /\ a["PRE"] = 0 =>
         a["ACT"] >= T.nRAS /\ a["RD"] >= T.nRTP /\ a["WR"] >= WriteTime + T.nWR
    /\ issued = "ACT" /\ a["ACT"] = 0 => a["PRE"] >= T.nRP /\ a["REF"] >= T.nRFC
    /\ issued \in {"RD", "WR"} /\ a[issued] = 0 => a["ACT"] >= T.nRCD /\ row[b] # Closed
    /\ issued = "REF" => row[b] = Closed /\ a["PRE"] >= T.nRP

(* A refresh is done before the next is due: they never pile up in otherq, *)
(* whose precedence would then keep reads and writes from the DRAM.        *)
RefreshKeepsUp == otherq <= 1 /\ (otherq = 1 => refreshed + 1 < T.nREFI)

(* Every request received is served: neither the hits that go first, nor   *)
(* the other queue's turn, nor refreshes keep it waiting for ever.         *)
EveryRequestServed == \A r \in Requests : r \in Range(arrived) ~> Served(r)

----------------------------------------------------------------------------
(* The vault that HmcHost describes, for requests that reach it directly   *)

Number(r) == (CHOOSE i \in DOMAIN arrived : arrived[i] = r) - 1
Packet(r) == [req |-> r, reqid |-> Number(r), tag |-> IF Number(r) = 0 THEN 0 ELSE -1]
Packets(s) == {Packet(r) : r \in s}
PendingReqs == [i \in DOMAIN pending |-> pending[i].req]
One(x) == [v \in {0} |-> x]

Host == INSTANCE HmcHost WITH
  Links <- 1, Vaults <- 1, MaxTags <- 1, BufferMax <- 1, PayloadFlits <- 0,
  BlockBytes <- 1, Batches <- {Requests}, MaxRestores <- 0,
  batch <- Requests,
  unsent <- Requests \ Range(arrived),
  mem_req_count <- Len(arrived),
  tags_pools <- One(IF arrived = <<>> THEN <<0>> ELSE <<>>),
  input_buffer <- One(<<>>), output_buffer <- One(<<>>),
  incoming_packets_buffer <-
    One(Packets(Range(readq) \cup Range(writeq) \cup Range(PendingReqs))),
  readq <- One(Packets(Range(readq))), writeq <- One(Packets(Range(writeq))),
  pending <- One([i \in DOMAIN pending |-> Packet(pending[i].req)]),
  response_packets_buffer <- One([i \in DOMAIN responses |-> Packet(responses[i])]),
  write_mode <- One(write_mode),
  answered <- [r \in Requests |-> IF r \in answered THEN 1 ELSE 0],
  restores <- 0

(* The controller, with its DRAM, does what HmcHost lets a vault do: in    *)
(* each tick at most one request of the queue in turn is completed, reads  *)
(* leave in the order of pending, and responses go by their packets.       *)
ImplementsVault == Host!Spec
=============================================================================
