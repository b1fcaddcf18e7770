---------------------------- MODULE VaultProofs ----------------------------
(***************************************************************************)
(* Theorems about VaultController, for every traffic, timing table, burst  *)
(* length and queue size that its assumptions allow.                       *)
(***************************************************************************)
EXTENDS VaultController, FiniteSetTheorems, SequenceTheorems, TLAPS

----------------------------------------------------------------------------
(* Least and greatest numbers *)

(* A set of numbers that is not empty has a least one: of the intervals    *)
(* from zero to its members, finite all, one is contained in the others.   *)
LEMMA LeastExists ==
  ASSUME NEW S, S \subseteq Nat, S # {}
  PROVE  \E x \in S : \A y \in S : x <= y
<1> DEFINE Below == {0 .. x : x \in S}
<1>1. Below \subseteq FiniteSubsetsOf(Nat)
  <2> SUFFICES ASSUME NEW x \in S PROVE 0 .. x \in FiniteSubsetsOf(Nat)
    OBVIOUS
  <2>1. IsFiniteSet(0 .. x)
    BY FS_Interval, x \in Int, 0 \in Int
  <2> QED BY <2>1 DEF FiniteSubsetsOf
<1>2. Below # {}
  OBVIOUS
<1>3. IsWellFoundedOn(StrictSubsetOrdering(Nat), FiniteSubsetsOf(Nat))
  BY FS_StrictSubsetOrderingWellFounded
<1> HIDE DEF Below
<1>4. PICK U \in Below : \A V \in Below : <<V, U>> \notin StrictSubsetOrdering(Nat)
  BY <1>1, <1>2, <1>3, WFMin
<1>5. PICK x \in S : U = 0 .. x
  BY <1>4 DEF Below
<1>6. ASSUME NEW y \in S PROVE x <= y
  <2> SUFFICES ASSUME y < x PROVE FALSE
    BY x \in Nat, y \in Nat
  <2>1. 0 .. y \subseteq 0 .. x /\ x \in 0 .. x /\ x \notin 0 .. y
    BY x \in Nat, y \in Nat
  <2>2. 0 .. y \in Below
    BY DEF Below
  <2>3. 0 .. x \subseteq Nat /\ 0 .. y \subseteq Nat
    OBVIOUS
  <2>4. <<0 .. y, U>> \in StrictSubsetOrdering(Nat)
    BY <2>1, <2>3, <1>5 DEF StrictSubsetOrdering
  <2> QED BY <2>2, <2>4, <1>4
<1> QED BY <1>6

LEMMA MinIsLeast ==
  ASSUME NEW S, S \subseteq Nat, S # {}
  PROVE  Min(S) \in S /\ \A y \in S : Min(S) <= y
BY LeastExists DEF Min

LEMMA MaxIsGreatest ==
  ASSUME NEW S, S \subseteq Nat, S # {}, NEW n \in Nat, \A x \in S : x <= n
  PROVE  Max(S) \in S /\ \A y \in S : y <= Max(S)
<1> DEFINE D == {n - x : x \in S}
<1>1. D \subseteq Nat /\ D # {}
  <2>1. \A x \in S : x \in Nat /\ x <= n
    OBVIOUS
  <2>2. \A x \in S : n - x \in Nat
    BY <2>1
  <2> QED BY <2>2
<1>2. PICK d \in D : \A e \in D : d <= e
  BY <1>1, LeastExists
<1>3. PICK x \in S : d = n - x
  OBVIOUS
<1>4. ASSUME NEW y \in S PROVE x >= y
  <2>1. n - y \in D
    OBVIOUS
  <2>2. n - x <= n - y
    BY <2>1, <1>2, <1>3
  <2>3. x \in Nat /\ y \in Nat
    OBVIOUS
  <2> HIDE DEF D
  <2> QED BY <2>2, <2>3
<1>5. \E z \in S : \A y \in S : z >= y
  BY <1>4
<1>6. Max(S) \in S /\ \A y \in S : Max(S) >= y
  BY <1>5 DEF Max
<1> QED BY <1>6

----------------------------------------------------------------------------
(* The timing tables *)

Gaps == VaultGaps \cup BankGaps

LEMMA TimesType ==
  /\ T.nBL \in Nat /\ T.nCCDS \in Nat /\ T.nCCDL \in Nat /\ T.nCL \in Nat
  /\ T.nRCD \in Nat /\ T.nRP \in Nat /\ T.nCWL \in Nat /\ T.nRAS \in Nat
  /\ T.nRC \in Nat /\ T.nRTP \in Nat /\ T.nWTRS \in Nat /\ T.nWTRL \in Nat
  /\ T.nWR \in Nat /\ T.nRRDS \in Nat /\ T.nRRDL \in Nat /\ T.nFAW \in Nat
  /\ T.nRFC \in Nat /\ T.nREFI \in Nat
BY TimingAssumption

LEMMA GapType ==
  ASSUME NEW g \in Gaps
  PROVE  g[1] \in Commands /\ g[2] \in Commands /\ g[3] \in Nat
<1> USE TimesType
<1>1. CASE g \in BankGaps
  BY <1>1 DEF BankGaps, Commands, WriteTime
<1>2. CASE g \in VaultGaps
  BY <1>2, TimingAssumption DEF VaultGaps, Commands, WriteTime
<1> QED BY <1>1, <1>2 DEF Gaps

(* No gap is longer than all times together. *)
LEMMA SumIsBound ==
  ASSUME NEW a \in Nat, NEW b \in Nat, NEW c \in Nat, NEW d \in Nat
  PROVE  /\ a + b + c + d \in Nat
         /\ a <= a + b + c + d /\ b <= a + b + c + d
         /\ c <= a + b + c + d /\ d <= a + b + c + d
OBVIOUS

LEMMA GapsBounded ==
  \E n \in Nat : \A g \in Gaps : g[3] <= n
<1> DEFINE bus == T.nBL + T.nCCDS + T.nCCDL + T.nCL
           bank == T.nRCD + T.nRP + T.nRAS + T.nRC
           turn == T.nRTP + T.nWTRS + T.nWTRL + T.nWR
           rest == T.nRRDS + T.nRRDL + T.nRFC + T.nCWL
           n == bus + bank + turn + rest + 2
<1>1. bus \in Nat /\ T.nBL <= bus /\ T.nCCDS <= bus /\ T.nCCDL <= bus /\ T.nCL <= bus
  BY TimesType, SumIsBound
<1>2. bank \in Nat /\ T.nRCD <= bank /\ T.nRP <= bank /\ T.nRAS <= bank /\ T.nRC <= bank
  BY TimesType, SumIsBound
<1>3. turn \in Nat /\ T.nRTP <= turn /\ T.nWTRS <= turn /\ T.nWTRL <= turn /\ T.nWR <= turn
  BY TimesType, SumIsBound
<1>4. rest \in Nat /\ T.nRRDS <= rest /\ T.nRRDL <= rest /\ T.nRFC <= rest /\ T.nCWL <= rest
  BY TimesType, SumIsBound
<1>5. T.nCL + T.nCCDS + 2 - T.nCWL <= bus + 2
  BY TimesType, T.nCL + T.nCCDS <= bus
<1>6. T.nCWL + T.nBL + T.nWR <= bus + turn + rest /\ T.nCWL + T.nBL + T.nWTRS <= bus + turn + rest
      /\ T.nCWL + T.nBL + T.nWTRL <= bus + turn + rest
  <2> HIDE DEF bus, turn, rest
  <2> QED BY <1>1, <1>3, <1>4, TimesType
<1> HIDE DEF bus, bank, turn, rest
<1>7. n \in Nat /\ bus + 2 <= n /\ bank <= n /\ turn <= n /\ rest <= n /\ bus + turn + rest <= n
  BY <1>1, <1>2, <1>3, <1>4
<1> HIDE DEF n
<1>8. /\ T.nBL <= n /\ T.nCCDS <= n /\ T.nCCDL <= n /\ T.nRCD <= n /\ T.nRP <= n
      /\ T.nRAS <= n /\ T.nRC <= n /\ T.nRTP <= n /\ T.nRRDS <= n /\ T.nRRDL <= n
      /\ T.nRFC <= n /\ T.nCL + T.nCCDS + 2 - T.nCWL <= n
      /\ WriteTime + T.nWR <= n /\ WriteTime + T.nWTRS <= n /\ WriteTime + T.nWTRL <= n
  <2>1. /\ T.nBL <= n /\ T.nCCDS <= n /\ T.nCCDL <= n 
        /\ T.nRTP <= n
    BY <1>1, <1>3, <1>7, TimesType
  <2>2. T.nRCD <= n /\ T.nRP <= n /\ T.nRAS <= n /\ T.nRC <= n
    BY <1>2, <1>7, TimesType
  <2>3. T.nRRDS <= n /\ T.nRRDL <= n /\ T.nRFC <= n
    BY <1>4, <1>7, TimesType
  <2>4. T.nCL + T.nCCDS + 2 - T.nCWL <= n
    BY <1>5, <1>7, <1>1, TimesType
  <2>5. WriteTime + T.nWR <= n /\ WriteTime + T.nWTRS <= n /\ WriteTime + T.nWTRL <= n
    BY <1>6, <1>7, <1>1, <1>3, <1>4, TimesType DEF WriteTime
  <2> QED BY <2>1, <2>2, <2>3, <2>4, <2>5
<1>9. ASSUME NEW g \in BankGaps PROVE g[3] <= n
  BY <1>8 DEF BankGaps
<1>10. ASSUME NEW g \in VaultGaps PROVE g[3] <= n
  BY <1>8 DEF VaultGaps
<1> QED BY <1>7, <1>9, <1>10 DEF Gaps

LEMMA OldestIsLongest ==
  /\ Oldest \in Nat /\ Oldest > 0
  /\ \A g \in Gaps : g[3] <= Oldest
<1> DEFINE S == {g[3] : g \in Gaps}
<1>1. S \subseteq Nat
  BY GapType
<1>2. <<"ACT", "RD", T.nRCD>> \in Gaps
  BY DEF Gaps, BankGaps
<1>3. T.nRCD \in S
  BY <1>2
<1>4. PICK n \in Nat : \A x \in S : x <= n
  BY GapsBounded
<1>5. Oldest = Max(S)
  BY DEF Oldest, Gaps
<1> HIDE DEF S
<1>6. Max(S) \in S /\ \A y \in S : y <= Max(S)
  BY <1>1, <1>3, <1>4, MaxIsGreatest
<1>7. \A g \in Gaps : g[3] \in S
  BY DEF S
<1>8. Oldest >= T.nRCD /\ Oldest \in Nat
  BY <1>1, <1>3, <1>5, <1>6
<1> QED BY <1>5, <1>6, <1>7, <1>8, TimesType, TimingAssumption

(* An entry of a table is the longest of the gaps of its commands. *)
LEMMA TableOfGaps ==
  ASSUME NEW gaps, gaps \subseteq Gaps
  PROVE  /\ Table(gaps) \in [Commands -> [Commands -> 0 .. Oldest]]
         /\ \A g \in gaps : g[3] <= Table(gaps)[g[1]][g[2]]
<1> DEFINE S(c, d) == {0} \cup {g[3] : g \in {h \in gaps : h[1] = c /\ h[2] = d}}
<1>1. ASSUME NEW c \in Commands, NEW d \in Commands
      PROVE  /\ Max(S(c, d)) \in 0 .. Oldest
             /\ \A g \in gaps : g[1] = c /\ g[2] = d => g[3] <= Max(S(c, d))
  <2>1. S(c, d) \subseteq Nat
    BY GapType
  <2>2. \A x \in S(c, d) : x <= Oldest
    BY OldestIsLongest
  <2>3. 0 \in S(c, d)
    OBVIOUS
  <2>4. \A g \in gaps : g[1] = c /\ g[2] = d => g[3] \in S(c, d)
    OBVIOUS
  <2> HIDE DEF S
  <2>5. Max(S(c, d)) \in S(c, d) /\ \A y \in S(c, d) : y <= Max(S(c, d))
    BY <2>1, <2>2, <2>3, OldestIsLongest, MaxIsGreatest
  <2>6. Max(S(c, d)) \in Nat /\ Max(S(c, d)) <= Oldest
    BY <2>1, <2>2, <2>5
  <2> QED BY <2>4, <2>5, <2>6, OldestIsLongest
<1>2. Table(gaps) = [c \in Commands |-> [d \in Commands |-> Max(S(c, d))]]
  BY DEF Table
<1> HIDE DEF S
<1>3. Table(gaps) \in [Commands -> [Commands -> 0 .. Oldest]]
  BY <1>1, <1>2
<1>4. ASSUME NEW g \in gaps PROVE g[3] <= Table(gaps)[g[1]][g[2]]
  <2>1. g[1] \in Commands /\ g[2] \in Commands
    BY GapType
  <2> QED BY <1>1, <1>2, <2>1
<1> QED BY <1>3, <1>4

----------------------------------------------------------------------------
(* Type correctness *)

(* The DRAM: no time to wait exceeds the longest gap. *)
Times == [Commands -> 0 .. Oldest]
DramTypeOK ==
  /\ row \in [Banks -> Rows \cup {Closed}]
  /\ table \in [Banks -> Rows \cup {Closed}]
  /\ until \in [vault : Times, bank : [Banks -> Times]]
  /\ refreshed \in 0 .. T.nREFI - 1
  /\ issued \in Commands \cup {"none"}
  /\ age \in [Banks -> [Events -> 0 .. Oldest]]
  /\ otherq \in Nat

QueueTypeOK ==
  /\ arrived \in Seq(Requests)
  /\ readq \in Seq(Requests) /\ writeq \in Seq(Requests)
  /\ pending \in Seq([req : Requests, left : Nat, forwarded : BOOLEAN])
  /\ burst_count \in [Requests -> 0 .. BurstCount]
  /\ begun \subseteq Requests
  /\ serving \in Int
  /\ write_mode \in BOOLEAN
  /\ responses \in Seq(Requests)
  /\ answered \subseteq Requests

TypeOK == DramTypeOK /\ QueueTypeOK

LEMMA PlacesOf ==
  ASSUME NEW r \in Requests
  PROVE  Bank(r) \in Banks /\ Row(r) \in Rows /\ Type(r) \in {"READ", "WRITE"}
BY TrafficAssumption DEF Bank, Row, Addr, Type, Banks, Rows, Addresses, Requests

LEMMA BanksRows ==
  Banks \subseteq Nat /\ Rows \subseteq Nat /\ Closed \notin Banks /\ Closed \notin Rows
BY TrafficAssumption DEF Banks, Rows, Addresses, Closed

LEMMA OlderType ==
  ASSUME NEW n \in 0 .. Oldest
  PROVE  Older(n) \in 0 .. Oldest /\ Older(n) > 0
BY OldestIsLongest DEF Older

LEMMA LaterType ==
  ASSUME NEW left \in Times
  PROVE  Later(left) \in Times
BY OldestIsLongest DEF Later, Times

LEMMA GapTables ==
  /\ VaultGap \in [Commands -> Times] /\ BankGap \in [Commands -> Times]
  /\ \A g \in VaultGaps : g[3] <= VaultGap[g[1]][g[2]]
  /\ \A g \in BankGaps : g[3] <= BankGap[g[1]][g[2]]
<1>1. VaultGaps \subseteq Gaps /\ BankGaps \subseteq Gaps
  BY DEF Gaps
<1> QED BY <1>1, TableOfGaps DEF VaultGap, BankGap, Times

LEMMA AfterType ==
  ASSUME NEW gap \in [Commands -> Times], NEW cmd \in Commands, NEW left \in Times
  PROVE  /\ After(gap, cmd, left) \in Times
         /\ \A c \in Commands : /\ After(gap, cmd, left)[c] >= left[c]
                                /\ After(gap, cmd, left)[c] >= gap[cmd][c]
<1>1. gap[cmd] \in Times
  OBVIOUS
<1>2. \A c \in Commands : left[c] \in Nat /\ gap[cmd][c] \in Nat
  BY <1>1, OldestIsLongest DEF Times
<1>3. After(gap, cmd, left) \in Times
  BY <1>1 DEF After, Times
<1> QED BY <1>2, <1>3 DEF After

LEMMA TimesLeft ==
  ASSUME DramTypeOK
  PROVE  Vault \in Times /\ OfBank \in [Banks -> Times]
BY LaterType DEF DramTypeOK, Vault, OfBank

(* What a command does to the DRAM, and what a tick without one does *)
LEMMA IssueType ==
  ASSUME DramTypeOK, NEW cmd \in Commands, NEW b \in Banks \cup {Closed},
         NEW r \in Rows \cup {Closed}, Issue(cmd, b, r)
  PROVE  /\ row' \in [Banks -> Rows \cup {Closed}]
         /\ table' \in [Banks -> Rows \cup {Closed}]
         /\ until' \in [vault : Times, bank : [Banks -> Times]]
         /\ issued' \in Commands \cup {"none"}
         /\ age' \in [Banks -> [Events -> 0 .. Oldest]]
<1>1. row' \in [Banks -> Rows \cup {Closed}] /\ table' \in [Banks -> Rows \cup {Closed}]
  BY DEF Issue, DramTypeOK
<1>2. until' \in [vault : Times, bank : [Banks -> Times]]
  BY TimesLeft, GapTables, AfterType DEF Issue
<1>3. age' \in [Banks -> [Events -> 0 .. Oldest]]
  BY OlderType, OldestIsLongest DEF Issue, DramTypeOK
<1> QED BY <1>1, <1>2, <1>3 DEF Issue

LEMMA NoIssueType ==
  ASSUME DramTypeOK, NoIssue
  PROVE  /\ row' \in [Banks -> Rows \cup {Closed}]
         /\ table' \in [Banks -> Rows \cup {Closed}]
         /\ until' \in [vault : Times, bank : [Banks -> Times]]
         /\ issued' \in Commands \cup {"none"}
         /\ age' \in [Banks -> [Events -> 0 .. Oldest]]
BY TimesLeft, OlderType DEF NoIssue, DramTypeOK

----------------------------------------------------------------------------
(* The steps of the DRAM *)

LEMMA QueueType ==
  ASSUME QueueTypeOK
  PROVE  Queue \in Seq(Requests) /\ DOMAIN Queue \subseteq Nat
                                /\ \A i \in DOMAIN Queue : Queue[i] \in Requests
<1>1. Queue \in Seq(Requests)
  BY DEF QueueTypeOK, Queue
<1> QED BY <1>1

(* The scheduler chooses a request of the queue that is ready. *)
LEMMA HeadIsReady ==
  ASSUME QueueTypeOK, NEW r \in GetHead
  PROVE  r \in Requests /\ r \in Range(Queue) /\ IsReady(r)
<1> DEFINE S == IF ReadyHits # {} THEN ReadyHits ELSE Others
<1>1. r \in First(S)
  BY DEF GetHead
<1>2. S \subseteq DOMAIN Queue /\ \A i \in S : IsReady(Queue[i])
  BY DEF ReadyHits, Others
<1> HIDE DEF S
<1>3. S # {} /\ r = Queue[Min(S)]
  BY <1>1 DEF First
<1>4. Min(S) \in S
  BY <1>2, <1>3, QueueType, MinIsLeast
<1> QED BY <1>2, <1>3, <1>4, QueueType DEF Range

(* A command of a request *)
Access(cmd, b, x) ==
  /\ cmd \in {"ACT", "PRE", "RD", "WR"} /\ b \in Banks /\ x \in Rows
  /\ Check(cmd, b)
  /\ (cmd = "ACT") = (row[b] = Closed)
  /\ Issue(cmd, b, x)

(* A command of a refresh *)
Maintain(cmd) ==
  /\ cmd = RefreshCmd /\ Vault[cmd] = 0
  /\ Issue(cmd, Closed, Closed)

DramStep(cmd) ==
  \/ cmd = "none" /\ NoIssue
  \/ cmd \in {"PREA", "REF"} /\ Maintain(cmd)
  \/ \E b \in Banks, x \in Rows : Access(cmd, b, x)

Ticks(cmd) == Clock /\ issued' = cmd /\ DramStep(cmd)

LEMMA StartTicks ==
  ASSUME QueueTypeOK, NEW r \in Requests, Start(r)
  PROVE  /\ Ticks(FirstCmd(r)) /\ FirstCmd(r) \in {"ACT", "PRE", "RD", "WR"}
         /\ Refreshes = 0 /\ r \in Range(Queue)
<1>1. r \in GetHead /\ Clock /\ Issue(FirstCmd(r), Bank(r), Row(r)) /\ Refreshes = 0
  BY DEF Start
<1>2. r \in Range(Queue) /\ Check(FirstCmd(r), Bank(r))
  BY <1>1, HeadIsReady DEF IsReady
<1>3. FirstCmd(r) \in {"ACT", "PRE", "RD", "WR"}
  BY DEF FirstCmd
<1>4. (FirstCmd(r) = "ACT") = (row[Bank(r)] = Closed)
  BY DEF FirstCmd, IsRowOpen
<1>5. Access(FirstCmd(r), Bank(r), Row(r))
  BY <1>1, <1>2, <1>3, <1>4, PlacesOf DEF Access
<1>6. issued' = FirstCmd(r)
  BY <1>1 DEF Issue
<1> QED BY <1>1, <1>2, <1>3, <1>5, <1>6, PlacesOf DEF Ticks, DramStep

LEMMA TickTicks ==
  ASSUME QueueTypeOK, Tick
  PROVE  \E cmd \in Commands \cup {"none"} : Ticks(cmd)
<1>1. CASE TickRefresh
  <2>1. CASE Vault[RefreshCmd] = 0
    BY <1>1, <2>1 DEF TickRefresh, Ticks, DramStep, Maintain, RefreshCmd, Commands, Issue
  <2>2. CASE Vault[RefreshCmd] # 0
    BY <1>1, <2>2 DEF TickRefresh, Ticks, DramStep, NoIssue
  <2> QED BY <2>1, <2>2
<1>2. CASE TickIdle
  BY <1>2 DEF TickIdle, Ticks, DramStep, NoIssue
<1>3. ASSUME NEW r \in Requests, TickRow(r) \/ TickRead(r) \/ TickWrite(r)
      PROVE  \E cmd \in Commands \cup {"none"} : Ticks(cmd)
  <2>1. Start(r)
    BY <1>3 DEF TickRow, TickRead, TickWrite
  <2> QED BY <2>1, StartTicks DEF Commands
<1> QED BY <1>1, <1>2, <1>3 DEF Tick

LEMMA ReceiveLeavesDram ==
  ASSUME NEW r \in Requests, Receive(r)
  PROVE  UNCHANGED <<dramVars, historyVars, otherq>>
BY DEF Receive

LEMMA TicksType ==
  ASSUME DramTypeOK, NEW cmd, Ticks(cmd)
  PROVE  /\ row' \in [Banks -> Rows \cup {Closed}]
         /\ table' \in [Banks -> Rows \cup {Closed}]
         /\ until' \in [vault : Times, bank : [Banks -> Times]]
         /\ issued' \in Commands \cup {"none"}
         /\ age' \in [Banks -> [Events -> 0 .. Oldest]]
         /\ refreshed' \in 0 .. T.nREFI - 1
<1>1. refreshed' \in 0 .. T.nREFI - 1
  <2>1. T.nREFI \in Nat /\ T.nREFI > 0
    BY TimesType, TimingAssumption
  <2>2. refreshed' = IF refreshed + 1 >= T.nREFI THEN 0 ELSE refreshed + 1
    BY DEF Ticks, Clock, RefreshDue
  <2> QED BY <2>1, <2>2 DEF DramTypeOK
<1>2. CASE NoIssue
  BY <1>1, <1>2, NoIssueType
<1>3. CASE cmd \in {"PREA", "REF"} /\ Maintain(cmd)
  BY <1>1, <1>3, IssueType DEF Maintain, Commands
<1>4. CASE \E b \in Banks, x \in Rows : Access(cmd, b, x)
  BY <1>1, <1>4, IssueType DEF Access, Commands
<1> QED BY <1>2, <1>3, <1>4 DEF Ticks, DramStep

----------------------------------------------------------------------------
(* Queues without repetition *)

LEMMA AppendFresh ==
  ASSUME NEW S, NEW q \in Seq(S), NEW r \in S
  PROVE  /\ Append(q, r) \in Seq(S)
         /\ Range(Append(q, r)) = Range(q) \cup {r}
         /\ IsInjective(q) /\ r \notin Range(q) => IsInjective(Append(q, r))
<1>1. /\ DOMAIN Append(q, r) = 1 .. Len(q) + 1 /\ DOMAIN q = 1 .. Len(q)
      /\ \A i \in 1 .. Len(q) : Append(q, r)[i] = q[i]
      /\ Append(q, r)[Len(q) + 1] = r /\ Len(q) \in Nat
  BY AppendProperties, LenProperties
<1>2. Range(Append(q, r)) = Range(q) \cup {r}
  BY <1>1 DEF Range
<1>3. ASSUME IsInjective(q), r \notin Range(q) PROVE IsInjective(Append(q, r))
  BY <1>1, <1>3 DEF IsInjective, Range
<1> QED BY <1>2, <1>3

LEMMA TailTakes ==
  ASSUME NEW S, NEW q \in Seq(S), q # <<>>
  PROVE  /\ Tail(q) \in Seq(S) /\ q[1] \in S /\ q[1] \in Range(q)
         /\ Range(Tail(q)) \subseteq Range(q)
         /\ IsInjective(q) => IsInjective(Tail(q)) /\ Range(Tail(q)) = Range(q) \ {q[1]}
<1>1. /\ DOMAIN q = 1 .. Len(q) /\ DOMAIN Tail(q) = 1 .. Len(q) - 1
      /\ \A i \in 1 .. Len(q) - 1 : Tail(q)[i] = q[i + 1]
      /\ Len(q) \in Nat /\ Len(q) > 0
  BY HeadTailProperties, LenProperties, EmptySeq
<1>2. Range(Tail(q)) \subseteq Range(q) /\ q[1] \in Range(q) /\ q[1] \in S
  BY <1>1 DEF Range
<1>3. ASSUME IsInjective(q)
      PROVE  IsInjective(Tail(q)) /\ Range(Tail(q)) = Range(q) \ {q[1]}
  <2>1. IsInjective(Tail(q))
    BY <1>1, <1>3 DEF IsInjective
  <2>2. q[1] \notin Range(Tail(q))
    BY <1>1, <1>3 DEF IsInjective, Range
  <2>3. ASSUME NEW i \in 2 .. Len(q) PROVE q[i] \in Range(Tail(q))
    <3>1. i - 1 \in 1 .. Len(q) - 1 /\ (i - 1) + 1 = i
      BY <1>1
    <3>2. q[i] = Tail(q)[i - 1]
      BY <3>1, <1>1
    <3> QED BY <3>1, <3>2, <1>1 DEF Range
  <2>4. \A i \in 1 .. Len(q) : i = 1 \/ i \in 2 .. Len(q)
    BY <1>1
  <2> QED BY <1>1, <1>2, <2>1, <2>2, <2>3, <2>4 DEF Range
<1> QED BY <1>2, <1>3

(* erase takes out the one place the request has. *)
LEMMA ErasedTakes ==
  ASSUME NEW S, NEW q \in Seq(S), NEW r \in Range(q)
  PROVE  /\ Erased(q, r) \in Seq(S) /\ Len(Erased(q, r)) = Len(q) - 1
         /\ Range(Erased(q, r)) \subseteq Range(q)
         /\ IsInjective(q) => /\ IsInjective(Erased(q, r))
                              /\ Range(Erased(q, r)) = Range(q) \ {r}
<1> DEFINE p == Place(q, r)
           a == SubSeq(q, 1, p - 1)
           c == SubSeq(q, p + 1, Len(q))
<1>1. DOMAIN q = 1 .. Len(q) /\ Len(q) \in Nat
  BY LenProperties
<1>2. p \in 1 .. Len(q) /\ q[p] = r
  BY <1>1 DEF Place, Range
<1> HIDE DEF p
<1>3. a \in Seq(S) /\ Len(a) = p - 1 /\ \A i \in 1 .. p - 1 : a[i] = q[i]
  <2>1. \A i \in 1 .. p - 1 : q[i] \in S
    BY <1>1, <1>2
  <2>2. p - 1 \in Int /\ p - 1 >= 0 /\ 1 \in Int
    BY <1>1, <1>2
  <2>3. /\ a \in Seq(S) /\ Len(a) = IF 1 <= p - 1 THEN (p - 1) - 1 + 1 ELSE 0
        /\ \A i \in 1 .. (p - 1) - 1 + 1 : a[i] = q[1 + i - 1]
    BY <2>1, <2>2, SubSeqProperties
  <2> QED BY <2>2, <2>3
<1>4. c \in Seq(S) /\ Len(c) = Len(q) - p /\ \A i \in 1 .. Len(q) - p : c[i] = q[p + i]
  <2>1. \A i \in p + 1 .. Len(q) : q[i] \in S
    BY <1>1, <1>2
  <2>2. p + 1 \in Int /\ Len(q) \in Int /\ p <= Len(q)
    BY <1>1, <1>2
  <2>3. /\ c \in Seq(S) /\ Len(c) = IF p + 1 <= Len(q) THEN Len(q) - (p + 1) + 1 ELSE 0
        /\ \A i \in 1 .. Len(q) - (p + 1) + 1 : c[i] = q[(p + 1) + i - 1]
    BY <2>1, <2>2, SubSeqProperties
  <2> QED BY <2>2, <2>3, <1>2
<1>5. Erased(q, r) = a \o c
  BY DEF Erased, p
<1> HIDE DEF a, c
<1> DEFINE e == a \o c
<1>6. /\ e \in Seq(S) /\ Len(e) = Len(q) - 1
      /\ \A i \in 1 .. Len(q) - 1 : e[i] = IF i < p THEN q[i] ELSE q[i + 1]
  <2>1. /\ e \in Seq(S) /\ Len(e) = Len(a) + Len(c)
        /\ \A i \in 1 .. Len(a) + Len(c) : e[i] = IF i <= Len(a) THEN a[i] ELSE c[i - Len(a)]
    BY <1>3, <1>4, ConcatProperties
  <2>2. Len(a) + Len(c) = Len(q) - 1
    BY <1>1, <1>2, <1>3, <1>4
  <2>3. ASSUME NEW i \in 1 .. Len(q) - 1
        PROVE  e[i] = IF i < p THEN q[i] ELSE q[i + 1]
    <3> HIDE DEF e
    <3>1. CASE i < p
      BY <3>1, <2>1, <2>2, <1>1, <1>2, <1>3
    <3>2. CASE i >= p
      <4>1. i - Len(a) \in 1 .. Len(q) - p /\ p + (i - Len(a)) = i + 1 /\ ~(i <= Len(a))
        BY <3>2, <1>1, <1>2, <1>3
      <4>2. e[i] = c[i - Len(a)]
        BY <4>1, <2>1, <2>2
      <4>3. c[i - Len(a)] = q[p + (i - Len(a))]
        BY <4>1, <1>4
      <4>4. ~(i < p)
        BY <3>2, <1>2
      <4> QED BY <4>1, <4>2, <4>3, <4>4
    <3> QED BY <3>1, <3>2, <1>1, <1>2
  <2> QED BY <2>1, <2>2, <2>3
<1> HIDE DEF e
<1>7. DOMAIN e = 1 .. Len(q) - 1
  BY <1>6, LenProperties
<1>8. Range(e) \subseteq Range(q)
  <2>1. ASSUME NEW i \in DOMAIN e
        PROVE  e[i] \in Range(q)
    <3>1. i \in 1 .. Len(q) - 1 /\ i \in DOMAIN q /\ i + 1 \in DOMAIN q
      BY <1>1, <1>7
    <3>2. e[i] = q[i] \/ e[i] = q[i + 1]
      BY <1>6, <3>1
    <3> QED BY <3>1, <3>2 DEF Range
  <2> QED BY <2>1 DEF Range
<1>9. ASSUME IsInjective(q)
      PROVE  IsInjective(e) /\ Range(e) = Range(q) \ {r}
  <2>1. \A i, j \in 1 .. Len(q) : q[i] = q[j] => i = j
    BY <1>1, <1>9 DEF IsInjective
  <2>2. IsInjective(e)
    BY <2>1, <1>1, <1>2, <1>6, <1>7 DEF IsInjective
  <2>3. \A i \in 1 .. Len(q) - 1 : e[i] # r
    BY <2>1, <1>1, <1>2, <1>6
  <2>4. ASSUME NEW i \in 1 .. Len(q), i # p PROVE q[i] \in Range(e)
    <3>1. CASE i < p
      BY <3>1, <1>1, <1>2, <1>6, <1>7 DEF Range
    <3>2. CASE i > p
      <4>1. i - 1 \in 1 .. Len(q) - 1 /\ ~(i - 1 < p) /\ (i - 1) + 1 = i
        BY <3>2, <1>1, <1>2
      <4>2. e[i - 1] = q[i]
        BY <4>1, <1>6
      <4> QED BY <4>1, <4>2, <1>7 DEF Range
    <3> QED BY <2>4, <3>1, <3>2, <1>1, <1>2
  <2> QED BY <1>1, <1>2, <1>7, <1>8, <2>2, <2>3, <2>4 DEF Range
<1> QED BY <1>5, <1>6, <1>8, <1>9 DEF e

----------------------------------------------------------------------------
(* The way of a request through the queues *)

Reads == Range(readq)
Writes == Range(writeq)
Departing == Range(PendingReqs)
Answers == Range(responses)

(* A request received is in one place, and a request is begun while it has *)
(* had some of its accesses.                                               *)
PlaceInv ==
  /\ IsInjective(readq) /\ IsInjective(writeq) /\ IsInjective(PendingReqs)
  /\ Reads \cup Departing \cup answered \subseteq {r \in Range(arrived) : Type(r) = "READ"}
  /\ Writes \cup Answers \subseteq {r \in Range(arrived) : Type(r) = "WRITE"}
  /\ Reads \cap Departing = {} /\ Reads \cap answered = {} /\ Departing \cap answered = {}
  /\ Writes \cap Answers = {}

BegunInv ==
  /\ begun \subseteq Range(arrived)
  /\ \A i \in DOMAIN pending : pending[i].forwarded = (pending[i].req \notin begun)
  /\ \A r \in Requests : r \notin Range(arrived) => burst_count[r] = BurstCount

QueueInv == PlaceInv /\ BegunInv /\ BurstsComplete

Underway == {r \in begun : ~Served(r)}

----------------------------------------------------------------------------
(* What the counters of the DRAM remember of each bank *)

(* A command is held back, now or by the time it may come, until gap       *)
(* cycles after the event.                                                 *)
Covers(left, n, gap) == left + n >= gap

CoverInv(b) ==
  LET V == until.vault
      K == until.bank[b]
      a == age[b]
  IN
  /\ Covers(K["PRE"], a["ACT"], T.nRAS) /\ Covers(V["PREA"], a["ACT"], T.nRAS)
  /\ Covers(K["PRE"], a["RD"], T.nRTP) /\ Covers(V["PREA"], a["RD"], T.nRTP)
  /\ Covers(K["PRE"], a["WR"], WriteTime + T.nWR)
  /\ Covers(V["PREA"], a["WR"], WriteTime + T.nWR)
  /\ Covers(K["ACT"], a["PRE"], T.nRP) \/ Covers(V["ACT"], a["PRE"], T.nRP)
  /\ Covers(V["REF"], a["PRE"], T.nRP) /\ Covers(V["ACT"], a["REF"], T.nRFC)
  /\ Covers(K["RD"], a["ACT"], T.nRCD) /\ Covers(K["WR"], a["ACT"], T.nRCD)

TimeInv == \A b \in Banks : CoverInv(b)

(* A refresh that waits is done in time: first the PREA, if a row is open, *)
(* then the REF, each after the longest gap at most.                       *)
AllClosed == \A b \in Banks : row[b] = Closed
RefreshInv ==
  /\ otherq <= 1
  /\ otherq = 1 => IF AllClosed
                     THEN refreshed + until.vault["REF"] <= 2 * Oldest + 1
                     ELSE refreshed + until.vault["PREA"] <= Oldest

----------------------------------------------------------------------------
(* Refreshes keep up *)

LEMMA RefreshInit == ASSUME Init PROVE RefreshInv
BY DEF Init, RefreshInv

LEMMA RefreshBound ==
  ASSUME DramTypeOK, RefreshInv
  PROVE  RefreshKeepsUp
<1>1. until.vault["REF"] \in Nat /\ until.vault["PREA"] \in Nat
  BY OldestIsLongest DEF DramTypeOK, Times, Commands
<1> QED BY <1>1, OldestIsLongest, TimesType, RefreshAssumption
        DEF RefreshInv, RefreshKeepsUp, DramTypeOK

LEMMA RefreshServed ==
  ASSUME DramTypeOK, RefreshInv, TickRefresh
  PROVE  RefreshInv'
<1> DEFINE left == until.vault
<1>1. /\ left["REF"] \in 0 .. Oldest /\ left["PREA"] \in 0 .. Oldest
      /\ Oldest \in Nat /\ T.nREFI \in Nat /\ refreshed \in Nat /\ otherq \in Nat
  BY OldestIsLongest, TimesType DEF DramTypeOK, Times, Commands
<1>2. /\ Refreshes = 1
      /\ \/ otherq = 0 /\ refreshed' = 0
         \/ otherq = 1 /\ refreshed' = refreshed + 1
  BY <1>1, RefreshBound DEF TickRefresh, Clock, Refreshes, RefreshDue, RefreshKeepsUp, RefreshInv
<1>3. otherq' = IF issued' = "REF" THEN 0 ELSE 1
  BY <1>2 DEF TickRefresh, RefreshesLeft
<1>4. RefreshCmd = IF AllClosed THEN "REF" ELSE "PREA"
  BY DEF RefreshCmd, AllClosed
<1>5. CASE Vault[RefreshCmd] = 0
  <2>1. Issue(RefreshCmd, Closed, Closed)
    BY <1>5 DEF TickRefresh
  <2>2. CASE AllClosed
    BY <2>1, <2>2, <1>3, <1>4 DEF Issue, RefreshInv
  <2>3. CASE ~AllClosed
    <3>1. issued' = "PREA" /\ \A b \in Banks : row'[b] = Closed
      BY <2>1, <2>3, <1>4 DEF Issue
    <3>2. until'.vault = After(VaultGap, "PREA", Vault)
      BY <2>1, <2>3, <1>4 DEF Issue
    <3>3. After(VaultGap, "PREA", Vault) \in Times
      BY AfterType, GapTables, TimesLeft DEF Commands
    <3>4. until'.vault["REF"] <= Oldest /\ until'.vault["REF"] \in Nat
      BY <3>2, <3>3, <1>1 DEF Times, Commands
    <3>5. refreshed' <= Oldest + 1
      BY <1>1, <1>2, <2>3 DEF RefreshInv
    <3>6. refreshed' + until'.vault["REF"] <= 2 * Oldest + 1
      BY <3>4, <3>5, <1>1, <1>2
    <3> QED BY <3>1, <3>6, <1>3 DEF RefreshInv, AllClosed
  <2> QED BY <2>2, <2>3
<1>6. CASE Vault[RefreshCmd] # 0
  <2>1. NoIssue
    BY <1>6 DEF TickRefresh
  <2>2. row' = row /\ until'.vault = Vault /\ issued' = "none"
    BY <2>1 DEF NoIssue
  <2>3. /\ Vault["REF"] = IF left["REF"] = 0 THEN 0 ELSE left["REF"] - 1
        /\ Vault["PREA"] = IF left["PREA"] = 0 THEN 0 ELSE left["PREA"] - 1
    BY DEF Vault, Later, Commands
  <2>4. CASE AllClosed
    <3>1. left["REF"] # 0 /\ Vault["REF"] = left["REF"] - 1
      BY <2>3, <2>4, <1>4, <1>6
    <3>2. refreshed' + Vault["REF"] <= 2 * Oldest + 1
      BY <3>1, <2>4, <1>1, <1>2 DEF RefreshInv
    <3> QED BY <3>2, <2>2, <2>4, <1>3 DEF RefreshInv, AllClosed
  <2>5. CASE ~AllClosed
    <3>1. left["PREA"] # 0 /\ Vault["PREA"] = left["PREA"] - 1
      BY <2>3, <2>5, <1>4, <1>6
    <3>2. refreshed' + Vault["PREA"] <= Oldest
      BY <3>1, <2>5, <1>1, <1>2 DEF RefreshInv
    <3> QED BY <3>2, <2>2, <2>5, <1>3 DEF RefreshInv, AllClosed
  <2> QED BY <2>4, <2>5
<1> QED BY <1>5, <1>6

LEMMA RefreshNext ==
  ASSUME DramTypeOK, RefreshInv, [Next]_vars
  PROVE  RefreshInv'
<1>1. CASE UNCHANGED <<dramVars, historyVars, otherq>>
  BY <1>1 DEF RefreshInv, AllClosed, dramVars
<1>2. CASE TickRefresh
  BY <1>2, RefreshServed
<1>3. ASSUME Refreshes = 0, otherq' = otherq
      PROVE  RefreshInv'
  <2>1. otherq' = 0
    BY <1>3 DEF Refreshes, DramTypeOK
  <2> QED BY <2>1 DEF RefreshInv
<1>4. CASE TickIdle
  BY <1>3, <1>4 DEF TickIdle
<1>5. ASSUME NEW r \in Requests, TickRow(r) \/ TickRead(r) \/ TickWrite(r)
      PROVE  RefreshInv'
  BY <1>3, <1>5 DEF TickRow, TickRead, TickWrite, Start
<1>6. ASSUME NEW r \in Requests, Receive(r) PROVE RefreshInv'
  BY <1>1, <1>6, ReceiveLeavesDram
<1>7. CASE UNCHANGED vars
  BY <1>1, <1>7 DEF vars, queueVars, historyVars
<1> QED BY <1>2, <1>4, <1>5, <1>6, <1>7 DEF Next, Tick

----------------------------------------------------------------------------
(* The timing is kept *)

LEMMA CoversInTime ==
  ASSUME NEW left \in 0 .. Oldest, NEW n \in 0 .. Oldest, NEW gap \in 0 .. Oldest,
         Covers(left, n, gap), NEW later \in 0 .. Oldest,
         later >= IF left = 0 THEN 0 ELSE left - 1
  PROVE  Covers(later, Older(n), gap) /\ (left <= 1 /\ later = 0 => Older(n) >= gap)
BY OldestIsLongest DEF Covers, Older

(* The gaps that the properties are about *)
LEMMA GapsKnown ==
  /\ T.nRAS \in 0 .. Oldest /\ T.nRTP \in 0 .. Oldest /\ WriteTime + T.nWR \in 0 .. Oldest
  /\ T.nRP \in 0 .. Oldest /\ T.nRCD \in 0 .. Oldest /\ T.nRFC \in 0 .. Oldest
  /\ BankGap["ACT"]["PRE"] >= T.nRAS /\ VaultGap["ACT"]["PREA"] >= T.nRAS
  /\ BankGap["RD"]["PRE"] >= T.nRTP /\ VaultGap["RD"]["PREA"] >= T.nRTP
  /\ BankGap["WR"]["PRE"] >= WriteTime + T.nWR /\ VaultGap["WR"]["PREA"] >= WriteTime + T.nWR
  /\ BankGap["PRE"]["ACT"] >= T.nRP /\ VaultGap["PREA"]["ACT"] >= T.nRP
  /\ VaultGap["PRE"]["REF"] >= T.nRP /\ VaultGap["PREA"]["REF"] >= T.nRP
  /\ VaultGap["REF"]["ACT"] >= T.nRFC
  /\ BankGap["ACT"]["RD"] >= T.nRCD /\ BankGap["ACT"]["WR"] >= T.nRCD
<1>1. /\ <<"ACT", "PRE", T.nRAS>> \in BankGaps /\ <<"RD", "PRE", T.nRTP>> \in BankGaps
      /\ <<"WR", "PRE", WriteTime + T.nWR>> \in BankGaps
      /\ <<"PRE", "ACT", T.nRP>> \in BankGaps
      /\ <<"ACT", "RD", T.nRCD>> \in BankGaps /\ <<"ACT", "WR", T.nRCD>> \in BankGaps
  BY DEF BankGaps
<1>2. /\ <<"ACT", "PREA", T.nRAS>> \in VaultGaps /\ <<"RD", "PREA", T.nRTP>> \in VaultGaps
      /\ <<"WR", "PREA", WriteTime + T.nWR>> \in VaultGaps
      /\ <<"PREA", "ACT", T.nRP>> \in VaultGaps /\ <<"PRE", "REF", T.nRP>> \in VaultGaps
      /\ <<"PREA", "REF", T.nRP>> \in VaultGaps /\ <<"REF", "ACT", T.nRFC>> \in VaultGaps
  BY DEF VaultGaps
<1>3. \A c, d, n : <<c, d, n>> \in BankGaps => n <= BankGap[c][d]
  <2> SUFFICES ASSUME NEW c, NEW d, NEW n, <<c, d, n>> \in BankGaps
               PROVE  n <= BankGap[c][d]
    OBVIOUS
  <2> DEFINE g == <<c, d, n>>
  <2>1. g \in BankGaps /\ g[1] = c /\ g[2] = d /\ g[3] = n
    OBVIOUS
  <2> HIDE DEF g
  <2> QED BY <2>1, GapTables
<1>4. \A c, d, n : <<c, d, n>> \in VaultGaps => n <= VaultGap[c][d]
  <2> SUFFICES ASSUME NEW c, NEW d, NEW n, <<c, d, n>> \in VaultGaps
               PROVE  n <= VaultGap[c][d]
    OBVIOUS
  <2> DEFINE g == <<c, d, n>>
  <2>1. g \in VaultGaps /\ g[1] = c /\ g[2] = d /\ g[3] = n
    OBVIOUS
  <2> HIDE DEF g
  <2> QED BY <2>1, GapTables
<1>5. \A c, d, n : <<c, d, n>> \in Gaps => n <= Oldest /\ n \in Nat
  <2> SUFFICES ASSUME NEW c, NEW d, NEW n, <<c, d, n>> \in Gaps
               PROVE  n <= Oldest /\ n \in Nat
    OBVIOUS
  <2> DEFINE g == <<c, d, n>>
  <2>1. g \in Gaps /\ g[3] = n
    OBVIOUS
  <2> HIDE DEF g
  <2> QED BY <2>1, OldestIsLongest, GapType
<1>6. /\ T.nRAS \in 0 .. Oldest /\ T.nRTP \in 0 .. Oldest /\ WriteTime + T.nWR \in 0 .. Oldest
      /\ T.nRP \in 0 .. Oldest /\ T.nRCD \in 0 .. Oldest /\ T.nRFC \in 0 .. Oldest
  <2>1. \A c, d, n : <<c, d, n>> \in BankGaps \cup VaultGaps => n \in 0 .. Oldest
    BY <1>5, OldestIsLongest DEF Gaps
  <2> QED BY <1>1, <1>2, <2>1
<1>7. /\ \A n : n <= BankGap["ACT"]["PRE"] => BankGap["ACT"]["PRE"] >= n
      /\ \A n, m : n <= m <=> m >= n
  OBVIOUS
<1> QED BY <1>1, <1>2, <1>3, <1>4, <1>6, <1>7

(* What a tick does to the times and the history of a bank *)
LEMMA TimesPass ==
  ASSUME DramTypeOK, NEW cmd, Ticks(cmd), NEW b \in Banks, NEW c \in Commands
  PROVE  /\ until'.vault[c] >= IF until.vault[c] = 0 THEN 0 ELSE until.vault[c] - 1
         /\ until'.bank[b][c] >= IF until.bank[b][c] = 0 THEN 0 ELSE until.bank[b][c] - 1
<1>1. /\ Vault[c] = IF until.vault[c] = 0 THEN 0 ELSE until.vault[c] - 1
      /\ OfBank[b][c] = IF until.bank[b][c] = 0 THEN 0 ELSE until.bank[b][c] - 1
      /\ Vault[c] \in Nat /\ OfBank[b][c] \in Nat
  <2>1. until.vault \in Times /\ until.bank[b] \in Times
    BY DEF DramTypeOK
  <2> QED BY <2>1, OldestIsLongest DEF Vault, OfBank, Later, Times
<1>2. CASE NoIssue
  BY <1>1, <1>2 DEF NoIssue
<1>3. ASSUME NEW d \in Commands, NEW x, NEW y, Issue(d, x, y)
      PROVE  until'.vault[c] >= Vault[c] /\ until'.bank[b][c] >= OfBank[b][c]
  <2>1. until'.vault = After(VaultGap, d, Vault)
    BY <1>3 DEF Issue
  <2>2. until'.bank[b] \in {OfBank[b], After(BankGap, d, OfBank[b])}
    BY <1>3 DEF Issue
  <2>3. Vault \in Times /\ OfBank[b] \in Times
    BY TimesLeft
  <2>4. After(VaultGap, d, Vault)[c] >= Vault[c]
    BY <2>3, AfterType, GapTables
  <2>5. After(BankGap, d, OfBank[b])[c] >= OfBank[b][c]
    BY <2>3, AfterType, GapTables
  <2> QED BY <2>1, <2>2, <2>4, <2>5, <1>1
<1>4. CASE ~NoIssue
  <2>1. until'.vault[c] >= Vault[c] /\ until'.bank[b][c] >= OfBank[b][c]
    BY <1>3, <1>4 DEF Ticks, DramStep, Maintain, Access, Commands
  <2> QED BY <2>1, <1>1
<1> QED BY <1>2, <1>4

(* An event that a tick brings about, and what is then to wait *)
LEMMA EventWaits ==
  ASSUME DramTypeOK, NEW cmd, Ticks(cmd), NEW b \in Banks, NEW e \in Events,
         age'[b][e] # Older(age[b][e])
  PROVE  /\ age'[b][e] = 0
         /\ \A c \in Commands : until'.vault[c] >= VaultGap[cmd][c]
         /\ \/ /\ cmd = e /\ e # "REF" /\ Check(cmd, b)
               /\ \A c \in Commands : until'.bank[b][c] >= BankGap[cmd][c]
            \/ cmd = "PREA" /\ e = "PRE"
            \/ cmd = "REF" /\ e = "REF"
<1>1. ~NoIssue
  BY DEF NoIssue
<1>2. ASSUME NEW d \in Commands, NEW x, NEW y, Issue(d, x, y)
      PROVE  /\ d = issued' /\ age'[b][e] = 0
             /\ \A c \in Commands : until'.vault[c] >= VaultGap[d][c]
             /\ \/ d = e /\ b = x
                \/ d = "PREA" /\ e = "PRE"
                \/ d = "REF" /\ e = "REF"
             /\ b = x => \A c \in Commands : until'.bank[b][c] >= BankGap[d][c]
  <2>1. /\ until'.vault = After(VaultGap, d, Vault) /\ d = issued'
        /\ b = x => until'.bank[b] = After(BankGap, d, OfBank[b])
    BY <1>2 DEF Issue
  <2>2. age'[b][e] = IF (d = e /\ b = x) \/ <<d, e>> \in {<<"PREA", "PRE">>, <<"REF", "REF">>}
                       THEN 0 ELSE Older(age[b][e])
    BY <1>2 DEF Issue
  <2>3. Vault \in Times /\ OfBank[b] \in Times
    BY TimesLeft
  <2>4. \A c \in Commands : /\ After(VaultGap, d, Vault)[c] >= VaultGap[d][c]
                            /\ After(BankGap, d, OfBank[b])[c] >= BankGap[d][c]
    BY <2>3, AfterType, GapTables
  <2> QED BY <2>1, <2>2, <2>4
<1>3. CASE \E x \in Banks, y \in Rows : Access(cmd, x, y)
  <2>1. PICK x \in Banks, y \in Rows : Access(cmd, x, y)
    BY <1>3
  <2>2. cmd \in {"ACT", "PRE", "RD", "WR"} /\ Issue(cmd, x, y) /\ Check(cmd, x)
    BY <2>1 DEF Access
  <2> QED BY <2>2, <1>2 DEF Commands
<1>4. CASE cmd \in {"PREA", "REF"} /\ Maintain(cmd)
  <2>1. Issue(cmd, Closed, Closed) /\ b # Closed
    BY <1>4, BanksRows DEF Maintain
  <2> QED BY <1>2, <1>4, <2>1 DEF Commands
<1> QED BY <1>1, <1>3, <1>4 DEF Ticks, DramStep

LEMMA CoverInit == ASSUME Init PROVE TimeInv
<1> SUFFICES ASSUME NEW b \in Banks PROVE CoverInv(b)
  BY DEF TimeInv
<1>1. \A e \in Events : age[b][e] = Oldest
  BY DEF Init
<1>2. \A c \in Commands : until.vault[c] = 0 /\ until.bank[b][c] = 0
  BY DEF Init, NoWait
<1>3. \A gap \in 0 .. Oldest : Covers(0, Oldest, gap)
  BY OldestIsLongest DEF Covers
<1> QED BY <1>1, <1>2, <1>3, GapsKnown DEF CoverInv, Events, Commands

(* The bank's and the vault's times cover an event as they did before, or  *)
(* it has happened just now and the command has set them.                  *)
LEMMA CoverStep ==
  ASSUME DramTypeOK, NEW cmd, Ticks(cmd), NEW b \in Banks, NEW e \in Events,
         NEW c \in Commands, NEW gap \in 0 .. Oldest
  PROVE  /\ /\ Covers(until.vault[c], age[b][e], gap)
            /\ age'[b][e] = 0 => until'.vault[c] >= gap
            => Covers(until'.vault[c], age'[b][e], gap)
         /\ /\ Covers(until.bank[b][c], age[b][e], gap)
            /\ age'[b][e] = 0 => until'.bank[b][c] >= gap
            => Covers(until'.bank[b][c], age'[b][e], gap)
<1>1. /\ until.vault[c] \in 0 .. Oldest /\ until.bank[b][c] \in 0 .. Oldest
      /\ age[b][e] \in 0 .. Oldest
  BY DEF DramTypeOK, Times
<1>2. /\ until'.vault[c] \in 0 .. Oldest /\ until'.bank[b][c] \in 0 .. Oldest
      /\ age'[b][e] \in 0 .. Oldest
  BY TicksType DEF Times
<1>3. age'[b][e] = 0 \/ age'[b][e] = Older(age[b][e])
  BY EventWaits
<1>4. \A left \in 0 .. Oldest : left >= gap => Covers(left, 0, gap)
  BY OldestIsLongest DEF Covers
<1>5. Covers(until.vault[c], age[b][e], gap) =>
        Covers(until'.vault[c], Older(age[b][e]), gap)
  BY <1>1, <1>2, TimesPass, CoversInTime
<1>6. Covers(until.bank[b][c], age[b][e], gap) =>
        Covers(until'.bank[b][c], Older(age[b][e]), gap)
  BY <1>1, <1>2, TimesPass, CoversInTime
<1> QED BY <1>2, <1>3, <1>4, <1>5, <1>6

LEMMA CoverNext ==
  ASSUME DramTypeOK, NEW cmd, Ticks(cmd), NEW b \in Banks, CoverInv(b)
  PROVE  CoverInv(b)'
<1> DEFINE V == until'.vault
           K == until'.bank[b]
           a == age'[b]
<1>1. ASSUME NEW e \in Events, a[e] = 0
      PROVE  /\ \A c \in Commands : V[c] >= VaultGap[cmd][c]
             /\ \/ cmd = e /\ e # "REF" /\ \A c \in Commands : K[c] >= BankGap[cmd][c]
                \/ cmd = "PREA" /\ e = "PRE"
                \/ cmd = "REF" /\ e = "REF"
  <2>1. a[e] # Older(age[b][e])
    BY <1>1, OlderType DEF DramTypeOK
  <2> QED BY <2>1, EventWaits
<1>2. \A c \in Commands : V[c] \in Nat /\ K[c] \in Nat
  BY TicksType, OldestIsLongest DEF Times
<1>3. \A c, d \in Commands : VaultGap[c][d] \in Nat /\ BankGap[c][d] \in Nat
  BY GapTables, OldestIsLongest DEF Times
<1>4. /\ T.nRAS \in Nat /\ T.nRTP \in Nat /\ WriteTime + T.nWR \in Nat
      /\ T.nRP \in Nat /\ T.nRCD \in Nat /\ T.nRFC \in Nat
  BY GapsKnown, OldestIsLongest
<1>5. {"ACT", "RD", "WR", "PRE", "REF"} = Events /\ Events \cup {"PREA"} = Commands
  BY DEF Events, Commands
<1>6. a["ACT"] = 0 => /\ K["PRE"] >= T.nRAS /\ V["PREA"] >= T.nRAS
                      /\ K["RD"] >= T.nRCD /\ K["WR"] >= T.nRCD
  BY <1>1, <1>2, <1>3, <1>4, <1>5, GapsKnown
<1>7. a["RD"] = 0 => K["PRE"] >= T.nRTP /\ V["PREA"] >= T.nRTP
  BY <1>1, <1>2, <1>3, <1>4, <1>5, GapsKnown
<1>8. a["WR"] = 0 => K["PRE"] >= WriteTime + T.nWR /\ V["PREA"] >= WriteTime + T.nWR
  BY <1>1, <1>2, <1>3, <1>4, <1>5, GapsKnown
<1>9. a["PRE"] = 0 => (K["ACT"] >= T.nRP \/ V["ACT"] >= T.nRP) /\ V["REF"] >= T.nRP
  BY <1>1, <1>2, <1>3, <1>4, <1>5, GapsKnown
<1>10. a["REF"] = 0 => V["ACT"] >= T.nRFC
  BY <1>1, <1>2, <1>3, <1>4, <1>5, GapsKnown
<1>11. /\ Covers(K["PRE"], a["ACT"], T.nRAS) /\ Covers(V["PREA"], a["ACT"], T.nRAS)
       /\ Covers(K["RD"], a["ACT"], T.nRCD) /\ Covers(K["WR"], a["ACT"], T.nRCD)
  BY <1>5, <1>6, CoverStep, GapsKnown DEF CoverInv
<1>12. Covers(K["PRE"], a["RD"], T.nRTP) /\ Covers(V["PREA"], a["RD"], T.nRTP)
  BY <1>5, <1>7, CoverStep, GapsKnown DEF CoverInv
<1>13. /\ Covers(K["PRE"], a["WR"], WriteTime + T.nWR)
       /\ Covers(V["PREA"], a["WR"], WriteTime + T.nWR)
  BY <1>5, <1>8, CoverStep, GapsKnown DEF CoverInv
<1>14. /\ Covers(K["ACT"], a["PRE"], T.nRP) \/ Covers(V["ACT"], a["PRE"], T.nRP)
       /\ Covers(V["REF"], a["PRE"], T.nRP)
  <2>1. CASE a["PRE"] = 0
    BY <2>1, <1>2, <1>4, <1>5, <1>9 DEF Covers
  <2>2. CASE a["PRE"] # 0
    BY <2>2, <1>5, CoverStep, GapsKnown DEF CoverInv
  <2> QED BY <2>1, <2>2
<1>15. Covers(V["ACT"], a["REF"], T.nRFC)
  BY <1>5, <1>10, CoverStep, GapsKnown DEF CoverInv
<1> QED BY <1>11, <1>12, <1>13, <1>14, <1>15 DEF CoverInv

(* A command that is not held back comes late enough. *)
LEMMA CoveredIsKept ==
  ASSUME DramTypeOK, NEW b \in Banks, NEW e \in Events, NEW c \in Commands,
         NEW gap \in 0 .. Oldest
  PROVE  /\ Vault[c] = 0 /\ Covers(until.vault[c], age[b][e], gap) =>
              Older(age[b][e]) >= gap
         /\ OfBank[b][c] = 0 /\ Covers(until.bank[b][c], age[b][e], gap) =>
              Older(age[b][e]) >= gap
<1>1. /\ until.vault[c] \in 0 .. Oldest /\ until.bank[b][c] \in 0 .. Oldest
      /\ age[b][e] \in 0 .. Oldest
  BY DEF DramTypeOK, Times
<1>2. /\ Vault[c] = IF until.vault[c] = 0 THEN 0 ELSE until.vault[c] - 1
      /\ OfBank[b][c] = IF until.bank[b][c] = 0 THEN 0 ELSE until.bank[b][c] - 1
  BY DEF Vault, OfBank, Later
<1> QED BY <1>1, <1>2, OldestIsLongest DEF Covers, Older

LEMMA TimingTick ==
  ASSUME DramTypeOK, TimeInv, NEW cmd, Ticks(cmd)
  PROVE  TimingKept'
<1> SUFFICES ASSUME NEW b \in Banks
    PROVE LET a == age'[b] IN
    /\ issued' \in {"PRE", "PREA"} /\ a["PRE"] = 0 =>
         a["ACT"] >= T.nRAS /\ a["RD"] >= T.nRTP /\ a["WR"] >= WriteTime + T.nWR
    /\ issued' = "ACT" /\ a["ACT"] = 0 => a["PRE"] >= T.nRP /\ a["REF"] >= T.nRFC
    /\ issued' \in {"RD", "WR"} /\ a[issued'] = 0 => a["ACT"] >= T.nRCD /\ row'[b] # Closed
    /\ issued' = "REF" => row'[b] = Closed /\ a["PRE"] >= T.nRP
  BY DEF TimingKept
<1> DEFINE a == age'[b]
<1>1. issued' = cmd
  BY DEF Ticks
<1>2. CoverInv(b)
  BY DEF TimeInv
<1>3. {"ACT", "RD", "WR", "PRE", "REF"} = Events /\ Events \cup {"PREA"} = Commands
  BY DEF Events, Commands
<1>4. ASSUME NEW e \in Events, a[e] = 0
      PROVE  \/ cmd = e /\ e # "REF" /\ Check(cmd, b)
             \/ cmd = "PREA" /\ e = "PRE"
             \/ cmd = "REF" /\ e = "REF"
  <2>1. a[e] # Older(age[b][e])
    BY <1>4, OlderType DEF DramTypeOK
  <2> QED BY <2>1, EventWaits
<1>5. ASSUME NEW e \in Events, e # cmd, ~(cmd = "PREA" /\ e = "PRE")
      PROVE  a[e] = Older(age[b][e])
  BY <1>5, EventWaits
<1>6. ASSUME cmd \in {"PREA", "REF"}
      PROVE  Vault[cmd] = 0 /\ cmd = RefreshCmd /\ Issue(cmd, Closed, Closed)
  BY <1>1, <1>6 DEF Ticks, DramStep, Access, Maintain, NoIssue
<1>7. ASSUME cmd \in {"PRE", "PREA"}, a["PRE"] = 0
      PROVE  a["ACT"] >= T.nRAS /\ a["RD"] >= T.nRTP /\ a["WR"] >= WriteTime + T.nWR
  <2>1. a["ACT"] = Older(age[b]["ACT"]) /\ a["RD"] = Older(age[b]["RD"])
        /\ a["WR"] = Older(age[b]["WR"])
    BY <1>3, <1>5, <1>7
  <2>2. CASE cmd = "PRE"
    <3>1. OfBank[b]["PRE"] = 0
      BY <2>2, <1>3, <1>4, <1>7 DEF Check
    <3> QED BY <3>1, <2>1, <1>2, <1>3, CoveredIsKept, GapsKnown DEF CoverInv
  <2>3. CASE cmd = "PREA"
    <3>1. Vault["PREA"] = 0
      BY <2>3, <1>6
    <3> QED BY <3>1, <2>1, <1>2, <1>3, CoveredIsKept, GapsKnown DEF CoverInv
  <2> QED BY <1>7, <2>2, <2>3
<1>8. ASSUME cmd = "ACT", a["ACT"] = 0
      PROVE  a["PRE"] >= T.nRP /\ a["REF"] >= T.nRFC
  <2>1. a["PRE"] = Older(age[b]["PRE"]) /\ a["REF"] = Older(age[b]["REF"])
    BY <1>3, <1>5, <1>8
  <2>2. OfBank[b]["ACT"] = 0 /\ Vault["ACT"] = 0
    BY <1>3, <1>4, <1>8 DEF Check
  <2> QED BY <2>1, <2>2, <1>2, <1>3, CoveredIsKept, GapsKnown DEF CoverInv
<1>9. ASSUME cmd \in {"RD", "WR"}, a[cmd] = 0
      PROVE  a["ACT"] >= T.nRCD /\ row'[b] # Closed
  <2>1. a["ACT"] = Older(age[b]["ACT"]) /\ OfBank[b][cmd] = 0
    BY <1>3, <1>4, <1>5, <1>9 DEF Check
  <2>2. a["ACT"] >= T.nRCD
    BY <2>1, <1>2, <1>3, <1>9, CoveredIsKept, GapsKnown DEF CoverInv
  <2>3. PICK x \in Banks, y \in Rows : Access(cmd, x, y)
    BY <1>1, <1>9 DEF Ticks, DramStep, Maintain, NoIssue
  <2>4. row[x] # Closed /\ Issue(cmd, x, y)
    BY <2>3, <1>9 DEF Access
  <2>5. b = x
    <3>1. a[cmd] # Older(age[b][cmd])
      BY <1>3, <1>9, OlderType DEF DramTypeOK
    <3> QED BY <3>1, <2>4, <1>3, <1>9 DEF Issue
  <2>6. row'[b] = row[b]
    BY <2>4, <1>9 DEF Issue
  <2> QED BY <2>2, <2>4, <2>5, <2>6
<1>10. ASSUME cmd = "REF"
       PROVE  row'[b] = Closed /\ a["PRE"] >= T.nRP
  <2>1. Vault["REF"] = 0 /\ row[b] = Closed /\ Issue(cmd, Closed, Closed)
    BY <1>6, <1>10 DEF RefreshCmd
  <2>2. row'[b] = row[b]
    BY <2>1, <1>10 DEF Issue
  <2>3. a["PRE"] = Older(age[b]["PRE"])
    BY <1>3, <1>5, <1>10
  <2> QED BY <2>1, <2>2, <2>3, <1>2, <1>3, CoveredIsKept, GapsKnown DEF CoverInv
<1> QED BY <1>1, <1>7, <1>8, <1>9, <1>10

----------------------------------------------------------------------------
(* The pending reads *)

PendingReads == [req : Requests, left : Nat, forwarded : BOOLEAN]
Reqs(p) == [i \in DOMAIN p |-> p[i].req]

(* The read that departs in this tick, if one does *)
Gone == IF Departs THEN {pending[1].req} ELSE {}

LEMMA ReqsType ==
  ASSUME NEW p \in Seq(PendingReads)
  PROVE  /\ Reqs(p) \in Seq(Requests) /\ Len(Reqs(p)) = Len(p)
         /\ DOMAIN Reqs(p) = DOMAIN p /\ \A i \in DOMAIN p : Reqs(p)[i] = p[i].req
<1>1. DOMAIN p = 1 .. Len(p) /\ Len(p) \in Nat
  BY LenProperties
<1>2. \A i \in 1 .. Len(p) : p[i].req \in Requests
  <2>1. \A i \in 1 .. Len(p) : p[i] \in PendingReads
    BY ElementOfSeq
  <2> QED BY <2>1 DEF PendingReads
<1>3. Reqs(p) = [i \in 1 .. Len(p) |-> p[i].req]
  BY <1>1 DEF Reqs
<1>4. Reqs(p) \in [1 .. Len(p) -> Requests]
  BY <1>2, <1>3
<1>5. Reqs(p) \in Seq(Requests)
  BY <1>1, <1>4, SeqDef
<1> QED BY <1>1, <1>3, <1>5, LenProperties

LEMMA ReqsAppend ==
  ASSUME NEW p \in Seq(PendingReads), NEW x \in PendingReads
  PROVE  /\ Append(p, x) \in Seq(PendingReads)
         /\ Reqs(Append(p, x)) = Append(Reqs(p), x.req)
<1>1. /\ Append(p, x) \in Seq(PendingReads) /\ Len(Append(p, x)) = Len(p) + 1
      /\ \A i \in 1 .. Len(p) : Append(p, x)[i] = p[i]
      /\ Append(p, x)[Len(p) + 1] = x /\ Len(p) \in Nat /\ DOMAIN p = 1 .. Len(p)
  BY AppendProperties, LenProperties
<1>2. x.req \in Requests
  BY DEF PendingReads
<1>3. /\ Append(Reqs(p), x.req) \in Seq(Requests)
      /\ Len(Append(Reqs(p), x.req)) = Len(p) + 1
      /\ \A i \in 1 .. Len(p) : Append(Reqs(p), x.req)[i] = p[i].req
      /\ Append(Reqs(p), x.req)[Len(p) + 1] = x.req
  BY <1>1, <1>2, ReqsType, AppendProperties
<1>4. /\ Reqs(Append(p, x)) \in Seq(Requests) /\ Len(Reqs(Append(p, x))) = Len(p) + 1
      /\ \A i \in 1 .. Len(p) + 1 : Reqs(Append(p, x))[i] = Append(p, x)[i].req
  BY <1>1, ReqsType, LenProperties
<1>5. \A i \in 1 .. Len(p) + 1 : Reqs(Append(p, x))[i] = Append(Reqs(p), x.req)[i]
  BY <1>1, <1>3, <1>4
<1> QED BY <1>1, <1>3, <1>4, <1>5, SeqEqual

LEMMA ReqsTail ==
  ASSUME NEW p \in Seq(PendingReads), p # <<>>
  PROVE  Tail(p) \in Seq(PendingReads) /\ Reqs(Tail(p)) = Tail(Reqs(p))
<1>1. /\ Tail(p) \in Seq(PendingReads) /\ Len(Tail(p)) = Len(p) - 1
      /\ \A i \in 1 .. Len(p) - 1 : Tail(p)[i] = p[i + 1]
      /\ DOMAIN p = 1 .. Len(p) /\ Len(p) \in Nat /\ Len(p) > 0
  BY HeadTailProperties, LenProperties, EmptySeq
<1>2. /\ Reqs(p) \in Seq(Requests) /\ Len(Reqs(p)) = Len(p) /\ Reqs(p) # <<>>
      /\ \A i \in 1 .. Len(p) : Reqs(p)[i] = p[i].req
  BY <1>1, ReqsType, EmptySeq
<1>3. /\ Tail(Reqs(p)) \in Seq(Requests) /\ Len(Tail(Reqs(p))) = Len(p) - 1
      /\ \A i \in 1 .. Len(p) - 1 : Tail(Reqs(p))[i] = p[i + 1].req
  BY <1>1, <1>2, HeadTailProperties
<1>4. /\ Reqs(Tail(p)) \in Seq(Requests) /\ Len(Reqs(Tail(p))) = Len(p) - 1
      /\ \A i \in 1 .. Len(p) - 1 : Reqs(Tail(p))[i] = Tail(p)[i].req
  BY <1>1, ReqsType, LenProperties
<1>5. \A i \in 1 .. Len(p) - 1 : Reqs(Tail(p))[i] = Tail(Reqs(p))[i]
  BY <1>1, <1>3, <1>4
<1> QED BY <1>1, <1>3, <1>4, <1>5, SeqEqual

LEMMA WaitingType ==
  ASSUME QueueTypeOK
  PROVE  /\ Waiting \in Seq(PendingReads) /\ Len(Waiting) = Len(pending)
         /\ DOMAIN Waiting = 1 .. Len(pending) /\ DOMAIN pending = 1 .. Len(pending)
         /\ \A i \in 1 .. Len(pending) : /\ Waiting[i].req = pending[i].req
                                         /\ Waiting[i].forwarded = pending[i].forwarded
         /\ Reqs(Waiting) = PendingReqs
<1>1. pending \in Seq(PendingReads) /\ Len(pending) \in Nat /\ DOMAIN pending = 1 .. Len(pending)
  BY LenProperties DEF QueueTypeOK, PendingReads
<1>2. \A i \in 1 .. Len(pending) : pending[i] \in PendingReads
  BY <1>1, ElementOfSeq
<1>3. ASSUME NEW i \in 1 .. Len(pending)
      PROVE  /\ Waiting[i] \in PendingReads /\ Waiting[i].req = pending[i].req
             /\ Waiting[i].forwarded = pending[i].forwarded
  <2>1. Waiting[i] = [pending[i] EXCEPT !.left = IF @ = 0 THEN 0 ELSE @ - 1]
    BY <1>1 DEF Waiting
  <2>2. pending[i] \in [req : Requests, left : Nat, forwarded : BOOLEAN]
    BY <1>2 DEF PendingReads
  <2> QED BY <2>1, <2>2 DEF PendingReads
<1>4. Waiting \in [1 .. Len(pending) -> PendingReads]
  BY <1>1, <1>3 DEF Waiting
<1>5. Waiting \in Seq(PendingReads) /\ Len(Waiting) = Len(pending)
  BY <1>1, <1>4, SeqDef, LenProperties
<1>6. Reqs(Waiting) = PendingReqs
  BY <1>1, <1>3, <1>4 DEF Reqs, PendingReqs
<1> QED BY <1>1, <1>3, <1>4, <1>5, <1>6

LEMMA RemainingType ==
  ASSUME QueueTypeOK
  PROVE  /\ Remaining \in Seq(PendingReads)
         /\ Departs => pending # <<>> /\ PendingReqs # <<>> /\ PendingReqs[1] = pending[1].req
         /\ Reqs(Remaining) = IF Departs THEN Tail(PendingReqs) ELSE PendingReqs
         /\ PendingReqs = Reqs(pending) /\ PendingReqs \in Seq(Requests)
         /\ \A i \in DOMAIN Remaining : \E j \in DOMAIN pending :
              /\ Remaining[i].req = pending[j].req
              /\ Remaining[i].forwarded = pending[j].forwarded
<1>1. PendingReqs = Reqs(pending) /\ PendingReqs \in Seq(Requests) /\ Len(PendingReqs) = Len(pending)
      /\ \A i \in DOMAIN pending : PendingReqs[i] = pending[i].req
  BY ReqsType DEF QueueTypeOK, PendingReads, PendingReqs, Reqs
<1>2. CASE ~Departs
  <2>1. Remaining = Waiting
    BY <1>2 DEF Remaining
  <2> QED BY <1>1, <1>2, <2>1, WaitingType
<1>3. CASE Departs
  <2>1. pending # <<>> /\ Remaining = Tail(Waiting)
    BY <1>3 DEF Departs, Remaining
  <2>2. Len(pending) \in Nat /\ Len(pending) > 0
    BY <2>1, EmptySeq DEF QueueTypeOK
  <2>3. Waiting # <<>> /\ PendingReqs # <<>>
    BY <1>1, <2>2, WaitingType, EmptySeq
  <2>4. Reqs(Remaining) = Tail(PendingReqs) /\ Remaining \in Seq(PendingReads)
    BY <2>1, <2>3, WaitingType, ReqsTail
  <2>5. /\ Len(Remaining) = Len(pending) - 1 /\ DOMAIN Remaining = 1 .. Len(pending) - 1
        /\ \A i \in 1 .. Len(pending) - 1 : Remaining[i] = Waiting[i + 1]
    BY <2>1, <2>2, <2>3, WaitingType, HeadTailProperties, LenProperties
  <2>6. ASSUME NEW i \in DOMAIN Remaining
        PROVE  \E j \in DOMAIN pending : /\ Remaining[i].req = pending[j].req
                                         /\ Remaining[i].forwarded = pending[j].forwarded
    <3>1. i + 1 \in 1 .. Len(pending)
      BY <2>2, <2>5
    <3> QED BY <3>1, <2>5, WaitingType
  <2>7. PendingReqs[1] = pending[1].req
    BY <1>1, <2>2, WaitingType
  <2> QED BY <1>1, <1>3, <2>1, <2>3, <2>4, <2>6, <2>7
<1> QED BY <1>2, <1>3

LEMMA PlaceOfGone ==
  ASSUME QueueTypeOK, PlaceInv
  PROVE  /\ Gone \subseteq Departing
         /\ Range(Reqs(Remaining)) = Departing \ Gone
         /\ IsInjective(Reqs(Remaining)) /\ Reqs(Remaining) \in Seq(Requests)
<1>1. CASE Departs
  <2>1. /\ PendingReqs \in Seq(Requests) /\ PendingReqs # <<>>
        /\ PendingReqs[1] = pending[1].req /\ Reqs(Remaining) = Tail(PendingReqs)
    BY <1>1, RemainingType
  <2>2. IsInjective(PendingReqs)
    BY DEF PlaceInv
  <2>3. /\ Tail(PendingReqs) \in Seq(Requests) /\ IsInjective(Tail(PendingReqs))
        /\ Range(Tail(PendingReqs)) = Range(PendingReqs) \ {PendingReqs[1]}
        /\ PendingReqs[1] \in Range(PendingReqs)
    BY <2>1, <2>2, TailTakes
  <2> QED BY <1>1, <2>1, <2>3 DEF Gone, Departing
<1>2. CASE ~Departs
  BY <1>2, RemainingType DEF Gone, Departing, PlaceInv
<1> QED BY <1>1, <1>2

----------------------------------------------------------------------------
(* The queues, step by step *)

(* A tick that completes no request, completes a read, completes a write *)
Quiet ==
  pending' = Remaining /\ UNCHANGED <<readq, writeq, responses>>
ReadDone(r) ==
  /\ FirstCmd(r) = "RD" /\ Start(r) /\ Finishes(r)
  /\ readq' = Erased(readq, r) /\ UNCHANGED <<writeq, responses>>
  /\ pending' = Append(Remaining, [req |-> r, left |-> T.nCL + T.nBL, forwarded |-> FALSE])
WriteDone(r) ==
  /\ FirstCmd(r) = "WR" /\ Start(r) /\ Finishes(r)
  /\ writeq' = Erased(writeq, r) /\ responses' = Append(responses, r)
  /\ pending' = Remaining /\ UNCHANGED readq

LEMMA TickKinds ==
  ASSUME Tick
  PROVE  /\ Clock
         /\ Quiet \/ \E r \in Requests : ReadDone(r) \/ WriteDone(r)
<1>1. CASE TickRefresh \/ TickIdle
  BY <1>1 DEF TickRefresh, TickIdle, Quiet
<1>2. ASSUME NEW r \in Requests, TickRow(r) PROVE Clock /\ Quiet
  BY <1>2 DEF TickRow, Quiet, Start
<1>3. ASSUME NEW r \in Requests, TickRead(r) PROVE Clock /\ (Quiet \/ ReadDone(r))
  BY <1>3 DEF TickRead, Quiet, Start, ReadDone, Taken
<1>4. ASSUME NEW r \in Requests, TickWrite(r) PROVE Clock /\ (Quiet \/ WriteDone(r))
  BY <1>4 DEF TickWrite, Quiet, Start, WriteDone, Taken
<1> QED BY <1>1, <1>2, <1>3, <1>4 DEF Tick

(* A column access goes to a request of its own kind. *)
LEMMA HeadsQueue ==
  ASSUME QueueTypeOK, PlaceInv, NEW r \in Requests, Start(r)
  PROVE  /\ r \in Reads \cup Writes
         /\ FirstCmd(r) = "RD" => r \in Reads /\ Type(r) = "READ" /\ ~NextMode
         /\ FirstCmd(r) = "WR" => r \in Writes /\ Type(r) = "WRITE" /\ NextMode
<1>1. r \in Range(Queue)
  BY StartTicks
<1>2. r \in IF NextMode THEN Writes ELSE Reads
  BY <1>1 DEF Queue, Reads, Writes
<1>3. FirstCmd(r) = "RD" => Type(r) = "READ"
  BY DEF FirstCmd
<1>4. FirstCmd(r) = "WR" => Type(r) = "WRITE"
  BY PlacesOf DEF FirstCmd
<1> QED BY <1>2, <1>3, <1>4 DEF PlaceInv

LEMMA PlacesReceive ==
  ASSUME QueueTypeOK, PlaceInv, NEW r \in Requests, Receive(r)
  PROVE  /\ PlaceInv'
         /\ Range(arrived') = Range(arrived) \cup {r} /\ r \notin Range(arrived)
         /\ arrived' \in Seq(Requests)
         /\ readq' \in Seq(Requests) /\ writeq' \in Seq(Requests)
         /\ pending' \in Seq(PendingReads)
         /\ Range(readq') \cup Range(writeq') \subseteq Reads \cup Writes \cup {r}
<1>1. /\ arrived' = Append(arrived, r) /\ r \notin Range(arrived)
      /\ responses' = responses /\ answered' = answered
  BY DEF Receive
<1>2. /\ Range(arrived') = Range(arrived) \cup {r} /\ arrived' \in Seq(Requests)
  BY <1>1, AppendFresh DEF QueueTypeOK
<1>3. PendingReqs = Reqs(pending) /\ PendingReqs' = Reqs(pending') /\ pending \in Seq(PendingReads)
  BY DEF PendingReqs, Reqs, QueueTypeOK, PendingReads
<1>4. r \notin Reads \cup Writes \cup Departing \cup Answers \cup answered
  BY <1>1 DEF PlaceInv
<1>5. CASE Type(r) = "WRITE"
  <2>1. writeq' = Append(writeq, r) /\ readq' = readq /\ pending' = pending
    BY <1>5 DEF Receive
  <2>2. /\ writeq' \in Seq(Requests) /\ IsInjective(writeq') /\ Range(writeq') = Writes \cup {r}
    BY <2>1, <1>4, AppendFresh DEF QueueTypeOK, PlaceInv, Writes
  <2> QED BY <1>1, <1>2, <1>3, <1>4, <1>5, <2>1, <2>2, PlacesOf
          DEF PlaceInv, Reads, Writes, Departing, Answers, QueueTypeOK, Type
<1>6. CASE Type(r) = "READ" /\ Forwarded(r)
  <2> DEFINE x == [req |-> r, left |-> 1, forwarded |-> TRUE]
  <2>1. writeq' = writeq /\ readq' = readq /\ pending' = Append(pending, x)
    BY <1>6 DEF Receive
  <2>2. x \in PendingReads /\ x.req = r
    BY DEF PendingReads
  <2> HIDE DEF x
  <2>3. pending' \in Seq(PendingReads) /\ PendingReqs' = Append(PendingReqs, r)
    BY <2>1, <2>2, <1>3, ReqsAppend
  <2>4. IsInjective(PendingReqs') /\ Range(PendingReqs') = Departing \cup {r}
    BY <2>3, <1>3, <1>4, ReqsType, AppendFresh DEF PlaceInv, Departing
  <2> QED BY <1>1, <1>2, <1>4, <1>6, <2>1, <2>3, <2>4
          DEF PlaceInv, Reads, Writes, Departing, Answers, QueueTypeOK, Type
<1>7. CASE Type(r) = "READ" /\ ~Forwarded(r)
  <2>1. readq' = Append(readq, r) /\ writeq' = writeq /\ pending' = pending
    BY <1>7 DEF Receive
  <2>2. /\ readq' \in Seq(Requests) /\ IsInjective(readq') /\ Range(readq') = Reads \cup {r}
    BY <2>1, <1>4, AppendFresh DEF QueueTypeOK, PlaceInv, Reads
  <2> QED BY <1>1, <1>2, <1>3, <1>4, <1>7, <2>1, <2>2
          DEF PlaceInv, Reads, Writes, Departing, Answers, QueueTypeOK, Type
<1> QED BY <1>5, <1>6, <1>7, PlacesOf

(* Each kind of tick, and where it leaves the requests *)
LEMMA PlacesQuiet ==
  ASSUME QueueTypeOK, PlaceInv, Clock, Quiet
  PROVE  PlaceInv' /\ pending' \in Seq(PendingReads)
<1>1. /\ arrived' = arrived /\ answered' = answered \cup Gone /\ pending' = Remaining
      /\ readq' = readq /\ writeq' = writeq /\ responses' = responses
  BY DEF Clock, Gone, Quiet
<1>2. PendingReqs' = Reqs(Remaining)
  BY <1>1 DEF PendingReqs, Reqs
<1> QED BY <1>1, <1>2, PlaceOfGone, RemainingType
        DEF PlaceInv, Reads, Writes, Departing, Answers, Type

LEMMA PlacesReadDone ==
  ASSUME QueueTypeOK, PlaceInv, Clock, NEW r \in Requests, ReadDone(r)
  PROVE  /\ PlaceInv' /\ readq' \in Seq(Requests) /\ pending' \in Seq(PendingReads)
         /\ r \in Reads /\ Range(readq') = Reads \ {r}
<1> DEFINE x == [req |-> r, left |-> T.nCL + T.nBL, forwarded |-> FALSE]
<1>1. /\ arrived' = arrived /\ answered' = answered \cup Gone /\ pending' = Append(Remaining, x)
      /\ writeq' = writeq /\ responses' = responses /\ readq' = Erased(readq, r)
  BY DEF Clock, Gone, ReadDone
<1>2. x \in PendingReads /\ x.req = r
  BY TimesType DEF PendingReads
<1> HIDE DEF x
<1>3. PendingReqs' = Append(Reqs(Remaining), r) /\ pending' \in Seq(PendingReads)
  <2>1. PendingReqs' = Reqs(pending')
    BY DEF PendingReqs, Reqs
  <2> QED BY <2>1, <1>1, <1>2, RemainingType, ReqsAppend
<1>4. r \in Reads /\ Type(r) = "READ"
  BY HeadsQueue DEF ReadDone
<1>5. /\ IsInjective(readq') /\ Range(readq') = Reads \ {r} /\ readq' \in Seq(Requests)
  BY <1>1, <1>4, ErasedTakes DEF PlaceInv, Reads, QueueTypeOK
<1>6. r \notin Range(Reqs(Remaining))
  BY <1>4, PlaceOfGone DEF PlaceInv
<1>7. IsInjective(PendingReqs') /\ Range(PendingReqs') = (Departing \ Gone) \cup {r}
  BY <1>3, <1>6, PlaceOfGone, AppendFresh
<1> QED BY <1>1, <1>3, <1>4, <1>5, <1>7, PlaceOfGone
        DEF PlaceInv, Reads, Writes, Departing, Answers, Type

LEMMA PlacesWriteDone ==
  ASSUME QueueTypeOK, PlaceInv, Clock, NEW r \in Requests, WriteDone(r)
  PROVE  /\ PlaceInv' /\ writeq' \in Seq(Requests) /\ responses' \in Seq(Requests)
         /\ pending' \in Seq(PendingReads)
         /\ r \in Writes /\ Range(writeq') = Writes \ {r}
         /\ Range(responses') = Answers \cup {r}
<1>1. /\ arrived' = arrived /\ answered' = answered \cup Gone /\ pending' = Remaining
      /\ writeq' = Erased(writeq, r) /\ responses' = Append(responses, r) /\ readq' = readq
  BY DEF Clock, Gone, WriteDone
<1>2. PendingReqs' = Reqs(Remaining)
  BY <1>1 DEF PendingReqs, Reqs
<1>3. r \in Writes /\ Type(r) = "WRITE"
  BY HeadsQueue DEF WriteDone
<1>4. /\ IsInjective(writeq') /\ Range(writeq') = Writes \ {r} /\ writeq' \in Seq(Requests)
  BY <1>1, <1>3, ErasedTakes DEF PlaceInv, Writes, QueueTypeOK
<1>5. Range(responses') = Answers \cup {r} /\ responses' \in Seq(Requests)
  BY <1>1, AppendFresh DEF Answers, QueueTypeOK
<1> QED BY <1>1, <1>2, <1>3, <1>4, <1>5, PlaceOfGone, RemainingType
        DEF PlaceInv, Reads, Writes, Departing, Answers, Type

(* The first commands and the accesses still to come *)
LEMMA BurstsReceive ==
  ASSUME QueueTypeOK, QueueInv, NEW r \in Requests, Receive(r)
  PROVE  BegunInv' /\ BurstsComplete'
<1>1. /\ Range(arrived') = Range(arrived) \cup {r} /\ r \notin Range(arrived)
      /\ Range(readq') \cup Range(writeq') \subseteq Reads \cup Writes \cup {r}
  BY PlacesReceive DEF QueueInv
<1>2. UNCHANGED <<burst_count, begun>>
  BY DEF Receive
<1>3. r \notin begun /\ burst_count[r] = BurstCount /\ BurstCount > 0
  BY <1>1, TrafficAssumption DEF QueueInv, BegunInv
<1>4. \/ pending' = pending
      \/ pending' = Append(pending, [req |-> r, left |-> 1, forwarded |-> TRUE])
  BY DEF Receive
<1>5. ASSUME NEW i \in DOMAIN pending'
      PROVE  pending'[i].forwarded = (pending'[i].req \notin begun)
  <2>1. CASE pending' = pending
    BY <2>1 DEF QueueInv, BegunInv
  <2>2. CASE pending' = Append(pending, [req |-> r, left |-> 1, forwarded |-> TRUE])
    <3> DEFINE x == [req |-> r, left |-> 1, forwarded |-> TRUE]
    <3>1. pending \in Seq(PendingReads) /\ x \in PendingReads /\ x.forwarded = TRUE /\ x.req = r
      BY DEF QueueTypeOK, PendingReads
    <3> HIDE DEF x
    <3>2. /\ DOMAIN pending' = 1 .. Len(pending) + 1 /\ DOMAIN pending = 1 .. Len(pending)
          /\ \A j \in 1 .. Len(pending) : pending'[j] = pending[j]
          /\ pending'[Len(pending) + 1] = x /\ Len(pending) \in Nat
      BY <2>2, <3>1, AppendProperties, LenProperties DEF x
    <3>3. i \in DOMAIN pending \/ i = Len(pending) + 1
      BY <3>2
    <3> QED BY <3>1, <3>2, <3>3, <1>3 DEF QueueInv, BegunInv
  <2> QED BY <1>4, <2>1, <2>2
<1>6. BegunInv'
  BY <1>1, <1>2, <1>5 DEF QueueInv, BegunInv
<1>7. ASSUME NEW s \in Range(arrived')
      PROVE  IF InQueue(s)' THEN burst_count[s] > 0 /\ (burst_count[s] < BurstCount => s \in begun)
             ELSE burst_count[s] = IF s \in begun THEN 0 ELSE BurstCount
  <2>1. CASE s = r
    BY <2>1, <1>3, TrafficAssumption
  <2>2. CASE s # r
    <3>1. s \in Range(arrived)
      BY <1>1, <2>2
    <3>2. InQueue(s)' = InQueue(s)
      <4>1. /\ readq' = readq \/ readq' = Append(readq, r)
            /\ writeq' = writeq \/ writeq' = Append(writeq, r)
        BY DEF Receive
      <4>2. /\ Range(readq') = Reads \/ Range(readq') = Reads \cup {r}
            /\ Range(writeq') = Writes \/ Range(writeq') = Writes \cup {r}
        <5>1. readq \in Seq(Requests) /\ writeq \in Seq(Requests)
          BY DEF QueueTypeOK
        <5>2. /\ Range(Append(readq, r)) = Range(readq) \cup {r}
              /\ Range(Append(writeq, r)) = Range(writeq) \cup {r}
          BY <5>1, AppendFresh
        <5> QED BY <4>1, <5>2 DEF Reads, Writes
      <4> QED BY <2>2, <4>2 DEF InQueue, Reads, Writes
    <3> QED BY <3>1, <3>2 DEF QueueInv, BurstsComplete
  <2> QED BY <2>1, <2>2
<1> QED BY <1>2, <1>6, <1>7 DEF BurstsComplete

LEMMA BegunTick ==
  ASSUME QueueTypeOK, QueueInv, Clock,
         begun \subseteq begun', begun' \subseteq begun \cup Reads \cup Writes,
         \A s \in Requests : s \notin Reads \cup Writes => burst_count'[s] = burst_count[s],
         \/ pending' = Remaining
         \/ \E r \in begun' : ReadDone(r) /\ r \in Requests
  PROVE  BegunInv'
<1>1. arrived' = arrived /\ Reads \cup Writes \subseteq Range(arrived)
  BY DEF Clock, QueueInv, PlaceInv
<1>2. begun' \subseteq Range(arrived)
  BY <1>1 DEF QueueInv, BegunInv
<1>3. ASSUME NEW i \in DOMAIN Remaining
      PROVE  Remaining[i].forwarded = (Remaining[i].req \notin begun')
  <2>1. PICK j \in DOMAIN pending : /\ Remaining[i].req = pending[j].req
                                    /\ Remaining[i].forwarded = pending[j].forwarded
    BY RemainingType
  <2>2. pending[j].req \in Departing
    BY DEF Departing, PendingReqs, Range
  <2>3. pending[j].req \notin Reads \cup Writes
    BY <2>2 DEF QueueInv, PlaceInv
  <2>4. pending[j].forwarded = (pending[j].req \notin begun)
    BY DEF QueueInv, BegunInv
  <2> QED BY <2>1, <2>3, <2>4
<1>4. ASSUME NEW i \in DOMAIN pending'
      PROVE  pending'[i].forwarded = (pending'[i].req \notin begun')
  <2>1. CASE pending' = Remaining
    BY <2>1, <1>3
  <2>2. CASE pending' # Remaining
    <3>1. PICK r \in begun' : ReadDone(r) /\ r \in Requests
      BY <2>2
    <3> DEFINE x == [req |-> r, left |-> T.nCL + T.nBL, forwarded |-> FALSE]
    <3>2. Remaining \in Seq(PendingReads) /\ x \in PendingReads /\ x.forwarded = FALSE /\ x.req = r
      <4>1. T.nCL + T.nBL \in Nat
        BY TimesType
      <4>2. x \in PendingReads /\ x.forwarded = FALSE /\ x.req = r
        BY <3>1, <4>1 DEF PendingReads
      <4> QED BY <4>2, RemainingType
    <3>3. pending' = Append(Remaining, x)
      BY <3>1 DEF ReadDone
    <3> HIDE DEF x
    <3>4. /\ DOMAIN pending' = 1 .. Len(Remaining) + 1 /\ DOMAIN Remaining = 1 .. Len(Remaining)
          /\ \A j \in 1 .. Len(Remaining) : pending'[j] = Remaining[j]
          /\ pending'[Len(Remaining) + 1] = x /\ Len(Remaining) \in Nat
      BY <3>2, <3>3, AppendProperties, LenProperties
    <3>5. i \in DOMAIN Remaining \/ i = Len(Remaining) + 1
      BY <3>4
    <3> QED BY <3>1, <3>2, <3>4, <3>5, <1>3
  <2> QED BY <2>1, <2>2
<1>5. \A s \in Requests : s \notin Range(arrived) => burst_count'[s] = BurstCount
  BY <1>1 DEF QueueInv, BegunInv
<1> QED BY <1>1, <1>2, <1>4, <1>5 DEF BegunInv

(* A tick that gives no access *)
LEMMA BurstsKept ==
  ASSUME QueueTypeOK, QueueInv, arrived' = arrived, readq' = readq, writeq' = writeq,
         burst_count' = burst_count,
         begun \subseteq begun', begun' \subseteq begun \cup Reads \cup Writes
  PROVE  BurstsComplete'
<1> SUFFICES ASSUME NEW s \in Range(arrived)
    PROVE IF InQueue(s) THEN burst_count[s] > 0 /\ (burst_count[s] < BurstCount => s \in begun')
          ELSE burst_count[s] = IF s \in begun' THEN 0 ELSE BurstCount
  BY DEF BurstsComplete, InQueue
<1>1. IF InQueue(s) THEN burst_count[s] > 0 /\ (burst_count[s] < BurstCount => s \in begun)
      ELSE burst_count[s] = IF s \in begun THEN 0 ELSE BurstCount
  BY DEF QueueInv, BurstsComplete
<1>2. ~InQueue(s) => (s \in begun' <=> s \in begun)
  BY DEF InQueue, Reads, Writes
<1> QED BY <1>1, <1>2

(* A tick that gives an access to r *)
LEMMA BurstsAccess ==
  ASSUME QueueTypeOK, QueueInv, arrived' = arrived, NEW r \in Requests,
         r \in Reads \cup Writes, begun' = begun \cup {r},
         burst_count' = [burst_count EXCEPT ![r] = @ - 1],
         Range(readq') \cup Range(writeq') =
           IF Finishes(r) THEN (Reads \cup Writes) \ {r} ELSE Reads \cup Writes
  PROVE  /\ BurstsComplete' /\ burst_count' \in [Requests -> 0 .. BurstCount]
         /\ burst_count[r] > 0
<1>1. \A s : InQueue(s) <=> s \in Reads \cup Writes
  BY DEF InQueue, Reads, Writes
<1>2. r \in Range(arrived) /\ burst_count[r] \in 0 .. BurstCount /\ BurstCount \in Nat
  BY TrafficAssumption DEF QueueInv, PlaceInv, QueueTypeOK
<1>3. burst_count[r] > 0
  BY <1>1, <1>2 DEF QueueInv, BurstsComplete
<1>4. /\ burst_count' \in [Requests -> 0 .. BurstCount]
      /\ burst_count'[r] = burst_count[r] - 1
      /\ \A s \in Requests : s # r => burst_count'[s] = burst_count[s]
  BY <1>2, <1>3 DEF QueueTypeOK
<1>5. ASSUME NEW s \in Range(arrived)
      PROVE  IF s \in Range(readq') \cup Range(writeq')
             THEN burst_count'[s] > 0 /\ (burst_count'[s] < BurstCount => s \in begun')
             ELSE burst_count'[s] = IF s \in begun' THEN 0 ELSE BurstCount
  <2>1. s \in Requests
    BY DEF QueueTypeOK, Range
  <2>2. CASE s = r
    BY <2>2, <1>2, <1>3, <1>4 DEF Finishes
  <2>3. CASE s # r
    <3>1. IF s \in Reads \cup Writes
          THEN burst_count[s] > 0 /\ (burst_count[s] < BurstCount => s \in begun)
          ELSE burst_count[s] = IF s \in begun THEN 0 ELSE BurstCount
      BY <1>1 DEF QueueInv, BurstsComplete
    <3> QED BY <2>1, <2>3, <3>1, <1>4
  <2> QED BY <2>2, <2>3
<1>6. \A s : InQueue(s)' <=> s \in Range(readq') \cup Range(writeq')
  BY DEF InQueue
<1>7. BurstsComplete'
  <2> SUFFICES ASSUME NEW s \in Range(arrived)
      PROVE IF InQueue(s)'
             THEN burst_count'[s] > 0 /\ (burst_count'[s] < BurstCount => s \in begun')
             ELSE burst_count'[s] = IF s \in begun' THEN 0 ELSE BurstCount
    BY DEF BurstsComplete
  <2> QED BY <1>5, <1>6
<1> QED BY <1>3, <1>4, <1>7

LEMMA QueueInit == ASSUME Init PROVE QueueTypeOK /\ QueueInv
<1>1. BurstCount \in Nat
  BY TrafficAssumption
<1>2. Range(<<>>) = {} /\ IsInjective(<<>>)
  BY DEF Range, IsInjective
<1>3. PendingReqs = <<>>
  BY DEF Init, PendingReqs
<1>4. QueueTypeOK
  <2>1. /\ <<>> \in Seq(Requests) /\ <<>> \in Seq(PendingReads)
        /\ [r \in Requests |-> BurstCount] \in [Requests -> 0 .. BurstCount]
    BY <1>1, EmptySeq
  <2>2. /\ arrived = <<>> /\ readq = <<>> /\ writeq = <<>> /\ pending = <<>>
        /\ responses = <<>> /\ begun = {} /\ answered = {} /\ serving = 0
        /\ write_mode = FALSE /\ burst_count = [r \in Requests |-> BurstCount]
    BY DEF Init
  <2>3. 0 \in Int /\ {} \subseteq Requests /\ FALSE \in BOOLEAN
    OBVIOUS
  <2> QED BY <2>1, <2>2, <2>3, Zenon DEF QueueTypeOK, PendingReads
<1>5. PlaceInv
  BY <1>2, <1>3 DEF Init, PlaceInv, Reads, Writes, Departing, Answers
<1>6. BegunInv
  BY <1>2 DEF Init, BegunInv
<1>7. BurstsComplete
  BY <1>2 DEF Init, BurstsComplete
<1> QED BY <1>4, <1>5, <1>6, <1>7 DEF QueueInv

LEMMA ClockType ==
  ASSUME QueueTypeOK, PlaceInv, Clock
  PROVE  /\ arrived' = arrived /\ answered' = answered \cup Gone
         /\ answered' \subseteq Requests /\ write_mode' \in BOOLEAN
<1>1. answered' = answered \cup Gone /\ arrived' = arrived
  BY DEF Clock, Gone
<1>2. Gone \subseteq Requests
  BY PlaceOfGone, RemainingType, RangeOfSeq DEF Departing
<1>3. write_mode' \in BOOLEAN
  BY DEF Clock, NextMode, QueueTypeOK
<1> QED BY <1>1, <1>2, <1>3 DEF QueueTypeOK

LEMMA ServingType ==
  /\ Leaving \in Int /\ \A r \in Requests : Begins(r) \in Int
BY DEF Leaving, Begins

LEMMA QueueReceive ==
  ASSUME QueueTypeOK, QueueInv, NEW r \in Requests, Receive(r)
  PROVE  QueueTypeOK' /\ QueueInv'
<1>1. QueueTypeOK'
  <2>1. UNCHANGED <<burst_count, begun, serving, write_mode, responses, answered>>
    BY DEF Receive
  <2> QED BY <2>1, PlacesReceive DEF QueueInv, QueueTypeOK, PendingReads
<1> QED BY <1>1, PlacesReceive, BurstsReceive DEF QueueInv

LEMMA QueueRefreshIdle ==
  ASSUME QueueTypeOK, QueueInv, TickRefresh \/ TickIdle
  PROVE  QueueTypeOK' /\ QueueInv'
<1>1. /\ Clock /\ Quiet /\ begun' = begun /\ burst_count' = burst_count
      /\ serving' = serving - Leaving
  BY DEF TickRefresh, TickIdle, Quiet
<1>2. PlaceInv' /\ pending' \in Seq(PendingReads)
  BY <1>1, PlacesQuiet DEF QueueInv
<1>3. BegunInv'
  BY <1>1, BegunTick DEF Quiet
<1>4. BurstsComplete'
  BY <1>1, BurstsKept DEF Clock, Quiet
<1>5. answered' \subseteq Requests /\ write_mode' \in BOOLEAN /\ arrived' = arrived
  BY <1>1, ClockType DEF QueueInv
<1>7. serving' \in Int
  BY <1>1, ServingType DEF QueueTypeOK
<1> QED BY <1>1, <1>2, <1>3, <1>4, <1>5, <1>7
        DEF QueueInv, QueueTypeOK, Quiet, PendingReads

LEMMA QueueRow ==
  ASSUME QueueTypeOK, QueueInv, NEW r \in Requests, TickRow(r)
  PROVE  QueueTypeOK' /\ QueueInv'
<1>1. /\ Clock /\ Quiet /\ Start(r) /\ begun' = begun \cup {r} /\ burst_count' = burst_count
      /\ serving' = serving + Begins(r) - Leaving
  BY DEF TickRow, Start, Quiet
<1>2. PlaceInv' /\ pending' \in Seq(PendingReads) /\ r \in Reads \cup Writes
  BY <1>1, PlacesQuiet, HeadsQueue DEF QueueInv
<1>3. BegunInv'
  BY <1>1, <1>2, BegunTick DEF Quiet
<1>4. BurstsComplete'
  BY <1>1, <1>2, BurstsKept DEF Clock, Quiet
<1>5. answered' \subseteq Requests /\ write_mode' \in BOOLEAN /\ arrived' = arrived
  BY <1>1, ClockType DEF QueueInv
<1>7. serving' \in Int
  BY <1>1, ServingType DEF QueueTypeOK
<1> QED BY <1>1, <1>2, <1>3, <1>4, <1>5, <1>7
        DEF QueueInv, QueueTypeOK, Quiet, PendingReads

LEMMA QueueRead ==
  ASSUME QueueTypeOK, QueueInv, NEW r \in Requests, TickRead(r)
  PROVE  QueueTypeOK' /\ QueueInv'
<1>1. /\ Clock /\ Start(r) /\ FirstCmd(r) = "RD" /\ begun' = begun \cup {r}
      /\ burst_count' = [burst_count EXCEPT ![r] = @ - 1]
      /\ serving' = serving + Begins(r) - Leaving
      /\ writeq' = writeq /\ responses' = responses
      /\ readq' = Taken(readq, r)
  BY DEF TickRead, Start
<1>2. r \in Reads
  BY <1>1, HeadsQueue DEF QueueInv
<1>3. serving' \in Int /\ begun' \subseteq Requests
  BY <1>1, ServingType DEF QueueTypeOK
<1>4. CASE Finishes(r)
  <2>1. ReadDone(r)
    BY <1>4 DEF TickRead, ReadDone, Taken
  <2>2. /\ PlaceInv' /\ readq' \in Seq(Requests) /\ pending' \in Seq(PendingReads)
        /\ Range(readq') = Reads \ {r}
    BY <1>1, <2>1, PlacesReadDone DEF QueueInv
  <2>3. BegunInv'
    BY <1>1, <1>2, <2>1, BegunTick DEF QueueTypeOK
  <2>4. r \notin Writes
    BY <1>2 DEF QueueInv, PlaceInv
  <2>5. Range(readq') \cup Range(writeq') = (Reads \cup Writes) \ {r}
    BY <1>1, <2>2, <2>4 DEF Writes
  <2>6. arrived' = arrived
    BY <1>1 DEF Clock
  <2>7. BurstsComplete' /\ burst_count' \in [Requests -> 0 .. BurstCount]
    BY <1>1, <1>2, <1>4, <2>5, <2>6, BurstsAccess
  <2>8. answered' \subseteq Requests /\ write_mode' \in BOOLEAN
    BY <1>1, ClockType DEF QueueInv
  <2> QED BY <1>1, <2>2, <2>3, <2>6, <2>7, <2>8, <1>3
          DEF QueueInv, QueueTypeOK, PendingReads
<1>5. CASE ~Finishes(r)
  <2>1. Quiet
    BY <1>5 DEF TickRead, Quiet, Taken
  <2>2. PlaceInv' /\ pending' \in Seq(PendingReads)
    BY <1>1, <2>1, PlacesQuiet DEF QueueInv
  <2>3. BegunInv'
    BY <1>1, <1>2, <2>1, BegunTick DEF Quiet, QueueTypeOK
  <2>4. Range(readq') \cup Range(writeq') = Reads \cup Writes /\ arrived' = arrived
    BY <1>1, <2>1 DEF Quiet, Reads, Writes, Clock
  <2>5. BurstsComplete' /\ burst_count' \in [Requests -> 0 .. BurstCount]
    BY <1>1, <1>2, <1>5, <2>4, BurstsAccess
  <2>6. answered' \subseteq Requests /\ write_mode' \in BOOLEAN
    BY <1>1, ClockType DEF QueueInv
  <2> QED BY <1>1, <2>1, <2>2, <2>3, <2>4, <2>5, <2>6, <1>3
          DEF QueueInv, QueueTypeOK, Quiet, PendingReads
<1> QED BY <1>4, <1>5

LEMMA QueueWrite ==
  ASSUME QueueTypeOK, QueueInv, NEW r \in Requests, TickWrite(r)
  PROVE  QueueTypeOK' /\ QueueInv'
<1>1. /\ Clock /\ Start(r) /\ FirstCmd(r) = "WR" /\ begun' = begun \cup {r}
      /\ burst_count' = [burst_count EXCEPT ![r] = @ - 1]
      /\ serving' = serving + Begins(r) - Leaving - (IF Finishes(r) THEN 1 ELSE 0)
      /\ readq' = readq /\ pending' = Remaining
  BY DEF TickWrite, Start
<1>2. r \in Writes
  BY <1>1, HeadsQueue DEF QueueInv
<1>3. answered' \subseteq Requests /\ write_mode' \in BOOLEAN /\ serving' \in Int
  BY <1>1, ClockType, ServingType DEF QueueInv, QueueTypeOK
<1>4. BegunInv'
  BY <1>1, <1>2, BegunTick DEF QueueTypeOK
<1>5. CASE Finishes(r)
  <2>1. WriteDone(r)
    BY <1>5 DEF TickWrite, WriteDone, Taken
  <2>2. /\ PlaceInv' /\ writeq' \in Seq(Requests) /\ responses' \in Seq(Requests)
        /\ pending' \in Seq(PendingReads) /\ Range(writeq') = Writes \ {r}
    BY <1>1, <2>1, PlacesWriteDone DEF QueueInv
  <2>3. r \notin Reads
    BY <1>2 DEF QueueInv, PlaceInv
  <2>4. Range(readq') \cup Range(writeq') = (Reads \cup Writes) \ {r}
    BY <1>1, <2>2, <2>3 DEF Reads
  <2>5. arrived' = arrived
    BY <1>1 DEF Clock
  <2>6. BurstsComplete' /\ burst_count' \in [Requests -> 0 .. BurstCount]
    BY <1>1, <1>2, <1>5, <2>4, <2>5, BurstsAccess
  <2> QED BY <1>1, <1>3, <1>4, <2>2, <2>5, <2>6
          DEF QueueInv, QueueTypeOK, PendingReads
<1>6. CASE ~Finishes(r)
  <2>1. Quiet
    BY <1>6 DEF TickWrite, Quiet, Taken
  <2>2. PlaceInv' /\ pending' \in Seq(PendingReads)
    BY <1>1, <2>1, PlacesQuiet DEF QueueInv
  <2>3. Range(readq') \cup Range(writeq') = Reads \cup Writes /\ arrived' = arrived
    BY <1>1, <2>1 DEF Quiet, Reads, Writes, Clock
  <2>4. BurstsComplete' /\ burst_count' \in [Requests -> 0 .. BurstCount]
    BY <1>1, <1>2, <1>6, <2>3, BurstsAccess
  <2> QED BY <1>1, <1>3, <1>4, <2>1, <2>2, <2>3, <2>4
          DEF QueueInv, QueueTypeOK, Quiet, PendingReads
<1> QED BY <1>5, <1>6

LEMMA QueueNext ==
  ASSUME QueueTypeOK, QueueInv, [Next]_vars
  PROVE  QueueTypeOK' /\ QueueInv'
<1>1. CASE UNCHANGED vars
  BY <1>1 DEF vars, queueVars, QueueTypeOK, QueueInv, PlaceInv, BegunInv, BurstsComplete,
     InQueue, Reads, Writes, Departing, Answers, PendingReqs
<1> QED BY <1>1, QueueReceive, QueueRefreshIdle, QueueRow, QueueRead, QueueWrite DEF Next, Tick

----------------------------------------------------------------------------
(* The assertions: the row table and cur_serving_requests *)

LEMMA TableTick ==
  ASSUME DramTypeOK, table = row, NEW cmd, Ticks(cmd)
  PROVE  table' = row'
<1>1. CASE NoIssue
  BY <1>1 DEF NoIssue
<1>2. CASE cmd \in {"PREA", "REF"} /\ Maintain(cmd)
  <2>1. Issue(cmd, Closed, Closed) /\ cmd # "ACT"
    BY <1>2 DEF Maintain
  <2> QED BY <2>1 DEF Issue
<1>3. ASSUME NEW b \in Banks, NEW x \in Rows, Access(cmd, b, x)
      PROVE  table' = row'
  <2>1. Issue(cmd, b, x) /\ (cmd = "ACT" => table[b] = Closed)
    BY <1>3 DEF Access
  <2> QED BY <2>1 DEF Issue
<1> QED BY <1>1, <1>2, <1>3 DEF Ticks, DramStep

LEMMA UnderwayType ==
  ASSUME QueueTypeOK
  PROVE  IsFiniteSet(Underway) /\ Cardinality(Underway) \in Nat
<1>1. Underway \subseteq Requests
  BY DEF Underway, QueueTypeOK
<1>2. IsFiniteSet(Requests)
  BY TrafficAssumption
<1> QED BY <1>1, <1>2, FS_Subset, FS_CardinalityType

(* The read that departs counts if the DRAM has served it. *)
LEMMA GoneCounts ==
  ASSUME QueueTypeOK, QueueInv
  PROVE  /\ IsFiniteSet(Underway \ Gone)
         /\ Cardinality(Underway \ Gone) = Cardinality(Underway) - Leaving
<1>1. CASE Departs
  <2> DEFINE g == pending[1].req
  <2>1. g \in Departing /\ Gone = {g} /\ 1 \in DOMAIN pending
    <3>1. pending # <<>>
      BY <1>1, RemainingType
    <3>2. Len(pending) \in Nat \ {0} /\ DOMAIN pending = 1 .. Len(pending)
      BY <3>1, EmptySeq, LenProperties DEF QueueTypeOK
    <3> QED BY <1>1, <3>2, PlaceOfGone DEF Gone, QueueInv
  <2>2. g \notin answered /\ g \notin Answers
    BY <2>1 DEF QueueInv, PlaceInv
  <2>3. g \in Underway <=> ~pending[1].forwarded
    BY <2>1, <2>2 DEF QueueInv, BegunInv, Underway, Served, Answers
  <2>4. Leaving = IF g \in Underway THEN 1 ELSE 0
    BY <1>1, <2>3 DEF Leaving
  <2> HIDE DEF g
  <2>5. /\ IsFiniteSet(Underway \ {g})
        /\ Cardinality(Underway \ {g}) =
             IF g \in Underway THEN Cardinality(Underway) - 1 ELSE Cardinality(Underway)
    BY UnderwayType, FS_RemoveElement
  <2> QED BY <2>1, <2>4, <2>5, UnderwayType
<1>2. CASE ~Departs
  <2>1. Gone = {} /\ Leaving = 0
    BY <1>2 DEF Gone, Leaving
  <2>2. Underway \ Gone = Underway
    BY <2>1
  <2> QED BY <2>1, <2>2, UnderwayType
<1> QED BY <1>1, <1>2

(* A request that a command is for counts from its first one. *)
LEMMA BegunCounts ==
  ASSUME QueueTypeOK, QueueInv, NEW r \in Reads \cup Writes
  PROVE  /\ r \notin answered \cup Answers \cup Gone
         /\ IsFiniteSet((Underway \ Gone) \cup {r})
         /\ Cardinality((Underway \ Gone) \cup {r}) =
              Cardinality(Underway) + Begins(r) - Leaving
<1>1. r \notin answered \cup Answers \cup Gone
  BY PlaceOfGone DEF QueueInv, PlaceInv
<1>2. r \in Underway \ Gone <=> r \in begun
  BY <1>1 DEF Underway, Served, Answers
<1>3. /\ IsFiniteSet((Underway \ Gone) \cup {r})
      /\ Cardinality((Underway \ Gone) \cup {r}) =
           IF r \in Underway \ Gone THEN Cardinality(Underway \ Gone)
                                    ELSE Cardinality(Underway \ Gone) + 1
  BY GoneCounts, FS_AddElement
<1>4. Cardinality(Underway) \in Nat /\ Leaving \in Int
  BY UnderwayType, ServingType
<1> QED BY <1>1, <1>2, <1>3, <1>4, GoneCounts DEF Begins

LEMMA ServingTick ==
  ASSUME QueueTypeOK, QueueInv, serving = Cardinality(Underway), Tick
  PROVE  serving' = Cardinality(Underway')
<1>1. answered' = answered \cup Gone
  BY TickKinds, ClockType DEF QueueInv
<1>2. Underway' = {s \in begun' : s \notin answered \cup Gone \cup Range(responses')}
  BY <1>1 DEF Underway, Served
<1>3. ASSUME begun' = begun, responses' = responses, serving' = serving - Leaving
      PROVE  serving' = Cardinality(Underway')
  <2>1. Underway' = Underway \ Gone
    BY <1>2, <1>3 DEF Underway, Served
  <2> QED BY <2>1, <1>3, GoneCounts
<1>4. ASSUME NEW r \in Reads \cup Writes, begun' = begun \cup {r}, responses' = responses,
             serving' = serving + Begins(r) - Leaving
      PROVE  serving' = Cardinality(Underway')
  <2>1. Underway' = (Underway \ Gone) \cup {r}
    BY <1>2, <1>4, BegunCounts DEF Underway, Served, Answers
  <2> QED BY <2>1, <1>4, BegunCounts
<1>5. ASSUME NEW r \in Requests, WriteDone(r),
             serving' = serving + Begins(r) - Leaving - 1
      PROVE  serving' = Cardinality(Underway')
  <2>1. r \in Writes /\ Range(responses') = Answers \cup {r}
    BY <1>5, TickKinds, PlacesWriteDone DEF QueueInv
  <2>2. begun' = begun \cup {r}
    BY <1>5 DEF WriteDone, Start
  <2> DEFINE U == (Underway \ Gone) \cup {r}
  <2>3. Underway' = U \ {r}
    BY <1>2, <2>1, <2>2 DEF Underway, Served, Answers
  <2>4. r \in U
    OBVIOUS
  <2>5. IsFiniteSet(U) /\ Cardinality(U) = Cardinality(Underway) + Begins(r) - Leaving
    BY <2>1, BegunCounts
  <2> HIDE DEF U
  <2>6. Cardinality(U \ {r}) = Cardinality(U) - 1
    BY <2>4, <2>5, FS_RemoveElement
  <2>7. serving' = Cardinality(U) - 1
    <3>1. serving + Begins(r) - Leaving = Cardinality(U)
      BY <2>5
    <3>2. serving' = serving + Begins(r) - Leaving - 1
      BY <1>5
    <3>3. serving \in Int /\ Begins(r) \in Int /\ Leaving \in Int
      BY ServingType DEF QueueTypeOK
    <3> QED BY <3>1, <3>2, <3>3
  <2> QED BY <2>3, <2>6, <2>7
<1>6. CASE TickRefresh \/ TickIdle
  BY <1>3, <1>6 DEF TickRefresh, TickIdle
<1>7. ASSUME NEW r \in Requests, TickRow(r)
      PROVE  serving' = Cardinality(Underway')
  BY <1>4, <1>7, HeadsQueue DEF TickRow, Start, QueueInv
<1>8. ASSUME NEW r \in Requests, TickRead(r)
      PROVE  serving' = Cardinality(Underway')
  BY <1>4, <1>8, HeadsQueue DEF TickRead, Start, QueueInv
<1>9. ASSUME NEW r \in Requests, TickWrite(r)
      PROVE  serving' = Cardinality(Underway')
  <2>1. CASE Finishes(r)
    <3>1. WriteDone(r)
      BY <2>1, <1>9 DEF TickWrite, WriteDone, Taken
    <3>2. serving' = serving + Begins(r) - Leaving - 1
      BY <2>1, <1>9 DEF TickWrite
    <3> QED BY <3>1, <3>2, <1>5
  <2>2. CASE ~Finishes(r)
    <3>1. Start(r) /\ begun' = begun \cup {r} /\ responses' = responses
      BY <2>2, <1>9 DEF TickWrite, Start
    <3>2. serving' = serving + Begins(r) - Leaving - 0
      BY <2>2, <1>9 DEF TickWrite
    <3>3. serving' = serving + Begins(r) - Leaving
      BY <3>2, ServingType DEF QueueTypeOK
    <3> QED BY <3>1, <3>3, <1>4, HeadsQueue DEF QueueInv
  <2> QED BY <2>1, <2>2
<1> QED BY <1>6, <1>7, <1>8, <1>9 DEF Tick

----------------------------------------------------------------------------
(* The invariant *)

VaultInv ==
  /\ TypeOK /\ QueueInv /\ TimeInv /\ RefreshInv
  /\ TimingKept /\ AssertionsHold

LEMMA VaultInit == ASSUME Init PROVE VaultInv
<1>1. DramTypeOK
  <2>1. 0 \in 0 .. Oldest /\ Oldest \in 0 .. Oldest /\ 0 \in 0 .. T.nREFI - 1
    BY OldestIsLongest, TimesType, TimingAssumption
  <2>2. NoWait \in Times
    BY <2>1 DEF NoWait, Times
  <2>3. row \in [Banks -> Rows \cup {Closed}] /\ table \in [Banks -> Rows \cup {Closed}]
    BY DEF Init
  <2>4. age \in [Banks -> [Events -> 0 .. Oldest]]
    BY <2>1 DEF Init
  <2>5. until \in [vault : Times, bank : [Banks -> Times]]
    BY <2>2 DEF Init
  <2> QED BY <2>1, <2>3, <2>4, <2>5 DEF Init, DramTypeOK
<1>2. TimingKept
  BY DEF Init, TimingKept
<1>3. AssertionsHold
  <2>1. {r \in begun : ~Served(r)} = {} /\ serving = 0 /\ table = row
    BY DEF Init
  <2> QED BY <2>1, FS_EmptySet DEF AssertionsHold
<1> QED BY <1>1, <1>2, <1>3, QueueInit, CoverInit, RefreshInit DEF VaultInv, TypeOK

LEMMA VaultNext == ASSUME VaultInv, [Next]_vars PROVE VaultInv'
<1>1. DramTypeOK /\ QueueTypeOK /\ QueueInv
  BY DEF VaultInv, TypeOK
<1>2. QueueTypeOK' /\ QueueInv' /\ RefreshInv'
  BY <1>1, QueueNext, RefreshNext DEF VaultInv
<1>3. CASE UNCHANGED vars
  <2>1. UNCHANGED <<arrived, queueVars, dramVars, responses, answered, historyVars>>
    BY <1>3 DEF vars
  <2>2. DramTypeOK'
    BY <1>1, <2>1 DEF DramTypeOK, dramVars, historyVars, queueVars
  <2>3. TimeInv' /\ TimingKept'
    BY <2>1 DEF VaultInv, TimeInv, CoverInv, TimingKept, dramVars, historyVars
  <2>4. AssertionsHold'
    BY <2>1 DEF VaultInv, AssertionsHold, Served, dramVars, queueVars
  <2> QED BY <1>2, <2>2, <2>3, <2>4 DEF VaultInv, TypeOK
<1>4. ASSUME NEW r \in Requests, Receive(r) PROVE VaultInv'
  <2>1. UNCHANGED <<dramVars, historyVars, otherq, serving, begun, responses, answered>>
    BY <1>4 DEF Receive
  <2>2. DramTypeOK'
    BY <1>1, <2>1 DEF DramTypeOK, dramVars, historyVars
  <2>3. TimeInv' /\ TimingKept'
    BY <2>1 DEF VaultInv, TimeInv, CoverInv, TimingKept, dramVars, historyVars
  <2>4. AssertionsHold'
    BY <2>1 DEF VaultInv, AssertionsHold, Served, dramVars
  <2> QED BY <1>2, <2>2, <2>3, <2>4 DEF VaultInv, TypeOK
<1>5. CASE Tick
  <2>1. PICK cmd \in Commands \cup {"none"} : Ticks(cmd)
    BY <1>1, <1>5, TickTicks
  <2>2. otherq' \in Nat
    <3>1. \/ otherq' = otherq
          \/ Refreshes > 0 /\ otherq' \in {Refreshes, Refreshes - 1}
      BY <1>5 DEF Tick, TickRefresh, TickIdle, TickRow, TickRead, TickWrite, RefreshesLeft
    <3> QED BY <3>1, <1>1 DEF Refreshes, DramTypeOK
  <2>3. DramTypeOK'
    BY <1>1, <2>1, <2>2, TicksType DEF DramTypeOK
  <2>4. TimeInv'
    BY <1>1, <2>1, CoverNext DEF VaultInv, TimeInv
  <2>5. TimingKept'
    BY <1>1, <2>1, TimingTick DEF VaultInv
  <2>6. table' = row'
    BY <1>1, <2>1, TableTick DEF VaultInv, AssertionsHold
  <2>7. serving' = Cardinality(Underway')
    BY <1>1, <1>5, ServingTick DEF VaultInv, AssertionsHold, Underway
  <2>8. AssertionsHold'
    BY <2>6, <2>7 DEF AssertionsHold, Underway
  <2> QED BY <1>2, <2>3, <2>4, <2>5, <2>8 DEF VaultInv, TypeOK
<1> QED BY <1>3, <1>4, <1>5 DEF Next

LEMMA VaultInductive == Spec => []VaultInv
BY VaultInit, VaultNext, PTL DEF Spec

(* Times to wait never exceed the longest gap, nor the refresh counter its *)
(* period, and burst_count (an int) neither exceeds its start nor falls    *)
(* below zero.                                                             *)
THEOREM VaultTypeOK == Spec => []TypeOK
<1>1. VaultInv => TypeOK
  BY DEF VaultInv
<1> QED BY <1>1, VaultInductive, PTL

(* No assertion on the way of a command fails: the row table agrees with   *)
(* the banks, and cur_serving_requests counts what is begun and not done.  *)
THEOREM VaultAssertionsHold == Spec => []AssertionsHold
<1>1. VaultInv => AssertionsHold
  BY DEF VaultInv
<1> QED BY <1>1, VaultInductive, PTL

(* A request gets each of its column accesses once, keeping its place in   *)
(* the queue until the last.                                               *)
THEOREM VaultBurstsComplete == Spec => []BurstsComplete
<1>1. VaultInv => BurstsComplete
  BY DEF VaultInv, QueueInv
<1> QED BY <1>1, VaultInductive, PTL

(* For every timing table the controller issues no command to a bank too   *)
(* early, whichever level of the DRAM holds it back.                       *)
THEOREM VaultTimingKept == Spec => []TimingKept
<1>1. VaultInv => TimingKept
  BY DEF VaultInv
<1> QED BY <1>1, VaultInductive, PTL

(* If nREFI exceeds twice the longest gap, no refresh is due before the    *)
(* last one is done.                                                       *)
THEOREM VaultRefreshKeepsUp == Spec => []RefreshKeepsUp
<1>1. VaultInv => RefreshKeepsUp
  BY RefreshBound DEF VaultInv, TypeOK
<1> QED BY <1>1, VaultInductive, PTL
=============================================================================
