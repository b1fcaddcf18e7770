----------------------- MODULE VaultRefinementProofs -----------------------
(***************************************************************************)
(* The vault controller implements the vault that HmcHost describes, for   *)
(* every traffic of near-memory cores and every timing table.              *)
(***************************************************************************)
EXTENDS VaultProofs

----------------------------------------------------------------------------
(* The cube of one vault and one link *)

LEMMA HostIds ==
  /\ Host!LinkIds = {0} /\ Host!VaultIds = {0}
  /\ \A r \in Requests : Host!VaultOf(r) = 0 /\ Host!LinkOf(r) = 0 /\ Host!Near(r)
<1>1. 0 .. 1 - 1 = {0}
  OBVIOUS
<1>2. ASSUME NEW r \in Requests
      PROVE  Host!VaultOf(r) = 0 /\ Host!LinkOf(r) = 0 /\ Host!Near(r)
  <2>1. Traffic[r].addr \in Nat /\ Traffic[r].from_nmp
    BY TrafficAssumption
  <2>2. \A n \in Nat : (n \div 1) % 1 = 0
    OBVIOUS
  <2> QED BY <2>1, <2>2 DEF Host!VaultOf, Host!LinkOf, Host!Block, Host!Near
<1> QED BY <1>1, <1>2 DEF Host!LinkIds, Host!VaultIds

----------------------------------------------------------------------------
(* Requests are numbered as they arrive. *)

NumberInv == IsInjective(arrived)

LEMMA NumberInit == ASSUME Init PROVE NumberInv
BY DEF Init, NumberInv, IsInjective

LEMMA NumberNext == ASSUME QueueTypeOK, NumberInv, [Next]_vars PROVE NumberInv'
<1>1. ASSUME NEW r \in Requests, Receive(r) PROVE NumberInv'
  BY <1>1, AppendFresh DEF Receive, NumberInv, QueueTypeOK
<1>2. CASE Tick
  BY <1>2, TickKinds DEF Clock, NumberInv
<1>3. CASE UNCHANGED vars
  BY <1>3 DEF vars, NumberInv
<1> QED BY <1>1, <1>2, <1>3 DEF Next

LEMMA NumberType ==
  ASSUME QueueTypeOK, NEW r \in Range(arrived)
  PROVE  /\ Number(r) \in Nat /\ Number(r) + 1 \in 1 .. Len(arrived)
         /\ arrived[Number(r) + 1] = r
<1>1. DOMAIN arrived = 1 .. Len(arrived) /\ Len(arrived) \in Nat
  BY LenProperties DEF QueueTypeOK
<1> DEFINE n == CHOOSE i \in DOMAIN arrived : arrived[i] = r
<1>2. n \in DOMAIN arrived /\ arrived[n] = r
  BY DEF Range
<1>3. Number(r) = n - 1
  BY DEF Number
<1> HIDE DEF n
<1>4. (n - 1) + 1 = n /\ n - 1 \in Nat
  BY <1>1, <1>2
<1> QED BY <1>1, <1>2, <1>3, <1>4

LEMMA NumbersDiffer ==
  ASSUME QueueTypeOK, NEW r \in Range(arrived), NEW s \in Range(arrived)
  PROVE  Packet(r).req = r /\ Packet(r).reqid = Number(r) /\ (Number(r) = Number(s) => r = s)
BY NumberType DEF Packet

(* A request that arrives leaves the numbers of the others. *)
LEMMA NumberStable ==
  ASSUME QueueTypeOK, NumberInv, NEW r \in Requests, Receive(r)
  PROVE  /\ \A x \in Range(arrived) : Packet(x)' = Packet(x)
         /\ Number(r)' = Len(arrived)
<1>1. /\ arrived' = Append(arrived, r) /\ r \notin Range(arrived)
      /\ arrived \in Seq(Requests)
  BY DEF Receive, QueueTypeOK
<1>2. /\ DOMAIN arrived = 1 .. Len(arrived) /\ DOMAIN arrived' = 1 .. Len(arrived) + 1
      /\ Len(arrived) \in Nat /\ arrived'[Len(arrived) + 1] = r
      /\ \A i \in 1 .. Len(arrived) : arrived'[i] = arrived[i]
  BY <1>1, AppendProperties, LenProperties
<1>3. \A i, j \in 1 .. Len(arrived) + 1 : arrived'[i] = arrived'[j] => i = j
  BY <1>1, <1>2, AppendFresh DEF IsInjective, NumberInv
<1>4. ASSUME NEW x, NEW k \in DOMAIN arrived', arrived'[k] = x
      PROVE  Number(x)' = k - 1
  <2>1. (CHOOSE i \in DOMAIN arrived' : arrived'[i] = x) = k
    BY <1>2, <1>3, <1>4
  <2> QED BY <2>1 DEF Number
<1>5. Number(r)' = Len(arrived)
  <2>1. Len(arrived) + 1 \in DOMAIN arrived'
    BY <1>2
  <2> QED BY <2>1, <1>2, <1>4
<1>6. ASSUME NEW x \in Range(arrived) PROVE Packet(x)' = Packet(x)
  <2>1. Number(x) + 1 \in DOMAIN arrived' /\ arrived'[Number(x) + 1] = x /\ Number(x) \in Nat
    BY <1>2, NumberType
  <2>2. Number(x)' = Number(x)
    BY <2>1, <1>4
  <2> QED BY <2>2 DEF Packet
<1> QED BY <1>5, <1>6

LEMMA NumberKept ==
  ASSUME arrived' = arrived
  PROVE  \A x : Packet(x)' = Packet(x)
BY DEF Packet, Number

----------------------------------------------------------------------------
(* Queues and their packets *)

LEMMA PacketsSets ==
  ASSUME QueueTypeOK, NEW S, S \subseteq Range(arrived), NEW r \in Range(arrived)
  PROVE  /\ Packet(r) \in Packets(S) <=> r \in S
         /\ Packets(S \cup {r}) = Packets(S) \cup {Packet(r)}
         /\ Packets(S \ {r}) = Packets(S) \ {Packet(r)}
         /\ Packets(S \ {r}) = {p \in Packets(S) : p.reqid # Packet(r).reqid}
         /\ (Packets(S) = {}) = (S = {})
BY NumbersDiffer DEF Packets

LEMMA DistinctLength ==
  ASSUME NEW S, NEW q \in Seq(S), IsInjective(q)
  PROVE  Cardinality(Range(q)) = Len(q) /\ IsFiniteSet(Range(q))
<1>1. DOMAIN q = 1 .. Len(q) /\ Len(q) \in Nat
  BY LenProperties
<1>2. IsFiniteSet(1 .. Len(q)) /\ Cardinality(1 .. Len(q)) = Len(q)
  BY <1>1, FS_Interval
<1>3. q \in Bijection(1 .. Len(q), Range(q))
  BY <1>1 DEF Bijection, Injection, Surjection, IsInjective, Range
<1>4. ExistsBijection(1 .. Len(q), Range(q))
  BY <1>3 DEF ExistsBijection
<1> QED BY <1>2, <1>4, FS_Bijection

LEMMA PacketsCount ==
  ASSUME QueueTypeOK, NEW S, S \subseteq Range(arrived), IsFiniteSet(S)
  PROVE  Cardinality(Packets(S)) = Cardinality(S)
<1> DEFINE f == [r \in S |-> Packet(r)]
<1>1. f \in Bijection(S, Packets(S))
  BY NumbersDiffer DEF Bijection, Injection, Surjection, IsInjective, Packets
<1>2. ExistsBijection(S, Packets(S))
  BY <1>1 DEF ExistsBijection
<1> QED BY <1>2, FS_Bijection

(* HmcHost has its own copies of the operators of the library. *)
LEMMA HostCardinality == ASSUME NEW S PROVE Host!Cardinality(S) = Cardinality(S)
BY DEF Host!Cardinality, Cardinality

LEMMA HostRange == ASSUME NEW f PROVE Host!Range(f) = Range(f)
BY DEF Host!Range, Range

LEMMA ModesAgree ==
  ASSUME QueueTypeOK, PlaceInv
  PROVE  Host!NextMode(0) = NextMode
<1>1. /\ Reads \subseteq Range(arrived) /\ Writes \subseteq Range(arrived)
      /\ IsInjective(writeq) /\ writeq \in Seq(Requests) /\ readq \in Seq(Requests)
  BY DEF PlaceInv, QueueTypeOK
<1>2. Cardinality(Packets(Writes)) = Len(writeq)
  BY <1>1, DistinctLength, PacketsCount DEF Writes
<1>3. (Packets(Reads) = {}) = (Reads = {})
  BY <1>1 DEF Packets
<1>4. (Reads = {}) = (readq = <<>>)
  BY <1>1, EmptySeq, LenProperties DEF Reads, Range
<1>5. One(write_mode)[0] = write_mode /\ One(Packets(Writes))[0] = Packets(Writes)
      /\ One(Packets(Reads))[0] = Packets(Reads)
  BY DEF One
<1>6. Host!Cardinality(One(Packets(Writes))[0]) = Len(writeq)
  BY <1>2, <1>5, HostCardinality
<1> QED BY <1>3, <1>4, <1>5, <1>6
        DEF Host!NextMode, Host!High, Host!Low, NextMode, High, Low, Reads, Writes

----------------------------------------------------------------------------
(* Sequences of packets *)

AsPackets(s) == [i \in DOMAIN s |-> Packet(s[i])]
Boxes == Packets(Requests)

LEMMA AsPacketsType ==
  ASSUME NEW s \in Seq(Requests)
  PROVE  /\ AsPackets(s) \in Seq(Boxes) /\ Len(AsPackets(s)) = Len(s)
         /\ \A i \in 1 .. Len(s) : AsPackets(s)[i] = Packet(s[i])
         /\ (AsPackets(s) = <<>>) = (s = <<>>)
<1>1. DOMAIN s = 1 .. Len(s) /\ Len(s) \in Nat
  BY LenProperties
<1>2. \A i \in 1 .. Len(s) : Packet(s[i]) \in Boxes
  BY ElementOfSeq DEF Boxes, Packets
<1>3. AsPackets(s) \in [1 .. Len(s) -> Boxes]
  BY <1>1, <1>2 DEF AsPackets
<1>4. AsPackets(s) \in Seq(Boxes) /\ Len(AsPackets(s)) = Len(s)
  BY <1>1, <1>3, SeqDef, LenProperties
<1> QED BY <1>1, <1>3, <1>4, EmptySeq DEF AsPackets

LEMMA AsPacketsAppend ==
  ASSUME NEW s \in Seq(Requests), NEW r \in Requests
  PROVE  AsPackets(Append(s, r)) = Append(AsPackets(s), Packet(r))
<1>1. /\ Append(s, r) \in Seq(Requests) /\ Len(Append(s, r)) = Len(s) + 1 /\ Len(s) \in Nat
      /\ \A i \in 1 .. Len(s) : Append(s, r)[i] = s[i]
      /\ Append(s, r)[Len(s) + 1] = r
  BY AppendProperties, LenProperties
<1>2. Packet(r) \in Boxes
  BY DEF Boxes, Packets
<1>3. /\ Append(AsPackets(s), Packet(r)) \in Seq(Boxes)
      /\ Len(Append(AsPackets(s), Packet(r))) = Len(s) + 1
      /\ \A i \in 1 .. Len(s) : Append(AsPackets(s), Packet(r))[i] = Packet(s[i])
      /\ Append(AsPackets(s), Packet(r))[Len(s) + 1] = Packet(r)
  BY <1>1, <1>2, AsPacketsType, AppendProperties
<1>4. /\ AsPackets(Append(s, r)) \in Seq(Boxes) /\ Len(AsPackets(Append(s, r))) = Len(s) + 1
      /\ \A i \in 1 .. Len(s) + 1 : AsPackets(Append(s, r))[i] = Packet(Append(s, r)[i])
  BY <1>1, AsPacketsType
<1>5. \A i \in 1 .. Len(s) + 1 : AsPackets(Append(s, r))[i] = Append(AsPackets(s), Packet(r))[i]
  BY <1>1, <1>3, <1>4
<1> QED BY <1>1, <1>3, <1>4, <1>5, SeqEqual

LEMMA AsPacketsTail ==
  ASSUME NEW s \in Seq(Requests), s # <<>>
  PROVE  AsPackets(Tail(s)) = Tail(AsPackets(s)) /\ Tail(s) \in Seq(Requests)
<1>1. /\ Tail(s) \in Seq(Requests) /\ Len(Tail(s)) = Len(s) - 1 /\ Len(s) \in Nat
      /\ \A i \in 1 .. Len(s) - 1 : Tail(s)[i] = s[i + 1]
      /\ Len(s) > 0
  BY HeadTailProperties, LenProperties, EmptySeq
<1>2. /\ Tail(AsPackets(s)) \in Seq(Boxes) /\ Len(Tail(AsPackets(s))) = Len(s) - 1
      /\ \A i \in 1 .. Len(s) - 1 : Tail(AsPackets(s))[i] = Packet(s[i + 1])
  BY <1>1, AsPacketsType, HeadTailProperties
<1>3. /\ AsPackets(Tail(s)) \in Seq(Boxes) /\ Len(AsPackets(Tail(s))) = Len(s) - 1
      /\ \A i \in 1 .. Len(s) - 1 : AsPackets(Tail(s))[i] = Packet(Tail(s)[i])
  BY <1>1, AsPacketsType
<1>4. \A i \in 1 .. Len(s) - 1 : AsPackets(Tail(s))[i] = Tail(AsPackets(s))[i]
  BY <1>1, <1>2, <1>3
<1> QED BY <1>1, <1>2, <1>3, <1>4, SeqEqual

LEMMA PacketsWithout ==
  ASSUME QueueTypeOK, NEW S, S \subseteq Range(arrived), NEW D, D \subseteq Range(arrived)
  PROVE  /\ Packets(S \ D) = {q \in Packets(S) : \A p \in Packets(D) : q.reqid # p.reqid}
         /\ Packets(S \ D) = Packets(S) \ Packets(D)
BY NumbersDiffer DEF Packets

----------------------------------------------------------------------------
(* The state of the vault as HmcHost sees it, and a tick there *)

HostIncoming == Packets(Reads \cup Writes \cup Departing)
HostPending == [i \in DOMAIN pending |-> Packet(pending[i].req)]
HostResponses == [i \in DOMAIN responses |-> Packet(responses[i])]
HostAnswered == [r \in Requests |-> IF r \in answered THEN 1 ELSE 0]

LEMMA OneValue ==
  ASSUME NEW x, NEW y
  PROVE  One(x)[0] = x /\ [One(x) EXCEPT ![0] = y] = One(y)
BY DEF One

(* The packets after a tick in which these leave, are read, are written *)
TickSeen(leaving, read, written) ==
  /\ arrived' = arrived /\ write_mode' = NextMode
  /\ Packets(Reads)' = Packets(Reads) \ Range(read)
  /\ Packets(Writes)' = Packets(Writes) \ Range(written)
  /\ HostPending' = (IF leaving = <<>> THEN HostPending ELSE Tail(HostPending)) \o read
  /\ HostResponses' = HostResponses \o written
  /\ HostIncoming' = {q \in HostIncoming :
                        \A p \in Range(leaving \o written) : q.reqid # p.reqid}
  /\ leaving # <<>> => Host!Near(Head(leaving).req)
  /\ HostAnswered' = IF leaving # <<>>
                     THEN [HostAnswered EXCEPT ![Head(leaving).req] = @ + 1]
                     ELSE HostAnswered

LEMMA HostTick ==
  ASSUME QueueTypeOK, PlaceInv, NEW leaving, NEW served, NEW read, NEW written,
         ~NextMode => read = served /\ written = <<>>,
         NextMode => read = <<>> /\ written = served,
         TickSeen(leaving, read, written)
  PROVE  Host!VaultTick(0, leaving, served)
<1> DEFINE bR == One(Packets(Reads))
           bW == One(Packets(Writes))
           bP == One(HostPending)
           bS == One(HostResponses)
           bI == One(HostIncoming)
           bM == One(write_mode)
<1>1. Host!NextMode(0) = NextMode
  BY ModesAgree
<1>2. HostResponses \o <<>> = HostResponses
  <2>1. HostResponses = AsPackets(responses)
    BY DEF HostResponses, AsPackets
  <2> QED BY <2>1, AsPacketsType, ConcatEmptySeq DEF QueueTypeOK
<1>3. bM' = [bM EXCEPT ![0] = Host!NextMode(0)]
  BY <1>1, OneValue DEF One, TickSeen
<1>4. bR' = [bR EXCEPT ![0] = @ \ Host!Range(read)]
  BY HostRange DEF One, TickSeen
<1>5. bW' = [bW EXCEPT ![0] = @ \ Host!Range(written)]
  BY HostRange DEF One, TickSeen
<1>6. bP' = [bP EXCEPT ![0] = (IF leaving = <<>> THEN @ ELSE Tail(@)) \o read]
  BY DEF One, TickSeen
<1>7. bS' = [bS EXCEPT ![0] = @ \o <<>> \o written]
  BY <1>2 DEF One, TickSeen
<1>8. bI' = [bI EXCEPT ![0] = {q \in @ :
               \A p \in Host!Range(leaving \o written) : q.reqid # p.reqid}]
  BY HostRange DEF One, TickSeen
<1>9. read = (IF NextMode THEN <<>> ELSE served) /\ written = (IF NextMode THEN served ELSE <<>>)
  OBVIOUS
<1> QED BY <1>1, <1>3, <1>4, <1>5, <1>6, <1>7, <1>8, <1>9
        DEF TickSeen, Host!VaultTick, Reads, Writes, Departing, HostIncoming, HostPending,
            HostResponses, HostAnswered, Host!hostVars, Host!linkVars

----------------------------------------------------------------------------
(* Each tick of the controller is a tick of the vault *)

GonePackets == IF Departs THEN <<Packet(pending[1].req)>> ELSE <<>>

LEMMA PendingPackets ==
  ASSUME QueueTypeOK
  PROVE  /\ HostPending = AsPackets(PendingReqs) /\ HostPending \in Seq(Boxes)
         /\ HostResponses = AsPackets(responses) /\ HostResponses \in Seq(Boxes)
<1>1. /\ PendingReqs \in Seq(Requests) /\ DOMAIN PendingReqs = DOMAIN pending
      /\ \A i \in DOMAIN pending : PendingReqs[i] = pending[i].req
  BY RemainingType DEF PendingReqs
<1>2. HostPending = AsPackets(PendingReqs)
  BY <1>1 DEF HostPending, AsPackets
<1>3. HostResponses = AsPackets(responses)
  BY DEF HostResponses, AsPackets
<1> QED BY <1>1, <1>2, <1>3, AsPacketsType DEF QueueTypeOK

LEMMA GoneType ==
  ASSUME QueueTypeOK, PlaceInv
  PROVE  /\ GonePackets \in Seq(Boxes) /\ Range(GonePackets) = Packets(Gone)
         /\ AsPackets(Reqs(Remaining)) =
              IF GonePackets = <<>> THEN HostPending ELSE Tail(HostPending)
         /\ GonePackets # <<>> => /\ Departs /\ HostPending # <<>>
                                  /\ GonePackets = <<Head(HostPending)>>
                                  /\ Head(GonePackets).req = pending[1].req
                                  /\ pending[1].req \in Departing
         /\ GonePackets = <<>> => ~Departs
<1>1. CASE ~Departs
  <2>1. GonePackets = <<>> /\ Gone = {} /\ Reqs(Remaining) = PendingReqs
    BY <1>1, RemainingType DEF GonePackets, Gone
  <2>2. <<>> \in Seq(Boxes) /\ Range(<<>>) = {} /\ Packets({}) = {}
    BY DEF Range, Packets
  <2> QED BY <1>1, <2>1, <2>2, PendingPackets
<1>2. CASE Departs
  <2>1. /\ PendingReqs # <<>> /\ PendingReqs[1] = pending[1].req
        /\ Reqs(Remaining) = Tail(PendingReqs) /\ PendingReqs \in Seq(Requests)
    BY <1>2, RemainingType
  <2>2. GonePackets = <<Packet(pending[1].req)>> /\ Gone = {pending[1].req}
    BY <1>2 DEF GonePackets, Gone
  <2>3. pending[1].req \in Departing /\ pending[1].req \in Requests
    BY <2>1, TailTakes DEF Departing
  <2>4. Packet(pending[1].req) \in Boxes /\ Packet(pending[1].req).req = pending[1].req
    BY <2>3 DEF Boxes, Packets, Packet
  <2>5. GonePackets \in Seq(Boxes) /\ Range(GonePackets) = Packets(Gone)
    BY <2>2, <2>4 DEF Packets, Range
  <2>6. AsPackets(Reqs(Remaining)) = Tail(HostPending)
    BY <2>1, AsPacketsTail, PendingPackets
  <2>7. HostPending # <<>> /\ Head(HostPending) = Packet(pending[1].req)
    <3>1. Len(PendingReqs) \in Nat /\ Len(PendingReqs) > 0
      BY <2>1, EmptySeq, LenProperties
    <3>2. HostPending \in Seq(Boxes) /\ HostPending # <<>> /\ HostPending[1] = Packet(PendingReqs[1])
      BY <3>1, <2>1, PendingPackets, AsPacketsType
    <3> QED BY <3>2, <2>1
  <2>8. GonePackets # <<>> /\ Head(GonePackets) = Packet(pending[1].req)
    BY <2>2
  <2> QED BY <1>2, <2>2, <2>3, <2>4, <2>5, <2>6, <2>7, <2>8
<1> QED BY <1>1, <1>2

(* The near cores get the read that departs. *)
LEMMA GoneAnswered ==
  ASSUME QueueTypeOK, PlaceInv, Clock
  PROVE  /\ GonePackets # <<>> => Host!Near(Head(GonePackets).req)
         /\ HostAnswered' = IF GonePackets # <<>>
              THEN [HostAnswered EXCEPT ![Head(GonePackets).req] = @ + 1] ELSE HostAnswered
<1>1. answered' = answered \cup Gone
  BY ClockType
<1>2. CASE GonePackets = <<>>
  <2>1. Gone = {}
    BY <1>2, GoneType DEF Gone
  <2> QED BY <1>1, <1>2, <2>1 DEF HostAnswered
<1>3. CASE GonePackets # <<>>
  <2> DEFINE x == pending[1].req
  <2>1. Gone = {x} /\ Head(GonePackets).req = x /\ x \in Departing
    BY <1>3, GoneType DEF Gone
  <2>2. x \in Requests /\ x \notin answered
    BY <2>1, RemainingType, RangeOfSeq DEF PlaceInv, Departing
  <2>3. Host!Near(x)
    BY <2>2, HostIds
  <2> HIDE DEF x
  <2>4. HostAnswered' = [HostAnswered EXCEPT ![x] = @ + 1]
    <3>1. HostAnswered[x] + 1 = 1 /\ HostAnswered = [r \in Requests |-> HostAnswered[r]]
      BY <2>2 DEF HostAnswered
    <3>2. \A r \in Requests : (IF r \in answered' THEN 1 ELSE 0) = IF r = x THEN 1 ELSE HostAnswered[r]
      BY <1>1, <2>1 DEF HostAnswered
    <3>3. [HostAnswered EXCEPT ![x] = @ + 1] = [r \in Requests |-> IF r = x THEN 1 ELSE HostAnswered[r]]
      BY <3>1, <2>2
    <3> QED BY <3>2, <3>3 DEF HostAnswered
  <2> QED BY <1>3, <2>1, <2>3, <2>4
<1> QED BY <1>2, <1>3

(* What the packets are after a tick *)
LEMMA TickPackets ==
  ASSUME arrived' = arrived
  PROVE  /\ Packets(Reads)' = Packets(Range(readq'))
         /\ Packets(Writes)' = Packets(Range(writeq'))
         /\ HostIncoming' =
              Packets(Range(readq') \cup Range(writeq') \cup Range(PendingReqs'))
         /\ HostPending' = AsPackets(Reqs(pending'))
         /\ HostResponses' = AsPackets(responses')
<1>1. HostPending' = AsPackets(Reqs(pending'))
  BY DEF HostPending, AsPackets, Reqs, Packet, Number
<1>2. HostResponses' = AsPackets(responses')
  BY DEF HostResponses, AsPackets, Packet, Number
<1> QED BY <1>1, <1>2 DEF Packets, Packet, Number, HostIncoming, Reads, Writes, Departing

LEMMA QuietTick ==
  ASSUME QueueTypeOK, PlaceInv, Clock, Quiet
  PROVE  Host!VaultTick(0, GonePackets, <<>>)
<1>1. /\ arrived' = arrived /\ write_mode' = NextMode /\ pending' = Remaining
      /\ readq' = readq /\ writeq' = writeq /\ responses' = responses
  BY DEF Clock, Quiet
<1>2. Range(PendingReqs') = Departing \ Gone
  BY <1>1, PlaceOfGone DEF PendingReqs, Reqs
<1>3. /\ Range(<<>>) = {} /\ GonePackets \o <<>> = GonePackets
      /\ HostPending \o <<>> = HostPending /\ HostResponses \o <<>> = HostResponses
      /\ HostPending # <<>> => Tail(HostPending) \o <<>> = Tail(HostPending)
  BY GoneType, PendingPackets, ConcatEmptySeq, HeadTailProperties DEF Range
<1>4. /\ Packets(Reads)' = Packets(Reads) \ Range(<<>>)
      /\ Packets(Writes)' = Packets(Writes) \ Range(<<>>)
  BY <1>1, <1>3, TickPackets DEF Reads, Writes
<1>5. HostPending' = (IF GonePackets = <<>> THEN HostPending ELSE Tail(HostPending)) \o <<>>
  BY <1>1, <1>3, TickPackets, GoneType
<1>6. HostResponses' = HostResponses \o <<>>
  BY <1>1, <1>3, TickPackets, PendingPackets
<1>7. HostIncoming' = {q \in HostIncoming :
                         \A p \in Range(GonePackets \o <<>>) : q.reqid # p.reqid}
  <2>1. Gone \subseteq Departing /\ Departing \cap (Reads \cup Writes) = {}
    BY PlaceOfGone DEF PlaceInv
  <2>2. Range(readq') \cup Range(writeq') \cup Range(PendingReqs')
          = (Reads \cup Writes \cup Departing) \ Gone
    BY <1>1, <1>2, <2>1 DEF Reads, Writes
  <2>3. Reads \cup Writes \cup Departing \subseteq Range(arrived)
    BY DEF PlaceInv
  <2>4. Gone \subseteq Range(arrived)
    BY <2>1, <2>3
  <2> QED BY <1>1, <1>3, <2>2, <2>3, <2>4, TickPackets, PacketsWithout, GoneType DEF HostIncoming
<1>8. TickSeen(GonePackets, <<>>, <<>>)
  BY <1>1, <1>4, <1>5, <1>6, <1>7, GoneAnswered DEF TickSeen
<1> QED BY <1>8, HostTick

LEMMA ReadTick ==
  ASSUME QueueTypeOK, PlaceInv, Clock, NEW r \in Requests, ReadDone(r),
         NEW box, box = <<Packet(r)>>
  PROVE  Host!VaultTick(0, GonePackets, box)
<1>1. /\ arrived' = arrived /\ write_mode' = NextMode
      /\ writeq' = writeq /\ responses' = responses
      /\ ~NextMode /\ r \in Reads
  BY HeadsQueue DEF Clock, ReadDone
<1>2. Range(readq') = Reads \ {r}
  BY PlacesReadDone
<1>3. Reqs(pending') = Append(Reqs(Remaining), r)
  <2> DEFINE x == [req |-> r, left |-> T.nCL + T.nBL, forwarded |-> FALSE]
  <2>1. pending' = Append(Remaining, x)
    BY DEF ReadDone
  <2>2. x \in PendingReads /\ x.req = r
    BY TimesType DEF PendingReads
  <2> HIDE DEF x
  <2> QED BY <2>1, <2>2, RemainingType, ReqsAppend
<1>4. Range(PendingReqs') = (Departing \ Gone) \cup {r}
  <2>1. PendingReqs' = Append(Reqs(Remaining), r)
    BY <1>3 DEF PendingReqs, Reqs
  <2> QED BY <2>1, PlaceOfGone, AppendFresh
<1>5. /\ Range(<<>>) = {} /\ Range(box) = Packets({r})
      /\ GonePackets \o <<>> = GonePackets /\ HostResponses \o <<>> = HostResponses
  BY GoneType, PendingPackets, ConcatEmptySeq DEF Range, Packets
<1>6. Reads \cup Writes \cup Departing \subseteq Range(arrived)
  BY DEF PlaceInv
<1>7. /\ Packets(Reads)' = Packets(Reads) \ Range(box)
      /\ Packets(Writes)' = Packets(Writes) \ Range(<<>>)
  <2>1. Reads \subseteq Range(arrived) /\ {r} \subseteq Range(arrived)
    BY <1>1, <1>6
  <2> QED BY <1>1, <1>2, <1>5, <2>1, TickPackets, PacketsWithout DEF Reads, Writes
<1>8. HostPending' =
        (IF GonePackets = <<>> THEN HostPending ELSE Tail(HostPending)) \o box
  <2> DEFINE rest == IF GonePackets = <<>> THEN HostPending ELSE Tail(HostPending)
  <2>1. AsPackets(Reqs(Remaining)) = rest /\ Reqs(Remaining) \in Seq(Requests)
    BY GoneType, PlaceOfGone
  <2> HIDE DEF rest
  <2>2. Packet(r) \in Boxes
    BY DEF Boxes, Packets
  <2>3. rest \in Seq(Boxes)
    BY <2>1, AsPacketsType
  <2>4. HostPending' = Append(rest, Packet(r))
    BY <1>1, <1>3, <2>1, TickPackets, AsPacketsAppend
  <2>5. HostPending' = rest \o box
    BY <2>2, <2>3, <2>4, AppendIsConcat
  <2> QED BY <2>5 DEF rest
<1>9. HostResponses' = HostResponses \o <<>>
  BY <1>1, <1>5, TickPackets, PendingPackets
<1>10. HostIncoming' = {q \in HostIncoming :
                          \A p \in Range(GonePackets \o <<>>) : q.reqid # p.reqid}
  <2>1. Gone \subseteq Departing /\ Departing \cap (Reads \cup Writes) = {}
    BY PlaceOfGone DEF PlaceInv
  <2>2. Range(readq') \cup Range(writeq') \cup Range(PendingReqs')
          = (Reads \cup Writes \cup Departing) \ Gone
    BY <1>1, <1>2, <1>4, <2>1 DEF Reads, Writes
  <2>3. Gone \subseteq Range(arrived)
    BY <2>1, <1>6
  <2>4. HostIncoming' = Packets((Reads \cup Writes \cup Departing) \ Gone)
    BY <1>1, <2>2, TickPackets
  <2>5. HostIncoming' = {q \in HostIncoming : \A p \in Packets(Gone) : q.reqid # p.reqid}
    BY <1>6, <2>3, <2>4, PacketsWithout DEF HostIncoming
  <2> QED BY <1>5, <2>5, GoneType
<1>11. TickSeen(GonePackets, box, <<>>)
  BY <1>1, <1>7, <1>8, <1>9, <1>10, GoneAnswered DEF TickSeen
<1>12. ~NextMode
  BY <1>1
<1> QED BY <1>11, <1>12, HostTick

LEMMA WriteTick ==
  ASSUME QueueTypeOK, PlaceInv, Clock, NEW r \in Requests, WriteDone(r),
         NEW box, box = <<Packet(r)>>
  PROVE  Host!VaultTick(0, GonePackets, box)
<1>1. /\ arrived' = arrived /\ write_mode' = NextMode /\ pending' = Remaining
      /\ readq' = readq /\ responses' = Append(responses, r)
      /\ NextMode /\ r \in Writes
  BY HeadsQueue DEF Clock, WriteDone
<1>2. Range(writeq') = Writes \ {r}
  BY PlacesWriteDone
<1>3. Range(PendingReqs') = Departing \ Gone
  BY <1>1, PlaceOfGone DEF PendingReqs, Reqs
<1>4. Packet(r) \in Boxes /\ box \in Seq(Boxes)
  BY DEF Boxes, Packets
<1>5. /\ Range(<<>>) = {} /\ Range(box) = Packets({r})
      /\ HostPending \o <<>> = HostPending
      /\ HostPending # <<>> => Tail(HostPending) \o <<>> = Tail(HostPending)
      /\ Range(GonePackets \o box) = Packets(Gone \cup {r})
  <2>1. Range(box) = Packets({r}) /\ Range(<<>>) = {}
    BY DEF Range, Packets
  <2>2. Range(GonePackets \o box) = Packets(Gone) \cup Packets({r})
    <3>1. GonePackets \in Seq(Boxes) /\ Range(GonePackets) = Packets(Gone)
      BY GoneType
    <3>2. ASSUME NEW s \in Seq(Boxes), NEW t \in Seq(Boxes)
          PROVE  Range(s \o t) = Range(s) \cup Range(t)
      BY RangeConcatenation
    <3>3. Range(GonePackets \o box) = Range(GonePackets) \cup Range(box)
      BY <1>4, <3>1, <3>2
    <3> QED BY <2>1, <3>1, <3>3
  <2>3. Packets(Gone) \cup Packets({r}) = Packets(Gone \cup {r})
    BY DEF Packets
  <2> QED BY <2>1, <2>2, <2>3, PendingPackets, ConcatEmptySeq, HeadTailProperties
<1>6. Reads \cup Writes \cup Departing \subseteq Range(arrived)
  BY DEF PlaceInv
<1>7. /\ Packets(Reads)' = Packets(Reads) \ Range(<<>>)
      /\ Packets(Writes)' = Packets(Writes) \ Range(box)
  <2>1. Writes \subseteq Range(arrived) /\ {r} \subseteq Range(arrived)
    BY <1>1, <1>6
  <2> QED BY <1>1, <1>2, <1>5, <2>1, TickPackets, PacketsWithout DEF Reads, Writes
<1>8. HostPending' = (IF GonePackets = <<>> THEN HostPending ELSE Tail(HostPending)) \o <<>>
  BY <1>1, <1>5, TickPackets, GoneType
<1>9. HostResponses' = HostResponses \o box
  BY <1>1, <1>4, TickPackets, PendingPackets, AsPacketsAppend, AppendIsConcat DEF QueueTypeOK
<1>10. HostIncoming' = {q \in HostIncoming :
                          \A p \in Range(GonePackets \o box) : q.reqid # p.reqid}
  <2>1. /\ Gone \subseteq Departing /\ Departing \cap (Reads \cup Writes) = {}
        /\ Reads \cap Writes = {}
    BY PlaceOfGone DEF PlaceInv
  <2>2. Range(readq') \cup Range(writeq') \cup Range(PendingReqs')
          = (Reads \cup Writes \cup Departing) \ (Gone \cup {r})
    BY <1>1, <1>2, <1>3, <2>1 DEF Reads, Writes
  <2>3. Gone \cup {r} \subseteq Range(arrived)
    BY <1>1, <2>1, <1>6
  <2>4. HostIncoming' = Packets((Reads \cup Writes \cup Departing) \ (Gone \cup {r}))
    BY <1>1, <2>2, TickPackets
  <2>5. HostIncoming' =
          {q \in HostIncoming : \A p \in Packets(Gone \cup {r}) : q.reqid # p.reqid}
    <3> DEFINE D == Gone \cup {r}
               S == Reads \cup Writes \cup Departing
    <3>1. D \subseteq Range(arrived) /\ S \subseteq Range(arrived)
      BY <1>6, <2>3
    <3> HIDE DEF D, S
    <3>2. Packets(S \ D) = {q \in Packets(S) : \A p \in Packets(D) : q.reqid # p.reqid}
      BY <3>1, PacketsWithout
    <3> QED BY <2>4, <3>2 DEF HostIncoming, D, S
  <2> QED BY <1>5, <2>5
<1>11. TickSeen(GonePackets, <<>>, box)
  BY <1>1, <1>7, <1>8, <1>9, <1>10, GoneAnswered DEF TickSeen
<1>12. NextMode
  BY <1>1
<1> QED BY <1>11, <1>12, HostTick

LEMMA TickSees ==
  ASSUME QueueTypeOK, PlaceInv, Tick
  PROVE  Host!VaultTicks(0)
<1>1. Clock /\ (Quiet \/ \E r \in Requests : ReadDone(r) \/ WriteDone(r))
  BY TickKinds
<1>2. Host!NextMode(0) = NextMode
  BY ModesAgree
<1>3. /\ One(HostPending)[0] = HostPending
      /\ One(Packets(Reads))[0] = Packets(Reads) /\ One(Packets(Writes))[0] = Packets(Writes)
  BY OneValue
<1>4. PICK gone : gone = GonePackets
  OBVIOUS
<1>5. gone \in {<<>>} \cup Host!Departed(0)
  BY <1>3, <1>4, GoneType DEF Host!Departed, HostPending
<1>6. CASE Quiet
  <2>1. Host!VaultTick(0, gone, <<>>)
    BY <1>1, <1>4, <1>6, QuietTick
  <2> QED BY <1>5, <2>1 DEF Host!VaultTicks
<1>7. ASSUME NEW r \in Requests, ReadDone(r) PROVE Host!VaultTicks(0)
  <2>1. PICK box : box = <<Packet(r)>>
    OBVIOUS
  <2>2. Host!VaultTick(0, gone, box)
    BY <1>1, <1>4, <1>7, <2>1, ReadTick
  <2>3. ~NextMode /\ r \in Reads
    BY <1>7, HeadsQueue DEF ReadDone
  <2>4. box \in Host!Completed(0)
    BY <1>2, <1>3, <2>1, <2>3 DEF Host!Completed, Packets, Reads
  <2> QED BY <1>5, <2>2, <2>4 DEF Host!VaultTicks
<1>8. ASSUME NEW r \in Requests, WriteDone(r) PROVE Host!VaultTicks(0)
  <2>1. PICK box : box = <<Packet(r)>>
    OBVIOUS
  <2>2. Host!VaultTick(0, gone, box)
    BY <1>1, <1>4, <1>8, <2>1, WriteTick
  <2>3. NextMode /\ r \in Writes
    BY <1>8, HeadsQueue DEF WriteDone
  <2>4. box \in Host!Completed(0)
    BY <1>2, <1>3, <2>1, <2>3 DEF Host!Completed, Packets, Writes
  <2> QED BY <1>5, <2>2, <2>4 DEF Host!VaultTicks
<1> QED BY <1>1, <1>6, <1>7, <1>8

----------------------------------------------------------------------------
(* A request that the controller receives is one sent by a near core. *)

LEMMA ReceivePackets ==
  ASSUME QueueTypeOK, NumberInv, PlaceInv, NEW r \in Requests, Receive(r), NEW new,
         new = [req |-> r, reqid |-> Len(arrived), tag |-> IF Len(arrived) = 0 THEN 0 ELSE -1]
  PROVE  /\ Packets(Reads)' = IF Type(r) = "READ" /\ ~Forwarded(r)
                              THEN Packets(Reads) \cup {new} ELSE Packets(Reads)
         /\ Packets(Writes)' = IF Type(r) = "WRITE"
                               THEN Packets(Writes) \cup {new} ELSE Packets(Writes)
         /\ HostPending' = IF Type(r) = "READ" /\ Forwarded(r)
                           THEN Append(HostPending, new) ELSE HostPending
         /\ HostResponses' = HostResponses
         /\ HostIncoming' = {q \in HostIncoming : q.reqid # new.reqid} \cup {new}
<1>1. Packet(r)' = new /\ \A x \in Range(arrived) : Packet(x)' = Packet(x)
  BY NumberStable DEF Packet
<1>2. /\ Reads \cup Writes \cup Departing \cup Answers \subseteq Range(arrived)
      /\ Type(r) \in {"READ", "WRITE"}
  BY PlacesOf DEF PlaceInv
<1>3. /\ Reads' = IF Type(r) = "READ" /\ ~Forwarded(r) THEN Reads \cup {r} ELSE Reads
      /\ Writes' = IF Type(r) = "WRITE" THEN Writes \cup {r} ELSE Writes
      /\ PendingReqs' = IF Type(r) = "READ" /\ Forwarded(r)
                        THEN Append(PendingReqs, r) ELSE PendingReqs
  <2>1. CASE Type(r) = "WRITE"
    BY <2>1, AppendFresh DEF Receive, Reads, Writes, PendingReqs, QueueTypeOK
  <2>2. CASE Type(r) = "READ" /\ ~Forwarded(r)
    BY <2>2, AppendFresh DEF Receive, Reads, Writes, PendingReqs, QueueTypeOK
  <2>3. CASE Type(r) = "READ" /\ Forwarded(r)
    <3> DEFINE x == [req |-> r, left |-> 1, forwarded |-> TRUE]
    <3>1. pending' = Append(pending, x) /\ UNCHANGED <<readq, writeq>>
      BY <2>3 DEF Receive
    <3>2. x \in PendingReads /\ x.req = r
      BY DEF PendingReads
    <3> HIDE DEF x
    <3>3. PendingReqs = Reqs(pending) /\ PendingReqs' = Reqs(pending')
      BY DEF PendingReqs, Reqs
    <3>4. PendingReqs' = Append(PendingReqs, r)
      BY <3>1, <3>2, <3>3, ReqsAppend DEF QueueTypeOK, PendingReads
    <3> QED BY <2>3, <3>1, <3>4 DEF Reads, Writes
  <2> QED BY <1>2, <2>1, <2>2, <2>3
<1>4. ASSUME NEW S, S \subseteq Range(arrived)
      PROVE  /\ {Packet(x)' : x \in S} = Packets(S)
             /\ {Packet(x)' : x \in S \cup {r}} = Packets(S) \cup {new}
  BY <1>1, <1>4 DEF Packets
<1>5. /\ Packets(Reads)' = {Packet(x)' : x \in Reads'}
      /\ Packets(Writes)' = {Packet(x)' : x \in Writes'}
      /\ HostIncoming' = {Packet(x)' : x \in Reads' \cup Writes' \cup Departing'}
  BY DEF Packets, HostIncoming
<1>6. Departing' = IF Type(r) = "READ" /\ Forwarded(r) THEN Departing \cup {r} ELSE Departing
  <2>1. PendingReqs \in Seq(Requests)
    BY RemainingType
  <2>2. Range(Append(PendingReqs, r)) = Range(PendingReqs) \cup {r}
    BY <2>1, AppendFresh
  <2>3. Departing' = Range(PendingReqs')
    BY DEF Departing
  <2> QED BY <1>3, <2>2, <2>3 DEF Departing
<1>7. HostIncoming' = Packets(Reads \cup Writes \cup Departing) \cup {new}
  <2>1. Reads' \cup Writes' \cup Departing' = (Reads \cup Writes \cup Departing) \cup {r}
    BY <1>2, <1>3, <1>6
  <2> QED BY <1>2, <1>4, <1>5, <2>1
<1>8. \A q \in HostIncoming : q.reqid # new.reqid
  <2>1. \A x \in Range(arrived) : Packet(x).reqid # Len(arrived)
    <3>1. Len(arrived) \in Nat
      BY DEF QueueTypeOK
    <3> QED BY <3>1, NumberType DEF Packet
  <2> QED BY <1>2, <2>1 DEF HostIncoming, Packets
<1>9. HostResponses' = HostResponses
  <2>1. responses' = responses /\ \A i \in DOMAIN responses : responses[i] \in Range(arrived)
    BY <1>2 DEF Receive, Answers, Range
  <2>2. HostResponses' = [i \in DOMAIN responses |-> Packet(responses[i])']
    BY <2>1 DEF HostResponses
  <2>3. \A i \in DOMAIN responses : Packet(responses[i])' = Packet(responses[i])
    BY <1>1, <2>1
  <2> QED BY <2>2, <2>3 DEF HostResponses
<1>10. HostPending' = IF Type(r) = "READ" /\ Forwarded(r)
                      THEN Append(HostPending, new) ELSE HostPending
  <2> DEFINE n == Len(PendingReqs)
             mine == Boxes \cup {new}
  <2>1. /\ PendingReqs \in Seq(Requests) /\ n \in Nat /\ DOMAIN PendingReqs = 1 .. n
        /\ \A i \in 1 .. n : PendingReqs[i] \in Range(arrived)
    <3>1. PendingReqs \in Seq(Requests)
      BY RemainingType
    <3>2. \A i \in DOMAIN PendingReqs : PendingReqs[i] \in Departing
      BY DEF Departing, Range
    <3> QED BY <1>2, <3>1, <3>2, LenProperties
  <2>2. HostPending' = [i \in DOMAIN PendingReqs' |-> Packet(PendingReqs[i])']
    BY DEF HostPending, PendingReqs
  <2>3. HostPending = [i \in 1 .. n |-> Packet(PendingReqs[i])]
    BY <2>1 DEF HostPending, PendingReqs
  <2>4. CASE ~(Type(r) = "READ" /\ Forwarded(r))
    <3>1. PendingReqs' = PendingReqs
      BY <1>3, <2>4
    <3>2. \A i \in 1 .. n : Packet(PendingReqs[i])' = Packet(PendingReqs[i])
      BY <1>1, <2>1, <3>1
    <3> QED BY <2>1, <2>2, <2>3, <2>4, <3>1, <3>2
  <2>5. CASE Type(r) = "READ" /\ Forwarded(r)
    <3>1. PendingReqs' = Append(PendingReqs, r)
      BY <1>3, <2>5
    <3>2. /\ DOMAIN PendingReqs' = 1 .. n + 1 /\ PendingReqs'[n + 1] = r
          /\ \A i \in 1 .. n : PendingReqs'[i] = PendingReqs[i]
      BY <2>1, <3>1, AppendProperties, LenProperties
    <3>3. \A i \in 1 .. n : Packet(PendingReqs[i])' = Packet(PendingReqs[i])
      BY <1>1, <2>1, <3>2
    <3>4. \A i \in 1 .. n + 1 : i = n + 1 => Packet(PendingReqs[i])' = new
      BY <1>1, <3>2
    <3>5. /\ \A i \in 1 .. n : HostPending'[i] = HostPending[i]
          /\ HostPending'[n + 1] = new /\ DOMAIN HostPending' = 1 .. n + 1
      BY <2>1, <2>2, <2>3, <3>2, <3>3, <3>4
    <3>6. HostPending \in Seq(mine) /\ Len(HostPending) = n
      <4>1. HostPending \in Seq(Boxes) /\ Len(HostPending) = n
        BY <2>1, PendingPackets, AsPacketsType
      <4> QED BY <4>1
    <3>7. /\ Append(HostPending, new) \in Seq(mine) /\ Len(Append(HostPending, new)) = n + 1
          /\ \A i \in 1 .. n : Append(HostPending, new)[i] = HostPending[i]
          /\ Append(HostPending, new)[n + 1] = new
      BY <3>6, AppendProperties
    <3>8. HostPending' = [i \in 1 .. n + 1 |-> HostPending'[i]]
      BY <2>2, <3>2
    <3>9. HostPending' \in Seq(mine) /\ Len(HostPending') = n + 1
      <4>1. \A i \in 1 .. n + 1 : HostPending'[i] = Append(HostPending, new)[i]
        BY <2>1, <3>5, <3>7
      <4>2. \A i \in 1 .. n + 1 : Append(HostPending, new)[i] \in mine
        BY <3>7, ElementOfSeq
      <4>3. HostPending' \in [1 .. n + 1 -> mine] /\ n + 1 \in Nat
        <5>1. \A i \in 1 .. n + 1 : HostPending'[i] \in mine
          BY <4>1, <4>2
        <5> HIDE DEF mine, n
        <5> QED BY <2>1, <3>8, <5>1
      <4> QED BY <4>3, SeqDef, LenProperties
    <3>10. HostPending' = Append(HostPending, new)
      BY <2>1, <3>5, <3>7, <3>9, SeqEqual
    <3> QED BY <2>5, <3>10
  <2> QED BY <2>4, <2>5
<1> QED BY <1>2, <1>3, <1>4, <1>5, <1>7, <1>8, <1>9, <1>10 DEF HostIncoming

LEMMA ReceiveSees ==
  ASSUME QueueTypeOK, NumberInv, PlaceInv, NEW r \in Requests, Receive(r)
  PROVE  Host!SendNear(r)
<1> DEFINE pool == IF arrived = <<>> THEN <<0>> ELSE <<>>
           tag == IF Len(arrived) = 0 THEN 0 ELSE -1
<1>1. PICK new : new = [req |-> r, reqid |-> Len(arrived), tag |-> tag]
  OBVIOUS
<1>2. /\ arrived' = Append(arrived, r) /\ r \notin Range(arrived)
      /\ write_mode' = write_mode /\ answered' = answered
      /\ arrived \in Seq(Requests) /\ Len(arrived) \in Nat
  BY LenProperties DEF Receive, QueueTypeOK
<1>3. /\ arrived' \in Seq(Requests) /\ Len(arrived') = Len(arrived) + 1
      /\ Range(arrived') = Range(arrived) \cup {r} /\ arrived' # <<>>
      /\ (arrived = <<>>) = (Len(arrived) = 0)
  <2>1. Len(arrived') = Len(arrived) + 1 /\ arrived' \in Seq(Requests)
    BY <1>2, AppendProperties
  <2>2. Range(arrived') = Range(arrived) \cup {r}
    BY <1>2, AppendFresh
  <2> QED BY <1>2, <2>1, <2>2, EmptySeq
<1>4. Host!VaultOf(r) = 0 /\ Host!LinkOf(r) = 0 /\ Host!Near(r)
  BY HostIds
<1>5. Host!NewPacket(r) = new
  <2>1. Host!FirstTag(0) = tag
    BY <1>3, OneValue DEF Host!FirstTag, Host!NoTag
  <2> QED BY <1>1, <1>4, <2>1 DEF Host!NewPacket
<1>6. r \in Requests \ Range(arrived)
  BY <1>2
<1>7. Host!TakeTag(0)
  <2>1. One(pool)' = One(<<>>)
    BY <1>3 DEF One
  <2>2. (IF pool = <<>> THEN pool ELSE Tail(pool)) = <<>>
    OBVIOUS
  <2>3. [One(pool) EXCEPT ![0] = IF @ = <<>> THEN @ ELSE Tail(@)] = One(<<>>)
    BY <2>2 DEF One
  <2> QED BY <2>1, <2>3 DEF Host!TakeTag
<1>8. Host!Count(r)
  <2>1. Requests \ Range(arrived') = (Requests \ Range(arrived)) \ {r}
    BY <1>3
  <2> QED BY <1>3, <2>1 DEF Host!Count
<1>9. Host!Type(new.req) = Type(r) /\ Type(r) \in {"READ", "WRITE"}
  BY <1>1, PlacesOf DEF Host!Type, Type
<1>10. Host!Forwarded(0, new) = Forwarded(r)
  <2>1. \A x \in Writes : Packet(x).req = x
    BY DEF Packet
  <2>2. One(Packets(Writes))[0] = Packets(Writes)
    BY OneValue
  <2> QED BY <1>1, <2>1, <2>2
          DEF Host!Forwarded, Host!SameAddress, Forwarded, Writes, Packets, Addr
<1>11. /\ Packets(Reads)' = IF Type(r) = "READ" /\ ~Forwarded(r)
                            THEN Packets(Reads) \cup {new} ELSE Packets(Reads)
       /\ Packets(Writes)' = IF Type(r) = "WRITE"
                             THEN Packets(Writes) \cup {new} ELSE Packets(Writes)
       /\ HostPending' = IF Type(r) = "READ" /\ Forwarded(r)
                         THEN Append(HostPending, new) ELSE HostPending
       /\ HostResponses' = HostResponses
       /\ HostIncoming' = {q \in HostIncoming : q.reqid # new.reqid} \cup {new}
  BY <1>1, ReceivePackets
<1>12. Host!Record(0, new)
  BY <1>11, OneValue DEF One, Host!Record, HostIncoming, Reads, Writes, Departing
<1>13. Host!Enqueue(0, new)
  <2>1. CASE Type(r) = "WRITE"
    BY <1>9, <1>11, <2>1 DEF Host!Enqueue, One, Reads, Writes, HostPending
  <2>2. CASE Type(r) = "READ" /\ Forwarded(r)
    BY <1>9, <1>10, <1>11, <2>2
       DEF Host!Enqueue, Host!InReadq, One, Reads, Writes, HostPending
  <2>3. CASE Type(r) = "READ" /\ ~Forwarded(r)
    BY <1>9, <1>10, <1>11, <2>3
       DEF Host!Enqueue, Host!InReadq, One, Reads, Writes, HostPending
  <2> QED BY <1>9, <2>1, <2>2, <2>3
<1>14. /\ One(HostResponses)' = One(HostResponses)
       /\ One(write_mode)' = One(write_mode) /\ HostAnswered' = HostAnswered
  BY <1>2, <1>11 DEF One, HostAnswered
<1> QED BY <1>4, <1>5, <1>6, <1>7, <1>8, <1>12, <1>13, <1>14
        DEF Host!SendNear, Host!linkVars, Host!historyVars, HostResponses, HostAnswered

----------------------------------------------------------------------------
(* The refinement *)

LEMMA HostInit == ASSUME Init PROVE Host!Init
<1>1. Host!FullPool = <<0>>
  BY DEF Host!FullPool
<1>2. /\ Range(<<>>) = {} /\ Len(<<>>) = 0 /\ Packets({}) = {}
      /\ DOMAIN <<>> = {}
  BY DEF Range, Packets
<1>3. /\ arrived = <<>> /\ readq = <<>> /\ writeq = <<>> /\ pending = <<>>
      /\ responses = <<>> /\ answered = {} /\ write_mode = FALSE
  BY DEF Init
<1>4. /\ PendingReqs = <<>> /\ HostPending = <<>> /\ HostResponses = <<>>
  BY <1>3 DEF PendingReqs, HostPending, HostResponses
<1>5. HostIncoming = {} /\ Packets(Reads) = {} /\ Packets(Writes) = {}
  BY <1>2, <1>3, <1>4 DEF HostIncoming, Reads, Writes, Departing
<1>6. HostAnswered = [r \in Requests |-> 0]
  BY <1>3 DEF HostAnswered
<1>7. Host!Requests = Requests
  BY DEF Host!Requests, Requests
<1>8. Requests \ Range(arrived) = Host!Requests /\ Len(arrived) = 0
  BY <1>2, <1>3, <1>7
<1>9. /\ One(IF arrived = <<>> THEN <<0>> ELSE <<>>) = [l \in {0} |-> Host!FullPool]
      /\ One(<<>>) = [l \in {0} |-> <<>>]
  BY <1>1, <1>3 DEF One
<1>10. /\ One(HostIncoming) = [v \in {0} |-> {}] /\ One(Packets(Reads)) = [v \in {0} |-> {}]
       /\ One(Packets(Writes)) = [v \in {0} |-> {}]
       /\ One(HostPending) = [v \in {0} |-> <<>>]
       /\ One(HostResponses) = [v \in {0} |-> <<>>]
       /\ One(write_mode) = [v \in {0} |-> FALSE]
  BY <1>3, <1>4, <1>5 DEF One
<1>11. Host!LinkIds = {0} /\ Host!VaultIds = {0}
  BY HostIds
<1> QED BY <1>6, <1>7, <1>8, <1>9, <1>10, <1>11
        DEF Host!Init, HostIncoming, HostPending, HostResponses, HostAnswered,
            Reads, Writes, Departing

LEMMA HostNext ==
  ASSUME QueueTypeOK, NumberInv, PlaceInv, [Next]_vars
  PROVE  [Host!Next]_Host!vars
<1>1. ASSUME NEW r \in Requests, Receive(r) PROVE Host!Next
  <2>1. Host!SendNear(r) /\ r \in Host!Requests
    BY <1>1, ReceiveSees DEF Host!Requests, Requests
  <2> QED BY <2>1 DEF Host!Next, Host!Send
<1>2. CASE Tick
  <2>1. Host!VaultTicks(0) /\ 0 \in Host!VaultIds
    BY <1>2, TickSees, HostIds
  <2> QED BY <2>1 DEF Host!Next
<1>3. CASE UNCHANGED vars
  <2>1. UNCHANGED <<arrived, readq, writeq, pending, write_mode, responses, answered>>
    BY <1>3 DEF vars, queueVars
  <2> QED BY <2>1 DEF Host!vars, Host!hostVars, Host!linkVars, Host!vaultVars, Host!queueVars,
                      Host!historyVars, One, Packets, Packet, Number, PendingReqs
<1> QED BY <1>1, <1>2, <1>3 DEF Next

(* The vault controller with its DRAM implements the vault of HmcHost: a   *)
(* request received is a near core's send, and each tick a vault's tick.   *)
THEOREM VaultImplementsVault == Spec => ImplementsVault
<1>1. Init => NumberInv /\ Host!Init
  BY NumberInit, HostInit
<1>2. VaultInv => QueueTypeOK /\ PlaceInv
  BY DEF VaultInv, TypeOK, QueueInv
<1>3. QueueTypeOK /\ NumberInv /\ [Next]_vars => NumberInv'
  BY NumberNext
<1>4. QueueTypeOK /\ NumberInv /\ PlaceInv /\ [Next]_vars => [Host!Next]_Host!vars
  BY HostNext
<1> QED BY <1>1, <1>2, <1>3, <1>4, VaultInductive, PTL DEF Spec, ImplementsVault, Host!Spec
=============================================================================
