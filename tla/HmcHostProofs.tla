--------------------------- MODULE HmcHostProofs ---------------------------
(***************************************************************************)
(* Proofs about HmcHost for every number of links, vaults and tags, every  *)
(* size of the buffers and every finite traffic of both sides.  First the  *)
(* type invariant, and which way packets go.  Then: an accepted request is *)
(* at one place until it is answered, once.  With the invariants of those  *)
(* parts: what a vault has recorded under the number of a request it holds *)
(* is the packet of that request; a link keeps a tag until a near read has *)
(* gone to a vault of its; until the pools are refilled a tag names one    *)
(* packet of its link; no read overtakes a write to its address it must    *)
(* see; and no buffer outgrows its limit, nor a queue before a near        *)
(* request has gone to its vault.                                          *)
(***************************************************************************)
EXTENDS HmcHost, FiniteSetTheorems, SequenceTheorems, TLAPS

----------------------------------------------------------------------------
(* Sequences as sets of elements *)

(* Appending adds one element. *)
LEMMA RangeAppend ==
  ASSUME NEW S, NEW s \in Seq(S), NEW x \in S
  PROVE  /\ Append(s, x) \in Seq(S)
         /\ Range(Append(s, x)) = Range(s) \cup {x}
  <1>1. /\ Append(s, x) \in Seq(S)
        /\ DOMAIN Append(s, x) = 1 .. Len(s) + 1
        /\ \A i \in 1 .. Len(s) : Append(s, x)[i] = s[i]
        /\ Append(s, x)[Len(s) + 1] = x
        /\ DOMAIN s = 1 .. Len(s) /\ Len(s) \in Nat
    OBVIOUS
  <1> QED
    BY <1>1 DEF Range

(* A nonempty sequence is its head and the elements of its tail. *)
LEMMA RangeTail ==
  ASSUME NEW S, NEW s \in Seq(S), s # <<>>
  PROVE  /\ Head(s) \in S /\ Tail(s) \in Seq(S)
         /\ Range(s) = {Head(s)} \cup Range(Tail(s))
  <1>1. /\ Head(s) \in S /\ Head(s) = s[1] /\ Tail(s) \in Seq(S)
        /\ DOMAIN s = 1 .. Len(s) /\ Len(s) \in Nat \ {0}
        /\ DOMAIN Tail(s) = 1 .. Len(s) - 1
        /\ \A i \in 1 .. Len(s) - 1 : Tail(s)[i] = s[i + 1]
    OBVIOUS
  <1>2. Range(s) \subseteq {Head(s)} \cup Range(Tail(s))
    <2> SUFFICES ASSUME NEW i \in 1 .. Len(s), i # 1
                 PROVE  s[i] \in Range(Tail(s))
      BY <1>1 DEF Range
    <2> QED
      BY <1>1, i - 1 \in 1 .. Len(s) - 1, Tail(s)[i - 1] = s[i] DEF Range
  <1>3. {Head(s)} \cup Range(Tail(s)) \subseteq Range(s)
    BY <1>1 DEF Range
  <1> QED
    BY <1>1, <1>2, <1>3

(* Joining sequences joins their elements. *)
LEMMA RangeJoin ==
  ASSUME NEW S, NEW s \in Seq(S), NEW t \in Seq(S)
  PROVE  s \o t \in Seq(S) /\ Range(s \o t) = Range(s) \cup Range(t)
  BY ConcatProperties, RangeConcatenation

(* The short sequences VaultTick is built from. *)
LEMMA RangeShort ==
  ASSUME NEW S, NEW x \in S
  PROVE  /\ <<>> \in Seq(S) /\ Range(<<>>) = {}
         /\ <<x>> \in Seq(S) /\ Range(<<x>>) = {x} /\ Head(<<x>>) = x
         /\ <<x>> # <<>>
  BY DEF Range

----------------------------------------------------------------------------
(* Requests and where they go *)

LEMMA RequestFacts ==
  ASSUME NEW r \in Requests
  PROVE  /\ Traffic[r].addr \in Nat /\ Block(r) \in Nat
         /\ VaultOf(r) \in VaultIds /\ LinkOf(r) \in LinkIds
         /\ RequestFlits(r) \in Nat /\ RequestFlits(r) <= BufferMax
  <1>1. Traffic[r].addr \in Nat /\ Type(r) \in Types
    BY TrafficAssumption DEF Requests, Type
  <1>2. Block(r) \in Nat
    BY <1>1, SizeAssumption DEF Block
  <1> QED
    BY <1>1, <1>2, SizeAssumption DEF VaultOf, LinkOf, VaultIds, LinkIds, RequestFlits

----------------------------------------------------------------------------
(* The type invariant *)

LEMMA NewPacketType ==
  ASSUME TypeOK, NEW r \in Requests
  PROVE  NewPacket(r) \in Packets
  <1>1. LinkOf(r) \in LinkIds /\ mem_req_count \in Nat
    BY RequestFacts DEF TypeOK
  <1>2. FirstTag(LinkOf(r)) \in Tags \cup {NoTag}
    BY <1>1, RangeTail DEF TypeOK, FirstTag
  <1> QED
    BY <1>1, <1>2 DEF NewPacket, Packets

LEMMA TakeTagType ==
  ASSUME TypeOK, NEW l \in LinkIds, TakeTag(l)
  PROVE  tags_pools' \in [LinkIds -> Seq(Tags \cup {NoTag})]
  BY RangeTail DEF TypeOK, TakeTag

(* What taking a packet does to the queues of a vault. *)
LEMMA EnqueueType ==
  ASSUME TypeOK, NEW v \in VaultIds, NEW p \in Packets, Enqueue(v, p)
  PROVE  /\ readq' \in [VaultIds -> SUBSET Packets]
         /\ writeq' \in [VaultIds -> SUBSET Packets]
         /\ pending' \in [VaultIds -> Seq(Packets)]
  <1>1. CASE Type(p.req) = "READ"
    <2>1. /\ readq' = [readq EXCEPT ![v] = IF InReadq(v, p) THEN @ \cup {p} ELSE @]
          /\ pending' = [pending EXCEPT ![v] = IF Forwarded(v, p) THEN Append(@, p) ELSE @]
          /\ writeq' = writeq
      BY <1>1 DEF Enqueue
    <2>2. pending[v] \in Seq(Packets)
      BY DEF TypeOK
    <2> DEFINE longer == IF Forwarded(v, p) THEN Append(pending[v], p) ELSE pending[v]
    <2>3. longer \in Seq(Packets)
      BY <2>2, RangeAppend
    <2>4. pending' = [pending EXCEPT ![v] = longer]
      BY <2>1 DEF TypeOK
    <2> HIDE DEF longer
    <2>5. pending' \in [VaultIds -> Seq(Packets)]
      BY <2>3, <2>4 DEF TypeOK
    <2> DEFINE reads == IF InReadq(v, p) THEN readq[v] \cup {p} ELSE readq[v]
    <2>6. readq' = [readq EXCEPT ![v] = reads] /\ reads \in SUBSET Packets
      BY <2>1 DEF TypeOK
    <2> HIDE DEF reads
    <2>7. readq' \in [VaultIds -> SUBSET Packets]
      BY <2>6 DEF TypeOK
    <2>8. writeq' = writeq
      BY <1>1 DEF Enqueue
    <2> QED
      BY <2>5, <2>7, <2>8 DEF TypeOK
  <1>2. CASE Type(p.req) # "READ"
    <2>1. writeq' = [writeq EXCEPT ![v] = @ \cup {p}] /\ readq' = readq /\ pending' = pending
      BY <1>2 DEF Enqueue
    <2> QED
      BY <2>1 DEF TypeOK
  <1> QED
    BY <1>1, <1>2

LEMMA RecordType ==
  ASSUME TypeOK, NEW v \in VaultIds, NEW p \in Packets, Record(v, p)
  PROVE  incoming_packets_buffer' \in [VaultIds -> SUBSET Packets]
  BY DEF TypeOK, Record

LEMMA InitTypeOK == Init => TypeOK
  <1>1. FullPool \in Seq(Tags \cup {NoTag})
    BY SizeAssumption DEF FullPool, Tags
  <1>2. <<>> \in Seq(Packets)
    OBVIOUS
  <1> QED
    BY <1>1, <1>2, SizeAssumption, TrafficAssumption DEF Init, TypeOK

(* A tick of a vault handles at most the next pending read and one request *)
(* of the queue in turn.                                                   *)
LEMMA TickType ==
  ASSUME TypeOK, NEW v \in VaultIds,
         NEW leaving \in {<<>>} \cup Departed(v),
         NEW served \in {<<>>} \cup Completed(v)
  PROVE  /\ leaving \in Seq(Packets) /\ served \in Seq(Packets)
         /\ Range(served) \subseteq IF NextMode(v) THEN writeq[v] ELSE readq[v]
         /\ leaving # <<>> => /\ pending[v] # <<>>
                              /\ leaving = <<Head(pending[v])>>
                              /\ Head(leaving) = Head(pending[v])
                              /\ Head(leaving) \in Packets
  <1>1. pending[v] \in Seq(Packets) /\ readq[v] \subseteq Packets /\ writeq[v] \subseteq Packets
    BY DEF TypeOK
  <1>2. pending[v] # <<>> => Head(pending[v]) \in Packets
    BY <1>1, RangeTail
  <1>3. leaving # <<>> => pending[v] # <<>> /\ leaving = <<Head(pending[v])>>
    BY DEF Departed
  <1>4. \A p \in Packets : <<p>> \in Seq(Packets) /\ Range(<<p>>) = {p} /\ Head(<<p>>) = p
    BY RangeShort
  <1>5. \/ served = <<>>
        \/ \E p \in IF NextMode(v) THEN writeq[v] ELSE readq[v] : served = <<p>>
    BY DEF Completed
  <1>6. <<>> \in Seq(Packets) /\ Range(<<>>) = {}
    BY RangeShort DEF Range
  <1>7. served \in Seq(Packets)
    BY <1>1, <1>4, <1>5, <1>6
  <1>8. Range(served) \subseteq IF NextMode(v) THEN writeq[v] ELSE readq[v]
    BY <1>1, <1>4, <1>5, <1>6
  <1>9. leaving \in Seq(Packets)
    BY <1>2, <1>3, <1>4, <1>6
  <1>10. leaving # <<>> => Head(leaving) = Head(pending[v]) /\ Head(leaving) \in Packets
    BY <1>2, <1>3, <1>4
  <1> QED
    BY <1>3, <1>7, <1>8, <1>9, <1>10

LEMMA VaultTickType ==
  ASSUME TypeOK, NEW v \in VaultIds, VaultTicks(v)
  PROVE  TypeOK'
  <1>1. PICK leaving \in {<<>>} \cup Departed(v), served \in {<<>>} \cup Completed(v) :
          VaultTick(v, leaving, served)
    BY DEF VaultTicks
  <1>2. /\ leaving \in Seq(Packets) /\ served \in Seq(Packets)
        /\ leaving # <<>> => pending[v] # <<>> /\ Head(leaving) \in Packets
    BY TickType
  <1> DEFINE read == IF NextMode(v) THEN <<>> ELSE served
             written == IF NextMode(v) THEN served ELSE <<>>
             near == leaving # <<>> /\ Near(Head(leaving).req)
             far == IF near THEN <<>> ELSE leaving
             rest == IF leaving = <<>> THEN pending[v] ELSE Tail(pending[v])
  <1>3. /\ read \in Seq(Packets) /\ written \in Seq(Packets) /\ far \in Seq(Packets)
        /\ rest \in Seq(Packets)
    BY <1>2, RangeTail DEF TypeOK
  <1>4. /\ rest \o read \in Seq(Packets)
        /\ response_packets_buffer[v] \o far \o written \in Seq(Packets)
    BY <1>3, RangeJoin DEF TypeOK
  <1>5. /\ pending' = [pending EXCEPT ![v] = rest \o read]
        /\ response_packets_buffer'
             = [response_packets_buffer EXCEPT ![v] = @ \o far \o written]
        /\ readq' = [readq EXCEPT ![v] = @ \ Range(read)]
        /\ writeq' = [writeq EXCEPT ![v] = @ \ Range(written)]
        /\ write_mode' = [write_mode EXCEPT ![v] = NextMode(v)]
    BY <1>1 DEF VaultTick, TypeOK
  <1>6. NextMode(v) \in BOOLEAN
    BY DEF NextMode, TypeOK
  <1>7. answered' \in [Requests -> Nat]
    <2>1. near => Head(leaving).req \in Requests
      BY <1>2 DEF Packets
    <2>2. answered' = IF near THEN [answered EXCEPT ![Head(leaving).req] = @ + 1]
                              ELSE answered
      BY <1>1 DEF VaultTick
    <2> HIDE DEF near
    <2> QED
      BY <2>1, <2>2 DEF TypeOK
  <1>8. incoming_packets_buffer' \in [VaultIds -> SUBSET Packets]
    BY <1>1 DEF VaultTick, TypeOK
  <1>9. UNCHANGED <<hostVars, linkVars, batch, restores>>
    BY <1>1 DEF VaultTick
  <1> HIDE DEF read, written, far, rest
  <1> QED
    BY <1>3, <1>4, <1>5, <1>6, <1>7, <1>8, <1>9
    DEF TypeOK, hostVars, linkVars
LEMMA SendType ==
  ASSUME TypeOK, NEW r \in Requests, Send(r)
  PROVE  TypeOK'
  <1> DEFINE l == LinkOf(r)
             p == NewPacket(r)
  <1>1. l \in LinkIds /\ VaultOf(r) \in VaultIds
    BY RequestFacts
  <1>2. p \in Packets
    BY NewPacketType
  <1>3. TakeTag(l) => tags_pools' \in [LinkIds -> Seq(Tags \cup {NoTag})]
    BY <1>1, TakeTagType
  <1>4. CASE SendUntagged(r) \/ SendRefused(r)
    BY <1>3, <1>4
    DEF TypeOK, SendUntagged, SendRefused, linkVars, vaultVars, queueVars, historyVars
  <1>5. CASE SendFar(r)
    <2>1. input_buffer[l] \in Seq(Packets)
      BY <1>1 DEF TypeOK
    <2>2. Append(input_buffer[l], p) \in Seq(Packets)
      BY <1>2, <2>1, RangeAppend
    <2>3. input_buffer' = [input_buffer EXCEPT ![l] = Append(input_buffer[l], p)]
      BY <1>1, <1>5 DEF SendFar, TypeOK
    <2>4. input_buffer' \in [LinkIds -> Seq(Packets)]
      BY <1>1, <2>2, <2>3 DEF TypeOK
    <2>5. unsent' \in SUBSET Requests /\ mem_req_count' \in Nat
      BY <1>5 DEF SendFar, Count, TypeOK
    <2> QED
      BY <1>3, <1>5, <2>4, <2>5
      DEF TypeOK, SendFar, vaultVars, queueVars, historyVars
  <1>6. CASE SendNear(r)
    <2>1. incoming_packets_buffer' \in [VaultIds -> SUBSET Packets]
      BY <1>1, <1>2, <1>6, RecordType DEF SendNear
    <2>2. /\ readq' \in [VaultIds -> SUBSET Packets]
          /\ writeq' \in [VaultIds -> SUBSET Packets]
          /\ pending' \in [VaultIds -> Seq(Packets)]
      BY <1>1, <1>2, <1>6, EnqueueType DEF SendNear
    <2>3. unsent' \in SUBSET Requests /\ mem_req_count' \in Nat
      BY <1>6 DEF SendNear, Count, TypeOK
    <2> QED
      BY <1>3, <1>6, <2>1, <2>2, <2>3 DEF TypeOK, SendNear, linkVars, historyVars
  <1> QED
    BY <1>4, <1>5, <1>6 DEF Send

LEMMA SwitchInType ==
  ASSUME TypeOK, NEW l \in LinkIds, SwitchIn(l)
  PROVE  TypeOK'
  <1> DEFINE p == Head(input_buffer[l])
             v == VaultOf(p.req)
  <1>1. input_buffer[l] \in Seq(Packets) /\ input_buffer[l] # <<>>
    BY DEF TypeOK, SwitchIn
  <1>2. p \in Packets /\ Tail(input_buffer[l]) \in Seq(Packets)
    BY <1>1, RangeTail
  <1>3. v \in VaultIds
    BY <1>2, RequestFacts DEF Packets
  <1>4. incoming_packets_buffer' \in [VaultIds -> SUBSET Packets]
    BY <1>2, <1>3, RecordType DEF SwitchIn
  <1>5. UNCHANGED <<hostVars, output_buffer, response_packets_buffer, write_mode, historyVars>>
    BY DEF SwitchIn
  <1>6. CASE UNCHANGED <<input_buffer, queueVars>>
    BY <1>4, <1>5, <1>6 DEF TypeOK, hostVars, queueVars, historyVars
  <1>7. CASE /\ Enqueue(v, p)
             /\ input_buffer' = [input_buffer EXCEPT ![l] = Tail(@)]
    <2>1. /\ readq' \in [VaultIds -> SUBSET Packets]
          /\ writeq' \in [VaultIds -> SUBSET Packets]
          /\ pending' \in [VaultIds -> Seq(Packets)]
      BY <1>2, <1>3, <1>7, EnqueueType
    <2>2. input_buffer' \in [LinkIds -> Seq(Packets)]
      BY <1>2, <1>7 DEF TypeOK
    <2> QED
      BY <1>4, <1>5, <2>1, <2>2 DEF TypeOK, hostVars, historyVars
  <1> QED
    BY <1>6, <1>7 DEF SwitchIn

LEMMA SwitchOutType ==
  ASSUME TypeOK, NEW v \in VaultIds, SwitchOut(v)
  PROVE  TypeOK'
  <1> DEFINE p == Head(response_packets_buffer[v])
             l == LinkOf(p.req)
  <1>1. response_packets_buffer[v] \in Seq(Packets) /\ response_packets_buffer[v] # <<>>
    BY DEF TypeOK, SwitchOut, Fits
  <1>2. p \in Packets /\ Tail(response_packets_buffer[v]) \in Seq(Packets)
    BY <1>1, RangeTail
  <1>3. l \in LinkIds
    BY <1>2, RequestFacts DEF Packets
  <1>4. Append(output_buffer[l], p) \in Seq(Packets)
    BY <1>2, <1>3, RangeAppend DEF TypeOK
  <1>5. output_buffer' = [output_buffer EXCEPT ![l] = Append(output_buffer[l], p)]
    BY <1>3 DEF SwitchOut, TypeOK
  <1>6. output_buffer' \in [LinkIds -> Seq(Packets)]
    BY <1>3, <1>4, <1>5 DEF TypeOK
  <1>7. response_packets_buffer' \in [VaultIds -> Seq(Packets)]
    BY <1>2 DEF SwitchOut, TypeOK
  <1> QED
    BY <1>6, <1>7 DEF TypeOK, SwitchOut, hostVars, queueVars, historyVars

LEMMA LinkSendType ==
  ASSUME TypeOK, NEW l \in LinkIds, LinkSend(l)
  PROVE  TypeOK'
  <1> DEFINE p == Head(output_buffer[l])
  <1>1. output_buffer[l] \in Seq(Packets) /\ output_buffer[l] # <<>>
    BY DEF TypeOK, LinkSend
  <1>2. p \in Packets /\ Tail(output_buffer[l]) \in Seq(Packets)
    BY <1>1, RangeTail
  <1>3. p.req \in Requests /\ p.tag \in Tags \cup {NoTag}
    BY <1>2 DEF Packets
  <1>4. Append(tags_pools[l], p.tag) \in Seq(Tags \cup {NoTag})
    BY <1>3, RangeAppend DEF TypeOK
  <1>5. tags_pools' = [tags_pools EXCEPT ![l] = Append(tags_pools[l], p.tag)]
    BY DEF LinkSend, ReturnTag, TypeOK
  <1>6. tags_pools' \in [LinkIds -> Seq(Tags \cup {NoTag})]
    BY <1>4, <1>5 DEF TypeOK
  <1>7. output_buffer' \in [LinkIds -> Seq(Packets)]
    BY <1>2 DEF LinkSend, TypeOK
  <1>8. answered' \in [Requests -> Nat]
    BY <1>3 DEF LinkSend, TypeOK
  <1> QED
    BY <1>6, <1>7, <1>8 DEF TypeOK, LinkSend, vaultVars, queueVars

LEMMA RestoreTagsType ==
  ASSUME TypeOK, RestoreTags
  PROVE  TypeOK'
  <1>1. FullPool \in Seq(Tags \cup {NoTag})
    BY SizeAssumption DEF FullPool, Tags
  <1> QED
    BY <1>1, SizeAssumption
    DEF TypeOK, RestoreTags, linkVars, vaultVars, queueVars

(* Every step keeps every variable of its kind. *)
LEMMA NextTypeOK == TypeOK /\ [Next]_vars => TypeOK'
  <1> SUFFICES ASSUME TypeOK, [Next]_vars
               PROVE  TypeOK'
    OBVIOUS
  <1>1. CASE \E r \in Requests : Send(r)
    BY <1>1, SendType
  <1>2. CASE \E l \in LinkIds : SwitchIn(l) \/ LinkSend(l)
    BY <1>2, SwitchInType, LinkSendType
  <1>3. CASE \E v \in VaultIds : SwitchOut(v) \/ VaultTicks(v)
    BY <1>3, SwitchOutType, VaultTickType
  <1>4. CASE RestoreTags
    BY <1>4, RestoreTagsType
  <1>5. CASE UNCHANGED vars
    BY <1>5 DEF TypeOK, vars, hostVars, linkVars, vaultVars, queueVars, historyVars
  <1> QED
    BY <1>1, <1>2, <1>3, <1>4, <1>5 DEF Next

(* The pools, the buffers of the links and the queues of the vaults only   *)
(* ever hold packets and tags, whatever the traffic of both sides.         *)
THEOREM HmcTypeOK == Spec => []TypeOK
  BY InitTypeOK, NextTypeOK, PTL DEF Spec
----------------------------------------------------------------------------
(* Packets on their way *)

(* What holds of a packet by where it is: on a link it is one of that link, *)
(* the host's packets have a tag, and reads and writes wait apart.          *)
RouteInv ==
  /\ \A l \in LinkIds : \A p \in OnLink(l) : LinkOf(p.req) = l
  /\ \A l \in LinkIds : \A p \in Range(input_buffer[l]) : ~Near(p.req) /\ p.tag # NoTag
  /\ \A v \in VaultIds : \A p \in readq[v] \cup Range(pending[v]) : Type(p.req) = "READ"

(* A packet is in flight in a vault or on a link. *)
LEMMA InFlightMember ==
  \A p : p \in InFlight <=> \/ \E v \in VaultIds : p \in InVault(v)
                            \/ \E l \in LinkIds : p \in OnLink(l)
  BY DEF InFlight

LEMMA InFlightMemberNext ==
  \A p : p \in InFlight' <=> \/ \E v \in VaultIds : p \in InVault(v)'
                             \/ \E l \in LinkIds : p \in OnLink(l)'
  BY DEF InFlight

LEMMA PacketsInFlight == TypeOK => InFlight \subseteq Packets
  <1> SUFFICES ASSUME TypeOK PROVE InFlight \subseteq Packets
    OBVIOUS
  <1>1. \A s \in Seq(Packets) : Range(s) \subseteq Packets
    BY DEF Range
  <1>2. \A v \in VaultIds : InVault(v) \subseteq Packets
    BY <1>1 DEF TypeOK, InVault, Waiting
  <1>3. \A l \in LinkIds : OnLink(l) \subseteq Packets
    BY <1>1 DEF TypeOK, OnLink
  <1> QED
    BY <1>2, <1>3, InFlightMember

LEMMA NothingInFlight == Init => InFlight = {} /\ RouteInv
  <1> SUFFICES ASSUME Init PROVE InFlight = {} /\ RouteInv
    OBVIOUS
  <1>1. Range(<<>>) = {}
    BY DEF Range
  <1>2. \A v \in VaultIds : InVault(v) = {}
    BY <1>1 DEF Init, InVault, Waiting
  <1>3. \A l \in LinkIds : OnLink(l) = {}
    BY <1>1 DEF Init, OnLink
  <1>4. InFlight = {}
    BY <1>2, <1>3, InFlightMember
  <1> QED
    BY <1>1, <1>3, <1>4 DEF Init, RouteInv

(* A vault that takes a packet has it in one of its queues: a read in      *)
(* readq, or in pending when it is forwarded; a write in writeq.           *)
LEMMA EnqueueAdds ==
  ASSUME TypeOK, NEW v \in VaultIds, NEW p \in Packets, Enqueue(v, p)
  PROVE  \A u \in VaultIds :
           /\ Waiting(u)' = Waiting(u) \cup (IF u = v THEN {p} ELSE {})
           /\ readq'[u] \cup Range(pending'[u])
                \subseteq readq[u] \cup Range(pending[u])
                            \cup (IF Type(p.req) = "READ" THEN {p} ELSE {})
  <1>1. pending[v] \in Seq(Packets)
    BY DEF TypeOK
  <1>2. Range(Append(pending[v], p)) = Range(pending[v]) \cup {p}
    BY <1>1, RangeAppend
  <1>3. CASE Type(p.req) = "READ" /\ Forwarded(v, p)
    <2>1. ~InReadq(v, p)
      BY <1>3 DEF InReadq
    <2>2. /\ readq' = readq /\ writeq' = writeq
          /\ pending' = [pending EXCEPT ![v] = Append(pending[v], p)]
      BY <1>3, <2>1 DEF Enqueue, TypeOK
    <2> QED
      BY <1>2, <1>3, <2>2 DEF Waiting, TypeOK
  <1>4. CASE Type(p.req) = "READ" /\ ~Forwarded(v, p)
    <2>1. InReadq(v, p)
      BY <1>4 DEF InReadq
    <2>2. /\ readq' = [readq EXCEPT ![v] = readq[v] \cup {p}]
          /\ writeq' = writeq /\ pending' = pending
      BY <1>4, <2>1 DEF Enqueue, TypeOK
    <2> QED
      BY <1>4, <2>2 DEF Waiting, TypeOK
  <1>5. CASE Type(p.req) # "READ"
    <2>1. /\ writeq' = [writeq EXCEPT ![v] = writeq[v] \cup {p}]
          /\ readq' = readq /\ pending' = pending
      BY <1>5 DEF Enqueue, TypeOK
    <2> QED
      BY <2>1 DEF Waiting, TypeOK
  <1> QED
    BY <1>3, <1>4, <1>5

(* A step that moves no packet *)
LEMMA StillRoute ==
  ASSUME RouteInv, UNCHANGED <<input_buffer, output_buffer, queueVars, response_packets_buffer>>
  PROVE  RouteInv' /\ InFlight' = InFlight
  BY DEF RouteInv, InFlight, InVault, Waiting, OnLink, queueVars

(* A request of the host joins its link. *)
LEMMA SendFarRoute ==
  ASSUME TypeOK, RouteInv, NEW r \in Requests, SendFar(r)
  PROVE  RouteInv' /\ InFlight' = InFlight \cup {NewPacket(r)}
  <1> DEFINE l == LinkOf(r)
             p == NewPacket(r)
  <1>1. l \in LinkIds /\ input_buffer[l] \in Seq(Packets) /\ p \in Packets
    BY RequestFacts, NewPacketType DEF TypeOK
  <1>2. Range(Append(input_buffer[l], p)) = Range(input_buffer[l]) \cup {p}
    BY <1>1, RangeAppend
  <1>3. input_buffer' = [input_buffer EXCEPT ![l] = Append(input_buffer[l], p)]
    BY <1>1 DEF SendFar, TypeOK
  <1>4. p.req = r /\ p.tag # NoTag /\ ~Near(r)
    BY DEF SendFar, NewPacket
  <1>5. UNCHANGED <<output_buffer, queueVars, response_packets_buffer>>
    BY DEF SendFar, vaultVars
  <1>6. LinkOf(p.req) = l
    BY <1>4
  <1> HIDE DEF p, l
  <1>7. \A k \in LinkIds :
          Range(input_buffer'[k]) = Range(input_buffer[k]) \cup (IF k = l THEN {p} ELSE {})
    BY <1>1, <1>2, <1>3 DEF TypeOK
  <1>8. \A k \in LinkIds : OnLink(k)' = OnLink(k) \cup (IF k = l THEN {p} ELSE {})
    BY <1>5, <1>7 DEF OnLink
  <1>9. \A v \in VaultIds : InVault(v)' = InVault(v)
    BY <1>5 DEF InVault, Waiting, queueVars
  <1>10. InFlight' = InFlight \cup {p}
    BY <1>1, <1>8, <1>9, InFlightMember, InFlightMemberNext
  <1>11. RouteInv'
    BY <1>4, <1>5, <1>6, <1>7, <1>8 DEF RouteInv, queueVars
  <1> QED
    BY <1>10, <1>11 DEF p

(* A request of a near-memory core goes into a queue of its vault. *)
LEMMA SendNearRoute ==
  ASSUME TypeOK, RouteInv, NEW r \in Requests, SendNear(r)
  PROVE  RouteInv' /\ InFlight' = InFlight \cup {NewPacket(r)}
  <1> DEFINE v == VaultOf(r)
             p == NewPacket(r)
  <1>1. v \in VaultIds /\ p \in Packets
    BY RequestFacts, NewPacketType
  <1>2. Enqueue(v, p) /\ UNCHANGED <<input_buffer, output_buffer, response_packets_buffer>>
    BY DEF SendNear, linkVars
  <1> HIDE DEF p, v
  <1>3. \A u \in VaultIds :
          /\ Waiting(u)' = Waiting(u) \cup (IF u = v THEN {p} ELSE {})
          /\ readq'[u] \cup Range(pending'[u])
               \subseteq readq[u] \cup Range(pending[u])
                           \cup (IF Type(p.req) = "READ" THEN {p} ELSE {})
    BY <1>1, <1>2, EnqueueAdds
  <1>4. \A u \in VaultIds : InVault(u)' = InVault(u) \cup (IF u = v THEN {p} ELSE {})
    BY <1>2, <1>3 DEF InVault
  <1>5. \A k \in LinkIds : OnLink(k)' = OnLink(k)
    BY <1>2 DEF OnLink
  <1>6. InFlight' = InFlight \cup {p}
    BY <1>1, <1>4, <1>5, InFlightMember, InFlightMemberNext
  <1>7. RouteInv'
    BY <1>2, <1>3, <1>5 DEF RouteInv
  <1> QED
    BY <1>6, <1>7 DEF p

(* A packet leaves the buffer of its link for a queue of its vault. *)
LEMMA SwitchInRoute ==
  ASSUME TypeOK, RouteInv, NEW l \in LinkIds, SwitchIn(l)
  PROVE  RouteInv' /\ InFlight' = InFlight
  <1> DEFINE p == Head(input_buffer[l])
             v == VaultOf(p.req)
  <1>1. input_buffer[l] \in Seq(Packets) /\ input_buffer[l] # <<>>
    BY DEF TypeOK, SwitchIn
  <1>2. p \in Packets /\ Range(input_buffer[l]) = {p} \cup Range(Tail(input_buffer[l]))
    BY <1>1, RangeTail
  <1>3. v \in VaultIds
    BY <1>2, RequestFacts DEF Packets
  <1>4. UNCHANGED <<output_buffer, response_packets_buffer>>
    BY DEF SwitchIn
  <1>5. CASE UNCHANGED <<input_buffer, queueVars>>
    BY <1>4, <1>5, StillRoute
  <1>6. CASE Enqueue(v, p) /\ input_buffer' = [input_buffer EXCEPT ![l] = Tail(@)]
    <2>1. \A k \in LinkIds : /\ Range(input_buffer'[k]) \subseteq Range(input_buffer[k])
                             /\ Range(input_buffer[k]) \subseteq Range(input_buffer'[k]) \cup {p}
      BY <1>2, <1>6 DEF TypeOK
    <2>2. \A u \in VaultIds :
            /\ Waiting(u)' = Waiting(u) \cup (IF u = v THEN {p} ELSE {})
            /\ readq'[u] \cup Range(pending'[u])
                 \subseteq readq[u] \cup Range(pending[u])
                             \cup (IF Type(p.req) = "READ" THEN {p} ELSE {})
      BY <1>2, <1>3, <1>6, EnqueueAdds
    <2>3. p \in Range(input_buffer[l])
      BY <1>2
    <2> HIDE DEF p, v
    <2>4. \A u \in VaultIds : InVault(u)' = InVault(u) \cup (IF u = v THEN {p} ELSE {})
      BY <1>4, <2>2 DEF InVault
    <2>5. \A k \in LinkIds : OnLink(k)' \subseteq OnLink(k) /\ OnLink(k) \subseteq OnLink(k)' \cup {p}
      BY <1>4, <2>1 DEF OnLink
    <2>6. p \in OnLink(l)
      BY <2>3 DEF OnLink
    <2>7. InFlight' = InFlight
      BY <1>3, <2>4, <2>5, <2>6, InFlightMember, InFlightMemberNext
    <2>8. RouteInv'
      BY <2>1, <2>2, <2>5 DEF RouteInv
    <2> QED
      BY <2>7, <2>8
  <1> QED
    BY <1>5, <1>6 DEF SwitchIn

(* A response leaves its vault for the buffer of its link. *)
LEMMA SwitchOutRoute ==
  ASSUME TypeOK, RouteInv, NEW v \in VaultIds, SwitchOut(v)
  PROVE  RouteInv' /\ InFlight' = InFlight
  <1> DEFINE p == Head(response_packets_buffer[v])
             l == LinkOf(p.req)
  <1>1. response_packets_buffer[v] \in Seq(Packets) /\ response_packets_buffer[v] # <<>>
    BY DEF TypeOK, SwitchOut, Fits
  <1>2. /\ p \in Packets
        /\ Range(response_packets_buffer[v])
             = {p} \cup Range(Tail(response_packets_buffer[v]))
    BY <1>1, RangeTail
  <1>3. l \in LinkIds
    BY <1>2, RequestFacts DEF Packets
  <1>4. Range(Append(output_buffer[l], p)) = Range(output_buffer[l]) \cup {p}
    BY <1>2, <1>3, RangeAppend DEF TypeOK
  <1>5. output_buffer' = [output_buffer EXCEPT ![l] = Append(output_buffer[l], p)]
    BY <1>3 DEF SwitchOut, TypeOK
  <1>6. UNCHANGED <<input_buffer, queueVars>>
    BY DEF SwitchOut
  <1>7. \A k \in LinkIds : OnLink(k)' = OnLink(k) \cup (IF k = l THEN {p} ELSE {})
    BY <1>3, <1>4, <1>5, <1>6 DEF OnLink, TypeOK
  <1>8. \A u \in VaultIds : /\ InVault(u)' \subseteq InVault(u)
                            /\ InVault(u) \subseteq InVault(u)' \cup {p}
    BY <1>2, <1>6 DEF SwitchOut, InVault, Waiting, TypeOK, queueVars
  <1>9. p \in InVault(v)
    BY <1>2 DEF InVault
  <1>10. InFlight' = InFlight
    <2> HIDE DEF p, l
    <2>1. InFlight' \subseteq InFlight \cup {p}
      BY <1>7, <1>8, InFlightMember, InFlightMemberNext
    <2>2. InFlight \subseteq InFlight' \cup {p}
      BY <1>7, <1>8, InFlightMember, InFlightMemberNext
    <2>3. p \in InFlight /\ p \in InFlight'
      BY <1>3, <1>7, <1>9, InFlightMember, InFlightMemberNext
    <2> QED
      BY <2>1, <2>2, <2>3
  <1>11. RouteInv'
    BY <1>6, <1>7 DEF RouteInv, queueVars
  <1> QED
    BY <1>10, <1>11

(* A packet leaves the cube. *)
LEMMA LinkSendRoute ==
  ASSUME TypeOK, RouteInv, NEW l \in LinkIds, LinkSend(l)
  PROVE  /\ RouteInv' /\ InFlight' \subseteq InFlight
         /\ InFlight \subseteq InFlight' \cup {Head(output_buffer[l])}
         /\ Head(output_buffer[l]) \in InFlight /\ LinkOf(Head(output_buffer[l]).req) = l
  <1> DEFINE p == Head(output_buffer[l])
  <1>1. output_buffer[l] \in Seq(Packets) /\ output_buffer[l] # <<>>
    BY DEF TypeOK, LinkSend
  <1>2. p \in Packets /\ Range(output_buffer[l]) = {p} \cup Range(Tail(output_buffer[l]))
    BY <1>1, RangeTail
  <1>3. p \in OnLink(l)
    BY <1>2 DEF OnLink
  <1>4. p \in InFlight /\ LinkOf(p.req) = l
    BY <1>3, InFlightMember DEF RouteInv
  <1>5. UNCHANGED <<input_buffer, queueVars, response_packets_buffer>>
    BY DEF LinkSend, vaultVars
  <1>6. \A k \in LinkIds : /\ OnLink(k)' \subseteq OnLink(k)
                           /\ OnLink(k) \subseteq OnLink(k)' \cup {p}
    BY <1>2 DEF LinkSend, OnLink, TypeOK
  <1>7. \A u \in VaultIds : InVault(u)' = InVault(u)
    BY <1>5 DEF InVault, Waiting, queueVars
  <1>8. InFlight' \subseteq InFlight /\ InFlight \subseteq InFlight' \cup {p}
    BY <1>6, <1>7, InFlightMember, InFlightMemberNext
  <1>9. RouteInv'
    BY <1>5, <1>6 DEF RouteInv, queueVars
  <1> QED
    BY <1>4, <1>8, <1>9

(* A packet changes its queue in the vault; only a near read leaves it. *)
LEMMA VaultTickRoute ==
  ASSUME TypeOK, RouteInv, NEW v \in VaultIds, VaultTicks(v)
  PROVE  /\ RouteInv' /\ InFlight' \subseteq InFlight
         /\ \A p \in InFlight \ InFlight' : Near(p.req) /\ Type(p.req) = "READ"
  <1>1. PICK leaving \in {<<>>} \cup Departed(v), served \in {<<>>} \cup Completed(v) :
          VaultTick(v, leaving, served)
    BY DEF VaultTicks
  <1>2. /\ leaving \in Seq(Packets) /\ served \in Seq(Packets)
        /\ Range(served) \subseteq IF NextMode(v) THEN writeq[v] ELSE readq[v]
        /\ leaving # <<>> => /\ pending[v] # <<>>
                             /\ leaving = <<Head(pending[v])>>
                             /\ Head(leaving) = Head(pending[v])
                             /\ Head(leaving) \in Packets
    BY <1>1, TickType
  <1> DEFINE read == IF NextMode(v) THEN <<>> ELSE served
             written == IF NextMode(v) THEN served ELSE <<>>
             near == leaving # <<>> /\ Near(Head(leaving).req)
             far == IF near THEN <<>> ELSE leaving
             rest == IF leaving = <<>> THEN pending[v] ELSE Tail(pending[v])
  <1>3. Range(<<>>) = {} /\ <<>> \in Seq(Packets)
    BY DEF Range
  <1>4. pending[v] \in Seq(Packets) /\ response_packets_buffer[v] \in Seq(Packets)
    BY DEF TypeOK
  <1>5. rest \in Seq(Packets) /\ Range(pending[v]) = Range(leaving) \cup Range(rest)
    <2>1. CASE leaving = <<>>
      BY <1>3, <1>4, <2>1
    <2>2. CASE leaving # <<>>
      <3>1. Range(leaving) = {Head(pending[v])}
        BY <1>2, <2>2, RangeShort
      <3> QED
        BY <1>2, <1>4, <2>2, <3>1, RangeTail
    <2> QED
      BY <2>1, <2>2
  <1>6. /\ read \in Seq(Packets) /\ written \in Seq(Packets)
        /\ Range(read) \subseteq readq[v] /\ Range(written) \subseteq writeq[v]
    BY <1>2, <1>3
  <1>7. /\ far \in Seq(Packets) /\ Range(far) \subseteq Range(leaving)
        /\ \A p \in Range(leaving) \ Range(far) : Near(p.req)
    <2>1. CASE ~near
      BY <1>2, <2>1
    <2>2. CASE near
      <3>1. Range(leaving) = {Head(leaving)}
        BY <1>2, <2>2, RangeShort
      <3> QED
        BY <1>3, <2>2, <3>1
    <2> QED
      BY <2>1, <2>2
  <1>8. /\ pending' = [pending EXCEPT ![v] = rest \o read]
        /\ response_packets_buffer' = [response_packets_buffer EXCEPT
             ![v] = response_packets_buffer[v] \o far \o written]
        /\ readq' = [readq EXCEPT ![v] = readq[v] \ Range(read)]
        /\ writeq' = [writeq EXCEPT ![v] = writeq[v] \ Range(written)]
        /\ UNCHANGED <<input_buffer, output_buffer>>
    BY <1>1 DEF VaultTick, TypeOK, linkVars
  <1> HIDE DEF read, written, rest, near, far
  <1>9. Range(rest \o read) = Range(rest) \cup Range(read)
    BY <1>5, <1>6, RangeJoin
  <1>10. /\ response_packets_buffer[v] \o far \in Seq(Packets)
         /\ Range(response_packets_buffer[v] \o far)
              = Range(response_packets_buffer[v]) \cup Range(far)
    BY <1>4, <1>7, RangeJoin
  <1>11. Range(response_packets_buffer[v] \o far \o written)
           = Range(response_packets_buffer[v]) \cup Range(far) \cup Range(written)
    <2> DEFINE sent == response_packets_buffer[v] \o far
    <2> HIDE DEF sent
    <2>1. sent \in Seq(Packets)
      BY <1>10 DEF sent
    <2>2. Range(sent \o written) = Range(sent) \cup Range(written)
      BY <1>6, <2>1, RangeJoin
    <2> QED
      BY <1>10, <2>2 DEF sent
  <1>12. /\ readq'[v] = readq[v] \ Range(read)
         /\ writeq'[v] = writeq[v] \ Range(written)
         /\ Range(pending'[v]) = Range(rest) \cup Range(read)
         /\ Range(response_packets_buffer'[v])
              = Range(response_packets_buffer[v]) \cup Range(far) \cup Range(written)
    BY <1>8, <1>9, <1>11 DEF TypeOK
  <1>13. \A u \in VaultIds \ {v} : /\ InVault(u)' = InVault(u)
                                  /\ readq'[u] = readq[u] /\ pending'[u] = pending[u]
    BY <1>8 DEF InVault, Waiting, TypeOK
  <1>14. \A k \in LinkIds : OnLink(k)' = OnLink(k)
    BY <1>8 DEF OnLink
  <1>15. InVault(v)' \subseteq InVault(v) /\ InVault(v) \subseteq InVault(v)' \cup (Range(leaving) \ Range(far))
    BY <1>5, <1>6, <1>7, <1>12 DEF InVault, Waiting
  <1>16. InFlight' \subseteq InFlight /\ InFlight \subseteq InFlight' \cup (Range(leaving) \ Range(far))
    BY <1>13, <1>14, <1>15, InFlightMember, InFlightMemberNext
  <1>17. \A p \in Range(leaving) : Type(p.req) = "READ"
    BY <1>5 DEF RouteInv
  <1>18. RouteInv'
    <2>1. \A u \in VaultIds : readq'[u] \cup Range(pending'[u]) \subseteq readq[u] \cup Range(pending[u])
      BY <1>5, <1>6, <1>12, <1>13
    <2> QED
      BY <1>8, <1>14, <2>1 DEF RouteInv
  <1> QED
    BY <1>7, <1>16, <1>17, <1>18

LEMMA RouteNext == TypeOK /\ RouteInv /\ [Next]_vars => RouteInv'
  <1> SUFFICES ASSUME TypeOK, RouteInv, [Next]_vars
               PROVE  RouteInv'
    OBVIOUS
  <1>1. CASE \E r \in Requests : Send(r)
    <2>1. ASSUME NEW r \in Requests, SendUntagged(r) \/ SendRefused(r)
          PROVE  RouteInv'
      BY <2>1, StillRoute DEF SendUntagged, SendRefused, linkVars, vaultVars
    <2> QED
      BY <1>1, <2>1, SendFarRoute, SendNearRoute DEF Send
  <1>2. CASE \E l \in LinkIds : SwitchIn(l) \/ LinkSend(l)
    BY <1>2, SwitchInRoute, LinkSendRoute
  <1>3. CASE \E v \in VaultIds : SwitchOut(v) \/ VaultTicks(v)
    BY <1>3, SwitchOutRoute, VaultTickRoute
  <1>4. CASE RestoreTags \/ UNCHANGED vars
    BY <1>4, StillRoute DEF RestoreTags, vars, linkVars, vaultVars
  <1> QED
    BY <1>1, <1>2, <1>3, <1>4 DEF Next

----------------------------------------------------------------------------
(* Sequences without repetition *)

LEMMA TailOnce ==
  ASSUME NEW S, NEW s \in Seq(S), s # <<>>, IsInjective(s)
  PROVE  /\ IsInjective(Tail(s))
         /\ Range(Tail(s)) = Range(s) \ {Head(s)}
  <1>1. /\ Head(s) = s[1] /\ Tail(s) \in Seq(S)
        /\ DOMAIN s = 1 .. Len(s) /\ Len(s) \in Nat \ {0}
        /\ DOMAIN Tail(s) = 1 .. Len(s) - 1
        /\ \A i \in 1 .. Len(s) - 1 : Tail(s)[i] = s[i + 1]
    OBVIOUS
  <1>2. IsInjective(Tail(s))
    BY <1>1 DEF IsInjective
  <1>3. Head(s) \notin Range(Tail(s))
    BY <1>1 DEF IsInjective, Range
  <1> QED
    BY <1>2, <1>3, RangeTail

LEMMA AppendOnce ==
  ASSUME NEW S, NEW s \in Seq(S), NEW x \in S, IsInjective(s), x \notin Range(s)
  PROVE  IsInjective(Append(s, x))
  <1>1. /\ DOMAIN Append(s, x) = 1 .. Len(s) + 1
        /\ \A i \in 1 .. Len(s) : Append(s, x)[i] = s[i]
        /\ Append(s, x)[Len(s) + 1] = x
        /\ DOMAIN s = 1 .. Len(s) /\ Len(s) \in Nat
    OBVIOUS
  <1> QED
    BY <1>1 DEF IsInjective, Range

LEMMA JoinOnce ==
  ASSUME NEW S, NEW s \in Seq(S), NEW t \in Seq(S), IsInjective(s), IsInjective(t),
         \A x \in Range(t) : x \notin Range(s)
  PROVE  IsInjective(s \o t)
  <1>1. /\ s \o t \in Seq(S) /\ Len(s) \in Nat /\ Len(t) \in Nat
        /\ DOMAIN s = 1 .. Len(s) /\ DOMAIN t = 1 .. Len(t)
        /\ DOMAIN (s \o t) = 1 .. Len(s) + Len(t)
        /\ \A i \in 1 .. Len(s) : (s \o t)[i] = s[i]
        /\ \A i \in Len(s) + 1 .. Len(s) + Len(t) : (s \o t)[i] = t[i - Len(s)]
    OBVIOUS
  <1>2. \A i \in 1 .. Len(s), j \in 1 .. Len(t) : s[i] # t[j]
    BY <1>1 DEF Range
  <1> DEFINE u == s \o t
  <1> HIDE DEF u
  <1>3. ASSUME NEW i \in DOMAIN u, NEW j \in DOMAIN u, u[i] = u[j]
        PROVE  i = j
    <2>1. CASE i \in 1 .. Len(s) /\ j \in 1 .. Len(s)
      BY <1>1, <1>3, <2>1 DEF IsInjective, u
    <2>2. CASE i \notin 1 .. Len(s) /\ j \notin 1 .. Len(s)
      <3>1. /\ i - Len(s) \in 1 .. Len(t) /\ j - Len(s) \in 1 .. Len(t)
            /\ t[i - Len(s)] = t[j - Len(s)]
        BY <1>1, <1>3, <2>2 DEF u
      <3> QED
        BY <1>1, <3>1, <2>2 DEF IsInjective, u
    <2>3. CASE i \in 1 .. Len(s) /\ j \notin 1 .. Len(s)
      BY <1>1, <1>2, <1>3, <2>3 DEF u
    <2>4. CASE i \notin 1 .. Len(s) /\ j \in 1 .. Len(s)
      BY <1>1, <1>2, <1>3, <2>4 DEF u
    <2> QED
      BY <2>1, <2>2, <2>3, <2>4
  <1> QED
    BY <1>3 DEF IsInjective, u

(* Short sequences repeat nothing. *)
LEMMA ShortOnce == IsInjective(<<>>) /\ \A x : IsInjective(<<x>>)
  BY DEF IsInjective

(* A new element at the end *)
LEMMA JoinNew ==
  ASSUME NEW S, NEW s \in Seq(S), NEW x \in S, IsInjective(s), x \notin Range(s)
  PROVE  /\ s \o <<x>> \in Seq(S) /\ IsInjective(s \o <<x>>)
         /\ Range(s \o <<x>>) = Range(s) \cup {x}
  <1> DEFINE t == <<x>>
  <1>1. t \in Seq(S) /\ Range(t) = {x} /\ IsInjective(t)
    BY RangeShort, ShortOnce
  <1> HIDE DEF t
  <1>2. s \o t \in Seq(S) /\ Range(s \o t) = Range(s) \cup Range(t)
    BY <1>1, RangeJoin
  <1>3. IsInjective(s \o t)
    BY <1>1, JoinOnce
  <1> QED
    BY <1>1, <1>2, <1>3 DEF t

----------------------------------------------------------------------------
(* Where packets are: the buffers of the links, the queues of the vaults *)

Slots == ({"in", "out"} \X LinkIds) \cup ({"read", "write", "pend", "resp"} \X VaultIds)

Placement ==
  [k \in Slots |->
    CASE k[1] = "in"    -> Range(input_buffer[k[2]])
      [] k[1] = "out"   -> Range(output_buffer[k[2]])
      [] k[1] = "read"  -> readq[k[2]]
      [] k[1] = "write" -> writeq[k[2]]
      [] k[1] = "pend"  -> Range(pending[k[2]])
      [] k[1] = "resp"  -> Range(response_packets_buffer[k[2]])]

LEMMA SlotCases ==
  \A k \in Slots : \/ \E l \in LinkIds : k = <<"in", l>> \/ k = <<"out", l>>
                   \/ \E v \in VaultIds : \/ k = <<"read", v>> \/ k = <<"write", v>>
                                          \/ k = <<"pend", v>> \/ k = <<"resp", v>>
  BY DEF Slots

LEMMA PlacementAt ==
  /\ \A l \in LinkIds :
       /\ <<"in", l>> \in Slots /\ Placement[<<"in", l>>] = Range(input_buffer[l])
       /\ <<"out", l>> \in Slots /\ Placement[<<"out", l>>] = Range(output_buffer[l])
  /\ \A v \in VaultIds :
       /\ <<"read", v>> \in Slots /\ Placement[<<"read", v>>] = readq[v]
       /\ <<"write", v>> \in Slots /\ Placement[<<"write", v>>] = writeq[v]
       /\ <<"pend", v>> \in Slots /\ Placement[<<"pend", v>>] = Range(pending[v])
       /\ <<"resp", v>> \in Slots
       /\ Placement[<<"resp", v>>] = Range(response_packets_buffer[v])
  BY DEF Slots, Placement

LEMMA PlacementAtNext ==
  /\ \A l \in LinkIds :
       /\ Placement'[<<"in", l>>] = Range(input_buffer'[l])
       /\ Placement'[<<"out", l>>] = Range(output_buffer'[l])
  /\ \A v \in VaultIds :
       /\ Placement'[<<"read", v>>] = readq'[v]
       /\ Placement'[<<"write", v>>] = writeq'[v]
       /\ Placement'[<<"pend", v>>] = Range(pending'[v])
       /\ Placement'[<<"resp", v>>] = Range(response_packets_buffer'[v])
  BY DEF Slots, Placement

LEMMA PlacementType == TypeOK => Placement \in [Slots -> SUBSET Packets]
  <1> SUFFICES ASSUME TypeOK, NEW k \in Slots PROVE Placement[k] \subseteq Packets
    BY DEF Placement
  <1>1. \A s \in Seq(Packets) : Range(s) \subseteq Packets
    BY DEF Range
  <1>2. /\ \A l \in LinkIds : /\ Range(input_buffer[l]) \subseteq Packets
                             /\ Range(output_buffer[l]) \subseteq Packets
        /\ \A v \in VaultIds : readq[v] \subseteq Packets /\ writeq[v] \subseteq Packets
    BY <1>1 DEF TypeOK
  <1>6. \A v \in VaultIds : /\ Range(pending[v]) \subseteq Packets
                           /\ Range(response_packets_buffer[v]) \subseteq Packets
    BY <1>1 DEF TypeOK
  <1>3. ASSUME NEW l \in LinkIds, k = <<"in", l>> \/ k = <<"out", l>>
        PROVE  Placement[k] \subseteq Packets
    BY <1>2, <1>3, PlacementAt, ZenonT(30)
  <1>4. ASSUME NEW v \in VaultIds, k = <<"read", v>> \/ k = <<"write", v>>
        PROVE  Placement[k] \subseteq Packets
    BY <1>2, <1>4, PlacementAt, ZenonT(30)
  <1>5. ASSUME NEW v \in VaultIds, k = <<"pend", v>> \/ k = <<"resp", v>>
        PROVE  Placement[k] \subseteq Packets
    BY <1>5, <1>6, PlacementAt, ZenonT(30)
  <1> QED
    BY <1>3, <1>4, <1>5, SlotCases

(* The placement after a step, slot by slot *)
LEMMA PlacementNext ==
  ASSUME NEW G,
         \A l \in LinkIds : /\ Range(input_buffer'[l]) = G[<<"in", l>>]
                           /\ Range(output_buffer'[l]) = G[<<"out", l>>],
         \A v \in VaultIds : /\ readq'[v] = G[<<"read", v>>]
                            /\ writeq'[v] = G[<<"write", v>>]
                            /\ Range(pending'[v]) = G[<<"pend", v>>]
                            /\ Range(response_packets_buffer'[v]) = G[<<"resp", v>>]
  PROVE  \A k \in Slots : Placement'[k] = G[k]
  <1> SUFFICES ASSUME NEW k \in Slots PROVE Placement'[k] = G[k]
    OBVIOUS
  <1>1. ASSUME NEW l \in LinkIds, k = <<"in", l>> \/ k = <<"out", l>>
        PROVE  Placement'[k] = G[k]
    <2>1. Placement'[<<"in", l>>] = G[<<"in", l>>]
      BY PlacementAtNext, Zenon
    <2>2. Placement'[<<"out", l>>] = G[<<"out", l>>]
      BY PlacementAtNext, Zenon
    <2> QED
      BY <1>1, <2>1, <2>2, Zenon
  <1>2. ASSUME NEW v \in VaultIds, k = <<"read", v>> \/ k = <<"write", v>>
        PROVE  Placement'[k] = G[k]
    <2>1. Placement'[<<"read", v>>] = G[<<"read", v>>]
      BY PlacementAtNext, Zenon
    <2>2. Placement'[<<"write", v>>] = G[<<"write", v>>]
      BY PlacementAtNext, Zenon
    <2> QED
      BY <1>2, <2>1, <2>2, Zenon
  <1>3. ASSUME NEW v \in VaultIds, k = <<"pend", v>> \/ k = <<"resp", v>>
        PROVE  Placement'[k] = G[k]
    <2>1. Placement'[<<"pend", v>>] = G[<<"pend", v>>]
      BY PlacementAtNext, Zenon
    <2>2. Placement'[<<"resp", v>>] = G[<<"resp", v>>]
      BY PlacementAtNext, Zenon
    <2> QED
      BY <1>3, <2>1, <2>2, Zenon
  <1> QED
    BY <1>1, <1>2, <1>3, SlotCases

----------------------------------------------------------------------------
(* Every accepted request has one packet at one place *)

Same(p, q) == p.req = q.req \/ p.reqid = q.reqid

(* H: the packets of each slot; ba: the requests to send; un: those not    *)
(* yet sent; n: mem_req_count; a: answers had.                             *)
OnePlace(H, ba, un, n, a) ==
  /\ \A k, m \in Slots : \A p \in H[k], q \in H[m] : Same(p, q) => k = m /\ p = q
  /\ un \subseteq ba
  /\ \A k \in Slots : \A p \in H[k] : p.reqid < n /\ p.req \in ba \ un /\ a[p.req] = 0
  /\ \A r \in un : a[r] = 0
  /\ \A r \in ba \ un : a[r] = 1 \/ (a[r] = 0 /\ \E k \in Slots : \E p \in H[k] : p.req = r)

(* A slot gains a packet, or loses one. *)
Gain(H, k0, p) == [k \in Slots |-> IF k = k0 THEN H[k] \cup {p} ELSE H[k]]
Lose(H, k0, p) == [k \in Slots |-> IF k = k0 THEN H[k] \ {p} ELSE H[k]]

(* A request is accepted: its packet is new. *)
LEMMA PlaceNew ==
  ASSUME NEW H \in [Slots -> SUBSET Packets], NEW n \in Nat,
         NEW ba \in SUBSET Requests, NEW un \in SUBSET Requests,
         NEW a \in [Requests -> Nat], OnePlace(H, ba, un, n, a),
         NEW p \in Packets, p.req \in un, p.reqid = n, NEW k0 \in Slots,
         NEW G, \A k \in Slots : G[k] = Gain(H, k0, p)[k]
  PROVE  OnePlace(G, ba, un \ {p.req}, n + 1, a)
  <1>1. \A k \in Slots : G[k] = H[k] \cup (IF k = k0 THEN {p} ELSE {})
    BY DEF Gain
  <1>2. \A k \in Slots : \A q \in H[k] : ~Same(p, q) /\ ~Same(q, p) /\ q.reqid \in Nat
    BY DEF OnePlace, Same, Packets
  <1>3. \A k, m \in Slots : \A q \in G[k], s \in G[m] : Same(q, s) => k = m /\ q = s
    BY <1>1, <1>2 DEF OnePlace
  <1>4. \A k \in Slots : \A q \in G[k] :
          q.reqid < n + 1 /\ q.req \in ba \ (un \ {p.req}) /\ a[q.req] = 0
    BY <1>1, <1>2 DEF OnePlace
  <1>5. \A r \in ba \ (un \ {p.req}) :
          a[r] = 1 \/ (a[r] = 0 /\ \E k \in Slots : \E q \in G[k] : q.req = r)
    BY <1>1 DEF OnePlace
  <1> QED
    BY <1>3, <1>4, <1>5 DEF OnePlace

(* A packet moves. *)
LEMMA PlaceMove ==
  ASSUME NEW H \in [Slots -> SUBSET Packets], NEW n \in Nat,
         NEW ba \in SUBSET Requests, NEW un \in SUBSET Requests,
         NEW a \in [Requests -> Nat], OnePlace(H, ba, un, n, a),
         NEW k1 \in Slots, NEW k2 \in Slots, k1 # k2, NEW p \in H[k1],
         NEW G, \A k \in Slots : G[k] = Gain(Lose(H, k1, p), k2, p)[k]
  PROVE  OnePlace(G, ba, un, n, a)
  <1>1. \A k \in Slots : G[k] = IF k = k1 THEN H[k] \ {p}
                                ELSE IF k = k2 THEN H[k] \cup {p} ELSE H[k]
    BY DEF Gain, Lose
  <1>2. \A k \in Slots : \A q \in H[k] : Same(p, q) \/ Same(q, p) => k = k1 /\ q = p
    BY DEF OnePlace, Same
  <1>3. \A k \in Slots : \A q \in G[k] : \/ q \in H[k] /\ (k = k1 => q # p)
                                         \/ k = k2 /\ q = p
    BY <1>1
  <1>4. \A k, m \in Slots : \A q \in G[k], s \in G[m] : Same(q, s) => k = m /\ q = s
    <2> SUFFICES ASSUME NEW k \in Slots, NEW m \in Slots, NEW q \in G[k], NEW s \in G[m],
                        Same(q, s)
                 PROVE  k = m /\ q = s
      OBVIOUS
    <2>1. CASE q \in H[k] /\ s \in H[m]
      BY <2>1 DEF OnePlace
    <2>2. CASE q \notin H[k]
      BY <1>2, <1>3, <2>2
    <2>3. CASE s \notin H[m]
      BY <1>2, <1>3, <2>3
    <2> QED
      BY <2>1, <2>2, <2>3
  <1>7. \A k \in Slots : \A q \in G[k] : q.reqid < n /\ q.req \in ba \ un /\ a[q.req] = 0
    BY <1>3 DEF OnePlace
  <1>5. \A k \in Slots : \A q \in H[k] : \E m \in Slots : q \in G[m]
    BY <1>1
  <1>6. \A r \in ba \ un :
          a[r] = 1 \/ (a[r] = 0 /\ \E k \in Slots : \E q \in G[k] : q.req = r)
    BY <1>5 DEF OnePlace
  <1> QED
    BY <1>4, <1>6, <1>7 DEF OnePlace

(* A packet leaves with the answer. *)
LEMMA PlaceLeave ==
  ASSUME NEW H \in [Slots -> SUBSET Packets], NEW n \in Nat,
         NEW ba \in SUBSET Requests, NEW un \in SUBSET Requests,
         NEW a \in [Requests -> Nat], OnePlace(H, ba, un, n, a),
         NEW k1 \in Slots, NEW p \in H[k1],
         NEW G, \A k \in Slots : G[k] = Lose(H, k1, p)[k]
  PROVE  OnePlace(G, ba, un, n, [a EXCEPT ![p.req] = @ + 1])
  <1> DEFINE b == [a EXCEPT ![p.req] = @ + 1]
  <1>1. \A k \in Slots : G[k] = IF k = k1 THEN H[k] \ {p} ELSE H[k]
    BY DEF Lose
  <1>2. p.req \in Requests /\ a[p.req] = 0 /\ p.req \in ba \ un
    BY DEF Packets, OnePlace
  <1>3. b[p.req] = 1 /\ \A r \in Requests \ {p.req} : b[r] = a[r]
    BY <1>2
  <1> HIDE DEF b
  <1>4. \A k \in Slots : \A q \in G[k] : q \in H[k] /\ q.req # p.req /\ q.req \in Requests
    <2> SUFFICES ASSUME NEW k \in Slots, NEW q \in G[k]
                 PROVE  q \in H[k] /\ q.req # p.req /\ q.req \in Requests
      OBVIOUS
    <2>1. q \in H[k] /\ q \in Packets /\ (k = k1 => q # p)
      BY <1>1
    <2>2. q.req # p.req
      BY <2>1 DEF OnePlace, Same
    <2> QED
      BY <2>1, <2>2 DEF Packets
  <1>5. \A k, m \in Slots : \A q \in G[k], s \in G[m] : Same(q, s) => k = m /\ q = s
    BY <1>4 DEF OnePlace
  <1>6. \A k \in Slots : \A q \in G[k] : q.reqid < n /\ q.req \in ba \ un /\ b[q.req] = 0
    BY <1>3, <1>4 DEF OnePlace
  <1>7. \A r \in un : b[r] = 0
    BY <1>2, <1>3 DEF OnePlace
  <1>8. \A k \in Slots : \A q \in H[k] : q.req = p.req \/ q \in G[k]
    BY <1>1
  <1>9. \A r \in ba \ un :
          b[r] = 1 \/ (b[r] = 0 /\ \E k \in Slots : \E q \in G[k] : q.req = r)
    <2> SUFFICES ASSUME NEW r \in ba \ un, r # p.req
                 PROVE  b[r] = 1 \/ (b[r] = 0 /\ \E k \in Slots : \E q \in G[k] : q.req = r)
      BY <1>3
    <2>1. b[r] = a[r]
      BY <1>3
    <2>2. CASE a[r] = 1
      BY <2>1, <2>2
    <2>3. CASE a[r] = 0 /\ \E k \in Slots : \E q \in H[k] : q.req = r
      BY <1>8, <2>1, <2>3
    <2> QED
      BY <2>2, <2>3 DEF OnePlace
  <1> QED
    BY <1>5, <1>6, <1>7, <1>9 DEF OnePlace, b

----------------------------------------------------------------------------
(* The invariant, and each step *)

NoRepeats ==
  /\ \A l \in LinkIds : IsInjective(input_buffer[l]) /\ IsInjective(output_buffer[l])
  /\ \A v \in VaultIds : IsInjective(pending[v]) /\ IsInjective(response_packets_buffer[v])

OnceInv == OnePlace(Placement, batch, unsent, mem_req_count, answered) /\ NoRepeats

(* The three lemmas above, for these *)
LEMMA OncePlaced ==
  ASSUME TypeOK, OnceInv
  PROVE  /\ {batch, unsent} \subseteq SUBSET Requests /\ mem_req_count \in Nat
         /\ answered \in [Requests -> Nat] /\ Placement \in [Slots -> SUBSET Packets]
         /\ OnePlace(Placement, batch, unsent, mem_req_count, answered)
  BY PlacementType, TrafficAssumption DEF OnceInv, TypeOK

(* A packet is in no other slot, and in none before it is sent. *)
LEMMA NotElsewhere ==
  ASSUME OnceInv, NEW k \in Slots, NEW m \in Slots, k # m, NEW p \in Placement[k]
  PROVE  p \notin Placement[m]
  BY DEF OnceInv, OnePlace, Same

LEMMA UnsentNowhere ==
  ASSUME OnceInv, NEW k \in Slots, NEW p \in Placement[k]
  PROVE  p.req \notin unsent
  BY DEF OnceInv, OnePlace

(* A packet goes into one queue of the vault that takes it. *)
LEMMA EnqueueOnce ==
  ASSUME TypeOK, NoRepeats, NEW v \in VaultIds, NEW p \in Packets, Enqueue(v, p),
         p \notin Range(pending[v])
  PROVE  \E kd \in {"read", "write", "pend"} : \A u \in VaultIds :
           /\ readq'[u] = IF kd = "read" /\ v = u THEN readq[u] \cup {p} ELSE readq[u]
           /\ writeq'[u] = IF kd = "write" /\ v = u THEN writeq[u] \cup {p} ELSE writeq[u]
           /\ Range(pending'[u]) =
                IF kd = "pend" /\ v = u THEN Range(pending[u]) \cup {p} ELSE Range(pending[u])
           /\ IsInjective(pending'[u])
  <1>1. pending[v] \in Seq(Packets) /\ \A u \in VaultIds : IsInjective(pending[u])
    BY DEF TypeOK, NoRepeats
  <1>2. /\ Range(Append(pending[v], p)) = Range(pending[v]) \cup {p}
        /\ IsInjective(Append(pending[v], p))
    BY <1>1, RangeAppend, AppendOnce
  <1>3. CASE Type(p.req) = "READ" /\ Forwarded(v, p)
    <2>1. /\ readq' = readq /\ writeq' = writeq
          /\ pending' = [pending EXCEPT ![v] = Append(pending[v], p)]
      BY <1>3 DEF Enqueue, TypeOK, InReadq
    <2>2. \A u \in VaultIds : pending'[u] = IF v = u THEN Append(pending[v], p) ELSE pending[u]
      BY <2>1 DEF TypeOK
    <2>3. \A u \in VaultIds :
            /\ Range(pending'[u]) = IF v = u THEN Range(pending[u]) \cup {p} ELSE Range(pending[u])
            /\ IsInjective(pending'[u])
      <3> TAKE u \in VaultIds
      <3>1. CASE u = v
        BY <1>2, <2>2, <3>1
      <3>2. CASE u # v
        BY <1>1, <2>2, <3>2
      <3> QED
        BY <3>1, <3>2
    <2> WITNESS "pend" \in {"read", "write", "pend"}
    <2> QED
      BY <2>1, <2>3
  <1>4. CASE Type(p.req) = "READ" /\ ~Forwarded(v, p)
    <2>1. /\ readq' = [readq EXCEPT ![v] = readq[v] \cup {p}]
          /\ writeq' = writeq /\ pending' = pending
      BY <1>4 DEF Enqueue, TypeOK, InReadq
    <2>2. \A u \in VaultIds : readq'[u] = IF v = u THEN readq[u] \cup {p} ELSE readq[u]
      BY <2>1 DEF TypeOK
    <2> WITNESS "read" \in {"read", "write", "pend"}
    <2> QED
      BY <1>1, <2>1, <2>2
  <1>5. CASE Type(p.req) # "READ"
    <2>1. /\ writeq' = [writeq EXCEPT ![v] = writeq[v] \cup {p}]
          /\ readq' = readq /\ pending' = pending
      BY <1>5 DEF Enqueue, TypeOK
    <2>2. \A u \in VaultIds : writeq'[u] = IF v = u THEN writeq[u] \cup {p} ELSE writeq[u]
      BY <2>1 DEF TypeOK
    <2> WITNESS "write" \in {"read", "write", "pend"}
    <2> QED
      BY <1>1, <2>1, <2>2
  <1> QED
    BY <1>3, <1>4, <1>5

(* A packet that is new to its link joins the last of the buffer. *)
LEMMA SendFarOnce ==
  ASSUME TypeOK, OnceInv, NEW r \in Requests, SendFar(r)
  PROVE  OnceInv'
  <1> DEFINE l == LinkOf(r)
             p == NewPacket(r)
             G == Gain(Placement, <<"in", l>>, p)
  <1>1. l \in LinkIds /\ p \in Packets /\ p.req = r /\ p.reqid = mem_req_count
    BY RequestFacts, NewPacketType DEF NewPacket
  <1>2. input_buffer[l] \in Seq(Packets)
    BY <1>1 DEF TypeOK
  <1>3. /\ input_buffer' = [input_buffer EXCEPT ![l] = Append(input_buffer[l], p)]
        /\ UNCHANGED <<output_buffer, readq, writeq, pending, response_packets_buffer,
                       batch, answered>>
        /\ r \in unsent /\ unsent' = unsent \ {r} /\ mem_req_count' = mem_req_count + 1
    BY <1>1 DEF SendFar, Count, TypeOK, vaultVars, queueVars, historyVars
  <1>4. Placement \in [Slots -> SUBSET Packets] /\ <<"in", l>> \in Slots
    BY <1>1, PlacementType, PlacementAt
  <1>5. p \notin Range(input_buffer[l])
    <2>1. \A q \in Placement[<<"in", l>>] : q.req # r
      BY <1>3, <1>4 DEF OnceInv, OnePlace
    <2> QED
      BY <1>1, <2>1, PlacementAt
  <1> HIDE DEF l, p
  <1>6. \A k \in Slots : Placement'[k] = G[k]
    <2>1. Range(Append(input_buffer[l], p)) = Range(input_buffer[l]) \cup {p}
      BY <1>1, <1>2, RangeAppend
    <2>2. \A j \in LinkIds : Range(input_buffer'[j]) =
            IF j = l THEN Range(input_buffer[j]) \cup {p} ELSE Range(input_buffer[j])
      BY <1>3, <2>1 DEF TypeOK
    <2>3. \A j \in LinkIds :
            /\ G[<<"in", j>>] =
                 IF j = l THEN Range(input_buffer[j]) \cup {p} ELSE Range(input_buffer[j])
            /\ G[<<"out", j>>] = Range(output_buffer[j])
      BY PlacementAt DEF Gain
    <2>4. \A v \in VaultIds : G[<<"read", v>>] = readq[v] /\ G[<<"write", v>>] = writeq[v]
      BY PlacementAt DEF Gain
    <2>5. \A v \in VaultIds : /\ G[<<"pend", v>>] = Range(pending[v])
                             /\ G[<<"resp", v>>] = Range(response_packets_buffer[v])
      BY PlacementAt DEF Gain
    <2> HIDE DEF G
    <2>6. \A j \in LinkIds : /\ Range(input_buffer'[j]) = G[<<"in", j>>]
                            /\ Range(output_buffer'[j]) = G[<<"out", j>>]
      BY <1>3, <2>2, <2>3
    <2>7. \A v \in VaultIds : /\ readq'[v] = G[<<"read", v>>]
                             /\ writeq'[v] = G[<<"write", v>>]
                             /\ Range(pending'[v]) = G[<<"pend", v>>]
                             /\ Range(response_packets_buffer'[v]) = G[<<"resp", v>>]
      BY <1>3, <2>4, <2>5
    <2> QED
      BY <2>6, <2>7, PlacementNext
  <1>7. OnePlace(Placement', batch', unsent', mem_req_count', answered')
    <2>1. OnePlace(Placement', batch, unsent \ {p.req}, mem_req_count + 1, answered)
      BY <1>1, <1>3, <1>4, <1>6, OncePlaced, PlaceNew
    <2> QED
      BY <1>1, <1>3, <2>1
  <1>8. NoRepeats'
    <2>1. IsInjective(Append(input_buffer[l], p))
      BY <1>1, <1>2, <1>5, AppendOnce DEF OnceInv, NoRepeats
    <2>2. \A j \in LinkIds : IsInjective(input_buffer'[j])
      BY <1>3, <2>1 DEF OnceInv, NoRepeats, TypeOK
    <2> QED
      BY <1>3, <2>2 DEF OnceInv, NoRepeats
  <1> QED
    BY <1>7, <1>8 DEF OnceInv

(* A near request is new to its vault. *)
LEMMA SendNearOnce ==
  ASSUME TypeOK, OnceInv, NEW r \in Requests, SendNear(r)
  PROVE  OnceInv'
  <1> DEFINE v == VaultOf(r)
             p == NewPacket(r)
  <1>1. v \in VaultIds /\ p \in Packets /\ p.req = r /\ p.reqid = mem_req_count
    BY RequestFacts, NewPacketType DEF NewPacket
  <1>2. /\ Enqueue(v, p)
        /\ UNCHANGED <<input_buffer, output_buffer, response_packets_buffer,
                       batch, answered>>
        /\ r \in unsent /\ unsent' = unsent \ {r} /\ mem_req_count' = mem_req_count + 1
    BY DEF SendNear, Count, linkVars, historyVars
  <1>3. p \notin Range(pending[v])
    <2>1. <<"pend", v>> \in Slots
      BY <1>1, PlacementAt
    <2>2. \A q \in Placement[<<"pend", v>>] : q.req # r
      BY <1>2, <2>1, UnsentNowhere
    <2> QED
      BY <1>1, <2>2, PlacementAt
  <1> HIDE DEF v, p
  <1>4. PICK kd \in {"read", "write", "pend"} : \A u \in VaultIds :
           /\ readq'[u] = IF kd = "read" /\ v = u THEN readq[u] \cup {p} ELSE readq[u]
           /\ writeq'[u] = IF kd = "write" /\ v = u THEN writeq[u] \cup {p} ELSE writeq[u]
           /\ Range(pending'[u]) =
                IF kd = "pend" /\ v = u THEN Range(pending[u]) \cup {p} ELSE Range(pending[u])
           /\ IsInjective(pending'[u])
    BY <1>1, <1>2, <1>3, EnqueueOnce DEF OnceInv
  <1> DEFINE G == Gain(Placement, <<kd, v>>, p)
  <1>5. \A k \in Slots : Placement'[k] = G[k]
    <2>1. \A j \in LinkIds : /\ G[<<"in", j>>] = Range(input_buffer[j])
                            /\ G[<<"out", j>>] = Range(output_buffer[j])
      BY PlacementAt DEF Gain
    <2>2. \A u \in VaultIds :
            /\ G[<<"read", u>>] = IF kd = "read" /\ v = u THEN readq[u] \cup {p} ELSE readq[u]
            /\ G[<<"write", u>>] = IF kd = "write" /\ v = u THEN writeq[u] \cup {p} ELSE writeq[u]
      BY PlacementAt DEF Gain
    <2>3. \A u \in VaultIds :
            /\ G[<<"pend", u>>] =
                 IF kd = "pend" /\ v = u THEN Range(pending[u]) \cup {p} ELSE Range(pending[u])
            /\ G[<<"resp", u>>] = Range(response_packets_buffer[u])
      BY PlacementAt DEF Gain
    <2> HIDE DEF G
    <2>4. \A j \in LinkIds : /\ Range(input_buffer'[j]) = G[<<"in", j>>]
                            /\ Range(output_buffer'[j]) = G[<<"out", j>>]
      BY <1>2, <2>1
    <2>5. \A u \in VaultIds : /\ readq'[u] = G[<<"read", u>>]
                             /\ writeq'[u] = G[<<"write", u>>]
                             /\ Range(pending'[u]) = G[<<"pend", u>>]
                             /\ Range(response_packets_buffer'[u]) = G[<<"resp", u>>]
      BY <1>2, <1>4, <2>2, <2>3
    <2> QED
      BY <2>4, <2>5, PlacementNext
  <1>6. <<kd, v>> \in Slots
    BY <1>1 DEF Slots
  <1>7. OnePlace(Placement', batch', unsent', mem_req_count', answered')
    <2>1. OnePlace(Placement', batch, unsent \ {p.req}, mem_req_count + 1, answered)
      BY <1>1, <1>2, <1>5, <1>6, OncePlaced, PlaceNew
    <2> QED
      BY <1>1, <1>2, <2>1
  <1>8. NoRepeats'
    BY <1>2, <1>4 DEF OnceInv, NoRepeats
  <1> QED
    BY <1>7, <1>8 DEF OnceInv

(* The head of a link goes to a queue of its vault, or stays. *)
LEMMA SwitchInOnce ==
  ASSUME TypeOK, OnceInv, NEW l \in LinkIds, SwitchIn(l)
  PROVE  OnceInv'
  <1> DEFINE p == Head(input_buffer[l])
             v == VaultOf(p.req)
  <1>1. input_buffer[l] \in Seq(Packets) /\ input_buffer[l] # <<>> /\ IsInjective(input_buffer[l])
    BY DEF TypeOK, SwitchIn, OnceInv, NoRepeats
  <1>2. /\ p \in Packets /\ Range(Tail(input_buffer[l])) = Range(input_buffer[l]) \ {p}
        /\ IsInjective(Tail(input_buffer[l])) /\ p \in Range(input_buffer[l])
    BY <1>1, RangeTail, TailOnce
  <1>3. v \in VaultIds
    BY <1>2, RequestFacts DEF Packets
  <1>4. UNCHANGED <<unsent, mem_req_count, output_buffer, response_packets_buffer,
                    batch, answered>>
    BY DEF SwitchIn, hostVars, historyVars
  <1>5. CASE UNCHANGED <<input_buffer, queueVars>>
    <2>1. Placement' = Placement
      BY <1>4, <1>5 DEF Placement, queueVars
    <2> QED
      BY <1>4, <1>5, <2>1 DEF OnceInv, NoRepeats, queueVars
  <1>6. CASE Enqueue(v, p) /\ input_buffer' = [input_buffer EXCEPT ![l] = Tail(@)]
    <2>1. p \in Placement[<<"in", l>>]
      BY <1>2, PlacementAt
    <2>2. p \notin Range(pending[v])
      <3>0. <<"in", l>> \in Slots /\ <<"pend", v>> \in Slots /\ <<"in", l>> # <<"pend", v>>
        BY <1>3, PlacementAt
      <3>1. p \notin Placement[<<"pend", v>>]
        BY <2>1, <3>0, NotElsewhere
      <3> QED
        BY <1>3, <3>1, PlacementAt
    <2>3. \A j \in LinkIds : input_buffer'[j] = IF j = l THEN Tail(input_buffer[l]) ELSE input_buffer[j]
      BY <1>6 DEF TypeOK
    <2> HIDE DEF v, p
    <2>4. \A j \in LinkIds : Range(input_buffer'[j]) =
            IF j = l THEN Range(input_buffer[j]) \ {p} ELSE Range(input_buffer[j])
      BY <1>2, <2>3
    <2>5. PICK kd \in {"read", "write", "pend"} : \A u \in VaultIds :
           /\ readq'[u] = IF kd = "read" /\ v = u THEN readq[u] \cup {p} ELSE readq[u]
           /\ writeq'[u] = IF kd = "write" /\ v = u THEN writeq[u] \cup {p} ELSE writeq[u]
           /\ Range(pending'[u]) =
                IF kd = "pend" /\ v = u THEN Range(pending[u]) \cup {p} ELSE Range(pending[u])
           /\ IsInjective(pending'[u])
      BY <1>2, <1>3, <1>6, <2>2, EnqueueOnce DEF OnceInv
    <2> DEFINE G == Gain(Lose(Placement, <<"in", l>>, p), <<kd, v>>, p)
    <2>6. \A k \in Slots : Placement'[k] = G[k]
      <3>1. \A j \in LinkIds :
              /\ G[<<"in", j>>] =
                   IF j = l THEN Range(input_buffer[j]) \ {p} ELSE Range(input_buffer[j])
              /\ G[<<"out", j>>] = Range(output_buffer[j])
        BY PlacementAt DEF Gain, Lose
      <3>2. \A u \in VaultIds :
              /\ G[<<"read", u>>] = IF kd = "read" /\ v = u THEN readq[u] \cup {p} ELSE readq[u]
              /\ G[<<"write", u>>] = IF kd = "write" /\ v = u THEN writeq[u] \cup {p} ELSE writeq[u]
        BY PlacementAt DEF Gain, Lose
      <3>3. \A u \in VaultIds :
              /\ G[<<"pend", u>>] =
                   IF kd = "pend" /\ v = u THEN Range(pending[u]) \cup {p} ELSE Range(pending[u])
              /\ G[<<"resp", u>>] = Range(response_packets_buffer[u])
        BY PlacementAt DEF Gain, Lose
      <3> HIDE DEF G
      <3>4. \A j \in LinkIds : /\ Range(input_buffer'[j]) = G[<<"in", j>>]
                              /\ Range(output_buffer'[j]) = G[<<"out", j>>]
        BY <1>4, <2>4, <3>1
      <3>5. \A u \in VaultIds : /\ readq'[u] = G[<<"read", u>>]
                               /\ writeq'[u] = G[<<"write", u>>]
                               /\ Range(pending'[u]) = G[<<"pend", u>>]
                               /\ Range(response_packets_buffer'[u]) = G[<<"resp", u>>]
        BY <1>4, <2>5, <3>2, <3>3
      <3> QED
        BY <3>4, <3>5, PlacementNext
    <2>7. <<"in", l>> \in Slots /\ <<kd, v>> \in Slots /\ <<"in", l>> # <<kd, v>>
      BY <1>3 DEF Slots
    <2>8. OnePlace(Placement', batch', unsent', mem_req_count', answered')
      <3>1. OnePlace(Placement', batch, unsent, mem_req_count, answered)
        <4>1. /\ {batch, unsent} \subseteq SUBSET Requests /\ mem_req_count \in Nat
              /\ answered \in [Requests -> Nat] /\ Placement \in [Slots -> SUBSET Packets]
              /\ OnePlace(Placement, batch, unsent, mem_req_count, answered)
          BY OncePlaced
        <4> QED
          BY <2>1, <2>6, <2>7, <4>1, PlaceMove
      <3> QED
        BY <1>4, <3>1
    <2>9. NoRepeats'
      BY <1>2, <1>4, <2>3, <2>5 DEF OnceInv, NoRepeats
    <2> QED
      BY <2>8, <2>9 DEF OnceInv
  <1> QED
    BY <1>5, <1>6 DEF SwitchIn

(* A response goes from its vault to its link. *)
LEMMA SwitchOutOnce ==
  ASSUME TypeOK, OnceInv, NEW v \in VaultIds, SwitchOut(v)
  PROVE  OnceInv'
  <1> DEFINE s == response_packets_buffer[v]
             p == Head(s)
             l == LinkOf(p.req)
             G == Gain(Lose(Placement, <<"resp", v>>, p), <<"out", l>>, p)
  <1>1. s \in Seq(Packets) /\ s # <<>> /\ IsInjective(s)
    BY DEF TypeOK, SwitchOut, Fits, OnceInv, NoRepeats
  <1>2. /\ p \in Packets /\ Range(Tail(s)) = Range(s) \ {p}
        /\ IsInjective(Tail(s)) /\ p \in Range(s)
    BY <1>1, RangeTail, TailOnce
  <1>3. l \in LinkIds
    BY <1>2, RequestFacts DEF Packets
  <1>4. /\ output_buffer' = [output_buffer EXCEPT ![l] = Append(@, p)]
        /\ response_packets_buffer' = [response_packets_buffer EXCEPT ![v] = Tail(s)]
        /\ UNCHANGED <<unsent, mem_req_count, input_buffer, readq, writeq, pending,
                       batch, answered>>
    BY DEF SwitchOut, hostVars, queueVars, historyVars, TypeOK
  <1>5. <<"resp", v>> \in Slots /\ <<"out", l>> \in Slots /\ <<"resp", v>> # <<"out", l>>
    BY <1>3 DEF Slots
  <1>6. p \in Placement[<<"resp", v>>]
    BY <1>2, PlacementAt
  <1>7. output_buffer[l] \in Seq(Packets) /\ IsInjective(output_buffer[l])
        /\ p \notin Range(output_buffer[l])
    <2>1. p \notin Placement[<<"out", l>>]
      BY <1>5, <1>6, NotElsewhere
    <2> QED
      BY <1>3, <2>1, PlacementAt DEF TypeOK, OnceInv, NoRepeats
  <1> HIDE DEF p, l
  <1>8. /\ Range(Append(output_buffer[l], p)) = Range(output_buffer[l]) \cup {p}
        /\ IsInjective(Append(output_buffer[l], p))
    BY <1>2, <1>7, RangeAppend, AppendOnce
  <1>9. /\ \A j \in LinkIds : output_buffer'[j] =
             IF j = l THEN Append(output_buffer[l], p) ELSE output_buffer[j]
        /\ \A u \in VaultIds : response_packets_buffer'[u] =
             IF u = v THEN Tail(s) ELSE response_packets_buffer[u]
    BY <1>4 DEF TypeOK
  <1>10. \A k \in Slots : Placement'[k] = G[k]
    <2>1. \A j \in LinkIds :
            /\ G[<<"in", j>>] = Range(input_buffer[j])
            /\ G[<<"out", j>>] =
                 IF j = l THEN Range(output_buffer[j]) \cup {p} ELSE Range(output_buffer[j])
      BY PlacementAt DEF Gain, Lose
    <2>2. \A u \in VaultIds : G[<<"read", u>>] = readq[u] /\ G[<<"write", u>>] = writeq[u]
      BY PlacementAt DEF Gain, Lose
    <2>3. \A u \in VaultIds :
            /\ G[<<"pend", u>>] = Range(pending[u])
            /\ G[<<"resp", u>>] = IF u = v THEN Range(response_packets_buffer[u]) \ {p}
                                  ELSE Range(response_packets_buffer[u])
      BY PlacementAt DEF Gain, Lose
    <2> HIDE DEF G
    <2>4. \A j \in LinkIds : /\ Range(input_buffer'[j]) = G[<<"in", j>>]
                            /\ Range(output_buffer'[j]) = G[<<"out", j>>]
      BY <1>4, <1>8, <1>9, <2>1
    <2>5. \A u \in VaultIds : /\ readq'[u] = G[<<"read", u>>]
                             /\ writeq'[u] = G[<<"write", u>>]
      BY <1>4, <2>2
    <2>6. \A u \in VaultIds : /\ Range(pending'[u]) = G[<<"pend", u>>]
                             /\ Range(response_packets_buffer'[u]) = G[<<"resp", u>>]
      BY <1>2, <1>4, <1>9, <2>3
    <2> QED
      BY <2>4, <2>5, <2>6, PlacementNext
  <1>11. OnePlace(Placement', batch', unsent', mem_req_count', answered')
    <2>1. /\ {batch, unsent} \subseteq SUBSET Requests /\ mem_req_count \in Nat
          /\ answered \in [Requests -> Nat] /\ Placement \in [Slots -> SUBSET Packets]
          /\ OnePlace(Placement, batch, unsent, mem_req_count, answered)
      BY OncePlaced
    <2>2. OnePlace(Placement', batch, unsent, mem_req_count, answered)
      BY <1>5, <1>6, <1>10, <2>1, PlaceMove
    <2> QED
      BY <1>4, <2>2
  <1>12. NoRepeats'
    BY <1>2, <1>4, <1>8, <1>9 DEF OnceInv, NoRepeats
  <1> QED
    BY <1>11, <1>12 DEF OnceInv

(* A packet leaves the cube with its answer. *)
LEMMA LinkSendOnce ==
  ASSUME TypeOK, OnceInv, NEW l \in LinkIds, LinkSend(l)
  PROVE  OnceInv'
  <1> DEFINE s == output_buffer[l]
             p == Head(s)
             G == Lose(Placement, <<"out", l>>, p)
  <1>1. s \in Seq(Packets) /\ s # <<>> /\ IsInjective(s)
    BY DEF TypeOK, LinkSend, OnceInv, NoRepeats
  <1>2. /\ p \in Packets /\ Range(Tail(s)) = Range(s) \ {p}
        /\ IsInjective(Tail(s)) /\ p \in Range(s)
    BY <1>1, RangeTail, TailOnce
  <1>3. /\ output_buffer' = [output_buffer EXCEPT ![l] = Tail(s)]
        /\ answered' = [answered EXCEPT ![p.req] = @ + 1]
        /\ UNCHANGED <<unsent, mem_req_count, input_buffer, readq, writeq, pending,
                       response_packets_buffer, batch>>
    BY DEF LinkSend, vaultVars, queueVars, TypeOK
  <1>4. <<"out", l>> \in Slots /\ p \in Placement[<<"out", l>>]
    BY <1>2, PlacementAt
  <1> HIDE DEF p
  <1>5. \A j \in LinkIds : output_buffer'[j] = IF j = l THEN Tail(s) ELSE output_buffer[j]
    BY <1>3 DEF TypeOK
  <1>6. \A k \in Slots : Placement'[k] = G[k]
    <2>1. \A j \in LinkIds :
            /\ G[<<"in", j>>] = Range(input_buffer[j])
            /\ G[<<"out", j>>] =
                 IF j = l THEN Range(output_buffer[j]) \ {p} ELSE Range(output_buffer[j])
      BY PlacementAt DEF Lose
    <2>2. \A u \in VaultIds : G[<<"read", u>>] = readq[u] /\ G[<<"write", u>>] = writeq[u]
      BY PlacementAt DEF Lose
    <2>3. \A u \in VaultIds : /\ G[<<"pend", u>>] = Range(pending[u])
                             /\ G[<<"resp", u>>] = Range(response_packets_buffer[u])
      BY PlacementAt DEF Lose
    <2> HIDE DEF G
    <2>4. \A j \in LinkIds : /\ Range(input_buffer'[j]) = G[<<"in", j>>]
                            /\ Range(output_buffer'[j]) = G[<<"out", j>>]
      BY <1>2, <1>3, <1>5, <2>1
    <2>5. \A u \in VaultIds : /\ readq'[u] = G[<<"read", u>>]
                             /\ writeq'[u] = G[<<"write", u>>]
                             /\ Range(pending'[u]) = G[<<"pend", u>>]
                             /\ Range(response_packets_buffer'[u]) = G[<<"resp", u>>]
      BY <1>3, <2>2, <2>3
    <2> QED
      BY <2>4, <2>5, PlacementNext
  <1>7. OnePlace(Placement', batch', unsent', mem_req_count', answered')
    <2>1. /\ {batch, unsent} \subseteq SUBSET Requests /\ mem_req_count \in Nat
          /\ answered \in [Requests -> Nat] /\ Placement \in [Slots -> SUBSET Packets]
          /\ OnePlace(Placement, batch, unsent, mem_req_count, answered)
      BY OncePlaced
    <2>2. OnePlace(Placement', batch, unsent, mem_req_count, [answered EXCEPT ![p.req] = @ + 1])
      BY <1>4, <1>6, <2>1, PlaceLeave
    <2> QED
      BY <1>3, <2>2
  <1>8. NoRepeats'
    BY <1>2, <1>3, <1>5 DEF OnceInv, NoRepeats
  <1> QED
    BY <1>7, <1>8 DEF OnceInv

(* H is where packets are when vault v has got as far in its tick as to    *)
(* hold reads R, writes W, pending reads pe and responses re.              *)
TickPlaces(H, v, R, W, pe, re) ==
  /\ H \in [Slots -> SUBSET Packets]
  /\ \A l \in LinkIds : /\ H[<<"in", l>>] = Range(input_buffer[l])
                        /\ H[<<"out", l>>] = Range(output_buffer[l])
  /\ \A u \in VaultIds : /\ H[<<"read", u>>] = IF u = v THEN R ELSE readq[u]
                         /\ H[<<"write", u>>] = IF u = v THEN W ELSE writeq[u]
  /\ \A u \in VaultIds : /\ H[<<"pend", u>>] = IF u = v THEN Range(pe) ELSE Range(pending[u])
                         /\ H[<<"resp", u>>] = IF u = v THEN Range(re)
                                               ELSE Range(response_packets_buffer[u])
  /\ pe \in Seq(Packets) /\ IsInjective(pe)
  /\ re \in Seq(Packets) /\ IsInjective(re)

LEMMA VaultSlots ==
  ASSUME NEW v \in VaultIds
  PROVE  /\ <<"read", v>> \in Slots /\ <<"write", v>> \in Slots
         /\ <<"pend", v>> \in Slots /\ <<"resp", v>> \in Slots
         /\ <<"read", v>> # <<"pend", v>> /\ <<"write", v>> # <<"resp", v>>
         /\ <<"pend", v>> # <<"resp", v>>
  BY DEF Slots

(* At the beginning of the tick *)
LEMMA TickBegins ==
  ASSUME TypeOK, OnceInv, NEW v \in VaultIds
  PROVE  TickPlaces(Placement, v, readq[v], writeq[v], pending[v], response_packets_buffer[v])
  <1>1. Placement \in [Slots -> SUBSET Packets]
    BY PlacementType
  <1>2. /\ pending[v] \in Seq(Packets) /\ IsInjective(pending[v])
        /\ response_packets_buffer[v] \in Seq(Packets)
        /\ IsInjective(response_packets_buffer[v])
    BY DEF TypeOK, OnceInv, NoRepeats
  <1> QED
    BY <1>1, <1>2, PlacementAt DEF TickPlaces

(* A pending read leaves, as a response to the host. *)
LEMMA TickResponds ==
  ASSUME NEW v \in VaultIds, mem_req_count \in Nat,
         batch \in SUBSET Requests, unsent \in SUBSET Requests,
         NEW a \in [Requests -> Nat], NEW H, NEW R, NEW W, NEW pe, NEW re,
         TickPlaces(H, v, R, W, pe, re), OnePlace(H, batch, unsent, mem_req_count, a), pe # <<>>
  PROVE  \E G : /\ TickPlaces(G, v, R, W, Tail(pe), re \o <<Head(pe)>>)
               /\ OnePlace(G, batch, unsent, mem_req_count, a)
  <1> DEFINE p == Head(pe)
             k1 == <<"pend", v>>
             k2 == <<"resp", v>>
             G == Gain(Lose(H, k1, p), k2, p)
  <1>1. pe \in Seq(Packets) /\ IsInjective(pe) /\ re \in Seq(Packets) /\ IsInjective(re)
    BY DEF TickPlaces
  <1>2. /\ p \in Packets /\ Range(Tail(pe)) = Range(pe) \ {p} /\ Tail(pe) \in Seq(Packets)
        /\ IsInjective(Tail(pe)) /\ p \in Range(pe)
    BY <1>1, RangeTail, TailOnce
  <1>3. k1 \in Slots /\ k2 \in Slots /\ k1 # k2
    BY VaultSlots
  <1>4. H \in [Slots -> SUBSET Packets] /\ H[k1] = Range(pe) /\ H[k2] = Range(re)
    BY DEF TickPlaces
  <1>5. p \notin Range(re)
    BY <1>2, <1>3, <1>4 DEF OnePlace, Same
  <1>6. /\ re \o <<p>> \in Seq(Packets) /\ IsInjective(re \o <<p>>)
        /\ Range(re \o <<p>>) = Range(re) \cup {p}
    BY <1>1, <1>2, <1>5, JoinNew
  <1>7. OnePlace(G, batch, unsent, mem_req_count, a)
    BY <1>2, <1>3, <1>4, PlaceMove
  <1>8. TickPlaces(G, v, R, W, Tail(pe), re \o <<p>>)
    <2>1. G \in [Slots -> SUBSET Packets]
      BY <1>2, <1>4 DEF Gain, Lose
    <2>2. \A l \in LinkIds : /\ G[<<"in", l>>] = H[<<"in", l>>]
                            /\ G[<<"out", l>>] = H[<<"out", l>>]
      BY PlacementAt DEF Gain, Lose
    <2>3. \A u \in VaultIds : /\ G[<<"read", u>>] = H[<<"read", u>>]
                             /\ G[<<"write", u>>] = H[<<"write", u>>]
      BY PlacementAt DEF Gain, Lose
    <2>4. \A u \in VaultIds :
            /\ G[<<"pend", u>>] = IF u = v THEN H[<<"pend", u>>] \ {p} ELSE H[<<"pend", u>>]
            /\ G[<<"resp", u>>] = IF u = v THEN H[<<"resp", u>>] \cup {p} ELSE H[<<"resp", u>>]
      BY PlacementAt DEF Gain, Lose
    <2> HIDE DEF G, p
    <2> QED
      BY <1>2, <1>6, <2>1, <2>2, <2>3, <2>4 DEF TickPlaces
  <1> QED
    BY <1>7, <1>8

(* A pending read leaves, answered to a near core. *)
LEMMA TickAnswers ==
  ASSUME NEW v \in VaultIds, mem_req_count \in Nat,
         batch \in SUBSET Requests, unsent \in SUBSET Requests,
         NEW a \in [Requests -> Nat], NEW H, NEW R, NEW W, NEW pe, NEW re,
         TickPlaces(H, v, R, W, pe, re), OnePlace(H, batch, unsent, mem_req_count, a), pe # <<>>
  PROVE  \E G : /\ TickPlaces(G, v, R, W, Tail(pe), re)
               /\ OnePlace(G, batch, unsent, mem_req_count, [a EXCEPT ![Head(pe).req] = @ + 1])
  <1> DEFINE p == Head(pe)
             k1 == <<"pend", v>>
             G == Lose(H, k1, p)
  <1>1. pe \in Seq(Packets) /\ IsInjective(pe)
    BY DEF TickPlaces
  <1>2. /\ p \in Packets /\ Range(Tail(pe)) = Range(pe) \ {p} /\ Tail(pe) \in Seq(Packets)
        /\ IsInjective(Tail(pe)) /\ p \in Range(pe)
    BY <1>1, RangeTail, TailOnce
  <1>3. k1 \in Slots
    BY VaultSlots
  <1>4. H \in [Slots -> SUBSET Packets] /\ H[k1] = Range(pe)
    BY DEF TickPlaces
  <1>5. OnePlace(G, batch, unsent, mem_req_count, [a EXCEPT ![p.req] = @ + 1])
    BY <1>2, <1>3, <1>4, PlaceLeave
  <1>6. TickPlaces(G, v, R, W, Tail(pe), re)
    <2>1. G \in [Slots -> SUBSET Packets]
      BY <1>4 DEF Lose
    <2>2. \A l \in LinkIds : /\ G[<<"in", l>>] = H[<<"in", l>>]
                            /\ G[<<"out", l>>] = H[<<"out", l>>]
      BY PlacementAt DEF Lose
    <2>3. \A u \in VaultIds : /\ G[<<"read", u>>] = H[<<"read", u>>]
                             /\ G[<<"write", u>>] = H[<<"write", u>>]
      BY PlacementAt DEF Lose
    <2>4. \A u \in VaultIds :
            /\ G[<<"pend", u>>] = IF u = v THEN H[<<"pend", u>>] \ {p} ELSE H[<<"pend", u>>]
            /\ G[<<"resp", u>>] = H[<<"resp", u>>]
      BY PlacementAt DEF Lose
    <2> HIDE DEF G, p
    <2> QED
      BY <1>2, <2>1, <2>2, <2>3, <2>4 DEF TickPlaces
  <1> QED
    BY <1>5, <1>6

(* A read is issued: it is pending until its data arrive. *)
LEMMA TickReads ==
  ASSUME NEW v \in VaultIds, mem_req_count \in Nat,
         batch \in SUBSET Requests, unsent \in SUBSET Requests,
         NEW a \in [Requests -> Nat], NEW H, NEW R, NEW W, NEW pe, NEW re,
         TickPlaces(H, v, R, W, pe, re), OnePlace(H, batch, unsent, mem_req_count, a), NEW p \in R
  PROVE  \E G : /\ TickPlaces(G, v, R \ {p}, W, pe \o <<p>>, re)
               /\ OnePlace(G, batch, unsent, mem_req_count, a)
  <1> DEFINE k1 == <<"read", v>>
             k2 == <<"pend", v>>
             G == Gain(Lose(H, k1, p), k2, p)
  <1>1. pe \in Seq(Packets) /\ IsInjective(pe)
    BY DEF TickPlaces
  <1>2. k1 \in Slots /\ k2 \in Slots /\ k1 # k2
    BY VaultSlots
  <1>3. /\ H \in [Slots -> SUBSET Packets] /\ H[k1] = R /\ H[k2] = Range(pe)
        /\ p \in H[k1]
    BY DEF TickPlaces
  <1>4. p \in Packets /\ p \notin Range(pe)
    BY <1>2, <1>3 DEF OnePlace, Same
  <1>5. /\ pe \o <<p>> \in Seq(Packets) /\ IsInjective(pe \o <<p>>)
        /\ Range(pe \o <<p>>) = Range(pe) \cup {p}
    BY <1>1, <1>4, JoinNew
  <1>6. OnePlace(G, batch, unsent, mem_req_count, a)
    BY <1>2, <1>3, PlaceMove
  <1>7. TickPlaces(G, v, R \ {p}, W, pe \o <<p>>, re)
    <2>1. G \in [Slots -> SUBSET Packets]
      BY <1>3, <1>4 DEF Gain, Lose
    <2>2. \A l \in LinkIds : /\ G[<<"in", l>>] = H[<<"in", l>>]
                            /\ G[<<"out", l>>] = H[<<"out", l>>]
      BY PlacementAt DEF Gain, Lose
    <2>3. \A u \in VaultIds :
            /\ G[<<"read", u>>] = IF u = v THEN H[<<"read", u>>] \ {p} ELSE H[<<"read", u>>]
            /\ G[<<"write", u>>] = H[<<"write", u>>]
      BY PlacementAt DEF Gain, Lose
    <2>4. \A u \in VaultIds :
            /\ G[<<"pend", u>>] = IF u = v THEN H[<<"pend", u>>] \cup {p} ELSE H[<<"pend", u>>]
            /\ G[<<"resp", u>>] = H[<<"resp", u>>]
      BY PlacementAt DEF Gain, Lose
    <2> HIDE DEF G
    <2> QED
      BY <1>5, <2>1, <2>2, <2>3, <2>4 DEF TickPlaces
  <1> QED
    BY <1>6, <1>7

(* A write is issued: its response goes at once. *)
LEMMA TickWrites ==
  ASSUME NEW v \in VaultIds, mem_req_count \in Nat,
         batch \in SUBSET Requests, unsent \in SUBSET Requests,
         NEW a \in [Requests -> Nat], NEW H, NEW R, NEW W, NEW pe, NEW re,
         TickPlaces(H, v, R, W, pe, re), OnePlace(H, batch, unsent, mem_req_count, a), NEW p \in W
  PROVE  \E G : /\ TickPlaces(G, v, R, W \ {p}, pe, re \o <<p>>)
               /\ OnePlace(G, batch, unsent, mem_req_count, a)
  <1> DEFINE k1 == <<"write", v>>
             k2 == <<"resp", v>>
             G == Gain(Lose(H, k1, p), k2, p)
  <1>1. re \in Seq(Packets) /\ IsInjective(re)
    BY DEF TickPlaces
  <1>2. k1 \in Slots /\ k2 \in Slots /\ k1 # k2
    BY VaultSlots
  <1>3. /\ H \in [Slots -> SUBSET Packets] /\ H[k1] = W /\ H[k2] = Range(re)
        /\ p \in H[k1]
    BY DEF TickPlaces
  <1>4. p \in Packets /\ p \notin Range(re)
    BY <1>2, <1>3 DEF OnePlace, Same
  <1>5. /\ re \o <<p>> \in Seq(Packets) /\ IsInjective(re \o <<p>>)
        /\ Range(re \o <<p>>) = Range(re) \cup {p}
    BY <1>1, <1>4, JoinNew
  <1>6. OnePlace(G, batch, unsent, mem_req_count, a)
    BY <1>2, <1>3, PlaceMove
  <1>7. TickPlaces(G, v, R, W \ {p}, pe, re \o <<p>>)
    <2>1. G \in [Slots -> SUBSET Packets]
      BY <1>3, <1>4 DEF Gain, Lose
    <2>2. \A l \in LinkIds : /\ G[<<"in", l>>] = H[<<"in", l>>]
                            /\ G[<<"out", l>>] = H[<<"out", l>>]
      BY PlacementAt DEF Gain, Lose
    <2>3. \A u \in VaultIds :
            /\ G[<<"read", u>>] = H[<<"read", u>>]
            /\ G[<<"write", u>>] = IF u = v THEN H[<<"write", u>>] \ {p} ELSE H[<<"write", u>>]
      BY PlacementAt DEF Gain, Lose
    <2>4. \A u \in VaultIds :
            /\ G[<<"pend", u>>] = H[<<"pend", u>>]
            /\ G[<<"resp", u>>] = IF u = v THEN H[<<"resp", u>>] \cup {p} ELSE H[<<"resp", u>>]
      BY PlacementAt DEF Gain, Lose
    <2> HIDE DEF G
    <2> QED
      BY <1>5, <2>1, <2>2, <2>3, <2>4 DEF TickPlaces
  <1> QED
    BY <1>6, <1>7

(* A tick of a vault does at most one of each. *)
LEMMA VaultTickOnce ==
  ASSUME TypeOK, OnceInv, NEW v \in VaultIds, VaultTicks(v)
  PROVE  OnceInv'
  <1>1. PICK leaving \in {<<>>} \cup Departed(v), served \in {<<>>} \cup Completed(v) :
          VaultTick(v, leaving, served)
    BY DEF VaultTicks
  <1>2. /\ leaving \in Seq(Packets) /\ served \in Seq(Packets)
        /\ leaving # <<>> => /\ pending[v] # <<>>
                             /\ leaving = <<Head(pending[v])>>
                             /\ Head(leaving) = Head(pending[v])
    BY <1>1, TickType
  <1> DEFINE read == IF NextMode(v) THEN <<>> ELSE served
             written == IF NextMode(v) THEN served ELSE <<>>
             near == leaving # <<>> /\ Near(Head(leaving).req)
             far == IF near THEN <<>> ELSE leaving
             rest == IF leaving = <<>> THEN pending[v] ELSE Tail(pending[v])
             pe == pending[v]
             re == response_packets_buffer[v]
  <1>3. /\ pending' = [pending EXCEPT ![v] = rest \o read]
        /\ response_packets_buffer' = [response_packets_buffer EXCEPT ![v] = re \o far \o written]
        /\ readq' = [readq EXCEPT ![v] = @ \ Range(read)]
        /\ writeq' = [writeq EXCEPT ![v] = @ \ Range(written)]
        /\ answered' = IF near THEN [answered EXCEPT ![Head(leaving).req] = @ + 1] ELSE answered
        /\ UNCHANGED <<unsent, mem_req_count, input_buffer, output_buffer, batch>>
    BY <1>1 DEF VaultTick, TypeOK, hostVars, linkVars
  <1>4. /\ TickPlaces(Placement, v, readq[v], writeq[v], pe, re)
        /\ batch \in SUBSET Requests /\ unsent \in SUBSET Requests
        /\ mem_req_count \in Nat /\ answered \in [Requests -> Nat]
        /\ OnePlace(Placement, batch, unsent, mem_req_count, answered)
    BY TickBegins, OncePlaced
  <1>5. pe \in Seq(Packets) /\ re \in Seq(Packets) /\ re \o <<>> = re
    BY DEF TypeOK
  <1>6. \E H : /\ TickPlaces(H, v, readq[v], writeq[v], rest, re \o far)
              /\ OnePlace(H, batch, unsent, mem_req_count, answered')
    <2>1. CASE leaving = <<>>
      BY <1>3, <1>4, <1>5, <2>1
    <2>2. CASE leaving # <<>> /\ ~near
      <3>1. far = <<Head(pe)>> /\ rest = Tail(pe) /\ pe # <<>> /\ answered' = answered
        BY <1>2, <1>3, <2>2
      <3> HIDE DEF far, rest, near, pe, re
      <3> QED
        BY <1>4, <3>1, TickResponds
    <2>3. CASE near
      <3>1. /\ far = <<>> /\ rest = Tail(pe) /\ pe # <<>>
            /\ answered' = [answered EXCEPT ![Head(pe).req] = @ + 1]
        BY <1>2, <1>3, <2>3
      <3> HIDE DEF far, rest, near, pe, re
      <3> QED
        BY <1>4, <1>5, <3>1, TickAnswers
    <2> QED
      BY <2>1, <2>2, <2>3
  <1>7. answered' \in [Requests -> Nat]
    BY VaultTickType DEF TypeOK
  <1>8. PICK H : /\ TickPlaces(H, v, readq[v], writeq[v], rest, re \o far)
                 /\ OnePlace(H, batch, unsent, mem_req_count, answered')
    BY <1>6
  <1>9. \E G : /\ TickPlaces(G, v, readq[v] \ Range(read), writeq[v] \ Range(written),
                            rest \o read, re \o far \o written)
              /\ OnePlace(G, batch, unsent, mem_req_count, answered')
    <2>1. rest \in Seq(Packets) /\ re \o far \in Seq(Packets) /\ Range(<<>>) = {}
      BY <1>8, RangeShort DEF TickPlaces, Range
    <2> HIDE DEF rest, far, near, pe, re
    <2>2. rest \o <<>> = rest /\ (re \o far) \o <<>> = re \o far
      BY <2>1
    <2>3. CASE served = <<>>
      BY <1>8, <2>1, <2>2, <2>3
    <2>4. ASSUME NextMode(v), NEW p \in writeq[v], served = <<p>>
          PROVE  \E G : /\ TickPlaces(G, v, readq[v] \ Range(read), writeq[v] \ Range(written),
                            rest \o read, re \o far \o written)
                       /\ OnePlace(G, batch, unsent, mem_req_count, answered')
      <3>1. written = <<p>> /\ read = <<>> /\ Range(written) = {p}
        BY <2>4 DEF Range
      <3> DEFINE sent == re \o far
      <3> HIDE DEF sent, read, written
      <3>2. \E G : /\ TickPlaces(G, v, readq[v], writeq[v] \ {p}, rest, sent \o <<p>>)
                  /\ OnePlace(G, batch, unsent, mem_req_count, answered')
        <4>1. /\ TickPlaces(H, v, readq[v], writeq[v], rest, sent)
              /\ OnePlace(H, batch, unsent, mem_req_count, answered')
          BY <1>8 DEF sent
        <4>2. /\ batch \in SUBSET Requests /\ unsent \in SUBSET Requests
              /\ mem_req_count \in Nat /\ answered' \in [Requests -> Nat]
          BY <1>4, <1>7
        <4> QED
          BY <4>1, <4>2, TickWrites
      <3> QED
        BY <2>1, <2>2, <3>1, <3>2 DEF sent
    <2>5. ASSUME ~NextMode(v), NEW p \in readq[v], served = <<p>>
          PROVE  \E G : /\ TickPlaces(G, v, readq[v] \ Range(read), writeq[v] \ Range(written),
                            rest \o read, re \o far \o written)
                       /\ OnePlace(G, batch, unsent, mem_req_count, answered')
      <3>1. read = <<p>> /\ written = <<>> /\ Range(read) = {p}
        BY <2>5 DEF Range
      <3>2. \E G : /\ TickPlaces(G, v, readq[v] \ {p}, writeq[v], rest \o <<p>>, re \o far)
                  /\ OnePlace(G, batch, unsent, mem_req_count, answered')
        BY <1>4, <1>7, <1>8, TickReads
      <3> QED
        BY <2>1, <2>2, <3>1, <3>2
    <2> QED
      BY <1>1, <2>3, <2>4, <2>5 DEF Completed
  <1>10. PICK G : /\ TickPlaces(G, v, readq[v] \ Range(read), writeq[v] \ Range(written),
                               rest \o read, re \o far \o written)
                  /\ OnePlace(G, batch, unsent, mem_req_count, answered')
    BY <1>9
  <1> DEFINE pe2 == rest \o read
             re2 == re \o far \o written
  <1> HIDE DEF rest, far, near, pe, re, read, written
  <1>11. /\ \A u \in VaultIds : /\ pending'[u] = IF u = v THEN pe2 ELSE pending[u]
                               /\ response_packets_buffer'[u] =
                                    IF u = v THEN re2 ELSE response_packets_buffer[u]
         /\ \A u \in VaultIds : /\ readq'[u] = IF u = v THEN readq[v] \ Range(read) ELSE readq[u]
                               /\ writeq'[u] =
                                    IF u = v THEN writeq[v] \ Range(written) ELSE writeq[u]
    BY <1>3 DEF TypeOK
  <1> HIDE DEF pe2, re2
  <1>12. TickPlaces(G, v, readq[v] \ Range(read), writeq[v] \ Range(written), pe2, re2)
    BY <1>10 DEF pe2, re2
  <1>13. OnePlace(Placement', batch', unsent', mem_req_count', answered')
    <2>1. \A l \in LinkIds : /\ Range(input_buffer'[l]) = G[<<"in", l>>]
                            /\ Range(output_buffer'[l]) = G[<<"out", l>>]
      BY <1>3, <1>12 DEF TickPlaces
    <2>2. \A u \in VaultIds : readq'[u] = G[<<"read", u>>] /\ writeq'[u] = G[<<"write", u>>]
      BY <1>11, <1>12 DEF TickPlaces
    <2>3. \A u \in VaultIds : /\ Range(pending'[u]) = G[<<"pend", u>>]
                             /\ Range(response_packets_buffer'[u]) = G[<<"resp", u>>]
      BY <1>11, <1>12 DEF TickPlaces
    <2>4. \A k \in Slots : Placement'[k] = G[k]
      BY <2>1, <2>2, <2>3, PlacementNext
    <2>5. G \in [Slots -> SUBSET Packets] /\ Placement' \in [Slots -> SUBSET Packets]
      BY <1>12, <2>4 DEF TickPlaces, Placement
    <2>6. Placement' = G
      BY <2>4, <2>5
    <2> QED
      BY <1>3, <1>10, <2>6
  <1>14. NoRepeats'
    <2>1. IsInjective(pe2) /\ IsInjective(re2)
      BY <1>12 DEF TickPlaces
    <2> QED
      BY <1>3, <1>11, <2>1 DEF OnceInv, NoRepeats
  <1> QED
    BY <1>13, <1>14 DEF OnceInv

LEMMA OnceInit == Init => OnceInv
  <1> SUFFICES ASSUME Init PROVE OnceInv
    OBVIOUS
  <1>1. Range(<<>>) = {}
    BY DEF Range
  <1>2. \A l \in LinkIds : Range(input_buffer[l]) = {} /\ Range(output_buffer[l]) = {}
    BY <1>1 DEF Init
  <1>3. \A v \in VaultIds : readq[v] = {} /\ writeq[v] = {}
    BY DEF Init
  <1>4. \A v \in VaultIds : Range(pending[v]) = {} /\ Range(response_packets_buffer[v]) = {}
    BY <1>1 DEF Init
  <1>5. ASSUME NEW k \in Slots PROVE Placement[k] = {}
    <2>1. ASSUME NEW l \in LinkIds, k = <<"in", l>> \/ k = <<"out", l>>
          PROVE  Placement[k] = {}
      BY <1>2, <2>1, PlacementAt, ZenonT(30)
    <2>2. ASSUME NEW v \in VaultIds, k = <<"read", v>> \/ k = <<"write", v>>
          PROVE  Placement[k] = {}
      BY <1>3, <2>2, PlacementAt, ZenonT(30)
    <2>3. ASSUME NEW v \in VaultIds, k = <<"pend", v>> \/ k = <<"resp", v>>
          PROVE  Placement[k] = {}
      BY <1>4, <2>3, PlacementAt, ZenonT(30)
    <2> QED
      BY <2>1, <2>2, <2>3, SlotCases
  <1>6. unsent = batch /\ batch \in SUBSET Requests /\ \A r \in Requests : answered[r] = 0
    BY TrafficAssumption DEF Init
  <1>7. OnePlace(Placement, batch, unsent, mem_req_count, answered)
    BY <1>5, <1>6 DEF OnePlace
  <1>8. NoRepeats
    BY ShortOnce DEF Init, NoRepeats
  <1> QED
    BY <1>7, <1>8 DEF OnceInv

(* A step that moves no packet *)
LEMMA StillOnce ==
  ASSUME OnceInv, UNCHANGED <<unsent, mem_req_count, batch, answered, input_buffer,
                              output_buffer, queueVars, response_packets_buffer>>
  PROVE  OnceInv'
  <1>1. Placement' = Placement
    BY DEF Placement, queueVars
  <1> QED
    BY <1>1 DEF OnceInv, NoRepeats, queueVars

LEMMA OnceNext == TypeOK /\ OnceInv /\ [Next]_vars => OnceInv'
  <1> SUFFICES ASSUME TypeOK, OnceInv, [Next]_vars
               PROVE  OnceInv'
    OBVIOUS
  <1>1. CASE \E r \in Requests : Send(r)
    <2>1. ASSUME NEW r \in Requests, SendUntagged(r) \/ SendRefused(r)
          PROVE  OnceInv'
      BY <2>1, StillOnce DEF SendUntagged, SendRefused, linkVars, vaultVars, historyVars
    <2> QED
      BY <1>1, <2>1, SendFarOnce, SendNearOnce DEF Send
  <1>2. CASE \E l \in LinkIds : SwitchIn(l) \/ LinkSend(l)
    BY <1>2, SwitchInOnce, LinkSendOnce
  <1>3. CASE \E v \in VaultIds : SwitchOut(v) \/ VaultTicks(v)
    BY <1>3, SwitchOutOnce, VaultTickOnce
  <1>4. CASE RestoreTags
    BY <1>4, StillOnce DEF RestoreTags, linkVars, vaultVars
  <1>5. CASE UNCHANGED vars
    BY <1>5, StillOnce DEF vars, hostVars, linkVars, vaultVars, historyVars
  <1> QED
    BY <1>1, <1>2, <1>3, <1>4, <1>5 DEF Next

(* What is in flight is in one of the slots. *)
LEMMA InSlots ==
  /\ \A p \in InFlight : \E k \in Slots : p \in Placement[k]
  /\ \A l \in LinkIds : /\ \A p \in Range(input_buffer[l]) : p \in Placement[<<"in", l>>]
                        /\ \A p \in Range(output_buffer[l]) : p \in Placement[<<"out", l>>]
  /\ \A v \in VaultIds : \A p \in InVault(v) :
       \E k \in {<<"read", v>>, <<"write", v>>, <<"pend", v>>, <<"resp", v>>} :
         k \in Slots /\ p \in Placement[k]
  <1>1. \A l \in LinkIds : /\ \A p \in Range(input_buffer[l]) : p \in Placement[<<"in", l>>]
                          /\ \A p \in Range(output_buffer[l]) : p \in Placement[<<"out", l>>]
    BY PlacementAt
  <1>2. \A v \in VaultIds : \A p \in InVault(v) :
          \E k \in {<<"read", v>>, <<"write", v>>, <<"pend", v>>, <<"resp", v>>} :
            k \in Slots /\ p \in Placement[k]
    BY PlacementAt DEF InVault, Waiting
  <1>3. ASSUME NEW p \in InFlight PROVE \E k \in Slots : p \in Placement[k]
    <2>1. CASE \E v \in VaultIds : p \in InVault(v)
      BY <1>2, <2>1
    <2>2. CASE \E l \in LinkIds : p \in OnLink(l)
      BY <1>1, <2>2, PlacementAt DEF OnLink
    <2> QED
      BY <2>1, <2>2, InFlightMember
  <1> QED
    BY <1>1, <1>2, <1>3

(* An accepted request that is not answered has one place. *)
LEMMA OnePlaceOnce ==
  ASSUME TypeOK, OnceInv, NEW r \in Requests, NEW k \in Slots, NEW p \in Placement[k], p.req = r
  PROVE  /\ \E x : Places(r) = {x}
         /\ {q \in InFlight : q.req = r} \subseteq {p}
  <1>1. \A m \in Slots : \A q \in Placement[m] : q.req = r => m = k /\ q = p
    BY DEF OnceInv, OnePlace, Same
  <1>2. {q \in InFlight : q.req = r} \subseteq {p}
    BY <1>1, InSlots
  <1>3. \A l \in LinkIds : /\ \A q \in Range(input_buffer[l]) : q.req = r => k = <<"in", l>>
                          /\ \A q \in Range(output_buffer[l]) : q.req = r => k = <<"out", l>>
    <2> TAKE l \in LinkIds
    <2>1. <<"in", l>> \in Slots /\ <<"out", l>> \in Slots
      BY PlacementAt
    <2>2. ASSUME NEW q \in Range(input_buffer[l]), q.req = r PROVE k = <<"in", l>>
      BY <1>1, <2>1, <2>2, InSlots
    <2>3. ASSUME NEW q \in Range(output_buffer[l]), q.req = r PROVE k = <<"out", l>>
      BY <1>1, <2>1, <2>3, InSlots
    <2> QED
      BY <2>2, <2>3
  <1>4. \A v \in VaultIds : \A q \in InVault(v) : q.req = r =>
          k \in {<<"read", v>>, <<"write", v>>, <<"pend", v>>, <<"resp", v>>}
    BY <1>1, InSlots
  <1>5. ASSUME NEW l \in LinkIds, k = <<"in", l>> PROVE Places(r) = {<<"in", l>>}
    <2>1. p \in Range(input_buffer[l])
      BY <1>5, PlacementAt
    <2> QED
      BY <1>3, <1>4, <1>5, <2>1 DEF Places
  <1>6. ASSUME NEW l \in LinkIds, k = <<"out", l>> PROVE Places(r) = {<<"out", l>>}
    <2>1. p \in Range(output_buffer[l])
      BY <1>6, PlacementAt
    <2> QED
      BY <1>3, <1>4, <1>6, <2>1 DEF Places
  <1>7. ASSUME NEW v \in VaultIds,
               k \in {<<"read", v>>, <<"write", v>>, <<"pend", v>>, <<"resp", v>>}
        PROVE  Places(r) = {<<"vault", v>>}
    <2>1. p \in InVault(v)
      BY <1>7, PlacementAt DEF InVault, Waiting
    <2>2. \A u \in VaultIds : \A q \in InVault(u) : q.req = r => u = v
      BY <1>4, <1>7
    <2>3. \A l \in LinkIds : /\ \A q \in Range(input_buffer[l]) : q.req # r
                            /\ \A q \in Range(output_buffer[l]) : q.req # r
      BY <1>3, <1>7
    <2> QED
      BY <2>1, <2>2, <2>3 DEF Places
  <1> QED
    BY <1>2, <1>5, <1>6, <1>7, SlotCases

LEMMA OnceAnswered == TypeOK /\ OnceInv => AnsweredOnce
  <1> SUFFICES ASSUME TypeOK, OnceInv, NEW r \in batch
               PROVE  /\ (IF r \in unsent THEN 1 ELSE 0) + Cardinality(Places(r)) + answered[r] = 1
                      /\ Cardinality({p \in InFlight : p.req = r}) <= 1
    BY DEF AnsweredOnce
  <1>1. ASSUME \A k \in Slots : \A p \in Placement[k] : p.req # r
        PROVE  /\ Cardinality(Places(r)) = 0
               /\ Cardinality({p \in InFlight : p.req = r}) = 0
    <2>1. {p \in InFlight : p.req = r} = {}
      BY <1>1, InSlots
    <2>2. \A v \in VaultIds : \A p \in InVault(v) : p.req # r
      BY <2>1, InFlightMember
    <2>3. \A l \in LinkIds : \A p \in OnLink(l) : p.req # r
      BY <2>1, InFlightMember
    <2>4. Places(r) = {}
      BY <2>2, <2>3 DEF Places, OnLink
    <2> QED
      BY <2>1, <2>4, FS_EmptySet
  <1>0. r \in Requests
    BY OncePlaced
  <1>2. CASE r \in unsent
    <2>1. answered[r] = 0 /\ \A k \in Slots : \A p \in Placement[k] : p.req # r
      BY <1>2 DEF OnceInv, OnePlace
    <2> QED
      BY <1>1, <1>2, <2>1
  <1>3. CASE r \notin unsent /\ answered[r] = 1
    <2>1. \A k \in Slots : \A p \in Placement[k] : p.req # r
      BY <1>3 DEF OnceInv, OnePlace
    <2> QED
      BY <1>1, <1>3, <2>1
  <1>4. CASE r \notin unsent /\ answered[r] # 1
    <2>1. answered[r] = 0 /\ \E k \in Slots : \E p \in Placement[k] : p.req = r
      BY <1>4 DEF OnceInv, OnePlace
    <2>2. PICK k \in Slots : \E p \in Placement[k] : p.req = r
      BY <2>1
    <2>3. PICK p \in Placement[k] : p.req = r
      BY <2>2
    <2>4. PICK x : Places(r) = {x}
      BY <1>0, <2>3, OnePlaceOnce
    <2>5. Cardinality(Places(r)) = 1
      BY <2>4, FS_Singleton
    <2> DEFINE Q == {q \in InFlight : q.req = r}
    <2>6. Q \subseteq {p}
      BY <1>0, <2>3, OnePlaceOnce
    <2>7. Q = {} \/ Q = {p}
      BY <2>6
    <2>8. Cardinality(Q) <= 1
      <3> HIDE DEF Q
      <3>1. Cardinality({}) = 0 /\ Cardinality({p}) = 1
        BY FS_EmptySet, FS_Singleton
      <3> QED
        BY <2>7, <3>1
    <2> QED
      BY <1>4, <2>1, <2>5, <2>8
  <1> QED
    BY <1>2, <1>3, <1>4

(* Whatever the traffic, and however often the tags are restored: a        *)
(* request the cube has accepted is at one place, on its link or in its    *)
(* vault, until it is answered, and it is answered once.                   *)
THEOREM HmcAnsweredOnce == Spec => []AnsweredOnce
  <1>1. Init => TypeOK /\ OnceInv
    BY InitTypeOK, OnceInit
  <1>2. TypeOK /\ OnceInv /\ [Next]_vars => (TypeOK /\ OnceInv)'
    BY NextTypeOK, OnceNext
  <1>3. TypeOK /\ OnceInv => AnsweredOnce
    BY OnceAnswered
  <1> QED
    BY <1>1, <1>2, <1>3, PTL DEF Spec

----------------------------------------------------------------------------
(* What a vault has recorded *)

(* Packets with one number are one packet, at one place. *)
LEMMA OneNumber ==
  ASSUME OnceInv, NEW k \in Slots, NEW m \in Slots, NEW p \in Placement[k],
         NEW q \in Placement[m], p.reqid = q.reqid
  PROVE  k = m /\ p = q
  BY DEF OnceInv, OnePlace, Same

LEMMA WaitingSlots ==
  ASSUME NEW v \in VaultIds, NEW p \in Waiting(v)
  PROVE  \E k \in {<<"read", v>>, <<"write", v>>, <<"pend", v>>} :
           k \in Slots /\ p \in Placement[k]
  BY PlacementAt DEF Waiting

(* A packet is recorded whose number no waiting request has. *)
LEMMA RecordMatches ==
  ASSUME TypeOK, ResponseMatched, NEW v \in VaultIds, NEW p \in Packets, Record(v, p),
         \A w \in Waiting(v) : w.reqid # p.reqid,
         \A u \in VaultIds : Waiting(u)' \subseteq Waiting(u) \cup (IF u = v THEN {p} ELSE {})
  PROVE  ResponseMatched'
  <1>1. \A u \in VaultIds : incoming_packets_buffer'[u] =
          IF u = v THEN {q \in incoming_packets_buffer[v] : q.reqid # p.reqid} \cup {p}
          ELSE incoming_packets_buffer[u]
    BY DEF Record, TypeOK
  <1>2. ASSUME NEW u \in VaultIds, NEW w \in Waiting(u)'
        PROVE  {q \in incoming_packets_buffer'[u] : q.reqid = w.reqid} = {w}
    <2>1. CASE u # v
      BY <1>1, <2>1 DEF ResponseMatched
    <2>2. CASE u = v /\ w = p
      BY <1>1, <2>2
    <2>3. CASE u = v /\ w # p
      <3>1. w \in Waiting(v) /\ w.reqid # p.reqid
        BY <2>3
      <3>2. {q \in incoming_packets_buffer[v] : q.reqid = w.reqid} = {w}
        BY <3>1 DEF ResponseMatched
      <3> QED
        BY <1>1, <2>3, <3>1, <3>2
    <2> QED
      BY <2>1, <2>2, <2>3
  <1> QED
    BY <1>2 DEF ResponseMatched

LEMMA SendNearMatches ==
  ASSUME TypeOK, OnceInv, ResponseMatched, NEW r \in Requests, SendNear(r)
  PROVE  ResponseMatched'
  <1> DEFINE v == VaultOf(r)
             p == NewPacket(r)
  <1>1. v \in VaultIds /\ p \in Packets /\ p.reqid = mem_req_count /\ mem_req_count \in Nat
    BY RequestFacts, NewPacketType DEF NewPacket, TypeOK
  <1>2. Record(v, p) /\ Enqueue(v, p)
    BY DEF SendNear
  <1> HIDE DEF v, p
  <1>3. ASSUME NEW w \in Waiting(v) PROVE w.reqid # p.reqid
    <2>1. PICK k \in Slots : w \in Placement[k]
      BY <1>1, WaitingSlots
    <2>2. w.reqid < mem_req_count /\ w \in Packets
      BY <2>1, OncePlaced DEF OnePlace
    <2> QED
      BY <1>1, <2>2 DEF Packets
  <1>4. \A u \in VaultIds : Waiting(u)' = Waiting(u) \cup (IF u = v THEN {p} ELSE {})
    BY <1>1, <1>2, EnqueueAdds
  <1> QED
    BY <1>1, <1>2, <1>3, <1>4, RecordMatches

LEMMA SwitchInMatches ==
  ASSUME TypeOK, OnceInv, ResponseMatched, NEW l \in LinkIds, SwitchIn(l)
  PROVE  ResponseMatched'
  <1> DEFINE p == Head(input_buffer[l])
             v == VaultOf(p.req)
  <1>1. input_buffer[l] \in Seq(Packets) /\ input_buffer[l] # <<>>
    BY DEF TypeOK, SwitchIn
  <1>2. p \in Packets /\ p \in Range(input_buffer[l])
    BY <1>1, RangeTail
  <1>3. v \in VaultIds
    BY <1>2, RequestFacts DEF Packets
  <1>4. Record(v, p) /\ (UNCHANGED queueVars \/ Enqueue(v, p))
    BY DEF SwitchIn
  <1> HIDE DEF v, p
  <1>5. ASSUME NEW w \in Waiting(v), w.reqid = p.reqid PROVE FALSE
    <2>1. PICK k \in {<<"read", v>>, <<"write", v>>, <<"pend", v>>} :
            k \in Slots /\ w \in Placement[k]
      BY <1>3, WaitingSlots
    <2>2. <<"in", l>> \in Slots /\ p \in Placement[<<"in", l>>]
      BY <1>2, PlacementAt
    <2>3. k # <<"in", l>>
      OBVIOUS
    <2> QED
      BY <1>5, <2>1, <2>2, <2>3, OneNumber
  <1>6. \A u \in VaultIds : Waiting(u)' \subseteq Waiting(u) \cup (IF u = v THEN {p} ELSE {})
    <2>1. CASE UNCHANGED queueVars
      BY <2>1 DEF Waiting, queueVars
    <2>2. CASE Enqueue(v, p)
      BY <1>2, <1>3, <2>2, EnqueueAdds
    <2> QED
      BY <1>4, <2>1, <2>2
  <1> QED
    BY <1>2, <1>3, <1>4, <1>5, <1>6, RecordMatches

(* What leaves the queues of a vault in a tick, and its record with it, has *)
(* the number of no request that stays.                                    *)
LEMMA VaultTickMatches ==
  ASSUME TypeOK, OnceInv, ResponseMatched, NEW v \in VaultIds, VaultTicks(v)
  PROVE  ResponseMatched'
  <1>1. PICK leaving \in {<<>>} \cup Departed(v), served \in {<<>>} \cup Completed(v) :
          VaultTick(v, leaving, served)
    BY DEF VaultTicks
  <1> DEFINE pe == pending[v]
             read == IF NextMode(v) THEN <<>> ELSE served
             written == IF NextMode(v) THEN served ELSE <<>>
             rest == IF leaving = <<>> THEN pe ELSE Tail(pe)
  <1>2. /\ leaving \in Seq(Packets) /\ served \in Seq(Packets)
        /\ Range(served) \subseteq IF NextMode(v) THEN writeq[v] ELSE readq[v]
        /\ leaving # <<>> => pe # <<>> /\ leaving = <<Head(pe)>>
    BY <1>1, TickType
  <1>3. pe \in Seq(Packets) /\ IsInjective(pe) /\ Range(<<>>) = {} /\ <<>> \in Seq(Packets)
    BY RangeShort DEF TypeOK, OnceInv, NoRepeats, Range
  <1>4. rest \in Seq(Packets) /\ Range(leaving) \cup Range(rest) = Range(pe)
        /\ \A x \in Range(leaving) : x \notin Range(rest)
    <2>1. CASE leaving = <<>>
      BY <1>3, <2>1
    <2>2. CASE leaving # <<>>
      <3>1. Head(pe) \in Packets /\ Range(leaving) = {Head(pe)} /\ pe # <<>>
        BY <1>2, <1>3, <2>2, RangeTail, RangeShort
      <3> QED
        BY <1>3, <2>2, <3>1, RangeTail, TailOnce
    <2> QED
      BY <2>1, <2>2
  <1>5. /\ read \in Seq(Packets) /\ written \in Seq(Packets)
        /\ Range(read) \subseteq readq[v] /\ Range(written) \subseteq writeq[v]
    BY <1>2, <1>3
  <1>6. /\ pending' = [pending EXCEPT ![v] = rest \o read]
        /\ readq' = [readq EXCEPT ![v] = @ \ Range(read)]
        /\ writeq' = [writeq EXCEPT ![v] = @ \ Range(written)]
        /\ incoming_packets_buffer' = [incoming_packets_buffer EXCEPT
             ![v] = {q \in @ : \A p \in Range(leaving \o written) : q.reqid # p.reqid}]
    BY <1>1 DEF VaultTick, TypeOK
  <1> HIDE DEF pe, read, written, rest
  <1>7. /\ Range(rest \o read) = Range(rest) \cup Range(read)
        /\ Range(leaving \o written) = Range(leaving) \cup Range(written)
    BY <1>2, <1>4, <1>5, RangeJoin
  <1>8. \A u \in VaultIds :
          /\ Waiting(u)' = IF u = v THEN (readq[v] \ Range(read)) \cup (writeq[v] \ Range(written))
                                         \cup Range(rest) \cup Range(read)
                           ELSE Waiting(u)
          /\ incoming_packets_buffer'[u] =
               IF u = v THEN {q \in incoming_packets_buffer[v] :
                                \A p \in Range(leaving \o written) : q.reqid # p.reqid}
               ELSE incoming_packets_buffer[u]
    BY <1>6, <1>7 DEF Waiting, TypeOK
  <1>9. Waiting(v)' \subseteq Waiting(v)
    BY <1>4, <1>5, <1>8 DEF Waiting, pe
  <1>10. ASSUME NEW w \in Waiting(v)', NEW x \in Range(leaving) \cup Range(written)
         PROVE  w.reqid # x.reqid
    <2> SUFFICES ASSUME w.reqid = x.reqid PROVE FALSE
      OBVIOUS
    <2>1. x \in Waiting(v)
      BY <1>4, <1>5 DEF Waiting, pe
    <2>2. w = x
      <3>1. PICK k \in Slots : w \in Placement[k]
        BY <1>9, WaitingSlots
      <3>2. PICK m \in Slots : x \in Placement[m]
        BY <2>1, WaitingSlots
      <3> QED
        BY <3>1, <3>2, OneNumber
    <2>3. \A y : /\ y \in readq[v] => y \notin writeq[v] /\ y \notin Range(pe)
                 /\ y \in writeq[v] => y \notin Range(pe)
      <3> TAKE y
      <3>1. /\ <<"read", v>> \in Slots /\ <<"write", v>> \in Slots /\ <<"pend", v>> \in Slots
            /\ Placement[<<"read", v>>] = readq[v] /\ Placement[<<"write", v>>] = writeq[v]
            /\ Placement[<<"pend", v>>] = Range(pe)
        BY PlacementAt DEF pe
      <3>2. /\ <<"read", v>> # <<"write", v>> /\ <<"read", v>> # <<"pend", v>>
            /\ <<"write", v>> # <<"pend", v>>
        OBVIOUS
      <3> QED
        BY <3>1, <3>2, NotElsewhere
    <2> QED
      BY <1>4, <1>5, <1>8, <2>2, <2>3
  <1>11. ASSUME NEW u \in VaultIds, NEW w \in Waiting(u)'
         PROVE  {q \in incoming_packets_buffer'[u] : q.reqid = w.reqid} = {w}
    <2>1. CASE u # v
      BY <1>8, <2>1 DEF ResponseMatched
    <2>2. CASE u = v
      <3>1. {q \in incoming_packets_buffer[v] : q.reqid = w.reqid} = {w}
        BY <1>9, <2>2 DEF ResponseMatched
      <3> QED
        BY <1>7, <1>8, <1>10, <2>2, <3>1
    <2> QED
      BY <2>1, <2>2
  <1> QED
    BY <1>11 DEF ResponseMatched

LEMMA MatchedNext == TypeOK /\ OnceInv /\ ResponseMatched /\ [Next]_vars => ResponseMatched'
  <1> SUFFICES ASSUME TypeOK, OnceInv, ResponseMatched, [Next]_vars
               PROVE  ResponseMatched'
    OBVIOUS
  <1>1. ASSUME UNCHANGED <<incoming_packets_buffer, queueVars>> PROVE ResponseMatched'
    BY <1>1 DEF ResponseMatched, Waiting, queueVars
  <1>2. CASE \E r \in Requests : Send(r)
    BY <1>1, <1>2, SendNearMatches
    DEF Send, SendUntagged, SendRefused, SendFar, vaultVars
  <1>3. CASE \E l \in LinkIds : SwitchIn(l) \/ LinkSend(l)
    BY <1>1, <1>3, SwitchInMatches DEF LinkSend, vaultVars
  <1>4. CASE \E v \in VaultIds : SwitchOut(v) \/ VaultTicks(v)
    BY <1>1, <1>4, VaultTickMatches DEF SwitchOut
  <1>5. CASE RestoreTags
    BY <1>1, <1>5 DEF RestoreTags, vaultVars
  <1>6. CASE UNCHANGED vars
    BY <1>1, <1>6 DEF vars, vaultVars
  <1> QED
    BY <1>2, <1>3, <1>4, <1>5, <1>6 DEF Next

(* Whatever the traffic, and however often a refused packet is recorded    *)
(* again: the record under the number of a request in a queue of a vault   *)
(* is the packet of that request, the one its response is formed from.     *)
THEOREM HmcResponseMatched == Spec => []ResponseMatched
  <1>1. Init => TypeOK /\ OnceInv /\ ResponseMatched
    <2>1. Range(<<>>) = {}
      BY DEF Range
    <2> QED
      BY <2>1, InitTypeOK, OnceInit DEF Init, ResponseMatched, Waiting
  <1>2. TypeOK /\ OnceInv /\ ResponseMatched /\ [Next]_vars
          => (TypeOK /\ OnceInv /\ ResponseMatched)'
    BY NextTypeOK, OnceNext, MatchedNext
  <1> QED
    BY <1>1, <1>2, PTL DEF Spec

----------------------------------------------------------------------------
(* The pools of tags *)

RealTags(s) == Range(s) \ {NoTag}
Unrepeated(s) == \A i, j \in DOMAIN s : s[i] = s[j] /\ s[i] # NoTag => i = j

LEMMA TailUnrepeated ==
  ASSUME NEW s \in Seq(Tags \cup {NoTag}), s # <<>>, Unrepeated(s)
  PROVE  Unrepeated(Tail(s)) /\ Head(s) \notin RealTags(Tail(s))
  <1>1. /\ Len(s) \in Nat /\ Len(s) >= 1 /\ DOMAIN s = 1 .. Len(s)
        /\ Len(Tail(s)) = Len(s) - 1 /\ DOMAIN Tail(s) = 1 .. Len(Tail(s))
        /\ Head(s) = s[1] /\ \A i \in DOMAIN Tail(s) : Tail(s)[i] = s[i + 1]
    OBVIOUS
  <1>2. Unrepeated(Tail(s))
    <2> SUFFICES ASSUME NEW i \in DOMAIN Tail(s), NEW j \in DOMAIN Tail(s),
                        Tail(s)[i] = Tail(s)[j], Tail(s)[i] # NoTag
                 PROVE  i = j
      BY DEF Unrepeated
    <2>1. i + 1 \in DOMAIN s /\ j + 1 \in DOMAIN s /\ s[i + 1] = s[j + 1] /\ s[i + 1] # NoTag
      BY <1>1
    <2>2. i + 1 = j + 1
      BY <2>1 DEF Unrepeated
    <2> QED
      BY <1>1, <2>2
  <1>3. Head(s) \notin RealTags(Tail(s))
    <2> SUFFICES ASSUME NEW i \in DOMAIN Tail(s), Tail(s)[i] = Head(s), Head(s) # NoTag
                 PROVE  FALSE
      BY DEF RealTags, Range
    <2>1. i + 1 \in DOMAIN s /\ 1 \in DOMAIN s /\ s[i + 1] = s[1] /\ s[1] # NoTag
      BY <1>1
    <2>2. i + 1 = 1
      BY <2>1 DEF Unrepeated
    <2> QED
      BY <1>1, <2>2
  <1> QED
    BY <1>2, <1>3

LEMMA AppendUnrepeated ==
  ASSUME NEW s \in Seq(Tags \cup {NoTag}), NEW x \in Tags \cup {NoTag},
         Unrepeated(s), x \notin RealTags(s)
  PROVE  Unrepeated(Append(s, x))
  <1>1. /\ Len(s) \in Nat /\ DOMAIN s = 1 .. Len(s)
        /\ DOMAIN Append(s, x) = 1 .. Len(s) + 1
        /\ \A i \in DOMAIN s : Append(s, x)[i] = s[i]
        /\ Append(s, x)[Len(s) + 1] = x
    OBVIOUS
  <1>2. \A i \in DOMAIN s : s[i] = x => x = NoTag
    BY DEF RealTags, Range
  <1> QED
    BY <1>1, <1>2 DEF Unrepeated

(* Looking for a tag takes the first one away, if there is one. *)
LEMMA TakeTagPools ==
  ASSUME TypeOK, NEW l \in LinkIds, TakeTag(l)
  PROVE  /\ \A k \in LinkIds \ {l} : tags_pools'[k] = tags_pools[k]
         /\ Range(tags_pools'[l]) \subseteq Range(tags_pools[l])
         /\ RealTags(tags_pools[l]) \subseteq RealTags(tags_pools'[l]) \cup {FirstTag(l)}
         /\ FirstTag(l) # NoTag => FirstTag(l) \in Range(tags_pools[l])
         /\ Unrepeated(tags_pools[l]) => /\ Unrepeated(tags_pools'[l])
                                         /\ FirstTag(l) \notin RealTags(tags_pools'[l])
  <1> DEFINE s == tags_pools[l]
  <1>1. s \in Seq(Tags \cup {NoTag})
    BY DEF TypeOK
  <1>2. /\ tags_pools'[l] = IF s = <<>> THEN s ELSE Tail(s)
        /\ \A k \in LinkIds \ {l} : tags_pools'[k] = tags_pools[k]
    BY DEF TakeTag, TypeOK
  <1>3. CASE s = <<>>
    <2>1. Range(s) = {}
      BY <1>3 DEF Range
    <2> QED
      BY <1>2, <1>3, <2>1 DEF FirstTag, RealTags
  <1>4. CASE s # <<>>
    <2>1. Range(s) = {Head(s)} \cup Range(Tail(s))
      BY <1>1, <1>4, RangeTail
    <2>2. Unrepeated(s) => Unrepeated(Tail(s)) /\ Head(s) \notin RealTags(Tail(s))
      BY <1>1, <1>4, TailUnrepeated
    <2>3. FirstTag(l) = Head(s) /\ tags_pools'[l] = Tail(s)
      BY <1>2, <1>4 DEF FirstTag
    <2> QED
      BY <1>2, <2>1, <2>2, <2>3 DEF RealTags
  <1> QED
    BY <1>3, <1>4

LEMMA FullPoolFacts == /\ FullPool \in Seq(Tags \cup {NoTag})
                       /\ RealTags(FullPool) # {} /\ Unrepeated(FullPool)
  <1>1. /\ FullPool \in [1 .. MaxTags -> Tags] /\ 1 \in DOMAIN FullPool
        /\ MaxTags \in Nat /\ FullPool[1] = 0
    BY SizeAssumption DEF FullPool, Tags
  <1>2. 0 \in RealTags(FullPool)
    BY <1>1 DEF RealTags, Range, NoTag
  <1>3. Unrepeated(FullPool)
    BY SizeAssumption DEF FullPool, Unrepeated
  <1> QED
    BY <1>1, <1>2, <1>3

----------------------------------------------------------------------------
(* No link is starved before a near read has gone to a vault of its *)

(* A link stays supplied whose tags are still in the pool or on their way. *)
LEMMA StillSupplied ==
  ASSUME NEW l \in LinkIds, Supplied(l), TagsOut(l) \subseteq TagsOut(l)',
         \/ RealTags(tags_pools[l]) \subseteq RealTags(tags_pools'[l])
         \/ TagsOut(l)' # {}
  PROVE  Supplied(l)'
  BY DEF Supplied, RealTags

(* Near requests that have gone have gone for good. *)
LEMMA NearSentGrows ==
  ASSUME OnceInv, [Next]_vars
  PROVE  /\ batch' = batch /\ unsent' \subseteq unsent
         /\ NearSent \subseteq NearSent'
         /\ \A l : TagsComeBack(l)' => TagsComeBack(l)
         /\ \A v : HostsOwn(v)' => HostsOwn(v)
  <1>1. batch' = batch /\ unsent' \subseteq unsent
    BY DEF Next, Send, SendUntagged, SendRefused, SendFar, SendNear, Count, SwitchIn,
       SwitchOut, LinkSend, VaultTicks, VaultTick, RestoreTags, hostVars, historyVars, vars
  <1>2. NearSent \subseteq NearSent'
    BY <1>1 DEF NearSent
  <1> QED
    BY <1>1, <1>2 DEF TagsComeBack, HostsOwn

(* What is in flight has been sent. *)
LEMMA InFlightSent ==
  ASSUME TypeOK, OnceInv
  PROVE  \A p \in InFlight : p.req \in batch \ unsent
  <1> SUFFICES ASSUME NEW p \in InFlight PROVE p.req \in batch \ unsent
    OBVIOUS
  <1>1. PICK k \in Slots : p \in Placement[k]
    BY InFlightMember, InSlots
  <1> QED
    BY <1>1 DEF OnceInv, OnePlace

(* Room is never refused by an empty buffer: a refused send, which loses   *)
(* its tag, finds a packet of its link before it, which has one.           *)
LEMMA RefusedBehindAnother ==
  ASSUME TypeOK, RouteInv, NEW r \in Requests, SendRefused(r)
  PROVE  TagsOut(LinkOf(r)) # {}
  <1> DEFINE l == LinkOf(r)
             b == input_buffer[l]
  <1>1. l \in LinkIds /\ RequestFlits(r) \in Nat /\ RequestFlits(r) <= BufferMax
    BY RequestFacts
  <1>2. b \in Seq(Packets) /\ RequestFlits(r) > BufferMax - Len(b)
    BY <1>1 DEF TypeOK, SendRefused, Space
  <1>3. b # <<>>
    BY <1>1, <1>2, SizeAssumption
  <1>4. Head(b) \in Range(b)
    BY <1>2, <1>3, RangeTail
  <1>5. Head(b) \in OnLink(l) /\ Head(b).tag # NoTag
    BY <1>1, <1>4 DEF OnLink, RouteInv
  <1>6. Head(b) \in InFlight /\ LinkOf(Head(b).req) = l
    BY <1>1, <1>5, InFlightMember DEF RouteInv
  <1> QED
    BY <1>5, <1>6 DEF TagsOut

LEMMA SendSupplied ==
  ASSUME TypeOK, RouteInv, NEW r \in Requests, Send(r), NEW k \in LinkIds, Supplied(k)
  PROVE  Supplied(k)'
  <1> DEFINE l == LinkOf(r)
             p == NewPacket(r)
  <1>1. l \in LinkIds /\ p.req = r /\ p.tag = FirstTag(l)
    BY RequestFacts DEF NewPacket
  <1>2. TakeTag(l)
    BY DEF Send, SendUntagged, SendRefused, SendFar, SendNear
  <1>3. /\ k # l => tags_pools'[k] = tags_pools[k]
        /\ RealTags(tags_pools[l]) \subseteq RealTags(tags_pools'[l]) \cup {FirstTag(l)}
    BY <1>1, <1>2, TakeTagPools
  <1>4. CASE SendUntagged(r) \/ SendRefused(r)
    <2>1. InFlight' = InFlight
      BY <1>4, StillRoute DEF SendUntagged, SendRefused, linkVars, vaultVars
    <2>2. TagsOut(k)' = TagsOut(k)
      BY <2>1 DEF TagsOut
    <2>3. CASE k # l
      BY <1>3, <2>2, <2>3, StillSupplied
    <2>4. CASE k = l /\ SendUntagged(r)
      <3>1. RealTags(tags_pools[l]) \subseteq RealTags(tags_pools'[l])
        BY <1>3, <2>4 DEF SendUntagged, RealTags
      <3> QED
        BY <2>2, <2>4, <3>1, StillSupplied
    <2>5. CASE k = l /\ SendRefused(r)
      BY <2>2, <2>5, RefusedBehindAnother, StillSupplied
    <2> QED
      BY <1>4, <2>3, <2>4, <2>5
  <1>5. CASE SendFar(r) \/ SendNear(r)
    <2>1. InFlight' = InFlight \cup {p}
      BY <1>5, SendFarRoute, SendNearRoute
    <2> HIDE DEF p, l
    <2>2. TagsOut(k) \subseteq TagsOut(k)'
      BY <2>1 DEF TagsOut
    <2>3. CASE k # l
      BY <1>3, <2>2, <2>3, StillSupplied
    <2>4. CASE k = l /\ FirstTag(l) # NoTag
      <3>1. p \in TagsOut(k)'
        BY <1>1, <2>1, <2>4 DEF TagsOut, l
      <3> QED
        BY <2>2, <3>1, StillSupplied
    <2>5. CASE k = l /\ FirstTag(l) = NoTag
      <3>1. RealTags(tags_pools[l]) \subseteq RealTags(tags_pools'[l])
        BY <1>3, <2>5 DEF RealTags
      <3> QED
        BY <2>2, <2>5, <3>1, StillSupplied
    <2> QED
      BY <2>3, <2>4, <2>5
  <1> QED
    BY <1>4, <1>5 DEF Send

(* The tag of a packet that leaves the cube goes back to its pool. *)
LEMMA LinkSendSupplied ==
  ASSUME TypeOK, RouteInv, NEW l \in LinkIds, LinkSend(l), NEW k \in LinkIds, Supplied(k)
  PROVE  Supplied(k)'
  <1> DEFINE p == Head(output_buffer[l])
  <1>1. InFlight \subseteq InFlight' \cup {p} /\ LinkOf(p.req) = l
    BY LinkSendRoute
  <1>2. tags_pools' = [tags_pools EXCEPT ![l] = Append(tags_pools[l], p.tag)]
    BY DEF LinkSend, ReturnTag, TypeOK
  <1>3. p \in Packets
    BY RangeTail DEF TypeOK, LinkSend
  <1>4. p.tag \in Tags \cup {NoTag} /\ tags_pools[l] \in Seq(Tags \cup {NoTag})
    BY <1>3 DEF TypeOK, Packets
  <1>5. Range(Append(tags_pools[l], p.tag)) = Range(tags_pools[l]) \cup {p.tag}
    BY <1>4, RangeAppend
  <1> HIDE DEF p
  <1>6. /\ RealTags(tags_pools[k]) \subseteq RealTags(tags_pools'[k])
        /\ k = l => p.tag \in Range(tags_pools'[k])
    BY <1>2, <1>5 DEF TypeOK, RealTags
  <1>7. CASE k = l /\ p.tag # NoTag
    BY <1>6, <1>7 DEF Supplied
  <1>8. CASE k # l \/ p.tag = NoTag
    <2>1. TagsOut(k) \subseteq TagsOut(k)'
      BY <1>1, <1>8 DEF TagsOut
    <2> QED
      BY <1>6, <2>1, StillSupplied
  <1> QED
    BY <1>7, <1>8

LEMMA SuppliedNext ==
  TypeOK /\ OnceInv /\ RouteInv /\ SuppliedBeforeNearReads /\ [Next]_vars
    => SuppliedBeforeNearReads'
  <1> SUFFICES ASSUME TypeOK, OnceInv, RouteInv, SuppliedBeforeNearReads, [Next]_vars,
                      NEW k \in LinkIds, TagsComeBack(k)'
               PROVE  Supplied(k)'
    BY DEF SuppliedBeforeNearReads
  <1>1. TagsComeBack(k) /\ Supplied(k)
    BY NearSentGrows DEF SuppliedBeforeNearReads
  <1>2. CASE \E r \in Requests : Send(r)
    BY <1>1, <1>2, SendSupplied
  <1>3. ASSUME NEW l \in LinkIds, LinkSend(l) PROVE Supplied(k)'
    BY <1>1, <1>3, LinkSendSupplied
  <1>4. ASSUME NEW v \in VaultIds, VaultTicks(v) PROVE Supplied(k)'
    <2>1. \A p \in InFlight \ InFlight' : Near(p.req) /\ Type(p.req) = "READ"
      BY <1>4, VaultTickRoute
    <2>2. TagsOut(k) \subseteq TagsOut(k)'
      BY <1>1, <2>1, InFlightSent DEF TagsOut, TagsComeBack, NearSent
    <2>3. tags_pools' = tags_pools
      BY <1>4 DEF VaultTicks, VaultTick, hostVars
    <2> QED
      BY <1>1, <2>2, <2>3, StillSupplied
  <1>5. CASE InFlight' = InFlight /\ UNCHANGED tags_pools
    BY <1>1, <1>5, StillSupplied DEF TagsOut
  <1>6. ASSUME NEW l \in LinkIds, SwitchIn(l) PROVE Supplied(k)'
    BY <1>5, <1>6, SwitchInRoute DEF SwitchIn, hostVars
  <1>7. ASSUME NEW v \in VaultIds, SwitchOut(v) PROVE Supplied(k)'
    BY <1>5, <1>7, SwitchOutRoute DEF SwitchOut, hostVars
  <1>8. CASE RestoreTags
    BY <1>8, FullPoolFacts DEF RestoreTags, Supplied, RealTags
  <1>9. CASE UNCHANGED vars
    BY <1>5, <1>9, StillRoute DEF vars, hostVars, linkVars, vaultVars
  <1> QED
    BY <1>2, <1>3, <1>4, <1>6, <1>7, <1>8, <1>9 DEF Next

(* Whatever the traffic of both sides, and however many sends are refused, *)
(* each losing a tag: a link has a free tag, or one on its way back, until *)
(* the first near read has gone to a vault of its.                         *)
THEOREM HmcSuppliedBeforeNearReads == Spec => []SuppliedBeforeNearReads
  <1>1. Init => TypeOK /\ OnceInv /\ RouteInv /\ SuppliedBeforeNearReads
    <2>1. Init => SuppliedBeforeNearReads
      BY FullPoolFacts DEF Init, SuppliedBeforeNearReads, Supplied, RealTags
    <2> QED
      BY <2>1, InitTypeOK, OnceInit, NothingInFlight
  <1>2. TypeOK /\ OnceInv /\ RouteInv /\ SuppliedBeforeNearReads /\ [Next]_vars
          => (TypeOK /\ OnceInv /\ RouteInv /\ SuppliedBeforeNearReads)'
    BY NextTypeOK, OnceNext, RouteNext, SuppliedNext
  <1> QED
    BY <1>1, <1>2, PTL DEF Spec

(* While all traffic is the host's, then, no link is left without a tag.   *)
(* With near reads one is: the run hmc_drained shows how.                  *)
HostOnly == \A r \in Requests : ~Near(r)

THEOREM HostLinksNotStarved ==
  ASSUME HostOnly
  PROVE  Spec => []HostNotStarved
  <1>1. TypeOK /\ SuppliedBeforeNearReads => HostNotStarved
    <2>1. TypeOK => \A r \in batch : ~Near(r)
      BY TrafficAssumption DEF TypeOK, HostOnly
    <2> QED
      BY <2>1 DEF SuppliedBeforeNearReads, TagsComeBack, NearSent, HostNotStarved
  <1> QED
    BY <1>1, HmcTypeOK, HmcSuppliedBeforeNearReads, PTL

----------------------------------------------------------------------------
(* A tag names one packet of its link *)

(* A step after which the tags under way and in the pools are some of      *)
(* those before *)
LEMMA FewerTags ==
  ASSUME TypeOK, TagsDistinct, UNCHANGED restores, InFlight' \subseteq InFlight,
         \A k \in LinkIds : /\ Range(tags_pools'[k]) \subseteq Range(tags_pools[k])
                            /\ Unrepeated(tags_pools[k]) => Unrepeated(tags_pools'[k])
  PROVE  TagsDistinct'
  <1> SUFFICES ASSUME restores = 0, NEW k \in LinkIds PROVE TagsOnce(k)'
    BY DEF TagsDistinct
  <1>1. TagsOut(k)' \subseteq TagsOut(k)
    BY DEF TagsOut
  <1>2. TagsOnce(k)
    BY DEF TagsDistinct
  <1>3. Unrepeated(tags_pools'[k]) /\ Range(tags_pools'[k]) \subseteq Range(tags_pools[k])
    BY <1>2 DEF TagsOnce, Unrepeated
  <1> QED
    BY <1>1, <1>2, <1>3 DEF TagsOnce, Unrepeated

(* A packet takes the first free tag of its link with it, if there is one. *)
LEMMA SendTags ==
  ASSUME TypeOK, RouteInv, TagsDistinct, NEW r \in Requests, Send(r)
  PROVE  TagsDistinct'
  <1> DEFINE l == LinkOf(r)
             p == NewPacket(r)
  <1>1. l \in LinkIds /\ p.req = r /\ p.tag = FirstTag(l)
    BY RequestFacts DEF NewPacket
  <1>2. TakeTag(l) /\ UNCHANGED restores
    BY DEF Send, SendUntagged, SendRefused, SendFar, SendNear, historyVars
  <1>3. /\ \A k \in LinkIds \ {l} : tags_pools'[k] = tags_pools[k]
        /\ Range(tags_pools'[l]) \subseteq Range(tags_pools[l])
        /\ p.tag # NoTag => p.tag \in Range(tags_pools[l])
        /\ Unrepeated(tags_pools[l]) => /\ Unrepeated(tags_pools'[l])
                                        /\ p.tag \notin RealTags(tags_pools'[l])
    BY <1>1, <1>2, TakeTagPools
  <1>4. CASE SendUntagged(r) \/ SendRefused(r)
    <2>1. InFlight' = InFlight
      BY <1>4, StillRoute DEF SendUntagged, SendRefused, linkVars, vaultVars
    <2> QED
      BY <1>2, <1>3, <2>1, FewerTags
  <1>5. CASE SendFar(r) \/ SendNear(r)
    <2>1. InFlight' = InFlight \cup {p}
      BY <1>5, SendFarRoute, SendNearRoute
    <2>2. LinkOf(p.req) = l
      BY <1>1
    <2> SUFFICES ASSUME restores = 0, NEW k \in LinkIds PROVE TagsOnce(k)'
      BY <1>2 DEF TagsDistinct
    <2> HIDE DEF p, l
    <2>3. TagsOnce(k)
      BY DEF TagsDistinct
    <2>4. TagsOut(k)' \subseteq TagsOut(k) \cup (IF k = l /\ p.tag # NoTag THEN {p} ELSE {})
      BY <2>1, <2>2 DEF TagsOut
    <2>5. Unrepeated(tags_pools'[k]) /\ Range(tags_pools'[k]) \subseteq Range(tags_pools[k])
      BY <1>3, <2>3 DEF TagsOnce, Unrepeated
    <2>6. \A x \in TagsOut(k) : x.tag \notin Range(tags_pools[k])
      BY <2>3 DEF TagsOnce
    <2>7. k = l /\ p.tag # NoTag => /\ p.tag \in Range(tags_pools[k])
                                    /\ p.tag \notin Range(tags_pools'[k])
      BY <1>3, <2>3 DEF TagsOnce, Unrepeated, RealTags
    <2>8. \A x, y \in TagsOut(k)' : x.tag = y.tag => x = y
      BY <2>3, <2>4, <2>6, <2>7 DEF TagsOnce
    <2>9. \A x \in TagsOut(k)' : x.tag \notin Range(tags_pools'[k])
      BY <2>4, <2>5, <2>6, <2>7
    <2> QED
      BY <2>5, <2>8, <2>9 DEF TagsOnce, Unrepeated
  <1> QED
    BY <1>4, <1>5 DEF Send

(* A packet that leaves the cube is nowhere else, so its tag is free.      *)
LEMMA LinkSendLeaves ==
  ASSUME TypeOK, OnceInv, NEW l \in LinkIds, LinkSend(l)
  PROVE  Head(output_buffer[l]) \notin InFlight'
  <1> DEFINE p == Head(output_buffer[l])
  <1>1. /\ output_buffer[l] \in Seq(Packets) /\ output_buffer[l] # <<>>
        /\ IsInjective(output_buffer[l])
    BY DEF TypeOK, LinkSend, OnceInv, NoRepeats
  <1>2. /\ p \in Packets /\ p \in Range(output_buffer[l])
        /\ Range(Tail(output_buffer[l])) = Range(output_buffer[l]) \ {p}
    BY <1>1, RangeTail, TailOnce
  <1>3. <<"out", l>> \in Slots /\ p \in Placement[<<"out", l>>]
    BY <1>2, PlacementAt
  <1>4. \A k \in Slots \ {<<"out", l>>} : p \notin Placement[k]
    BY <1>3, NotElsewhere
  <1>5. /\ output_buffer' = [output_buffer EXCEPT ![l] = Tail(@)]
        /\ UNCHANGED <<input_buffer, readq, writeq, pending, response_packets_buffer>>
    BY DEF LinkSend, vaultVars, queueVars
  <1> HIDE DEF p
  <1>6. ASSUME NEW v \in VaultIds PROVE p \notin InVault(v)'
    <2>1. InVault(v)' = InVault(v)
      BY <1>5 DEF InVault, Waiting
    <2>2. \A k \in {<<"read", v>>, <<"write", v>>, <<"pend", v>>, <<"resp", v>>} : k # <<"out", l>>
      OBVIOUS
    <2> QED
      BY <1>4, <2>1, <2>2, InSlots
  <1>7. ASSUME NEW k \in LinkIds PROVE p \notin OnLink(k)'
    <2>1. p \notin Range(input_buffer[k])
      <3>1. <<"in", k>> \in Slots \ {<<"out", l>>}
        BY PlacementAt
      <3> QED
        BY <1>4, <3>1, InSlots
    <2>2. k # l => p \notin Range(output_buffer[k])
      <3>1. k # l => <<"out", k>> \in Slots \ {<<"out", l>>}
        BY PlacementAt
      <3> QED
        BY <1>4, <3>1, InSlots
    <2>3. output_buffer'[k] = IF k = l THEN Tail(output_buffer[l]) ELSE output_buffer[k]
      BY <1>5 DEF TypeOK
    <2> QED
      BY <1>2, <1>5, <2>1, <2>2, <2>3 DEF OnLink
  <1> QED
    BY <1>6, <1>7, InFlightMemberNext DEF p

LEMMA LinkSendTags ==
  ASSUME TypeOK, OnceInv, RouteInv, TagsDistinct, NEW l \in LinkIds, LinkSend(l)
  PROVE  TagsDistinct'
  <1> DEFINE p == Head(output_buffer[l])
             s == tags_pools[l]
  <1>1. InFlight' \subseteq InFlight \ {p} /\ p \in InFlight /\ LinkOf(p.req) = l
    BY LinkSendRoute, LinkSendLeaves
  <1>2. p \in Packets
    BY <1>1, PacketsInFlight
  <1>3. p.tag \in Tags \cup {NoTag} /\ s \in Seq(Tags \cup {NoTag})
    BY <1>2 DEF TypeOK, Packets
  <1>4. Range(Append(s, p.tag)) = Range(s) \cup {p.tag}
    BY <1>3, RangeAppend
  <1>5. /\ \A k \in LinkIds : tags_pools'[k] = IF k = l THEN Append(s, p.tag) ELSE tags_pools[k]
        /\ UNCHANGED restores
    BY DEF LinkSend, ReturnTag, TypeOK
  <1> HIDE DEF p
  <1> SUFFICES ASSUME restores = 0, NEW k \in LinkIds PROVE TagsOnce(k)'
    BY <1>5 DEF TagsDistinct
  <1>6. TagsOnce(k) /\ TagsOnce(l)
    BY DEF TagsDistinct
  <1>8. p.tag # NoTag => p \in TagsOut(l) /\ p.tag \notin Range(s)
    BY <1>1, <1>6 DEF TagsOut, TagsOnce
  <1>9. TagsOut(k)' \subseteq TagsOut(k) \ {p}
    BY <1>1 DEF TagsOut
  <1>10. Unrepeated(Append(s, p.tag))
    <2>1. Unrepeated(s) /\ p.tag \notin RealTags(s)
      BY <1>6, <1>8 DEF TagsOnce, Unrepeated, RealTags
    <2> QED
      BY <1>3, <2>1, AppendUnrepeated
  <1> HIDE DEF s
  <1>11. Unrepeated(tags_pools'[k])
    BY <1>5, <1>6, <1>10 DEF TagsOnce, Unrepeated
  <1>12. \A x, y \in TagsOut(k)' : x.tag = y.tag => x = y
    BY <1>6, <1>9 DEF TagsOnce
  <1>13. \A x \in TagsOut(k)' : x.tag \notin Range(tags_pools'[k])
    <2>1. \A x \in TagsOut(k) : x.tag \notin Range(tags_pools[k]) /\ x.tag # NoTag
      BY <1>6 DEF TagsOnce, TagsOut
    <2>2. CASE k = l
      <3>1. \A x \in TagsOut(l) \ {p} : x.tag # p.tag
        BY <1>6, <1>8, <2>1, <2>2 DEF TagsOnce
      <3> QED
        BY <1>4, <1>5, <1>9, <2>1, <2>2, <3>1 DEF s
    <2>3. CASE k # l
      BY <1>5, <1>9, <2>1, <2>3
    <2> QED
      BY <2>2, <2>3
  <1> QED
    BY <1>11, <1>12, <1>13 DEF TagsOnce, Unrepeated

LEMMA TagsNext ==
  TypeOK /\ OnceInv /\ RouteInv /\ TagsDistinct /\ [Next]_vars => TagsDistinct'
  <1> SUFFICES ASSUME TypeOK, OnceInv, RouteInv, TagsDistinct, [Next]_vars
               PROVE  TagsDistinct'
    OBVIOUS
  <1>1. CASE \E r \in Requests : Send(r)
    BY <1>1, SendTags
  <1>2. ASSUME NEW l \in LinkIds, LinkSend(l) PROVE TagsDistinct'
    BY <1>2, LinkSendTags
  <1>3. CASE InFlight' \subseteq InFlight /\ UNCHANGED <<tags_pools, restores>>
    BY <1>3, FewerTags
  <1>4. ASSUME NEW l \in LinkIds, SwitchIn(l) PROVE TagsDistinct'
    BY <1>3, <1>4, SwitchInRoute DEF SwitchIn, hostVars, historyVars
  <1>5. ASSUME NEW v \in VaultIds, SwitchOut(v) \/ VaultTicks(v) PROVE TagsDistinct'
    <2>1. InFlight' \subseteq InFlight
      BY <1>5, SwitchOutRoute, VaultTickRoute
    <2>2. UNCHANGED <<tags_pools, restores>>
      BY <1>5 DEF SwitchOut, VaultTicks, VaultTick, hostVars, historyVars
    <2> QED
      BY <1>3, <2>1, <2>2
  <1>6. CASE RestoreTags
    <2>1. restores \in Nat /\ restores' = restores + 1
      BY <1>6, SizeAssumption DEF TypeOK, RestoreTags
    <2> QED
      BY <2>1 DEF TagsDistinct
  <1>7. CASE UNCHANGED vars
    BY <1>3, <1>7, StillRoute DEF vars, hostVars, linkVars, vaultVars, historyVars
  <1> QED
    BY <1>1, <1>2, <1>4, <1>5, <1>6, <1>7 DEF Next

(* Whatever the traffic of both sides, and though near requests may leave  *)
(* without a tag and near reads keep theirs: until the pools are refilled, *)
(* no tag is on two packets of a link, or free and on one, so that an      *)
(* answer is never taken for another's.                                    *)
THEOREM HmcTagsDistinct == Spec => []TagsDistinct
  <1>1. Init => TypeOK /\ OnceInv /\ RouteInv /\ TagsDistinct
    <2>1. Init => TagsDistinct
      BY NothingInFlight, FullPoolFacts DEF Init, TagsDistinct, TagsOnce, TagsOut, Unrepeated
    <2> QED
      BY <2>1, InitTypeOK, OnceInit, NothingInFlight
  <1>2. TypeOK /\ OnceInv /\ RouteInv /\ TagsDistinct /\ [Next]_vars
          => (TypeOK /\ OnceInv /\ RouteInv /\ TagsDistinct)'
    BY NextTypeOK, OnceNext, RouteNext, TagsNext
  <1> QED
    BY <1>1, <1>2, PTL DEF Spec

----------------------------------------------------------------------------
(* Buffers whose packets are numbered in the order they were sent *)

Increasing(s) == \A i, j \in DOMAIN s : i < j => s[i].reqid < s[j].reqid

LEMMA TailIncreasing ==
  ASSUME NEW S, NEW s \in Seq(S), s # <<>>, Increasing(s)
  PROVE  Increasing(Tail(s)) /\ \A q \in Range(Tail(s)) : Head(s).reqid < q.reqid
  <1>1. /\ Head(s) = s[1] /\ Tail(s) \in Seq(S)
        /\ DOMAIN s = 1 .. Len(s) /\ Len(s) \in Nat \ {0}
        /\ DOMAIN Tail(s) = 1 .. Len(s) - 1
        /\ \A i \in 1 .. Len(s) - 1 : Tail(s)[i] = s[i + 1]
    OBVIOUS
  <1>2. \A i \in 1 .. Len(s) - 1 : i + 1 \in DOMAIN s /\ 1 \in DOMAIN s /\ 1 < i + 1
    BY <1>1
  <1>3. Increasing(Tail(s))
    <2> SUFFICES ASSUME NEW i \in 1 .. Len(s) - 1, NEW j \in 1 .. Len(s) - 1, i < j
                 PROVE  s[i + 1].reqid < s[j + 1].reqid
      BY <1>1 DEF Increasing
    <2> QED
      BY <1>1, <1>2 DEF Increasing
  <1>4. ASSUME NEW i \in 1 .. Len(s) - 1 PROVE s[1].reqid < s[i + 1].reqid
    BY <1>1, <1>2 DEF Increasing
  <1> QED
    BY <1>1, <1>3, <1>4 DEF Range

LEMMA AppendIncreasing ==
  ASSUME NEW S, NEW s \in Seq(S), NEW x \in S, Increasing(s),
         \A q \in Range(s) : q.reqid < x.reqid
  PROVE  Increasing(Append(s, x))
  <1>1. /\ DOMAIN Append(s, x) = 1 .. Len(s) + 1
        /\ \A i \in 1 .. Len(s) : Append(s, x)[i] = s[i]
        /\ Append(s, x)[Len(s) + 1] = x
        /\ DOMAIN s = 1 .. Len(s) /\ Len(s) \in Nat
    OBVIOUS
  <1>2. \A i \in 1 .. Len(s) : s[i].reqid < x.reqid
    BY <1>1 DEF Range
  <1> SUFFICES ASSUME NEW i \in 1 .. Len(s) + 1, NEW j \in 1 .. Len(s) + 1, i < j
               PROVE  Append(s, x)[i].reqid < Append(s, x)[j].reqid
    BY <1>1 DEF Increasing
  <1>3. i \in 1 .. Len(s)
    BY <1>1
  <1>4. CASE j = Len(s) + 1
    BY <1>1, <1>2, <1>3, <1>4
  <1>5. CASE j \in 1 .. Len(s)
    BY <1>1, <1>3, <1>5 DEF Increasing
  <1> QED
    BY <1>1, <1>4, <1>5

----------------------------------------------------------------------------
(* No read overtakes a write it must see *)

(* What makes ReadsSeeWrites inductive: a link carries its own host        *)
(* packets in the order they were sent, and a host read already queued was *)
(* sent before all that its link still carries.                            *)
OrderInv ==
  /\ \A l \in LinkIds : \A q \in Range(input_buffer[l]) : LinkOf(q.req) = l /\ ~Near(q.req)
  /\ \A l \in LinkIds : Increasing(input_buffer[l])
  /\ \A v \in VaultIds : \A p \in readq[v] : ~Near(p.req) =>
       \A q \in Range(input_buffer[LinkOf(p.req)]) : p.reqid < q.reqid
  /\ ReadsSeeWrites

(* Numbers given so far are below the next. *)
LEMMA NumbersBelow ==
  ASSUME TypeOK, OnceInv
  PROVE  /\ \A l \in LinkIds : \A q \in Range(input_buffer[l]) : q.reqid < mem_req_count
         /\ \A v \in VaultIds : \A q \in readq[v] : q.reqid < mem_req_count
  <1>1. \A k \in Slots : \A q \in Placement[k] : q.reqid < mem_req_count
    BY OncePlaced DEF OnePlace
  <1>2. ASSUME NEW l \in LinkIds, NEW q \in Range(input_buffer[l]) PROVE q.reqid < mem_req_count
    BY <1>1, PlacementAt
  <1>3. ASSUME NEW v \in VaultIds, NEW q \in readq[v] PROVE q.reqid < mem_req_count
    BY <1>1, PlacementAt
  <1> QED
    BY <1>2, <1>3

(* A read is queued only when no queued write has its address; a write is  *)
(* queued behind the reads of its side.                                    *)
LEMMA EnqueueOrder ==
  ASSUME TypeOK, ReadsSeeWrites, NEW v \in VaultIds, NEW p \in Packets, Enqueue(v, p),
         \A q \in readq[v] : SameAddress(q, p) /\ Near(q.req) = Near(p.req) => q.reqid < p.reqid
  PROVE  /\ ReadsSeeWrites'
         /\ \A u \in VaultIds : readq'[u] \subseteq readq[u] \cup (IF u = v THEN {p} ELSE {})
  <1>1. CASE Type(p.req) = "READ"
    <2>1. /\ writeq' = writeq
          /\ readq' = [readq EXCEPT ![v] = IF InReadq(v, p) THEN readq[v] \cup {p} ELSE readq[v]]
      BY <1>1 DEF Enqueue, TypeOK
    <2>2. \A u \in VaultIds : readq'[u] =
            IF u = v /\ InReadq(v, p) THEN readq[u] \cup {p} ELSE readq[u]
      BY <2>1 DEF TypeOK
    <2>3. InReadq(v, p) => \A w \in writeq[v] : ~SameAddress(p, w)
      BY DEF InReadq, Forwarded, SameAddress
    <2>4. ReadsSeeWrites'
      <3> SUFFICES ASSUME NEW u \in VaultIds, NEW q \in readq'[u], NEW w \in writeq'[u],
                          SameAddress(q, w), Near(q.req) = Near(w.req)
                   PROVE  q.reqid < w.reqid
        BY DEF ReadsSeeWrites, SameAddress
      <3>1. CASE q \in readq[u]
        BY <2>1, <3>1 DEF ReadsSeeWrites
      <3>2. CASE q \notin readq[u]
        BY <2>1, <2>2, <2>3, <3>2
      <3> QED
        BY <3>1, <3>2
    <2> QED
      BY <2>2, <2>4
  <1>2. CASE Type(p.req) # "READ"
    <2>1. readq' = readq /\ writeq' = [writeq EXCEPT ![v] = writeq[v] \cup {p}]
      BY <1>2 DEF Enqueue, TypeOK
    <2>2. \A u \in VaultIds : writeq'[u] = IF u = v THEN writeq[u] \cup {p} ELSE writeq[u]
      BY <2>1 DEF TypeOK
    <2>3. ReadsSeeWrites'
      <3> SUFFICES ASSUME NEW u \in VaultIds, NEW q \in readq'[u], NEW w \in writeq'[u],
                          SameAddress(q, w), Near(q.req) = Near(w.req)
                   PROVE  q.reqid < w.reqid
        BY DEF ReadsSeeWrites, SameAddress
      <3>1. CASE w \in writeq[u]
        BY <2>1, <3>1 DEF ReadsSeeWrites
      <3>2. CASE w \notin writeq[u]
        <4>1. u = v /\ w = p
          BY <2>2, <3>2
        <4> QED
          BY <2>1, <4>1
      <3> QED
        BY <3>1, <3>2
    <2> QED
      BY <2>1, <2>3
  <1> QED
    BY <1>1, <1>2

LEMMA SendFarOrder ==
  ASSUME TypeOK, OnceInv, OrderInv, NEW r \in Requests, SendFar(r)
  PROVE  OrderInv'
  <1> DEFINE l == LinkOf(r)
             p == NewPacket(r)
  <1>1. l \in LinkIds /\ p \in Packets /\ p.req = r /\ p.reqid = mem_req_count /\ ~Near(r)
    BY RequestFacts, NewPacketType DEF NewPacket, SendFar
  <1>2. /\ input_buffer' = [input_buffer EXCEPT ![l] = Append(input_buffer[l], p)]
        /\ UNCHANGED <<readq, writeq>>
    BY <1>1 DEF SendFar, TypeOK, vaultVars, queueVars
  <1>3. input_buffer[l] \in Seq(Packets)
    BY <1>1 DEF TypeOK
  <1>7. LinkOf(p.req) = l /\ ~Near(p.req)
    BY <1>1
  <1> HIDE DEF l, p
  <1>4. /\ Range(Append(input_buffer[l], p)) = Range(input_buffer[l]) \cup {p}
        /\ Increasing(Append(input_buffer[l], p))
    BY <1>1, <1>3, RangeAppend, AppendIncreasing, NumbersBelow DEF OrderInv
  <1>5. \A k \in LinkIds : input_buffer'[k] =
          IF k = l THEN Append(input_buffer[l], p) ELSE input_buffer[k]
    BY <1>2 DEF TypeOK
  <1>6. \A k \in LinkIds : Range(input_buffer'[k]) \subseteq
          Range(input_buffer[k]) \cup (IF k = l THEN {p} ELSE {})
    BY <1>4, <1>5
  <1>8. \A k \in LinkIds : \A q \in Range(input_buffer'[k]) : LinkOf(q.req) = k /\ ~Near(q.req)
    BY <1>6, <1>7 DEF OrderInv
  <1>9. \A k \in LinkIds : Increasing(input_buffer'[k])
    BY <1>4, <1>5 DEF OrderInv
  <1>10. ASSUME NEW v \in VaultIds, NEW q \in readq'[v], ~Near(q.req),
                NEW s \in Range(input_buffer'[LinkOf(q.req)])
         PROVE  q.reqid < s.reqid
    <2>1. q \in readq[v] /\ q \in Packets
      BY <1>2, <1>10 DEF TypeOK
    <2>2. LinkOf(q.req) \in LinkIds
      BY <2>1, RequestFacts DEF Packets
    <2>3. s \in Range(input_buffer[LinkOf(q.req)]) \/ s = p
      BY <1>6, <1>10, <2>2
    <2> QED
      BY <1>1, <1>10, <2>1, <2>3, NumbersBelow DEF OrderInv
  <1>11. ReadsSeeWrites'
    BY <1>2 DEF OrderInv, ReadsSeeWrites
  <1> QED
    BY <1>8, <1>9, <1>10, <1>11 DEF OrderInv

LEMMA SendNearOrder ==
  ASSUME TypeOK, OnceInv, OrderInv, NEW r \in Requests, SendNear(r)
  PROVE  OrderInv'
  <1> DEFINE v == VaultOf(r)
             p == NewPacket(r)
  <1>1. /\ v \in VaultIds /\ p \in Packets /\ p.req = r /\ p.reqid = mem_req_count
        /\ Near(p.req)
    BY RequestFacts, NewPacketType DEF NewPacket, SendNear
  <1>2. Enqueue(v, p) /\ UNCHANGED input_buffer
    BY DEF SendNear, linkVars
  <1> HIDE DEF v, p
  <1>3. \A q \in readq[v] : q.reqid < p.reqid
    BY <1>1, NumbersBelow
  <1>4. /\ ReadsSeeWrites'
        /\ \A u \in VaultIds : readq'[u] \subseteq readq[u] \cup (IF u = v THEN {p} ELSE {})
    BY <1>1, <1>2, <1>3, EnqueueOrder DEF OrderInv
  <1>5. ASSUME NEW u \in VaultIds, NEW q \in readq'[u], ~Near(q.req)
        PROVE  \A s \in Range(input_buffer[LinkOf(q.req)]) : q.reqid < s.reqid
    <2>1. q \in readq[u]
      BY <1>1, <1>4, <1>5
    <2> QED
      BY <1>5, <2>1 DEF OrderInv
  <1> QED
    BY <1>2, <1>4, <1>5 DEF OrderInv

LEMMA SwitchInOrder ==
  ASSUME TypeOK, OnceInv, OrderInv, NEW l \in LinkIds, SwitchIn(l)
  PROVE  OrderInv'
  <1> DEFINE b == input_buffer[l]
             p == Head(b)
             v == VaultOf(p.req)
  <1>1. b \in Seq(Packets) /\ b # <<>> /\ Increasing(b)
    BY DEF TypeOK, SwitchIn, OrderInv
  <1>2. /\ p \in Packets /\ Range(b) = {p} \cup Range(Tail(b)) /\ Increasing(Tail(b))
        /\ \A q \in Range(Tail(b)) : p.reqid < q.reqid
    BY <1>1, RangeTail, TailIncreasing
  <1>3. v \in VaultIds
    BY <1>2, RequestFacts DEF Packets
  <1>4. LinkOf(p.req) = l /\ ~Near(p.req)
    BY <1>2 DEF OrderInv
  <1>5. CASE UNCHANGED <<input_buffer, queueVars>>
    BY <1>5 DEF OrderInv, ReadsSeeWrites, queueVars
  <1>6. CASE Enqueue(v, p) /\ input_buffer' = [input_buffer EXCEPT ![l] = Tail(@)]
    <2>1. \A k \in LinkIds : input_buffer'[k] = IF k = l THEN Tail(b) ELSE input_buffer[k]
      BY <1>6 DEF TypeOK
    <2> HIDE DEF b, p, v
    <2>2. \A k \in LinkIds : Range(input_buffer'[k]) \subseteq Range(input_buffer[k])
      BY <1>2, <2>1 DEF b
    <2>3. ASSUME NEW q \in readq[v], SameAddress(q, p), Near(q.req) = Near(p.req)
          PROVE  q.reqid < p.reqid
      <3>1. LinkOf(q.req) = l /\ ~Near(q.req)
        BY <1>4, <2>3 DEF SameAddress, Block, LinkOf
      <3>2. p \in Range(input_buffer[l])
        BY <1>2 DEF b
      <3> QED
        BY <1>3, <3>1, <3>2 DEF OrderInv
    <2>4. /\ ReadsSeeWrites'
          /\ \A u \in VaultIds : readq'[u] \subseteq readq[u] \cup (IF u = v THEN {p} ELSE {})
      BY <1>2, <1>3, <1>6, <2>3, EnqueueOrder DEF OrderInv
    <2>5. \A k \in LinkIds : /\ Increasing(input_buffer'[k])
                            /\ \A q \in Range(input_buffer'[k]) : LinkOf(q.req) = k /\ ~Near(q.req)
      BY <1>2, <2>1, <2>2 DEF OrderInv
    <2>6. ASSUME NEW u \in VaultIds, NEW q \in readq'[u], ~Near(q.req),
                 NEW s \in Range(input_buffer'[LinkOf(q.req)])
          PROVE  q.reqid < s.reqid
      <3>1. CASE q \in readq[u]
        <4>1. LinkOf(q.req) \in LinkIds
          BY <3>1, RequestFacts DEF TypeOK, Packets
        <4>2. s \in Range(input_buffer[LinkOf(q.req)])
          BY <2>2, <2>6, <4>1
        <4> QED
          BY <2>6, <3>1, <4>2 DEF OrderInv
      <3>2. CASE q \notin readq[u]
        <4>1. q = p
          BY <2>4, <3>2
        <4>2. s \in Range(Tail(b))
          BY <1>4, <2>1, <2>6, <4>1
        <4> QED
          BY <1>2, <4>1, <4>2
      <3> QED
        BY <3>1, <3>2
    <2> QED
      BY <2>4, <2>5, <2>6 DEF OrderInv
  <1> QED
    BY <1>5, <1>6 DEF SwitchIn

LEMMA VaultTickOrder ==
  ASSUME TypeOK, OrderInv, NEW v \in VaultIds, VaultTicks(v)
  PROVE  OrderInv'
  <1>1. \A u \in VaultIds : readq'[u] \subseteq readq[u] /\ writeq'[u] \subseteq writeq[u]
    BY DEF VaultTicks, VaultTick, TypeOK
  <1>2. UNCHANGED input_buffer
    BY DEF VaultTicks, VaultTick, linkVars
  <1>3. ReadsSeeWrites'
    BY <1>1 DEF OrderInv, ReadsSeeWrites
  <1> QED
    BY <1>1, <1>2, <1>3 DEF OrderInv

LEMMA OrderNext == TypeOK /\ OnceInv /\ OrderInv /\ [Next]_vars => OrderInv'
  <1> SUFFICES ASSUME TypeOK, OnceInv, OrderInv, [Next]_vars
               PROVE  OrderInv'
    OBVIOUS
  <1>1. ASSUME UNCHANGED <<input_buffer, readq, writeq>> PROVE OrderInv'
    BY <1>1 DEF OrderInv, ReadsSeeWrites
  <1>2. CASE \E r \in Requests : Send(r)
    BY <1>1, <1>2, SendFarOrder, SendNearOrder
    DEF Send, SendUntagged, SendRefused, linkVars, vaultVars, queueVars
  <1>3. CASE \E l \in LinkIds : SwitchIn(l) \/ LinkSend(l)
    BY <1>1, <1>3, SwitchInOrder DEF LinkSend, vaultVars, queueVars
  <1>4. CASE \E v \in VaultIds : SwitchOut(v) \/ VaultTicks(v)
    BY <1>1, <1>4, VaultTickOrder DEF SwitchOut, queueVars
  <1>5. CASE RestoreTags
    BY <1>1, <1>5 DEF RestoreTags, linkVars, vaultVars, queueVars
  <1>6. CASE UNCHANGED vars
    BY <1>1, <1>6 DEF vars, linkVars, vaultVars, queueVars
  <1> QED
    BY <1>2, <1>3, <1>4, <1>5, <1>6 DEF Next

(* Whatever the traffic: a read that goes to the DRAM was sent before      *)
(* every queued write of its side to its address, however requests are     *)
(* refused, tried again and reordered by the vault.                        *)
THEOREM HmcReadsSeeWrites == Spec => []ReadsSeeWrites
  <1>1. Init => TypeOK /\ OnceInv /\ OrderInv
    <2>1. Range(<<>>) = {} /\ Increasing(<<>>)
      BY DEF Range, Increasing
    <2> QED
      BY <2>1, InitTypeOK, OnceInit DEF Init, OrderInv, ReadsSeeWrites
  <1>2. TypeOK /\ OnceInv /\ OrderInv /\ [Next]_vars => (TypeOK /\ OnceInv /\ OrderInv)'
    BY NextTypeOK, OnceNext, OrderNext
  <1>3. OrderInv => ReadsSeeWrites
    BY DEF OrderInv
  <1> QED
    BY <1>1, <1>2, <1>3, PTL DEF Spec

----------------------------------------------------------------------------
(* No buffer and no queue outgrows its limit *)

(* The queues are finite: without that a cardinality says nothing. *)
BoundInv ==
  /\ BuffersBounded
  /\ \A v \in VaultIds : IsFiniteSet(readq[v]) /\ IsFiniteSet(writeq[v])

LEMMA OneMore ==
  ASSUME NEW Q, IsFiniteSet(Q), NEW x
  PROVE  /\ IsFiniteSet(Q \cup {x})
         /\ Cardinality(Q) <= QueueMax /\ Cardinality(Q) # QueueMax
              => Cardinality(Q \cup {x}) <= QueueMax
  <1>1. Cardinality(Q) \in Nat /\ QueueMax \in Nat
    BY FS_CardinalityType, SizeAssumption
  <1>2. /\ IsFiniteSet(Q \cup {x})
        /\ Cardinality(Q \cup {x}) = IF x \in Q THEN Cardinality(Q) ELSE Cardinality(Q) + 1
    BY FS_AddElement
  <1> QED
    BY <1>1, <1>2

LEMMA NoMore ==
  ASSUME NEW Q, IsFiniteSet(Q), NEW R \in SUBSET Q
  PROVE  /\ IsFiniteSet(R)
         /\ Cardinality(Q) <= QueueMax => Cardinality(R) <= QueueMax
  <1>1. Cardinality(Q) \in Nat /\ QueueMax \in Nat
    BY FS_CardinalityType, SizeAssumption
  <1>2. IsFiniteSet(R) /\ Cardinality(R) <= Cardinality(Q)
    BY FS_Subset
  <1>3. Cardinality(R) \in Nat
    BY <1>2, FS_CardinalityType
  <1> QED
    BY <1>1, <1>2, <1>3

(* A vault no near request has gone to was one before. *)
Owned == \A v \in VaultIds : HostsOwn(v)' => HostsOwn(v)

(* A step that does not lengthen a buffer of a link or a queue *)
LEMMA NothingAdded ==
  ASSUME BoundInv, Owned,
         \A l \in LinkIds : /\ Len(input_buffer'[l]) <= BufferMax
                           /\ Len(output_buffer'[l]) <= BufferMax,
         \A v \in VaultIds : /\ readq'[v] \subseteq readq[v]
                            /\ writeq'[v] \subseteq writeq[v]
  PROVE  BoundInv'
  <1>1. ASSUME NEW v \in VaultIds
        PROVE  /\ IsFiniteSet(readq'[v]) /\ IsFiniteSet(writeq'[v])
               /\ HostsOwn(v)' => /\ Cardinality(readq'[v]) <= QueueMax
                                  /\ Cardinality(writeq'[v]) <= QueueMax
    BY NoMore DEF BoundInv, BuffersBounded, Owned
  <1> QED
    BY <1>1 DEF BoundInv, BuffersBounded

(* A request is taken by vault v. *)
LEMMA EnqueueBound ==
  ASSUME TypeOK, BoundInv, Owned, NEW v \in VaultIds, NEW p \in Packets, Enqueue(v, p),
         ~QueueFull(v, p.req),
         HostsOwn(v)' => ~Near(p.req)
  PROVE  \A u \in VaultIds : /\ IsFiniteSet(readq'[u]) /\ IsFiniteSet(writeq'[u])
                             /\ HostsOwn(u)' => /\ Cardinality(readq'[u]) <= QueueMax
                                                /\ Cardinality(writeq'[u]) <= QueueMax
  <1> SUFFICES ASSUME NEW u \in VaultIds
               PROVE  /\ IsFiniteSet(readq'[u]) /\ IsFiniteSet(writeq'[u])
                      /\ HostsOwn(u)' => /\ Cardinality(readq'[u]) <= QueueMax
                                         /\ Cardinality(writeq'[u]) <= QueueMax
    OBVIOUS
  <1>1. /\ IsFiniteSet(readq[u]) /\ IsFiniteSet(writeq[u])
        /\ HostsOwn(u)' => /\ Cardinality(readq[u]) <= QueueMax
                           /\ Cardinality(writeq[u]) <= QueueMax
    BY DEF BoundInv, BuffersBounded, Owned
  <1>2. CASE Type(p.req) = "READ"
    <2>1. /\ HostsOwn(v)' => Cardinality(readq[v]) # QueueMax
          /\ writeq' = writeq
          /\ readq'[u] = readq[u] \/ (u = v /\ readq'[u] = readq[u] \cup {p})
      BY <1>2 DEF QueueFull, Enqueue, TypeOK
    <2> QED
      BY <1>1, <2>1, OneMore
  <1>3. CASE Type(p.req) # "READ"
    <2>1. /\ HostsOwn(v)' => Cardinality(writeq[v]) # QueueMax
          /\ readq' = readq
          /\ writeq'[u] = writeq[u] \/ (u = v /\ writeq'[u] = writeq[u] \cup {p})
      BY <1>3 DEF QueueFull, Enqueue, TypeOK
    <2> QED
      BY <1>1, <2>1, OneMore
  <1> QED
    BY <1>2, <1>3

LEMMA SendBound ==
  ASSUME TypeOK, OnceInv, BoundInv, Owned, NEW r \in Requests, Send(r)
  PROVE  BoundInv'
  <1> DEFINE l == LinkOf(r)
             v == VaultOf(r)
             p == NewPacket(r)
  <1>1. l \in LinkIds /\ v \in VaultIds /\ RequestFlits(r) \in Nat /\ p \in Packets /\ p.req = r
    BY RequestFacts, NewPacketType DEF NewPacket
  <1>2. CASE SendUntagged(r) \/ SendRefused(r)
    <2>1. UNCHANGED <<input_buffer, output_buffer, readq, writeq>>
      BY <1>2 DEF SendUntagged, SendRefused, linkVars, vaultVars, queueVars
    <2> QED
      BY <2>1, NothingAdded DEF BoundInv, BuffersBounded
  <1>3. CASE SendFar(r)
    <2>1. RequestFlits(r) >= 1
      BY <1>1, SizeAssumption DEF RequestFlits
    <2>2. /\ input_buffer' = [input_buffer EXCEPT ![l] = Append(input_buffer[l], p)]
          /\ UNCHANGED <<output_buffer, readq, writeq>>
          /\ RequestFlits(r) <= BufferMax - Len(input_buffer[l])
      BY <1>1, <1>3 DEF SendFar, TypeOK, vaultVars, queueVars, Space
    <2>3. input_buffer[l] \in Seq(Packets)
      BY <1>1 DEF TypeOK
    <2>4. Len(Append(input_buffer[l], p)) <= BufferMax
      <3>1. Len(Append(input_buffer[l], p)) = Len(input_buffer[l]) + 1 /\ Len(input_buffer[l]) \in Nat
        BY <1>1, <2>3
      <3> QED
        BY <1>1, <2>1, <2>2, <3>1, SizeAssumption
    <2> HIDE DEF l, p
    <2>5. \A k \in LinkIds : Len(input_buffer'[k]) <= BufferMax
      BY <2>2, <2>4 DEF TypeOK, BoundInv, BuffersBounded
    <2> QED
      BY <2>2, <2>5, NothingAdded DEF BoundInv, BuffersBounded
  <1>4. CASE SendNear(r)
    <2>1. Enqueue(v, p) /\ UNCHANGED <<input_buffer, output_buffer>>
      BY <1>4 DEF SendNear, linkVars
    <2>2. ~QueueFull(v, r)
      BY <1>4 DEF SendNear, QueueFull
    <2>3. ~HostsOwn(v)'
      <3>1. r \in batch /\ batch' = batch /\ r \notin unsent' /\ Near(r)
        BY <1>4, OncePlaced DEF SendNear, Count, OnceInv, OnePlace, historyVars
      <3> QED
        BY <3>1 DEF HostsOwn, NearSent
    <2>4. \A u \in VaultIds : /\ IsFiniteSet(readq'[u]) /\ IsFiniteSet(writeq'[u])
                              /\ HostsOwn(u)' => /\ Cardinality(readq'[u]) <= QueueMax
                                                 /\ Cardinality(writeq'[u]) <= QueueMax
      BY <1>1, <2>1, <2>2, <2>3, EnqueueBound
    <2> QED
      BY <2>1, <2>4 DEF BoundInv, BuffersBounded
  <1> QED
    BY <1>2, <1>3, <1>4 DEF Send

LEMMA SwitchInBound ==
  ASSUME TypeOK, RouteInv, BoundInv, Owned, NEW l \in LinkIds, SwitchIn(l)
  PROVE  BoundInv'
  <1> DEFINE p == Head(input_buffer[l])
             v == VaultOf(p.req)
  <1>1. input_buffer[l] \in Seq(Packets) /\ input_buffer[l] # <<>>
    BY DEF TypeOK, SwitchIn
  <1>2. p \in Packets /\ p \in Range(input_buffer[l])
    BY <1>1, RangeTail
  <1>3. v \in VaultIds /\ ~Near(p.req)
    BY <1>2, RequestFacts DEF Packets, RouteInv
  <1>4. UNCHANGED output_buffer
    BY DEF SwitchIn
  <1>5. CASE UNCHANGED <<input_buffer, queueVars>>
    BY <1>4, <1>5, NothingAdded DEF BoundInv, BuffersBounded, queueVars
  <1>6. CASE /\ ~QueueFull(v, p.req) /\ Enqueue(v, p)
             /\ input_buffer' = [input_buffer EXCEPT ![l] = Tail(@)]
    <2>1. Len(Tail(input_buffer[l])) <= BufferMax
      <3>1. Len(Tail(input_buffer[l])) = Len(input_buffer[l]) - 1 /\ Len(input_buffer[l]) \in Nat
        BY <1>1
      <3> QED
        BY <3>1, SizeAssumption DEF BoundInv, BuffersBounded
    <2> HIDE DEF p, v
    <2>2. \A k \in LinkIds : Len(input_buffer'[k]) <= BufferMax
      BY <1>6, <2>1 DEF TypeOK, BoundInv, BuffersBounded
    <2>3. \A u \in VaultIds : /\ IsFiniteSet(readq'[u]) /\ IsFiniteSet(writeq'[u])
                              /\ HostsOwn(u)' => /\ Cardinality(readq'[u]) <= QueueMax
                                                 /\ Cardinality(writeq'[u]) <= QueueMax
      BY <1>2, <1>3, <1>6, EnqueueBound
    <2> QED
      BY <1>4, <2>2, <2>3 DEF BoundInv, BuffersBounded
  <1> QED
    BY <1>5, <1>6 DEF SwitchIn

LEMMA SwitchOutBound ==
  ASSUME TypeOK, BoundInv, Owned, NEW v \in VaultIds, SwitchOut(v)
  PROVE  BoundInv'
  <1> DEFINE p == Head(response_packets_buffer[v])
             l == LinkOf(p.req)
  <1>1. response_packets_buffer[v] \in Seq(Packets) /\ response_packets_buffer[v] # <<>>
    BY DEF TypeOK, SwitchOut, Fits
  <1>2. p \in Packets
    BY <1>1, RangeTail
  <1>3. l \in LinkIds
    BY <1>2, RequestFacts DEF Packets
  <1>4. ResponseFlits(p.req) \in Nat /\ ResponseFlits(p.req) >= 1
    BY SizeAssumption DEF ResponseFlits
  <1>5. /\ output_buffer' = [output_buffer EXCEPT ![l] = Append(output_buffer[l], p)]
        /\ UNCHANGED <<input_buffer, readq, writeq>>
        /\ ResponseFlits(p.req) <= BufferMax - Len(output_buffer[l])
    BY <1>3 DEF SwitchOut, Fits, Space, TypeOK, queueVars
  <1>6. output_buffer[l] \in Seq(Packets)
    BY <1>3 DEF TypeOK
  <1> HIDE DEF p, l
  <1>7. Len(Append(output_buffer[l], p)) <= BufferMax
    <2>1. Len(Append(output_buffer[l], p)) = Len(output_buffer[l]) + 1 /\ Len(output_buffer[l]) \in Nat
      BY <1>2, <1>6
    <2> QED
      BY <1>4, <1>5, <2>1, SizeAssumption
  <1>8. \A k \in LinkIds : Len(output_buffer'[k]) <= BufferMax
    BY <1>5, <1>7 DEF TypeOK, BoundInv, BuffersBounded
  <1> QED
    BY <1>5, <1>8, NothingAdded DEF BoundInv, BuffersBounded

LEMMA LinkSendBound ==
  ASSUME TypeOK, BoundInv, Owned, NEW l \in LinkIds, LinkSend(l)
  PROVE  BoundInv'
  <1>1. /\ output_buffer' = [output_buffer EXCEPT ![l] = Tail(@)]
        /\ UNCHANGED <<input_buffer, readq, writeq>>
    BY DEF LinkSend, vaultVars, queueVars
  <1>2. output_buffer[l] \in Seq(Packets) /\ output_buffer[l] # <<>>
    BY DEF TypeOK, LinkSend
  <1>3. Len(Tail(output_buffer[l])) <= BufferMax
    <2>1. Len(Tail(output_buffer[l])) = Len(output_buffer[l]) - 1 /\ Len(output_buffer[l]) \in Nat
      BY <1>2
    <2> QED
      BY <2>1, SizeAssumption DEF BoundInv, BuffersBounded
  <1>4. \A k \in LinkIds : Len(output_buffer'[k]) <= BufferMax
    BY <1>1, <1>3 DEF TypeOK, BoundInv, BuffersBounded
  <1> QED
    BY <1>1, <1>4, NothingAdded DEF BoundInv, BuffersBounded

LEMMA VaultTickBound ==
  ASSUME TypeOK, BoundInv, Owned, NEW v \in VaultIds, VaultTicks(v)
  PROVE  BoundInv'
  <1>1. \A u \in VaultIds : readq'[u] \subseteq readq[u] /\ writeq'[u] \subseteq writeq[u]
    BY DEF VaultTicks, VaultTick, TypeOK
  <1>2. UNCHANGED <<input_buffer, output_buffer>>
    BY DEF VaultTicks, VaultTick, linkVars
  <1> QED
    BY <1>1, <1>2, NothingAdded DEF BoundInv, BuffersBounded

LEMMA BoundNext ==
  TypeOK /\ OnceInv /\ RouteInv /\ BoundInv /\ [Next]_vars => BoundInv'
  <1> SUFFICES ASSUME TypeOK, OnceInv, RouteInv, BoundInv, [Next]_vars
               PROVE  BoundInv'
    OBVIOUS
  <1>1. Owned
    BY NearSentGrows DEF Owned
  <1>2. CASE \E r \in Requests : Send(r)
    BY <1>1, <1>2, SendBound
  <1>3. CASE \E l \in LinkIds : SwitchIn(l) \/ LinkSend(l)
    BY <1>1, <1>3, SwitchInBound, LinkSendBound
  <1>4. CASE \E v \in VaultIds : SwitchOut(v) \/ VaultTicks(v)
    BY <1>1, <1>4, SwitchOutBound, VaultTickBound
  <1>5. CASE RestoreTags \/ UNCHANGED vars
    <2>1. UNCHANGED <<input_buffer, output_buffer, readq, writeq>>
      BY <1>5 DEF RestoreTags, vars, linkVars, vaultVars, queueVars
    <2> QED
      BY <1>1, <2>1, NothingAdded DEF BoundInv, BuffersBounded
  <1> QED
    BY <1>2, <1>3, <1>4, <1>5 DEF Next

(* Whatever the traffic of both sides: no buffer of a link holds more than *)
(* its flits, and no queue of a vault more than Queue::max before a near   *)
(* request has gone there, though the limit of a queue is tested for       *)
(* equality only.                                                          *)
THEOREM HmcBuffersBounded == Spec => []BuffersBounded
  <1>1. Init => TypeOK /\ OnceInv /\ RouteInv /\ BoundInv
    <2>1. Len(<<>>) = 0 /\ IsFiniteSet({}) /\ Cardinality({}) = 0
      BY FS_EmptySet
    <2>2. Init => BoundInv
      BY <2>1, SizeAssumption DEF Init, BoundInv, BuffersBounded
    <2> QED
      BY <2>2, InitTypeOK, OnceInit, NothingInFlight
  <1>2. TypeOK /\ OnceInv /\ RouteInv /\ BoundInv /\ [Next]_vars
          => (TypeOK /\ OnceInv /\ RouteInv /\ BoundInv)'
    BY NextTypeOK, OnceNext, RouteNext, BoundNext
  <1>3. BoundInv => BuffersBounded
    BY DEF BoundInv
  <1> QED
    BY <1>1, <1>2, <1>3, PTL DEF Spec
=============================================================================
