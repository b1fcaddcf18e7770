------------------------------ MODULE HmcHost ------------------------------
(***************************************************************************)
(* The way of a memory request through the cube: the host controller with  *)
(* its tags (HMC_Memory.h), the links and the switch (LogicLayer.cpp), and *)
(* the queues of the vault controllers (HMC_Controller.h).                 *)
(*                                                                         *)
(* Requests of the host travel as packets over a link, under a tag of that *)
(* link; requests of a near-memory core to its own vault enter the vault   *)
(* controller directly.                                                    *)
(*                                                                         *)
(* Time is abstracted: a link sends, and a vault completes its next read,  *)
(* when it does.  So are the DRAM commands below a vault controller: which *)
(* request of the chosen queue its next command completes, if any, is a    *)
(* free choice.  Links are in host source mode, where a packet never waits *)
(* for tokens; tokens and flow-control packets are left out.               *)
(***************************************************************************)
EXTENDS Integers, Sequences, FiniteSets, Functions

CONSTANTS
  Links, Vaults,   \* source_links and the vaults of the cube
  MaxTags,         \* max_tags, for each link
  BufferMax,       \* buffer_max of a link's two buffers, in packets
  QueueMax,        \* Queue::max of a vault's read and write queues
  PayloadFlits,    \* payload_flits: the data of a packet
  BlockBytes,      \* 2 ^ flit_num_bits: the bytes of a block
  Traffic,         \* the requests: type, byte address, from_nmp
  Batches,         \* the sets of requests a run may have to send
  MaxRestores      \* bound: calls of restore_hmc_tags

Requests == DOMAIN Traffic
Types == {"READ", "WRITE"}

ASSUME SizeAssumption ==
  /\ Links \in Nat \ {0} /\ Vaults \in Nat \ {0} /\ Vaults % Links = 0
  /\ MaxTags \in Nat \ {0} /\ QueueMax \in Nat \ {0}
  /\ PayloadFlits \in Nat /\ BufferMax \in Nat /\ PayloadFlits < BufferMax
  /\ BlockBytes \in Nat \ {0} /\ MaxRestores \in Nat

ASSUME TrafficAssumption ==
  /\ IsFiniteSet(Requests)
  /\ Traffic \in [Requests -> [type : Types, addr : Nat, from_nmp : BOOLEAN]]
  /\ Batches \subseteq SUBSET Requests

LinkIds == 0 .. Links - 1
VaultIds == 0 .. Vaults - 1

VARIABLES
  unsent,          \* requests the processors have still to send
  mem_req_count,
  tags_pools,      \* the free tags of each link
  input_buffer, output_buffer,              \* of each link: slave, master
  incoming_packets_buffer,                  \* of each vault, the map by reqid
  readq, writeq, pending, response_packets_buffer, write_mode, \* of each vault
  batch,           \* history: the requests this run has to send
  answered,        \* history: answers each request has had
  restores         \* history: calls of restore_hmc_tags

hostVars == <<unsent, mem_req_count, tags_pools>>
linkVars == <<input_buffer, output_buffer>>
queueVars == <<readq, writeq, pending>>
vaultVars == <<incoming_packets_buffer, queueVars, response_packets_buffer, write_mode>>
historyVars == <<batch, answered, restores>>
vars == <<hostVars, linkVars, vaultVars, historyVars>>

----------------------------------------------------------------------------
(* Packets: the request they are for, its number and its tag *)

NoTag == -1
Tags == 0 .. MaxTags - 1
Packets == [req : Requests, reqid : Nat, tag : Tags \cup {NoTag}]

Type(r) == Traffic[r].type
Near(r) == Traffic[r].from_nmp

(* The low bits of the number of a block select the vault, and fewer of    *)
(* the same bits the link, so a vault is always reached over one link.     *)
Block(r) == Traffic[r].addr \div BlockBytes
VaultOf(r) == Block(r) % Vaults
LinkOf(r) == Block(r) % Links

RequestFlits(r) == IF Type(r) = "READ" THEN 1 ELSE 1 + PayloadFlits
ResponseFlits(r) == IF Type(r) = "WRITE" THEN 1 ELSE 1 + PayloadFlits

(* Variants: an operator named Wrong... is never used.  It is a slip that  *)
(* could be made in the definition that follows it, kept to show that the  *)
(* properties notice it.                                                   *)
WrongFullPool == [i \in 1 .. MaxTags |-> i]   \* counts from one
FullPool == [i \in 1 .. MaxTags |-> i - 1]

Init ==
  /\ batch \in Batches /\ unsent = batch
  /\ mem_req_count = 0
  /\ tags_pools = [l \in LinkIds |-> FullPool]
  /\ input_buffer = [l \in LinkIds |-> <<>>]
  /\ output_buffer = [l \in LinkIds |-> <<>>]
  /\ incoming_packets_buffer = [v \in VaultIds |-> {}]
  /\ readq = [v \in VaultIds |-> {}]
  /\ writeq = [v \in VaultIds |-> {}]
  /\ pending = [v \in VaultIds |-> <<>>]
  /\ response_packets_buffer = [v \in VaultIds |-> <<>>]
  /\ write_mode = [v \in VaultIds |-> FALSE]
  /\ answered = [r \in Requests |-> 0]
  /\ restores = 0

----------------------------------------------------------------------------
(* The host controller: Memory::send *)

WrongTakeTag(l) == UNCHANGED tags_pools   \* looks at a tag and leaves it

(* assign_tag: the first free tag, or -1 *)
FirstTag(l) == IF tags_pools[l] = <<>> THEN NoTag ELSE Head(tags_pools[l])
TakeTag(l) ==
  tags_pools' = [tags_pools EXCEPT ![l] = IF @ = <<>> THEN @ ELSE Tail(@)]

NewPacket(r) == [req |-> r, reqid |-> mem_req_count, tag |-> FirstTag(LinkOf(r))]

WrongCount(r) == unsent' = unsent \ {r} /\ UNCHANGED mem_req_count
Count(r) == unsent' = unsent \ {r} /\ mem_req_count' = mem_req_count + 1

(* available_space, of either buffer of a link *)
Space(buffer) == BufferMax - Len(buffer)

(* A request of the host is refused for want of a tag, or for want of room *)
(* (the tag it took is not given back), or goes on its way.                *)
SendUntagged(r) ==
  /\ r \in unsent /\ ~Near(r)
  /\ FirstTag(LinkOf(r)) = NoTag
  /\ TakeTag(LinkOf(r))
  /\ UNCHANGED <<unsent, mem_req_count, linkVars, vaultVars, historyVars>>

SendRefused(r) ==
  /\ r \in unsent /\ ~Near(r)
  /\ FirstTag(LinkOf(r)) # NoTag
  /\ RequestFlits(r) > Space(input_buffer[LinkOf(r)])
  /\ TakeTag(LinkOf(r))
  /\ UNCHANGED <<unsent, mem_req_count, linkVars, vaultVars, historyVars>>

SendFar(r) ==
  /\ r \in unsent /\ ~Near(r)
  /\ FirstTag(LinkOf(r)) # NoTag
  /\ RequestFlits(r) <= Space(input_buffer[LinkOf(r)])
  /\ TakeTag(LinkOf(r))
  /\ Count(r)
  /\ input_buffer' = [input_buffer EXCEPT ![LinkOf(r)] = Append(@, NewPacket(r))]
  /\ UNCHANGED <<output_buffer, vaultVars, historyVars>>

----------------------------------------------------------------------------
(* A vault controller takes a packet: Controller::receive, enqueue *)

SameAddress(p, q) == Traffic[p.req].addr = Traffic[q.req].addr

(* incoming_packets_buffer[reqid] = packet *)
Record(v, p) ==
  incoming_packets_buffer' = [incoming_packets_buffer EXCEPT
    ![v] = {q \in @ : q.reqid # p.reqid} \cup {p}]

WrongQueueFull(v, r) ==   \* the test comes one request late
  ~Near(r) /\ Cardinality(IF Type(r) = "READ" THEN readq[v] ELSE writeq[v]) > QueueMax

(* The limit is tested for the host's requests only, and for equality. *)
QueueFull(v, r) ==
  ~Near(r) /\ Cardinality(IF Type(r) = "READ" THEN readq[v] ELSE writeq[v]) = QueueMax

WrongForwarded(v, p) == FALSE   \* reads the row although a write is under way
Forwarded(v, p) == \E w \in writeq[v] : SameAddress(w, p)

WrongInReadq(v, p) == TRUE   \* forgets to take it out again
InReadq(v, p) == ~Forwarded(v, p)

(* A read whose address a queued write is about to write is forwarded: it  *)
(* leaves the queue at once.                                               *)
Enqueue(v, p) ==
  IF Type(p.req) = "READ"
    THEN /\ readq' = [readq EXCEPT ![v] = IF InReadq(v, p) THEN @ \cup {p} ELSE @]
         /\ pending' = [pending EXCEPT ![v] = IF Forwarded(v, p) THEN Append(@, p) ELSE @]
         /\ UNCHANGED writeq
    ELSE /\ writeq' = [writeq EXCEPT ![v] = @ \cup {p}]
         /\ UNCHANGED <<readq, pending>>

(* Memory::send of a near request, which ignores a missing tag *)
SendNear(r) ==
  /\ r \in unsent /\ Near(r)
  /\ TakeTag(LinkOf(r))
  /\ Count(r)
  /\ Record(VaultOf(r), NewPacket(r))
  /\ Enqueue(VaultOf(r), NewPacket(r))
  /\ UNCHANGED <<linkVars, response_packets_buffer, write_mode, historyVars>>

----------------------------------------------------------------------------
(* Switch::tick *)

(* The head of a link goes to its vault; if the queue there is full, it is *)
(* recorded already and tried again.                                       *)
SwitchIn(l) ==
  /\ input_buffer[l] # <<>>
  /\ LET p == Head(input_buffer[l])
         v == VaultOf(p.req)
     IN /\ Record(v, p)
        /\ IF QueueFull(v, p.req)
             THEN UNCHANGED <<input_buffer, queueVars>>
             ELSE /\ Enqueue(v, p)
                  /\ input_buffer' = [input_buffer EXCEPT ![l] = Tail(@)]
  /\ UNCHANGED <<hostVars, output_buffer, response_packets_buffer, write_mode, historyVars>>

(* Of the vaults of a link whose next response fits, the lowest goes. *)
Fits(v) ==
  /\ response_packets_buffer[v] # <<>>
  /\ LET r == Head(response_packets_buffer[v]).req
     IN ResponseFlits(r) <= Space(output_buffer[LinkOf(r)])

SwitchOut(v) ==
  /\ Fits(v) /\ \A u \in 0 .. v - 1 : u % Links = v % Links => ~Fits(u)
  /\ LET p == Head(response_packets_buffer[v]) IN
     output_buffer' = [output_buffer EXCEPT ![LinkOf(p.req)] = Append(@, p)]
  /\ response_packets_buffer' = [response_packets_buffer EXCEPT ![v] = Tail(@)]
  /\ UNCHANGED <<hostVars, input_buffer, incoming_packets_buffer, queueVars,
                 write_mode, historyVars>>

(* LinkMaster::send and Memory::receive_packets: the tag is free again. *)
WrongReturnTag(l, p) == UNCHANGED tags_pools
ReturnTag(l, p) == tags_pools' = [tags_pools EXCEPT ![l] = Append(@, p.tag)]

LinkSend(l) ==
  /\ output_buffer[l] # <<>>
  /\ LET p == Head(output_buffer[l]) IN
     /\ ReturnTag(l, p)
     /\ answered' = [answered EXCEPT ![p.req] = @ + 1]
  /\ output_buffer' = [output_buffer EXCEPT ![l] = Tail(@)]
  /\ UNCHANGED <<unsent, mem_req_count, input_buffer, vaultVars, batch, restores>>

----------------------------------------------------------------------------
(* Controller::tick *)

(* Writes are served once they fill 0.8 of their queue or there is no read, *)
(* until they fill no more than 0.2 of it and there is one.                *)
High == (QueueMax * 4) \div 5
Low == QueueMax \div 5

WrongNextMode(v) == write_mode[v] \/ readq[v] = {}   \* never back to reads
NextMode(v) ==
  IF ~write_mode[v]
    THEN Cardinality(writeq[v]) >= High \/ readq[v] = {}
    ELSE ~(Cardinality(writeq[v]) <= Low /\ readq[v] # {})

(* One tick of vault v.  leaving: the next pending read if it has departed, *)
(* to a near core at once and to the host as a response.  served: the      *)
(* request of the queue in turn that the command of this tick completes.   *)
VaultTick(v, leaving, served) ==
  LET read == IF NextMode(v) THEN <<>> ELSE served
      written == IF NextMode(v) THEN served ELSE <<>>
      near == leaving # <<>> /\ Near(Head(leaving).req)
      far == IF near THEN <<>> ELSE leaving
  IN
  /\ write_mode' = [write_mode EXCEPT ![v] = NextMode(v)]
  /\ readq' = [readq EXCEPT ![v] = @ \ Range(read)]
  /\ writeq' = [writeq EXCEPT ![v] = @ \ Range(written)]
  /\ pending' = [pending EXCEPT
       ![v] = (IF leaving = <<>> THEN @ ELSE Tail(@)) \o read]
  /\ response_packets_buffer' = [response_packets_buffer EXCEPT
       ![v] = @ \o far \o written]
  /\ incoming_packets_buffer' = [incoming_packets_buffer EXCEPT
       ![v] = {q \in @ : \A p \in Range(leaving \o written) : q.reqid # p.reqid}]
  /\ answered' = IF near THEN [answered EXCEPT ![Head(leaving).req] = @ + 1]
                         ELSE answered
  /\ UNCHANGED <<hostVars, linkVars, batch, restores>>

Departed(v) == IF pending[v] = <<>> THEN {} ELSE {<<Head(pending[v])>>}
Completed(v) == {<<p>> : p \in IF NextMode(v) THEN writeq[v] ELSE readq[v]}

VaultTicks(v) ==
  \E leaving \in {<<>>} \cup Departed(v), served \in {<<>>} \cup Completed(v) :
    VaultTick(v, leaving, served)

----------------------------------------------------------------------------
(* Memory::restore_hmc_tags, called when the near-memory side has finished *)
RestoreTags ==
  /\ restores < MaxRestores
  /\ restores' = restores + 1
  /\ tags_pools' = [l \in LinkIds |-> FullPool]
  /\ UNCHANGED <<unsent, mem_req_count, linkVars, vaultVars, batch, answered>>

Send(r) == SendUntagged(r) \/ SendRefused(r) \/ SendFar(r) \/ SendNear(r)

Next ==
  \/ \E r \in Requests : Send(r)
  \/ \E l \in LinkIds : SwitchIn(l) \/ LinkSend(l)
  \/ \E v \in VaultIds : SwitchOut(v) \/ VaultTicks(v)
  \/ RestoreTags

(***************************************************************************)
(* Fairness: the processors retry what was refused, links and switch are   *)
(* ticked for ever, and each tick of a vault may complete what is due.     *)
(***************************************************************************)
Depart(v) == \E leaving \in Departed(v), served \in {<<>>} \cup Completed(v) :
               VaultTick(v, leaving, served)
Serve(v) == \E leaving \in {<<>>} \cup Departed(v), served \in Completed(v) :
              VaultTick(v, leaving, served)

Fairness ==
  /\ \A r \in Requests : WF_vars(SendFar(r) \/ SendNear(r))
  /\ \A l \in LinkIds : WF_vars(SwitchIn(l)) /\ WF_vars(LinkSend(l))
  /\ \A v \in VaultIds :
       WF_vars(SwitchOut(v)) /\ WF_vars(Depart(v)) /\ SF_vars(Serve(v))
       /\ WF_vars(VaultTick(v, <<>>, <<>>))

Spec == Init /\ [][Next]_vars
FairSpec == Spec /\ Fairness

----------------------------------------------------------------------------
(* Type invariant *)

(* Every variable keeps its kind. *)
TypeOK ==
  /\ batch \in Batches /\ unsent \in SUBSET Requests
  /\ mem_req_count \in Nat
  /\ tags_pools \in [LinkIds -> Seq(Tags \cup {NoTag})]
  /\ input_buffer \in [LinkIds -> Seq(Packets)]
  /\ output_buffer \in [LinkIds -> Seq(Packets)]
  /\ incoming_packets_buffer \in [VaultIds -> SUBSET Packets]
  /\ readq \in [VaultIds -> SUBSET Packets]
  /\ writeq \in [VaultIds -> SUBSET Packets]
  /\ pending \in [VaultIds -> Seq(Packets)]
  /\ response_packets_buffer \in [VaultIds -> Seq(Packets)]
  /\ write_mode \in [VaultIds -> BOOLEAN]
  /\ answered \in [Requests -> Nat]
  /\ restores \in 0 .. MaxRestores

----------------------------------------------------------------------------
(* Safety *)

Waiting(v) == readq[v] \cup writeq[v] \cup Range(pending[v])
InVault(v) == Waiting(v) \cup Range(response_packets_buffer[v])
OnLink(l) == Range(input_buffer[l]) \cup Range(output_buffer[l])
InFlight == UNION ({InVault(v) : v \in VaultIds} \cup {OnLink(l) : l \in LinkIds})
TagsOut(l) == {p \in InFlight : LinkOf(p.req) = l /\ p.tag # NoTag}

(* The assertions of form_response_packet and of the completion of near    *)
(* reads (HMC_Controller.h:690, 733), and more: what incoming_packets_     *)
(* buffer has under the number of a request in a vault is its own packet.  *)
ResponseMatched ==
  \A v \in VaultIds : \A p \in Waiting(v) :
    {q \in incoming_packets_buffer[v] : q.reqid = p.reqid} = {p}

(* Once a request is accepted it is on its way at one place, until it is   *)
(* answered, and it is answered once.                                      *)
Places(r) ==
  {<<"vault", v>> : v \in {u \in VaultIds : \E p \in InVault(u) : p.req = r}}
  \cup {<<"in", l>> : l \in {k \in LinkIds : \E p \in Range(input_buffer[k]) : p.req = r}}
  \cup {<<"out", l>> : l \in {k \in LinkIds : \E p \in Range(output_buffer[k]) : p.req = r}}
AnsweredOnce ==
  \A r \in batch :
    /\ (IF r \in unsent THEN 1 ELSE 0) + Cardinality(Places(r)) + answered[r] = 1
    /\ Cardinality({p \in InFlight : p.req = r}) <= 1

(* However many sends are refused, each losing a tag, a link is never left *)
(* without a tag for good: a tag is free or on its way back.               *)
Supplied(l) == Range(tags_pools[l]) \ {NoTag} # {} \/ TagsOut(l) # {}
HostNotStarved == \A l \in LinkIds : Supplied(l)

(* Near reads keep their tags, and they alone do: a link is supplied until *)
(* one has gone to a vault of its, whatever near writes go there with a    *)
(* tag or without one, and whatever is refused.                            *)
NearSent == {r \in batch \ unsent : Near(r)}
TagsComeBack(l) == \A r \in NearSent : LinkOf(r) = l => Type(r) # "READ"
SuppliedBeforeNearReads == \A l \in LinkIds : TagsComeBack(l) => Supplied(l)

(* Until the pools are refilled, a tag names one packet of its link at a   *)
(* time: it is on no other packet, and not free.                           *)
TagsOnce(l) ==
  /\ \A p, q \in TagsOut(l) : p.tag = q.tag => p = q
  /\ \A p \in TagsOut(l) : p.tag \notin Range(tags_pools[l])
  /\ \A i, j \in DOMAIN tags_pools[l] :
       tags_pools[l][i] = tags_pools[l][j] /\ tags_pools[l][i] # NoTag => i = j
TagsDistinct == restores = 0 => \A l \in LinkIds : TagsOnce(l)

(* No buffer outgrows its limit, nor does a queue of a vault to which no   *)
(* near request has gone: the limit of a queue is tested for the host's    *)
(* requests only, and for equality (HMC_Controller.h:671).                 *)
HostsOwn(v) == \A r \in NearSent : VaultOf(r) # v
BuffersBounded ==
  /\ \A l \in LinkIds : Len(input_buffer[l]) <= BufferMax
                        /\ Len(output_buffer[l]) <= BufferMax
  /\ \A v \in VaultIds : HostsOwn(v) => /\ Cardinality(readq[v]) <= QueueMax
                                        /\ Cardinality(writeq[v]) <= QueueMax

(* A read that goes to the DRAM was sent before every queued write to its  *)
(* byte address by the same side: no read overtakes a write it must see    *)
(* ("necessary for coherence", HMC_Controller.h:678).  A read at another   *)
(* offset of the block may.                                                *)
ReadsSeeWrites ==
  \A v \in VaultIds : \A p \in readq[v], w \in writeq[v] :
    SameAddress(p, w) /\ Near(p.req) = Near(w.req) => p.reqid < w.reqid

----------------------------------------------------------------------------
(* Liveness *)

Answered(r) == answered[r] = 1

(* When the host is alone, every request is answered in the end, though    *)
(* refused sends lose tags, and the modes of the vault keep reads or       *)
(* writes waiting (send, tick).                                            *)
Alone == \A r \in batch : ~Near(r)
AllAnswered == <>(Alone => \A r \in batch : Answered(r))

(* The near-memory cores' requests to their own vaults are, with or        *)
(* without a tag, whatever the host sends.                                 *)
NearAnswered == <>(\A r \in batch : Near(r) => Answered(r))
=============================================================================
