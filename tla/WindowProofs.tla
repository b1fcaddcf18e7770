---------------------------- MODULE WindowProofs ----------------------------
(***************************************************************************)
(* Proofs about Window for every Depth, Ipc and set of blocks: the ring    *)
(* stays well formed, no entry is forgotten, and the ring implements the   *)
(* in-order queue.                                                         *)
(***************************************************************************)
EXTENDS Window, SequenceTheorems, TLAPS

----------------------------------------------------------------------------
(* The ring *)

(* Stepping at most a full turn from a slot wraps round at most once. *)
LEMMA RingStep ==
  ASSUME NEW s \in Slots, NEW i \in 0 .. Depth
  PROVE  (s + i) % Depth = IF s + i < Depth THEN s + i ELSE s + i - Depth
  BY DepthAssumption DEF Slots

(* The slot of an entry, without the modulus. *)
LEMMA SlotValue ==
  ASSUME tail \in Slots, NEW i \in 0 .. Depth
  PROVE  Slot(i) = IF tail + i < Depth THEN tail + i ELSE tail + i - Depth
  BY RingStep DEF Slot

(* Every entry has a slot of the ring, and no two entries share one. *)
LEMMA SlotInjective ==
  ASSUME tail \in Slots, NEW i \in 0 .. Depth - 1, NEW j \in 0 .. Depth - 1
  PROVE  Slot(i) \in Slots /\ (Slot(i) = Slot(j) => i = j)
  BY SlotValue, DepthAssumption DEF Slots

(* The slot after the i-th entry's is that of the next entry. *)
LEMMA NextSlot ==
  ASSUME tail \in Slots, NEW i \in 0 .. Depth - 1
  PROVE  (Slot(i) + 1) % Depth = Slot(i + 1)
  <1>1. Slot(i) \in Slots /\ 1 \in 0 .. Depth /\ i + 1 \in 0 .. Depth
    BY SlotInjective, DepthAssumption
  <1>2. (Slot(i) + 1) % Depth
          = IF Slot(i) + 1 < Depth THEN Slot(i) + 1 ELSE Slot(i) + 1 - Depth
    BY <1>1, RingStep
  <1> QED
    BY <1>1, <1>2, SlotValue, DepthAssumption DEF Slots

(* Counting i entries from the n-th one reaches the (n + i)-th. *)
LEMMA SlotShift ==
  ASSUME tail \in Slots, NEW n \in 0 .. Depth, NEW i \in 0 .. Depth - n
  PROVE  Slot(n) \in Slots /\ (Slot(n) + i) % Depth = Slot(n + i)
  <1>1. Slot(n) \in Slots /\ i \in 0 .. Depth /\ n + i \in 0 .. Depth
    BY SlotValue, DepthAssumption DEF Slots
  <1>2. (Slot(n) + i) % Depth
          = IF Slot(n) + i < Depth THEN Slot(n) + i ELSE Slot(n) + i - Depth
    BY <1>1, RingStep
  <1> QED
    BY <1>1, <1>2, SlotValue, DepthAssumption DEF Slots

----------------------------------------------------------------------------
(* The type invariant *)

LEMMA InitTypeOK == Init => TypeOK
  <1> SUFFICES ASSUME Init PROVE TypeOK
    OBVIOUS
  <1>1. tail \in Slots /\ Slot(0) = 0
    BY SlotValue, DepthAssumption DEF Init, Slots
  <1> QED
    BY <1>1, DepthAssumption DEF Init, TypeOK

(* An insertion moves head one slot on and fills the slot it leaves. *)
LEMMA InsertType ==
  ASSUME TypeOK, ~is_full, NEW r \in BOOLEAN, NEW b \in Blocks \cup {NoBlock},
         insert(r, b)
  PROVE  /\ load' \in 0 .. Depth /\ tail' \in Slots /\ head' = Slot(load)'
         /\ ready_list' \in [Slots -> BOOLEAN]
         /\ addr_list' \in [Slots -> Blocks \cup {NoBlock}]
  <1>1. load \in 0 .. Depth - 1 /\ tail \in Slots /\ head = Slot(load)
    BY DepthAssumption DEF TypeOK, is_full
  <1>2. (Slot(load) + 1) % Depth = Slot(load + 1)
    BY <1>1, NextSlot
  <1>3. head' = Slot(load + 1) /\ tail' = tail /\ load' = load + 1
    BY <1>1, <1>2 DEF insert
  <1>4. Slot(load)' = Slot(load + 1)
    BY <1>3 DEF Slot
  <1>5. load' \in 0 .. Depth /\ tail' \in Slots /\ head' = Slot(load)'
    BY <1>1, <1>3, <1>4, DepthAssumption
  <1>6. /\ ready_list' \in [Slots -> BOOLEAN]
        /\ addr_list' \in [Slots -> Blocks \cup {NoBlock}]
    BY DEF TypeOK, insert
  <1> QED
    BY <1>5, <1>6

(* A load adds an answer to come, or has one under way already. *)
LEMMA LoadIsAwaited ==
  ASSUME TypeOK, NEW b \in Blocks, InsertLoad(b)
  PROVE  /\ outstanding' \in [Blocks -> Nat]
         /\ outstanding' = outstanding
              \/ outstanding' = [outstanding EXCEPT ![b] = @ + 1]
         /\ \A x \in Blocks : outstanding'[x] >= outstanding[x]
         /\ outstanding'[b] > 0
  BY DEF TypeOK, InsertLoad

LEMMA AnswerType ==
  ASSUME TypeOK, NEW b \in Blocks, set_ready(b)
  PROVE  /\ outstanding' \in [Blocks -> Nat]
         /\ \A x \in Blocks \ {b} : outstanding'[x] = outstanding[x]
  BY DEF TypeOK, set_ready

(* When n entries leave, the tail moves n slots on and the head stays. *)
LEMMA RetireType ==
  ASSUME TypeOK, NEW n \in 1 .. Ipc, Retirable(n),
         tail' = Slot(n), load' = load - n, head' = head
  PROVE  load' \in 0 .. Depth /\ tail' \in Slots /\ head' = Slot(load)'
  <1>1. n \in 0 .. Depth /\ load - n \in 0 .. Depth - n /\ n + (load - n) = load
    BY DepthAssumption, IpcAssumption DEF TypeOK, Retirable
  <1>2. Slot(n) \in Slots /\ (Slot(n) + (load - n)) % Depth = Slot(n + (load - n))
    BY <1>1, SlotShift DEF TypeOK
  <1>3. Slot(load)' = Slot(load)
    BY <1>1, <1>2 DEF Slot
  <1> QED
    BY <1>1, <1>2, <1>3, DepthAssumption DEF TypeOK

LEMMA NextTypeOK == TypeOK /\ [Next]_vars => TypeOK'
  <1> SUFFICES ASSUME TypeOK, [Next]_vars PROVE TypeOK'
    OBVIOUS
  <1>1. CASE InsertBubble
    <2>1. insert(TRUE, NoBlock) /\ ~is_full /\ outstanding' = outstanding
      BY <1>1 DEF InsertBubble
    <2> QED
      BY <2>1, InsertType DEF TypeOK
  <1>2. ASSUME NEW b \in Blocks, InsertLoad(b) PROVE TypeOK'
    <2>1. insert(FALSE, b) /\ ~is_full /\ outstanding' \in [Blocks -> Nat]
      BY <1>2, LoadIsAwaited DEF InsertLoad
    <2> QED
      BY <2>1, InsertType DEF TypeOK
  <1>3. ASSUME NEW b \in Blocks, set_ready(b) PROVE TypeOK'
    <2>1. Slot(load)' = Slot(load) /\ outstanding' \in [Blocks -> Nat]
      BY <1>3, AnswerType DEF set_ready, Slot
    <2>2. ready_list' \in [Slots -> BOOLEAN]
      <3>1. \A s \in Slots :
              (ready_list[s] \/ (s \in Occupied /\ addr_list[s] = b)) \in BOOLEAN
        BY DEF TypeOK
      <3> QED
        BY <1>3, <3>1 DEF set_ready
    <2> QED
      BY <1>3, <2>1, <2>2 DEF set_ready, TypeOK
  <1>4. CASE retire
    <2>1. PICK n \in 1 .. Ipc : Retirable(n) /\ tail' = Slot(n) /\ load' = load - n
      BY <1>4 DEF retire
    <2>2. UNCHANGED <<head, ready_list, addr_list, outstanding>>
      BY <1>4 DEF retire
    <2>3. load' \in 0 .. Depth /\ tail' \in Slots /\ head' = Slot(load)'
      BY <2>1, <2>2, RetireType
    <2> QED
      BY <2>2, <2>3 DEF TypeOK
  <1>5. CASE UNCHANGED vars
    <2>1. Slot(load)' = Slot(load)
      BY <1>5 DEF vars, Slot
    <2> QED
      BY <1>5, <2>1 DEF vars, TypeOK
  <1> QED
    BY <1>1, <1>2, <1>3, <1>4, <1>5 DEF Next

(* The ring stays well formed, whatever its depth (the assertions          *)
(* load <= depth of Window::insert and Window::retire never fail).         *)
THEOREM WindowTypeOK == Spec => []TypeOK
  BY InitTypeOK, NextTypeOK, PTL DEF Spec

----------------------------------------------------------------------------
(* No entry is forgotten *)

LEMMA InsertKeepsNoEntryForgotten ==
  ASSUME TypeOK, NoEntryForgotten, ~is_full,
         NEW r \in BOOLEAN, NEW b \in Blocks \cup {NoBlock}, insert(r, b),
         outstanding' \in [Blocks -> Nat],
         \A x \in Blocks : outstanding'[x] >= outstanding[x], ~r => Awaited(b)'
  PROVE  NoEntryForgotten'
  <1> SUFFICES ASSUME NEW i \in 0 .. load' - 1, ~ready_list'[Slot(i)']
               PROVE  Awaited(addr_list[Slot(i)])'
    BY DEF NoEntryForgotten
  <1>1. load \in 0 .. Depth - 1 /\ tail \in Slots /\ head = Slot(load)
    BY DepthAssumption DEF TypeOK, is_full
  <1>2. Slot(i)' = Slot(i) /\ i \in 0 .. load /\ i \in 0 .. Depth - 1
    BY <1>1, DepthAssumption DEF insert, Slot
  <1>3. Slot(i) \in Slots /\ (Slot(i) = Slot(load) => i = load)
    BY <1>1, <1>2, SlotInjective
  <1>4. CASE i = load
    <2>1. ready_list'[head] = r /\ addr_list'[head] = b
      BY <1>1, <1>3, <1>4 DEF TypeOK, insert
    <2> QED
      BY <1>1, <1>2, <1>4, <2>1
  <1>5. CASE i # load
    <2>1. Slot(i) # head /\ i \in 0 .. load - 1
      BY <1>1, <1>2, <1>3, <1>5
    <2>2. /\ ready_list'[Slot(i)] = ready_list[Slot(i)]
          /\ addr_list'[Slot(i)] = addr_list[Slot(i)]
      BY <1>3, <2>1 DEF TypeOK, insert
    <2>3. Awaited(addr_list[Slot(i)])
      BY <1>2, <2>1, <2>2 DEF NoEntryForgotten
    <2>4. addr_list[Slot(i)]' = addr_list[Slot(i)]
      BY <1>2, <2>2
    <2>5. \A x \in Blocks : outstanding[x] > 0 => outstanding'[x] > 0
      BY DEF TypeOK
    <2> QED
      BY <2>3, <2>4, <2>5 DEF Awaited
  <1> QED
    BY <1>4, <1>5

LEMMA NextNoEntryForgotten ==
  TypeOK /\ NoEntryForgotten /\ [Next]_vars => NoEntryForgotten'
  <1> SUFFICES ASSUME TypeOK, NoEntryForgotten, [Next]_vars
               PROVE  NoEntryForgotten'
    OBVIOUS
  <1>1. CASE InsertBubble
    <2>1. /\ insert(TRUE, NoBlock) /\ ~is_full
          /\ outstanding' = outstanding /\ outstanding \in [Blocks -> Nat]
      BY <1>1 DEF InsertBubble, TypeOK
    <2>2. outstanding' \in [Blocks -> Nat]
          /\ \A x \in Blocks : outstanding'[x] >= outstanding[x]
      BY <2>1
    <2> QED
      BY <2>1, <2>2, InsertKeepsNoEntryForgotten
  <1>2. ASSUME NEW b \in Blocks, InsertLoad(b) PROVE NoEntryForgotten'
    <2>1. insert(FALSE, b) /\ ~is_full
      BY <1>2 DEF InsertLoad
    <2>2. Awaited(b)'
      BY <1>2, LoadIsAwaited DEF Awaited
    <2> QED
      BY <1>2, <2>1, <2>2, LoadIsAwaited, InsertKeepsNoEntryForgotten
  <1>3. ASSUME NEW b \in Blocks, set_ready(b) PROVE NoEntryForgotten'
    <2> SUFFICES ASSUME NEW i \in 0 .. load - 1, ~ready_list'[Slot(i)]
                 PROVE  Awaited(addr_list[Slot(i)])'
      BY <1>3 DEF NoEntryForgotten, set_ready, Slot
    <2>1. Slot(i) \in Slots /\ Slot(i) \in Occupied
      <3>1. i \in 0 .. Depth - 1 /\ tail \in Slots
        BY DepthAssumption DEF TypeOK
      <3> QED
        BY <3>1, SlotInjective DEF Occupied
    <2>2. ~ready_list[Slot(i)] /\ addr_list[Slot(i)] # b
      BY <1>3, <2>1 DEF set_ready
    <2>3. Awaited(addr_list[Slot(i)]) /\ addr_list' = addr_list
          /\ Slot(i)' = Slot(i)
      BY <1>3, <2>2 DEF NoEntryForgotten, set_ready, Slot
    <2> QED
      BY <1>3, <2>2, <2>3, AnswerType DEF Awaited
  <1>4. CASE retire
    <2>1. PICK n \in 1 .. Ipc : Retirable(n) /\ tail' = Slot(n) /\ load' = load - n
      BY <1>4 DEF retire
    <2>2. UNCHANGED <<head, ready_list, addr_list, outstanding>>
      BY <1>4 DEF retire
    <2> SUFFICES ASSUME NEW i \in 0 .. (load - n) - 1, ~ready_list[Slot(i)']
                 PROVE  Awaited(addr_list[Slot(i)'])
      BY <2>1, <2>2 DEF NoEntryForgotten, Awaited
    <2>3. n \in 0 .. Depth /\ i \in 0 .. Depth - n /\ n + i \in 0 .. load - 1
      BY <2>1, DepthAssumption, IpcAssumption DEF TypeOK, Retirable
    <2>4. Slot(i)' = Slot(n + i)
      BY <2>1, <2>3, SlotShift DEF TypeOK, Slot
    <2> QED
      BY <2>3, <2>4 DEF NoEntryForgotten
  <1>5. CASE UNCHANGED vars
    BY <1>5 DEF vars, NoEntryForgotten, Slot, Awaited
  <1> QED
    BY <1>1, <1>2, <1>3, <1>4, <1>5 DEF Next

(* For every window: an entry that is not ready has its block's answer     *)
(* still to come, so that answer will release it (Core::receive).          *)
THEOREM WindowForgetsNone == Spec => []NoEntryForgotten
  <1>1. Init => NoEntryForgotten
    BY DEF Init, NoEntryForgotten
  <1> QED
    BY <1>1, InitTypeOK, NextTypeOK, NextNoEntryForgotten, PTL DEF Spec
----------------------------------------------------------------------------
(* The ring implements the in-order queue *)

(* What Contents is, entry by entry, so that it can be read after a step. *)
ContentsFacts ==
  /\ Contents \in Seq(Abstract!Entries) /\ Len(Contents) = load
  /\ \A i \in 1 .. load : Contents[i] =
       [block |-> addr_list[(tail + (i - 1)) % Depth],
        ready |-> ready_list[(tail + (i - 1)) % Depth]]

LEMMA ContentsType == TypeOK => ContentsFacts
  <1> SUFFICES ASSUME TypeOK
               PROVE /\ Contents \in Seq(Abstract!Entries) /\ Len(Contents) = load
                     /\ \A i \in 1 .. load : Contents[i] = Entry(Slot(i - 1))
    BY DEF Entry, Slot, ContentsFacts
  <1>1. load \in Nat /\ Contents = [i \in 1 .. load |-> Entry(Slot(i - 1))]
    BY DepthAssumption DEF TypeOK, Contents
  <1>2. ASSUME NEW i \in 1 .. load PROVE Entry(Slot(i - 1)) \in Abstract!Entries
    <2>1. i - 1 \in 0 .. Depth - 1 /\ tail \in Slots
      BY DepthAssumption DEF TypeOK
    <2>2. Slot(i - 1) \in Slots
      BY <2>1, SlotInjective
    <2> QED
      BY <2>2 DEF TypeOK, Entry, Abstract!Entries
  <1> QED
    BY <1>1, <1>2

LEMMA ContentsTypeNext == TypeOK' => ContentsFacts'
  BY ContentsType, PTL

(* An inserted entry becomes the last of the queue. *)
LEMMA InsertAppends ==
  ASSUME TypeOK, TypeOK', ~is_full,
         NEW r \in BOOLEAN, NEW b \in Blocks \cup {NoBlock}, insert(r, b)
  PROVE  Contents' = Append(Contents, [block |-> b, ready |-> r])
  <1> DEFINE e == [block |-> b, ready |-> r]
  <1>1. /\ load \in 0 .. Depth - 1 /\ tail \in Slots
        /\ head = (tail + load) % Depth /\ head \in Slots
        /\ load' = load + 1 /\ tail' = tail
    BY SlotInjective, DepthAssumption DEF TypeOK, is_full, insert, Slot
  <1>2. ASSUME NEW i \in 1 .. load PROVE Contents'[i] = Contents[i]
    <2>1. i - 1 \in 0 .. Depth - 1 /\ i - 1 # load /\ i \in 1 .. load'
      BY <1>1, DepthAssumption
    <2>2. (tail + (i - 1)) % Depth \in Slots /\ (tail + (i - 1)) % Depth # head
      BY <1>1, <2>1, SlotInjective DEF Slot
    <2>3. /\ addr_list'[(tail + (i - 1)) % Depth] = addr_list[(tail + (i - 1)) % Depth]
          /\ ready_list'[(tail + (i - 1)) % Depth] = ready_list[(tail + (i - 1)) % Depth]
      BY <2>2 DEF TypeOK, insert
    <2> QED
      BY <1>1, <2>1, <2>3, ContentsType, ContentsTypeNext DEF ContentsFacts
  <1>3. Contents'[load + 1] = e
    <2>1. load + 1 \in 1 .. load' /\ (load + 1) - 1 = load
      BY <1>1
    <2>2. addr_list'[head] = b /\ ready_list'[head] = r
      BY <1>1 DEF TypeOK, insert
    <2> QED
      BY <1>1, <2>1, <2>2, ContentsTypeNext DEF ContentsFacts
  <1>4. e \in Abstract!Entries
    BY DEF Abstract!Entries
  <1>5. /\ Append(Contents, e) \in Seq(Abstract!Entries)
        /\ Len(Append(Contents, e)) = load + 1
        /\ \A i \in 1 .. load : Append(Contents, e)[i] = Contents[i]
        /\ Append(Contents, e)[load + 1] = e
    BY <1>1, <1>4, ContentsType DEF ContentsFacts
  <1>6. \A i \in 1 .. load + 1 : Contents'[i] = Append(Contents, e)[i]
    BY <1>1, <1>2, <1>3, <1>5
  <1> QED
    BY <1>1, <1>5, <1>6, ContentsTypeNext, SeqEqual DEF ContentsFacts

(* An answer marks the entries that wait for its block. *)
LEMMA AnswerMarks ==
  ASSUME TypeOK, TypeOK', NEW b \in Blocks, set_ready(b)
  PROVE  Contents' = [i \in 1 .. Len(Contents) |->
                        [block |-> Contents[i].block,
                         ready |-> Contents[i].ready \/ Contents[i].block = b]]
  <1>1. load' = load /\ tail' = tail /\ addr_list' = addr_list
        /\ load \in 0 .. Depth /\ tail \in Slots
    BY DEF set_ready, TypeOK
  <1>2. ASSUME NEW i \in 1 .. load
        PROVE  Contents'[i] = [block |-> Contents[i].block,
                               ready |-> Contents[i].ready \/ Contents[i].block = b]
    <2> DEFINE s == (tail + (i - 1)) % Depth
    <2>1. i - 1 \in 0 .. load - 1 /\ i - 1 \in 0 .. Depth - 1
      BY <1>1, DepthAssumption
    <2>2. s \in Slots /\ s \in Occupied
      BY <1>1, <2>1, SlotInjective DEF Slot, Occupied
    <2>3. ready_list'[s] = (ready_list[s] \/ addr_list[s] = b)
      BY <2>2 DEF set_ready
    <2>4. Contents[i] = [block |-> addr_list[s], ready |-> ready_list[s]]
      BY <1>1, ContentsType DEF ContentsFacts
    <2>5. Contents'[i] = [block |-> addr_list[s], ready |-> ready_list'[s]]
      BY <1>1, ContentsTypeNext DEF ContentsFacts
    <2> QED
      BY <2>3, <2>4, <2>5
  <1>3. Contents' \in Seq(Abstract!Entries) /\ Len(Contents') = load
        /\ Len(Contents) = load
    BY <1>1, ContentsType, ContentsTypeNext DEF ContentsFacts
  <1>4. Contents' = [i \in 1 .. load |-> Contents'[i]]
    BY <1>1, <1>3, LenProperties
  <1> QED
    BY <1>2, <1>3, <1>4

(* The entries that leave are the first n, and all are ready. *)
LEMMA RetireTakes ==
  ASSUME TypeOK, TypeOK', NEW n \in 1 .. Ipc, Retirable(n), tail' = Slot(n),
         load' = load - n, UNCHANGED <<ready_list, addr_list, outstanding>>
  PROVE  Abstract!Take(n)
  <1>1. load \in 0 .. Depth /\ tail \in Slots /\ n \in 0 .. Depth /\ n <= load
        /\ load - n \in 0 .. Depth - n
    BY DepthAssumption, IpcAssumption DEF TypeOK, Retirable
  <1>2. \A i \in 1 .. n : Contents[i].ready
    <2> SUFFICES ASSUME NEW i \in 1 .. n PROVE Contents[i].ready
      OBVIOUS
    <2>1. i - 1 \in 0 .. n - 1 /\ i \in 1 .. load
      BY <1>1
    <2>2. ready_list[(tail + (i - 1)) % Depth]
      BY <2>1 DEF Retirable, Slot
    <2> QED
      BY <2>1, <2>2, ContentsType DEF ContentsFacts
  <1>3. ASSUME NEW i \in 1 .. load - n PROVE Contents'[i] = Contents[i + n]
    <2>1. i - 1 \in 0 .. Depth - n /\ i + n \in 1 .. load /\ i \in 1 .. load'
          /\ (i + n) - 1 = n + (i - 1)
      BY <1>1, DepthAssumption
    <2>2. (tail' + (i - 1)) % Depth = (tail + (n + (i - 1))) % Depth
      BY <1>1, <2>1, SlotShift DEF Slot
    <2>3. Contents[i + n]
            = [block |-> addr_list[(tail + ((i + n) - 1)) % Depth],
               ready |-> ready_list[(tail + ((i + n) - 1)) % Depth]]
      BY <2>1, ContentsType DEF ContentsFacts
    <2>4. Contents'[i] = [block |-> addr_list'[(tail' + (i - 1)) % Depth],
                          ready |-> ready_list'[(tail' + (i - 1)) % Depth]]
      BY <2>1, ContentsTypeNext DEF ContentsFacts
    <2>5. Contents'[i]
            = [block |-> addr_list[(tail + (n + (i - 1))) % Depth],
               ready |-> ready_list[(tail + (n + (i - 1))) % Depth]]
      BY <2>2, <2>4
    <2> QED
      BY <2>1, <2>3, <2>5
  <1>4. Contents' \in Seq(Abstract!Entries) /\ Len(Contents') = load - n
        /\ Len(Contents) = load
    BY ContentsType, ContentsTypeNext DEF ContentsFacts
  <1>5. Contents' = [i \in 1 .. load - n |-> Contents'[i]]
    BY <1>1, <1>4, LenProperties
  <1> QED
    BY <1>1, <1>2, <1>3, <1>4, <1>5 DEF Abstract!Take

LEMMA NextImplementsQueue ==
  TypeOK /\ TypeOK' /\ [Next]_vars => [Abstract!Next]_<<Contents, outstanding>>
  <1> SUFFICES ASSUME TypeOK, TypeOK', [Next]_vars
               PROVE  [Abstract!Next]_<<Contents, outstanding>>
    OBVIOUS
  <1>1. Len(Contents) = load /\ load \in 0 .. Depth
    BY ContentsType DEF ContentsFacts, TypeOK
  <1>2. CASE InsertBubble
    <2>1. Contents' = Append(Contents, [block |-> NoBlock, ready |-> TRUE])
      BY <1>2, InsertAppends DEF InsertBubble
    <2> QED
      BY <1>1, <1>2, <2>1, DepthAssumption
      DEF InsertBubble, is_full, Abstract!Next, Abstract!PutBubble
  <1>3. ASSUME NEW b \in Blocks, InsertLoad(b) PROVE Abstract!Next
    <2>1. Contents' = Append(Contents, [block |-> b, ready |-> FALSE])
      BY <1>3, InsertAppends DEF InsertLoad
    <2>2. Len(Contents) < Depth
      BY <1>1, <1>3, DepthAssumption DEF InsertLoad, is_full
    <2>3. \/ outstanding' = [outstanding EXCEPT ![b] = @ + 1]
          \/ outstanding[b] > 0 /\ outstanding' = outstanding
      BY <1>3 DEF InsertLoad
    <2>4. Abstract!PutLoad(b)
      BY <2>1, <2>2, <2>3 DEF Abstract!PutLoad
    <2> QED
      BY <2>4 DEF Abstract!Next
  <1>4. ASSUME NEW b \in Blocks, set_ready(b) PROVE Abstract!Next
    BY <1>4, AnswerMarks DEF set_ready, Abstract!Next, Abstract!Answer
  <1>5. CASE retire
    BY <1>5, RetireTakes DEF retire, Abstract!Next
  <1>6. CASE UNCHANGED vars
    BY <1>6 DEF vars, Contents, Entry, Slot
  <1> QED
    BY <1>2, <1>3, <1>4, <1>5, <1>6 DEF Next

(* For every depth and width the ring of slots is an in-order queue: every *)
(* step of the window is a step of the queue or leaves it alone.           *)
THEOREM WindowImplementsQueue == Spec => ImplementsQueue
  <1>1. Init => Abstract!Init
    <2> SUFFICES ASSUME Init PROVE Contents = <<>> /\ outstanding = [b \in Blocks |-> 0]
      BY DEF Abstract!Init
    <2>1. Contents \in Seq(Abstract!Entries) /\ Len(Contents) = 0
      BY InitTypeOK, ContentsType DEF Init, ContentsFacts
    <2> QED
      BY <2>1, EmptySeq DEF Init
  <1> QED
    BY <1>1, InitTypeOK, NextTypeOK, NextImplementsQueue, PTL
    DEF Spec, ImplementsQueue, Abstract!Spec
=============================================================================
