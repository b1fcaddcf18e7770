------------------------------- MODULE Window -------------------------------
(***************************************************************************)
(* struct Window of Processor.h: the instruction window of an out-of-order *)
(* core, a ring of Depth slots.  The core inserts at head, retires at tail *)
(* and marks slots ready when the memory answers (Core::receive).          *)
(*                                                                         *)
(* Addresses matter up to the mask ~(l1_blocksz - 1), so a slot carries a  *)
(* block.  A request the first-level cache takes is answered by a call of  *)
(* its own (a hit, or a miss that gets an MSHR entry) or by the call that  *)
(* answers a request for the same block already in flight (an MSHR hit,    *)
(* Cache.cpp:143).  That every request is answered to the core that sent it *)
(* is assumed here.                                                        *)
(***************************************************************************)
EXTENDS Integers, Sequences

CONSTANTS Depth, Ipc, Blocks,
          NoBlock,     \* the block of address -1, which no request has
          MaxAnswers   \* bound: answers under way for one block

ASSUME DepthAssumption == Depth \in Nat \ {0}
ASSUME IpcAssumption == Ipc \in Nat \ {0}
ASSUME BlockAssumption == NoBlock \notin Blocks
ASSUME MaxAssumption == MaxAnswers \in Nat

VARIABLES load, head, tail, ready_list, addr_list,
          outstanding   \* answers to come, for each block
vars == <<load, head, tail, ready_list, addr_list, outstanding>>

Slots == 0 .. Depth - 1

WrongSlot(i) == (tail + i + 1) % Depth   \* one slot late
(* The slot of the i-th entry from the tail, i from 0 *)
Slot(i) == (tail + i) % Depth

Init ==
  /\ load = 0 /\ head = 0 /\ tail = 0
  /\ ready_list = [s \in Slots |-> FALSE]
  /\ addr_list = [s \in Slots |-> NoBlock]
  /\ outstanding = [b \in Blocks |-> 0]

is_full == load = Depth

(* Window::insert overwrites both marks of the slot at head. *)
insert(ready, block) ==
  /\ ready_list' = [ready_list EXCEPT ![head] = ready]
  /\ addr_list' = [addr_list EXCEPT ![head] = block]
  /\ head' = (head + 1) % Depth
  /\ load' = load + 1
  /\ UNCHANGED tail

(* tick_outOrder inserts only if the window is not full: an operation of   *)
(* the core, ready at once, or a load that was just sent.                  *)
InsertBubble == ~is_full /\ insert(TRUE, NoBlock) /\ UNCHANGED outstanding
InsertLoad(b) ==
  /\ ~is_full /\ insert(FALSE, b)
  /\ \/ /\ outstanding[b] < MaxAnswers
        /\ outstanding' = [outstanding EXCEPT ![b] = @ + 1]
     \/ outstanding[b] > 0 /\ UNCHANGED outstanding

(* Window::retire: n entries leave, up to Ipc, to the first not ready.     *)
WrongRetirable(n) ==   \* looks at the first slot only
  /\ n <= load /\ (n > 0 => ready_list[Slot(0)])
  /\ n < Ipc /\ n < load => ~ready_list[Slot(n)]

Retirable(n) ==
  /\ n <= load
  /\ \A i \in 0 .. n - 1 : ready_list[Slot(i)]
  /\ n < Ipc /\ n < load => ~ready_list[Slot(n)]

retire ==
  /\ \E n \in 1 .. Ipc :
       /\ Retirable(n)
       /\ tail' = Slot(n)
       /\ load' = load - n
  /\ UNCHANGED <<head, ready_list, addr_list, outstanding>>

(* Window::set_ready: every entry in the window with this block.           *)
WrongOccupied == {Slot(i) : i \in 0 .. load - 2}   \* stops one entry short
Occupied == {Slot(i) : i \in 0 .. load - 1}

set_ready(b) ==
  /\ outstanding[b] > 0
  /\ outstanding' = [outstanding EXCEPT ![b] = @ - 1]
  /\ ready_list' = [s \in Slots |->
       ready_list[s] \/ (s \in Occupied /\ addr_list[s] = b)]
  /\ UNCHANGED <<load, head, tail, addr_list>>

Next ==
  \/ InsertBubble
  \/ \E b \in Blocks : InsertLoad(b) \/ set_ready(b)
  \/ retire

(* The core retires every tick, and the memory answers every request.      *)
Spec == Init /\ [][Next]_vars
FairSpec == Spec /\ WF_vars(retire) /\ \A b \in Blocks : WF_vars(set_ready(b))

----------------------------------------------------------------------------
(* The ring is well formed: head is load slots after tail (the assertion   *)
(* load <= depth of insert and retire among the types).                    *)
TypeOK ==
  /\ load \in 0 .. Depth
  /\ tail \in Slots
  /\ head = Slot(load)
  /\ ready_list \in [Slots -> BOOLEAN]
  /\ addr_list \in [Slots -> Blocks \cup {NoBlock}]
  /\ outstanding \in [Blocks -> Nat]

Awaited(b) == b \in Blocks /\ outstanding[b] > 0

(* An entry that is not ready waits for a block still to be answered: no   *)
(* answer misses an entry it should mark.                                  *)
NoEntryForgotten ==
  \A i \in 0 .. load - 1 :
    ~ready_list[Slot(i)] => Awaited(addr_list[Slot(i)])

(* A full window has room again: the core never waits for ever.            *)
FullWindowDrains == is_full ~> ~is_full

(* The entries of the ring, oldest first, behave as an in-order queue.     *)
Entry(s) == [block |-> addr_list[s], ready |-> ready_list[s]]
Contents == [i \in 1 .. load |-> Entry(Slot(i - 1))]
Abstract == INSTANCE InOrderQueue WITH queue <- Contents
ImplementsQueue == Abstract!Spec
=============================================================================
