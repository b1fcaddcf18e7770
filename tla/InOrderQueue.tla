---------------------------- MODULE InOrderQueue ----------------------------
(***************************************************************************)
(* What the instruction window of an out-of-order core promises: entries   *)
(* leave in the order they came, at most Ipc at a time, and only once      *)
(* ready; one answer of the memory for a block makes every entry that      *)
(* waits for the block ready.                                              *)
(***************************************************************************)
EXTENDS Integers, Sequences

CONSTANTS Depth, Ipc, Blocks, NoBlock

VARIABLES queue,        \* the entries, oldest first
          outstanding   \* how many answers are to come for each block

Entries == [block : Blocks \cup {NoBlock}, ready : BOOLEAN]

Init == queue = <<>> /\ outstanding = [b \in Blocks |-> 0]

(* An operation of the core itself is ready at once. *)
PutBubble ==
  /\ Len(queue) < Depth
  /\ queue' = Append(queue, [block |-> NoBlock, ready |-> TRUE])
  /\ UNCHANGED outstanding

(* A load has an answer of its own or shares one that is under way. *)
PutLoad(b) ==
  /\ Len(queue) < Depth
  /\ queue' = Append(queue, [block |-> b, ready |-> FALSE])
  /\ \/ outstanding' = [outstanding EXCEPT ![b] = @ + 1]
     \/ outstanding[b] > 0 /\ UNCHANGED outstanding

Answer(b) ==
  /\ outstanding[b] > 0
  /\ queue' = [i \in 1 .. Len(queue) |->
                 [block |-> queue[i].block,
                  ready |-> queue[i].ready \/ queue[i].block = b]]
  /\ outstanding' = [outstanding EXCEPT ![b] = @ - 1]

Take(n) ==
  /\ n <= Len(queue)
  /\ \A i \in 1 .. n : queue[i].ready
  /\ queue' = [i \in 1 .. Len(queue) - n |-> queue[i + n]]
  /\ UNCHANGED outstanding

Next ==
  \/ PutBubble
  \/ \E b \in Blocks : PutLoad(b) \/ Answer(b)
  \/ \E n \in 1 .. Ipc : Take(n)

Spec == Init /\ [][Next]_<<queue, outstanding>>
=============================================================================
