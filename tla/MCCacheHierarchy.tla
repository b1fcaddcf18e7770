-------------------------- MODULE MCCacheHierarchy --------------------------
(***************************************************************************)
(* Small cache hierarchies.                                                *)
(***************************************************************************)
EXTENDS CacheHierarchy

CONSTANTS c1, c2, n1, b1, b2, b3, b4

(* Lines of a set, MSHRs and latency of each level *)
Ways == [L1 |-> 1, L2 |-> 2, L3 |-> 2]
Mshrs == [L1 |-> 2, L2 |-> 2, L3 |-> 1]
Cycles == [L1 |-> 1, L2 |-> 2, L3 |-> 2]

(* Two host cores with blocks of their own, one of them with two reads in  *)
(* its window: their misses compete for the last level's MSHR and ways     *)
HostTurns == <<"cachesys", c1, c2>>
Private == (c1 :> {b1, b2}) @@ (c2 :> {b3})
Windows == (c1 :> 2) @@ (c2 :> 1)

(* Two host cores and an NLP core, in order as in Configs/, that share a   *)
(* block.  An NLP processor's tick ticks the host's cache system once more. *)
AllTurns == <<"cachesys", c1, c2, "cachesys", n1>>
Shared == [c \in Cores |-> Blocks]
OneRead == [c \in Cores |-> 1]

(* The latencies of the code (Cache.h:53), under which a hit calls back    *)
(* some cycles after it has found its line, and two blocks for each core   *)
CodeCycles == [L1 |-> 4, L2 |-> 16, L3 |-> 47]
OneWay == [L1 |-> 1, L2 |-> 1, L3 |-> 2]
TwoEach == (c1 :> {b1, b2}) @@ (c2 :> {b3, b4})

AllHosts == {HostCores}
=============================================================================
