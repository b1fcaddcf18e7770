------------------------- MODULE MCVaultController -------------------------
(***************************************************************************)
(* A small vault: scaled-down timing that keeps the order of its times,    *)
(* and a few requests to two banks.                                        *)
(***************************************************************************)
EXTENDS VaultController

Timing == [nBL |-> 1, nCCDS |-> 1, nCCDL |-> 2, nCL |-> 2, nRCD |-> 2, nRP |-> 2,
           nCWL |-> 1, nRAS |-> 4, nRC |-> 6, nRTP |-> 1, nWTRS |-> 1, nWTRL |-> 2,
           nWR |-> 2, nRRDS |-> 1, nRRDL |-> 1, nFAW |-> 4, nRFC |-> 5, nREFI |-> 20]

(* Addresses 0 and 1 share a row, 2 is another row of the bank, 3 is in    *)
(* the other bank.                                                         *)
BankMap == [a \in Addresses |-> IF a = 3 THEN 1 ELSE 0]
RowMap == [a \in Addresses |-> IF a = 2 THEN 1 ELSE 0]

Near(type, addr) == [type |-> type, addr |-> addr, from_nmp |-> TRUE]
(* As many writes as make the write queue almost full, and reads *)
MixedTraffic == <<Near("READ", 0), Near("WRITE", 2), Near("READ", 2), Near("WRITE", 3)>>
=============================================================================
