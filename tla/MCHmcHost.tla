----------------------------- MODULE MCHmcHost -----------------------------
(***************************************************************************)
(* Small traffic for HmcHost.  Blocks of two bytes, two vaults: the        *)
(* addresses 0, 1, 4 and 5 are of the first vault, 2 and 3 of the second.  *)
(***************************************************************************)
EXTENDS HmcHost

Req(type, addr, near) == [type |-> type, addr |-> addr, from_nmp |-> near]
Read(addr) == Req("READ", addr, FALSE)
Write(addr) == Req("WRITE", addr, FALSE)
NearRead(addr) == Req("READ", addr, TRUE)
NearWrite(addr) == Req("WRITE", addr, TRUE)

(* The host alone: more reads than the link has tags or a queue holds, of  *)
(* the address of a write, of another offset of its block and of another   *)
(* block of its vault.  Both sides: reads and writes of either, to one     *)
(* address and to the other vault.                                         *)
MixedTraffic == <<Write(0), Read(0), Read(4), Read(1), Write(2), NearRead(0), NearWrite(0)>>
MixedBatches == {{1, 2, 3, 4}, {1, 2, 6}, {2, 3, 6}, {1, 6, 7}, {2, 5, 7}}

(* As many near reads as the link has tags, and requests of the host *)
DrainTraffic == <<NearRead(0), NearRead(0), Read(0), Write(0)>>
DrainBatches == {DOMAIN DrainTraffic}
=============================================================================
