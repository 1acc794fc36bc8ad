----------------------------- MODULE MCRelayer -----------------------------
(* Instances of Relayer for TLC.                                           *)
EXTENDS Relayer, TLC

CONSTANTS r1, r2, r3, n1, n2, n3

(* A webhook and no chip needed, no webhook, or the chip needed.           *)
MCSettings == {[url |-> "good", nfc |-> FALSE], [url |-> "null", nfc |-> FALSE],
               [url |-> "good", nfc |-> TRUE]}

(* Requests and nullifiers are only ever compared.                         *)
Symmetry == Permutations({r1, r2, r3}) \cup Permutations(Nullifiers)
=============================================================================
