--------------------------- MODULE MCKycProtocol ---------------------------
(* Instance of KycProtocol for TLC: a field of 37 elements, 3-bit          *)
(* comparators, a ledger clock of three instants.                           *)
EXTENDS KycProtocol, TLC

CONSTANTS s1, s2, alice, bob

(* An adult from an unlisted country with a document as old as the epoch,  *)
(* and someone born after it (a toddler at every instant) from country 3.  *)
MCDocuments == {[number |-> 1, dob |-> -2, issued |-> 0, nat |-> 2],
                [number |-> 2, dob |-> 1, issued |-> -1, nat |-> 3]}

(* Rules before and after an amendment: the second one is stricter on age  *)
(* and bans country 3; the third carries the root of no tree.              *)
MCRuleSets == {[minAge |-> 1, root |-> RootOf({4}), docMaxAge |-> 3],
               [minAge |-> 4, root |-> RootOf({3, 4}), docMaxAge |-> 2],
               [minAge |-> 1, root |-> ZeroRoot, docMaxAge |-> 3]}

(* Secrets and owners are only ever compared.                              *)
Symmetry == Permutations({s1, s2}) \cup Permutations({alice, bob})
=============================================================================
