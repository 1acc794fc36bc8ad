----------------------------- MODULE KycCircuit -----------------------------
(***************************************************************************)
(* What circuits/ocr_tier/kyc_ocr.circom constrains, over a prime field of *)
(* P elements.  A comparator of circomlib is modelled by the arithmetic it *)
(* does in the field, because the circuit feeds it differences that can be *)
(* negative, that is, huge field elements.  Poseidon is taken to be        *)
(* injective: a hash is the tuple it hashes, and the root of a restricted  *)
(* tree is a one-tuple of the set of codes the tree was built from.        *)
(***************************************************************************)
EXTENDS Integers

CONSTANTS P,         \* size of the field (BN254's scalar field in the code)
          B64,       \* 2^64: bound of the 64-bit comparators and of u64
          B32,       \* 2^32: bound of the 32-bit comparators
          Sentinel,  \* upper sentinel of a restricted list (999999999)
          Codes      \* nationality codes that can be restricted

ASSUME FieldAssumption ==
    /\ P \in Nat /\ B64 \in Nat /\ B32 \in Nat
    /\ 0 < B64 /\ 4 * B64 <= P
    /\ 0 < B32 /\ 4 * B32 <= P

ASSUME CodesAssumption ==
    /\ Sentinel \in 1 .. B32 - 1
    /\ Codes \subseteq 1 .. Sentinel - 1

U64 == 0 .. B64 - 1
Field == 0 .. P - 1

-----------------------------------------------------------------------------
(* Field arithmetic on representatives in 0 .. P - 1.                      *)
FieldAdd(a, b) == IF a + b < P THEN a + b ELSE a + b - P
FieldSub(a, b) == IF a >= b THEN a - b ELSE a - b + P

(* snarkjs reduces a witness input modulo P.  A date before 1970, a        *)
(* negative number of seconds, becomes a large field element; an           *)
(* integrator id, 32 bytes read as a number, need not be below P.          *)
ToField(n) == IF n >= 0 THEN n ELSE n + P
IdToField(id) == id % P

-----------------------------------------------------------------------------
(* circomlib's comparators.  LessThan(n) decomposes in[0] + 2^n - in[1]    *)
(* into n + 1 bits and outputs the complement of the top one.  The code    *)
(* constrains every output to 1, so the gadget is satisfiable exactly when *)
(* the field element is below 2^n (here B).                                *)
LessThan(B, a, b) == FieldSub(FieldAdd(a, B), b) < B
GreaterThan(B, a, b) == LessThan(B, b, a)
LessEqThan(B, a, b) == LessThan(B, a, FieldAdd(b, 1))
GreaterEqThan(B, a, b) == LessThan(B, b, FieldAdd(a, 1))

(* age_check.circom and freshness_check.circom.                            *)
AgeCheck(now, dob, minAge) == GreaterEqThan(B64, FieldSub(now, dob), minAge)
FreshnessCheck(now, issued, maxAge) == LessEqThan(B64, FieldSub(now, issued), maxAge)

-----------------------------------------------------------------------------
RootOf(codes) == <<codes>>   \* the root of the tree over these codes
ZeroRoot == <<>>             \* 32 zero bytes, the root of no tree
Roots == {RootOf(codes) : codes \in SUBSET Codes} \cup {ZeroRoot}

Brackets_NoLowSentinel(root) ==
    IF root = ZeroRoot THEN {}
    ELSE LET sorted == root[1] \cup {Sentinel}
         IN  {pair \in sorted \X sorted :
                /\ pair[1] < pair[2]
                /\ \A c \in sorted : ~(pair[1] < c /\ c < pair[2])}

(* build_restricted_tree.js: the leaves are the neighbours in the sorted   *)
(* list of codes closed by the sentinels 0 and 999999999.  A leaf slot that *)
(* holds no pair is padded with 0, which is the hash of no pair.           *)
Brackets(root) ==
    IF root = ZeroRoot THEN {}
    ELSE LET sorted == root[1] \cup {0, Sentinel}
         IN  {pair \in sorted \X sorted :
                /\ pair[1] < pair[2]
                /\ \A c \in sorted : ~(pair[1] < c /\ c < pair[2])}

(* The country predicate: the prover exhibits a leaf of the tree under the *)
(* public root whose two codes enclose its own strictly.                   *)
NonMember(nat, root) ==
    \E pair \in Brackets(root) :
        GreaterThan(B32, nat, pair[1]) /\ LessThan(B32, nat, pair[2])

(* nullifier.circom: Poseidon over three inputs.                           *)
Nullifier(doc, secret, id) == <<doc, secret, id>>

(* The public vector snarkjs returns: the output signal, then the public   *)
(* inputs in the order kyc_ocr.circom declares them.                       *)
PublicSignals_TimeAndAgeSwapped(nf, now, rules, id) ==
    <<nf, rules.minAge, now, rules.root, rules.docMaxAge, id>>

PublicSignals(nf, now, rules, id) ==
    <<nf, now, rules.minAge, rules.root, rules.docMaxAge, id>>

(* kyc_ocr.circom: a document and a secret are a witness for these public  *)
(* signals.                                                                *)
Satisfies(sig, doc, secret) ==
    /\ AgeCheck(sig[2], ToField(doc.dob), sig[3])
    /\ NonMember(doc.nat, sig[4])
    /\ FreshnessCheck(sig[2], ToField(doc.issued), sig[5])
    /\ sig[1] = Nullifier(doc.number, secret, sig[6])
=============================================================================
