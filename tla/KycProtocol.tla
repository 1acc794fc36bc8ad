---------------------------- MODULE KycProtocol ----------------------------
(***************************************************************************)
(* Provers and the registry together.  The SDK builds a proof in the       *)
(* user's browser from a document, rules it was handed earlier and the     *)
(* device's clock; the proof is then presented to the registry, now or     *)
(* later, once or many times, by anyone.  Between the two the owner may    *)
(* change the rules or switch the integrator off, and ledgers close.       *)
(***************************************************************************)
EXTENDS KycRegistry, FiniteSets

CONSTANTS MaxProofs,  \* bound on the proofs generated in a behaviour
          RootText    \* how the tree file spells its root: "hex" or "decimal"

ASSUME RootTextAssumption == RootText \in {"hex", "decimal"}

VARIABLE proofs      \* the proofs generated so far

vars == <<registryVars, proofs>>

(* randomUserSecret: sixteen random bytes for every proof, taken never to  *)
(* repeat.                                                                 *)
FreshSecrets == {s \in Secrets : \A p \in proofs : p.secret # s}

(* buildWitnessFromOcr reads the root of the tree file as hexadecimal      *)
(* digits.  Digits that were decimal make the root of no tree, for which   *)
(* ZeroRoot stands here.                                                   *)
ParsedRoot(root) == IF RootText = "hex" THEN root ELSE ZeroRoot

(* The proof that a prover asks for: the rules are those the caller has at *)
(* hand, perhaps out of date, and the time is that of the device.          *)
ProofFor(doc, secret, rules, id, now) ==
    [doc |-> doc, secret |-> secret, id |-> IdToField(id), now |-> now,
     rules |-> [rules EXCEPT !.root = ParsedRoot(@)]]

(* generateKycProof -> buildWitnessFromOcr -> fullProve.  A witness that   *)
(* violates a constraint yields no proof (findBracketForCode and fullProve *)
(* throw).                                                                 *)
GenerateProof(doc, id, rules, now) ==
    /\ Cardinality(proofs) < MaxProofs
    /\ \E secret \in FreshSecrets :
         LET p == ProofFor(doc, secret, rules, id, now)
         IN  /\ Satisfies(SignalsOf(p), doc, secret)
             /\ proofs' = proofs \cup {p}
    /\ UNCHANGED registryVars

InitProtocol == Init /\ proofs = {}

NextProtocol ==
    \/ \E doc \in Documents, id \in Ids, rules \in RuleSets, now \in 0 .. MaxTime :
         GenerateProof(doc, id, rules, now)
    \/ (OwnerCalls \/ VerifyCalls(proofs) \/ LedgerCloses) /\ UNCHANGED proofs

SpecProtocol == InitProtocol /\ [][NextProtocol]_vars

-----------------------------------------------------------------------------
TypeOKProtocol == TypeOK /\ proofs \subseteq Proof

(* An honest call: the proof was made for this integrator's rules in       *)
(* force, with a clock that agrees with the ledger's, and its nullifier is *)
(* not spent.                                                              *)
HonestCall(id, p) ==
    /\ p.id = IdToField(id)
    /\ config[id] # Unregistered
    /\ config[id].active
    /\ config[id].rules = p.rules
    /\ ledgerNow - MaxDrift <= p.now /\ p.now <= ledgerNow + MaxDrift
    /\ \A i \in DOMAIN accepted : accepted[i].proof # p

(* What verify returns to a caller who passes these signals with a proof.  *)
Presented(id, p, sig) ==
    VerifyResult(id, Nullifier(p.doc.number, p.secret, p.id), p.now, p, sig)

HonestProofAcceptedAt(id) ==
    \A p \in proofs : HonestCall(id, p) => Presented(id, p, SignalsOf(p)) = "OkTrue"

(* For the integrators whose id is a field element, which of the two       *)
(* vectors is passed decides, and nothing else: with the six values that   *)
(* snarkjs returned and README.md:168 lists, an honest call is accepted,   *)
(* so no legal history of the contract can leave it in a state that turns  *)
(* such a user away; with the five that submitProof sends, the contract    *)
(* refuses the same call for their number alone.                           *)
HonestProofAccepted ==
    \A id \in Ids \cap Field :
        /\ HonestProofAcceptedAt(id)
        /\ \A p \in proofs : HonestCall(id, p) =>
               Presented(id, p, SubmittedSignals(p)) = "WrongPublicInputCount"

(* What the contract's comment says of public_signals (lib.rs:185-188, the *)
(* five without the nullifier, "5 elements"), README.md:355 of the field   *)
(* of that name, and submitProof relies on: an honest call with the        *)
(* signals the SDK sends is accepted.                                      *)
SubmittedProofAccepted ==
    \A id \in Ids \cap Field, p \in proofs :
        HonestCall(id, p) => Presented(id, p, SubmittedSignals(p)) = "OkTrue"

(* What docs/doc.md:386 and README.md:99 say: any 32 bytes are an          *)
(* integrator id, and so does the dashboard, which draws them at random.   *)
EveryIntegratorServed == \A id \in Ids : HonestProofAcceptedAt(id)

(* Whoever satisfies the rules can prove it, for every registered list of  *)
(* countries, with the tree file build_restricted_tree.js writes           *)
(* (README.md:87-90): field arithmetic, sentinels and the reading of the   *)
(* file turn no eligible holder away.                                      *)
EligibleCanProve ==
    \A doc \in Documents, id \in Ids, secret \in Secrets :
        config[id] # Unregistered /\ Promise!EligibleAt(doc, config[id].rules, ledgerNow)
            => LET p == ProofFor(doc, secret, config[id].rules, id, ledgerNow)
               IN  Satisfies(SignalsOf(p), doc, secret)

(* What README.md:479 says: the same physical document cannot pass         *)
(* verification twice at the same dApp.                                    *)
DocumentAcceptedOnce ==
    \A i, j \in DOMAIN accepted :
        accepted[i].id = accepted[j].id /\ accepted[i].proof.doc = accepted[j].proof.doc
            => i = j
=============================================================================
