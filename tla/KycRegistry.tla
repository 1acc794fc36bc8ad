---------------------------- MODULE KycRegistry ----------------------------
(***************************************************************************)
(* The kyc_registry contract (contracts/kyc_registry/src).  Each action is *)
(* one invocation: Soroban runs an invocation to its end and commits or    *)
(* drops its writes as one, so an invocation that panics, traps or returns *)
(* an error is a step that changes nothing.  Who calls is not trusted: any *)
(* arguments may be passed, and proofs are presented in any order, any     *)
(* number of times, next to any public signals.                            *)
(*                                                                         *)
(* A definition whose name continues another's after an underscore, here   *)
(* and in the other modules, is a mistaken form of that definition; no     *)
(* specification uses it.  It shows that a property notices the mistake.   *)
(***************************************************************************)
EXTENDS KycCircuit, Sequences

CONSTANTS Ids,           \* integrator ids: 32 bytes, as numbers
          Addresses,     \* accounts that can own an integrator
          Documents,     \* identity documents
          Secrets,       \* user secrets
          RuleSets,      \* rules an owner can set
          MaxDrift,      \* MAX_TIMESTAMP_DRIFT_SECONDS (3600 in the code)
          MaxTime,       \* bound of the ledger clock
          Unregistered   \* stands for an id the contract has no record of

Rules == [minAge : U64, root : Roots, docMaxAge : U64]
Document == [number : Nat, dob : 1 - B64 .. B64 - 1,
             issued : 1 - B64 .. B64 - 1, nat : 1 .. Sentinel - 1]
Config == [owner : Addresses, rules : RuleSets, active : BOOLEAN]
Proof == [doc : Documents, secret : Secrets, rules : RuleSets, id : Field, now : U64]

ASSUME RegistryAssumption ==
    /\ Ids \subseteq Nat
    /\ RuleSets \subseteq Rules
    /\ Documents \subseteq Document
    /\ MaxDrift \in Nat
    /\ MaxTime \in U64
    /\ Unregistered \notin Config

VARIABLES config,      \* DataKey::Integrator -> IntegratorConfig
          nullifiers,  \* the DataKey::Nullifier keys that are set
          ledgerNow,   \* env.ledger().timestamp()
          accepted     \* history: the calls of verify that returned Ok(true)

registryVars == <<config, nullifiers, ledgerNow, accepted>>

-----------------------------------------------------------------------------
(* A proof carries the public signals it was generated for and, hidden in  *)
(* it, the witness.  Signals are field elements, taken to be held in their *)
(* canonical form, below P.                                                *)
SignalsOf(p) ==
    PublicSignals(Nullifier(p.doc.number, p.secret, p.id), p.now, p.rules, p.id)

(* submitProof of the SDK sends the same values without the nullifier, as   *)
(* the comments of verify and of the relayer describe the vector.          *)
SubmittedSignals(p) == Tail(SignalsOf(p))

(* Groth16Verifier::verify_proof.  The pairing equation holds only for the *)
(* signals the proof was generated for, and such a proof exists only if    *)
(* the witness satisfies the circuit (knowledge soundness).                *)
PairingHolds(p, sig) ==
    /\ sig = SignalsOf(p)
    /\ Satisfies(sig, p.doc, p.secret)

(* The distance between the prover's clock and the ledger's.               *)
Drift_SaturatingSub(t) == IF t > ledgerNow THEN 0 ELSE ledgerNow - t

Drift(t) == IF t > ledgerNow THEN t - ledgerNow ELSE ledgerNow - t

TimestampSane(t) == Drift(t) <= MaxDrift

(* The storage key a spent nullifier is recorded under.                    *)
NullifierKey(id, nf) == <<id, nf>>

(* The six public signals against the arguments and the stored rules.      *)
SignalsBound_RootUnchecked(id, nf, t, sig) ==
    /\ sig[1] = nf
    /\ sig[2] = t
    /\ sig[3] = config[id].rules.minAge
    /\ sig[5] = config[id].rules.docMaxAge
    /\ sig[6] = id

SignalsBound_IdUnchecked(id, nf, t, sig) ==
    /\ sig[1] = nf
    /\ sig[2] = t
    /\ sig[3] = config[id].rules.minAge
    /\ sig[4] = config[id].rules.root
    /\ sig[5] = config[id].rules.docMaxAge

SignalsBound(id, nf, t, sig) ==
    /\ sig[1] = nf
    /\ sig[2] = t
    /\ sig[3] = config[id].rules.minAge
    /\ sig[4] = config[id].rules.root
    /\ sig[5] = config[id].rules.docMaxAge
    /\ sig[6] = id

(* What verify returns, its checks in the order of the code.  A count of   *)
(* signals that does not fit the seven points of the default key, the one  *)
(* error of verify_proof, is already excluded by the third check.          *)
VerifyResult(id, nf, t, p, sig) ==
    IF config[id] = Unregistered THEN "IntegratorNotFound"
    ELSE IF ~config[id].active THEN "IntegratorInactive"
    ELSE IF Len(sig) # 6 THEN "WrongPublicInputCount"
    ELSE IF ~TimestampSane(t) THEN "TimestampOutOfRange"
    ELSE IF NullifierKey(id, nf) \in nullifiers THEN "NullifierAlreadyUsed"
    ELSE IF ~SignalsBound(id, nf, t, sig) THEN "PublicInputMismatch"
    ELSE IF ~PairingHolds(p, sig) THEN "OkFalse"
    ELSE "OkTrue"

-----------------------------------------------------------------------------
RegisterIntegrator(caller, id, owner, rules) ==
    /\ caller = owner                      \* owner.require_auth()
    /\ config[id] = Unregistered
    /\ config' = [config EXCEPT ![id] =
                    [owner |-> owner, rules |-> rules, active |-> TRUE]]
    /\ UNCHANGED <<nullifiers, ledgerNow, accepted>>

UpdateIntegratorRules_RootKept(caller, id, rules) ==
    /\ config[id] # Unregistered
    /\ caller = config[id].owner
    /\ config' = [config EXCEPT ![id].rules = [rules EXCEPT !.root = config[id].rules.root]]
    /\ UNCHANGED <<nullifiers, ledgerNow, accepted>>

UpdateIntegratorRules(caller, id, rules) ==
    /\ config[id] # Unregistered
    /\ caller = config[id].owner           \* config.owner.require_auth()
    /\ config' = [config EXCEPT ![id].rules = rules]
    /\ UNCHANGED <<nullifiers, ledgerNow, accepted>>

SetActive(caller, id, active) ==
    /\ config[id] # Unregistered
    /\ caller = config[id].owner
    /\ config' = [config EXCEPT ![id].active = active]
    /\ UNCHANGED <<nullifiers, ledgerNow, accepted>>

Verify_NothingRecorded(id, nf, t, p, sig) ==
    /\ VerifyResult(id, nf, t, p, sig) = "OkTrue"
    /\ accepted' = Append(accepted, [id |-> id, nullifier |-> nf, proof |-> p,
                                     rules |-> config[id].rules,
                                     at |-> ledgerNow])
    /\ UNCHANGED <<config, nullifiers, ledgerNow>>

Verify(id, nf, t, p, sig) ==
    /\ VerifyResult(id, nf, t, p, sig) = "OkTrue"
    /\ nullifiers' = nullifiers \cup {NullifierKey(id, nf)}
    /\ accepted' = Append(accepted, [id |-> id, nullifier |-> nf, proof |-> p,
                                     rules |-> config[id].rules,
                                     at |-> ledgerNow])
    /\ UNCHANGED <<config, ledgerNow>>

VerifyRefused_RecordsBeforePairing(id, nf, t, p, sig) ==
    /\ VerifyResult(id, nf, t, p, sig) # "OkTrue"
    /\ nullifiers' = IF VerifyResult(id, nf, t, p, sig) = "OkFalse"
                      THEN nullifiers \cup {NullifierKey(id, nf)}
                      ELSE nullifiers
    /\ UNCHANGED <<config, ledgerNow, accepted>>

(* Every other outcome of verify, Ok(false) included, writes nothing.      *)
VerifyRefused(id, nf, t, p, sig) ==
    /\ VerifyResult(id, nf, t, p, sig) # "OkTrue"
    /\ UNCHANGED registryVars

(* Ledgers close, each with a later timestamp than the one before.         *)
LedgerCloses ==
    /\ \E t \in ledgerNow + 1 .. MaxTime : ledgerNow' = t
    /\ UNCHANGED <<config, nullifiers, accepted>>

-----------------------------------------------------------------------------
Init ==
    /\ config = [id \in Ids |-> Unregistered]
    /\ nullifiers = {}
    /\ ledgerNow = 0
    /\ accepted = <<>>

OwnerCalls ==
    \E caller \in Addresses, id \in Ids, rules \in RuleSets :
        \/ \E owner \in Addresses : RegisterIntegrator(caller, id, owner, rules)
        \/ UpdateIntegratorRules(caller, id, rules)
        \/ \E active \in BOOLEAN : SetActive(caller, id, active)

(* The signals passed to verify: a proof's public vector as snarkjs        *)
(* returned it, or as submitProof sends it to the relayer, which passes it *)
(* on as it is.                                                            *)
SignalVectors(proofs) ==
    {SignalsOf(q) : q \in proofs} \cup {SubmittedSignals(q) : q \in proofs}

VerifyCalls(proofs) ==
    \E id \in Ids, p \in proofs, q \in proofs, sig \in SignalVectors(proofs) :
        LET nf == Nullifier(q.doc.number, q.secret, q.id)
        IN  \/ Verify(id, nf, q.now, p, sig)
            \/ VerifyRefused(id, nf, q.now, p, sig)

Next == OwnerCalls \/ VerifyCalls(Proof) \/ LedgerCloses

Spec == Init /\ [][Next]_registryVars

-----------------------------------------------------------------------------
Acceptance == [id : Ids, nullifier : Nat \X Secrets \X Field, proof : Proof,
               rules : RuleSets, at : U64]

TypeOK ==
    /\ config \in [Ids -> Config \cup {Unregistered}]
    /\ nullifiers \subseteq Ids \X (Nat \X Secrets \X Field)
    /\ ledgerNow \in 0 .. MaxTime
    /\ accepted \in Seq(Acceptance)

(* No nullifier is accepted twice for the same integrator, whatever the    *)
(* order of replays, rule changes and deactivations in between             *)
(* (lib.rs:236-240 and 297).                                               *)
NullifierAcceptedOnce ==
    \A i, j \in DOMAIN accepted :
        accepted[i].id = accepted[j].id /\ accepted[i].nullifier = accepted[j].nullifier
            => i = j

(* A nullifier is spent exactly by the calls that returned Ok(true): a     *)
(* refused call burns nothing and an accepted one is never forgotten.      *)
SpentExactlyWhenAccepted ==
    nullifiers = {NullifierKey(accepted[i].id, accepted[i].nullifier) :
                      i \in DOMAIN accepted}

(* A proof is accepted only at the integrator it was generated for, and the *)
(* nullifier it spends there is the one its own document and secret give:  *)
(* no other dApp's proof can be replayed here, and nobody else's nullifier *)
(* can be burnt by presenting one's own proof next to it.                  *)
ProofBoundToIntegrator ==
    \A i \in DOMAIN accepted :
        LET a == accepted[i]
        IN  /\ a.proof.id = a.id
            /\ a.nullifier = Nullifier(a.proof.doc.number, a.proof.secret, a.id)

(* Whoever was accepted satisfied the rules that were in force at that     *)
(* moment for that integrator, up to the tolerated drift of the clock: the *)
(* age and the freshness in seconds of real numbers, not field elements,   *)
(* and a nationality off the restricted list.                              *)
AcceptedWereEligible ==
    \A i \in DOMAIN accepted :
        LET a == accepted[i]
        IN  /\ a.at - a.proof.doc.dob >= a.rules.minAge - MaxDrift
            /\ a.at - a.proof.doc.issued <= a.rules.docMaxAge + MaxDrift
            /\ a.rules.root # ZeroRoot /\ a.proof.doc.nat \notin a.rules.root[1]

(* The promise to integrators that this contract implements.               *)
Promise == INSTANCE OneTimeKyc WITH
    policy <- config,
    clock <- ledgerNow,
    grants <- [i \in 1 .. Len(accepted) |->
                 [id |-> accepted[i].id, number |-> accepted[i].proof.doc.number,
                  secret |-> accepted[i].proof.secret]]

ImplementsPromise == Promise!Spec
=============================================================================
