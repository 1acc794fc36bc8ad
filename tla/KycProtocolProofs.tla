------------------------- MODULE KycProtocolProofs -------------------------
(***************************************************************************)
(* Proofs about the registry and the provers, for every value of the       *)
(* constants: what the circuit's gadgets mean about numbers and countries, *)
(* that the contract keeps its type and safety invariants and implements   *)
(* the promise OneTimeKyc states, that the composed system keeps them too, *)
(* and who can prove and pass: neither prover nor contract turns away a    *)
(* user it should not.                                                     *)
(***************************************************************************)
EXTENDS KycProtocol, FiniteSetTheorems, TLAPS

-----------------------------------------------------------------------------
(* Least and greatest elements of bounded sets of naturals.                *)

(* A nonempty set of naturals with an upper bound has a greatest element:  *)
(* the sets of the elements above each element are finite, and a minimal   *)
(* one among them is empty.                                                *)
LEMMA GreatestExists ==
    ASSUME NEW S \in SUBSET Nat, S # {}, NEW n \in Nat, \A s \in S : s <= n
    PROVE  \E g \in S : \A s \in S : s <= g
<1>. DEFINE above(x) == {y \in S : y > x}
            F == {above(x) : x \in S}
            R == StrictSubsetOrdering(S)
<1>1. IsFiniteSet(S)
  BY FS_BoundedSetOfNaturals
<1>2. F \subseteq FiniteSubsetsOf(S)
  <2>1. F \subseteq SUBSET S
    OBVIOUS
  <2>. QED BY <1>1, <2>1, FS_FiniteSubsetsOfFinite
<1>3. F # {}
  OBVIOUS
<1>4. IsWellFoundedOn(R, FiniteSubsetsOf(S))
  BY FS_StrictSubsetOrderingWellFounded
<1>5. PICK T \in F : \A U \in F : <<U, T>> \notin R
  <2>. HIDE DEF R, F
  <2>. QED BY <1>2, <1>3, <1>4, WFMin
<1>6. PICK g \in S : T = above(g)
  OBVIOUS
<1>7. ASSUME NEW s \in S, s > g
      PROVE  FALSE
  <2>1. \A y \in S : y \in Nat
    OBVIOUS
  <2>2. above(s) \subseteq above(g)
    <3>1. ASSUME NEW y \in S, y > s
          PROVE  y > g
      BY <1>7, <2>1, <3>1
    <3>. QED BY <3>1
  <2>3. s \in above(g) /\ s \notin above(s)
    BY <1>7, <2>1
  <2>4. above(s) \in SUBSET S /\ above(g) \in SUBSET S
    OBVIOUS
  <2>5. <<above(s), above(g)>> \in R
    BY <2>2, <2>3, <2>4 DEF StrictSubsetOrdering
  <2>. QED BY <1>5, <1>6, <2>5
<1>. QED BY <1>7

(* The mirror image: a nonempty set of naturals below n has a least one.   *)
LEMMA LeastExists ==
    ASSUME NEW S \in SUBSET Nat, S # {}, NEW n \in Nat, \A s \in S : s <= n
    PROVE  \E l \in S : \A s \in S : l <= s
<1>. DEFINE M == {n - s : s \in S}
<1>0. \A s \in S : s \in Nat /\ s <= n
  OBVIOUS
<1>1. M \in SUBSET Nat /\ M # {} /\ \A m \in M : m <= n
  <2>1. \A s \in S : n - s \in Nat /\ n - s <= n
    BY <1>0
  <2>. QED BY <2>1
<1>2. PICK g \in M : \A m \in M : m <= g
  <2>. HIDE DEF M
  <2>. QED BY <1>1, GreatestExists
<1>3. PICK l \in S : g = n - l
  OBVIOUS
<1>4. ASSUME NEW s \in S
      PROVE  l <= s
  <2>1. n - s <= g
    BY <1>2
  <2>. QED BY <1>0, <1>3, <2>1
<1>. QED BY <1>4

-----------------------------------------------------------------------------
(* What the gadgets mean.  Timestamps and ages are 64-bit; a date is an    *)
(* integer number of seconds, negative before 1970.                        *)

SignedSeconds == 1 - B64 .. B64 - 1

(* The age gadget (age_check.circom) holds exactly when the age in seconds *)
(* reaches the minimum, and exceeds it by less than 2^64.                  *)
LEMMA AgeCheckMeaning ==
    ASSUME NEW now \in U64, NEW dob \in SignedSeconds, NEW minAge \in U64
    PROVE  AgeCheck(now, ToField(dob), minAge)
             <=> /\ now - dob >= minAge
                 /\ now - dob - minAge < B64
BY FieldAssumption DEF AgeCheck, GreaterEqThan, LessThan, FieldAdd, FieldSub,
                       ToField, U64, SignedSeconds

(* The freshness gadget (freshness_check.circom) holds exactly when the    *)
(* document is no older than the maximum, by less than 2^64 seconds.       *)
LEMMA FreshnessMeaning ==
    ASSUME NEW now \in U64, NEW issued \in SignedSeconds, NEW maxAge \in U64
    PROVE  FreshnessCheck(now, ToField(issued), maxAge)
             <=> /\ now - issued <= maxAge
                 /\ maxAge - (now - issued) < B64
BY FieldAssumption DEF FreshnessCheck, LessEqThan, LessThan, FieldAdd, FieldSub,
                       ToField, U64, SignedSeconds

(* The country comparators are the order of the integers on 32-bit values. *)
LEMMA CountryComparators ==
    ASSUME NEW a \in 0 .. B32 - 1, NEW b \in 0 .. B32 - 1
    PROVE  /\ GreaterThan(B32, a, b) <=> a > b
           /\ LessThan(B32, a, b) <=> a < b
BY FieldAssumption DEF GreaterThan, LessThan, FieldAdd, FieldSub

(* A nationality enclosed by a leaf of the tree is not in the tree's list, *)
(* and no tree has the zero root.                                          *)
LEMMA NonMemberMeaning ==
    ASSUME NEW nat \in 1 .. Sentinel - 1, NEW root \in Roots, NonMember(nat, root)
    PROVE  root # ZeroRoot /\ nat \notin root[1]
<1>1. root # ZeroRoot
  BY DEF NonMember, Brackets
<1>2. PICK codes \in SUBSET Codes : root = RootOf(codes)
  BY <1>1 DEF Roots
<1>. DEFINE sorted == codes \cup {0, Sentinel}
<1>3. sorted \subseteq 0 .. B32 - 1 /\ nat \in 0 .. B32 - 1
  BY CodesAssumption, FieldAssumption
<1>4. PICK pair \in sorted \X sorted :
        /\ \A c \in sorted : ~(pair[1] < c /\ c < pair[2])
        /\ GreaterThan(B32, nat, pair[1]) /\ LessThan(B32, nat, pair[2])
  BY <1>1, <1>2 DEF NonMember, Brackets, RootOf
<1>5. pair[1] < nat /\ nat < pair[2]
  <2>1. pair[1] \in 0 .. B32 - 1 /\ pair[2] \in 0 .. B32 - 1
    BY <1>3
  <2>. QED BY <1>3, <1>4, <2>1, CountryComparators
<1>6. nat \notin codes
  BY <1>4, <1>5
<1>. QED BY <1>1, <1>2, <1>6 DEF RootOf

(* The country gadget turns nobody away that it should let through: a code *)
(* off the list lies strictly between two neighbours of the closed list,   *)
(* and a code on it does not.                                              *)
LEMMA NonMemberComplete ==
    ASSUME NEW nat \in 1 .. Sentinel - 1, NEW root \in Roots,
           root # ZeroRoot, nat \notin root[1]
    PROVE  NonMember(nat, root)
<1>1. PICK codes \in SUBSET Codes : root = RootOf(codes)
  BY DEF Roots
<1>. DEFINE sorted == codes \cup {0, Sentinel}
            Low == {c \in sorted : c < nat}
            High == {c \in sorted : c > nat}
<1>2. /\ Sentinel \in Nat /\ nat \in Nat /\ 0 < nat /\ nat < Sentinel
      /\ sorted \subseteq 0 .. B32 - 1 /\ nat \in 0 .. B32 - 1
      /\ \A c \in sorted : c \in Nat /\ c <= Sentinel
  BY CodesAssumption, FieldAssumption
<1>3. PICK low \in Low : \A c \in Low : c <= low
  <2>1. Low \in SUBSET Nat /\ 0 \in Low /\ \A c \in Low : c <= Sentinel
    BY <1>2
  <2>. HIDE DEF Low
  <2>. QED BY <1>2, <2>1, GreatestExists
<1>4. PICK high \in High : \A c \in High : high <= c
  <2>1. High \in SUBSET Nat /\ Sentinel \in High /\ \A c \in High : c <= Sentinel
    BY <1>2
  <2>. HIDE DEF High
  <2>. QED BY <1>2, <2>1, LeastExists
<1>5. nat \notin sorted
  BY <1>1, <1>2 DEF RootOf
<1>6. /\ low \in sorted /\ high \in sorted /\ low < nat /\ nat < high
      /\ \A c \in sorted : ~(low < c /\ c < high)
  BY <1>2, <1>3, <1>4, <1>5
<1>7. <<low, high>> \in Brackets(root)
  <2>1. root # ZeroRoot /\ root[1] = codes
    BY <1>1 DEF RootOf
  <2>2. low < high
    BY <1>2, <1>6
  <2>. QED BY <1>6, <2>1, <2>2 DEF Brackets
<1>8. GreaterThan(B32, nat, low) /\ LessThan(B32, nat, high)
  BY <1>2, <1>6, CountryComparators
<1>. QED BY <1>7, <1>8 DEF NonMember

-----------------------------------------------------------------------------
(* An accepted proof shows that its holder satisfied the integrator's      *)
(* rules at the time the proof names.                                      *)
LEMMA SatisfiesMeansEligible ==
    ASSUME NEW p \in Proof, NEW rules \in RuleSets,
           p.rules.minAge = rules.minAge, p.rules.root = rules.root,
           p.rules.docMaxAge = rules.docMaxAge,
           Satisfies(SignalsOf(p), p.doc, p.secret)
    PROVE  /\ p.now - p.doc.dob >= rules.minAge
           /\ p.now - p.doc.issued <= rules.docMaxAge
           /\ rules.root # ZeroRoot /\ p.doc.nat \notin rules.root[1]
<1>1. /\ p.now \in U64 /\ p.doc.dob \in SignedSeconds
      /\ p.doc.issued \in SignedSeconds /\ p.doc.nat \in 1 .. Sentinel - 1
  BY RegistryAssumption DEF Proof, Document, SignedSeconds
<1>2. rules.minAge \in U64 /\ rules.root \in Roots /\ rules.docMaxAge \in U64
  BY RegistryAssumption DEF Rules
<1>3. /\ AgeCheck(p.now, ToField(p.doc.dob), rules.minAge)
      /\ NonMember(p.doc.nat, rules.root)
      /\ FreshnessCheck(p.now, ToField(p.doc.issued), rules.docMaxAge)
  BY DEF Satisfies, SignalsOf, PublicSignals
<1>. QED BY <1>1, <1>2, <1>3, AgeCheckMeaning, FreshnessMeaning, NonMemberMeaning

-----------------------------------------------------------------------------
(* The inductive invariant.  That a nullifier is accepted once follows     *)
(* from the set of spent keys being exactly the accepted ones, and that    *)
(* nothing is granted twice needs each accepted nullifier to be the one of *)
(* the proof it came with.                                                 *)
IInv == /\ TypeOK
        /\ NullifierAcceptedOnce
        /\ SpentExactlyWhenAccepted
        /\ ProofBoundToIntegrator
        /\ AcceptedWereEligible

(* The contract starts with nothing spent and nothing accepted.            *)
LEMMA InitIInv == Init => IInv
BY RegistryAssumption
DEF Init, IInv, TypeOK, NullifierAcceptedOnce, SpentExactlyWhenAccepted,
    ProofBoundToIntegrator, AcceptedWereEligible, U64

(* A call that leaves the nullifiers and the history alone keeps the four  *)
(* facts about them.                                                       *)
LEMMA HistoryFrame ==
    ASSUME IInv, TypeOK', UNCHANGED <<nullifiers, accepted>>
    PROVE  IInv'
BY DEF IInv, NullifierAcceptedOnce, SpentExactlyWhenAccepted,
       ProofBoundToIntegrator, AcceptedWereEligible, NullifierKey

(* The owner's three operations and the ledger's clock.                    *)
LEMMA RegisterKeepsIInv ==
    ASSUME IInv, NEW id \in Ids, NEW caller \in Addresses, NEW owner \in Addresses,
           NEW rules \in RuleSets, RegisterIntegrator(caller, id, owner, rules)
    PROVE  IInv'
<1>1. TypeOK'
  BY DEF IInv, TypeOK, RegisterIntegrator, Config
<1>. QED BY <1>1, HistoryFrame DEF RegisterIntegrator

LEMMA UpdateKeepsIInv ==
    ASSUME IInv, NEW id \in Ids, NEW caller \in Addresses,
           NEW rules \in RuleSets, UpdateIntegratorRules(caller, id, rules)
    PROVE  IInv'
<1>1. config[id] \in Config
  BY DEF IInv, TypeOK, UpdateIntegratorRules
<1>2. [config[id] EXCEPT !.rules = rules] \in Config
  BY <1>1 DEF Config
<1>3. TypeOK'
  BY <1>2 DEF IInv, TypeOK, UpdateIntegratorRules
<1>. QED BY <1>3, HistoryFrame DEF UpdateIntegratorRules

LEMMA SetActiveKeepsIInv ==
    ASSUME IInv, NEW id \in Ids, NEW caller \in Addresses,
           NEW active \in BOOLEAN, SetActive(caller, id, active)
    PROVE  IInv'
<1>1. config[id] \in Config
  BY DEF IInv, TypeOK, SetActive
<1>2. [config[id] EXCEPT !.active = active] \in Config
  BY <1>1 DEF Config
<1>3. TypeOK'
  BY <1>2 DEF IInv, TypeOK, SetActive
<1>. QED BY <1>3, HistoryFrame DEF SetActive

LEMMA LedgerKeepsIInv ==
    ASSUME IInv, LedgerCloses
    PROVE  IInv'
<1>1. TypeOK'
  BY RegistryAssumption DEF IInv, TypeOK, LedgerCloses
<1>. QED BY <1>1, HistoryFrame DEF LedgerCloses

(* What a call of verify that returns Ok(true) has established, and what   *)
(* it appends to the history: the whole chain of checks, read off the      *)
(* signals the proof was generated for.                                    *)
LEMMA VerifyAppends ==
    ASSUME IInv, NEW id \in Ids, NEW p \in Proof, NEW q \in Proof, NEW sig,
           NEW nf, nf = Nullifier(q.doc.number, q.secret, q.id),
           NEW t, t = q.now, Verify(id, nf, t, p, sig)
    PROVE  \E a \in Acceptance :
             /\ accepted' = Append(accepted, a)
             /\ nullifiers' = nullifiers \cup {NullifierKey(a.id, a.nullifier)}
             /\ NullifierKey(a.id, a.nullifier) \notin nullifiers
             /\ UNCHANGED <<config, ledgerNow>>
             /\ config[a.id] \in Config /\ config[a.id].active
             /\ a.rules = config[a.id].rules /\ a.at = ledgerNow
             /\ a.proof.id = a.id
             /\ a.nullifier = Nullifier(a.proof.doc.number, a.proof.secret, a.id)
             /\ a.proof.now \in ledgerNow - MaxDrift .. ledgerNow + MaxDrift
             /\ a.proof.now - a.proof.doc.dob >= a.rules.minAge
             /\ a.proof.now - a.proof.doc.issued <= a.rules.docMaxAge
             /\ a.rules.root # ZeroRoot /\ a.proof.doc.nat \notin a.rules.root[1]
<1>1. /\ TypeOK /\ t \in U64 /\ VerifyResult(id, nf, t, p, sig) = "OkTrue"
  BY DEF IInv, Verify, Proof
<1>2. /\ config[id] \in Config /\ config[id].active
      /\ NullifierKey(id, nf) \notin nullifiers
      /\ Drift(t) <= MaxDrift
      /\ p.id = id /\ p.now = t
      /\ nf = Nullifier(p.doc.number, p.secret, id)
      /\ p.rules.minAge = config[id].rules.minAge
      /\ p.rules.root = config[id].rules.root
      /\ p.rules.docMaxAge = config[id].rules.docMaxAge
      /\ Satisfies(SignalsOf(p), p.doc, p.secret)
  <2>1. /\ config[id] # Unregistered /\ config[id].active
        /\ TimestampSane(t)
        /\ NullifierKey(id, nf) \notin nullifiers
        /\ SignalsBound(id, nf, t, sig)
        /\ PairingHolds(p, sig)
    BY <1>1 DEF VerifyResult
  <2>2. sig = <<Nullifier(p.doc.number, p.secret, p.id), p.now, p.rules.minAge,
                p.rules.root, p.rules.docMaxAge, p.id>>
    BY <2>1 DEF PairingHolds, SignalsOf, PublicSignals
  <2>3. config[id] \in Config
    BY <1>1, <2>1 DEF TypeOK
  <2>. QED BY <2>1, <2>2, <2>3 DEF SignalsBound, PairingHolds, TimestampSane
<1>3. config[id].rules \in RuleSets
  BY <1>2 DEF Config
<1>4. /\ p.now - p.doc.dob >= config[id].rules.minAge
      /\ p.now - p.doc.issued <= config[id].rules.docMaxAge
      /\ config[id].rules.root # ZeroRoot
      /\ p.doc.nat \notin config[id].rules.root[1]
  BY <1>2, <1>3, SatisfiesMeansEligible
<1>5. p.now \in ledgerNow - MaxDrift .. ledgerNow + MaxDrift
  BY <1>1, <1>2, RegistryAssumption DEF Drift, TypeOK, U64
<1>. DEFINE a == [id |-> id, nullifier |-> nf, proof |-> p,
                  rules |-> config[id].rules, at |-> ledgerNow]
<1>6. nf \in Nat \X Secrets \X Field
  BY RegistryAssumption DEF Nullifier, Proof, Document
<1>7. ledgerNow \in U64
  BY <1>1, FieldAssumption, RegistryAssumption DEF TypeOK, U64
<1>8. a \in Acceptance
  BY <1>3, <1>6, <1>7 DEF Acceptance
<1>9. /\ accepted' = Append(accepted, a)
      /\ nullifiers' = nullifiers \cup {NullifierKey(a.id, a.nullifier)}
      /\ UNCHANGED <<config, ledgerNow>>
  BY DEF Verify
<1>. QED BY <1>2, <1>4, <1>5, <1>8, <1>9

(* A bound met at the prover's time is met at the ledger's up to the drift. *)
LEMMA WithinDrift ==
    ASSUME NEW now \in Int, NEW drift \in Int, NEW t \in now - drift .. now + drift,
           NEW date \in Int, NEW bound \in Int
    PROVE  /\ t - date >= bound => now - date >= bound - drift
           /\ t - date <= bound => now - date <= bound + drift
OBVIOUS

(* The one handler that accepts: its checks are what the invariant says.   *)
LEMMA VerifyKeepsIInv ==
    ASSUME IInv, NEW id \in Ids, NEW p \in Proof, NEW q \in Proof, NEW sig,
           NEW nf, nf = Nullifier(q.doc.number, q.secret, q.id),
           NEW t, t = q.now, Verify(id, nf, t, p, sig)
    PROVE  IInv'
<1>1. PICK a \in Acceptance :
             /\ accepted' = Append(accepted, a)
             /\ nullifiers' = nullifiers \cup {NullifierKey(a.id, a.nullifier)}
             /\ NullifierKey(a.id, a.nullifier) \notin nullifiers
             /\ UNCHANGED <<config, ledgerNow>>
             /\ config[a.id] \in Config /\ config[a.id].active
             /\ a.rules = config[a.id].rules /\ a.at = ledgerNow
             /\ a.proof.id = a.id
             /\ a.nullifier = Nullifier(a.proof.doc.number, a.proof.secret, a.id)
             /\ a.proof.now \in ledgerNow - MaxDrift .. ledgerNow + MaxDrift
             /\ a.proof.now - a.proof.doc.dob >= a.rules.minAge
             /\ a.proof.now - a.proof.doc.issued <= a.rules.docMaxAge
             /\ a.rules.root # ZeroRoot /\ a.proof.doc.nat \notin a.rules.root[1]
  BY VerifyAppends
<1>2. TypeOK /\ accepted \in Seq(Acceptance)
  BY DEF IInv, TypeOK
<1>3. /\ DOMAIN accepted' = DOMAIN accepted \cup {Len(accepted) + 1}
      /\ accepted'[Len(accepted) + 1] = a
      /\ \A i \in DOMAIN accepted : accepted'[i] = accepted[i]
      /\ Len(accepted) + 1 \notin DOMAIN accepted
  BY <1>1, <1>2
<1>4. TypeOK'
  <2>1. accepted' \in Seq(Acceptance)
    BY <1>1, <1>2
  <2>2. nullifiers' \subseteq Ids \X (Nat \X Secrets \X Field)
    BY <1>1, <1>2 DEF TypeOK, NullifierKey, Acceptance
  <2>. QED BY <1>1, <1>2, <2>1, <2>2 DEF TypeOK
<1>5. SpentExactlyWhenAccepted'
  BY <1>1, <1>3 DEF IInv, SpentExactlyWhenAccepted, NullifierKey
<1>6. NullifierAcceptedOnce'
  <2>1. \A i \in DOMAIN accepted :
          ~(accepted[i].id = a.id /\ accepted[i].nullifier = a.nullifier)
    BY <1>1 DEF IInv, SpentExactlyWhenAccepted
  <2>. QED BY <1>3, <2>1 DEF IInv, NullifierAcceptedOnce
<1>7. ProofBoundToIntegrator'
  BY <1>1, <1>3 DEF IInv, ProofBoundToIntegrator
<1>8. AcceptedWereEligible'
  <2>1. /\ ledgerNow \in Int /\ MaxDrift \in Int
        /\ a.rules \in Rules /\ a.proof.doc \in Document
    BY <1>1, <1>2, RegistryAssumption, FieldAssumption DEF TypeOK, Acceptance, Proof
  <2>2. /\ a.rules.minAge \in Int /\ a.rules.docMaxAge \in Int
        /\ a.proof.doc.dob \in Int /\ a.proof.doc.issued \in Int
    BY <2>1, FieldAssumption DEF Rules, Document, U64
  <2>3. a.proof.now \in ledgerNow - MaxDrift .. ledgerNow + MaxDrift
    BY <1>1
  <2>4. /\ ledgerNow - a.proof.doc.dob >= a.rules.minAge - MaxDrift
        /\ ledgerNow - a.proof.doc.issued <= a.rules.docMaxAge + MaxDrift
    BY <1>1, <2>1, <2>2, <2>3, WithinDrift
  <2>. QED BY <1>1, <1>3, <2>4 DEF IInv, AcceptedWereEligible
<1>. QED BY <1>4, <1>5, <1>6, <1>7, <1>8 DEF IInv

(* The invariant holds in every state of the contract.                     *)
THEOREM InvariantHolds == Spec => []IInv
<1>1. IInv /\ [Next]_registryVars => IInv'
  <2>. SUFFICES ASSUME IInv, [Next]_registryVars
                PROVE  IInv'
    OBVIOUS
  <2>1. CASE OwnerCalls
    <3>1. PICK caller \in Addresses, id \in Ids, rules \in RuleSets :
            \/ \E owner \in Addresses : RegisterIntegrator(caller, id, owner, rules)
            \/ UpdateIntegratorRules(caller, id, rules)
            \/ \E active \in BOOLEAN : SetActive(caller, id, active)
      BY <2>1 DEF OwnerCalls
    <3>2. CASE \E owner \in Addresses : RegisterIntegrator(caller, id, owner, rules)
      BY <3>2, RegisterKeepsIInv
    <3>3. CASE UpdateIntegratorRules(caller, id, rules)
      BY <3>3, UpdateKeepsIInv
    <3>4. CASE \E active \in BOOLEAN : SetActive(caller, id, active)
      BY <3>4, SetActiveKeepsIInv
    <3>. QED BY <3>1, <3>2, <3>3, <3>4
  <2>2. CASE VerifyCalls(Proof)
    <3>1. PICK id \in Ids, p \in Proof, q \in Proof, sig \in SignalVectors(Proof) :
            LET nf == Nullifier(q.doc.number, q.secret, q.id)
            IN  \/ Verify(id, nf, q.now, p, sig)
                \/ VerifyRefused(id, nf, q.now, p, sig)
      BY <2>2 DEF VerifyCalls
    <3>2. CASE Verify(id, Nullifier(q.doc.number, q.secret, q.id), q.now, p, sig)
      BY <3>2, VerifyKeepsIInv
    <3>3. CASE UNCHANGED registryVars
      <4>1. TypeOK'
        BY <3>3 DEF IInv, TypeOK, registryVars
      <4>. QED BY <3>3, <4>1, HistoryFrame DEF registryVars
    <3>. QED BY <3>1, <3>2, <3>3 DEF VerifyRefused
  <2>3. CASE LedgerCloses
    BY <2>3, LedgerKeepsIInv
  <2>4. CASE UNCHANGED registryVars
    <3>1. TypeOK'
      BY <2>4 DEF IInv, TypeOK, registryVars
    <3>. QED BY <2>4, <3>1, HistoryFrame DEF registryVars
  <2>. QED BY <2>1, <2>2, <2>3, <2>4 DEF Next
<1>. QED BY <1>1, InitIInv, PTL DEF Spec

(* The configuration, the spent keys, the clock and the history keep their *)
(* types through every call of the contract.                               *)
THEOREM TypeInvariant == Spec => []TypeOK
BY InvariantHolds, PTL DEF IInv

(* No nullifier is accepted twice at an integrator, for any number of      *)
(* users, integrators, rules, replays and ledgers.                         *)
THEOREM NullifiersAcceptedOnce == Spec => []NullifierAcceptedOnce
BY InvariantHolds, PTL DEF IInv

(* The keys the contract holds are those of the accepted calls, no others. *)
THEOREM SpentAreAccepted == Spec => []SpentExactlyWhenAccepted
BY InvariantHolds, PTL DEF IInv

(* An accepted proof was made for the integrator that accepted it and      *)
(* spends its own nullifier.                                               *)
THEOREM ProofsBoundToIntegrator == Spec => []ProofBoundToIntegrator
BY InvariantHolds, PTL DEF IInv

(* Soundness end to end, through the comparators and the field: whoever    *)
(* was accepted was of age, held a fresh enough document and was not from  *)
(* a listed country, within the tolerated drift of the clock.              *)
THEOREM AcceptedAreEligible == Spec => []AcceptedWereEligible
BY InvariantHolds, PTL DEF IInv

-----------------------------------------------------------------------------
(* The contract implements the promise.  Each call maps to one step of it, *)
(* the invariant supplying what Grant's guards ask for.                    *)
GrantOf(a) == [id |-> a.id, number |-> a.proof.doc.number, secret |-> a.proof.secret]
Grants == [i \in 1 .. Len(accepted) |-> GrantOf(accepted[i])]

LEMMA OwnerStepsImplement ==
    ASSUME IInv, OwnerCalls
    PROVE  Promise!Next \/ UNCHANGED Promise!vars
<1>1. PICK caller \in Addresses, id \in Ids, rules \in RuleSets :
            \/ \E owner \in Addresses : RegisterIntegrator(caller, id, owner, rules)
            \/ UpdateIntegratorRules(caller, id, rules)
            \/ \E active \in BOOLEAN : SetActive(caller, id, active)
  BY DEF OwnerCalls
<1>2. CASE \E owner \in Addresses : RegisterIntegrator(caller, id, owner, rules)
  <2>1. PICK owner \in Addresses : RegisterIntegrator(caller, id, owner, rules)
    BY <1>2
  <2>2. Promise!Enrol(id, owner, rules)
    BY <2>1 DEF RegisterIntegrator, Promise!Enrol
  <2>. QED BY <2>2 DEF Promise!Next
<1>3. CASE UpdateIntegratorRules(caller, id, rules)
  <2>1. config[id] \in Config
    BY <1>3 DEF IInv, TypeOK, UpdateIntegratorRules
  <2>2. [owner |-> config[id].owner, rules |-> rules, active |-> config[id].active]
          = [config[id] EXCEPT !.rules = rules]
    BY <2>1 DEF Config
  <2>3. Promise!Amend(id, rules, config[id].active)
    BY <1>3, <2>2 DEF UpdateIntegratorRules, Promise!Amend
  <2>4. config[id].active \in BOOLEAN
    BY <2>1 DEF Config
  <2>. QED BY <2>3, <2>4 DEF Promise!Next
<1>4. CASE \E active \in BOOLEAN : SetActive(caller, id, active)
  <2>1. PICK active \in BOOLEAN : SetActive(caller, id, active)
    BY <1>4
  <2>2. config[id] \in Config
    BY <2>1 DEF IInv, TypeOK, SetActive
  <2>3. [owner |-> config[id].owner, rules |-> config[id].rules, active |-> active]
          = [config[id] EXCEPT !.active = active]
    BY <2>2 DEF Config
  <2>4. Promise!Amend(id, config[id].rules, active)
    BY <2>1, <2>3 DEF SetActive, Promise!Amend
  <2>5. config[id].rules \in RuleSets
    BY <2>2 DEF Config
  <2>. QED BY <2>4, <2>5 DEF Promise!Next
<1>. QED BY <1>1, <1>2, <1>3, <1>4

LEMMA VerifyImplementsGrant ==
    ASSUME IInv, NEW id \in Ids, NEW p \in Proof, NEW q \in Proof, NEW sig,
           NEW nf, nf = Nullifier(q.doc.number, q.secret, q.id),
           NEW t, t = q.now, Verify(id, nf, t, p, sig)
    PROVE  Promise!Next
<1>1. PICK a \in Acceptance :
             /\ accepted' = Append(accepted, a)
             /\ nullifiers' = nullifiers \cup {NullifierKey(a.id, a.nullifier)}
             /\ NullifierKey(a.id, a.nullifier) \notin nullifiers
             /\ UNCHANGED <<config, ledgerNow>>
             /\ config[a.id] \in Config /\ config[a.id].active
             /\ a.rules = config[a.id].rules /\ a.at = ledgerNow
             /\ a.proof.id = a.id
             /\ a.nullifier = Nullifier(a.proof.doc.number, a.proof.secret, a.id)
             /\ a.proof.now \in ledgerNow - MaxDrift .. ledgerNow + MaxDrift
             /\ a.proof.now - a.proof.doc.dob >= a.rules.minAge
             /\ a.proof.now - a.proof.doc.issued <= a.rules.docMaxAge
             /\ a.rules.root # ZeroRoot /\ a.proof.doc.nat \notin a.rules.root[1]
  BY VerifyAppends
<1>2. a.id \in Ids /\ a.proof.doc \in Documents /\ a.proof.secret \in Secrets
  BY DEF Acceptance, Proof
<1>3. accepted \in Seq(Acceptance)
  BY DEF IInv, TypeOK
<1>4. Grants' = Append(Grants, GrantOf(a))
  BY <1>1, <1>3 DEF Grants
<1>5. \A i \in DOMAIN accepted :
        ~(accepted[i].id = a.id /\ accepted[i].proof.doc.number = a.proof.doc.number
                                /\ accepted[i].proof.secret = a.proof.secret)
  <2>. SUFFICES ASSUME NEW i \in DOMAIN accepted, accepted[i].id = a.id,
                       accepted[i].proof.doc.number = a.proof.doc.number,
                       accepted[i].proof.secret = a.proof.secret
                PROVE  FALSE
    OBVIOUS
  <2>1. accepted[i].nullifier = a.nullifier
    BY <1>1 DEF IInv, ProofBoundToIntegrator
  <2>2. NullifierKey(a.id, a.nullifier) \in nullifiers
    BY <2>1 DEF IInv, SpentExactlyWhenAccepted
  <2>. QED BY <1>1, <2>2
<1>6. Promise!Eligible(a.proof.doc, config[a.id].rules, ledgerNow)
  BY <1>1 DEF Promise!Eligible, Promise!EligibleAt, ZeroRoot
<1>7. \A i \in DOMAIN Grants :
        ~(Grants[i].id = a.id /\ Grants[i].number = a.proof.doc.number
                              /\ Grants[i].secret = a.proof.secret)
  BY <1>3, <1>5 DEF Grants, GrantOf
<1>8. config[a.id] # Unregistered
  BY <1>1, RegistryAssumption
<1>9. Promise!Grant(a.id, a.proof.doc, a.proof.secret)
  BY <1>1, <1>4, <1>6, <1>7, <1>8 DEF Promise!Grant, Grants, GrantOf
<1>. QED BY <1>2, <1>9 DEF Promise!Next

(* Every behaviour of the contract is, seen through the mapping of         *)
(* KycRegistry, a behaviour of OneTimeKyc.                                 *)
THEOREM RegistryImplementsPromise == Spec => ImplementsPromise
<1>1. Init => Promise!Init
  BY DEF Init, Promise!Init
<1>2. IInv /\ [Next]_registryVars => [Promise!Next]_(Promise!vars)
  <2>. SUFFICES ASSUME IInv, [Next]_registryVars
                PROVE  Promise!Next \/ UNCHANGED Promise!vars
    OBVIOUS
  <2>1. CASE OwnerCalls
    BY <2>1, OwnerStepsImplement
  <2>2. CASE VerifyCalls(Proof)
    <3>1. PICK id \in Ids, p \in Proof, q \in Proof, sig \in SignalVectors(Proof) :
            LET nf == Nullifier(q.doc.number, q.secret, q.id)
            IN  \/ Verify(id, nf, q.now, p, sig)
                \/ VerifyRefused(id, nf, q.now, p, sig)
      BY <2>2 DEF VerifyCalls
    <3>2. CASE Verify(id, Nullifier(q.doc.number, q.secret, q.id), q.now, p, sig)
      BY <3>2, VerifyImplementsGrant
    <3>3. CASE UNCHANGED registryVars
      BY <3>3 DEF registryVars, Promise!vars
    <3>. QED BY <3>1, <3>2, <3>3 DEF VerifyRefused
  <2>3. CASE LedgerCloses
    <3>1. ledgerNow' \in Nat /\ ledgerNow' > ledgerNow
      BY <2>3, RegistryAssumption DEF LedgerCloses, IInv, TypeOK
    <3>2. Promise!Advance
      BY <2>3, <3>1 DEF LedgerCloses, Promise!Advance
    <3>. QED BY <3>2 DEF Promise!Next
  <2>4. CASE UNCHANGED registryVars
    BY <2>4 DEF registryVars, Promise!vars
  <2>. QED BY <2>1, <2>2, <2>3, <2>4 DEF Next
<1>. QED BY <1>1, <1>2, InvariantHolds, PTL DEF Spec, ImplementsPromise, Promise!Spec

-----------------------------------------------------------------------------
(* The proofs in circulation satisfy the circuit, no two share a secret,   *)
(* and whatever was accepted is one of them.                               *)
ProofsFromProvers ==
    /\ \A p \in proofs : Satisfies(SignalsOf(p), p.doc, p.secret)
    /\ \A p, q \in proofs : p.secret = q.secret => p = q
    /\ \A i \in DOMAIN accepted : accepted[i].proof \in proofs

(* Steps of the composed system are steps of the contract or leave it be.  *)
LEMMA ProtocolStep ==
    ASSUME proofs \subseteq Proof, [NextProtocol]_vars
    PROVE  [Next]_registryVars
<1>1. CASE \E doc \in Documents, id \in Ids, rules \in RuleSets, now \in 0 .. MaxTime :
             GenerateProof(doc, id, rules, now)
  BY <1>1 DEF GenerateProof
<1>2. CASE OwnerCalls \/ LedgerCloses
  BY <1>2 DEF Next
<1>3. CASE VerifyCalls(proofs)
  <2>1. SignalVectors(proofs) \subseteq SignalVectors(Proof)
    BY DEF SignalVectors
  <2>2. VerifyCalls(Proof)
    BY <1>3, <2>1 DEF VerifyCalls
  <2>. QED BY <2>2 DEF Next
<1>4. CASE UNCHANGED vars
  BY <1>4 DEF vars
<1>. QED BY <1>1, <1>2, <1>3, <1>4 DEF NextProtocol

(* Every proof a prover adds is well typed.                                *)
LEMMA GeneratedIsProof ==
    ASSUME proofs \subseteq Proof,
           NEW doc \in Documents, NEW id \in Ids, NEW rules \in RuleSets,
           NEW now \in 0 .. MaxTime, GenerateProof(doc, id, rules, now)
    PROVE  \E p \in Proof : /\ proofs' = proofs \cup {p}
                            /\ Satisfies(SignalsOf(p), p.doc, p.secret)
                            /\ \A q \in proofs : q.secret # p.secret
<1>1. PICK secret \in FreshSecrets :
        /\ Satisfies(SignalsOf(ProofFor(doc, secret, rules, id, now)), doc, secret)
        /\ proofs' = proofs \cup {ProofFor(doc, secret, rules, id, now)}
  BY DEF GenerateProof
<1>. DEFINE p == ProofFor(doc, secret, rules, id, now)
<1>2. /\ p.doc = doc /\ p.secret = secret
      /\ p.rules = [rules EXCEPT !.root = ParsedRoot(@)]
      /\ p \in [doc : {doc}, secret : {secret}, id : {IdToField(id)}, now : {now},
                rules : {[rules EXCEPT !.root = ParsedRoot(@)]}]
  BY DEF ProofFor
<1>3. now \in U64 /\ IdToField(id) \in Field
  BY RegistryAssumption, FieldAssumption DEF U64, Field, IdToField
<1>4. [rules EXCEPT !.root = ParsedRoot(@)] = rules
  <2>1. rules \in Rules /\ SignalsOf(p)[4] = ParsedRoot(rules.root)
    BY <1>2, RegistryAssumption DEF Rules, SignalsOf, PublicSignals
  <2>2. NonMember(doc.nat, ParsedRoot(rules.root))
    BY <1>1, <2>1 DEF Satisfies
  <2>3. ParsedRoot(rules.root) = rules.root
    BY <2>2 DEF NonMember, Brackets, ParsedRoot
  <2>. QED BY <2>1, <2>3 DEF Rules
<1>5. secret \in Secrets /\ \A q \in proofs : q.secret # secret
  BY DEF FreshSecrets
<1>6. p \in Proof
  BY <1>2, <1>3, <1>4, <1>5 DEF Proof
<1>. QED BY <1>1, <1>2, <1>5, <1>6

(* Proofs are only added, each with the inputs of its witness.             *)
LEMMA ProofsStayTyped == SpecProtocol => [](proofs \subseteq Proof)
<1>1. InitProtocol => proofs \subseteq Proof
  BY DEF InitProtocol
<1>2. proofs \subseteq Proof /\ [NextProtocol]_vars => (proofs \subseteq Proof)'
  <2>. SUFFICES ASSUME proofs \subseteq Proof, [NextProtocol]_vars
                PROVE  proofs' \subseteq Proof
    OBVIOUS
  <2>1. CASE \E doc \in Documents, id \in Ids, rules \in RuleSets, now \in 0 .. MaxTime :
               GenerateProof(doc, id, rules, now)
    BY <2>1, GeneratedIsProof
  <2>2. CASE UNCHANGED proofs
    BY <2>2
  <2>. QED BY <2>1, <2>2 DEF NextProtocol, vars
<1>. QED BY <1>1, <1>2, PTL DEF SpecProtocol

(* The composed system implements the contract's specification, so what    *)
(* is proved of the contract above holds of it too.                        *)
THEOREM ProtocolImplementsRegistry == SpecProtocol => Spec
<1>1. InitProtocol => Init
  BY DEF InitProtocol
<1>2. proofs \subseteq Proof /\ [NextProtocol]_vars => [Next]_registryVars
  BY ProtocolStep
<1>. QED BY <1>1, <1>2, ProofsStayTyped, PTL DEF SpecProtocol, Spec

-----------------------------------------------------------------------------
(* The inductive invariant of the composed system.                         *)
PInv == proofs \subseteq Proof /\ IInv /\ ProofsFromProvers

LEMMA VerifyKeepsProvers ==
    ASSUME PInv, UNCHANGED proofs, VerifyCalls(proofs)
    PROVE  ProofsFromProvers'
<1>1. PICK id \in Ids, p \in proofs, q \in proofs, sig \in SignalVectors(proofs) :
        LET nf == Nullifier(q.doc.number, q.secret, q.id)
        IN  \/ Verify(id, nf, q.now, p, sig)
            \/ VerifyRefused(id, nf, q.now, p, sig)
  BY DEF VerifyCalls
<1>. DEFINE nf == Nullifier(q.doc.number, q.secret, q.id)
<1>2. CASE Verify(id, nf, q.now, p, sig)
  <2>. DEFINE a == [id |-> id, nullifier |-> nf, proof |-> p,
                    rules |-> config[id].rules, at |-> ledgerNow]
  <2>1. accepted' = Append(accepted, a)
    BY <1>2 DEF Verify
  <2>2. accepted \in Seq(Acceptance)
    BY DEF PInv, IInv, TypeOK
  <2>3. /\ DOMAIN accepted' = DOMAIN accepted \cup {Len(accepted) + 1}
        /\ accepted'[Len(accepted) + 1] = a
        /\ \A i \in DOMAIN accepted : accepted'[i] = accepted[i]
    <3>. HIDE DEF a
    <3>. QED BY <2>1, <2>2
  <2>4. a.proof = p
    OBVIOUS
  <2>5. \A i \in DOMAIN accepted' : accepted'[i].proof \in proofs
    <3>. HIDE DEF a
    <3>. QED BY <2>3, <2>4 DEF PInv, ProofsFromProvers
  <2>. QED BY <2>5 DEF PInv, ProofsFromProvers
<1>3. CASE UNCHANGED registryVars
  BY <1>3 DEF PInv, ProofsFromProvers, registryVars
<1>. QED BY <1>1, <1>2, <1>3 DEF VerifyRefused

LEMMA StepKeepsProvers ==
    ASSUME PInv, [NextProtocol]_vars
    PROVE  ProofsFromProvers'
<1>1. CASE \E doc \in Documents, id \in Ids, rules \in RuleSets, now \in 0 .. MaxTime :
             GenerateProof(doc, id, rules, now)
  <2>1. accepted' = accepted
    BY <1>1 DEF GenerateProof, registryVars
  <2>2. PICK p \in Proof : /\ proofs' = proofs \cup {p}
                           /\ Satisfies(SignalsOf(p), p.doc, p.secret)
                           /\ \A q \in proofs : q.secret # p.secret
    BY <1>1, GeneratedIsProof DEF PInv
  <2>. QED BY <2>1, <2>2 DEF PInv, ProofsFromProvers
<1>2. CASE OwnerCalls /\ UNCHANGED proofs
  <2>1. accepted' = accepted
    BY <1>2 DEF OwnerCalls, RegisterIntegrator, UpdateIntegratorRules, SetActive
  <2>. QED BY <1>2, <2>1 DEF PInv, ProofsFromProvers
<1>3. CASE VerifyCalls(proofs) /\ UNCHANGED proofs
  BY <1>3, VerifyKeepsProvers
<1>4. CASE LedgerCloses /\ UNCHANGED proofs
  BY <1>4 DEF LedgerCloses, PInv, ProofsFromProvers
<1>5. CASE UNCHANGED vars
  BY <1>5 DEF vars, registryVars, PInv, ProofsFromProvers
<1>. QED BY <1>1, <1>2, <1>3, <1>4, <1>5 DEF NextProtocol

LEMMA ProtocolInvariant == SpecProtocol => []PInv
<1>1. InitProtocol => ProofsFromProvers
  BY DEF InitProtocol, Init, ProofsFromProvers
<1>2. PInv /\ [NextProtocol]_vars => ProofsFromProvers'
  BY StepKeepsProvers
<1>3. SpecProtocol => []IInv
  BY ProtocolImplementsRegistry, InvariantHolds, PTL
<1>4. PInv <=> proofs \subseteq Proof /\ IInv /\ ProofsFromProvers
  BY DEF PInv
<1>. QED BY <1>1, <1>2, <1>3, <1>4, ProofsStayTyped, PTL DEF SpecProtocol

(* Every variable of the composed system keeps its type.                   *)
THEOREM ProtocolTypeInvariant == SpecProtocol => []TypeOKProtocol
<1>1. PInv => TypeOKProtocol
  BY DEF PInv, IInv, TypeOKProtocol
<1>. QED BY <1>1, ProtocolInvariant, PTL

(* A proof whose nullifier no accepted call has spent is unspent in the    *)
(* contract's storage.                                                     *)
LEMMA UnacceptedIsUnspent ==
    ASSUME PInv, NEW p \in proofs, \A i \in DOMAIN accepted : accepted[i].proof # p
    PROVE  NullifierKey(p.id, Nullifier(p.doc.number, p.secret, p.id)) \notin nullifiers
<1>. SUFFICES ASSUME NEW i \in DOMAIN accepted,
                     NullifierKey(p.id, Nullifier(p.doc.number, p.secret, p.id))
                       = NullifierKey(accepted[i].id, accepted[i].nullifier)
              PROVE  FALSE
  BY DEF PInv, IInv, SpentExactlyWhenAccepted
<1>. DEFINE r == accepted[i].proof
<1>1. Nullifier(p.doc.number, p.secret, p.id)
        = Nullifier(r.doc.number, r.secret, accepted[i].id)
  BY DEF NullifierKey, PInv, IInv, ProofBoundToIntegrator
<1>2. r.secret = p.secret
  BY <1>1 DEF Nullifier
<1>3. r \in proofs
  BY DEF PInv, ProofsFromProvers
<1>4. r = p
  BY <1>2, <1>3 DEF PInv, ProofsFromProvers
<1>. QED BY <1>4

(* An honest prover whose rules and clock agree with the ledger's is       *)
(* accepted with the vector of snarkjs, and refused for the number of      *)
(* signals with the vector that submitProof sends, whatever happened       *)
(* before.                                                                 *)
THEOREM HonestProversAccepted == SpecProtocol => []HonestProofAccepted
<1>1. PInv => HonestProofAccepted
  <2>. SUFFICES ASSUME PInv, NEW id \in Ids \cap Field, NEW p \in proofs, HonestCall(id, p)
                PROVE  /\ Presented(id, p, SignalsOf(p)) = "OkTrue"
                       /\ Presented(id, p, SubmittedSignals(p)) = "WrongPublicInputCount"
    BY DEF HonestProofAccepted, HonestProofAcceptedAt
  <2>. DEFINE nf == Nullifier(p.doc.number, p.secret, p.id)
  <2>1. p.id = id
    BY FieldAssumption DEF HonestCall, IdToField, Field
  <2>2. TimestampSane(p.now)
    <3>1. p.now \in Int /\ ledgerNow \in Int /\ MaxDrift \in Int
      BY RegistryAssumption, FieldAssumption DEF PInv, IInv, TypeOK, Proof, U64
    <3>. QED BY <3>1 DEF HonestCall, TimestampSane, Drift
  <2>3. NullifierKey(id, nf) \notin nullifiers
    BY <2>1, UnacceptedIsUnspent DEF HonestCall
  <2>4. config[id].rules = p.rules /\ config[id] # Unregistered /\ config[id].active
    BY DEF HonestCall
  <2>5. SignalsBound(id, nf, p.now, SignalsOf(p)) /\ Len(SignalsOf(p)) = 6
    BY <2>1, <2>4 DEF SignalsBound, SignalsOf, PublicSignals
  <2>6. PairingHolds(p, SignalsOf(p))
    BY DEF PairingHolds, PInv, ProofsFromProvers
  <2>7. Len(SubmittedSignals(p)) # 6
    BY DEF SubmittedSignals, SignalsOf, PublicSignals
  <2>. QED BY <2>2, <2>3, <2>4, <2>5, <2>6, <2>7 DEF VerifyResult, Presented
<1>. QED BY <1>1, ProtocolInvariant, PTL

-----------------------------------------------------------------------------
(* What the circuit asks is what the rules say: the public signals of a    *)
(* proof have a witness exactly when the holder of its document satisfies  *)
(* its rules at its time, given that neither margin reaches 2^64 seconds.  *)
(* Without a margin below 2^64 the 64-bit comparator has no witness: that  *)
(* is the one way in which an eligible holder could fail.                  *)
MarginsFit(doc, rules, t) ==
    /\ t - doc.dob - rules.minAge < B64
    /\ rules.docMaxAge - (t - doc.issued) < B64

(* The circuit is sound and complete for the rules, up to the width of its *)
(* comparators.                                                            *)
THEOREM CircuitMeaning ==
    ASSUME NEW p \in Proof
    PROVE  Satisfies(SignalsOf(p), p.doc, p.secret)
             <=> /\ Promise!EligibleAt(p.doc, p.rules, p.now)
                 /\ MarginsFit(p.doc, p.rules, p.now)
<1>1. /\ p.now \in U64 /\ p.doc.dob \in SignedSeconds
      /\ p.doc.issued \in SignedSeconds /\ p.doc.nat \in 1 .. Sentinel - 1
      /\ p.rules.minAge \in U64 /\ p.rules.root \in Roots /\ p.rules.docMaxAge \in U64
  BY RegistryAssumption DEF Proof, Document, Rules, SignedSeconds
<1>2. Satisfies(SignalsOf(p), p.doc, p.secret)
        <=> /\ AgeCheck(p.now, ToField(p.doc.dob), p.rules.minAge)
            /\ NonMember(p.doc.nat, p.rules.root)
            /\ FreshnessCheck(p.now, ToField(p.doc.issued), p.rules.docMaxAge)
  BY DEF Satisfies, SignalsOf, PublicSignals
<1>3. NonMember(p.doc.nat, p.rules.root)
        <=> p.rules.root # <<>> /\ p.doc.nat \notin p.rules.root[1]
  BY <1>1, NonMemberMeaning, NonMemberComplete DEF ZeroRoot
<1>. QED BY <1>1, <1>2, <1>3, AgeCheckMeaning, FreshnessMeaning
         DEF Promise!EligibleAt, MarginsFit

(* Whoever satisfies an integrator's registered rules can prove it, for    *)
(* any list of countries, any documents and any history of the contract,   *)
(* as long as the tree file's root is read as it was written and no date   *)
(* is 2^64 seconds, half a trillion years, away.                           *)
THEOREM EligibleHoldersCanProve ==
    ASSUME RootText = "hex",
           \A doc \in Documents, rules \in RuleSets, t \in 0 .. MaxTime :
             MarginsFit(doc, rules, t)
    PROVE  SpecProtocol => []EligibleCanProve
<1>1. PInv => EligibleCanProve
  <2>. SUFFICES ASSUME PInv, NEW doc \in Documents, NEW id \in Ids, NEW secret \in Secrets,
                       config[id] # Unregistered,
                       Promise!EligibleAt(doc, config[id].rules, ledgerNow)
                PROVE  LET p == ProofFor(doc, secret, config[id].rules, id, ledgerNow)
                       IN  Satisfies(SignalsOf(p), doc, secret)
    BY DEF EligibleCanProve
  <2>. DEFINE rules == config[id].rules
              p == ProofFor(doc, secret, rules, id, ledgerNow)
  <2>1. rules \in RuleSets /\ ledgerNow \in 0 .. MaxTime
    BY DEF PInv, IInv, TypeOK, Config
  <2>2. [rules EXCEPT !.root = ParsedRoot(@)] = rules
    BY <2>1, RegistryAssumption DEF ParsedRoot, Rules
  <2>3. p = [doc |-> doc, secret |-> secret, id |-> IdToField(id), now |-> ledgerNow,
             rules |-> rules]
    BY <2>2 DEF ProofFor
  <2>4. ledgerNow \in U64 /\ IdToField(id) \in Field
    BY <2>1, RegistryAssumption, FieldAssumption DEF U64, Field, IdToField
  <2>5. p \in Proof
    BY <2>1, <2>3, <2>4 DEF Proof
  <2>6. MarginsFit(doc, rules, ledgerNow)
    BY <2>1
  <2>. QED BY <2>3, <2>5, <2>6, CircuitMeaning
<1>. QED BY <1>1, ProtocolInvariant, PTL

(* With a tree file whose root is spelt in decimal digits nobody can prove *)
(* anything, and so nobody is ever accepted, whatever the rules.           *)
THEOREM DecimalRootShutsOut ==
    ASSUME RootText = "decimal"
    PROVE  SpecProtocol => [](proofs = {} /\ accepted = <<>>)
<1>1. ASSUME NEW doc \in Documents, NEW id \in Ids, NEW rules \in RuleSets,
             NEW now \in 0 .. MaxTime, GenerateProof(doc, id, rules, now)
      PROVE  FALSE
  <2>1. PICK secret \in FreshSecrets :
          Satisfies(SignalsOf(ProofFor(doc, secret, rules, id, now)), doc, secret)
    BY <1>1 DEF GenerateProof
  <2>. DEFINE p == ProofFor(doc, secret, rules, id, now)
  <2>2. SignalsOf(p)[4] = ParsedRoot(rules.root)
    BY RegistryAssumption DEF ProofFor, Rules, SignalsOf, PublicSignals
  <2>3. NonMember(doc.nat, ZeroRoot)
    BY <2>1, <2>2 DEF Satisfies, ParsedRoot
  <2>. QED BY <2>3 DEF NonMember, Brackets
<1>2. InitProtocol => proofs = {}
  BY DEF InitProtocol
<1>3. proofs = {} /\ [NextProtocol]_vars => (proofs = {})'
  BY <1>1 DEF NextProtocol, vars
<1>4. SpecProtocol => [](proofs = {})
  BY <1>2, <1>3, PTL DEF SpecProtocol
<1>5. PInv /\ proofs = {} => accepted = <<>>
  <2>. SUFFICES ASSUME PInv, proofs = {}
                PROVE  accepted = <<>>
    OBVIOUS
  <2>1. DOMAIN accepted = {}
    BY DEF PInv, ProofsFromProvers
  <2>2. accepted \in Seq(Acceptance)
    BY DEF PInv, IInv, TypeOK
  <2>. QED BY <2>1, <2>2
<1>. QED BY <1>4, <1>5, ProtocolInvariant, PTL

-----------------------------------------------------------------------------
(* A document that passes twice at an integrator does so with two secrets: *)
(* a fresh secret is the only way round the nullifier.                     *)
SecondPassHasOtherSecret ==
    \A i, j \in DOMAIN accepted :
        /\ i # j
        /\ accepted[i].id = accepted[j].id
        /\ accepted[i].proof.doc.number = accepted[j].proof.doc.number
        => accepted[i].proof.secret # accepted[j].proof.secret

(* So the promise of one pass per document rests on the wallet keeping its *)
(* secret.                                                                 *)
THEOREM SecondPassNeedsOtherSecret == Spec => []SecondPassHasOtherSecret
<1>1. IInv => SecondPassHasOtherSecret
  BY DEF IInv, SecondPassHasOtherSecret, NullifierAcceptedOnce, ProofBoundToIntegrator
<1>. QED BY <1>1, InvariantHolds, PTL

(* An integrator whose id is no field element never accepts anybody: the   *)
(* circuit's signal is the id reduced, and verify compares it with the id. *)
AcceptsOnlyAtFieldIds == \A i \in DOMAIN accepted : accepted[i].id \in Field

(* Why FieldIdsServed below has to assume that ids are field elements.     *)
THEOREM NothingAcceptedOffField == Spec => []AcceptsOnlyAtFieldIds
<1>1. IInv => AcceptsOnlyAtFieldIds
  <2>. SUFFICES ASSUME IInv, NEW i \in DOMAIN accepted
                PROVE  accepted[i].id \in Field
    BY DEF AcceptsOnlyAtFieldIds
  <2>1. accepted[i] \in Acceptance
    BY DEF IInv, TypeOK
  <2>2. accepted[i].proof.id \in Field
    BY <2>1 DEF Acceptance, Proof
  <2>. QED BY <2>2 DEF IInv, ProofBoundToIntegrator
<1>. QED BY <1>1, InvariantHolds, PTL

(* When every id is a field element the documented promise holds: every    *)
(* integrator accepts the honest holders.                                  *)
THEOREM FieldIdsServed ==
    ASSUME Ids \subseteq Field
    PROVE  SpecProtocol => []EveryIntegratorServed
<1>1. HonestProofAccepted => EveryIntegratorServed
  BY DEF HonestProofAccepted, EveryIntegratorServed
<1>. QED BY <1>1, HonestProversAccepted, PTL
=============================================================================
