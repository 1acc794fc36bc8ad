----------------------------- MODULE OneTimeKyc -----------------------------
(***************************************************************************)
(* What the protocol promises an integrator, said about people, documents  *)
(* and the clock, with no proof, signal or field element in it: a grant is *)
(* given only while the integrator is active, under the rules in force at  *)
(* that moment, to the holder of a document that satisfies them up to the  *)
(* accepted clock drift, and at most once for each nullifier.              *)
(***************************************************************************)
EXTENDS Integers, Sequences

CONSTANTS Ids, Addresses, RuleSets, Documents, Secrets, MaxDrift,
          Unregistered

VARIABLES policy,   \* for each id: Unregistered, or its owner, rules, switch
          clock,    \* the ledger's clock
          grants    \* the grants given so far, in order

vars == <<policy, clock, grants>>

(* The holder of doc satisfies rules at time t.  A root is a one-tuple of  *)
(* the banned codes, or the empty tuple when no list was ever committed.   *)
EligibleAt(doc, rules, t) ==
    /\ t - doc.dob >= rules.minAge
    /\ t - doc.issued <= rules.docMaxAge
    /\ rules.root # <<>> /\ doc.nat \notin rules.root[1]

Eligible(doc, rules, now) ==
    \E t \in now - MaxDrift .. now + MaxDrift : EligibleAt(doc, rules, t)

Init == /\ policy = [id \in Ids |-> Unregistered]
        /\ clock \in Nat
        /\ grants = <<>>

Enrol(id, owner, rules) ==
    /\ policy[id] = Unregistered
    /\ policy' = [policy EXCEPT ![id] =
                    [owner |-> owner, rules |-> rules, active |-> TRUE]]
    /\ UNCHANGED <<clock, grants>>

(* An enrolled integrator keeps its owner for ever.                        *)
Amend(id, rules, active) ==
    /\ policy[id] # Unregistered
    /\ policy' = [policy EXCEPT ![id] =
                    [owner |-> policy[id].owner, rules |-> rules, active |-> active]]
    /\ UNCHANGED <<clock, grants>>

Grant(id, doc, secret) ==
    /\ policy[id] # Unregistered /\ policy[id].active
    /\ Eligible(doc, policy[id].rules, clock)
    /\ \A i \in DOMAIN grants :
         ~(grants[i].id = id /\ grants[i].number = doc.number
                             /\ grants[i].secret = secret)
    /\ grants' = Append(grants,
                        [id |-> id, number |-> doc.number, secret |-> secret])
    /\ UNCHANGED <<policy, clock>>

Advance == /\ clock' \in Nat /\ clock' > clock
           /\ UNCHANGED <<policy, grants>>

Next == \/ \E id \in Ids, owner \in Addresses, rules \in RuleSets :
             Enrol(id, owner, rules)
        \/ \E id \in Ids, rules \in RuleSets, active \in BOOLEAN :
             Amend(id, rules, active)
        \/ \E id \in Ids, doc \in Documents, secret \in Secrets :
             Grant(id, doc, secret)
        \/ Advance

Spec == Init /\ [][Next]_vars
=============================================================================
