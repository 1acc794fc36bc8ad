----------------------------- MODULE MCClients -----------------------------
(***************************************************************************)
(* The clients on small instances, one after the other: they share no      *)
(* state, so that a behaviour is one part's, chosen at the start, and the  *)
(* states of the parts add up instead of multiplying.                      *)
(***************************************************************************)
EXTENDS VerifyPage, ChipRead, SessionWidget, SessionStore, ScannerApp, CountryRules, Dashboard

CONSTANTS Parts \* those that a configuration checks

ChunkCounts == [dg1 |-> 2, sod |-> 3]
PresetLists == {Codes}

VARIABLE part

vars == <<varsPage, varsChip, varsWidget, varsStore, varsScanner, varsCountry, varsDash, part>>

(* What a part's Init leaves open is open in that part's behaviours only.  *)
OnlyOwnChoices ==
    /\ part # "page" => callback = "none"
    /\ part # "chip" => ~chipNeedsBac
    /\ part # "scanner" => initialURL = "none"

Init == /\ part \in Parts
        /\ InitPage /\ InitChip /\ InitWidget /\ InitStore /\ InitScanner /\ InitCountry /\ InitDash
        /\ OnlyOwnChoices

Page == part = "page" /\ NextPage
        /\ UNCHANGED <<varsChip, varsWidget, varsStore, varsScanner, varsCountry, varsDash, part>>
Chip == part = "chip" /\ NextChip
        /\ UNCHANGED <<varsPage, varsWidget, varsStore, varsScanner, varsCountry, varsDash, part>>
Widget == part = "widget" /\ NextWidget
          /\ UNCHANGED <<varsPage, varsChip, varsStore, varsScanner, varsCountry, varsDash, part>>
Store == part = "store" /\ NextStore
         /\ UNCHANGED <<varsPage, varsChip, varsWidget, varsScanner, varsCountry, varsDash, part>>
Scanner == part = "scanner" /\ NextScanner
           /\ UNCHANGED <<varsPage, varsChip, varsWidget, varsStore, varsCountry, varsDash, part>>
Country == part = "country" /\ NextCountry
           /\ UNCHANGED <<varsPage, varsChip, varsWidget, varsStore, varsScanner, varsDash, part>>
Account == part = "account" /\ NextDash
           /\ UNCHANGED <<varsPage, varsChip, varsWidget, varsStore, varsScanner, varsCountry, part>>

Next == Page \/ Chip \/ Widget \/ Store \/ Scanner \/ Country \/ Account

Spec == Init /\ [][Next]_vars

(* Once a proof was asked for, the network and the worker's thread get on; *)
(* a chip answers or is taken away; the interval timer and the clock run.  *)
FairSpec == /\ Spec
            /\ WF_varsPage(Proving) /\ WF_varsChip(Exchange)
            /\ WF_varsWidget(Ticks) /\ WF_varsWidget(Clock)

(* The types of every part.                                                *)
TypeOK == /\ TypeOKPage /\ TypeOKChip /\ TypeOKWidget /\ TypeOKStore
          /\ TypeOKScanner /\ TypeOKCountry /\ TypeOKDash
=============================================================================
