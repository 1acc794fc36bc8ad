---------------------------- MODULE CountryRules ----------------------------
(***************************************************************************)
(* The dashboard's country restrictions: the page that selects countries   *)
(* (frontend/app/dashboard/countries/page.tsx), the route that builds      *)
(* their tree through two temporary files (api/kakusho/build-tree) with    *)
(* circuits/scripts/build_restricted_tree.js, and the route that puts the  *)
(* root on the chain (api/kakusho/update-root).  A tree, or its root, is   *)
(* named by the set of codes it is of; it is clean if nothing came between *)
(* its build, neither a click nor another build with its files.            *)
(***************************************************************************)
EXTENDS Naturals, FiniteSets

CONSTANTS OtherBuilders, \* other pages and tools that ask for a tree, of a preset list
          Codes,         \* the countries' codes
          Groups,        \* the preset lists, sets of codes
          Millis,        \* what Date.now() may return
          MaxLateRoots   \* bound of the transactions that outlive their route at once

ASSUME CountryAssumption == Groups \subseteq SUBSET Codes

Builders == {"page"} \cup OtherBuilders

NoTree == [codes |-> {}, clean |-> TRUE]
NoRoot == {}
NoJob == [at |-> "idle", codes |-> {}, ts |-> 0, clean |-> TRUE]

VARIABLES selected, tree,  \* of the page
          job,             \* the requests to build-tree
          updating,        \* the page's request to update-root: the root it sends
          inputs, outputs, \* the temporary files, by time stamp
          rules,           \* the integrator's entry in the contract
          lateRoots        \* transactions that outlived the timeout of their route

varsCountry == <<selected, tree, job, updating, inputs, outputs, rules, lateRoots>>

files == <<inputs, outputs>>
onChain == <<updating, rules, lateRoots>>

-----------------------------------------------------------------------------
(* Selecting; nothing is disabled while a tree is being built.             *)
ResetTree_Not == tree

(* setTree(null).                                                          *)
ResetTree == NoTree

Select(codes) == /\ selected' = codes /\ tree' = ResetTree
                 /\ job' = [job EXCEPT !["page"].clean = (job["page"].at = "idle")]
                 /\ UNCHANGED <<files, onChain>>

Toggle == \E c \in Codes : Select(IF c \in selected THEN selected \ {c} ELSE selected \cup {c})
SelectGroup == \E g \in Groups : Select(selected \cup g)
ClearAll == Select({})

-----------------------------------------------------------------------------
(* build(), and POST build-tree, with the selection of that moment; two    *)
(* requests of one millisecond use the same two files.                     *)
SameFiles(b, ts) == {q \in Builders \ {b} : job[q].at # "idle" /\ job[q].ts = ts}

Build(b) ==
    /\ job[b].at = "idle"
    /\ \E ts \in Millis, codes \in IF b = "page" THEN {selected} ELSE Groups :
         /\ codes # {}
         /\ job' = [q \in Builders |->
                      IF q = b THEN [at |-> "write", codes |-> codes, ts |-> ts,
                                     clean |-> SameFiles(b, ts) = {}]
                      ELSE [job[q] EXCEPT !.clean = @ /\ q \notin SameFiles(b, ts)]]
    /\ UNCHANGED <<selected, tree, files, onChain>>

GoesOn(b, to) == job' = [job EXCEPT ![b].at = to]

(* setTree(result) or an error, and the files are unlinked.                *)
Finish(b, result) ==
    /\ job' = [job EXCEPT ![b] = NoJob]
    /\ tree' = IF b # "page" \/ result = {} THEN tree
               ELSE [codes |-> result, clean |-> job[b].clean]
    /\ inputs' = [inputs EXCEPT ![job[b].ts] = {}]
    /\ outputs' = [outputs EXCEPT ![job[b].ts] = {}]

WriteInput(b) == /\ job[b].at = "write" /\ GoesOn(b, "script")
                 /\ inputs' = [inputs EXCEPT ![job[b].ts] = job[b].codes]
                 /\ UNCHANGED <<tree, outputs>>

(* The script sorts and pads what it finds; without an input it exits 1,   *)
(* and after 30 s it is killed.                                            *)
RunScript(b) == /\ job[b].at = "script"
                /\ \/ /\ inputs[job[b].ts] # {} /\ GoesOn(b, "read")
                      /\ outputs' = [outputs EXCEPT ![job[b].ts] = inputs[job[b].ts]]
                      /\ UNCHANGED <<tree, inputs>>
                   \/ Finish(b, {})

ReadOutput(b) == job[b].at = "read" /\ Finish(b, outputs[job[b].ts])

BuildTree(b) == /\ WriteInput(b) \/ RunScript(b) \/ ReadOutput(b)
                /\ UNCHANGED <<selected, onChain>>

-----------------------------------------------------------------------------
(* updateOnChain: the root of the tree on show.                            *)
UpdateOnChain == /\ updating = NoRoot /\ tree # NoTree
                 /\ updating' = tree.codes
                 /\ UNCHANGED <<selected, tree, job, files, rules, lateRoots>>

(* /integrators/me tells neither of the other two rules, which are then    *)
(* sent as the defaults.                                                   *)
Rules(update) == [root |-> update, ages |-> "default"]

(* The route: refused, the contract is called, or the command line's 60 s  *)
(* pass, after which the transaction may still be applied.                 *)
UpdateRoot ==
    /\ updating # NoRoot /\ updating' = NoRoot
    /\ \/ UNCHANGED <<rules, lateRoots>>
       \/ rules' = Rules(updating) /\ UNCHANGED lateRoots
       \/ /\ lateRoots' = lateRoots \cup {updating} /\ Cardinality(lateRoots') <= MaxLateRoots
          /\ UNCHANGED rules
    /\ UNCHANGED <<selected, tree, job, files>>

AppliedLate == /\ \E root \in lateRoots : /\ rules' = Rules(root)
                                          /\ lateRoots' = lateRoots \ {root}
               /\ UNCHANGED <<selected, tree, job, files, updating>>

-----------------------------------------------------------------------------
InitCountry ==
    /\ selected = {} /\ tree = NoTree /\ updating = NoRoot
    /\ job = [b \in Builders |-> NoJob]
    /\ inputs = [ts \in Millis |-> {}] /\ outputs = [ts \in Millis |-> {}]
    /\ rules = [root |-> NoRoot, ages |-> "own"] /\ lateRoots = {}

NextCountry == \/ Toggle \/ SelectGroup \/ ClearAll
               \/ UpdateOnChain \/ UpdateRoot \/ AppliedLate
               \/ \E b \in Builders : Build(b) \/ BuildTree(b)

-----------------------------------------------------------------------------
(* The types.                                                              *)
TypeOKCountry ==
    /\ selected \subseteq Codes /\ tree.codes \subseteq Codes /\ tree.clean \in BOOLEAN
    /\ \A b \in Builders : /\ job[b].at \in {"idle", "write", "script", "read"}
                           /\ job[b].codes \subseteq Codes /\ job[b].ts \in Millis \cup {0}
    /\ \A ts \in Millis : inputs[ts] \subseteq Codes /\ outputs[ts] \subseteq Codes
    /\ updating \subseteq Codes /\ rules.root \subseteq Codes /\ rules.ages \in {"own", "default"}

(* The tree on show, whose root UPDATE sends to the contract, is that of   *)
(* the countries selected, unless the selection changed while it was built *)
(* or another build of the same millisecond shared its files.              *)
RootIsOfTheSelection == tree # NoTree /\ tree.clean => tree.codes = selected
=============================================================================
