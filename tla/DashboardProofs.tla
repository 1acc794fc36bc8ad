-------------------------- MODULE DashboardProofs --------------------------
(***************************************************************************)
(* Theorems of CountryRules, for any countries and preset lists, any       *)
(* number of other builders, and any clock, and of Dashboard, for any tabs *)
(* and accounts, and any number of keys and requests.  The two share no    *)
(* state.                                                                  *)
(***************************************************************************)
EXTENDS CountryRules, Dashboard, TLAPS

SpecCountry == InitCountry /\ [][NextCountry]_varsCountry

Jobs == [at : {"idle", "write", "script", "read"}, codes : SUBSET Codes,
         ts : Millis \cup {0}, clean : BOOLEAN]
Trees == [codes : SUBSET Codes, clean : BOOLEAN]
FileSets == [Millis -> SUBSET Codes]

TypesCountry ==
    /\ TypeOKCountry
    /\ job \in [Builders -> Jobs] /\ tree \in Trees
    /\ inputs \in FileSets /\ outputs \in FileSets
    /\ lateRoots \subseteq SUBSET Codes
    /\ \A b \in Builders : job[b].at # "idle" => job[b].ts \in Millis

Active(b) == job[b].at # "idle" /\ job[b].clean

(* A clean build has its two files to itself, and what it wrote or read    *)
(* back is of its codes; the page's, of the selection.                     *)
Alone == \A b, q \in Builders :
           Active(b) /\ q # b => job[q].at = "idle" \/ job[q].ts # job[b].ts

FilesOfBuild ==
    \A b \in Builders : Active(b) =>
        /\ job[b].at = "script" => inputs[job[b].ts] = job[b].codes
        /\ job[b].at = "read" => outputs[job[b].ts] = job[b].codes

BuildOfSelection == Active("page") => job["page"].codes = selected

IInvCountry == TypesCountry /\ Alone /\ FilesOfBuild /\ BuildOfSelection /\ RootIsOfTheSelection

USE DEF Active

LEMMA Constants == /\ NoJob \in Jobs /\ NoJob.at = "idle" /\ NoJob.clean
                   /\ NoTree \in Trees /\ NoTree.clean /\ NoTree.codes = {}
                   /\ NoRoot = {} /\ "page" \in Builders
  BY DEF NoJob, Jobs, NoTree, Trees, NoRoot, Builders

(* What the types of the functions say of their values.                    *)
LEMMA ValuesOfFunctions ==
    ASSUME NEW j \in [Builders -> Jobs], NEW t \in Trees,
           NEW i \in FileSets, NEW o \in FileSets
    PROVE  /\ \A b \in Builders : /\ j[b].at \in {"idle", "write", "script", "read"}
                                  /\ j[b].codes \subseteq Codes /\ j[b].ts \in Millis \cup {0}
           /\ t.codes \subseteq Codes /\ t.clean \in BOOLEAN
           /\ \A ts \in Millis : i[ts] \subseteq Codes /\ o[ts] \subseteq Codes
  BY DEF Jobs, Trees, FileSets

LEMMA InitIInvCountry == InitCountry => IInvCountry
<1>. SUFFICES ASSUME InitCountry PROVE IInvCountry
  OBVIOUS
<1>1. /\ job \in [Builders -> Jobs] /\ tree \in Trees /\ inputs \in FileSets
      /\ outputs \in FileSets /\ \A b \in Builders : job[b].at = "idle"
  BY Constants DEF InitCountry, FileSets
<1>2. TypesCountry
  BY <1>1, Constants, ValuesOfFunctions DEF InitCountry, TypesCountry, TypeOKCountry
<1>. QED
  BY <1>1, <1>2, Constants DEF InitCountry, IInvCountry, Alone, FilesOfBuild,
     BuildOfSelection, RootIsOfTheSelection

(* A click leaves no tree, and makes a build under way unclean.            *)
LEMMA SelectKeepsIInv ==
    ASSUME IInvCountry, NEW codes \in SUBSET Codes, Select(codes)
    PROVE  IInvCountry'
<1>1. /\ selected' = codes /\ tree' = NoTree
      /\ job' = [job EXCEPT !["page"].clean = (job["page"].at = "idle")]
      /\ UNCHANGED <<inputs, outputs, updating, rules, lateRoots>>
  BY DEF Select, ResetTree, files, onChain
<1>2. job' \in [Builders -> Jobs]
  BY <1>1, Constants DEF IInvCountry, TypesCountry, Jobs
<1>3. \A b \in Builders : /\ job'[b].at = job[b].at /\ job'[b].ts = job[b].ts
                          /\ job'[b].codes = job[b].codes
                          /\ b # "page" => job'[b].clean = job[b].clean
  BY <1>1 DEF IInvCountry, TypesCountry, Jobs
<1>4. ~Active("page")'
  BY <1>1, Constants DEF IInvCountry, TypesCountry, Jobs
<1>5. TypesCountry'
  BY <1>1, <1>2, <1>3, Constants, ValuesOfFunctions
  DEF IInvCountry, TypesCountry, TypeOKCountry
<1>6. Alone' /\ FilesOfBuild'
  BY <1>1, <1>3, <1>4 DEF IInvCountry, Alone, FilesOfBuild
<1>. QED
  BY <1>1, <1>4, <1>5, <1>6, Constants DEF IInvCountry, BuildOfSelection, RootIsOfTheSelection

LEMMA BuildKeepsIInv ==
    ASSUME IInvCountry, NEW b \in Builders, Build(b)
    PROVE  IInvCountry'
<1>1. PICK ts \in Millis, codes \in IF b = "page" THEN {selected} ELSE Groups :
        job' = [q \in Builders |->
                  IF q = b THEN [at |-> "write", codes |-> codes, ts |-> ts,
                                 clean |-> SameFiles(b, ts) = {}]
                  ELSE [job[q] EXCEPT !.clean = @ /\ q \notin SameFiles(b, ts)]]
  BY DEF Build
<1>2. /\ job[b].at = "idle"
      /\ UNCHANGED <<selected, tree, inputs, outputs, updating, rules, lateRoots>>
  BY DEF Build, files, onChain
<1>3. codes \in SUBSET Codes /\ (b = "page" => codes = selected)
  BY CountryAssumption DEF IInvCountry, TypesCountry, TypeOKCountry
<1>4. job'[b] = [at |-> "write", codes |-> codes, ts |-> ts, clean |-> SameFiles(b, ts) = {}]
  BY <1>1
<1>5. ASSUME NEW q \in Builders, q # b
      PROVE  /\ job'[q] \in Jobs /\ job'[q].at = job[q].at /\ job'[q].ts = job[q].ts
             /\ job'[q].codes = job[q].codes
             /\ job'[q].clean <=> job[q].clean /\ q \notin SameFiles(b, ts)
  <2>1. job'[q] = [job[q] EXCEPT !.clean = job[q].clean /\ q \notin SameFiles(b, ts)]
    BY <1>1, <1>5
  <2>2. job[q] \in Jobs
    BY DEF IInvCountry, TypesCountry
  <2>3. CASE q \notin SameFiles(b, ts)
    <3>1. (job[q].clean /\ q \notin SameFiles(b, ts)) = job[q].clean
      BY <2>2, <2>3 DEF Jobs
    <3>2. job'[q] = [job[q] EXCEPT !.clean = job[q].clean]
      BY <2>1, <3>1, Zenon
    <3>. QED BY <2>2, <2>3, <3>2 DEF Jobs
  <2>4. CASE q \in SameFiles(b, ts)
    <3>1. (job[q].clean /\ q \notin SameFiles(b, ts)) = FALSE
      BY <2>4
    <3>2. job'[q] = [job[q] EXCEPT !.clean = FALSE]
      BY <2>1, <3>1, Zenon
    <3>. QED BY <2>2, <2>4, <3>2 DEF Jobs
  <2>. QED BY <2>3, <2>4
<1>6. job'[b] \in Jobs /\ job'[b].at = "write" /\ job'[b].ts = ts /\ job'[b].codes = codes
      /\ (job'[b].clean <=> SameFiles(b, ts) = {})
  <2>1. CASE SameFiles(b, ts) = {}
    <3>1. (SameFiles(b, ts) = {}) = TRUE
      BY <2>1
    <3>2. job'[b] = [at |-> "write", codes |-> codes, ts |-> ts, clean |-> TRUE]
      BY <1>4, <3>1, Zenon
    <3>. QED BY <1>3, <2>1, <3>2 DEF Jobs
  <2>2. CASE SameFiles(b, ts) # {}
    <3>1. (SameFiles(b, ts) = {}) = FALSE
      BY <2>2
    <3>2. job'[b] = [at |-> "write", codes |-> codes, ts |-> ts, clean |-> FALSE]
      BY <1>4, <3>1, Zenon
    <3>. QED BY <1>3, <2>2, <3>2 DEF Jobs
  <2>. QED BY <2>1, <2>2
<1>7. job' \in [Builders -> Jobs]
  BY <1>1, <1>5, <1>6
<1>8. TypesCountry'
  <2>1. \A q \in Builders : job'[q].at # "idle" => job'[q].ts \in Millis
    BY <1>5, <1>6 DEF IInvCountry, TypesCountry
  <2>. QED
    BY <1>2, <1>7, <2>1, ValuesOfFunctions DEF IInvCountry, TypesCountry, TypeOKCountry
<1>9. Alone'
  <2>. SUFFICES ASSUME NEW c \in Builders, NEW q \in Builders, Active(c)', q # c
                PROVE  job'[q].at = "idle" \/ job'[q].ts # job'[c].ts
    BY DEF Alone
  <2>1. CASE c = b
    <3>1. q \notin SameFiles(b, ts)
      BY <1>6, <2>1
    <3>2. job[q].at = "idle" \/ job[q].ts # ts
      BY <3>1, <2>1 DEF SameFiles
    <3>. QED BY <1>5, <1>6, <2>1, <3>2
  <2>2. CASE c # b /\ q = b
    <3>1. c \notin SameFiles(b, ts) /\ job[c].at # "idle"
      BY <1>5, <2>2
    <3>2. job[c].ts # ts
      BY <3>1, <2>2 DEF SameFiles
    <3>. QED BY <1>5, <1>6, <2>2, <3>2
  <2>3. CASE c # b /\ q # b
    BY <1>5, <2>3 DEF IInvCountry, Alone
  <2>. QED BY <2>1, <2>2, <2>3
<1>10. FilesOfBuild'
  BY <1>2, <1>5, <1>6 DEF IInvCountry, FilesOfBuild
<1>11. BuildOfSelection'
  BY <1>2, <1>3, <1>5, <1>6, Constants DEF IInvCountry, BuildOfSelection
<1>. QED
  BY <1>2, <1>8, <1>9, <1>10, <1>11 DEF IInvCountry, RootIsOfTheSelection

(* A build that goes on to another step, with its codes and files.         *)
LEMMA WriteOrRunKeepsIInv ==
    ASSUME IInvCountry, NEW b \in Builders,
           \/ WriteInput(b)
           \/ /\ job[b].at = "script" /\ GoesOn(b, "read")
              /\ outputs' = [outputs EXCEPT ![job[b].ts] = inputs[job[b].ts]]
              /\ UNCHANGED <<tree, inputs>>,
           UNCHANGED <<selected, onChain>>
    PROVE  IInvCountry'
<1>1. /\ job' = [job EXCEPT ![b].at = job'[b].at] /\ job'[b].at \in {"script", "read"}
      /\ job[b].at # "idle"
      /\ UNCHANGED <<selected, tree, updating, rules, lateRoots>>
  BY DEF WriteInput, GoesOn, onChain, IInvCountry, TypesCountry, Jobs
<1>2. /\ job' \in [Builders -> Jobs]
      /\ \A q \in Builders : /\ job'[q].ts = job[q].ts /\ job'[q].codes = job[q].codes
                             /\ job'[q].clean = job[q].clean
                             /\ job'[q].at # "idle" <=> job[q].at # "idle"
                             /\ q # b => job'[q].at = job[q].at
  BY <1>1 DEF IInvCountry, TypesCountry, Jobs
<1>3. job[b].ts \in Millis /\ job[b].codes \in SUBSET Codes
  BY <1>1 DEF IInvCountry, TypesCountry, Jobs
<1>4. \/ /\ job[b].at = "write" /\ job'[b].at = "script" /\ outputs' = outputs
         /\ inputs' = [inputs EXCEPT ![job[b].ts] = job[b].codes]
      \/ /\ job[b].at = "script" /\ job'[b].at = "read" /\ inputs' = inputs
         /\ outputs' = [outputs EXCEPT ![job[b].ts] = inputs[job[b].ts]]
  BY DEF WriteInput, GoesOn, IInvCountry, TypesCountry, Jobs
<1>5. inputs' \in FileSets /\ outputs' \in FileSets
  BY <1>3, <1>4 DEF IInvCountry, TypesCountry, FileSets
<1>6. TypesCountry'
  BY <1>1, <1>2, <1>5, ValuesOfFunctions DEF IInvCountry, TypesCountry, TypeOKCountry
<1>7. Alone'
  BY <1>2 DEF IInvCountry, Alone
<1>8. ASSUME NEW q \in Builders, Active(q)'
      PROVE  /\ job'[q].at = "script" => inputs'[job'[q].ts] = job'[q].codes
             /\ job'[q].at = "read" => outputs'[job'[q].ts] = job'[q].codes
  <2>1. Active(q)
    BY <1>2, <1>8
  <2>2. CASE q = b
    BY <1>2, <1>3, <1>4, <2>1, <2>2 DEF IInvCountry, TypesCountry, FilesOfBuild, FileSets
  <2>3. CASE q # b
    <3>1. job[q].ts # job[b].ts
      BY <1>1, <2>1, <2>3 DEF IInvCountry, Alone
    <3>2. inputs'[job[q].ts] = inputs[job[q].ts] /\ outputs'[job[q].ts] = outputs[job[q].ts]
      BY <1>4, <2>1, <3>1 DEF IInvCountry, TypesCountry, FileSets
    <3>. QED BY <1>2, <2>1, <2>3, <3>2 DEF IInvCountry, FilesOfBuild
  <2>. QED BY <2>2, <2>3
<1>9. FilesOfBuild'
  BY <1>8 DEF FilesOfBuild
<1>10. BuildOfSelection' /\ RootIsOfTheSelection'
  BY <1>1, <1>2, Constants DEF IInvCountry, BuildOfSelection, RootIsOfTheSelection
<1>. QED BY <1>6, <1>7, <1>9, <1>10 DEF IInvCountry

(* The end of a build, with the tree it read back or with an error.        *)
LEMMA FinishKeepsIInv ==
    ASSUME IInvCountry, NEW b \in Builders, job[b].at # "idle",
           NEW result \in SUBSET Codes, Finish(b, result),
           result = {} \/ (job[b].at = "read" /\ result = outputs[job[b].ts]),
           UNCHANGED <<selected, onChain>>
    PROVE  IInvCountry'
<1>1. /\ job' = [job EXCEPT ![b] = NoJob]
      /\ UNCHANGED <<selected, updating, rules, lateRoots>>
      /\ inputs' = [inputs EXCEPT ![job[b].ts] = {}]
      /\ outputs' = [outputs EXCEPT ![job[b].ts] = {}]
      /\ tree' = IF b # "page" \/ result = {} THEN tree
                 ELSE [codes |-> result, clean |-> job[b].clean]
  BY DEF Finish, onChain
<1>2. job' \in [Builders -> Jobs] /\ inputs' \in FileSets /\ outputs' \in FileSets
  BY <1>1, Constants DEF IInvCountry, TypesCountry, FileSets
<1>3. tree' \in Trees
  BY <1>1 DEF IInvCountry, TypesCountry, Trees, Jobs
<1>4. \A q \in Builders : q # b => job'[q] = job[q]
  BY <1>1 DEF IInvCountry, TypesCountry
<1>5. job'[b] = NoJob
  BY <1>1 DEF IInvCountry, TypesCountry
<1>6. TypesCountry'
  <2>1. \A q \in Builders : job'[q].at # "idle" => job'[q].ts \in Millis
    BY <1>4, <1>5, Constants DEF IInvCountry, TypesCountry
  <2>2. /\ \A q \in Builders : /\ job'[q].at \in {"idle", "write", "script", "read"}
                               /\ job'[q].codes \subseteq Codes /\ job'[q].ts \in Millis \cup {0}
        /\ tree'.codes \subseteq Codes /\ tree'.clean \in BOOLEAN
        /\ \A ts \in Millis : inputs'[ts] \subseteq Codes /\ outputs'[ts] \subseteq Codes
    BY <1>2, <1>3, ValuesOfFunctions
  <2>. QED BY <1>1, <1>2, <1>3, <2>1, <2>2 DEF IInvCountry, TypesCountry, TypeOKCountry
<1>7. Alone'
  BY <1>4, <1>5, Constants DEF IInvCountry, Alone
<1>8. ASSUME NEW q \in Builders, Active(q)'
      PROVE  /\ job'[q].at = "script" => inputs'[job'[q].ts] = job'[q].codes
             /\ job'[q].at = "read" => outputs'[job'[q].ts] = job'[q].codes
  <2>1. q # b /\ Active(q) /\ job'[q] = job[q]
    BY <1>4, <1>5, <1>8, Constants
  <2>2. job[q].ts # job[b].ts
    BY <2>1 DEF IInvCountry, Alone
  <2>3. inputs'[job[q].ts] = inputs[job[q].ts] /\ outputs'[job[q].ts] = outputs[job[q].ts]
    BY <1>1, <2>1, <2>2 DEF IInvCountry, TypesCountry, FileSets
  <2>. QED BY <2>1, <2>3 DEF IInvCountry, FilesOfBuild
<1>9. FilesOfBuild'
  BY <1>8 DEF FilesOfBuild
<1>10. BuildOfSelection'
  BY <1>1, <1>4, <1>5, Constants DEF IInvCountry, BuildOfSelection
<1>11. RootIsOfTheSelection'
  <2>1. CASE tree' = tree
    BY <1>1, <2>1 DEF IInvCountry, RootIsOfTheSelection
  <2>2. CASE b = "page" /\ result # {}
    <3>1. tree'.codes = result /\ tree'.clean = job["page"].clean
      BY <1>1, <2>2
    <3>2. job["page"].clean => result = selected
      BY <2>2 DEF IInvCountry, FilesOfBuild, BuildOfSelection
    <3>. QED BY <1>1, <3>1, <3>2 DEF RootIsOfTheSelection
  <2>. QED BY <1>1, <2>1, <2>2
<1>. QED BY <1>6, <1>7, <1>9, <1>10, <1>11 DEF IInvCountry

LEMMA BuildTreeKeepsIInv ==
    ASSUME IInvCountry, NEW b \in Builders, BuildTree(b)
    PROVE  IInvCountry'
<1>1. UNCHANGED <<selected, onChain>>
  BY DEF BuildTree
<1>2. CASE WriteInput(b)
  BY <1>1, <1>2, WriteOrRunKeepsIInv
<1>3. CASE RunScript(b)
  <2>1. CASE Finish(b, {})
    <3>1. job[b].at # "idle"
      BY <1>3 DEF RunScript
    <3>. QED BY <1>1, <2>1, <3>1, FinishKeepsIInv
  <2>2. CASE ~Finish(b, {})
    <3>1. /\ job[b].at = "script" /\ GoesOn(b, "read")
          /\ outputs' = [outputs EXCEPT ![job[b].ts] = inputs[job[b].ts]]
          /\ UNCHANGED <<tree, inputs>>
      BY <1>3, <2>2 DEF RunScript
    <3>. QED BY <1>1, <3>1, WriteOrRunKeepsIInv
  <2>. QED BY <2>1, <2>2
<1>4. CASE ReadOutput(b)
  <2>1. job[b].at = "read" /\ Finish(b, outputs[job[b].ts])
    BY <1>4 DEF ReadOutput
  <2>2. outputs[job[b].ts] \in SUBSET Codes
    BY <2>1 DEF IInvCountry, TypesCountry, FileSets
  <2>. QED BY <1>1, <2>1, <2>2, FinishKeepsIInv
<1>. QED BY <1>2, <1>3, <1>4 DEF BuildTree

LEMMA OnChainKeepsIInv ==
    ASSUME IInvCountry, UpdateOnChain \/ UpdateRoot \/ AppliedLate
    PROVE  IInvCountry'
<1>1. UNCHANGED <<selected, tree, job, inputs, outputs>>
  BY DEF UpdateOnChain, UpdateRoot, AppliedLate, files
<1>2. /\ updating' \subseteq Codes /\ rules'.root \subseteq Codes
      /\ rules'.ages \in {"own", "default"} /\ lateRoots' \subseteq SUBSET Codes
  BY Constants DEF UpdateOnChain, UpdateRoot, AppliedLate, Rules, IInvCountry, TypesCountry,
     TypeOKCountry, Trees
<1>3. TypesCountry'
  BY <1>1, <1>2, ValuesOfFunctions DEF IInvCountry, TypesCountry, TypeOKCountry
<1>. QED
  BY <1>1, <1>3 DEF IInvCountry, Alone, FilesOfBuild, BuildOfSelection, RootIsOfTheSelection

(* The inductive invariant holds.                                          *)
THEOREM CountryInvariant == SpecCountry => []IInvCountry
<1>1. ASSUME IInvCountry, Toggle \/ SelectGroup \/ ClearAll PROVE IInvCountry'
  <2>1. \E codes \in SUBSET Codes : Select(codes)
    BY <1>1, CountryAssumption
    DEF Toggle, SelectGroup, ClearAll, IInvCountry, TypesCountry, TypeOKCountry
  <2>. QED BY <1>1, <2>1, SelectKeepsIInv
<1>2. IInvCountry /\ UNCHANGED varsCountry => IInvCountry'
  BY DEF varsCountry, IInvCountry, TypesCountry, TypeOKCountry, Alone, FilesOfBuild,
     BuildOfSelection, RootIsOfTheSelection
<1>3. IInvCountry /\ [NextCountry]_varsCountry => IInvCountry'
  BY <1>1, <1>2, BuildKeepsIInv, BuildTreeKeepsIInv, OnChainKeepsIInv DEF NextCountry
<1>. QED BY <1>3, InitIInvCountry, PTL DEF SpecCountry

(* The tree on show is that of the selection, whatever number of builds    *)
(* share the temporary directory, unless a click or a build with the same  *)
(* files came between.                                                     *)
THEOREM TreeIsOfTheSelection == SpecCountry => []RootIsOfTheSelection
  BY CountryInvariant, PTL DEF IInvCountry

-----------------------------------------------------------------------------
(* The account.                                                            *)
SpecDash == InitDash /\ [][NextDash]_varsDash

Slots == 1 .. MaxRequests
RequestRecords == [do : {"none", "me", "login", "register", "rotate"}, tab : Tabs \cup {"none"},
                   of : Ids \cup {"none"}, key : Nat,
                   at : {"free", "sent", "authorized", "registering", "answered"},
                   reply : {"none", "ok", "401", "error"}, mounted : BOOLEAN]

TypesServer == /\ keyOf \in [Ids -> Nat] /\ minted \in 0 .. MaxKeys /\ crossed \in BOOLEAN
               /\ tx \in [Ids -> {"none", "sent", "applied", "failed"}]
               /\ creation \in [Ids -> {"unused", "drawn", "inserted", "polling", "done",
                                        "failed", "unregistered", "undone", "crashed"}]
               /\ \A id \in Ids : keyOf[id] <= minted

TypesBrowser == /\ stored \in Nat /\ stored <= minted /\ page \in [Tabs -> Pages \cup {"busy"}]
                /\ capturedKey \in [Tabs -> Nat]
                /\ \A t \in Tabs : capturedKey[t] <= minted

TypesRequests == /\ req \in [Slots -> RequestRecords]
                 /\ \A n \in Slots : req[n].key <= minted

(* How far the creation of an account is, in the database and on chain.    *)
Table == \A id \in Ids :
           /\ creation[id] \in {"unused", "drawn"} => keyOf[id] = 0 /\ tx[id] = "none"
           /\ creation[id] = "inserted" => keyOf[id] # 0 /\ tx[id] = "none"
           /\ creation[id] = "polling" => keyOf[id] # 0 /\ tx[id] # "none"
           /\ creation[id] = "done" => keyOf[id] # 0 /\ tx[id] = "applied"
           /\ creation[id] = "failed" => keyOf[id] = 0 /\ tx[id] \in {"none", "failed"}
           /\ creation[id] = "undone" => keyOf[id] = 0
           /\ creation[id] \in {"unregistered", "crashed"} => keyOf[id] # 0

Creates(n) == req[n].do = "register" /\ req[n].at \in {"sent", "registering"}

(* An answer that will put its key into localStorage.                      *)
Brings(n) == /\ req[n].at = "answered" /\ req[n].reply = "ok"
             /\ req[n].do \in {"login", "register", "rotate"}
Holds(n) == req[n].at = "registering" \/ Brings(n)

ShapeOf(n) ==
    /\ Creates(n) => req[n].of \in Ids
    /\ Creates(n) /\ req[n].at = "sent" => creation[req[n].of] = "drawn"
    /\ req[n].at = "registering" => /\ req[n].do = "register"
                                    /\ creation[req[n].of] \in {"inserted", "polling"}
    /\ req[n].at = "sent" /\ req[n].do = "login" => req[n].of \in Ids
    /\ req[n].at = "authorized" => req[n].of \in Ids /\ req[n].do \in {"login", "rotate"}
    /\ Brings(n) => req[n].of \in Ids
    /\ Holds(n) => req[n].key # 0
    /\ (req[n].at = "answered" /\ req[n].do = "me" /\ req[n].reply = "401")
          => ~Works(req[n].key)
Shape == \A n \in Slots : ShapeOf(n)

(* An account is created by one request.                                   *)
OneCreation == \A n, m \in Slots : Creates(n) /\ Creates(m) /\ req[n].of = req[m].of => n = m

(* A key is on its way once, and not stored before it arrives.             *)
KeysApart == /\ \A n, m \in Slots : Holds(n) /\ Holds(m) /\ req[n].key = req[m].key => n = m
             /\ \A n \in Slots : req[n].at = "registering" => req[n].key # stored

(* As long as nothing crossed, a key on its way is the account's, and one  *)
(* that was replaced is stored only until the new one arrives.             *)
NoneOvertaken == \A n \in Slots : Holds(n) => keyOf[req[n].of] = req[n].key
StoredInTime == stored = 0 \/ Works(stored) \/ \E n \in Slots : Brings(n)
InOrder == ~crossed => NoneOvertaken /\ StoredInTime

IInvDash == /\ TypesServer /\ TypesBrowser /\ TypesRequests /\ Table /\ Shape
            /\ OneCreation /\ KeysApart /\ InOrder

Same(m) == /\ req'[m].do = req[m].do /\ req'[m].of = req[m].of /\ req'[m].key = req[m].key
           /\ req'[m].at = req[m].at /\ req'[m].reply = req[m].reply

(* What a request may turn into without the relayer's state changing.      *)
Calm(m) == /\ req'[m].key <= minted
           /\ req'[m].at # "registering" /\ ~Brings(m)'
           /\ req'[m].at = "sent" => req'[m].do # "register"
           /\ req'[m].at = "sent" /\ req'[m].do = "login" => req'[m].of \in Ids
           /\ req'[m].at = "authorized" => req'[m].of \in Ids /\ req'[m].do \in {"login", "rotate"}
           /\ (req'[m].at = "answered" /\ req'[m].do = "me" /\ req'[m].reply = "401")
                 => ~Works(req'[m].key)
           /\ Brings(m) => stored' = req[m].key \/ crossed'

QuietStep == /\ UNCHANGED <<keyOf, tx, creation, minted>>
             /\ crossed' \in BOOLEAN /\ (crossed => crossed')
             /\ req' \in [Slots -> RequestRecords]
             /\ \A m \in Slots : Same(m) \/ Calm(m)
             /\ \/ stored' = stored \/ stored' = 0
                \/ \E m \in Slots : Brings(m) /\ stored' = req[m].key
             /\ TypesBrowser'

USE DashAssumption DEF DashAssumption

LEMMA QuietKeepsIInvDash == ASSUME IInvDash, QuietStep PROVE IInvDash'
<1>1. TypesServer' /\ Table'
  BY DEF IInvDash, QuietStep, TypesServer, Table
<1>2. TypesRequests'
  BY DEF IInvDash, QuietStep, TypesRequests, Same, Calm
<1>3. \A m \in Slots : /\ Creates(m)' => Creates(m) /\ Same(m)
                       /\ Holds(m)' => Holds(m) /\ Same(m)
                       /\ Brings(m)' => Brings(m) /\ Same(m)
  BY DEF QuietStep, Same, Calm, Creates, Holds, Brings
<1>4. Shape'
  <2>. SUFFICES ASSUME NEW n \in Slots PROVE ShapeOf(n)'
    BY DEF Shape
  <2>1. Works(req[n].key)' <=> Works(req'[n].key)
    BY DEF QuietStep, Works
  <2>. QED
    BY <2>1, <1>3 DEF IInvDash, QuietStep, Shape, ShapeOf, Same, Calm, Creates, Holds, Brings
<1>5. OneCreation'
  BY <1>3 DEF IInvDash, OneCreation, Same
<1>6. KeysApart'
  <2>1. \A n, m \in Slots : (Holds(n) /\ Holds(m) /\ req[n].key = req[m].key)' => n = m
    BY <1>3 DEF IInvDash, KeysApart, Same
  <2>2. ASSUME NEW n \in Slots, req'[n].at = "registering"
        PROVE  req'[n].key # stored'
    <3>1. Holds(n) /\ ~Brings(n) /\ Same(n) /\ req[n].at = "registering"
      BY <2>2, <1>3 DEF Holds, Brings, Same
    <3>2. req[n].key # stored /\ req[n].key # 0
      BY <3>1 DEF IInvDash, KeysApart, Shape, ShapeOf
    <3>3. \A m \in Slots : Brings(m) => req[m].key # req[n].key
      BY <3>1 DEF IInvDash, KeysApart, Holds
    <3>. QED BY <3>1, <3>2, <3>3 DEF QuietStep, Same
  <2>. QED BY <2>1, <2>2 DEF KeysApart
<1>7. InOrder'
  <2>. SUFFICES ASSUME ~crossed' PROVE NoneOvertaken' /\ StoredInTime'
    BY DEF InOrder
  <2>1. ~crossed
    BY DEF QuietStep
  <2>2. ASSUME NEW n \in Slots, Brings(n) PROVE req[n].of \in Ids /\ Works(req[n].key)
    BY <2>1, <2>2 DEF IInvDash, InOrder, NoneOvertaken, Shape, ShapeOf, Holds, Works
  <2>3. NoneOvertaken'
    BY <2>1, <1>3 DEF IInvDash, InOrder, NoneOvertaken, QuietStep, Same
  <2>4. Works(stored)' <=> Works(stored')
    BY DEF QuietStep, Works
  <2>5. StoredInTime'
    <3>1. CASE stored' = 0
      BY <3>1 DEF StoredInTime
    <3>2. CASE \E m \in Slots : Brings(m) /\ stored' = req[m].key
      BY <3>2, <2>2, <2>4 DEF StoredInTime
    <3>3. CASE stored' = stored
      <4>1. CASE Works(stored)
        BY <4>1, <3>3, <2>4 DEF StoredInTime
      <4>2. CASE \E n \in Slots : Brings(n)
        <5>1. PICK n \in Slots : Brings(n)
          BY <4>2
        <5>2. CASE Same(n)
          BY <5>1, <5>2 DEF Brings, Same, StoredInTime
        <5>3. CASE Calm(n)
          BY <5>1, <5>3, <2>2, <2>4 DEF Calm, StoredInTime
        <5>. QED BY <5>2, <5>3 DEF QuietStep
      <4>. QED BY <3>3, <4>1, <4>2, <2>1 DEF IInvDash, InOrder, StoredInTime
    <3>. QED BY <3>1, <3>2, <3>3 DEF QuietStep
  <2>. QED BY <2>3, <2>5
<1>. QED BY <1>1, <1>2, <1>4, <1>5, <1>6, <1>7 DEF IInvDash, QuietStep

(* What the helpers do to the requests.                                    *)
Replies == {"none", "ok", "401", "error"}

LEMMA RequestSends ==
    ASSUME TypesRequests, NEW t \in Tabs, NEW do \in {"me", "login", "register", "rotate"},
           NEW of \in Ids \cup {"none"}, NEW key \in Nat, Request(t, do, of, key)
    PROVE  /\ req' \in [Slots -> RequestRecords]
           /\ \E n \in Slots :
                 /\ req[n] = NoRequest /\ \A m \in Slots \ {n} : Same(m)
                 /\ req'[n].do = do /\ req'[n].of = of /\ req'[n].key = key
                 /\ req'[n].at = "sent" /\ req'[n].reply = "none"
<1>1. PICK n \in Slots :
        /\ req[n] = NoRequest
        /\ req' = [m \in Slots |->
                     IF m = n THEN [do |-> do, tab |-> t, of |-> of, key |-> key, at |-> "sent",
                                    reply |-> "none", mounted |-> do # "me"]
                     ELSE [req[m] EXCEPT !.mounted = @ /\ req[m].tab # t]]
  BY DEF Request, Slots
<1>2. \A m \in Slots : req[m] \in RequestRecords
  BY DEF TypesRequests
<1>3. [do |-> do, tab |-> t, of |-> of, key |-> key, at |-> "sent",
       reply |-> "none", mounted |-> do # "me"] \in RequestRecords
  BY DEF RequestRecords
<1>4. \A m \in Slots : [req[m] EXCEPT !.mounted = @ /\ req[m].tab # t] \in RequestRecords
  BY <1>2 DEF RequestRecords
<1>5. req' \in [Slots -> RequestRecords]
  BY <1>1, <1>3, <1>4
<1>6. \A m \in Slots \ {n} : Same(m)
  BY <1>1, <1>2 DEF Same, RequestRecords
<1>7. /\ req'[n].do = do /\ req'[n].of = of /\ req'[n].key = key
      /\ req'[n].at = "sent" /\ req'[n].reply = "none"
  BY <1>1
<1>. QED BY <1>1, <1>5, <1>6, <1>7

LEMMA LeavesSame ==
    ASSUME TypesRequests, NEW t \in Tabs, Leaves(t)
    PROVE  req' \in [Slots -> RequestRecords] /\ \A m \in Slots : Same(m)
<1>1. \A m \in Slots : req[m] \in RequestRecords
  BY DEF TypesRequests
<1>2. \A m \in Slots : [req[m] EXCEPT !.mounted = @ /\ req[m].tab # t] \in RequestRecords
  BY <1>1 DEF RequestRecords
<1>. QED BY <1>1, <1>2 DEF Leaves, Same, RequestRecords, Slots

LEMMA SlotAssigned ==
    ASSUME TypesRequests, NEW n \in Slots, NEW r \in RequestRecords, req' = [req EXCEPT ![n] = r]
    PROVE  req' \in [Slots -> RequestRecords] /\ req'[n] = r /\ \A m \in Slots \ {n} : Same(m)
BY DEF TypesRequests, Same

LEMMA AnswerAnswers ==
    ASSUME TypesRequests, NEW n \in Slots, NEW reply \in Replies, NEW key \in Nat,
           Answer(n, reply, key)
    PROVE  /\ req' \in [Slots -> RequestRecords] /\ \A m \in Slots \ {n} : Same(m)
           /\ req'[n].do = req[n].do /\ req'[n].of = req[n].of /\ req'[n].key = key
           /\ req'[n].at = "answered" /\ req'[n].reply = reply
<1>1. req[n] \in RequestRecords
  BY DEF TypesRequests
<1>2. [req[n] EXCEPT !.at = "answered", !.reply = reply, !.key = key] \in RequestRecords
  BY <1>1 DEF RequestRecords, Replies
<1>3. req' = [req EXCEPT ![n] = [req[n] EXCEPT !.at = "answered", !.reply = reply, !.key = key]]
  BY <1>1 DEF Answer, TypesRequests, RequestRecords
<1>4. req'[n] = [req[n] EXCEPT !.at = "answered", !.reply = reply, !.key = key]
  BY <1>2, <1>3, SlotAssigned
<1>. QED BY <1>1, <1>2, <1>3, <1>4, SlotAssigned DEF RequestRecords

LEMMA InitIInvDash == InitDash => IInvDash
<1>. SUFFICES ASSUME InitDash PROVE IInvDash
  OBVIOUS
<1>1. TypesServer
  <2>1. keyOf \in [Ids -> Nat] /\ minted = 0 /\ \A id \in Ids : keyOf[id] = 0
    BY DEF InitDash
  <2>2. /\ tx \in [Ids -> {"none", "sent", "applied", "failed"}]
        /\ creation \in [Ids -> {"unused", "drawn", "inserted", "polling", "done",
                                "failed", "unregistered", "undone", "crashed"}]
    BY DEF InitDash
  <2>3. 0 \in 0 .. MaxKeys /\ 0 <= 0
    OBVIOUS
  <2>4. crossed \in BOOLEAN
    BY DEF InitDash
  <2>. QED BY <2>1, <2>2, <2>3, <2>4 DEF TypesServer
<1>2. TypesBrowser
  BY DEF InitDash, TypesBrowser, Pages
<1>3. NoRequest \in RequestRecords /\ \A n \in Slots : req[n] = NoRequest
  BY DEF InitDash, NoRequest, RequestRecords, Slots
<1>4. TypesRequests
  BY <1>3 DEF InitDash, TypesRequests, NoRequest, Slots
<1>5. \A n \in Slots : ~Creates(n) /\ ~Holds(n) /\ ~Brings(n) /\ req[n].at = "free"
  BY <1>3 DEF NoRequest, Creates, Holds, Brings
<1>6. Table /\ Shape /\ OneCreation /\ KeysApart /\ InOrder
  BY <1>5 DEF InitDash, Table, Shape, ShapeOf, OneCreation, KeysApart, InOrder, NoneOvertaken,
     StoredInTime
<1>. QED BY <1>1, <1>2, <1>4, <1>6 DEF IInvDash

(* A request that a page sends, other than the one that registers.         *)
LEMMA SendIsCalm ==
    ASSUME IInvDash, NEW t \in Tabs, NEW do \in {"me", "login", "rotate"},
           NEW of \in Ids \cup {"none"}, NEW key \in Nat, key <= minted,
           do = "login" => of \in Ids, Request(t, do, of, key)
    PROVE  req' \in [Slots -> RequestRecords] /\ \A m \in Slots : Same(m) \/ Calm(m)
<1>1. TypesRequests
  BY DEF IInvDash
<1>2. /\ req' \in [Slots -> RequestRecords]
      /\ \E n \in Slots :
            /\ req[n] = NoRequest /\ \A m \in Slots \ {n} : Same(m)
            /\ req'[n].do = do /\ req'[n].of = of /\ req'[n].key = key
            /\ req'[n].at = "sent" /\ req'[n].reply = "none"
  BY <1>1, RequestSends
<1>3. PICK n \in Slots : /\ req[n] = NoRequest /\ \A m \in Slots \ {n} : Same(m)
                         /\ req'[n].do = do /\ req'[n].of = of /\ req'[n].key = key
                         /\ req'[n].at = "sent" /\ req'[n].reply = "none"
  BY <1>2
<1>4. Calm(n)
  BY <1>3 DEF Calm, Brings, NoRequest
<1>. QED BY <1>2, <1>3, <1>4

LEMMA PagesAreQuiet ==
    ASSUME IInvDash, NEW t \in Tabs,
           \/ \E where \in Pages : Open(t, where)
           \/ SignOut(t) \/ LoginToProject(t) \/ RotateKey(t)
    PROVE  QuietStep
<1>1. UNCHANGED <<keyOf, tx, creation, minted, crossed>> /\ (stored' = stored \/ stored' = 0)
  BY DEF Open, SignOut, LoginToProject, RotateKey, server
<1>2. TypesServer /\ TypesBrowser /\ TypesRequests
  BY DEF IInvDash
<1>3. TypesBrowser'
  <2>1. CASE \E where \in Pages : Open(t, where)
    BY <1>1, <1>2, <2>1 DEF Open, TypesBrowser, TypesServer, Pages
  <2>2. CASE SignOut(t) \/ LoginToProject(t) \/ RotateKey(t)
    BY <1>1, <1>2, <2>2 DEF SignOut, LoginToProject, RotateKey, TypesBrowser, TypesServer, Pages
  <2>. QED BY <2>1, <2>2
<1>4. req' \in [Slots -> RequestRecords] /\ \A m \in Slots : Same(m) \/ Calm(m)
  <2>1. CASE Leaves(t)
    BY <1>2, <2>1, LeavesSame
  <2>2. CASE Request(t, "me", "none", stored)
    BY <1>2, <2>2, SendIsCalm DEF TypesBrowser
  <2>3. CASE RotateKey(t)
    BY <1>2, <2>3, SendIsCalm DEF RotateKey, TypesBrowser
  <2>4. CASE LoginToProject(t)
    <3>1. PICK id \in Ids : Request(t, "login", id, 0)
      BY <2>4 DEF LoginToProject
    <3>. QED BY <1>2, <3>1, SendIsCalm DEF TypesServer
  <2>. QED BY <2>1, <2>2, <2>3, <2>4 DEF Open, SignOut
<1>. QED BY <1>1, <1>2, <1>3, <1>4 DEF QuietStep, TypesServer

(* An answer that brings no key.                                           *)
LEMMA AnswerIsCalm ==
    ASSUME IInvDash, NEW n \in Slots, NEW reply \in Replies, NEW key \in Nat, key <= minted,
           Answer(n, reply, key), Brings(n) => crossed',
           reply # "ok" \/ req[n].do = "me",
           req[n].do = "me" /\ reply = "401" => ~Works(key)
    PROVE  req' \in [Slots -> RequestRecords] /\ \A m \in Slots : Same(m) \/ Calm(m)
<1>1. TypesRequests
  BY DEF IInvDash
<1>2. /\ req' \in [Slots -> RequestRecords] /\ \A m \in Slots \ {n} : Same(m)
      /\ req'[n].do = req[n].do /\ req'[n].of = req[n].of /\ req'[n].key = key
      /\ req'[n].at = "answered" /\ req'[n].reply = reply
  BY <1>1, AnswerAnswers
<1>3. Calm(n)
  BY <1>2 DEF Calm, Brings
<1>. QED BY <1>2, <1>3

LEMMA AnswersAreQuiet ==
    ASSUME IInvDash, NEW n \in Slots, WalletRefuses(n) \/ Lost(n) \/ Authenticate(n)
    PROVE  QuietStep
<1>1. /\ UNCHANGED <<keyOf, tx, creation, minted, stored, page, capturedKey>>
      /\ crossed' \in BOOLEAN /\ (crossed => crossed')
  BY DEF WalletRefuses, Lost, Authenticate, server, browser, IInvDash, TypesServer
<1>2. TypesServer /\ TypesBrowser /\ TypesRequests /\ 0 <= minted
      /\ req[n].key \in Nat /\ req[n].key <= minted
  BY DEF IInvDash, TypesServer, TypesRequests, RequestRecords
<1>3. TypesBrowser'
  BY <1>1, <1>2 DEF TypesBrowser
<1>4. req' \in [Slots -> RequestRecords] /\ \A m \in Slots : Same(m) \/ Calm(m)
  <2>1. CASE WalletRefuses(n)
    BY <1>2, <2>1, AnswerIsCalm DEF WalletRefuses, Brings, Replies
  <2>2. CASE Lost(n)
    <3>1. Answer(n, "error", 0) /\ (Brings(n) => crossed')
      BY <2>2 DEF Lost, Brings
    <3>. QED BY <1>2, <3>1, AnswerIsCalm DEF Replies
  <2>3. CASE Authenticate(n)
    <3>1. req[n].at = "sent" /\ ~Brings(n)
      BY <2>3 DEF Authenticate, Brings
    <3>2. CASE Answer(n, "error", 0)
      BY <1>2, <3>1, <3>2, AnswerIsCalm DEF Replies
    <3>3. CASE req[n].do = "rotate" /\ Answer(n, "401", 0)
      BY <1>2, <3>1, <3>3, AnswerIsCalm DEF Replies
    <3>4. CASE /\ req[n].do = "me"
               /\ Answer(n, IF Works(req[n].key) THEN "ok" ELSE "401", req[n].key)
      <4>1. CASE Works(req[n].key)
        BY <1>2, <3>1, <3>4, <4>1, AnswerIsCalm DEF Replies
      <4>2. CASE ~Works(req[n].key)
        BY <1>2, <3>1, <3>4, <4>2, AnswerIsCalm DEF Replies
      <4>. QED BY <4>1, <4>2
    <3>5. CASE \E id \in Ids : req[n].do = "rotate"
                 /\ req' = [req EXCEPT ![n].at = "authorized", ![n].of = id]
      <4>1. PICK id \in Ids : req[n].do = "rotate"
                 /\ req' = [req EXCEPT ![n].at = "authorized", ![n].of = id]
        BY <3>5
      <4>2. req[n] \in RequestRecords
        BY <1>2 DEF TypesRequests
      <4>3. [req[n] EXCEPT !.at = "authorized", !.of = id] \in RequestRecords
        BY <4>2 DEF RequestRecords
      <4>4. req' = [req EXCEPT ![n] = [req[n] EXCEPT !.at = "authorized", !.of = id]]
        BY <1>2, <4>1, <4>2 DEF TypesRequests, RequestRecords
      <4>5. /\ req' \in [Slots -> RequestRecords] /\ \A m \in Slots \ {n} : Same(m)
            /\ req'[n] = [req[n] EXCEPT !.at = "authorized", !.of = id]
        BY <1>2, <4>3, <4>4, SlotAssigned
      <4>6. Calm(n)
        BY <1>2, <3>1, <4>1, <4>2, <4>5 DEF Calm, Brings, RequestRecords
      <4>. QED BY <4>5, <4>6
    <3>6. CASE req[n].do = "login" /\ Advances(n, "authorized")
      <4>1. req[n] \in RequestRecords
        BY <1>2 DEF TypesRequests
      <4>2. [req[n] EXCEPT !.at = "authorized"] \in RequestRecords
        BY <4>1 DEF RequestRecords
      <4>3. req' = [req EXCEPT ![n] = [req[n] EXCEPT !.at = "authorized"]]
        BY <1>2, <3>6, <4>1 DEF Advances, TypesRequests, RequestRecords
      <4>4. /\ req' \in [Slots -> RequestRecords] /\ \A m \in Slots \ {n} : Same(m)
            /\ req'[n] = [req[n] EXCEPT !.at = "authorized"]
        BY <1>2, <4>2, <4>3, SlotAssigned
      <4>5. req[n].of \in Ids
        BY <3>1, <3>6 DEF IInvDash, Shape, ShapeOf
      <4>6. Calm(n)
        BY <1>2, <3>1, <3>6, <4>1, <4>4, <4>5 DEF Calm, Brings, RequestRecords
      <4>. QED BY <4>4, <4>6
    <3>. QED BY <2>3, <3>2, <3>3, <3>4, <3>5, <3>6 DEF Authenticate
  <2>. QED BY <2>1, <2>2, <2>3
<1>. QED BY <1>1, <1>3, <1>4 DEF QuietStep

(* A page hears an answer.                                                 *)
LEMMA HearsIsQuiet == ASSUME IInvDash, NEW n \in Slots, Hears(n) PROVE QuietStep
<1>1. UNCHANGED <<keyOf, tx, creation, minted, crossed>>
  BY DEF Hears, server
<1>2. TypesServer /\ TypesBrowser /\ TypesRequests /\ 0 <= minted
      /\ req[n] \in RequestRecords /\ req[n].key \in Nat /\ req[n].key <= minted
  BY DEF IInvDash, TypesServer, TypesRequests, RequestRecords
<1>3. NoRequest \in RequestRecords
  BY DEF NoRequest, RequestRecords
<1>4. CASE req[n].do = "me" \/ req[n].reply # "ok"
  <2>1. Heard(n) /\ (stored' = stored \/ stored' = 0)
    BY <1>4 DEF Hears, browser
  <2>2. TypesBrowser'
    <3>1. \/ UNCHANGED <<page, capturedKey>> \/ Pushes(n, "entry")
          \/ Shows(n, "entry") \/ Shows(n, "apikey")
      BY <1>4 DEF Hears, browser, Back
    <3>. QED BY <1>1, <1>2, <2>1, <3>1 DEF Pushes, Shows, TypesBrowser, Pages
  <2>3. req' \in [Slots -> RequestRecords] /\ req'[n] = NoRequest /\ \A m \in Slots \ {n} : Same(m)
    BY <1>2, <1>3, <2>1, SlotAssigned DEF Heard
  <2>4. Calm(n)
    BY <1>2, <1>4, <2>3 DEF Calm, Brings, NoRequest
  <2>. QED BY <1>1, <1>2, <2>1, <2>2, <2>3, <2>4 DEF QuietStep, TypesServer
<1>5. CASE req[n].do # "me" /\ req[n].reply = "ok"
  <2>1. stored' = stored \/ (Brings(n) /\ stored' = req[n].key)
    BY <1>5 DEF Hears, KeepsKey, Brings
  <2>2. Brings(n) => stored' = req[n].key
    BY <1>5 DEF Hears, KeepsKey, Brings
  <2>3. TypesBrowser'
    <3>1. \/ Pushes(n, "dashboard") \/ Shows(n, "entry") \/ Shows(n, "apikey")
      BY <1>5 DEF Hears, Back
    <3>. QED BY <1>1, <1>2, <2>1, <3>1 DEF Pushes, Shows, TypesBrowser, Pages
  <2>4. PICK r \in RequestRecords : /\ req' = [req EXCEPT ![n] = r]
                                    /\ \/ r = NoRequest
                                       \/ r.do = "me" /\ r.at = "sent" /\ r.key = req[n].key
    <3>1. CASE Heard(n)
      BY <1>3, <3>1 DEF Heard
    <3>2. CASE req' = [req EXCEPT ![n] = [NoRequest EXCEPT !.do = "me", !.at = "sent",
                                            !.tab = req[n].tab, !.key = req[n].key]]
      <4>1. [NoRequest EXCEPT !.do = "me", !.at = "sent", !.tab = req[n].tab,
                              !.key = req[n].key] \in RequestRecords
        BY <1>2 DEF NoRequest, RequestRecords
      <4>. QED BY <3>2, <4>1 DEF NoRequest
    <3>. QED BY <1>5, <3>1, <3>2 DEF Hears
  <2>5. req' \in [Slots -> RequestRecords] /\ req'[n] = r /\ \A m \in Slots \ {n} : Same(m)
    BY <1>2, <2>4, SlotAssigned
  <2>6. Calm(n)
    BY <1>2, <2>2, <2>4, <2>5 DEF Calm, Brings, NoRequest
  <2>. QED BY <1>1, <1>2, <2>1, <2>3, <2>5, <2>6 DEF QuietStep, TypesServer
<1>. QED BY <1>4, <1>5

(* A registration's attempt draws an id that no other one draws.           *)
LEMMA RegisterKeepsIInvDash == ASSUME IInvDash, NEW t \in Tabs, Register(t) PROVE IInvDash'
<1>1. PICK id \in Ids : /\ creation[id] = "unused"
                        /\ creation' = [creation EXCEPT ![id] = "drawn"]
                        /\ Request(t, "register", id, 0)
  BY DEF Register
<1>2. UNCHANGED <<keyOf, tx, minted, stored, capturedKey, crossed>>
  BY DEF Register
<1>3. TypesServer /\ TypesBrowser /\ TypesRequests /\ Table /\ Shape
  BY DEF IInvDash
<1>4. /\ req' \in [Slots -> RequestRecords]
      /\ \E n \in Slots :
            /\ req[n] = NoRequest /\ \A m \in Slots \ {n} : Same(m)
            /\ req'[n].do = "register" /\ req'[n].of = id /\ req'[n].key = 0
            /\ req'[n].at = "sent" /\ req'[n].reply = "none"
  BY <1>1, <1>3, RequestSends
<1>5. PICK n \in Slots :
            /\ req[n] = NoRequest /\ \A m \in Slots \ {n} : Same(m)
            /\ req'[n].do = "register" /\ req'[n].of = id /\ req'[n].key = 0
            /\ req'[n].at = "sent" /\ req'[n].reply = "none"
  BY <1>4
<1>6. TypesServer' /\ TypesBrowser'
  BY <1>1, <1>2, <1>3 DEF Register, TypesServer, TypesBrowser
<1>7. TypesRequests'
  BY <1>2, <1>3, <1>4, <1>5 DEF TypesRequests, TypesServer, Same
<1>8. Table'
  BY <1>1, <1>2, <1>3 DEF Table, TypesServer
<1>9. /\ \A m \in Slots : Creates(m) => m # n /\ req[m].of # id
      /\ ~Holds(n) /\ ~Brings(n) /\ ~Holds(n)' /\ ~Brings(n)' /\ Creates(n)'
      /\ \A m \in Slots \ {n} : /\ Creates(m)' <=> Creates(m)
                                /\ Holds(m)' <=> Holds(m)
                                /\ Brings(m)' <=> Brings(m)
  BY <1>1, <1>3, <1>5 DEF Creates, Holds, Brings, Same, NoRequest, Shape, ShapeOf
<1>10. \A key : Works(key)' <=> Works(key)
  BY <1>2 DEF Works
<1>11. Shape'
  <2>. SUFFICES ASSUME NEW m \in Slots PROVE ShapeOf(m)'
    BY DEF Shape
  <2>1. CASE m = n
    BY <2>1, <1>1, <1>3, <1>5, <1>9 DEF ShapeOf, TypesServer
  <2>2. CASE m # n
    <3>1. Same(m) /\ ShapeOf(m) /\ (Creates(m) => req[m].of # id)
      BY <2>2, <1>3, <1>5, <1>9 DEF Shape
    <3>2. Works(req[m].key)' <=> Works(req[m].key)
      BY <3>1, <1>2 DEF Works, Same
    <3>3. \A i \in Ids : i # id => creation'[i] = creation[i]
      BY <1>1, <1>3 DEF TypesServer
    <3>4. req[m].at = "registering" => Creates(m)
      BY <3>1 DEF ShapeOf, Creates
    <3>. QED BY <2>2, <3>1, <3>2, <3>3, <3>4, <1>9 DEF ShapeOf, Same
  <2>. QED BY <2>1, <2>2
<1>12. OneCreation'
  BY <1>5, <1>9 DEF IInvDash, OneCreation, Same
<1>13. KeysApart'
  BY <1>2, <1>5, <1>9 DEF IInvDash, KeysApart, Same
<1>14. InOrder'
  <2>1. NoneOvertaken => NoneOvertaken'
    BY <1>2, <1>5, <1>9 DEF NoneOvertaken, Same
  <2>2. StoredInTime => StoredInTime'
    BY <1>2, <1>5, <1>9 DEF StoredInTime, Works, Same
  <2>. QED BY <1>2, <2>1, <2>2 DEF IInvDash, InOrder
<1>. QED BY <1>6, <1>7, <1>8, <1>11, <1>12, <1>13, <1>14 DEF IInvDash

(* A key that is generated is none that anybody has.                       *)
LEMMA FreshKey ==
    ASSUME IInvDash, Mint
    PROVE  /\ minted' \in 0 .. MaxKeys /\ minted + 1 \in Nat /\ minted + 1 # 0
           /\ minted' = minted + 1 /\ stored # minted + 1
           /\ \A k \in Nat : k <= minted => k <= minted' /\ k # minted + 1
           /\ \A n \in Slots : req[n].key # minted + 1
           /\ \A id \in Ids : keyOf[id] # minted + 1
<1>1. minted \in 0 .. MaxKeys /\ minted < MaxKeys /\ minted' = minted + 1
  BY DEF Mint, IInvDash, TypesServer
<1>2. stored \in Nat /\ stored <= minted
  BY DEF IInvDash, TypesBrowser
<1>3. \A n \in Slots : req[n].key \in Nat /\ req[n].key <= minted
  BY DEF IInvDash, TypesRequests, RequestRecords
<1>4. \A id \in Ids : keyOf[id] \in Nat /\ keyOf[id] <= minted
  BY DEF IInvDash, TypesServer
<1>. QED BY <1>1, <1>2, <1>3, <1>4

LEMMA MintedTypes ==
    ASSUME IInvDash, Mint, UNCHANGED browser
    PROVE  TypesBrowser'
<1>1. minted' = minted + 1 /\ minted \in Nat
  BY DEF Mint, IInvDash, TypesServer
<1>2. stored \in Nat /\ stored <= minted /\ \A t \in Tabs : capturedKey[t] \in Nat /\ capturedKey[t] <= minted
  BY DEF IInvDash, TypesBrowser
<1>3. stored <= minted' /\ \A t \in Tabs : capturedKey[t] <= minted'
  BY <1>1, <1>2
<1>. QED BY <1>3 DEF IInvDash, TypesBrowser, browser

(* The update of a rotation, which brings a key.                           *)
LEMMA RotateKeepsIInvDash == ASSUME IInvDash, NEW n \in Slots, Rotate(n) PROVE IInvDash'
<1>1. /\ req[n].at = "authorized" /\ Mint /\ UNCHANGED <<tx, creation, stored, page, capturedKey>>
      /\ keyOf' = [keyOf EXCEPT ![req[n].of] = IF @ = 0 THEN 0 ELSE minted + 1]
      /\ Answer(n, "ok", minted + 1)
      /\ crossed' = (crossed \/ Others(n) # {} \/ keyOf[req[n].of] = 0)
  BY DEF Rotate, browser
<1>2. TypesServer /\ TypesBrowser /\ TypesRequests /\ Table /\ Shape
  BY DEF IInvDash
<1>3. PICK id \in Ids : id = req[n].of /\ req[n].do \in {"login", "rotate"}
  BY <1>1, <1>2 DEF Shape, ShapeOf
<1>4. /\ minted' \in 0 .. MaxKeys /\ minted + 1 \in Nat /\ minted + 1 # 0
      /\ minted' = minted + 1 /\ stored # minted + 1
      /\ \A k \in Nat : k <= minted => k <= minted' /\ k # minted + 1
      /\ \A m \in Slots : req[m].key # minted + 1
      /\ \A i \in Ids : keyOf[i] # minted + 1
  BY <1>1, FreshKey
<1>5. /\ req' \in [Slots -> RequestRecords] /\ \A m \in Slots \ {n} : Same(m)
      /\ req'[n].do = req[n].do /\ req'[n].of = id /\ req'[n].key = minted + 1
      /\ req'[n].at = "answered" /\ req'[n].reply = "ok"
  BY <1>1, <1>2, <1>3, <1>4, AnswerAnswers DEF Replies
<1>6. /\ \A i \in Ids \ {id} : keyOf'[i] = keyOf[i]
      /\ keyOf'[id] = IF keyOf[id] = 0 THEN 0 ELSE minted + 1
      /\ keyOf' \in [Ids -> Nat]
  BY <1>1, <1>2, <1>3, <1>4 DEF TypesServer
<1>7. TypesServer'
  <2>1. \A i \in Ids : keyOf'[i] <= minted'
    BY <1>2, <1>4, <1>6 DEF TypesServer
  <2>2. crossed' \in BOOLEAN
    BY <1>1
  <2>. QED BY <1>1, <1>2, <1>4, <1>6, <2>1, <2>2 DEF TypesServer
<1>8. TypesBrowser'
  BY <1>1, MintedTypes DEF browser
<1>9. TypesRequests'
  <2>1. \A m \in Slots : req[m].key \in Nat /\ req[m].key <= minted
    BY <1>2 DEF TypesRequests, RequestRecords
  <2>. QED BY <1>4, <1>5, <2>1 DEF TypesRequests, Same
<1>10. Table'
  <2>1. \A i \in Ids : keyOf'[i] = 0 <=> keyOf[i] = 0
    BY <1>4, <1>6
  <2>. QED BY <1>1, <1>2, <2>1 DEF Table
<1>11. /\ ~Creates(n) /\ ~Creates(n)' /\ ~Holds(n) /\ ~Brings(n) /\ Holds(n)' /\ Brings(n)'
       /\ \A m \in Slots \ {n} : /\ Creates(m)' <=> Creates(m)
                                 /\ Holds(m)' <=> Holds(m)
                                 /\ Brings(m)' <=> Brings(m)
  BY <1>1, <1>3, <1>5 DEF Creates, Holds, Brings, Same
<1>12. \A k \in Nat : k <= minted /\ ~Works(k) => ~(k # 0 /\ \E i \in Ids : keyOf'[i] = k)
  BY <1>4, <1>6 DEF Works
<1>13. Shape'
  <2>. SUFFICES ASSUME NEW m \in Slots PROVE ShapeOf(m)'
    BY DEF Shape
  <2>1. CASE m = n
    BY <2>1, <1>3, <1>4, <1>5, <1>11 DEF ShapeOf
  <2>2. CASE m # n
    <3>1. Same(m) /\ ShapeOf(m)
      BY <2>2, <1>2, <1>5 DEF Shape
    <3>2. ~Works(req[m].key) => ~Works(req[m].key)'
      <4>1. req[m].key \in Nat /\ req[m].key <= minted
        BY <1>2 DEF TypesRequests, RequestRecords
      <4>. QED BY <4>1, <3>1, <1>12 DEF Works, Same
    <3>. QED BY <1>1, <2>2, <3>1, <3>2, <1>11 DEF ShapeOf, Same
  <2>. QED BY <2>1, <2>2
<1>14. OneCreation'
  BY <1>5, <1>11 DEF IInvDash, OneCreation, Same
<1>15. KeysApart'
  <2>1. \A m, k \in Slots : (Holds(m) /\ Holds(k) /\ req[m].key = req[k].key)' => m = k
    BY <1>4, <1>5, <1>11 DEF IInvDash, KeysApart, Same
  <2>2. \A m \in Slots : req'[m].at = "registering" => req'[m].key # stored'
    BY <1>1, <1>5 DEF IInvDash, KeysApart, Same
  <2>. QED BY <2>1, <2>2 DEF KeysApart
<1>16. InOrder'
  <2>1. ~crossed' => ~crossed /\ keyOf[id] # 0 /\ \A m \in Slots \ {n} : Holds(m) => req[m].of # id
    <3>1. ~crossed' => ~crossed /\ keyOf[id] # 0 /\ Others(n) = {}
      BY <1>1, <1>3
    <3>2. \A m \in Slots \ {n} : Holds(m) /\ req[m].of = id => m \in Others(n)
      BY <1>3 DEF Others, Holds, Brings, Slots
    <3>. QED BY <3>1, <3>2
  <2>2. ~crossed' => NoneOvertaken'
    <3>1. \A m \in Slots : Holds(m) => req[m].of \in Ids
      BY <1>2 DEF Shape, ShapeOf, Holds, Creates
    <3>. QED
      BY <1>4, <1>5, <1>6, <1>11, <2>1, <3>1 DEF IInvDash, InOrder, NoneOvertaken, Same
  <2>3. StoredInTime'
    BY <1>11 DEF StoredInTime
  <2>. QED BY <2>2, <2>3 DEF InOrder
<1>. QED BY <1>7, <1>8, <1>9, <1>10, <1>13, <1>14, <1>15, <1>16 DEF IInvDash

(* create_integrator's row, which nobody else has.                         *)
LEMMA InsertKeepsIInvDash == ASSUME IInvDash, NEW n \in Slots, Insert(n) PROVE IInvDash'
<1>1. /\ req[n].do = "register" /\ req[n].at = "sent" /\ Mint
      /\ UNCHANGED <<tx, stored, page, capturedKey, crossed>>
      /\ keyOf' = [keyOf EXCEPT ![req[n].of] = minted + 1]
      /\ creation' = [creation EXCEPT ![req[n].of] = "inserted"]
      /\ req' = [req EXCEPT ![n].at = "registering", ![n].key = minted + 1]
  BY DEF Insert, browser
<1>2. TypesServer /\ TypesBrowser /\ TypesRequests /\ Table /\ Shape
  BY DEF IInvDash
<1>3. PICK id \in Ids : id = req[n].of /\ creation[id] = "drawn"
  BY <1>1, <1>2 DEF Shape, ShapeOf, Creates
<1>4. /\ minted' \in 0 .. MaxKeys /\ minted + 1 \in Nat /\ minted + 1 # 0
      /\ minted' = minted + 1 /\ stored # minted + 1
      /\ \A k \in Nat : k <= minted => k <= minted' /\ k # minted + 1
      /\ \A m \in Slots : req[m].key # minted + 1
      /\ \A i \in Ids : keyOf[i] # minted + 1
  BY <1>1, FreshKey
<1>5. /\ req' \in [Slots -> RequestRecords] /\ \A m \in Slots \ {n} : Same(m)
      /\ req'[n].do = "register" /\ req'[n].of = id /\ req'[n].key = minted + 1
      /\ req'[n].at = "registering" /\ req'[n].reply = req[n].reply
  <2>1. req[n] \in RequestRecords
    BY <1>2 DEF TypesRequests
  <2>2. [req[n] EXCEPT !.at = "registering", !.key = minted + 1] \in RequestRecords
    BY <2>1, <1>4 DEF RequestRecords
  <2>3. req' = [req EXCEPT ![n] = [req[n] EXCEPT !.at = "registering", !.key = minted + 1]]
    BY <1>1, <1>2, <2>1 DEF TypesRequests, RequestRecords
  <2>4. /\ req' \in [Slots -> RequestRecords] /\ \A m \in Slots \ {n} : Same(m)
        /\ req'[n] = [req[n] EXCEPT !.at = "registering", !.key = minted + 1]
    BY <1>2, <2>2, <2>3, SlotAssigned
  <2>. QED BY <1>1, <1>3, <2>1, <2>4 DEF RequestRecords
<1>6. /\ \A i \in Ids \ {id} : keyOf'[i] = keyOf[i] /\ creation'[i] = creation[i]
      /\ keyOf'[id] = minted + 1 /\ creation'[id] = "inserted" /\ keyOf[id] = 0 /\ tx[id] = "none"
      /\ keyOf' \in [Ids -> Nat]
  BY <1>1, <1>2, <1>3, <1>4 DEF TypesServer, Table
<1>7. TypesServer'
  <2>1. \A i \in Ids : keyOf'[i] <= minted'
    BY <1>2, <1>4, <1>6 DEF TypesServer
  <2>. QED BY <1>1, <1>2, <1>4, <1>6, <2>1 DEF TypesServer
<1>8. TypesBrowser'
  BY <1>1, MintedTypes DEF browser
<1>9. TypesRequests'
  <2>1. \A m \in Slots : req[m].key \in Nat /\ req[m].key <= minted
    BY <1>2 DEF TypesRequests, RequestRecords
  <2>. QED BY <1>4, <1>5, <2>1 DEF TypesRequests, Same
<1>10. Table'
  BY <1>1, <1>2, <1>4, <1>6 DEF Table
<1>11. /\ Creates(n) /\ Creates(n)' /\ ~Holds(n) /\ ~Brings(n) /\ Holds(n)' /\ ~Brings(n)'
       /\ \A m \in Slots \ {n} : /\ Creates(m)' <=> Creates(m)
                                 /\ Holds(m)' <=> Holds(m)
                                 /\ Brings(m)' <=> Brings(m)
  BY <1>1, <1>3, <1>5 DEF Creates, Holds, Brings, Same
<1>12. \A k \in Nat : k <= minted => ((k # 0 /\ \E i \in Ids : keyOf'[i] = k) <=> Works(k))
  BY <1>4, <1>6 DEF Works
<1>13. Shape'
  <2>. SUFFICES ASSUME NEW m \in Slots PROVE ShapeOf(m)'
    BY DEF Shape
  <2>1. CASE m = n
    BY <2>1, <1>3, <1>4, <1>5, <1>6, <1>11 DEF ShapeOf
  <2>2. CASE m # n
    <3>1. Same(m) /\ ShapeOf(m)
      BY <2>2, <1>2, <1>5 DEF Shape
    <3>2. Works(req[m].key) <=> Works(req[m].key)'
      <4>1. req[m].key \in Nat /\ req[m].key <= minted
        BY <1>2 DEF TypesRequests, RequestRecords
      <4>. QED BY <4>1, <3>1, <1>12 DEF Works, Same
    <3>3. Creates(m) => req[m].of # id
      BY <2>2, <1>3, <1>11 DEF IInvDash, OneCreation
    <3>4. req[m].at = "registering" => Creates(m)
      BY <3>1 DEF ShapeOf, Creates
    <3>. QED BY <1>6, <2>2, <3>1, <3>2, <3>3, <3>4, <1>11 DEF ShapeOf, Same
  <2>. QED BY <2>1, <2>2
<1>14. OneCreation'
  BY <1>3, <1>5, <1>11 DEF IInvDash, OneCreation, Same
<1>15. KeysApart'
  <2>1. \A m, k \in Slots : (Holds(m) /\ Holds(k) /\ req[m].key = req[k].key)' => m = k
    BY <1>4, <1>5, <1>11 DEF IInvDash, KeysApart, Same
  <2>2. \A m \in Slots : req'[m].at = "registering" => req'[m].key # stored'
    BY <1>1, <1>4, <1>5 DEF IInvDash, KeysApart, Same
  <2>. QED BY <2>1, <2>2 DEF KeysApart
<1>16. InOrder'
  <2>. SUFFICES ASSUME ~crossed' PROVE NoneOvertaken' /\ StoredInTime'
    BY DEF InOrder
  <2>1. NoneOvertaken /\ StoredInTime
    BY <1>1 DEF IInvDash, InOrder
  <2>2. \A m \in Slots \ {n} : Holds(m) => req[m].of \in Ids \ {id}
    <3>1. \A m \in Slots : Holds(m) => req[m].of \in Ids /\ req[m].key # 0
      BY <1>2 DEF Shape, ShapeOf, Holds, Creates
    <3>. QED BY <2>1, <3>1, <1>6 DEF NoneOvertaken
  <2>3. NoneOvertaken'
    BY <2>1, <2>2, <1>5, <1>6, <1>11 DEF NoneOvertaken, Same
  <2>4. Works(stored) <=> Works(stored)'
    <3>1. stored \in Nat /\ stored <= minted
      BY <1>2 DEF TypesBrowser
    <3>. QED BY <3>1, <1>1, <1>12 DEF Works
  <2>5. StoredInTime'
    BY <2>1, <2>4, <1>1, <1>11 DEF StoredInTime
  <2>. QED BY <2>3, <2>5
<1>. QED BY <1>7, <1>8, <1>9, <1>10, <1>13, <1>14, <1>15, <1>16 DEF IInvDash

(* A registration that ends in an error, its row deleted or left.          *)
LEMMA EndedWithError ==
    ASSUME IInvDash, NEW n \in Slots, req[n].at = "registering", Answer(n, "error", 0),
           UNCHANGED <<minted, stored, page, capturedKey>>, keyOf' \in {keyOf, DeleteRow(n)},
           \E why \in {"failed", "undone", "crashed"} :
              creation' = [creation EXCEPT ![req[n].of] = why],
           crossed' = crossed \/ crossed' = (crossed \/ Others(n) # {} \/ keyOf[req[n].of] # req[n].key),
           keyOf' # keyOf => crossed' = (crossed \/ Others(n) # {} \/ keyOf[req[n].of] # req[n].key),
           TypesServer', Table'
    PROVE  IInvDash'
<1>1. TypesServer /\ TypesBrowser /\ TypesRequests /\ Table /\ Shape
  BY DEF IInvDash
<1>2. PICK id \in Ids : id = req[n].of /\ req[n].do = "register" /\ req[n].key # 0
  BY <1>1 DEF Shape, ShapeOf, Creates, Holds
<1>3. /\ req' \in [Slots -> RequestRecords] /\ \A m \in Slots \ {n} : Same(m)
      /\ req'[n].do = req[n].do /\ req'[n].of = id /\ req'[n].key = 0
      /\ req'[n].at = "answered" /\ req'[n].reply = "error"
  BY <1>1, <1>2, AnswerAnswers DEF Replies
<1>4. /\ Creates(n) /\ ~Creates(n)' /\ Holds(n) /\ ~Brings(n) /\ ~Holds(n)' /\ ~Brings(n)'
      /\ \A m \in Slots \ {n} : /\ Creates(m)' <=> Creates(m)
                                /\ Holds(m)' <=> Holds(m)
                                /\ Brings(m)' <=> Brings(m)
  BY <1>2, <1>3 DEF Creates, Holds, Brings, Same
<1>5. TypesBrowser' /\ TypesRequests'
  <2>1. 0 <= minted
    BY <1>1 DEF TypesServer
  <2>. QED BY <1>1, <1>3, <2>1 DEF TypesBrowser, TypesRequests, Same
<1>6. \A i \in Ids \ {id} : keyOf'[i] = keyOf[i] /\ creation'[i] = creation[i]
  BY <1>1, <1>2 DEF TypesServer, DeleteRow
<1>7. keyOf'[id] \in {0, keyOf[id]}
  BY <1>1, <1>2 DEF TypesServer, DeleteRow
<1>8. Shape'
  <2>. SUFFICES ASSUME NEW m \in Slots PROVE ShapeOf(m)'
    BY DEF Shape
  <2>1. CASE m = n
    BY <2>1, <1>2, <1>3, <1>4 DEF ShapeOf
  <2>2. CASE m # n
    <3>1. Same(m) /\ ShapeOf(m)
      BY <2>2, <1>1, <1>3 DEF Shape
    <3>2. ~Works(req[m].key) => ~Works(req[m].key)'
      BY <1>6, <1>7, <3>1 DEF Works, Same
    <3>3. Creates(m) => req[m].of # id
      BY <2>2, <1>2, <1>4 DEF IInvDash, OneCreation
    <3>4. req[m].at = "registering" => Creates(m)
      BY <3>1 DEF ShapeOf, Creates
    <3>. QED BY <1>6, <2>2, <3>1, <3>2, <3>3, <3>4, <1>4 DEF ShapeOf, Same
  <2>. QED BY <2>1, <2>2
<1>9. OneCreation'
  BY <1>3, <1>4 DEF IInvDash, OneCreation, Same
<1>10. KeysApart'
  BY <1>3, <1>4 DEF IInvDash, KeysApart, Same
<1>11. InOrder'
  <2>. SUFFICES ASSUME ~crossed' PROVE NoneOvertaken' /\ StoredInTime'
    BY DEF InOrder
  <2>1. NoneOvertaken /\ StoredInTime
    BY DEF IInvDash, InOrder
  <2>2. keyOf' # keyOf => Others(n) = {} /\ keyOf[id] = req[n].key
    BY <1>2
  <2>3. NoneOvertaken'
    <3>1. \A m \in Slots : Holds(m) => req[m].of \in Ids
      BY <1>1 DEF Shape, ShapeOf, Holds, Creates
    <3>2. \A m \in Slots \ {n} : Holds(m) /\ req[m].of = id => m \in Others(n)
      BY <1>2 DEF Others, Holds, Brings, Slots
    <3>3. \A m \in Slots \ {n} : Holds(m) => keyOf'[req[m].of] = keyOf[req[m].of]
      BY <1>6, <2>2, <3>1, <3>2
    <3>. QED BY <2>1, <3>3, <1>3, <1>4 DEF NoneOvertaken, Same
  <2>4. Works(stored) => Works(stored)'
    <3>1. CASE keyOf' = keyOf
      BY <3>1 DEF Works
    <3>2. CASE keyOf' # keyOf
      <4>1. keyOf[id] # stored
        BY <3>2, <2>2 DEF IInvDash, KeysApart
      <4>. QED BY <4>1, <1>6 DEF Works
    <3>. QED BY <3>1, <3>2
  <2>5. StoredInTime'
    BY <2>1, <2>4, <1>4 DEF StoredInTime
  <2>. QED BY <2>3, <2>5
<1>. QED BY <1>5, <1>8, <1>9, <1>10, <1>11 DEF IInvDash

(* The contract's side: the request that registers stays as it is.         *)
LEMMA ChainKeepsIInvDash ==
    ASSUME IInvDash, UNCHANGED <<keyOf, minted, stored, page, capturedKey, req, crossed>>,
           TypesServer', Table',
           \A n \in Slots : req[n].at = "registering" => creation'[req[n].of] \in {"inserted", "polling"},
           \A n \in Slots : Creates(n) /\ req[n].at = "sent" => creation'[req[n].of] = "drawn"
    PROVE  IInvDash'
<1>1. \A n \in Slots : /\ Creates(n)' <=> Creates(n)
                       /\ Holds(n)' <=> Holds(n)
                       /\ Brings(n)' <=> Brings(n)
  BY DEF Creates, Holds, Brings
<1>2. TypesBrowser' /\ TypesRequests' /\ OneCreation' /\ KeysApart'
  BY <1>1 DEF IInvDash, TypesBrowser, TypesRequests, OneCreation, KeysApart
<1>3. Shape'
  BY <1>1 DEF IInvDash, Shape, ShapeOf, Works
<1>4. InOrder'
  BY <1>1 DEF IInvDash, InOrder, NoneOvertaken, StoredInTime, Works
<1>. QED BY <1>2, <1>3, <1>4 DEF IInvDash

LEMMA SettlesKeepsIInvDash == ASSUME IInvDash, NEW id \in Ids, Settles(id) PROVE IInvDash'
<1>1. UNCHANGED <<keyOf, creation, minted, stored, page, capturedKey, req, crossed>>
  BY DEF Settles, browser
<1>2. tx[id] = "sent" /\ \E outcome \in {"applied", "failed"} : tx' = [tx EXCEPT ![id] = outcome]
  BY DEF Settles
<1>3. TypesServer' /\ Table'
  BY <1>1, <1>2 DEF IInvDash, TypesServer, Table
<1>. QED BY <1>1, <1>3, ChainKeepsIInvDash DEF IInvDash, Shape, ShapeOf

(* Undo, from where the transaction is.                                    *)
LEMMA UndoKeepsIInvDash ==
    ASSUME IInvDash, NEW n \in Slots, req[n].at = "registering", NEW why \in {"failed", "undone"},
           Undo(n, why), tx' \in [Ids -> {"none", "sent", "applied", "failed"}],
           \A i \in Ids : i # req[n].of => tx'[i] = tx[i],
           why = "failed" => tx'[req[n].of] \in {"none", "failed"}
    PROVE  IInvDash'
<1>1. /\ keyOf' = DeleteRow(n) /\ creation' = [creation EXCEPT ![req[n].of] = why]
      /\ Answer(n, "error", 0) /\ UNCHANGED <<minted, stored, page, capturedKey>>
      /\ crossed' = (crossed \/ Others(n) # {} \/ keyOf[req[n].of] # req[n].key)
  BY DEF Undo, browser
<1>2. TypesServer /\ Table
  BY DEF IInvDash
<1>3. PICK id \in Ids : id = req[n].of
  BY DEF IInvDash, Shape, ShapeOf, Creates
<1>4. /\ keyOf' = [keyOf EXCEPT ![id] = 0] /\ creation' = [creation EXCEPT ![id] = why]
  BY <1>1, <1>3 DEF DeleteRow
<1>5. TypesServer'
  <2>1. crossed' \in BOOLEAN
    BY <1>1
  <2>2. keyOf' \in [Ids -> Nat] /\ \A i \in Ids : keyOf'[i] <= minted'
    BY <1>1, <1>2, <1>4 DEF TypesServer
  <2>3. creation' \in [Ids -> {"unused", "drawn", "inserted", "polling", "done",
                               "failed", "unregistered", "undone", "crashed"}]
    BY <1>2, <1>4 DEF TypesServer
  <2>. QED BY <1>1, <1>2, <2>1, <2>2, <2>3 DEF TypesServer
<1>6. Table'
  <2>1. /\ keyOf'[id] = 0 /\ creation'[id] = why
        /\ \A i \in Ids \ {id} : keyOf'[i] = keyOf[i] /\ creation'[i] = creation[i] /\ tx'[i] = tx[i]
    BY <1>2, <1>3, <1>4 DEF TypesServer
  <2>. QED BY <1>2, <1>3, <2>1 DEF Table
<1>. QED BY <1>1, <1>5, <1>6, EndedWithError

LEMMA SendRegistrationKeepsIInvDash ==
    ASSUME IInvDash, NEW n \in Slots, SendRegistration(n) PROVE IInvDash'
<1>1. /\ req[n].at = "registering" /\ creation[req[n].of] = "inserted"
      /\ TypesServer /\ Table /\ Shape
  BY DEF SendRegistration, IInvDash
<1>2. PICK id \in Ids : id = req[n].of /\ tx[id] = "none" /\ keyOf[id] # 0
  BY <1>1 DEF Shape, ShapeOf, Creates, Table
<1>3. CASE Undo(n, "failed") /\ UNCHANGED tx
  BY <1>1, <1>2, <1>3, UndoKeepsIInvDash DEF TypesServer
<1>4. CASE tx' = [tx EXCEPT ![id] = "sent"] /\ Undo(n, "undone")
  <2>1. /\ tx' \in [Ids -> {"none", "sent", "applied", "failed"}]
        /\ \A i \in Ids : i # id => tx'[i] = tx[i]
    BY <1>1, <1>4 DEF TypesServer
  <2>. QED BY <1>1, <1>2, <1>4, <2>1, UndoKeepsIInvDash
<1>5. CASE /\ tx' = [tx EXCEPT ![id] = "sent"]
           /\ creation' = [creation EXCEPT ![id] = "polling"]
           /\ UNCHANGED <<keyOf, minted, browser, req, crossed>>
  <2>1. UNCHANGED <<keyOf, minted, stored, page, capturedKey, req, crossed>>
    BY <1>5 DEF browser
  <2>2. /\ tx'[id] = "sent" /\ creation'[id] = "polling"
        /\ \A i \in Ids \ {id} : tx'[i] = tx[i] /\ creation'[i] = creation[i]
    BY <1>1, <1>5 DEF TypesServer
  <2>3. TypesServer'
    BY <1>1, <1>5, <2>1 DEF TypesServer
  <2>4. Table'
    BY <1>1, <1>2, <2>1, <2>2 DEF Table
  <2>5. \A m \in Slots : /\ req[m].at = "registering" =>
                              req[m].of \in Ids /\ creation[req[m].of] \in {"inserted", "polling"}
                         /\ Creates(m) /\ req[m].at = "sent" =>
                              req[m].of \in Ids /\ creation[req[m].of] = "drawn"
    BY <1>1 DEF Shape, ShapeOf, Creates
  <2>6. \A m \in Slots : req[m].at = "registering" => creation'[req[m].of] \in {"inserted", "polling"}
    BY <2>2, <2>5
  <2>7. \A m \in Slots : Creates(m) /\ req[m].at = "sent" => creation'[req[m].of] = "drawn"
    BY <1>1, <1>2, <2>2, <2>5
  <2>. QED BY <2>1, <2>3, <2>4, <2>6, <2>7, ChainKeepsIInvDash
<1>. QED BY <1>2, <1>3, <1>4, <1>5 DEF SendRegistration

LEMMA CrashKeepsIInvDash == ASSUME IInvDash, NEW n \in Slots, Crash(n) PROVE IInvDash'
<1>1. /\ req[n].at = "registering" /\ Answer(n, "error", 0)
      /\ creation' = [creation EXCEPT ![req[n].of] = "crashed"]
      /\ UNCHANGED <<keyOf, tx, minted, stored, page, capturedKey, crossed>>
  BY DEF Crash, browser
<1>2. TypesServer'
  BY <1>1 DEF IInvDash, TypesServer
<1>3. Table'
  <2>1. req[n].of \in Ids /\ keyOf[req[n].of] # 0
    BY <1>1 DEF IInvDash, Shape, ShapeOf, Creates, Table
  <2>2. /\ creation'[req[n].of] = "crashed"
        /\ \A i \in Ids \ {req[n].of} : creation'[i] = creation[i]
    BY <1>1, <2>1 DEF IInvDash, TypesServer
  <2>. QED BY <1>1, <2>1, <2>2 DEF IInvDash, Table
<1>. QED BY <1>1, <1>2, <1>3, EndedWithError

(* The transaction was applied, or none is made: the answer brings the     *)
(* row's key.                                                              *)
LEMMA CreatedKeepsIInvDash ==
    ASSUME IInvDash, NEW n \in Slots, req[n].at = "registering",
           NEW how \in {"done", "unregistered"}, how = "done" => tx[req[n].of] = "applied",
           creation[req[n].of] \in {"inserted", "polling"},
           creation' = [creation EXCEPT ![req[n].of] = how], Answer(n, "ok", req[n].key),
           UNCHANGED <<keyOf, tx, minted, browser, crossed>>
    PROVE  IInvDash'
<1>1. TypesServer /\ TypesBrowser /\ TypesRequests /\ Table /\ Shape
  BY DEF IInvDash
<1>2. PICK id \in Ids : id = req[n].of /\ req[n].do = "register" /\ req[n].key # 0
  BY <1>1 DEF Shape, ShapeOf, Creates, Holds
<1>3. /\ req' \in [Slots -> RequestRecords] /\ \A m \in Slots \ {n} : Same(m)
      /\ req'[n].do = "register" /\ req'[n].of = id /\ req'[n].key = req[n].key
      /\ req'[n].at = "answered" /\ req'[n].reply = "ok"
  BY <1>1, <1>2, AnswerAnswers DEF Replies, TypesRequests, RequestRecords
<1>4. /\ Creates(n) /\ ~Creates(n)' /\ Holds(n) /\ ~Brings(n) /\ Holds(n)' /\ Brings(n)'
      /\ \A m \in Slots \ {n} : /\ Creates(m)' <=> Creates(m)
                                /\ Holds(m)' <=> Holds(m)
                                /\ Brings(m)' <=> Brings(m)
  BY <1>2, <1>3 DEF Creates, Holds, Brings, Same
<1>5. UNCHANGED <<keyOf, tx, minted, stored, page, capturedKey, crossed>>
  BY DEF browser
<1>6. TypesServer' /\ TypesBrowser'
  BY <1>1, <1>5 DEF TypesServer, TypesBrowser
<1>7. TypesRequests'
  BY <1>1, <1>3, <1>5 DEF TypesRequests, Same
<1>8. creation'[id] = how /\ \A i \in Ids \ {id} : creation'[i] = creation[i]
  BY <1>1, <1>2 DEF TypesServer
<1>9. Table'
  BY <1>1, <1>2, <1>5, <1>8 DEF Table
<1>10. Shape'
  <2>. SUFFICES ASSUME NEW m \in Slots PROVE ShapeOf(m)'
    BY DEF Shape
  <2>1. CASE m = n
    BY <2>1, <1>2, <1>3, <1>4 DEF ShapeOf
  <2>2. CASE m # n
    <3>1. Same(m) /\ ShapeOf(m)
      BY <2>2, <1>1, <1>3 DEF Shape
    <3>2. Works(req[m].key) <=> Works(req[m].key)'
      BY <1>5, <3>1 DEF Works, Same
    <3>3. Creates(m) => req[m].of # id
      BY <2>2, <1>2, <1>4 DEF IInvDash, OneCreation
    <3>4. req[m].at = "registering" => Creates(m)
      BY <3>1 DEF ShapeOf, Creates
    <3>. QED BY <1>8, <2>2, <3>1, <3>2, <3>3, <3>4, <1>4 DEF ShapeOf, Same
  <2>. QED BY <2>1, <2>2
<1>11. OneCreation'
  BY <1>3, <1>4 DEF IInvDash, OneCreation, Same
<1>12. KeysApart'
  <2>1. \A m, k \in Slots : (Holds(m) /\ Holds(k) /\ req[m].key = req[k].key)' => m = k
    BY <1>3, <1>4 DEF IInvDash, KeysApart, Same
  <2>2. \A m \in Slots : req'[m].at = "registering" => req'[m].key # stored'
    BY <1>3, <1>5 DEF IInvDash, KeysApart, Same
  <2>. QED BY <2>1, <2>2 DEF KeysApart
<1>13. InOrder'
  <2>1. NoneOvertaken => NoneOvertaken'
    BY <1>2, <1>3, <1>4, <1>5 DEF NoneOvertaken, Same
  <2>2. StoredInTime'
    BY <1>4 DEF StoredInTime
  <2>. QED BY <1>5, <2>1, <2>2 DEF IInvDash, InOrder
<1>. QED BY <1>6, <1>7, <1>9, <1>10, <1>11, <1>12, <1>13 DEF IInvDash

LEMMA SkipRegistrationKeepsIInvDash ==
    ASSUME IInvDash, NEW n \in Slots, SkipRegistration(n) PROVE IInvDash'
  BY CreatedKeepsIInvDash DEF SkipRegistration

LEMMA PollRegistrationKeepsIInvDash ==
    ASSUME IInvDash, NEW n \in Slots, PollRegistration(n) PROVE IInvDash'
<1>1. req[n].at = "registering" /\ creation[req[n].of] = "polling" /\ UNCHANGED tx
  BY DEF PollRegistration
<1>2. tx' \in [Ids -> {"none", "sent", "applied", "failed"}]
  BY <1>1 DEF IInvDash, TypesServer
<1>3. CASE tx[req[n].of] = "failed" /\ Undo(n, "failed")
  BY <1>1, <1>2, <1>3, UndoKeepsIInvDash
<1>4. CASE Undo(n, "undone")
  BY <1>1, <1>2, <1>4, UndoKeepsIInvDash
<1>5. CASE /\ tx[req[n].of] = "applied"
           /\ creation' = [creation EXCEPT ![req[n].of] = "done"]
           /\ Answer(n, "ok", req[n].key)
           /\ UNCHANGED <<keyOf, minted, browser, crossed>>
  BY <1>1, <1>5, CreatedKeepsIInvDash
<1>. QED BY <1>3, <1>4, <1>5 DEF PollRegistration

LEMMA IInvDashInductive == IInvDash /\ [NextDash]_varsDash => IInvDash'
<1>. SUFFICES ASSUME IInvDash, [NextDash]_varsDash PROVE IInvDash'
  OBVIOUS
<1>1. CASE UNCHANGED varsDash
  <2>1. \A n \in Slots : /\ Creates(n)' <=> Creates(n)
                         /\ Holds(n)' <=> Holds(n)
                         /\ Brings(n)' <=> Brings(n)
    BY <1>1 DEF varsDash, Creates, Holds, Brings
  <2>2. UNCHANGED <<keyOf, minted, stored, page, capturedKey, req, crossed, tx, creation>>
    BY <1>1 DEF varsDash
  <2>3. TypesServer' /\ Table'
    BY <2>2 DEF IInvDash, TypesServer, Table
  <2>. QED BY <2>2, <2>3, ChainKeepsIInvDash DEF IInvDash, Shape, ShapeOf
<1>2. ASSUME NEW t \in Tabs, \/ \E where \in Pages : Open(t, where)
                             \/ SignOut(t) \/ LoginToProject(t) \/ Register(t) \/ RotateKey(t)
      PROVE  IInvDash'
  BY <1>2, PagesAreQuiet, QuietKeepsIInvDash, RegisterKeepsIInvDash
<1>3. ASSUME NEW n \in Slots, WalletRefuses(n) \/ Hears(n) \/ Lost(n) \/ Authenticate(n)
      PROVE  IInvDash'
  BY <1>3, AnswersAreQuiet, HearsIsQuiet, QuietKeepsIInvDash
<1>4. ASSUME NEW n \in Slots, \/ Rotate(n) \/ Insert(n) \/ SkipRegistration(n)
                              \/ SendRegistration(n) \/ PollRegistration(n) \/ Crash(n)
      PROVE  IInvDash'
  BY <1>4, RotateKeepsIInvDash, InsertKeepsIInvDash, SkipRegistrationKeepsIInvDash,
     SendRegistrationKeepsIInvDash, PollRegistrationKeepsIInvDash, CrashKeepsIInvDash
<1>5. ASSUME NEW id \in Ids, Settles(id) PROVE IInvDash'
  BY <1>5, SettlesKeepsIInvDash
<1>. QED BY <1>1, <1>2, <1>3, <1>4, <1>5 DEF NextDash, Slots

(* The account's invariant, for any tabs, accounts and requests.           *)
THEOREM AccountInvariant == SpecDash => []IInvDash
BY InitIInvDash, IInvDashInductive, PTL DEF SpecDash

(* The account's state keeps its types.                                    *)
THEOREM AccountTypeCorrect == SpecDash => []TypeOKDash
<1>1. IInvDash => TypeOKDash
  <2>. SUFFICES ASSUME IInvDash PROVE TypeOKDash
    OBVIOUS
  <2>1. \A id \in Ids : /\ keyOf[id] \in 0 .. minted
                        /\ tx[id] \in {"none", "sent", "applied", "failed"}
                        /\ creation[id] \in {"unused", "drawn", "inserted", "polling", "done",
                                             "failed", "unregistered", "undone", "crashed"}
    BY DEF IInvDash, TypesServer
  <2>2. minted \in 0 .. MaxKeys /\ stored \in 0 .. minted
    BY DEF IInvDash, TypesServer, TypesBrowser
  <2>3. \A t \in Tabs : capturedKey[t] \in 0 .. minted /\ page[t] \in Pages \cup {"busy"}
    BY <2>2 DEF IInvDash, TypesBrowser
  <2>4. \A n \in 1 .. MaxRequests :
          req[n].at \in {"free", "sent", "authorized", "registering", "answered"}
    BY DEF IInvDash, TypesRequests, RequestRecords, Slots
  <2>5. crossed \in BOOLEAN
    BY DEF IInvDash, TypesServer
  <2>. QED BY <2>1, <2>2, <2>3, <2>4, <2>5 DEF TypeOKDash
<1>. QED BY <1>1, AccountInvariant, PTL

(* Where the database and the contract may differ about an account, and    *)
(* nowhere else: an unconfigured or dead relayer leaves a row alone, an    *)
(* exception after sending an entry alone.                                 *)
THEOREM AccountIsOnChain == SpecDash => []AccountMatchesChain
<1>1. IInvDash => AccountMatchesChain
  <2>. SUFFICES ASSUME TypesServer, Table, NEW id \in Ids
                PROVE  /\ keyOf[id] # 0 /\ tx[id] # "applied" =>
                             creation[id] \in {"inserted", "polling", "unregistered", "crashed"}
                       /\ keyOf[id] = 0 /\ tx[id] = "applied" => creation[id] = "undone"
                       /\ creation[id] = "done" => keyOf[id] # 0 /\ tx[id] = "applied"
    BY DEF IInvDash, AccountMatchesChain
  <2>. QED BY DEF Table, TypesServer
<1>. QED BY <1>1, AccountInvariant, PTL

(* At rest the stored key is the account's, unless keys crossed.           *)
THEOREM AccountKeyWorks == SpecDash => []StoredKeyWorks
<1>1. IInvDash => StoredKeyWorks
  <2>. SUFFICES ASSUME IInvDash, \A n \in Slots : req[n] = NoRequest, stored # 0, ~crossed
                PROVE  Works(stored)
    BY DEF StoredKeyWorks, Slots
  <2>1. \A n \in Slots : ~Brings(n)
    BY DEF Brings, NoRequest
  <2>. QED BY <2>1 DEF IInvDash, InOrder, StoredInTime
<1>. QED BY <1>1, AccountInvariant, PTL

(* A key that works is dropped only by a sign-out or by the refusal of     *)
(* another key.                                                            *)
THEOREM AccountDropsNoWorkingKey == SpecDash => WorkingKeyDropped
<1>1. ASSUME IInvDash, [NextDash]_varsDash, stored' = 0, Works(stored)
      PROVE  \/ \E t \in Tabs : SignOut(t)
             \/ \E n \in 1 .. MaxRequests :
                   Hears(n) /\ req[n].reply = "401" /\ req[n].key # stored
  <2>1. stored # 0
    BY <1>1 DEF Works
  <2>2. stored' = stored \/ (\E t \in Tabs : SignOut(t)) \/ \E n \in Slots : Hears(n)
    <3>1. CASE UNCHANGED varsDash
      BY <3>1 DEF varsDash
    <3>2. ASSUME NEW t \in Tabs, \/ \E where \in Pages : Open(t, where)
                                 \/ LoginToProject(t) \/ Register(t) \/ RotateKey(t)
          PROVE  stored' = stored
      BY <3>2 DEF Open, LoginToProject, Register, RotateKey
    <3>3. ASSUME NEW n \in Slots, \/ WalletRefuses(n) \/ Lost(n) \/ Authenticate(n) \/ Rotate(n)
                                  \/ Insert(n) \/ Crash(n)
          PROVE  stored' = stored
      BY <3>3 DEF WalletRefuses, Lost, Authenticate, Rotate, Insert, Crash, browser
    <3>4. ASSUME NEW n \in Slots, SkipRegistration(n) \/ SendRegistration(n) \/ PollRegistration(n)
          PROVE  stored' = stored
      BY <3>4 DEF SkipRegistration, SendRegistration, PollRegistration, Undo, browser
    <3>5. ASSUME NEW id \in Ids, Settles(id) PROVE stored' = stored
      BY <3>5 DEF Settles, browser
    <3>. QED BY <1>1, <3>1, <3>2, <3>3, <3>4, <3>5 DEF NextDash, Slots
  <2>3. ASSUME NEW n \in Slots, Hears(n) PROVE req[n].reply = "401" /\ req[n].key # stored
    <3>1. req[n].at = "answered" /\ stored' # stored
      BY <1>1, <2>1, <2>3 DEF Hears
    <3>2. CASE req[n].do = "me"
      <4>1. req[n].reply = "401"
        BY <3>1, <3>2, <2>3 DEF Hears, DropsKey, browser
      <4>2. ~Works(req[n].key)
        BY <1>1, <3>1, <3>2, <4>1 DEF IInvDash, Shape, ShapeOf
      <4>. QED BY <1>1, <4>1, <4>2
    <3>3. CASE req[n].do # "me"
      <4>1. Brings(n) /\ stored' = req[n].key
        BY <3>1, <3>3, <2>3 DEF Hears, KeepsKey, Brings
      <4>2. req[n].key # 0
        BY <1>1, <4>1 DEF IInvDash, Shape, ShapeOf, Holds
      <4>. QED BY <1>1, <4>1, <4>2
    <3>. QED BY <3>2, <3>3
  <2>. QED BY <1>1, <2>1, <2>2, <2>3 DEF Slots
<1>2. IInvDash /\ [NextDash]_varsDash =>
        [stored' = 0 /\ Works(stored) =>
          \/ \E t \in Tabs : SignOut(t)
          \/ \E n \in 1 .. MaxRequests :
                Hears(n) /\ req[n].reply = "401" /\ req[n].key # stored]_varsDash
  BY <1>1
<1>. QED BY <1>2, AccountInvariant, PTL DEF SpecDash, WorkingKeyDropped
=============================================================================
