----------------------------- MODULE Dashboard -----------------------------
(***************************************************************************)
(* The integrator's account: the dashboard's pages that obtain, use and    *)
(* replace its API key (frontend/app/dashboard: register, login, page,     *)
(* apikey), the routes between them and the relayer (app/api/kakusho), and *)
(* the relayer's handlers, which keep a row per integrator, with the hash  *)
(* of one key, next to the contract's registration.  The tabs of a browser *)
(* share one localStorage; a page that was left still hears its answers.   *)
(* API keys are numbered in the order in which they are generated.         *)
(***************************************************************************)
EXTENDS Naturals, FiniteSets

CONSTANTS Tabs,        \* of one browser, all of one wallet
          Ids,         \* the ids that the register page may draw
          MaxKeys,     \* bound of the keys generated
          MaxRequests  \* bound of the requests in flight

ASSUME DashAssumption == MaxKeys \in Nat /\ MaxRequests \in Nat

VARIABLES keyOf,    \* the row of each id: the key it has the hash of, 0 without a row
          tx,       \* the transaction that registers it in the contract
          creation, \* how far create_integrator is with it
          minted,   \* the keys generated so far
          stored,   \* localStorage's kakusho_api_key, 0 when there is none
          page,     \* what each tab shows
          capturedKey, \* the key the tab's API key page was opened with
          req,      \* the requests
          crossed   \* history: keys overtook each other, or got lost on the way

varsDash == <<keyOf, tx, creation, minted, stored, page, capturedKey, req, crossed>>

server == <<keyOf, tx, creation, minted>>
browser == <<stored, page, capturedKey>>

NoRequest == [do |-> "none", tab |-> "none", of |-> "none", key |-> 0, at |-> "free",
              reply |-> "none", mounted |-> FALSE]

Works(key) == key # 0 /\ \E id \in Ids : keyOf[id] = key

-----------------------------------------------------------------------------
(* The pages.                                                              *)
Request(t, do, of, key) ==
    \E n \in 1 .. MaxRequests :
        /\ req[n] = NoRequest /\ \A m \in 1 .. n - 1 : req[m] # NoRequest
        /\ req' = [m \in 1 .. MaxRequests |->
                     IF m = n THEN [do |-> do, tab |-> t, of |-> of, key |-> key, at |-> "sent",
                                    reply |-> "none", mounted |-> do # "me"]
                     ELSE [req[m] EXCEPT !.mounted = @ /\ req[m].tab # t]]

Leaves(t) == req' = [m \in 1 .. MaxRequests |->
                       [req[m] EXCEPT !.mounted = @ /\ req[m].tab # t]]

(* A link: the dashboard loads with the stored key, the API key page keeps *)
(* it; without one both go to the login page.  "entry" are the pages that  *)
(* keep no key: login, its list of projects, the form to register.         *)
Open(t, where) ==
    /\ page[t] # where
    /\ page' = [page EXCEPT ![t] = IF where \in {"dashboard", "apikey"} /\ stored = 0
                                   THEN "entry" ELSE where]
    /\ capturedKey' = [capturedKey EXCEPT ![t] = IF where = "apikey" THEN stored ELSE 0]
    /\ IF where = "dashboard" /\ stored # 0
       THEN Request(t, "me", "none", stored) ELSE Leaves(t)
    /\ UNCHANGED <<server, stored, crossed>>

SignOut(t) == /\ page[t] = "dashboard" /\ page' = [page EXCEPT ![t] = "entry"]
              /\ stored' = 0 /\ Leaves(t)
              /\ UNCHANGED <<server, capturedKey, crossed>>

(* loginToProject with one of the projects that by-owner lists.            *)
LoginToProject(t) ==
    /\ page[t] = "entry" /\ page' = [page EXCEPT ![t] = "busy"]
    /\ \E id \in {i \in Ids : keyOf[i] # 0} : Request(t, "login", id, 0)
    /\ UNCHANGED <<server, stored, capturedKey, crossed>>

(* register(): every attempt draws an id of its own.                       *)
Register(t) ==
    /\ page[t] = "entry" /\ page' = [page EXCEPT ![t] = "busy"]
    /\ \E id \in Ids : /\ creation[id] = "unused" /\ creation' = [creation EXCEPT ![id] = "drawn"]
                       /\ Request(t, "register", id, 0)
    /\ UNCHANGED <<keyOf, tx, minted, stored, capturedKey, crossed>>

(* rotateKey, confirmed; the page goes on with the key it was opened with. *)
RotateKey(t) ==
    /\ page[t] = "apikey" /\ page' = [page EXCEPT ![t] = "busy"]
    /\ Request(t, "rotate", "none", capturedKey[t])
    /\ UNCHANGED <<server, stored, capturedKey, crossed>>

-----------------------------------------------------------------------------
(* The answers.                                                            *)
Advances(n, to) == req' = [req EXCEPT ![n].at = to]
Answer(n, reply, key) == req' = [req EXCEPT ![n].at = "answered", ![n].reply = reply,
                                            ![n].key = key]

(* The nonce and the signature that login and register begin with.         *)
WalletRefuses(n) == /\ req[n].at = "sent" /\ req[n].do \in {"login", "register"}
                    /\ Answer(n, "error", 0)
                    /\ UNCHANGED <<server, browser, crossed>>

DropsKey_AnyError(reply) == reply # "ok"

(* The dashboard's load removes the key, whichever is stored by then.      *)
DropsKey(reply) == reply = "401"

KeepsKey_NotRotated(do) == do \in {"login", "register"}

(* What a key that arrives is put into localStorage for.                   *)
KeepsKey(do) == do \in {"login", "register", "rotate"}

Back(do) == IF do = "rotate" THEN "apikey" ELSE "entry"

Shows(n, where) == /\ page' = [page EXCEPT ![req[n].tab] = IF req[n].mounted THEN where ELSE @]
                   /\ UNCHANGED capturedKey
Pushes(n, where) == /\ page' = [page EXCEPT ![req[n].tab] = where]
                    /\ capturedKey' = [capturedKey EXCEPT ![req[n].tab] = 0]
Heard(n) == req' = [req EXCEPT ![n] = NoRequest]

(* router.push works for a page that was left, and setState does not; the  *)
(* dashboard that a login opens loads at once.                             *)
Hears(n) ==
    /\ req[n].at = "answered" /\ UNCHANGED <<server, crossed>>
    /\ IF req[n].do = "me"
       THEN /\ Heard(n)
            /\ IF DropsKey(req[n].reply) THEN stored' = 0 /\ Pushes(n, "entry")
               ELSE UNCHANGED browser
       ELSE IF req[n].reply # "ok"
       THEN Heard(n) /\ Shows(n, Back(req[n].do)) /\ UNCHANGED stored
       ELSE /\ stored' = IF KeepsKey(req[n].do) THEN req[n].key ELSE stored
            /\ CASE req[n].do = "login" ->
                      /\ Pushes(n, "dashboard")
                      /\ req' = [req EXCEPT ![n] = [NoRequest EXCEPT !.do = "me", !.at = "sent",
                                            !.tab = req[n].tab, !.key = req[n].key]]
                 [] OTHER -> Heard(n) /\ Shows(n, Back(req[n].do))

(* The connection breaks, also when the tab is closed or reloaded.         *)
Lost(n) == /\ req[n].at = "answered" /\ req[n].reply \in {"ok", "401"}
           /\ Answer(n, "error", 0)
           /\ crossed' = (crossed \/ (req[n].do # "me" /\ req[n].reply = "ok"))
           /\ UNCHANGED <<server, browser>>

-----------------------------------------------------------------------------
(* The relayer.                                                            *)
Others(n) == {m \in 1 .. MaxRequests \ {n} :
                req[m].of = req[n].of /\ req[m].at \notin {"free", "sent"}}

Mint == minted < MaxKeys /\ minted' = minted + 1

(* /me, through the dashboard's route, which makes a 500 of what is not    *)
(* JSON; and the first half of rotate_api_key and rotate_by_owner.         *)
Authenticate(n) ==
    /\ req[n].at = "sent" /\ UNCHANGED <<server, browser, crossed>>
    /\ \/ /\ req[n].do = "me"
          /\ Answer(n, IF Works(req[n].key) THEN "ok" ELSE "401", req[n].key) \/ Answer(n, "error", 0)
       \/ /\ req[n].do = "rotate"
          /\ IF Works(req[n].key)
             THEN \E id \in Ids :
                    /\ keyOf[id] = req[n].key
                    /\ req' = [req EXCEPT ![n].at = "authorized", ![n].of = id]
             ELSE Answer(n, "401", 0)
       \/ /\ req[n].do = "login"
          /\ IF keyOf[req[n].of] # 0 THEN Advances(n, "authorized") ELSE Answer(n, "error", 0)

(* Their UPDATE, which another one may have overtaken.                     *)
Rotate(n) ==
    /\ req[n].at = "authorized" /\ Mint
    /\ keyOf' = [keyOf EXCEPT ![req[n].of] = IF @ = 0 THEN 0 ELSE minted + 1]
    /\ Answer(n, "ok", minted + 1)
    /\ crossed' = (crossed \/ Others(n) # {} \/ keyOf[req[n].of] = 0)
    /\ UNCHANGED <<tx, creation, browser>>

(* create_integrator: the row first.                                       *)
Insert(n) ==
    /\ req[n].do = "register" /\ req[n].at = "sent" /\ Mint
    /\ keyOf' = [keyOf EXCEPT ![req[n].of] = minted + 1]
    /\ creation' = [creation EXCEPT ![req[n].of] = "inserted"]
    /\ req' = [req EXCEPT ![n].at = "registering", ![n].key = minted + 1]
    /\ UNCHANGED <<tx, browser, crossed>>

DeleteRow_Kept(n) == keyOf

DeleteRow(n) == [keyOf EXCEPT ![req[n].of] = 0]

(* Any exception of the registration.                                      *)
Undo(n, why) == /\ keyOf' = DeleteRow(n)
                /\ creation' = [creation EXCEPT ![req[n].of] = why]
                /\ Answer(n, "error", 0)
                /\ crossed' = (crossed \/ Others(n) # {} \/ keyOf[req[n].of] # req[n].key)
                /\ UNCHANGED <<minted, browser>>

(* A relayer that was started without the contract's id or the sponsor's   *)
(* secret, as its defaults are, registers nothing and answers all the same. *)
SkipRegistration(n) ==
    /\ req[n].at = "registering" /\ creation[req[n].of] = "inserted"
    /\ creation' = [creation EXCEPT ![req[n].of] = "unregistered"]
    /\ Answer(n, "ok", req[n].key)
    /\ UNCHANGED <<keyOf, tx, minted, browser, crossed>>

(* Load the account, simulate, prepare, send; the answer to the last one   *)
(* may be lost, and the row is deleted whatever became of the transaction. *)
SendRegistration(n) ==
    /\ req[n].at = "registering" /\ creation[req[n].of] = "inserted"
    /\ \/ Undo(n, "failed") /\ UNCHANGED tx
       \/ /\ tx' = [tx EXCEPT ![req[n].of] = "sent"]
          /\ \/ /\ creation' = [creation EXCEPT ![req[n].of] = "polling"]
                /\ UNCHANGED <<keyOf, minted, browser, req, crossed>>
             \/ Undo(n, "undone")

Settles(id) == /\ tx[id] = "sent"
               /\ \E outcome \in {"applied", "failed"} : tx' = [tx EXCEPT ![id] = outcome]
               /\ UNCHANGED <<keyOf, creation, minted, browser, req, crossed>>

(* Twenty polls; a poll that raises ends them as the timeout does, with    *)
(* the transaction where it is.                                            *)
PollRegistration(n) ==
    /\ req[n].at = "registering" /\ creation[req[n].of] = "polling" /\ UNCHANGED tx
    /\ \/ /\ tx[req[n].of] = "applied"
          /\ creation' = [creation EXCEPT ![req[n].of] = "done"]
          /\ Answer(n, "ok", req[n].key)
          /\ UNCHANGED <<keyOf, minted, browser, crossed>>
       \/ tx[req[n].of] = "failed" /\ Undo(n, "failed")
       \/ Undo(n, "undone")

(* The relayer's process dies: nobody deletes the row.                     *)
Crash(n) == /\ req[n].at = "registering" /\ Answer(n, "error", 0)
            /\ creation' = [creation EXCEPT ![req[n].of] = "crashed"]
            /\ UNCHANGED <<keyOf, tx, minted, browser, crossed>>

-----------------------------------------------------------------------------
InitDash ==
    /\ keyOf = [id \in Ids |-> 0] /\ tx = [id \in Ids |-> "none"]
    /\ creation = [id \in Ids |-> "unused"] /\ minted = 0 /\ stored = 0
    /\ page = [t \in Tabs |-> "entry"] /\ capturedKey = [t \in Tabs |-> 0]
    /\ req = [n \in 1 .. MaxRequests |-> NoRequest] /\ crossed = FALSE

Pages == {"entry", "dashboard", "apikey"}

NextDash ==
    \/ \E t \in Tabs : \/ \E where \in Pages : Open(t, where)
                       \/ SignOut(t) \/ LoginToProject(t) \/ Register(t) \/ RotateKey(t)
    \/ \E n \in 1 .. MaxRequests : \/ WalletRefuses(n) \/ Hears(n) \/ Lost(n) \/ Authenticate(n)
                                   \/ Rotate(n) \/ Insert(n) \/ SkipRegistration(n)
                                   \/ SendRegistration(n) \/ PollRegistration(n) \/ Crash(n)
    \/ \E id \in Ids : Settles(id)

-----------------------------------------------------------------------------
(* The types.                                                              *)
TypeOKDash ==
    /\ \A id \in Ids : /\ keyOf[id] \in 0 .. minted
                       /\ tx[id] \in {"none", "sent", "applied", "failed"}
                       /\ creation[id] \in {"unused", "drawn", "inserted", "polling", "done",
                                            "failed", "unregistered", "undone", "crashed"}
    /\ minted \in 0 .. MaxKeys /\ stored \in 0 .. minted /\ crossed \in BOOLEAN
    /\ \A t \in Tabs : /\ capturedKey[t] \in 0 .. minted
                       /\ page[t] \in Pages \cup {"busy"}
    /\ \A n \in 1 .. MaxRequests :
         req[n].at \in {"free", "sent", "authorized", "registering", "answered"}

(* routes_integrator.py:168 says that an account is registered on chain    *)
(* atomically.  How far that goes, whoever logs in meanwhile: an id has a  *)
(* row and no entry in the contract only while it is being created, when   *)
(* the relayer died at it, or when the relayer had no contract or sponsor  *)
(* configured; an entry and no row only when sending or polling broke, or  *)
(* the twenty polls passed, with the transaction on its way.  A creation   *)
(* that was confirmed left both.                                           *)
AccountMatchesChain ==
    \A id \in Ids :
        /\ keyOf[id] # 0 /\ tx[id] # "applied" =>
               creation[id] \in {"inserted", "polling", "unregistered", "crashed"}
        /\ keyOf[id] = 0 /\ tx[id] = "applied" => creation[id] = "undone"
        /\ creation[id] = "done" => keyOf[id] # 0 /\ tx[id] = "applied"

(* When nothing is in flight the key in localStorage is the account's,     *)
(* unless two changes of the key overlapped or an answer was lost.         *)
StoredKeyWorks ==
    (\A n \in 1 .. MaxRequests : req[n] = NoRequest) /\ stored # 0 /\ ~crossed => Works(stored)

(* A key that still works leaves localStorage only when the user signs out *)
(* or by a load that had read another key before it was replaced.          *)
WorkingKeyDropped ==
    [][stored' = 0 /\ Works(stored) =>
          \/ \E t \in Tabs : SignOut(t)
          \/ \E n \in 1 .. MaxRequests :
                Hears(n) /\ req[n].reply = "401" /\ req[n].key # stored]_varsDash
=============================================================================
