# A formal model of the Kakusho KYC protocol

Kakusho lets a person prove to a dApp on Stellar that their identity document
satisfies the dApp's rules (age, freshness of the document, nationality off a
restricted list) without showing the document. This directory holds TLA+ modules
that model the parts of the program where order, concurrency and arithmetic
decide whether that promise is kept, TLC configurations that check them on small
instances, and proofs, checked by TLAPS, that hold for every instance.

Paths below are relative to the repository (`contracts/...`, `backend/...`).

## 1. Inventory

### Parts, state, operations

| part | where | state it keeps | operations |
|---|---|---|---|
| OCR circuit | `circuits/ocr_tier`, `circuits/common` | none | one relation between six public signals and a private witness |
| tree builder | `circuits/scripts/build_restricted_tree.js`, `frontend/app/api/kakusho/build-tree` | a JSON file of brackets, paths and a root | build |
| SDK | `sdk/src` | none between proofs | extract a document, build a witness, prove, submit |
| `kyc_registry` | `contracts/kyc_registry/src` | an `IntegratorConfig` per 32-byte id; the set of spent nullifier keys | `register_integrator`, `update_integrator_rules`, `set_active`, `verify` |
| `groth16_verifier` | `contracts/groth16_verifier/src` | none | the pairing check |
| relayer, submission | `backend/app/api/routes_proof.py`, `services/spend_limit.py`, `stellar_sponsor.py`, `snarkjs_verify.py` | `integrators`, `sponsored_tx_log`, `webhook_deliveries`; the pool of connections; the sponsor's Stellar account | `POST /proof/submit`, `GET /proof/status` |
| relayer, webhooks | `services/webhook_service.py` | `webhook_deliveries` | enqueue, read the due rows, post, record |
| relayer, onboarding | `routes_integrator.py` | `integrators`, the contract's record | register, rotate key or secret, policy, webhook, list |
| relayer, sessions | `verification_session.py`, `routes_sessions.py` | `verification_sessions` | create, poll, update |
| relayer, NFC | `routes_nfc.py`, `nfc_verify.py`, `nfc_policy.py` | rows in the same tables | chip verification, NFC submission |
| verification page | `frontend/app/verify/page.tsx`, `sdk/src/prover` | the page's stage, cameras, photographs; a web worker | connect a wallet, capture, prove, submit, go back to the dApp |
| session store | `frontend/app/api/kakusho/sessions`, `component/qrcode.tsx`, `app/verify/mobile` | a map in memory | `GET`, `POST`, `PATCH`; the QR code that polls, the phone's page |
| dashboard | `frontend/app/dashboard`, `frontend/app/api/kakusho` | `localStorage`'s API key; the country selection and its tree; two temporary files to a build | register, log in, rotate, sign out; select, build, update on chain |
| SDK sessions | `sdk/src/session` | a timer, a result | `start`, `stop`, poll; the phone's flow |
| SDK chip reader | `sdk/src/nfc/nfc_reader.ts` | the chip's selected file | `readNFCChip` |
| scanner app | `kakusho-scanner-app/src` | the session in React context | deep link, scan, upload |

### How they interact

The SDK reads the integrator's rules and tree file, proves on the user's device,
and posts the proof to the relayer. The relayer checks it with snarkjs, counts
the integrator's sponsored transactions, signs a transaction with its one
sponsor account and sends it to Soroban, writes `sponsored_tx_log`, and
puts a webhook in `webhook_deliveries`; a worker would post it to the integrator, but
nothing in the repository runs one. The contract decides on its own, from its own
configuration and clock. The owner of an integrator changes rules on chain, and the
relayer's policy in the database. The phone hand-off goes through session rows that a desktop polls.

### What is hard

* **Arithmetic.** 64-bit comparators are fed differences in a field of 254 bits;
  sentinels close the restricted list; ids and roots change representation
  between four languages.
* **Time.** A proof takes long, rules change meanwhile, and three clocks (device,
  ledger, database) are compared.
* **Replay and retry.** A proof is public once it is sent; the client, the relayer
  and the user may each send it again.
* **Concurrency in the relayer.** Requests are asyncio tasks; each `await` is a
  point where other requests, the dashboard, the ledger or a worker act. A count
  and an insert, a read and an update are separate statements without a
  transaction around them.
* **Concurrency in the clients.** A React component that is gone still hears its
  answers; a timer has polls in flight; a deep link replaces what a running scan closes
  over; two reads share one chip; two tabs share one `localStorage`.
* **Failure.** A reply of the RPC is lost, the process dies between sending a
  transaction and logging it, a webhook is accepted and its answer lost.

### What each part must get right

* Circuit and contract: whoever is accepted was eligible under the rules in
  force at that moment; whoever is eligible can be accepted; a nullifier counts
  once per integrator; nothing made for one integrator is of use at another.
* Submission: the daily limit bounds what the sponsor pays; no fee is paid
  without a trace; each request is answered; a webhook is enqueued once and only
  for a logged submission.
* Webhooks: tried as often as configured, recorded as delivered only if
  acknowledged; overlapping workers do not post for ever. (That they are settled in the
  end needs a worker that runs again and again, which the repository does not start.)
* Onboarding: database and chain agree on who exists and who owns it, but for the
  failures that are named; an old key stops working, and the browser keeps the new one.
* Sessions: reports cannot keep a session moving for ever, an end is left by a race
  only, a client cannot report its own success. (That each one ends needs somebody who
  reads it after `expires_at`, which nobody must.)
* Clients: what the user is told is what the relayer did; whatever answers late, out of
  order or never, no screen hangs and no camera, worker or timer is left running; a root
  that goes to the chain is of the countries on show.

`PROJECT.json` lists every hazard at its line under `hazards`.

## 2. Modules

| module | models | extends / instances |
|---|---|---|
| `KycCircuit` | the constraints of `kyc_ocr.circom`, the tree builder's brackets | |
| `OneTimeKyc` | the abstract promise to an integrator: no proofs, signals or field elements in it | |
| `KycRegistry` | the contract, one action per entry point | extends `KycCircuit`, instances `OneTimeKyc` |
| `KycProtocol` | provers (SDK) beside the contract | extends `KycRegistry` |
| `Relayer` | `POST /proof/submit`, the database, the sponsor's transactions, crashes | |
| `WebhookOutbox` | webhook workers beside the requests that enqueue | extends `Relayer` |
| `VerificationSession` | one row of `verification_sessions` under concurrent calls | |
| `VerifyPage` | the hosted verification page, the SDK's pipeline and worker | |
| `ChipRead` | `readNFCChip` and its two concurrent `readEF` | |
| `SessionWidget` | the SDK's desktop widget, the phone's flow and a session between them | |
| `SessionStore` | the frontend's session store, `QRHandoff` and the phone's page | |
| `ScannerApp` | deep links, screens and scans of the native app | |
| `CountryRules` | the country selection, the build of its tree, the update on chain | |
| `Dashboard` | API keys between tabs, routes, relayer and chain | |
| `KycProtocolProofs` | theorems of `KycCircuit`, `KycRegistry` and `KycProtocol` | extends `KycProtocol` |
| `VerificationSessionProofs`, `RelayerProofs`, `WebhookOutboxProofs` | theorems of the modules they are named for | extend them |
| `VerifyPagesProofs`, `SessionClientsProofs`, `DashboardProofs` | theorems of `SessionStore` and `VerifyPage`; of `SessionWidget`, `ChipRead` and `ScannerApp`; of `CountryRules` and `Dashboard` | extend them |
| `ClientsProofs` | theorems of the composition of the clients, from those of the parts | extends `MCClients` and the three above |
| `MCKycProtocol`, `MCRelayer`, `MCWebhookOutbox`, `MCVerificationSession`, `MCClients` | instances for TLC | |

The seven client modules share no state with each other. They meet the relayer at a
fetch, whose answers they choose freely: whatever `Relayer` or `VerificationSession` can
answer is among the choices. `MCClients` puts them in one state, with a variable `part` that
names the one that a behaviour is of.

A definition whose name continues another's after an underscore
(`SignalsBound_IdUnchecked`) is a mistaken form of it. No specification uses it;
putting it in the place of the right one shows that a property notices the
mistake.

### KycCircuit

`LessThan` and its relatives compute in the field what circomlib's comparators
compute, and are *not* taken to compare integers: a negative age is a huge field
element. `AgeCheck`, `FreshnessCheck`, `NonMember` are the three
predicates, `Satisfies` is `KycOcr`. A date is a signed number of seconds;
`ToField` reduces it as snarkjs does. Poseidon is an injective constructor, so a
nullifier is the tuple hashed, and a root stands for the set of codes the tree was
built from; the Merkle path proves that a bracket is a leaf of that tree.
`ZeroRoot` is the root the relayer registers an integrator with.

### KycRegistry

`config`, `nullifiers`, `ledgerNow` are the storage and the ledger's timestamp;
`accepted` is a history of the calls that returned `Ok(true)`. An invocation is
one step: Soroban commits or drops it as a whole. `VerifyResult` lists every
outcome of `verify` in the order of the code, `Ok(false)` included. The caller is
unrestricted: any proof, next to the six signals of any proof (`SignalsOf`, what snarkjs
returned) or to the five that `submitProof` in `sdk/src/submit.ts` sends
(`SubmittedSignals`, without the nullifier). The `Proof` of `Spec` is any record at all; only
`PairingHolds` demands that a witness exists (knowledge soundness of Groth16).

### KycProtocol

`GenerateProof` is `generateKycProof`: rules that the caller has at hand, the
device's clock, a secret drawn for each proof. Rules may be amended, the
integrator switched off and the ledger advanced between proving and `verify`.
`HonestCall` says when a caller has done nothing wrong; what such a call gets depends on
the vector it passes: `HonestProofAccepted` for both, `SubmittedProofAccepted` for what
documentation and SDK hold of the one of five.
`RootText` says how the tree file spells its root.

### Relayer

A request's `pc` stands at the `await`s of `submit_proof`: it arrives and holds a
connection (`new`), has read the integrator's row (`authed`), has passed the count
(`reserved`), has returned from Soroban (`submitted`), has its log row (`logged`),
is answered (`done`). `seen` is the integrator's row as it was read at the
start. `InsertLog` has the unique index on `(integrator_id, nullifier_hex)`, whose
violation nobody catches. `SubmitSends` has the three things that can be wrong
after `send_transaction`: the network did not queue it, the reply was lost, the
ledger will refuse it; the code does not read the status. `EncoderReady` is `FALSE`
for the code as committed (`_public_signals_scval` raises
`NotImplementedError`) and `TRUE` for the same handler with that stub filled
in. With `TRUE` a submission may still fail as the stub does, so the passing runs
cover both. Policy columns are presumed to exist, as
`nfc_policy.py:12-16` asks.

### WebhookOutbox

A worker is one run of `process_pending_webhooks`: `Fetch` reads the due rows
with their `attempt_count`, `Post` sends one and holds the answer, `Record`
updates the row from what was read, whatever became of it since. `PostRaises` is
an address that `httpx` cannot parse: `InvalidURL` is no `HTTPError`, and the
rest of the batch is lost. No loop in the repository calls the function (its
comments refer to `main.py`, which starts none): workers may run, overlap or never run,
and none is owed a step. The limit of 100 rows to a batch
is not modelled.

### VerificationSession

`Read` is the `SELECT` of `get_session` with everything decided on it before the
next `await`; `Sweep` and `Write` are the unconditional `UPDATE`s of `get_session`
and `update_status`. A client's call holds what it read in `seen` and `readAt`.
`PATCH` may ask for any status; `Accepted` is the refusal in `routes_sessions.py`.
The desktop polls as `widget.ts` does, only up to `expires_at` (`PollsOn`), and its tab
may be closed at any time; the other clients may ask and report at any time.
`VALID_TRANSITIONS` does not list `expired` after `proof_generated`, `get_session`
writes it all the same: the model follows `get_session`. Nothing in the
repository ever writes `submitted` or `confirmed` (`routes_nfc.py` does not touch
sessions), and so nothing does here. Sessions share nothing; one is modelled.

### VerifyPage

`stage` is the page's `Stage`, `step` stands at the `await`s of `startProof` and of
`generateKycProof`. Each activation of `useCamera` asks for a stream of its own:
`cam` is that of the view on show, `late` counts the requests whose view is gone
before the permission was given, `strays` the streams nothing will stop. The worker
posts messages (`mail`) that the page handles later; the message that ends it
terminates it. A photograph is legible or not, a face shows a new pose or not. An
exception of the redirect, an unusable `callback_url`, falls into the `catch` of the
whole attempt, after the relayer took the proof. `RelayerDecides` stands for
`POST /proof/submit`.

### ChipRead

A chip has one selected file, and both reads of `Promise.all` select theirs over the same
connection. A file is a number of chunks, each named by the file it came from; `mixed`
remembers the reads during which another one selected its file.

### SessionWidget

`intervals` are the timers that run, `pollHandle` the one that `stop()` would clear: a
second `start()` forgets the first one's. A poll has its answer before it is heard.
The routes `resolve`, `scanned`, `complete` and `fail` are not in the repository (the
relayer's sessions are those of `VerificationSession`, with other names); they are taken
as the two clients use them, and an ended session stays as it is.

### SessionStore

The route's folder is `[id]` and its handlers read `params.session`, so that all
sessions have the key `undefined`: the store is one entry. `PATCH` reads the entry before
it awaits the body and writes `{ ...s, ...body }` after it. `QRHandoff` waits for
`submitted`, `confirmed`, `failed` or `expired`, none of which the store ever says: the
poll goes on, and a property that the desktop is told would be false from the start.

### ScannerApp

A call of `runScan` is a process of its own, bound to the session it was made with and
to the mount of its screen, and never cancelled. Every link, the same one too, is parsed
into a new object, which makes a new `runScan`. The relayer's answer is any 2xx: `ok`
is not looked at. That the fields the app sends are not those the relayer's NFC route
expects is outside the model, as that route is not registered.

### CountryRules

A build copies the selection, writes a file named by the millisecond, runs the script,
reads and unlinks. A tree is named by the set of codes it is of. `build-tree` says of
itself that the browser does not call it; the page does. `UpdateRoot` sends the two other
rules as defaults, since `/integrators/me` names neither.

### Dashboard

A key is its number in the order of generation; `keyOf` holds whose hash the row has.
`req` are the fetches in flight with the tab that made them: `setState` of a page that is
gone does nothing, `router.push` and `localStorage` work all the same. `create_integrator`
inserts, registers on chain, and deletes the row when that raises. `creation` tells the
ways it can end apart: `done`, `failed` (nothing on chain), `undone` (an exception after the
transaction was sent: the row is deleted all the same), `crashed` (the row is left), and
`unregistered`: a relayer without a contract id or a sponsor's secret, the defaults of
`config.py`, skips the registration and answers success. Which it is may differ from one
registration to the next, as the relayer may be restarted with other settings. The nonce
of a login, which no later step reads, is left out. `crossed` remembers that two changes
of one key overlapped or that an answer with a key was lost.

## 3. What is checked

History is kept for the properties only: `accepted`, `posts` and
`acked`, `basis`, and in the clients `hint`, `mixed`, `lost`, `changes`, `clean`,
`crossed`. Every run is in `PROJECT.json`; `tlc -config X.cfg M` repeats it.

**protocol** (`MCKycProtocol`, passes). Field of 37 elements, 3-bit comparators,
clock of three instants, two documents (one holder is born during the run), two
integrators, three sets of rules (the second stricter, the third with
`ZeroRoot`), two secrets, two proofs, drift of one. 37 is the least
prime that holds the sums of the comparators (`4 * B64 <= P`) with room for
differences of either sign, so the field wraps as in the code. Two
proofs are enough for a replay, for the signals of one next to the other, and for
one made before and one after an amendment. Shown: `NullifierAcceptedOnce`,
`SpentExactlyWhenAccepted` (a refused call burns nothing),
`ProofBoundToIntegrator`, `AcceptedWereEligible` (in seconds of integers),
`HonestProofAccepted` and `EligibleCanProve` (completeness; of an honest call with the
five signals of the SDK, that their number is what it is refused for), and that the
contract implements `OneTimeKyc`.

**document_twice, every_integrator, decimal_root, sdk_signals** (`MCKycProtocol`, violated).
What the documentation says and the code does not do; section 5.

**relayer** (`MCRelayer`, passes). Three requests, three nullifiers, a limit of one,
a pool of two, one crash, the clock and the settings moving. A limit of one with
a pool of two is the smallest instance where a burst overshoots, and three
requests are one more than the bound allows. `BurstWithinPool`: the race that
`spend_limit.py:35-43` admits is bounded by the pool. `SpendAccountedFor`: a
transaction that is queued or charged is logged as submitted, or its request is
under way, or ended in an error somebody sees. `WebhookOncePerNullifier`.

**relayer_answers** (passes). Two requests fill a pool of two:
`EveryRequestAnswered`. No symmetry, since the property is a liveness one.

**relayer_retries** (violated, with `EncoderReady = FALSE`). Section 5.

**webhooks** (`MCWebhookOutbox`, passes). One delivery, two overlapping workers,
three tries, one crash at any point, the address changing between a good one,
none and an unparsable one. Deliveries do not influence each other but through a
batch that `PostRaises` drops, which the one delivery meets too. Shown:
`GivenUpAfterAllTries`, `DeliveredWasAcknowledged`, `DeliveredIsFinal` (only a
worker that had read the row before may reopen it; with overlapping workers the
code does reopen it) and `PostsWithinOverlap`: workers that write over each other's count
repeat tries, but two workers with three tries post at most nine times, and twice more
for a crash, instead of for ever. TLC reaches the nine. Three tries let a worker's
out-of-date row lag by more than one. Whether a delivery is ever tried is not a
property of this code; section 5.

**sessions** (`MCVerificationSession`, passes). A desktop that polls and two phones
that scanned the same code, each calling any number of times and cut off at any
point; a session that lives for one tick of a clock of three. Two phones and a poll
are what it takes to write over a write that was itself out of date.
`NoSelfReportedSuccess`, `ProgressReadInTime`, `BackwardOnlyByRace` (the races do
occur: a late `Write` reopens an ended session) and `SessionComesToRest`: although ended
sessions are reopened and calls come without end, the status changes only so often,
since each write goes above what it had read. It needs no fairness, and no clock: it
holds within the lifetime too.

**clients** (`MCClients`, passes). Each part alone, under everything that may answer it
late, in another order or never:

| part | instance | properties |
|---|---|---|
| page | good, malformed and no `callback_url`; two camera requests that outlive their view; blurred documents, missing poses | `NothingLeftRunning`, `VerifiedWasAccepted`, `AcceptedButError`, `AttemptEnds` |
| chip | one tap, files of two and three chunks, with and without access control | `UndisturbedReadIsWhole`, `ReadSettles` |
| widget | two starts, one poll at a time, one phone | `OneTrueResult`, `FailedThoughAccepted`, `ResultComes` |
| store | one reporter beside the phone, two entries one after the other | `GoesBackOnlyByRace` |
| scanner | two links, three scans, one screen, one link that comes during it | `OneScanUnlessReplaced`, `ResultWasAnswered` |
| country | two codes, one other builder in the same millisecond, one late transaction | `RootIsOfTheSelection` |
| account | one tab with two overlapping requests, one integrator, three keys, crashes | `AccountMatchesChain`, `StoredKeyWorks`, `WorkingKeyDropped` |

Properties with an exception name it exactly (`AcceptedButError`: only a lost answer or
an unusable `callback_url`; `StoredKeyWorks`: only overlapping changes or a lost key;
`AccountMatchesChain`: a row alone only of an unconfigured or a dead relayer, an entry alone
only of an exception after sending), so that another way to the same harm would be
found. Files of different lengths are what lets one read take the other's length; one tab
is enough for overlap, since a page that was left still hears its answers.

**store_forward** (`MCClients`, the store alone, violated). Section 5.

Deadlock checking is off everywhere: these are bounded instances of systems that
run out of requests, proofs and clock, and of pages whose user may stop.

### Bounds

`MaxProofs`, `MaxTime`, `MaxCrashes` and the sizes of the sets of requests,
nullifiers, workers, documents and rules; in the clients `MaxLate`, `MaxStarts`,
`MaxPolls`, `MaxPhones`, `MaxBirths`, `MaxScans`, `MaxMounts`, `MaxChanges`,
`MaxLateRoots`, `MaxKeys`, `MaxRequests`. Those named `Max...` are guards of
actions. In the theorems each of them may be any number, and each set any set.

### Fairness

Safety needs none. `FairSpec` of `Relayer` and `SpecOutbox` assume weak fairness
of each request's next step: every `await` completes, because a statement of the
database returns or raises, the pool gives `httpx` and the RPC client timeouts
and `snarkjs` is killed after thirty seconds. Arrivals, the dashboard, ledgers,
the clock and crashes are not fair. `SpecOutbox` owes the workers nothing, as nothing
runs them, and `Spec` of `VerificationSession` owes nothing to anybody: the desktop stops
asking at `expires_at`, a tab may be closed, the process may die at any `await`.

`FairSpec` of `MCClients`: once a proof was asked for, `Proving`, because a fetch
answers or breaks, the worker's thread is scheduled and image processing returns or
throws; `Exchange`, because a chip answers or is taken away; `Ticks` and `Clock`, because
an interval timer and the clock run. No fairness for the user, for answers to polls or
for the phone.

## 4. What is proved

`tlapm M.tla` checks every obligation of a module of proofs. Those of
`KycProtocolProofs` are for all values of the constants that satisfy `FieldAssumption`,
`CodesAssumption`, `RegistryAssumption` and `RootTextAssumption`: a field at
least four times the range of its comparators, codes below the sentinel, rules
and documents of their types.

* **Arithmetic.** `AgeCheckMeaning`, `FreshnessMeaning`, `CountryComparators` turn
  the field's comparators into inequalities of integers; `NonMemberMeaning` shows
  that a bracket of the sorted list excludes the banned codes;
  `SatisfiesMeansEligible` puts them together.
* **The contract.** `IInv` is the inductive invariant: types; the recorded keys are
  those of the history; the accepted nullifiers are distinct; each acceptance is
  bound to its integrator and eligible. Distinctness alone is not inductive: that
  the next nullifier differs from all before it follows from the check against
  `nullifiers` only if `nullifiers` is the history. One lemma per action, then
  `InvariantHolds`, and from it `TypeInvariant`, `NullifiersAcceptedOnce`,
  `SpentAreAccepted`, `ProofsBoundToIntegrator`, `AcceptedAreEligible`.
* **Refinement.** `RegistryImplementsPromise`: each entry point is a step of
  `OneTimeKyc` or a stutter. That a `Verify` step is a `Grant` uses `IInv`: two
  grants of the same document number and secret would be one nullifier.
* **The composition.** `ProtocolImplementsRegistry`: the provers only ever present
  members of `Proof`, so the composed system implements `KycRegistry!Spec` and
  inherits all of the above. `PInv` adds that accepted proofs came from provers, and
  gives `ProtocolTypeInvariant` and `HonestProversAccepted`: an honest call is accepted
  with the six signals of snarkjs and refused for their number with the five of
  `submitProof`, whatever happened before.
* **What the circuit admits.** `CircuitMeaning` makes `SatisfiesMeansEligible` an
  equivalence: the constraints have a witness exactly for an eligible holder whose two
  margins (the age above the least, the time left of the document) are below 2^64
  seconds, `MarginsFit`. The hard half is `NonMemberComplete`: of a code that is not
  banned there is a largest banned one below and a smallest above, which exist because
  the set is finite (`GreatestExists`, `LeastExists`, by cardinality), and nothing lies
  between them. Hence `EligibleHoldersCanProve`, if the root is read as it is written and
  the margins fit, and its opposite for the code as it is, `DecimalRootShutsOut`:
  nobody makes a proof.
* **How far the broken promises go.** `SecondPassNeedsOtherSecret`: a document passes
  twice only with two secrets. `NothingAcceptedOffField`: an integrator whose id is not
  below the field's order accepts nobody; `FieldIdsServed`: with ids below it,
  `EveryIntegratorServed` holds, which the run of its name finds broken with others.

* **Sessions.** `VerificationSessionProofs`, for any number of clients, any
  lifetime and clock. `IInv` adds to the types what a call holds between its read
  and its write: an allowed move (`CallsInOrder`), decided in time, from a status that
  was open. Without it `Write` could write anything. It gives
  `SuccessIsNotSelfReported`, `ProgressWasInTime` and, with the fact that every
  allowed move goes up in `Rank`, `BackwardStepsAreRaces`. `LockedSessionsGoForward`
  is the converse: if one call at a time is between its `SELECT` and its `UPDATE`
  (`OneAtATime`, what a lock of the row would give), what it has read is the status
  (`ReadsAreCurrent`), and no step takes the session back or out of its outcome.

* **Submission.** `RelayerProofs`, for any sets of requests, integrators and nullifiers, any
  limit, pool and number of crashes (`RelayerAssumption`). `BurstWithinPool` bounds the rows
  of a window; it is not inductive, since the requests that passed the count will add
  rows. `BurstBound` in `IInvRelayer` counts them too: checked rows of the window and
  requests past the count are at most the limit and the pool less one, because whoever
  passes the count is in the pool beside at most `PoolSize - 1` others. The invariant also
  has the unique index (`OneRowEach`) and the row of each logged request, from which
  `WebhookOncePerNullifier` follows, and that whatever was sent belongs to a request past
  its submission (`SentIsLate`), for `SpendAccountedFor`. With one connection the bound
  is the limit (`OneConnectionOneLimit`), and with the encoder of the signals a stub, as
  it is in the code, `StubSendsNothing`.

* **Requests are answered.** `RequestsAreAnswered` is a liveness theorem: a request has
  five stages, nobody takes it back (`AnyStepIsOnward`), and its own step leaves its stage
  (`OwnStepIsOnward`), so that the rule of weak fairness, once per stage, leads from
  the first to the answer, with crashes as a short cut. The rule wants to know that a
  request in flight can step, `ENABLED <<Advance(r)>>_vars`, which the prover cannot
  evaluate: it is the hypothesis `[]AdvanceEnabled`.

* **Webhooks.** `WebhookOutboxProofs`, for any number of overlapping workers. Each step is a
  step of `Relayer` or leaves its variables alone, so that `IInvRelayer` is inherited.
  `TriesWerePosts` bounds the count in the table, the count in each worker's out-of-date
  row and the count about to be written by the posts really made; without the part
  about the workers' rows a stale `Record` would break it. It gives `AllTriesWereMade`,
  `DeliveriesWereAcknowledged` and the action property `DeliveredStaysDelivered`.
  `OutboxImplementsRelayer` adds the fairness, so that requests are answered beside the
  workers too (`OutboxAnswersRequests`). What overlapping workers cost is the difference
  to one worker, the loop that the service's comment supposes: then the row in its
  hands is the row in the table and is in one place (`RowsAreCurrent`; it needs that a
  submission has one webhook, `HooksOfDone`), an ended delivery is neither reopened nor
  posted again (`OneWorkerSettlesOnce`), and an endpoint gets at most `MaxTries` posts and
  one more for each crash (`OneWorkerPostsBounded`, from `PostsCounted`). For several
  workers the bound, a binomial coefficient, is left to TLC.

* **Session store and verification page.** `VerifyPagesProofs`. Nothing stored has a status
  outside `ORDER`, so that a `PATCH` that saw the entry as it is never takes it back
  (`BackwardPatchesAreRaces`). Of the page, what it shows says too little of what it was
  shown for: `IInvPage` adds how far the attempt is on each screen (`AttemptOnShow`) and what
  must have passed to be that far (`AttemptIsSound`): past `ocr` the document is
  legible, past `liveness` the poses are four, and nobody can change a photograph from
  there on. Hence `PageVerifiedWasAccepted` and `PageAcceptedButError`. `CamWanted` is
  stronger than `PageLeavesNothingRunning`, for a camera that was asked for is wanted too.
  `AttemptsEnd` is the page's liveness. `AttemptRuns` says at every moment what an attempt
  waits for: a call of its own, a worker with stages left, or mail whose last message is
  `success` or `error`; that the last one says it is what keeps the page from waiting for
  ever (`LastSays`). `Remaining` counts what is left, at most 19 stages, steps of the worker
  and messages; every step of `Proving` lowers it and no other one touches it
  (`ProvingAdvances`), and nineteen uses of weak fairness (`AttemptShrinks`) end the attempt.
  Here the hypothesis is `[]ProvingEnabled`: with a guard of `Proving` true, it is enabled.

* **Widget, chip reader, scanner app.** `SessionClientsProofs`. How far the phone is tells
  whether its proof was taken, hence what a session's status, an answer on its way and a
  result may say (`ResultsAreTrue`, `FailuresAreLosses`); results stay fewer than starts
  while the last one is unsettled. `Undisturbed` in `IInvChip`: as long as no other
  read selected its file, a read has its own selected, counts with its own length and
  holds only its own chunks, so that it ends with the whole file, of any length
  (`ChipReadIsWhole`). `ScansBounded` in `IInvScanner`: when the screen offers another try,
  the scans of it in flight are one fewer than the bound (`ScannerOneScan`), since whatever
  ended a try ended one of them; this counts finite sets of scans, by the library's
  theorems on cardinality. `ScansFollow` ties a scan to the app's session
  (`ScannerResultWasAnswered`).

* **Country selection and account.** `DashboardProofs`. An undisturbed build has its two
  files to itself and its codes are the selection (`TreeIsOfTheSelection`). `IInvDash` says
  what row and transaction are in each state of a creation, the failed and the skipped
  ones included (`Table`), that one request
  creates an account (`OneCreation`), that no key is on its way twice (`KeysApart`), and that as
  long as nothing crossed a key on its way is the one in the row (`NoneOvertaken`) and a
  replaced key stays stored only until the new one arrives (`StoredInTime`). `Table` gives
  `AccountIsOnChain`; `StoredInTime` is `AccountKeyWorks` with answers still on their way,
  without which it is not inductive; that a 401 was about a key that does not work, and a key
  never works again, gives `AccountDropsNoWorkingKey`.

* **The clients together.** `ClientsProofs` shows that the specification which the run
  `clients` checks, a choice among the seven parts, implements each part's
  (`ClientsImplementPage` and its like). So its type invariant, its eleven safety
  invariants, its two action properties and `AttemptEnds` are theorems of it
  (`ClientTypes`, `ClientInvariants`, `ClientSteps`, `ClientAttemptsEnd`).

The theorems on the clients assume that their bounds are numbers, any numbers, that a chip's
files have lengths (`ChipAssumption`), that no link is one of the three marks that the
app's model uses (`ScannerAssumption`) and that groups are sets of codes
(`CountryAssumption`).

**Model-checked only.** Three liveness properties and a bound. `SessionComesToRest`,
`ReadSettles` and `ResultComes` end after a number of steps that the constants decide
(calls in flight at each status, chunks and taps, runs of the widget), so that a proof needs
an induction over that number with a temporal formula in it, and the library's induction
theorems cannot be instantiated; `PostsWithinOverlap` needs one over the number of
workers. `RequestsAreAnswered` and `AttemptsEnd` have a fixed
number of stages. `ENABLED` is out of the prover's reach, hence their hypotheses
`AdvanceEnabled` and `ProvingEnabled`; they are state predicates that TLC evaluates:
added under `INVARIANTS` to `MCRelayerAnswers.cfg` and `MCClients.cfg`, they hold in
every state of those instances. The six properties that a run finds violated are false
and have no theorem, but for those that hold under a hypothesis
(`EligibleHoldersCanProve`, `FieldIdsServed`).

## 5. Where code and documentation disagree

* `DocumentAcceptedOnce`: `README.md:479` says that a document cannot pass twice at
  the same dApp. The SDK draws a new secret for each proof, so a second proof has
  another nullifier.
* `EveryIntegratorServed`: any 32 bytes are accepted as an id, the dashboard draws
  them at random; a proof for an id not below the field's order carries the reduced id
  and the contract compares the bytes. About four of five random ids are not below it.
* `EligibleCanProve` with the root in decimal: the builder writes decimal digits,
  `witness_builder.ts:124` reads hexadecimal ones.
* `SubmittedProofAccepted`: the comment of `verify` (`lib.rs:185-188`) gives the order of
  `public_signals` without the nullifier, "5 elements"; `README.md:355` ("64 hex chars × 5"),
  `db/models.py:96` and `stellar_sponsor.py:71` say five too, `submit.ts:54-60` sends those
  five, and the relayer hands them as they are to snarkjs and to the contract. `lib.rs:221`
  demands six and the code after it reads the nullifier first, as `README.md:168` lists
  them. So what goes through the SDK's own `submitProof` is refused, at the latest by the
  contract with `WrongPublicInputCount`; `HonestProofAccepted` says that callers who pass
  the vector of snarkjs are served.
* `RetryLoopStopped`: `spend_limit.py:5-9` names a client that retries in a loop as
  what the limit stops; retries of a logged nullifier fail at the insert and are
  never counted.
* `ForwardOnly`: `sessions/[id]/route.ts:77` says that only forward transitions are
  allowed, "to prevent race conditions"; the check is against what was read before the body
  was awaited, and the write restores the rest of that. `GoesBackOnlyByRace` shows that
  such a race is the only way.

Disagreements without a run of their own, because a few lines show them:

* Nothing delivers a webhook. `webhook_service.py:10-12` and `139-141` speak of a background
  loop ("see main.py"), `docs/doc.md:299` of a background task that retries with
  exponential backoff; `main.py:15-23` starts none and nothing else calls
  `process_pending_webhooks`. A webhook that is enqueued stays `pending`.
* A session need not expire. `verification_session.py:8` says that sessions expire; the row
  is changed only when somebody reads it after `expires_at`, and the desktop's widget
  has then stopped asking (`widget.ts:102-107`). A report that had read the row in time may
  also reopen it after the last poll. Such a row stays open for ever; what is recorded in
  it is still in time (`ProgressReadInTime`).
* `routes_integrator.py:168` says "Register on-chain atomically". Insert, transaction and
  delete are three steps of two systems, and line 170 skips the registration when
  `KYC_REGISTRY_CONTRACT_ID` or `SPONSOR_STELLAR_SECRET` is empty, which `config.py:23`
  and `30` make the default: the integrator is told success and has no entry in the
  contract. `AccountMatchesChain` lists every way in which row and entry can differ.
* Rejected proofs are counted. `routes_proof.py:84` and `spend_limit.py:31-33` say that they
  do not count against the limit; `RejectOffChain` logs a row and `spend_limit.py:47-54`
  counts every row of the window.
* The handlers of `[id]` read `params.session`; `QRHandoff` waits for names of statuses the
  store does not have; `build-tree/route.ts` says that the browser does not call it;
  `update-root` resets the rules for ages to defaults.

## 6. Assumptions and omissions

Cryptography is ideal: Poseidon is injective, a proof exists only for a
satisfied circuit, random secrets do not repeat, signals are canonical residues.
The text of messages, logging, HTTP parsing, image processing, OCR and liveness
detection (each succeeds or throws), the bytes of chips, presentation and signatures
of webhooks are left out. So are the years that `ocr_worker.ts` and
`nfc_witness_builder.ts` give two-digit dates: the two choose different windows, but both
are tables without order or state.

### Not modelled

* `routes_nfc.py`, `nfc_verify.py`: `main.py` does not register the router and its handlers
  read columns that `schema.sql` lacks, so that no state of it is one the program can
  be in. The NFC proof type of `storage.rs` is not reached from any entry point; the NFC
  circuit is RSA and SHA-256 over byte arrays.
* The pairing check of `groth16_verifier`, beyond soundness: elliptic curves are out of
  reach of a model checker.
* The dashboard's webhook page (it keeps nothing), its documentation page, marketing,
  styles and build files.
* The rotation of a webhook's secret and the usage counts of `/me`.

## 7. What is left

* `Relayer` and `Dashboard` in one module, with keys that rotate under requests in flight;
  today `Relayer` takes the integrator's row as read and `Dashboard` has no submissions.
* The tree's levels and paths and the dates of the machine-readable zone, as functions
  checked against reference definitions.
* The NFC route, once it is registered and its columns exist.
