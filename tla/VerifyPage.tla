---------------------------- MODULE VerifyPage ----------------------------
(***************************************************************************)
(* The hosted verification page (frontend/app/verify/page.tsx) with the    *)
(* calls it makes: the browser's camera, the wallet, the SDK's pipeline    *)
(* (sdk/src/core, prover) with its web worker, and the relayer.  Every     *)
(* await is a step, and what the outside answers is chosen when it does.   *)
(***************************************************************************)
EXTENDS Naturals, Sequences

CONSTANTS Callbacks,     \* what callback_url may be: "none", "good", "malformed"
          StatusReplies, \* what the relayer may know: "confirmed", "other", "missing"
          MaxLate        \* bound of the camera requests that outlive their view

ASSUME PageAssumption == MaxLate \in Nat

VARIABLES stage,     \* the page's Stage
          cam,       \* the camera of the capture view on show
          late,      \* requests for a camera made by views that are gone
          strays,    \* streams that nothing will stop any more
          docFile,   \* the page's photograph of the document
          captured,  \* the document view shows a photograph
          selfies,   \* the faces photographed so far, in the order asked for
          wallet,    \* how far connectWallet is
          step,      \* how far startProof is
          progress,  \* proofStage
          worker,    \* how far snarkjs_worker is
          mail,      \* its messages not yet handled
          relayer,   \* what the relayer made of the proof
          hint,      \* history: why the page may not know what the relayer did
          callback, leaving

varsPage == <<stage, cam, late, strays, docFile, captured, selfies, wallet, step,
              progress, worker, mail, relayer, hint, callback, leaving>>

camera == <<cam, late, strays>>
photos == <<docFile, captured, selfies>>
proving == <<step, progress, worker, mail>>
outside == <<relayer, hint, callback, leaving>>

ProofStages == <<"none", "ocr", "liveness", "fetching_wasm", "fetching_zkey",
                 "computing_witness", "generating_proof", "done">>

AllSelfiesDone == Len(selfies) = 4

-----------------------------------------------------------------------------
(* useCamera: each activation asks for a stream of its own.                *)

Ask(view) == IF view = "capture_selfies" /\ AllSelfiesDone THEN "off" ELSE "asked"

(* The cleanup of the effect: a live stream is stopped, a request is left. *)
Release == /\ late' = late + (IF cam = "asked" THEN 1 ELSE 0) /\ late' <= MaxLate
           /\ UNCHANGED strays

CameraAnswers == /\ \/ cam = "asked" /\ cam' \in {"live", "denied"}
                    \/ cam = "live" /\ cam' = "ready"
                 /\ UNCHANGED <<late, strays>>

LateStream_Kept == strays + 1

(* getUserMedia resolves after the cleanup: cancelled, the stream stops.   *)
LateStream == strays

CameraAnswersLate == /\ late > 0 /\ late' = late - 1
                     /\ strays' \in {strays, LateStream}
                     /\ UNCHANGED cam

Camera == /\ CameraAnswers \/ CameraAnswersLate
          /\ UNCHANGED <<stage, photos, wallet, proving, outside>>

Show(view) == /\ stage' = view /\ Release /\ cam' = Ask(view)
              /\ captured' = FALSE /\ UNCHANGED <<docFile, selfies>>

-----------------------------------------------------------------------------
(* DocumentCapture: shoot and retake.  Retake keeps the page's docFile.    *)
ShootDocument == /\ stage = "capture_document" /\ ~captured /\ cam = "ready"
                 /\ docFile' \in {"legible", "blurred"} /\ captured' = TRUE
                 /\ Release /\ cam' = "off"
                 /\ UNCHANGED <<stage, selfies, wallet, proving, outside>>

Retake == /\ stage = "capture_document" /\ captured
          /\ captured' = FALSE /\ cam' = "asked"
          /\ UNCHANGED <<stage, late, strays, docFile, selfies, wallet, proving, outside>>

(* SelfieCapture: the first pose without a file is shot next.  All four    *)
(* poses are there if every photograph shows one that none before it did.  *)
ShootSelfie == /\ stage = "capture_selfies" /\ ~AllSelfiesDone /\ cam = "ready"
               /\ \E face \in {"new pose", "other"} : selfies' = Append(selfies, face)
               /\ IF Len(selfies') = 4 THEN Release /\ cam' = "off" ELSE UNCHANGED camera
               /\ UNCHANGED <<stage, docFile, captured, wallet, proving, outside>>

(* CONTINUE and BACK.                                                      *)
Turn == /\ \/ stage = "capture_document" /\ docFile # "none" /\ Show("capture_selfies")
           \/ stage = "capture_selfies" /\ Show("capture_document")
        /\ UNCHANGED <<wallet, proving, outside>>

-----------------------------------------------------------------------------
(* The effect that loads the integrator.                                   *)
LoadIntegrator == /\ stage = "loading_integrator"
                  /\ stage' \in {"connect_wallet", "error"}
                  /\ UNCHANGED <<camera, photos, wallet, proving, outside>>

(* connectWallet, its button disabled while it runs.                       *)
ConnectWallet ==
    /\ stage = "connect_wallet"
    /\ \/ wallet = "idle" /\ wallet' = "asking"
       \/ wallet = "asking" /\ wallet' \in {"idle", "checking"}
    /\ UNCHANGED <<stage, camera, photos, proving, outside>>

(* verify/status: a 404 of the relayer means not verified yet.             *)
Verified(reply) == reply = "confirmed"

CallbackFails_Unguarded == callback # "good"

(* redirectWithResult is called if there is a callback_url, and throws if  *)
(* that is no URL; otherwise it sets a timer to leave.                     *)
CallbackFails == callback = "malformed"

Redirect == leaving' = IF callback = "good" THEN "soon" ELSE leaving

StatusFails == /\ wallet = "checking" /\ wallet' = "idle"
               /\ UNCHANGED <<stage, camera, photos, proving, outside>>

StatusAnswers ==
    /\ wallet = "checking" /\ wallet' = "idle"
    /\ \E reply \in StatusReplies :
         /\ hint' = IF reply = "confirmed" THEN "known as verified" ELSE hint
         /\ IF Verified(reply)
            THEN stage' = "already_verified" /\ Redirect /\ UNCHANGED <<camera, photos>>
            ELSE Show("capture_document") /\ UNCHANGED leaving
    /\ UNCHANGED <<proving, relayer, callback>>

Leave == /\ leaving = "soon" /\ leaving' = "gone"
         /\ UNCHANGED <<stage, camera, photos, wallet, proving, relayer, hint, callback>>

-----------------------------------------------------------------------------
(* startProof and generateKycProof.                                        *)
StartProof == /\ stage = "capture_selfies" /\ docFile # "none" /\ AllSelfiesDone
              /\ stage' = "generating_proof" /\ step' = "assets"
              /\ UNCHANGED <<camera, photos, wallet, progress, worker, mail, outside>>

(* Any exception of the pipeline ends in the page's catch.                 *)
Fail == /\ step \in {"assets", "ocr", "liveness", "witness"}
        /\ stage' = "error" /\ step' = "none"
        /\ UNCHANGED <<camera, photos, wallet, progress, worker, mail, outside>>

Pipeline ==
    \/ step = "assets"   /\ step' = "ocr" /\ progress' = "ocr" /\ worker' = worker
    \/ step = "ocr" /\ docFile = "legible"
                         /\ step' = "liveness" /\ progress' = "liveness" /\ worker' = worker
    \/ step = "liveness" /\ (\A i \in 1 .. 4 : selfies[i] = "new pose")
                         /\ step' = "witness" /\ UNCHANGED <<progress, worker>>
    \/ step = "witness"  /\ step' = "worker" /\ worker' = "start" /\ progress' = progress

Proceed == /\ Pipeline
           /\ UNCHANGED <<stage, camera, photos, wallet, mail, outside>>

WorkerSteps_FailSilently ==
    {<<"start", "wasm", <<"fetching_wasm">>>>, <<"wasm", "zkey", <<"fetching_zkey">>>>,
     <<"zkey", "prove", <<"computing_witness", "generating_proof">>>>,
     <<"prove", "finished", <<"done", "success">>>>, <<"wasm", "finished", <<>>>>}

(* handleProve in the worker, and what it posts; a fetch or fullProve that *)
(* throws, and an error of the worker itself, post one message.            *)
WorkerSteps == {<<"start", "wasm", <<"fetching_wasm">>>>,
                <<"wasm", "zkey", <<"fetching_zkey">>>>,
                <<"zkey", "prove", <<"computing_witness", "generating_proof">>>>,
                <<"prove", "finished", <<"done", "success">>>>}
               \cup {<<s, "finished", <<"error">>>> : s \in {"start", "wasm", "zkey", "prove"}}

WorkerRuns == /\ \E w \in WorkerSteps :
                   worker = w[1] /\ worker' = w[2] /\ mail' = mail \o w[3]
              /\ UNCHANGED <<stage, camera, photos, wallet, step, progress, outside>>

(* worker.terminate(), once its last message is handled.                   *)
Terminate == "none"

(* generateProof's onmessage and onerror.                                  *)
PageHearsWorker ==
    /\ step = "worker" /\ mail # <<>>
    /\ CASE Head(mail) = "success" ->
              /\ stage' = "submitting" /\ step' = "submit" /\ worker' = Terminate
              /\ mail' = <<>> /\ UNCHANGED progress
         [] Head(mail) = "error" ->
              /\ stage' = "error" /\ step' = "none" /\ worker' = Terminate
              /\ mail' = <<>> /\ UNCHANGED progress
         [] OTHER ->
              /\ progress' = Head(mail) /\ mail' = Tail(mail)
              /\ UNCHANGED <<stage, step, worker>>
    /\ UNCHANGED <<camera, photos, wallet, outside>>

RelayerDecides == /\ step = "submit" \/ hint = "reply lost"
                  /\ relayer = "unasked"
                  /\ relayer' \in {"took it", "refused"}
                  /\ UNCHANGED <<stage, camera, photos, wallet, proving, hint, callback, leaving>>

Accepted_AnyAnswer == relayer # "unasked"

(* submitProof returns for a 2xx, and throws for anything else.            *)
Accepted == relayer = "took it"

(* The answer arrives: setStage('done') and the redirect, whose exception  *)
(* the same catch turns into an error.                                     *)
PageHearsRelayer ==
    /\ step = "submit" /\ relayer # "unasked" /\ step' = "none"
    /\ stage' = IF Accepted /\ ~CallbackFails THEN "done" ELSE "error"
    /\ IF Accepted THEN Redirect ELSE UNCHANGED leaving
    /\ UNCHANGED <<camera, photos, wallet, progress, worker, mail, relayer, hint, callback>>

(* The connection breaks, before or after the relayer took the proof.      *)
ReplyLost == /\ step = "submit" /\ step' = "none"
             /\ stage' = "error" /\ hint' = "reply lost"
             /\ UNCHANGED <<camera, photos, wallet, progress, worker, mail, relayer, callback, leaving>>

-----------------------------------------------------------------------------
InitPage ==
    /\ stage = "loading_integrator" /\ cam = "off" /\ late = 0 /\ strays = 0
    /\ docFile = "none" /\ captured = FALSE /\ selfies = <<>> /\ wallet = "idle"
    /\ step = "none" /\ progress = "none" /\ worker = "none" /\ mail = <<>>
    /\ relayer = "unasked" /\ hint = "none" /\ leaving = "no" /\ callback \in Callbacks

User == ShootDocument \/ Retake \/ ShootSelfie \/ Turn \/ StartProof

(* What runs by itself once a proof was asked for: the network answers or  *)
(* breaks, and the worker's thread is scheduled.                           *)
Proving == \/ Proceed \/ Fail \/ WorkerRuns \/ PageHearsWorker
           \/ RelayerDecides \/ PageHearsRelayer \/ ReplyLost

NextPage == \/ LoadIntegrator \/ ConnectWallet \/ StatusFails \/ StatusAnswers
            \/ Camera \/ User \/ Proving \/ Leave

-----------------------------------------------------------------------------
(* The types.                                                              *)
TypeOKPage ==
    /\ stage \in {"loading_integrator", "already_verified", "connect_wallet",
                  "capture_document", "capture_selfies", "generating_proof",
                  "submitting", "done", "error"}
    /\ cam \in {"off", "asked", "live", "ready", "denied"}
    /\ late \in 0 .. MaxLate /\ strays \in Nat
    /\ docFile \in {"none", "legible", "blurred"} /\ captured \in BOOLEAN
    /\ Len(selfies) <= 4 /\ \A i \in 1 .. Len(selfies) : selfies[i] \in {"new pose", "other"}
    /\ progress \in {ProofStages[i] : i \in 1 .. 8}
    /\ relayer \in {"unasked", "took it", "refused"}

(* A camera is on only for a view that is on show and still needs a        *)
(* photograph, and the worker only while a proof is generated, whichever   *)
(* way the user turns while permission prompts are open.                   *)
NothingLeftRunning ==
    /\ strays = 0
    /\ cam \in {"live", "ready"} => \/ stage = "capture_document" /\ ~captured
                                    \/ stage = "capture_selfies" /\ ~AllSelfiesDone
    /\ worker # "none" => stage = "generating_proof"

(* The page says "Proof verified", or sends the user back with             *)
(* verified=true, only if the relayer took a proof made from a legible     *)
(* document and faces in all four poses, or knew the wallet.               *)
VerifiedWasAccepted ==
    stage \in {"done", "already_verified"} \/ leaving # "no" =>
        \/ hint = "known as verified"
        \/ /\ relayer = "took it" /\ docFile = "legible"
           /\ \A i \in 1 .. 4 : selfies[i] = "new pose"

(* The page shows an error for a proof that the relayer took only when the *)
(* answer was lost or the integrator's callback_url is unusable.           *)
AcceptedButError ==
    stage = "error" /\ relayer = "took it" => hint = "reply lost" \/ callback = "malformed"

(* A proof that was asked for ends, on the screen as well: nothing the     *)
(* worker or the relayer answers leaves the page on its progress bar.      *)
AttemptEnds == stage \in {"generating_proof", "submitting"} ~> stage \in {"done", "error"}

(* The guards of what runs by itself.  While one of them is true a step of *)
(* Proving is possible: what the proof that attempts end asks of ENABLED.  *)
CanProceed == \/ step \in {"assets", "ocr", "liveness", "witness", "submit"}
              \/ worker \in {"start", "wasm", "zkey", "prove"}
              \/ step = "worker" /\ mail # <<>>

ProvingEnabled == CanProceed => ENABLED <<Proving>>_varsPage
=============================================================================
