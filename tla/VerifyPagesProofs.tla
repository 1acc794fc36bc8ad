------------------------- MODULE VerifyPagesProofs -------------------------
(***************************************************************************)
(* Theorems of SessionStore, for any number of requests and of entries,    *)
(* and of VerifyPage, for any callbacks, any answers of the relayer and    *)
(* any number of late camera requests.  The two share no state.            *)
(***************************************************************************)
EXTENDS SessionStore, VerifyPage, TLAPS

SpecStore == InitStore /\ [][NextStore]_varsStore

KnownStatuses == {"pending", "wallet_connected", "verified", "error"}
Entries == [status : {"none"} \cup KnownStatuses, address : {"none", "phone"}, created : Nat]
PatchRecords == [at : {"unsent", "sent", "reading", "answered"},
                 body : {"none", "verified", "error", "no_status", "submitted", "wallet_connected"},
                 s : Entries]

(* A PATCH holds an entry that was there when it read it; nothing ever     *)
(* stored has a status that ORDER does not know.                           *)
IInvStore ==
    /\ TypeOKStore
    /\ entry \in Entries /\ (entry # NoEntry => entry.status # "none")
    /\ patch \in [Requests -> PatchRecords]
    /\ \A q \in Requests : /\ patch[q].s.created \in 0 .. births
                           /\ patch[q].at = "reading" => patch[q].s.status # "none"

(* The index of a status, and 0 for what ORDER does not know.              *)
LEMMA IndexOfValues ==
    /\ \A status \in KnownStatuses : IndexOf(status) \in 1 .. 4
    /\ \A status : status \notin KnownStatuses => IndexOf(status) = 0
    /\ IndexOf("error") = 4
<1>1. \A i \in 1 .. 4 : ORDER[i] \in KnownStatuses
  BY DEF ORDER, KnownStatuses
<1>2. ORDER[1] = "pending" /\ ORDER[2] = "wallet_connected"
      /\ ORDER[3] = "verified" /\ ORDER[4] = "error"
  BY DEF ORDER
<1>3. \A status \in KnownStatuses : \E i \in 1 .. 4 : ORDER[i] = status
  BY <1>2 DEF KnownStatuses
<1>4. \A status \in KnownStatuses : IndexOf(status) \in 1 .. 4
  BY <1>3 DEF IndexOf
<1>5. \A status : status \notin KnownStatuses => IndexOf(status) = 0
  BY <1>1 DEF IndexOf
<1>6. IndexOf("error") = 4
  <2>1. \A i \in 1 .. 4 : ORDER[i] = "error" <=> i = 4
    BY <1>2
  <2>2. (CHOOSE i \in 1 .. 4 : ORDER[i] = "error") = 4
    BY <2>1
  <2>. QED BY <2>1, <2>2 DEF IndexOf
<1>. QED BY <1>4, <1>5, <1>6

(* What a PATCH writes over the entry that it read.                        *)
LEMMA WrittenIsForward ==
    ASSUME NEW q \in Requests, patch[q] \in PatchRecords,
           patch[q].s.status # "none", ~Backward(patch[q].body, patch[q].s)
    PROVE  /\ Merge(patch[q].s, q) \in Entries
           /\ Merge(patch[q].s, q).status # "none"
           /\ Merge(patch[q].s, q).created = patch[q].s.created
           /\ IndexOf(Merge(patch[q].s, q).status) >= IndexOf(patch[q].s.status)
<1>. DEFINE e == patch[q].s
            to == IF patch[q].body = "no_status" THEN e.status ELSE patch[q].body
            who == IF q = "phone" THEN "phone" ELSE e.address
<1>1. e \in Entries /\ e.status \in KnownStatuses
  BY DEF PatchRecords, Entries
<1>2. Merge(patch[q].s, q) = [status |-> to, address |-> who, created |-> e.created]
  <2>1. Merge(patch[q].s, q) = [e EXCEPT !.status = to, !.address = who]
    BY DEF Merge
  <2>. HIDE DEF to, who
  <2>. QED BY <1>1, <2>1 DEF Entries
<1>3. CASE patch[q].body = "no_status"
  BY <1>1, <1>2, <1>3, IndexOfValues DEF Entries
<1>4. CASE patch[q].body = "error"
  BY <1>1, <1>2, <1>4, IndexOfValues DEF Entries, KnownStatuses
<1>5. CASE patch[q].body \notin {"no_status", "error"}
  <2>1. IndexOf(patch[q].body) >= IndexOf(patch[q].s.status)
        /\ IndexOf(patch[q].s.status) \in 1 .. 4
    <3>1. IndexOf(patch[q].s.status) \in 1 .. 4
      BY <1>1, IndexOfValues
    <3>2. IndexOf(patch[q].body) \in 0 .. 4
      BY IndexOfValues
    <3>. QED BY <1>5, <3>1, <3>2 DEF Backward
  <2>2. patch[q].body \in KnownStatuses
    BY <2>1, IndexOfValues
  <2>. QED BY <1>1, <1>2, <1>5, <2>1, <2>2 DEF Entries, KnownStatuses
<1>. QED BY <1>3, <1>4, <1>5

(* ORDER's elements, as the type invariant names them.                     *)
LEMMA OrderIsKnown == {ORDER[i] : i \in 1 .. 4} = KnownStatuses
  BY DEF ORDER, KnownStatuses

LEMMA InitIInvStore == InitStore => IInvStore
<1>. SUFFICES ASSUME InitStore PROVE IInvStore
  OBVIOUS
<1>1. NoEntry \in Entries /\ NoEntry.created = 0 /\ NoEntry.status = "none"
      /\ NoEntry.address = "none"
  BY DEF NoEntry, Entries
<1>2. Unsent \in PatchRecords /\ Unsent.at = "unsent" /\ Unsent.s = NoEntry
  BY <1>1 DEF Unsent, PatchRecords
<1>3. patch \in [Requests -> PatchRecords] /\ \A q \in Requests : patch[q] = Unsent
  BY <1>2 DEF InitStore
<1>4. TypeOKStore
  <2>1. /\ entry.status = "none" /\ entry.address = "none" /\ entry.created = 0
        /\ births = 0 /\ expired = {} /\ \A q \in Requests : patch[q].at = "unsent"
    BY <1>1, <1>2, <1>3 DEF InitStore
  <2>2. /\ phase = "connecting" /\ needsFreighter = FALSE /\ asking = "isConnected"
        /\ polling = "creating" /\ told = "nothing"
    BY DEF InitStore
  <2>3. /\ births \in 0 .. MaxBirths /\ expired \subseteq 1 .. births
        /\ entry.created \in 0 .. births
    BY <2>1, StoreAssumption
  <2>4. entry.status \in {"none"} \cup {ORDER[i] : i \in 1 .. 4}
    BY <2>1
  <2>. QED BY <2>1, <2>2, <2>3, <2>4 DEF TypeOKStore
<1>. QED BY <1>1, <1>2, <1>3, <1>4 DEF InitStore, IInvStore

LEMMA HandlersKeepIInvStore ==
    ASSUME IInvStore,
           Post \/ TtlPasses \/ (\E q \in Requests : PatchReads(q) \/ PatchWrites(q))
    PROVE  IInvStore'
<1>1. NoEntry \in Entries
  BY DEF NoEntry, Entries
<1>2. CASE Post
  BY <1>1, <1>2, StoreAssumption, OrderIsKnown
  DEF Post, IInvStore, TypeOKStore, NoEntry, Entries, KnownStatuses, phonePage, qr
<1>3. CASE TtlPasses
  BY <1>3, StoreAssumption DEF TtlPasses, IInvStore, TypeOKStore, phonePage, qr
<1>4. ASSUME NEW q \in Requests, PatchReads(q) PROVE IInvStore'
  <2>1. /\ entry' \in {entry, NoEntry} /\ UNCHANGED <<births, expired, phonePage, qr>>
        /\ \/ patch' = [patch EXCEPT ![q].at = "reading", ![q].s = entry] /\ entry # NoEntry
           \/ patch' = [patch EXCEPT ![q].at = "answered", ![q].s = NoEntry]
    BY <1>4 DEF PatchReads, Lookup, Found
  <2>2. entry'.created \in 0 .. births
    BY <2>1, StoreAssumption DEF IInvStore, TypeOKStore, NoEntry
  <2>3. entry' \in Entries /\ (entry' # NoEntry => entry'.status # "none")
    BY <1>1, <2>1 DEF IInvStore
  <2>4. patch' \in [Requests -> PatchRecords]
    BY <1>1, <2>1 DEF IInvStore, PatchRecords
  <2>5. \A p \in Requests : /\ patch'[p].s.created \in 0 .. births
                            /\ patch'[p].at = "reading" => patch'[p].s.status # "none"
    BY <2>1, StoreAssumption DEF IInvStore, TypeOKStore, NoEntry, PatchRecords
  <2>6. TypeOKStore'
    BY <2>1, <2>2, <2>3, <2>4, OrderIsKnown
    DEF IInvStore, TypeOKStore, Entries, PatchRecords, phonePage, qr
  <2>. QED BY <2>1, <2>3, <2>4, <2>5, <2>6 DEF IInvStore
<1>5. ASSUME NEW q \in Requests, PatchWrites(q) PROVE IInvStore'
  <2>1. /\ patch[q].at = "reading" /\ patch' = [patch EXCEPT ![q].at = "answered"]
        /\ UNCHANGED <<births, expired, phonePage, qr>>
        /\ \/ entry' = entry
           \/ ~Backward(patch[q].body, patch[q].s) /\ entry' = Merge(patch[q].s, q)
    BY <1>5 DEF PatchWrites
  <2>2. patch[q] \in PatchRecords /\ patch[q].s.status # "none" /\ patch[q].s.created \in 0 .. births
    BY <2>1 DEF IInvStore
  <2>3. /\ entry' \in Entries /\ (entry' # NoEntry => entry'.status # "none")
        /\ entry'.created \in 0 .. births
    BY <2>1, <2>2, WrittenIsForward DEF IInvStore, TypeOKStore
  <2>4. patch' \in [Requests -> PatchRecords]
    BY <2>1 DEF IInvStore, PatchRecords
  <2>5. \A p \in Requests : /\ patch'[p].s.created \in 0 .. births
                            /\ patch'[p].at = "reading" => patch'[p].s.status # "none"
    BY <2>1 DEF IInvStore, PatchRecords
  <2>6. TypeOKStore'
    BY <2>1, <2>3, <2>4, OrderIsKnown
    DEF IInvStore, TypeOKStore, Entries, PatchRecords, phonePage, qr
  <2>. QED BY <2>1, <2>3, <2>4, <2>5, <2>6 DEF IInvStore
<1>. QED BY <1>2, <1>3, <1>4, <1>5

LEMMA ClientsKeepIInvStore ==
    ASSUME IInvStore,
           \/ \E q \in Reporters : Report(q)
           \/ Connect \/ FreighterAnswers \/ OpenVerifyPage
           \/ CreateSession \/ Poll \/ PollReply
    PROVE  IInvStore'
<1>1. NoEntry \in Entries
  BY DEF NoEntry, Entries
<1>2. ASSUME NEW q \in Reporters, Report(q) PROVE IInvStore'
  <2>1. PICK body \in {"verified", "error", "no_status", "submitted"} :
          patch' = [patch EXCEPT ![q] = Sent(body)]
    BY <1>2 DEF Report
  <2>2. Sent(body) \in PatchRecords /\ Sent(body).s.created = 0 /\ Sent(body).at = "sent"
    BY <1>1 DEF Sent, PatchRecords, NoEntry
  <2>3. patch' \in [Requests -> PatchRecords] /\ q \in Requests
    BY <2>1, <2>2 DEF IInvStore, Requests
  <2>4. \A p \in Requests : /\ patch'[p].s.created \in 0 .. births
                            /\ patch'[p].at = "reading" => patch'[p].s.status # "none"
    BY <2>1, <2>2, <2>3, StoreAssumption DEF IInvStore, TypeOKStore, NoEntry
  <2>. QED
    BY <1>2, <2>3, <2>4 DEF Report, IInvStore, TypeOKStore, PatchRecords, phonePage, qr
<1>3. CASE FreighterAnswers
  <2>1. /\ Sent("wallet_connected") \in PatchRecords
        /\ Sent("wallet_connected").s.created = 0 /\ Sent("wallet_connected").at = "sent"
    BY <1>1 DEF Sent, PatchRecords, NoEntry
  <2>2. patch' = patch \/ patch' = [patch EXCEPT !["phone"] = Sent("wallet_connected")]
    BY <1>3 DEF FreighterAnswers
  <2>3. patch' \in [Requests -> PatchRecords]
    BY <2>1, <2>2 DEF IInvStore, Requests
  <2>4. births' = births /\ births \in Nat
    BY <1>3, StoreAssumption DEF FreighterAnswers, IInvStore, TypeOKStore
  <2>5. \A p \in Requests : /\ patch'[p].s.created \in 0 .. births
                            /\ patch'[p].at = "reading" => patch'[p].s.status # "none"
    BY <2>1, <2>2, <2>4 DEF IInvStore, TypeOKStore
  <2>6. TypeOKStore'
    BY <1>3, <2>3 DEF FreighterAnswers, IInvStore, TypeOKStore, PatchRecords, qr
  <2>. QED
    BY <1>3, <2>3, <2>4, <2>5, <2>6 DEF FreighterAnswers, IInvStore
<1>4. CASE Connect \/ OpenVerifyPage \/ CreateSession \/ PollReply
  <2>1. UNCHANGED <<entry, births, expired, patch>>
    BY <1>4 DEF Connect, OpenVerifyPage, CreateSession, PollReply
  <2>2. TypeOKStore'
    <3>1. CASE Connect
      BY <2>1, <3>1 DEF Connect, IInvStore, TypeOKStore, qr
    <3>2. CASE OpenVerifyPage
      BY <2>1, <3>2 DEF OpenVerifyPage, IInvStore, TypeOKStore, qr
    <3>3. CASE CreateSession
      BY <2>1, <3>3 DEF CreateSession, IInvStore, TypeOKStore, phonePage
    <3>4. CASE PollReply
      BY <2>1, <3>4 DEF PollReply, IInvStore, TypeOKStore, phonePage
    <3>. QED BY <1>4, <3>1, <3>2, <3>3, <3>4
  <2>. QED BY <2>1, <2>2 DEF IInvStore
<1>5. CASE Poll
  <2>1. entry' \in {entry, NoEntry} /\ births \in Nat
    BY <1>5, StoreAssumption DEF Poll, Lookup, IInvStore, TypeOKStore
  <2>2. entry' \in Entries /\ (entry' # NoEntry => entry'.status # "none")
        /\ entry'.created \in 0 .. births
    BY <1>1, <2>1 DEF IInvStore, TypeOKStore, NoEntry
  <2>. QED
    BY <1>5, <2>2, OrderIsKnown DEF Poll, IInvStore, TypeOKStore, Entries, phonePage
<1>. QED BY <1>2, <1>3, <1>4, <1>5

(* The inductive invariant holds.                                          *)
THEOREM StoreInvariant == SpecStore => []IInvStore
<1>1. IInvStore /\ UNCHANGED varsStore => IInvStore'
  BY DEF varsStore, IInvStore, TypeOKStore
<1>2. IInvStore /\ [NextStore]_varsStore => IInvStore'
  BY <1>1, HandlersKeepIInvStore, ClientsKeepIInvStore DEF NextStore
<1>. QED BY <1>2, InitIInvStore, PTL DEF SpecStore

(* The types: no PATCH, whatever its body, stores a status that ORDER does *)
(* not know.                                                               *)
THEOREM StoreTypes == SpecStore => []TypeOKStore
  BY StoreInvariant, PTL DEF IInvStore

-----------------------------------------------------------------------------
(* One step takes the status back only as a race.                          *)
BackStep == GoesBack => \E q \in Requests : /\ patch[q].at = "reading" /\ patch[q].s # entry
                                            /\ patch'[q].at = "answered"

LEMMA StepIsRaceOrForward == IInvStore /\ [NextStore]_varsStore => BackStep
<1>. SUFFICES ASSUME IInvStore, [NextStore]_varsStore, GoesBack
              PROVE  \E q \in Requests : /\ patch[q].at = "reading" /\ patch[q].s # entry
                                         /\ patch'[q].at = "answered"
  BY DEF BackStep
<1>1. entry # NoEntry /\ entry' # NoEntry /\ entry' # entry
  <2>1. IndexOf(entry.status) \in 0 .. 4
    BY IndexOfValues DEF IInvStore, Entries
  <2>. QED BY <2>1 DEF GoesBack
<1>2. \E q \in Requests : PatchWrites(q)
  BY <1>1 DEF NextStore, Post, TtlPasses, PatchReads, Lookup, Report, Connect, FreighterAnswers,
     OpenVerifyPage, CreateSession, Poll, PollReply, varsStore
<1>3. PICK q \in Requests : PatchWrites(q)
  BY <1>2
<1>4. /\ patch[q].at = "reading" /\ patch'[q].at = "answered"
      /\ ~Backward(patch[q].body, patch[q].s) /\ entry' = Merge(patch[q].s, q)
  BY <1>1, <1>3 DEF PatchWrites, IInvStore, PatchRecords
<1>5. patch[q].s # entry
  <2>1. patch[q] \in PatchRecords /\ patch[q].s.status # "none"
    BY <1>4 DEF IInvStore
  <2>2. IndexOf(entry'.status) >= IndexOf(patch[q].s.status)
        /\ entry'.status \in {"none"} \cup KnownStatuses /\ patch[q].s.status \in {"none"} \cup KnownStatuses
    BY <1>4, <2>1, WrittenIsForward DEF Entries, PatchRecords
  <2>3. IndexOf(entry'.status) \in 0 .. 4 /\ IndexOf(patch[q].s.status) \in 0 .. 4
    BY <2>2, IndexOfValues
  <2>. QED BY <2>2, <2>3 DEF GoesBack
<1>. QED BY <1>4, <1>5

(* For any number of requests: the status goes back only when a PATCH had  *)
(* read the entry before somebody else changed it.                         *)
THEOREM BackwardPatchesAreRaces == SpecStore => GoesBackOnlyByRace
<1>1. IInvStore /\ [NextStore]_varsStore => [BackStep]_varsStore
  BY StepIsRaceOrForward
<1>. QED
  BY <1>1, StoreInvariant, PTL DEF SpecStore, GoesBackOnlyByRace, BackStep

-----------------------------------------------------------------------------
(* The page.                                                               *)
SpecPage == InitPage /\ [][NextPage]_varsPage

Faces == {"new pose", "other"}
Messages == {"fetching_wasm", "fetching_zkey", "computing_witness",
             "generating_proof", "done", "success", "error"}
BeforeSubmit == {"assets", "ocr", "liveness", "witness", "worker"}
Stages == {"loading_integrator", "already_verified", "connect_wallet", "capture_document",
           "capture_selfies", "generating_proof", "submitting", "done", "error"}
ProgressShown == {ProofStages[i] : i \in 1 .. 8}

(* The types, by what changes together.                                    *)
CameraTypes == cam \in {"off", "asked", "live", "ready", "denied"} /\ late \in 0 .. MaxLate

PhotoTypes == /\ docFile \in {"none", "legible", "blurred"} /\ captured \in BOOLEAN
              /\ selfies \in Seq(Faces) /\ Len(selfies) <= 4

ScreenTypes == /\ stage \in Stages /\ wallet \in {"idle", "asking", "checking"}
               /\ relayer \in {"unasked", "took it", "refused"}
               /\ hint \in {"none", "known as verified", "reply lost"}

AttemptTypes == /\ step \in {"none", "submit"} \cup BeforeSubmit
                /\ progress \in ProgressShown /\ mail \in Seq(Messages)

(* The camera of the view on show is wanted, and nothing else is on.       *)
CamWanted == /\ strays = 0
             /\ cam # "off" => \/ stage = "capture_document" /\ ~captured
                               \/ stage = "capture_selfies" /\ ~AllSelfiesDone

(* How far an attempt is shows on the screen; the worker is part of it.    *)
AttemptOnShow == /\ step \in BeforeSubmit => stage = "generating_proof"
                 /\ step = "submit" => stage = "submitting"
                 /\ worker # "none" => step = "worker"
                 /\ wallet # "idle" => stage = "connect_wallet"

FourPoses == \A i \in 1 .. 4 : selfies[i] = "new pose"
Shots == docFile = "legible" /\ FourPoses

(* What got as far as the relayer was made from photographs that passed,   *)
(* which nobody changes any more.                                          *)
AttemptIsSound ==
    /\ step \in {"liveness", "witness", "worker", "submit"} => docFile = "legible"
    /\ step \in {"witness", "worker", "submit"} => FourPoses
    /\ hint = "reply lost" => Shots /\ step = "none" /\ stage = "error"
    /\ relayer # "unasked" => /\ Shots /\ step \notin BeforeSubmit
                              /\ stage \in {"submitting", "done", "error"}
    /\ hint = "known as verified" => stage = "already_verified" /\ step = "none"
    /\ leaving # "no" \/ stage \in {"done", "already_verified"} =>
           step = "none" /\ (hint = "known as verified" \/ relayer = "took it")

IInvPage == /\ CameraTypes /\ PhotoTypes /\ ScreenTypes /\ AttemptTypes
            /\ CamWanted /\ AttemptOnShow /\ AttemptIsSound /\ AcceptedButError

USE PageAssumption DEF PageAssumption

USE DEF camera, photos, proving, outside

(* There is room for another photograph.                                   *)
LEMMA LengthBelow == ASSUME NEW S, NEW s \in Seq(S), Len(s) <= 4, Len(s) # 4
                     PROVE  Len(s) < 4
<1>1. Len(s) \in Nat
  OBVIOUS
<1>2. \A n \in Nat : n <= 4 /\ n # 4 => n < 4
  OBVIOUS
<1>. QED BY <1>1, <1>2

LEMMA ElementsOfSeq == ASSUME NEW S, NEW s \in Seq(S)
                       PROVE  \A i \in 1 .. Len(s) : s[i] \in S
OBVIOUS

LEMMA InitIInvPage == InitPage => IInvPage
<1>. SUFFICES ASSUME InitPage PROVE IInvPage
  OBVIOUS
<1>1. CameraTypes /\ ScreenTypes
  BY DEF InitPage, CameraTypes, ScreenTypes, Stages
<1>2. PhotoTypes
  <2>1. selfies \in Seq(Faces) /\ Len(selfies) <= 4
    BY DEF InitPage
  <2>. QED BY <2>1 DEF InitPage, PhotoTypes
<1>3. AttemptTypes
  BY DEF InitPage, AttemptTypes, ProgressShown, ProofStages
<1>. QED
  BY <1>1, <1>2, <1>3 DEF InitPage, IInvPage, CamWanted, AttemptOnShow, AttemptIsSound,
     BeforeSubmit, AcceptedButError

(* The camera moves nothing but itself.                                    *)
LEMMA CameraKeepsIInvPage == ASSUME IInvPage, Camera PROVE IInvPage'
<1>1. CameraTypes' /\ strays' = 0 /\ (cam' # "off" => cam # "off")
  <2>1. CASE CameraAnswers
    BY <2>1 DEF CameraAnswers, IInvPage, CameraTypes, CamWanted
  <2>2. CASE CameraAnswersLate
    BY <2>2 DEF CameraAnswersLate, LateStream, IInvPage, CameraTypes, CamWanted
  <2>. QED BY <2>1, <2>2 DEF Camera
<1>2. PhotoTypes' /\ ScreenTypes' /\ AttemptTypes'
  BY DEF Camera, IInvPage, PhotoTypes, ScreenTypes, AttemptTypes
<1>3. CamWanted'
  BY <1>1 DEF Camera, IInvPage, CamWanted, AllSelfiesDone
<1>4. AttemptOnShow' /\ AttemptIsSound' /\ AcceptedButError'
  BY DEF Camera, IInvPage, AttemptOnShow, AttemptIsSound, Shots, FourPoses, AcceptedButError
<1>. QED BY <1>1, <1>2, <1>3, <1>4 DEF IInvPage

(* What a view leaves to the next one.                                     *)
LEMMA ViewsRelease ==
    ASSUME IInvPage, Release, cam' \in {"off", "asked"}
    PROVE  CameraTypes' /\ strays' = 0
BY DEF Release, IInvPage, CameraTypes, CamWanted

(* Photographs are taken while no attempt runs and none was made.          *)
LEMMA PhotosKeepIInvPage ==
    ASSUME IInvPage, ShootDocument \/ Retake \/ ShootSelfie \/ Turn PROVE IInvPage'
<1>1. /\ stage \in {"capture_document", "capture_selfies"}
      /\ stage' \in {"capture_document", "capture_selfies"}
      /\ UNCHANGED <<wallet, proving, outside>>
  BY DEF ShootDocument, Retake, ShootSelfie, Turn, Show
<1>2. PhotoTypes' /\ CameraTypes' /\ CamWanted'
  <2>1. CASE ShootDocument
    <3>1. PhotoTypes'
      BY <2>1 DEF ShootDocument, IInvPage, PhotoTypes
    <3>2. CameraTypes' /\ CamWanted'
      BY <2>1, ViewsRelease DEF ShootDocument, CamWanted
    <3>. QED BY <3>1, <3>2
  <2>2. CASE Retake
    <3>1. PhotoTypes'
      BY <2>2 DEF Retake, IInvPage, PhotoTypes
    <3>2. CameraTypes' /\ CamWanted'
      BY <2>2 DEF Retake, IInvPage, CameraTypes, CamWanted
    <3>. QED BY <3>1, <3>2
  <2>3. CASE ShootSelfie
    <3>1. PICK face \in Faces : selfies' = Append(selfies, face)
      BY <2>3 DEF ShootSelfie, Faces
    <3>2. selfies \in Seq(Faces) /\ Len(selfies) < 4
      <4>1. selfies \in Seq(Faces) /\ Len(selfies) <= 4 /\ Len(selfies) # 4
        BY <2>3 DEF ShootSelfie, AllSelfiesDone, IInvPage, PhotoTypes
      <4>. QED BY <4>1, LengthBelow
    <3>3. PhotoTypes'
      <4>1. selfies' \in Seq(Faces) /\ Len(selfies') <= 4
        BY <3>1, <3>2
      <4>. QED BY <2>3, <4>1 DEF ShootSelfie, IInvPage, PhotoTypes
    <3>4. CASE Len(selfies') = 4
      BY <2>3, <3>3, <3>4, ViewsRelease DEF ShootSelfie, CamWanted
    <3>5. CASE Len(selfies') # 4
      BY <2>3, <3>3, <3>5 DEF ShootSelfie, IInvPage, CameraTypes, CamWanted, AllSelfiesDone
    <3>. QED BY <3>4, <3>5
  <2>4. CASE Turn
    <3>1. PhotoTypes'
      BY <2>4 DEF Turn, Show, IInvPage, PhotoTypes
    <3>2. PICK view \in {"capture_document", "capture_selfies"} : Show(view)
      BY <2>4 DEF Turn
    <3>3. CameraTypes' /\ strays' = 0
      BY <3>2, ViewsRelease DEF Show, Ask
    <3>4. CamWanted'
      BY <3>2, <3>3 DEF Show, Ask, CamWanted, AllSelfiesDone
    <3>. QED BY <3>1, <3>3, <3>4
  <2>. QED BY <2>1, <2>2, <2>3, <2>4
<1>3. ScreenTypes' /\ AttemptTypes'
  BY <1>1 DEF IInvPage, ScreenTypes, AttemptTypes, Stages
<1>4. /\ step = "none" /\ relayer = "unasked" /\ hint = "none" /\ worker = "none"
      /\ wallet = "idle" /\ leaving = "no"
  BY <1>1 DEF IInvPage, ScreenTypes, AttemptTypes, AttemptOnShow, AttemptIsSound
<1>5. AttemptOnShow' /\ AttemptIsSound' /\ AcceptedButError'
  BY <1>1, <1>4 DEF AttemptOnShow, AttemptIsSound, BeforeSubmit, AcceptedButError
<1>. QED BY <1>2, <1>3, <1>5 DEF IInvPage

(* Before the wallet is known nothing was photographed or asked for.       *)
LEMMA WalletKeepsIInvPage ==
    ASSUME IInvPage, LoadIntegrator \/ ConnectWallet \/ StatusFails \/ StatusAnswers
    PROVE  IInvPage'
<1>1. /\ stage \in {"loading_integrator", "connect_wallet"}
      /\ UNCHANGED <<proving, relayer, callback>>
  BY DEF LoadIntegrator, ConnectWallet, StatusFails, StatusAnswers, IInvPage, AttemptOnShow
<1>2. /\ step = "none" /\ relayer = "unasked" /\ hint = "none" /\ worker = "none"
      /\ cam = "off" /\ leaving = "no"
  BY <1>1 DEF IInvPage, ScreenTypes, AttemptTypes, AttemptOnShow, AttemptIsSound, CamWanted
<1>3. CASE LoadIntegrator \/ ConnectWallet \/ StatusFails
  <2>1. CameraTypes' /\ PhotoTypes' /\ AttemptTypes'
    BY <1>3 DEF LoadIntegrator, ConnectWallet, StatusFails, IInvPage, CameraTypes,
       PhotoTypes, AttemptTypes
  <2>2. /\ stage' \in {"loading_integrator", "connect_wallet", "error"}
        /\ wallet' \in {"idle", "asking", "checking"} /\ (wallet' # "idle" => stage' = "connect_wallet")
        /\ UNCHANGED <<step, relayer, hint, worker, cam, strays, leaving>>
    BY <1>1, <1>3 DEF LoadIntegrator, ConnectWallet, StatusFails, IInvPage, ScreenTypes,
       AttemptOnShow
  <2>3. ScreenTypes' /\ CamWanted' /\ AttemptOnShow' /\ AttemptIsSound' /\ AcceptedButError'
    BY <1>2, <2>2 DEF IInvPage, ScreenTypes, Stages, CamWanted, AttemptOnShow, AttemptIsSound,
       BeforeSubmit, AcceptedButError
  <2>. QED BY <2>1, <2>3 DEF IInvPage
<1>4. CASE StatusAnswers
  <2>1. wallet' = "idle" /\ AttemptTypes'
    BY <1>4 DEF StatusAnswers, IInvPage, AttemptTypes
  <2>2. CASE stage' = "already_verified"
    <3>1. hint' = "known as verified" /\ UNCHANGED <<camera, photos>>
      BY <1>4, <2>2 DEF StatusAnswers, Verified, Show
    <3>2. CameraTypes' /\ PhotoTypes' /\ CamWanted'
      BY <1>2, <3>1 DEF IInvPage, CameraTypes, PhotoTypes, CamWanted
    <3>. QED
      BY <1>1, <1>2, <2>1, <2>2, <3>1, <3>2 DEF IInvPage, ScreenTypes, Stages, AttemptOnShow,
         AttemptIsSound, BeforeSubmit, AcceptedButError
  <2>3. CASE stage' # "already_verified"
    <3>1. Show("capture_document") /\ UNCHANGED <<hint, leaving>>
      BY <1>4, <2>3 DEF StatusAnswers, Verified
    <3>2. cam' = "asked" /\ captured' = FALSE /\ stage' = "capture_document"
      BY <3>1 DEF Show, Ask
    <3>3. CameraTypes' /\ CamWanted'
      BY <3>1, <3>2, ViewsRelease DEF Show, CamWanted
    <3>4. PhotoTypes'
      BY <3>1, <3>2 DEF Show, IInvPage, PhotoTypes
    <3>. QED
      BY <1>1, <1>2, <2>1, <3>1, <3>2, <3>3, <3>4 DEF IInvPage, ScreenTypes, Stages,
         AttemptOnShow, AttemptIsSound, BeforeSubmit, AcceptedButError
  <2>. QED BY <2>2, <2>3
<1>. QED BY <1>3, <1>4

(* The browser leaves for a page the relayer's word allows.                *)
LEMMA LeavingKeepsIInvPage == ASSUME IInvPage, Leave PROVE IInvPage'
<1>1. CameraTypes' /\ PhotoTypes' /\ ScreenTypes' /\ AttemptTypes'
  BY DEF Leave, IInvPage, CameraTypes, PhotoTypes, ScreenTypes, AttemptTypes
<1>2. CamWanted' /\ AttemptOnShow' /\ AttemptIsSound' /\ AcceptedButError'
  BY DEF Leave, IInvPage, CamWanted, AllSelfiesDone, AttemptOnShow, AttemptIsSound, Shots,
     FourPoses, AcceptedButError
<1>. QED BY <1>1, <1>2 DEF IInvPage

(* What the worker posts are messages.                                     *)
LEMMA WorkerPosts ==
    /\ \A w \in WorkerSteps : w[1] # "none" /\ w[2] # "none" /\ w[3] \in Seq(Messages)
    /\ Messages \ {"success", "error"} \subseteq ProgressShown
<1>1. /\ <<"fetching_wasm">> \in Seq(Messages) /\ <<"fetching_zkey">> \in Seq(Messages)
      /\ <<"computing_witness", "generating_proof">> \in Seq(Messages)
      /\ <<"done", "success">> \in Seq(Messages) /\ <<"error">> \in Seq(Messages)
  BY DEF Messages
<1>2. \A w \in WorkerSteps : w[1] # "none" /\ w[2] # "none" /\ w[3] \in Seq(Messages)
  <2>. SUFFICES ASSUME NEW w \in WorkerSteps
                PROVE  w[1] # "none" /\ w[2] # "none" /\ w[3] \in Seq(Messages)
    OBVIOUS
  <2>1. CASE w \in {<<s, "finished", <<"error">>>> : s \in {"start", "wasm", "zkey", "prove"}}
    <3>1. PICK s \in {"start", "wasm", "zkey", "prove"} : w = <<s, "finished", <<"error">>>>
      BY <2>1
    <3>2. w[1] = s /\ w[2] = "finished" /\ w[3] = <<"error">>
      BY <3>1
    <3>. QED BY <3>2, <1>1
  <2>2. CASE w = <<"start", "wasm", <<"fetching_wasm">>>>
    BY <2>2, <1>1
  <2>3. CASE w = <<"wasm", "zkey", <<"fetching_zkey">>>>
    BY <2>3, <1>1
  <2>4. CASE w = <<"zkey", "prove", <<"computing_witness", "generating_proof">>>>
    BY <2>4, <1>1
  <2>5. CASE w = <<"prove", "finished", <<"done", "success">>>>
    BY <2>5, <1>1
  <2>. QED BY <2>1, <2>2, <2>3, <2>4, <2>5 DEF WorkerSteps
<1>3. /\ ProofStages[4] = "fetching_wasm" /\ ProofStages[5] = "fetching_zkey"
      /\ ProofStages[6] = "computing_witness" /\ ProofStages[7] = "generating_proof"
      /\ ProofStages[8] = "done" /\ ProofStages[2] = "ocr" /\ ProofStages[3] = "liveness"
  BY DEF ProofStages
<1>4. Messages \ {"success", "error"} \subseteq ProgressShown
  BY <1>3 DEF Messages, ProgressShown
<1>. QED BY <1>2, <1>4

(* No step of an attempt touches the camera or the photographs.            *)
LEMMA ProvingKeepsIInvPage == ASSUME IInvPage, StartProof \/ Proving PROVE IInvPage'
<1>1. UNCHANGED <<cam, late, strays, docFile, captured, selfies, wallet, callback>>
  BY DEF StartProof, Proving, Proceed, Fail, WorkerRuns, PageHearsWorker, RelayerDecides,
     PageHearsRelayer, ReplyLost
<1>2. cam = "off"
  <2>1. step # "none" \/ hint = "reply lost" =>
            stage \in {"generating_proof", "submitting", "error"}
    BY DEF IInvPage, AttemptTypes, AttemptOnShow, AttemptIsSound
  <2>2. stage \notin {"capture_document", "capture_selfies"} => cam = "off"
    BY DEF IInvPage, CamWanted
  <2>3. CASE StartProof
    BY <2>3 DEF StartProof, IInvPage, CamWanted
  <2>4. CASE Proving
    <3>1. step # "none" \/ hint = "reply lost" \/ WorkerRuns
      BY <2>4 DEF Proving, Proceed, Pipeline, Fail, PageHearsWorker, RelayerDecides,
         PageHearsRelayer, ReplyLost
    <3>2. CASE WorkerRuns
      BY <2>1, <2>2, <3>2, WorkerPosts DEF WorkerRuns, IInvPage, AttemptOnShow
    <3>. QED BY <2>1, <2>2, <3>1, <3>2
  <2>. QED BY <2>3, <2>4
<1>3. CameraTypes' /\ PhotoTypes' /\ CamWanted'
  BY <1>1, <1>2 DEF IInvPage, CameraTypes, PhotoTypes, CamWanted
<1>4. CASE StartProof
  <2>1. ScreenTypes' /\ AttemptTypes'
    BY <1>1, <1>4 DEF StartProof, IInvPage, ScreenTypes, Stages, AttemptTypes, BeforeSubmit
  <2>2. AttemptOnShow' /\ AttemptIsSound' /\ AcceptedButError'
    BY <1>1, <1>4 DEF StartProof, IInvPage, ScreenTypes, AttemptTypes, AttemptOnShow,
       AttemptIsSound, BeforeSubmit, AcceptedButError
  <2>. QED BY <1>3, <2>1, <2>2 DEF IInvPage
<1>5. CASE Proceed
  <2>1. ScreenTypes' /\ step \in BeforeSubmit /\ step' \in BeforeSubmit
    BY <1>5 DEF Proceed, Pipeline, IInvPage, ScreenTypes, BeforeSubmit
  <2>2. AttemptTypes'
    <3>1. progress' \in {progress, ProofStages[2], ProofStages[3]}
      BY <1>5 DEF Proceed, Pipeline, ProofStages
    <3>. QED BY <1>5, <2>1, <3>1 DEF Proceed, IInvPage, AttemptTypes, ProgressShown
  <2>3. AttemptOnShow'
    BY <1>1, <1>5 DEF Proceed, Pipeline, IInvPage, AttemptOnShow, BeforeSubmit
  <2>4. AttemptIsSound' /\ AcceptedButError'
    BY <1>1, <1>5, <2>1 DEF Proceed, Pipeline, IInvPage, AttemptOnShow, AttemptIsSound,
       Shots, FourPoses, BeforeSubmit, AcceptedButError
  <2>. QED BY <1>3, <2>1, <2>2, <2>3, <2>4 DEF IInvPage
<1>6. CASE Fail
  <2>1. ScreenTypes' /\ AttemptTypes'
    BY <1>1, <1>6 DEF Fail, IInvPage, ScreenTypes, Stages, AttemptTypes
  <2>2. AttemptOnShow' /\ AttemptIsSound' /\ AcceptedButError'
    BY <1>1, <1>6 DEF Fail, IInvPage, ScreenTypes, AttemptOnShow, AttemptIsSound, BeforeSubmit,
       AcceptedButError
  <2>. QED BY <1>3, <2>1, <2>2 DEF IInvPage
<1>7. CASE WorkerRuns
  <2>1. PICK w \in WorkerSteps : worker = w[1] /\ worker' = w[2] /\ mail' = mail \o w[3]
    BY <1>7 DEF WorkerRuns
  <2>2. worker # "none" /\ mail' \in Seq(Messages)
    BY <2>1, WorkerPosts DEF IInvPage, AttemptTypes
  <2>3. ScreenTypes' /\ AttemptTypes'
    BY <1>1, <1>7, <2>2 DEF WorkerRuns, IInvPage, ScreenTypes, AttemptTypes
  <2>4. AttemptOnShow' /\ AttemptIsSound' /\ AcceptedButError'
    BY <1>1, <1>7, <2>2 DEF WorkerRuns, IInvPage, AttemptOnShow, AttemptIsSound, Shots,
       FourPoses, AcceptedButError
  <2>. QED BY <1>3, <2>3, <2>4 DEF IInvPage
<1>8. CASE PageHearsWorker
  <2>1. step = "worker" /\ stage = "generating_proof" /\ relayer = "unasked" /\ hint = "none"
        /\ Shots /\ wallet = "idle" /\ leaving = "no"
    BY <1>8 DEF PageHearsWorker, IInvPage, AttemptOnShow, AttemptIsSound, BeforeSubmit, Shots,
       ScreenTypes
  <2>2. /\ Head(mail) \in Messages /\ Tail(mail) \in Seq(Messages)
    BY <1>8 DEF PageHearsWorker, IInvPage, AttemptTypes
  <2>3. /\ \/ stage' = "submitting" /\ step' = "submit" /\ worker' = "none"
           \/ stage' = "error" /\ step' = "none" /\ worker' = "none"
           \/ UNCHANGED <<stage, step, worker>>
        /\ progress' \in {progress} \cup ProgressShown /\ mail' \in {<<>>, Tail(mail)}
    <3>1. CASE Head(mail) = "success"
      BY <1>8, <3>1 DEF PageHearsWorker, Terminate
    <3>2. CASE Head(mail) = "error"
      BY <1>8, <3>2 DEF PageHearsWorker, Terminate
    <3>3. CASE Head(mail) \notin {"success", "error"}
      BY <1>8, <2>2, <3>3, WorkerPosts DEF PageHearsWorker
    <3>. QED BY <3>1, <3>2, <3>3
  <2>4. UNCHANGED <<relayer, hint, leaving>>
    BY <1>8 DEF PageHearsWorker
  <2>5. mail' \in Seq(Messages)
    <3>1. <<>> \in Seq(Messages)
      OBVIOUS
    <3>. QED BY <2>2, <2>3, <3>1
  <2>6. ScreenTypes' /\ AttemptTypes'
    BY <1>1, <2>3, <2>4, <2>5 DEF IInvPage, ScreenTypes, Stages, AttemptTypes
  <2>7. AttemptOnShow' /\ AttemptIsSound' /\ AcceptedButError'
    BY <1>1, <2>1, <2>3, <2>4 DEF IInvPage, AttemptOnShow, AttemptIsSound, Shots, FourPoses,
       BeforeSubmit, AcceptedButError
  <2>. QED BY <1>3, <2>6, <2>7 DEF IInvPage
<1>9. CASE RelayerDecides \/ PageHearsRelayer \/ ReplyLost
  <2>1. Shots /\ wallet = "idle" /\ worker = "none" /\ hint # "known as verified"
        /\ stage \in {"submitting", "error"} /\ step \in {"submit", "none"}
    BY <1>9 DEF RelayerDecides, PageHearsRelayer, ReplyLost, IInvPage, ScreenTypes,
       AttemptOnShow, AttemptIsSound, Shots
  <2>2. ScreenTypes' /\ AttemptTypes'
    BY <1>1, <1>9 DEF RelayerDecides, PageHearsRelayer, ReplyLost, IInvPage, ScreenTypes, Stages,
       AttemptTypes
  <2>3. Shots' /\ UNCHANGED <<wallet, worker>>
    BY <1>1, <1>9, <2>1 DEF RelayerDecides, PageHearsRelayer, ReplyLost, Shots, FourPoses
  <2>4. CASE RelayerDecides
    BY <1>1, <1>3, <2>1, <2>2, <2>3, <2>4 DEF RelayerDecides, IInvPage, AttemptOnShow,
       AttemptIsSound, BeforeSubmit, Shots, AcceptedButError
  <2>5. CASE PageHearsRelayer
    <3>1. hint # "reply lost"
      BY <2>5 DEF PageHearsRelayer, IInvPage, AttemptIsSound
    <3>. QED
      BY <1>1, <1>3, <2>1, <2>2, <2>3, <2>5, <3>1 DEF PageHearsRelayer, Accepted, CallbackFails,
         Redirect, IInvPage, AttemptOnShow, AttemptIsSound, BeforeSubmit, Shots, AcceptedButError
  <2>6. CASE ReplyLost
    BY <1>1, <1>3, <2>1, <2>2, <2>3, <2>6 DEF ReplyLost, IInvPage, AttemptOnShow,
       AttemptIsSound, BeforeSubmit, Shots, AcceptedButError
  <2>. QED BY <1>9, <2>4, <2>5, <2>6
<1>. QED BY <1>4, <1>5, <1>6, <1>7, <1>8, <1>9 DEF Proving

LEMMA IInvPageInductive == IInvPage /\ [NextPage]_varsPage => IInvPage'
<1>. SUFFICES ASSUME IInvPage, [NextPage]_varsPage PROVE IInvPage'
  OBVIOUS
<1>1. CASE UNCHANGED varsPage
  <2>1. CameraTypes' /\ PhotoTypes' /\ ScreenTypes' /\ AttemptTypes'
    BY <1>1 DEF varsPage, IInvPage, CameraTypes, PhotoTypes, ScreenTypes, AttemptTypes
  <2>. QED
    BY <1>1, <2>1 DEF varsPage, IInvPage, CamWanted, AllSelfiesDone, AttemptOnShow,
       AttemptIsSound, Shots, FourPoses, AcceptedButError
<1>. QED
  BY <1>1, CameraKeepsIInvPage, PhotosKeepIInvPage, WalletKeepsIInvPage, LeavingKeepsIInvPage,
     ProvingKeepsIInvPage DEF NextPage, User

LEMMA IInvPageImplies ==
    IInvPage => TypeOKPage /\ NothingLeftRunning /\ VerifiedWasAccepted /\ AcceptedButError
<1>. SUFFICES ASSUME IInvPage
              PROVE  TypeOKPage /\ NothingLeftRunning /\ VerifiedWasAccepted /\ AcceptedButError
  OBVIOUS
<1>1. TypeOKPage
  <2>1. \A i \in 1 .. Len(selfies) : selfies[i] \in {"new pose", "other"}
    <3>1. selfies \in Seq(Faces)
      BY DEF IInvPage, PhotoTypes
    <3>. QED BY <3>1, ElementsOfSeq DEF Faces
  <2>2. strays \in Nat
    BY DEF IInvPage, CamWanted
  <2>. QED
    BY <2>1, <2>2 DEF IInvPage, CameraTypes, PhotoTypes, ScreenTypes, Stages, AttemptTypes,
       ProgressShown, TypeOKPage
<1>2. NothingLeftRunning
  BY DEF IInvPage, CamWanted, AttemptOnShow, BeforeSubmit, NothingLeftRunning
<1>3. VerifiedWasAccepted
  BY DEF IInvPage, AttemptIsSound, Shots, FourPoses, VerifiedWasAccepted
<1>. QED BY <1>1, <1>2, <1>3 DEF IInvPage

(* The page's invariant, for any bound of late camera requests, any        *)
(* callbacks and any answers of the relayer.                               *)
THEOREM PageInvariant == SpecPage => []IInvPage
BY InitIInvPage, IInvPageInductive, PTL DEF SpecPage

(* The page's state keeps its types.                                       *)
THEOREM PageTypeCorrect == SpecPage => []TypeOKPage
BY PageInvariant, IInvPageImplies, PTL

(* Whichever way the user turns while prompts are open, no camera and no   *)
(* worker outlives what it was started for.                                *)
THEOREM PageLeavesNothingRunning == SpecPage => []NothingLeftRunning
BY PageInvariant, IInvPageImplies, PTL

(* "Proof verified" and verified=true are the relayer's word.              *)
THEOREM PageVerifiedWasAccepted == SpecPage => []VerifiedWasAccepted
BY PageInvariant, IInvPageImplies, PTL

(* An accepted proof ends in an error only if its answer was lost or the   *)
(* callback cannot be used.                                                *)
THEOREM PageAcceptedButError == SpecPage => []AcceptedButError
BY PageInvariant, IInvPageImplies, PTL

-----------------------------------------------------------------------------
(* Progress of an attempt.  While the page shows one there is an attempt,  *)
(* and a worker that finished left the message that ends it in the mail.   *)
StepsLeft == CASE worker = "start" -> 4 [] worker = "wasm" -> 3 [] worker = "zkey" -> 2
               [] worker = "prove" -> 1 [] OTHER -> 0

LastSays == mail # <<>> /\ mail[Len(mail)] \in {"success", "error"}

AttemptRuns ==
    /\ stage = "generating_proof" => step \in BeforeSubmit
    /\ stage = "submitting" => step = "submit"
    /\ step # "worker" => mail = <<>>
    /\ step = "worker" => /\ worker \in {"start", "wasm", "zkey", "prove", "finished"}
                          /\ Len(mail) + 3 * StepsLeft <= 12
    /\ worker = "finished" => LastSays

(* At the start nothing runs.                                              *)
LEMMA InitAttemptRuns == InitPage => AttemptRuns
BY DEF InitPage, AttemptRuns, BeforeSubmit

(* What no attempt is part of does not touch one.                          *)
LEMMA OthersLeaveAttempt ==
    ASSUME IInvPage, step # "none",
           [LoadIntegrator \/ ConnectWallet \/ StatusFails \/ StatusAnswers
             \/ Camera \/ User \/ Leave]_varsPage
    PROVE  UNCHANGED <<stage, step, worker, mail, relayer>>
<1>1. stage \in {"generating_proof", "submitting"} /\ wallet = "idle"
  BY DEF IInvPage, AttemptTypes, AttemptOnShow
<1>. QED
  BY <1>1 DEF LoadIntegrator, ConnectWallet, StatusFails, StatusAnswers, Camera, User,
     ShootDocument, Retake, ShootSelfie, Turn, StartProof, Leave, varsPage

(* Nothing but the attempt itself touches the attempt.                     *)
LEMMA OthersKeepRuns ==
    ASSUME IInvPage, AttemptRuns,
           [LoadIntegrator \/ ConnectWallet \/ StatusFails \/ StatusAnswers
             \/ Camera \/ User \/ Leave]_varsPage
    PROVE  AttemptRuns'
<1>1. CASE step # "none"
  BY <1>1, OthersLeaveAttempt DEF AttemptRuns, StepsLeft, LastSays
<1>2. CASE step = "none" /\ StartProof
  BY <1>2 DEF StartProof, AttemptRuns, StepsLeft, LastSays, BeforeSubmit
<1>3. CASE step = "none" /\ ~StartProof
  <2>1. UNCHANGED <<step, worker, mail>>
    BY <1>3 DEF LoadIntegrator, ConnectWallet, StatusFails, StatusAnswers, Camera, User,
       ShootDocument, Retake, ShootSelfie, Turn, Leave, varsPage
  <2>2. stage' = stage \/ stage' \notin {"generating_proof", "submitting"}
    BY <1>3 DEF LoadIntegrator, ConnectWallet, StatusFails, StatusAnswers, Camera, User,
       ShootDocument, Retake, ShootSelfie, Turn, Leave, varsPage, Show
  <2>. QED BY <1>3, <2>1, <2>2 DEF AttemptRuns, StepsLeft, LastSays
<1>. QED BY <1>1, <1>2, <1>3

(* A step of the worker posts fewer messages than the three units that     *)
(* each of its steps left counts for, and its last one ends the attempt.   *)
LEMMA WorkerCounts ==
    ASSUME mail \in Seq(Messages), WorkerRuns
    PROVE  /\ worker \in {"start", "wasm", "zkey", "prove"}
           /\ worker' \in {"wasm", "zkey", "prove", "finished"}
           /\ Len(mail') + 3 * StepsLeft' < Len(mail) + 3 * StepsLeft
           /\ worker' = "finished" => LastSays'
<1>1. PICK w \in WorkerSteps : worker = w[1] /\ worker' = w[2] /\ mail' = mail \o w[3]
  BY DEF WorkerRuns
<1>2. CASE w \in {<<s, "finished", <<"error">>>> : s \in {"start", "wasm", "zkey", "prove"}}
  <2>1. PICK s \in {"start", "wasm", "zkey", "prove"} : w = <<s, "finished", <<"error">>>>
    BY <1>2
  <2>2. worker = s /\ worker' = "finished" /\ mail' = mail \o <<"error">>
    BY <1>1, <2>1
  <2>3. Len(mail') = Len(mail) + 1 /\ mail'[Len(mail')] = "error" /\ Len(mail) \in Nat
    BY <2>2
  <2>. QED BY <2>2, <2>3 DEF StepsLeft, LastSays
<1>3. CASE w = <<"start", "wasm", <<"fetching_wasm">>>>
  <2>1. worker = "start" /\ worker' = "wasm" /\ mail' = mail \o <<"fetching_wasm">>
    BY <1>1, <1>3
  <2>2. Len(mail') = Len(mail) + 1 /\ Len(mail) \in Nat
    BY <2>1
  <2>. QED BY <2>1, <2>2 DEF StepsLeft
<1>4. CASE w = <<"wasm", "zkey", <<"fetching_zkey">>>>
  <2>1. worker = "wasm" /\ worker' = "zkey" /\ mail' = mail \o <<"fetching_zkey">>
    BY <1>1, <1>4
  <2>2. Len(mail') = Len(mail) + 1 /\ Len(mail) \in Nat
    BY <2>1
  <2>. QED BY <2>1, <2>2 DEF StepsLeft
<1>5. CASE w = <<"zkey", "prove", <<"computing_witness", "generating_proof">>>>
  <2>1. /\ worker = "zkey" /\ worker' = "prove"
        /\ mail' = mail \o <<"computing_witness", "generating_proof">>
    BY <1>1, <1>5
  <2>2. Len(mail') = Len(mail) + 2 /\ Len(mail) \in Nat
    BY <2>1
  <2>. QED BY <2>1, <2>2 DEF StepsLeft
<1>6. CASE w = <<"prove", "finished", <<"done", "success">>>>
  <2>1. worker = "prove" /\ worker' = "finished" /\ mail' = mail \o <<"done", "success">>
    BY <1>1, <1>6
  <2>2. Len(mail') = Len(mail) + 2 /\ mail'[Len(mail')] = "success" /\ Len(mail) \in Nat
    BY <2>1
  <2>. QED BY <2>1, <2>2 DEF StepsLeft, LastSays
<1>. QED BY <1>1, <1>2, <1>3, <1>4, <1>5, <1>6 DEF WorkerSteps

(* What remains of an attempt, in steps and messages.                      *)
Remaining == CASE step = "assets" -> 19 [] step = "ocr" -> 18 [] step = "liveness" -> 17
               [] step = "witness" -> 16 [] step = "worker" -> 3 + Len(mail) + 3 * StepsLeft
               [] step = "submit" -> (IF relayer = "unasked" THEN 2 ELSE 1)
               [] OTHER -> 0

(* Arithmetic of the variant: a message counts one, a step of the worker,  *)
(* which sends up to two of them, three.                                   *)
LEMMA Threes ==
    \A m, n, x, y \in Nat :
        /\ m + 3 * n <= 12 => 3 + m + 3 * n \in 1 .. 19
        /\ x + 3 * y < m + 3 * n =>
             /\ 3 + x + 3 * y < 3 + m + 3 * n
             /\ m + 3 * n <= 12 => x + 3 * y <= 12
OBVIOUS

(* What is left of an attempt is a number the chain below starts from.     *)
LEMMA RemainingBounds ==
    IInvPage /\ AttemptRuns /\ step # "none" => Remaining \in 1 .. 19
<1>. SUFFICES ASSUME IInvPage, AttemptRuns, step # "none"
              PROVE  Remaining \in 1 .. 19
  OBVIOUS
<1>1. Len(mail) \in Nat
  BY DEF IInvPage, AttemptTypes
<1>2. StepsLeft \in 0 .. 4
  BY DEF StepsLeft
<1>3. CASE step = "worker"
  <2>1. Len(mail) + 3 * StepsLeft <= 12
    BY <1>3 DEF AttemptRuns
  <2>2. Remaining = 3 + Len(mail) + 3 * StepsLeft
    BY <1>3 DEF Remaining
  <2>3. StepsLeft \in Nat
    BY <1>2
  <2>. QED BY <1>1, <2>1, <2>2, <2>3, Threes
<1>4. CASE step # "worker"
  <2>1. step \in {"assets", "ocr", "liveness", "witness", "submit"}
    BY <1>4 DEF IInvPage, AttemptTypes, BeforeSubmit
  <2>2. Remaining \in {1, 2, 16, 17, 18, 19}
    BY <2>1 DEF Remaining
  <2>. QED BY <2>2
<1>. QED BY <1>3, <1>4

(* Every step of an attempt brings it nearer to its end or ends it, and    *)
(* when it ends the page says so.                                          *)
LEMMA ProvingAdvances ==
    ASSUME IInvPage, AttemptRuns, Proving
    PROVE  /\ AttemptRuns'
           /\ step # "none" => \/ step' # "none" /\ Remaining' < Remaining
                               \/ step' = "none" /\ stage' \in {"done", "error"}
<1>1. mail \in Seq(Messages) /\ Len(mail) \in Nat
  BY DEF IInvPage, AttemptTypes
<1>2. CASE Proceed
  <2>1. CASE step \in {"assets", "ocr", "liveness"}
    <3>1. /\ \/ step = "assets" /\ step' = "ocr"
             \/ step = "ocr" /\ step' = "liveness"
             \/ step = "liveness" /\ step' = "witness"
          /\ UNCHANGED <<stage, mail, worker>>
      BY <1>2, <2>1 DEF Proceed, Pipeline
    <3>. QED BY <3>1 DEF AttemptRuns, Remaining, BeforeSubmit, StepsLeft, LastSays
  <2>2. CASE step = "witness"
    <3>1. step' = "worker" /\ worker' = "start" /\ stage' = stage /\ mail' = mail /\ mail = <<>>
      BY <1>2, <2>2 DEF Proceed, Pipeline, AttemptRuns
    <3>2. Remaining = 16 /\ StepsLeft' = 4 /\ Len(mail') = 0
      BY <2>2, <3>1 DEF Remaining, StepsLeft
    <3>3. Remaining' = 15
      BY <3>1, <3>2 DEF Remaining
    <3>4. Len(mail') + 3 * StepsLeft' <= 12
      BY <3>2
    <3>5. AttemptRuns'
      BY <2>2, <3>1, <3>4 DEF AttemptRuns, BeforeSubmit
    <3>. QED BY <2>2, <3>1, <3>2, <3>3, <3>5
  <2>. QED BY <1>2, <2>1, <2>2 DEF Proceed, Pipeline
<1>3. CASE Fail
  <2>1. worker = "none"
    BY <1>3 DEF Fail, IInvPage, AttemptOnShow
  <2>. QED BY <1>3, <2>1 DEF Fail, AttemptRuns
<1>4. CASE WorkerRuns
  <2>1. step = "worker" /\ UNCHANGED <<stage, step>>
    BY <1>1, <1>4, WorkerCounts DEF WorkerRuns, IInvPage, AttemptOnShow
  <2>2. Len(mail') \in Nat /\ StepsLeft \in 0 .. 4 /\ StepsLeft' \in 0 .. 4
    <3>1. mail' \in Seq(Messages)
      BY <1>4, ProvingKeepsIInvPage DEF Proving, IInvPage, AttemptTypes
    <3>. QED BY <3>1 DEF StepsLeft
  <2>3. /\ Remaining = 3 + Len(mail) + 3 * StepsLeft
        /\ Remaining' = 3 + Len(mail') + 3 * StepsLeft'
    BY <2>1 DEF Remaining
  <2>4. StepsLeft \in Nat /\ StepsLeft' \in Nat
    BY <2>2
  <2>5. Len(mail') + 3 * StepsLeft' < Len(mail) + 3 * StepsLeft
    BY <1>1, <1>4, WorkerCounts
  <2>6. Remaining' < Remaining
    BY <1>1, <2>2, <2>3, <2>4, <2>5, Threes
  <2>7. Len(mail') + 3 * StepsLeft' <= 12
    <3>1. Len(mail) + 3 * StepsLeft <= 12
      BY <2>1 DEF AttemptRuns
    <3>. QED BY <1>1, <2>2, <2>4, <2>5, <3>1, Threes
  <2>8. AttemptRuns'
    BY <1>1, <1>4, <2>1, <2>7, WorkerCounts DEF AttemptRuns, BeforeSubmit
  <2>. QED BY <2>1, <2>6, <2>8
<1>5. CASE PageHearsWorker
  <2>1. /\ step = "worker" /\ mail # <<>> /\ stage = "generating_proof"
        /\ relayer = "unasked" /\ UNCHANGED relayer /\ StepsLeft \in 0 .. 4
    <3>1. step = "worker" /\ mail # <<>> /\ UNCHANGED relayer
      BY <1>5 DEF PageHearsWorker
    <3>2. StepsLeft \in 0 .. 4
      BY DEF StepsLeft
    <3>. QED BY <3>1, <3>2 DEF IInvPage, AttemptOnShow, AttemptIsSound, BeforeSubmit
  <2>2. CASE Head(mail) = "success"
    <3>1. stage' = "submitting" /\ step' = "submit" /\ worker' = "none" /\ mail' = <<>>
      BY <1>5, <2>2 DEF PageHearsWorker, Terminate
    <3>. QED BY <1>1, <2>1, <3>1 DEF AttemptRuns, Remaining
  <2>3. CASE Head(mail) = "error"
    <3>1. stage' = "error" /\ step' = "none" /\ worker' = "none" /\ mail' = <<>>
      BY <1>5, <2>3 DEF PageHearsWorker, Terminate
    <3>. QED BY <3>1 DEF AttemptRuns
  <2>4. CASE Head(mail) \notin {"success", "error"}
    <3>1. mail' = Tail(mail) /\ UNCHANGED <<stage, step, worker>> /\ StepsLeft' = StepsLeft
      BY <1>5, <2>4 DEF PageHearsWorker, StepsLeft
    <3>2. Len(mail') = Len(mail) - 1
      BY <1>1, <2>1, <3>1
    <3>3. LastSays => LastSays'
      <4>1. LastSays => Len(mail) > 1 /\ Tail(mail)[Len(mail) - 1] = mail[Len(mail)]
        BY <1>1, <2>1, <2>4 DEF LastSays
      <4>. SUFFICES ASSUME LastSays PROVE LastSays'
        OBVIOUS
      <4>2. mail'[Len(mail')] = mail[Len(mail)]
        BY <3>1, <3>2, <4>1
      <4>3. mail' # <<>>
        BY <1>1, <3>2, <4>1
      <4>. QED BY <4>2, <4>3 DEF LastSays
    <3>. QED BY <1>1, <2>1, <3>1, <3>2, <3>3 DEF AttemptRuns, Remaining
  <2>. QED BY <2>2, <2>3, <2>4
<1>6. CASE RelayerDecides
  <2>1. relayer = "unasked" /\ relayer' # "unasked" /\ UNCHANGED <<stage, step, worker, mail>>
    BY <1>6 DEF RelayerDecides
  <2>2. step \in {"submit", "none"}
    BY <1>6 DEF RelayerDecides, IInvPage, AttemptIsSound
  <2>. QED BY <2>1, <2>2 DEF AttemptRuns, Remaining, StepsLeft, LastSays
<1>7. CASE PageHearsRelayer \/ ReplyLost
  <2>1. step = "submit" /\ step' = "none" /\ stage' \in {"done", "error"}
        /\ UNCHANGED <<worker, mail>>
    BY <1>7 DEF PageHearsRelayer, ReplyLost
  <2>2. worker = "none"
    BY <2>1 DEF IInvPage, AttemptOnShow
  <2>. QED BY <2>1, <2>2 DEF AttemptRuns
<1>. QED BY <1>2, <1>3, <1>4, <1>5, <1>6, <1>7 DEF Proving

(* So at every moment an attempt is at one of its stages, or it ended.     *)
LEMMA AttemptInvariant == SpecPage => []AttemptRuns
<1>1. IInvPage /\ AttemptRuns /\ [NextPage]_varsPage => AttemptRuns'
  BY ProvingAdvances, OthersKeepRuns DEF NextPage
<1>. QED BY <1>1, InitAttemptRuns, PageInvariant, PTL DEF SpecPage

-----------------------------------------------------------------------------
(* An attempt that has not ended waits for nothing that cannot happen.     *)
LEMMA AttemptCanProceed ==
    ASSUME IInvPage, AttemptRuns, step # "none"
    PROVE  CanProceed
BY DEF IInvPage, AttemptTypes, BeforeSubmit, AttemptRuns, LastSays, CanProceed

Within(n) == step # "none" /\ Remaining <= n
AttemptOver == step = "none" /\ stage \in {"done", "error"}

(* The page's specification with its fairness, and the fact about ENABLED  *)
(* that TLAPS takes as a hypothesis and TLC checks.                        *)
FairPage == SpecPage /\ WF_varsPage(Proving) /\ []ProvingEnabled

(* An attempt with at most n things left to happen has fewer in the end.   *)
Shrinks(n, k) == Within(n) ~> Within(k) \/ AttemptOver

(* One thing fewer is left after each step that fairness brings about.     *)
LEMMA AttemptShrinks ==
    ASSUME NEW k \in 0 .. 18, NEW n \in 1 .. 19, n = k + 1
    PROVE  FairPage => Shrinks(n, k)
<1>. DEFINE Inv == IInvPage /\ AttemptRuns
            Now == Within(n)
            Next1 == Within(k)
<1>1. Inv /\ Now => Remaining \in 1 .. 19
  BY RemainingBounds DEF Within
<1>2. Inv /\ Now /\ Proving => Next1' \/ AttemptOver'
  <2>. SUFFICES ASSUME Inv, Now, Proving
                PROVE  Next1' \/ AttemptOver'
    OBVIOUS
  <2>1. Remaining \in 1 .. 19 /\ step # "none"
    BY RemainingBounds DEF Within
  <2>2. step' = "none" \/ Remaining' \in 1 .. 19
    <3>1. (IInvPage /\ AttemptRuns /\ step # "none" => Remaining \in 1 .. 19)'
      BY RemainingBounds, PTL
    <3>. QED BY <3>1, ProvingAdvances, ProvingKeepsIInvPage
  <2>. QED BY <2>1, <2>2, ProvingAdvances DEF Within, AttemptOver
<1>3. Inv /\ Now /\ [NextPage]_varsPage => Now' \/ Next1' \/ AttemptOver'
  <2>. SUFFICES ASSUME Inv, Now, [NextPage]_varsPage, ~Proving
                PROVE  Now'
    BY <1>2
  <2>1. UNCHANGED <<stage, step, worker, mail, relayer>>
    BY OthersLeaveAttempt DEF NextPage, Within
  <2>. QED BY <2>1 DEF Within, Remaining, StepsLeft
<1>4. Inv /\ ProvingEnabled /\ Now => ENABLED <<Proving>>_varsPage
  BY AttemptCanProceed DEF ProvingEnabled, Within
<1>5. FairPage => []Inv
  BY PageInvariant, AttemptInvariant, PTL DEF FairPage
<1>6. FairPage => [][NextPage]_varsPage /\ []ProvingEnabled /\ WF_varsPage(Proving)
  BY PTL DEF FairPage, SpecPage
<1>7. (Now <=> Within(n)) /\ (Next1 <=> Within(k))
  OBVIOUS
<1>8. Inv /\ Now /\ <<Proving>>_varsPage => Next1' \/ AttemptOver'
  BY <1>2
<1>. HIDE DEF Inv, Now, Next1
<1>9. FairPage => (Now ~> Next1 \/ AttemptOver)
  BY <1>3, <1>4, <1>5, <1>6, <1>8, PTL
<1>. QED BY <1>7, <1>9, PTL DEF Shrinks

(* An attempt that is on the screen ends there: the page does not stay on  *)
(* its progress bar, whatever the worker, the relayer and the network do.  *)
THEOREM AttemptsEnd == FairPage => AttemptEnds
<1>19. FairPage => Shrinks(19, 18)
  BY AttemptShrinks
<1>18. FairPage => Shrinks(18, 17)
  BY AttemptShrinks
<1>17. FairPage => Shrinks(17, 16)
  BY AttemptShrinks
<1>16. FairPage => Shrinks(16, 15)
  BY AttemptShrinks
<1>15. FairPage => Shrinks(15, 14)
  BY AttemptShrinks
<1>14. FairPage => Shrinks(14, 13)
  BY AttemptShrinks
<1>13. FairPage => Shrinks(13, 12)
  BY AttemptShrinks
<1>12. FairPage => Shrinks(12, 11)
  BY AttemptShrinks
<1>11. FairPage => Shrinks(11, 10)
  BY AttemptShrinks
<1>10. FairPage => Shrinks(10, 9)
  BY AttemptShrinks
<1>9. FairPage => Shrinks(9, 8)
  BY AttemptShrinks
<1>8. FairPage => Shrinks(8, 7)
  BY AttemptShrinks
<1>7. FairPage => Shrinks(7, 6)
  BY AttemptShrinks
<1>6. FairPage => Shrinks(6, 5)
  BY AttemptShrinks
<1>5. FairPage => Shrinks(5, 4)
  BY AttemptShrinks
<1>4. FairPage => Shrinks(4, 3)
  BY AttemptShrinks
<1>3. FairPage => Shrinks(3, 2)
  BY AttemptShrinks
<1>2. FairPage => Shrinks(2, 1)
  BY AttemptShrinks
<1>1. FairPage => Shrinks(1, 0)
  BY AttemptShrinks
<1>20. FairPage => [](stage \in {"generating_proof", "submitting"} => Within(19))
  <2>1. IInvPage /\ AttemptRuns /\ stage \in {"generating_proof", "submitting"} => Within(19)
    BY RemainingBounds DEF AttemptRuns, BeforeSubmit, Within
  <2>. QED BY <2>1, PageInvariant, AttemptInvariant, PTL DEF FairPage
<1>21. FairPage => []~Within(0)
  <2>1. IInvPage /\ AttemptRuns => ~Within(0)
    BY RemainingBounds DEF Within
  <2>. QED BY <2>1, PageInvariant, AttemptInvariant, PTL DEF FairPage
<1>22. AttemptOver => stage \in {"done", "error"}
  BY DEF AttemptOver
<1>. QED BY <1>19, <1>18, <1>17, <1>16, <1>15, <1>14, <1>13, <1>12, <1>11, <1>10,
            <1>9, <1>8, <1>7, <1>6, <1>5, <1>4, <1>3, <1>2, <1>1, <1>20, <1>21, <1>22,
            PTL DEF AttemptEnds, Shrinks
=============================================================================
