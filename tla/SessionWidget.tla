--------------------------- MODULE SessionWidget ---------------------------
(***************************************************************************)
(* The QR hand-off of the SDK: KakushoVerifyWidget on the desktop          *)
(* (sdk/src/session/widget.ts), the flow on the phone (session/mobile.ts)  *)
(* and between them the session that a relayer keeps for them.  The routes *)
(* resolve, scanned, complete and fail are not in this repository: they    *)
(* are taken as the two clients use them, an ended session never changes.  *)
(* A session is named by the number of the start() that created it.        *)
(***************************************************************************)
EXTENDS Naturals, Sequences, FiniteSets

CONSTANTS MaxStarts, \* bound of the calls of start()
          MaxPolls,  \* bound of the polls in flight
          MaxPhones  \* bound of the sessions that are opened on a phone

ASSUME WidgetAssumption == MaxStarts \in Nat /\ MaxPolls \in Nat /\ MaxPhones \in Nat

Runs == 1 .. MaxStarts
Live == {"pending", "scanned"}
Ended == {"completed", "failed", "expired"}

VARIABLES starts,     \* calls of start() so far
          creating,   \* those whose POST /sessions is not answered
          intervals,  \* the sessions whose interval timer is running
          pollHandle, \* the interval that stop() would clear
          settled, screen,
          lastScanned, \* lastStatus is "scanned"
          results,    \* what onResult was called with
          poll,       \* the polls in flight
          past,       \* sessions past the expiresAt the widget was told
          sessionStatus, \* the status the relayer keeps
          phone,      \* how far the phone is with it
          accepted,   \* the sessions whose proof the relayer took
          lost        \* history: sessions that lost an answer to the phone

varsWidget == <<starts, creating, intervals, pollHandle, settled, lastScanned, screen,
                results, poll, past, sessionStatus, phone, accepted, lost>>

widget == <<starts, creating, intervals, pollHandle, settled, lastScanned, screen, results>>
network == <<poll, past>>
remote == <<sessionStatus, phone, accepted, lost>>

Free == [run |-> 0, at |-> "free"]

-----------------------------------------------------------------------------
(* The widget.  A second start() forgets the timer of the first.           *)
Start == /\ starts < MaxStarts
         /\ starts' = starts + 1 /\ creating' = creating \cup {starts + 1}
         /\ settled' = FALSE /\ screen' = "loading"
         /\ UNCHANGED <<intervals, pollHandle, lastScanned, results, network, remote>>

CreateFails(r) == /\ r \in creating /\ creating' = creating \ {r}
                  /\ screen' = "error"
                  /\ UNCHANGED <<starts, intervals, pollHandle, settled, lastScanned, results,
                                 network, remote>>

Created(r) == /\ r \in creating /\ creating' = creating \ {r}
              /\ sessionStatus' = [sessionStatus EXCEPT ![r] = "pending"]
              /\ intervals' = intervals \cup {r} /\ pollHandle' = r
              /\ screen' = "pending"
              /\ UNCHANGED <<starts, settled, lastScanned, results, network,
                             phone, accepted, lost>>

ClearInterval == intervals' = intervals \ {pollHandle} /\ pollHandle' = 0

StopPolling == /\ pollHandle # 0 /\ ClearInterval
               /\ UNCHANGED <<starts, creating, settled, lastScanned, screen, results,
                              network, remote>>

Settle_Again(r, verified, reason) ==
    /\ settled' = TRUE /\ ClearInterval
    /\ results' = Append(results, [of |-> r, verified |-> verified, reason |-> reason])

(* settle(): whichever session's poll calls it, and once.                  *)
Settle(r, verified, reason) ==
    IF settled THEN UNCHANGED <<settled, intervals, pollHandle, results>>
    ELSE /\ settled' = TRUE /\ ClearInterval
         /\ results' = Append(results, [of |-> r, verified |-> verified, reason |-> reason])

DeadlineGuard_None(r) == FALSE

(* The interval's callback first looks at the clock.                       *)
DeadlineGuard(r) == r \in past

(* A tick asks for the status, however many polls are unanswered.          *)
Tick(r) ==
    /\ r \in intervals /\ ~settled
    /\ IF DeadlineGuard(r)
       THEN /\ Settle(r, FALSE, "expired") /\ screen' = "expired"
            /\ UNCHANGED poll
       ELSE /\ \E p \in 1 .. MaxPolls :
                 /\ poll[p] = Free /\ \A q \in 1 .. p - 1 : poll[q] # Free
                 /\ poll' = [poll EXCEPT ![p] = [run |-> r, at |-> "asked"]]
            /\ UNCHANGED <<settled, intervals, pollHandle, results, screen>>
    /\ UNCHANGED <<starts, creating, lastScanned, past, remote>>

PollServed(p) == /\ poll[p].at = "asked"
                 /\ poll' = [poll EXCEPT ![p].at = sessionStatus[poll[p].run]]
                 /\ UNCHANGED <<widget, past, remote>>

(* An error status or a network error: the poll leaves no trace.           *)
PollDropped(p) == /\ poll[p] # Free
                  /\ poll' = [poll EXCEPT ![p] = Free]
                  /\ UNCHANGED <<widget, past, remote>>

(* renderScanned writes into the text below the QR code, if that is shown. *)
ScreenAfter(status) ==
    CASE status \in Ended -> status
      [] status = "scanned" /\ ~lastScanned /\ screen = "pending" -> "scanned"
      [] OTHER -> screen

PollAnswered(p) ==
    /\ poll[p].at \in Live \cup Ended
    /\ LET status == poll[p].at IN
         /\ lastScanned' = (status = "scanned") /\ screen' = ScreenAfter(status)
         /\ IF status \in Ended
            THEN Settle(poll[p].run, status = "completed", status)
            ELSE UNCHANGED <<settled, intervals, pollHandle, results>>
    /\ poll' = [poll EXCEPT ![p] = Free]
    /\ UNCHANGED <<starts, creating, past, remote>>

-----------------------------------------------------------------------------
(* The clocks of the desktop and of the relayer.                           *)
DeadlinePasses(r) == /\ sessionStatus[r] # "none" /\ r \notin past
                     /\ past' = past \cup {r}
                     /\ UNCHANGED <<widget, poll, remote>>

End(r, status) == sessionStatus' = [sessionStatus EXCEPT ![r] = IF @ \in Live THEN status ELSE @]

RelayerExpires(r) == /\ sessionStatus[r] \in Live /\ End(r, "expired")
                     /\ UNCHANGED <<widget, network, phone, accepted, lost>>

-----------------------------------------------------------------------------
(* The phone.                                                              *)
Goes(r, to) == phone' = [phone EXCEPT ![r] = to] /\ UNCHANGED <<widget, network>>

(* resolveSession refuses a session that is gone; markSessionScanned is    *)
(* best effort.                                                            *)
OpenLink(r) == /\ phone[r] = "away" /\ sessionStatus[r] \in Live /\ Goes(r, "proving")
               /\ Cardinality({q \in Runs : phone[q] # "away"}) < MaxPhones
               /\ sessionStatus' \in {sessionStatus, [sessionStatus EXCEPT ![r] = "scanned"]}
               /\ UNCHANGED <<accepted, lost>>

(* submitProof throws when the relayer's answer is not a 2xx.              *)
SubmitRefused == "failing"

LoseAnswer(r) == lost' = lost \cup {r}

(* The proof cannot be made; it is taken; it is refused; the connection    *)
(* breaks after or before the relayer took it.                             *)
ProveAndSubmit(r) ==
    /\ phone[r] = "proving" /\ UNCHANGED sessionStatus
    /\ \/ Goes(r, "failing") /\ UNCHANGED <<accepted, lost>>
       \/ Goes(r, "reporting") /\ accepted' = accepted \cup {r} /\ UNCHANGED lost
       \/ Goes(r, SubmitRefused) /\ UNCHANGED <<accepted, lost>>
       \/ Goes(r, "failing") /\ accepted' \in {accepted, accepted \cup {r}} /\ LoseAnswer(r)

ReportRefused_Fails == "failing"

(* The status of the answer to complete is not looked at.                  *)
ReportRefused == "done"

(* reportSessionCompleted: the relayer ends the session or refuses to; a   *)
(* broken connection is an exception of the flow.                          *)
ReportCompleted(r) ==
    /\ phone[r] = "reporting" /\ UNCHANGED accepted
    /\ \/ Goes(r, "done") /\ End(r, "completed") /\ UNCHANGED lost
       \/ Goes(r, ReportRefused) /\ UNCHANGED <<sessionStatus, lost>>
       \/ Goes(r, "failing") /\ LoseAnswer(r) /\ (End(r, "completed") \/ UNCHANGED sessionStatus)

(* reportSessionFailed, best effort.                                       *)
ReportFailed(r) == /\ phone[r] = "failing" /\ Goes(r, "done")
                   /\ End(r, "failed") \/ UNCHANGED sessionStatus
                   /\ UNCHANGED <<accepted, lost>>

-----------------------------------------------------------------------------
InitWidget ==
    /\ starts = 0 /\ creating = {} /\ intervals = {} /\ pollHandle = 0
    /\ settled = FALSE /\ lastScanned = FALSE /\ screen = "none" /\ results = <<>>
    /\ poll = [p \in 1 .. MaxPolls |-> Free] /\ past = {}
    /\ sessionStatus = [r \in Runs |-> "none"] /\ phone = [r \in Runs |-> "away"]
    /\ accepted = {} /\ lost = {}

Ticks == \E r \in Runs : Tick(r)
Clock == \E r \in Runs : DeadlinePasses(r)

NextWidget ==
    \/ Start \/ StopPolling \/ Ticks \/ Clock
    \/ \E r \in Runs : \/ CreateFails(r) \/ Created(r) \/ RelayerExpires(r)
                       \/ OpenLink(r) \/ ProveAndSubmit(r)
                       \/ ReportCompleted(r) \/ ReportFailed(r)
    \/ \E p \in 1 .. MaxPolls : PollServed(p) \/ PollDropped(p) \/ PollAnswered(p)

-----------------------------------------------------------------------------
(* The types.                                                              *)
TypeOKWidget ==
    /\ starts \in 0 .. MaxStarts /\ creating \subseteq Runs /\ intervals \subseteq Runs
    /\ pollHandle \in 0 .. MaxStarts
    /\ settled \in BOOLEAN /\ lastScanned \in BOOLEAN /\ past \subseteq Runs
    /\ screen \in {"none", "loading", "error"} \cup Live \cup Ended
    /\ \A r \in Runs : sessionStatus[r] \in {"none"} \cup Live \cup Ended
    /\ \A p \in 1 .. MaxPolls : poll[p].at \in {"free", "asked"} \cup Live \cup Ended

(* onResult is called once for a start(), whatever polls were in flight    *)
(* when it was, and says verified only of a session whose proof the        *)
(* relayer took.                                                           *)
OneTrueResult ==
    /\ Len(results) <= starts
    /\ \A i \in 1 .. Len(results) : results[i].verified => results[i].of \in accepted

(* Of a proof that the relayer took the desktop is told "failed" only when *)
(* the phone lost an answer; a report that comes late, or that the relayer *)
(* refuses, ends in "expired".                                             *)
FailedThoughAccepted ==
    \A i \in 1 .. Len(results) :
        results[i].reason = "failed" /\ results[i].of \in accepted => results[i].of \in lost

(* A widget that polls gets a result, or is stopped, even when no poll is  *)
(* ever answered, and also if start() is called again meanwhile.           *)
ResultComes == (pollHandle # 0 /\ ~settled) ~> (settled \/ pollHandle = 0)
=============================================================================
