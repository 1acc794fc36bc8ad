----------------------------- MODULE ScannerApp -----------------------------
(***************************************************************************)
(* The scanner app (kakusho-scanner-app/src): the deep link that brings a  *)
(* session, the screens on their stack, and the scans that NfcScanScreen   *)
(* starts.  runScan closes over the session it was made with and is never  *)
(* cancelled: it is one more process each time it is called.               *)
(***************************************************************************)
EXTENDS Naturals, FiniteSets

CONSTANTS Links,    \* the sessions that valid links carry
          MaxScans, \* bound of the calls of runScan
          MaxMounts, \* bound of the times the scan screen is opened
          MaxChanges \* bound of the links that replace the session under it

ASSUME ScannerAssumption ==
    /\ MaxScans \in Nat /\ MaxMounts \in Nat /\ MaxChanges \in Nat
    /\ Links \cap {"none", "invalid", "handled"} = {}

ScanIds == 1 .. MaxScans

VARIABLES session, linkError,
          initialURL,  \* what getInitialURL will answer; "handled" afterwards
          route,     \* the top of the stack; "NoSession" outside of it
          form,        \* the three fields of MrzEntry
          mount,       \* the scan screens opened so far
          scanStatus,  \* NfcScanScreen's status
          scan,        \* the calls of runScan
          shownFor,    \* the session whose submission the result screen reports
          answered,    \* sessions the relayer answered 2xx for, ok or not
          changes      \* history: links taken since the screen was opened

varsScanner == <<session, linkError, initialURL, route, form, mount, scanStatus,
                 scan, shownFor, answered, changes>>

InFlight == {"availability", "reading", "submitting"}
NotStarted == [at |-> "not_started", of |-> "none", mount |-> 0, key |-> "none"]

-----------------------------------------------------------------------------
(* runScan.                                                                *)
StartScan(of, key, m) ==
    \E n \in ScanIds :
        /\ scan[n] = NotStarted /\ \A k \in 1 .. n - 1 : scan[k] # NotStarted
        /\ scan' = [scan EXCEPT ![n] = [at |-> "availability", of |-> of, mount |-> m, key |-> key]]
        /\ scanStatus' = "checking_nfc"

(* A scan whose screen is gone still runs, but moves no screen.            *)
OnScreen(n) == route = "NfcScan" /\ scan[n].mount = mount

Step(n, to, status) == /\ scan' = [scan EXCEPT ![n].at = to]
                       /\ scanStatus' = IF OnScreen(n) THEN status ELSE scanStatus

Elsewhere == UNCHANGED <<session, linkError, initialURL, form, mount, changes>>

(* checkNfcAvailability; its own exception is caught by nobody.            *)
Availability(n) ==
    /\ scan[n].at = "availability"
    /\ \/ Step(n, "over", "nfc_unavailable")
       \/ Step(n, "reading", "awaiting_tap")
       \/ Step(n, "over", scanStatus)
    /\ Elsewhere /\ UNCHANGED <<route, shownFor, answered>>

(* readPassport: a wrong key, a tag that moves away.                       *)
Read(n) == /\ scan[n].at = "reading"
           /\ \/ Step(n, "over", "error")
              \/ scan[n].key = "right" /\ Step(n, "submitting", "submitting")
           /\ Elsewhere /\ UNCHANGED <<route, shownFor, answered>>

Answered_NotAwaited(n) == scan[n].at = "submitting"

(* The scan goes on with the relayer's answer.                             *)
Answered(n) == scan[n].at = "submitting" /\ scan[n].of \in answered'

(* The result screen replaces the scan screen, if that is still there.     *)
ShowResult(n) == /\ Step(n, "over", "success")
                 /\ IF OnScreen(n) THEN route' = "Result" /\ shownFor' = scan[n].of
                    ELSE UNCHANGED <<route, shownFor>>

(* submitNfcProof: a 2xx, whose ok is not looked at, or an error status, a *)
(* broken connection, the timeout, after which the relayer may have it.    *)
Submit(n) ==
    /\ scan[n].at = "submitting" /\ Elsewhere
    /\ \/ /\ answered' \in {answered, answered \cup {scan[n].of}}
          /\ Answered(n) /\ ShowResult(n)
       \/ /\ Step(n, "over", "error") /\ UNCHANGED <<route, shownFor, answered>>

RetryOffered_Always == TRUE

(* The screen offers "Try again".                                          *)
RetryOffered == scanStatus \in {"error", "nfc_unavailable"}

Retry == /\ route = "NfcScan" /\ RetryOffered
         /\ \E key \in {scan[n].key : n \in {k \in ScanIds : scan[k].mount = mount}} :
              StartScan(session, key, mount)
         /\ Elsewhere /\ UNCHANGED <<route, shownFor, answered>>

-----------------------------------------------------------------------------
(* setSession: the first one brings the stack.  Every link is parsed into a *)
(* new object, so that also the same link, when it comes while a scan      *)
(* screen is open, makes a new runScan, which its effect calls.            *)
SetSession(s) ==
    /\ session' = s /\ linkError' = FALSE
    /\ route' = IF session = "none" THEN "MrzEntry" ELSE route
    /\ changes' = changes + (IF route \in {"NfcScan", "Result"} THEN 1 ELSE 0)
    /\ changes' <= MaxChanges
    /\ IF route = "NfcScan"
       THEN \E key \in {scan[n].key : n \in {k \in ScanIds : scan[k].mount = mount}} :
              StartScan(s, key, mount)
       ELSE UNCHANGED <<scan, scanStatus>>

(* handleUrl: a link without its parameters leaves the session alone.      *)
HandleUrl(url) == \/ url = "none" /\ UNCHANGED <<session, linkError, route, changes, scan, scanStatus>>
                  \/ url = "invalid" /\ linkError' = TRUE
                     /\ UNCHANGED <<session, route, changes, scan, scanStatus>>
                  \/ url \in Links /\ SetSession(url)

(* The link that started the app is answered when it is; newer ones may    *)
(* have come before.                                                       *)
ColdStart == /\ initialURL # "handled" /\ HandleUrl(initialURL)
             /\ initialURL' = "handled"
             /\ UNCHANGED <<form, mount, shownFor, answered>>

WarmStart == /\ \E url \in Links \cup {"invalid"} : HandleUrl(url)
             /\ UNCHANGED <<initialURL, form, mount, shownFor, answered>>

-----------------------------------------------------------------------------
(* MrzEntry: the fields may be well formed and still not the document's.   *)
Fill == /\ route = "MrzEntry" /\ form' \in {"malformed", "right", "wrong"}
        /\ UNCHANGED <<session, linkError, initialURL, route, mount, scanStatus, scan,
                       shownFor, answered, changes>>

HandleContinue == /\ route = "MrzEntry" /\ form # "malformed" /\ mount < MaxMounts
                  /\ route' = "NfcScan" /\ mount' = mount + 1 /\ changes' = 0
                  /\ StartScan(session, form, mount + 1)
                  /\ UNCHANGED <<session, linkError, initialURL, form, shownFor, answered>>

GoBack == /\ route \in {"NfcScan", "Result"} /\ route' = "MrzEntry"
          /\ UNCHANGED <<session, linkError, initialURL, form, mount, scanStatus, scan,
                         shownFor, answered, changes>>

-----------------------------------------------------------------------------
InitScanner ==
    /\ session = "none" /\ linkError = FALSE
    /\ initialURL \in Links \cup {"none", "invalid"}
    /\ route = "NoSession" /\ form = "malformed" /\ mount = 0 /\ scanStatus = "checking_nfc"
    /\ scan = [n \in ScanIds |-> NotStarted]
    /\ shownFor = "none" /\ answered = {} /\ changes = 0

NextScanner == \/ ColdStart \/ WarmStart \/ Fill \/ HandleContinue \/ GoBack \/ Retry
               \/ \E n \in ScanIds : Availability(n) \/ Read(n) \/ Submit(n)

-----------------------------------------------------------------------------
(* The types.                                                              *)
TypeOKScanner ==
    /\ session \in Links \cup {"none"} /\ linkError \in BOOLEAN
    /\ initialURL \in Links \cup {"none", "invalid", "handled"}
    /\ route \in {"NoSession", "MrzEntry", "NfcScan", "Result"}
    /\ route = "NoSession" <=> session = "none"
    /\ mount \in 0 .. MaxMounts /\ answered \subseteq Links
    /\ scanStatus \in {"checking_nfc", "nfc_unavailable", "awaiting_tap", "submitting",
                       "success", "error"}
    /\ \A n \in ScanIds : scan[n].at \in InFlight \cup {"not_started", "over"}

ScansOf(m) == {n \in ScanIds : scan[n].mount = m /\ scan[n].at \in InFlight}

(* Two scans of one screen read the chip at once only because a link       *)
(* replaced the session under it, one more for each such link: the error   *)
(* of the one does not let the user add to the other.                      *)
OneScanUnlessReplaced ==
    route = "NfcScan" => Cardinality(ScansOf(mount)) <= 1 + changes

(* "Verification submitted" is shown for a session the relayer answered    *)
(* for, and for the app's session unless a link replaced that meanwhile.   *)
ResultWasAnswered ==
    route = "Result" => shownFor \in answered /\ (changes = 0 => shownFor = session)
=============================================================================
