---------------------------- MODULE SessionStore ----------------------------
(***************************************************************************)
(* The web frontend's own session store                                    *)
(* (frontend/app/api/kakusho/sessions/[id]/route.ts) and the three clients *)
(* written for it: the desktop's QRHandoff (component/qrcode.tsx), the     *)
(* phone's hand-off page (app/verify/mobile/[session]/page.tsx) and        *)
(* whoever PATCHes the outcome.  The handlers read params.session in a     *)
(* route whose parameter is called id, so that every session has the same  *)
(* key: the store is one entry.                                            *)
(***************************************************************************)
EXTENDS Integers, Sequences

CONSTANTS Reporters, \* the requests that PATCH an outcome
          MaxBirths  \* bound of the entries created

ASSUME StoreAssumption == MaxBirths \in Nat

NoEntry == [status |-> "none", address |-> "none", created |-> 0]

VARIABLES entry,    \* what the Map holds
          births, expired, \* entries created so far, and those past the TTL
          patch,    \* the PATCH requests
          phase, needsFreighter, asking, \* the phone's page
          shown, reply, polling, told    \* QRHandoff

varsStore == <<entry, births, expired, patch, phase, needsFreighter, asking,
               shown, reply, polling, told>>

phonePage == <<phase, needsFreighter, asking>>
qr == <<shown, reply, polling, told>>

ORDER == <<"pending", "wallet_connected", "verified", "error">>
IndexOf(status) == IF \E i \in 1 .. 4 : ORDER[i] = status
                   THEN CHOOSE i \in 1 .. 4 : ORDER[i] = status ELSE 0

Requests == {"phone"} \cup Reporters
Unsent == [at |-> "unsent", body |-> "none", s |-> NoEntry]
Sent(body) == [at |-> "sent", body |-> body, s |-> NoEntry]

-----------------------------------------------------------------------------
(* The handlers.  One that finds the entry expired deletes it.             *)
Lookup == IF entry.created \in expired THEN entry' = NoEntry ELSE UNCHANGED entry
Found == entry # NoEntry /\ entry.created \notin expired

(* POST does not look at the age of the entry it finds.                    *)
Post == /\ entry = NoEntry /\ births < MaxBirths
        /\ births' = births + 1
        /\ entry' = [status |-> "pending", address |-> "none", created |-> births + 1]
        /\ UNCHANGED <<expired, patch, phonePage, qr>>

(* PATCH reads the entry, and then awaits its body.                        *)
PatchReads(q) ==
    /\ patch[q].at = "sent" /\ Lookup
    /\ patch' = [patch EXCEPT ![q].at = IF Found THEN "reading" ELSE "answered",
                              ![q].s = IF Found THEN entry ELSE NoEntry]
    /\ UNCHANGED <<births, expired, phonePage, qr>>

Backward_Never(body, s) == FALSE

(* A transition that is silently ignored; a status that ORDER does not     *)
(* know has the index -1 and is one.                                       *)
Backward(body, s) == /\ body # "no_status" /\ body # "error"
                     /\ IndexOf(body) < IndexOf(s.status)

Merge(s, q) == [s EXCEPT !.status = IF patch[q].body = "no_status" THEN @ ELSE patch[q].body,
                         !.address = IF q = "phone" THEN "phone" ELSE @]

(* Then it writes { ...s, ...body }, whatever happened to the entry.       *)
PatchWrites(q) ==
    /\ patch[q].at = "reading"
    /\ \/ /\ ~Backward(patch[q].body, patch[q].s)
          /\ entry' = Merge(patch[q].s, q)
       \/ /\ Backward(patch[q].body, patch[q].s) \/ q # "phone" \* or a body that is no JSON
          /\ UNCHANGED entry
    /\ patch' = [patch EXCEPT ![q].at = "answered"]
    /\ UNCHANGED <<births, expired, phonePage, qr>>

TtlPasses == /\ births > 0 /\ births \notin expired
             /\ expired' = expired \cup {births}
             /\ UNCHANGED <<entry, births, patch, phonePage, qr>>

Report(q) == /\ patch[q] = Unsent
             /\ \E body \in {"verified", "error", "no_status", "submitted"} :
                  patch' = [patch EXCEPT ![q] = Sent(body)]
             /\ UNCHANGED <<entry, births, expired, phonePage, qr>>

-----------------------------------------------------------------------------
(* The phone: connectAndHandoff, on mount and from the button of an error. *)
Connect == /\ phase = "error" /\ phase' = "connecting"
           /\ asking' = "isConnected" /\ needsFreighter' = FALSE
           /\ UNCHANGED <<entry, births, expired, patch, qr>>

FreighterAnswers ==
    /\ phase = "connecting"
    /\ \/ /\ asking = "isConnected" /\ asking' = "requestAccess"
          /\ UNCHANGED <<phase, needsFreighter, patch>>
       \/ /\ asking' = "nothing" /\ phase' = "error"
          /\ needsFreighter' = (asking = "isConnected") /\ UNCHANGED patch
       \/ /\ asking = "requestAccess" /\ asking' = "nothing"
          /\ phase' = "redirecting" /\ UNCHANGED needsFreighter
          /\ patch' = [patch EXCEPT !["phone"] = Sent("wallet_connected")]
    /\ UNCHANGED <<entry, births, expired, qr>>

(* The PATCH is not waited for.                                            *)
OpenVerifyPage == /\ phase = "redirecting" /\ phase' = "gone"
                  /\ UNCHANGED <<entry, births, expired, patch, needsFreighter, asking, qr>>

-----------------------------------------------------------------------------
(* QRHandoff: the session is created at the relayer, and polled here.      *)
CreateSession == /\ polling = "creating" /\ polling' \in {"on", "failed"}
                 /\ UNCHANGED <<entry, births, expired, patch, phonePage, shown, reply, told>>

Poll == /\ polling = "on" /\ reply = "none" /\ Lookup
        /\ reply' = IF Found THEN entry.status ELSE "none"
        /\ UNCHANGED <<births, expired, patch, phonePage, shown, polling, told>>

PollReply == /\ polling = "on" /\ reply # "none"
             /\ shown' = reply /\ reply' = "none"
             /\ IF reply \in {"submitted", "confirmed", "failed", "expired"}
                THEN polling' = "off" /\ told' = reply
                ELSE UNCHANGED <<polling, told>>
             /\ UNCHANGED <<entry, births, expired, patch, phonePage>>

-----------------------------------------------------------------------------
InitStore ==
    /\ entry = NoEntry /\ births = 0 /\ expired = {}
    /\ patch = [q \in Requests |-> Unsent]
    /\ phase = "connecting" /\ needsFreighter = FALSE /\ asking = "isConnected"
    /\ shown = "pending" /\ reply = "none" /\ polling = "creating" /\ told = "nothing"

NextStore ==
    \/ Post \/ TtlPasses
    \/ \E q \in Requests : PatchReads(q) \/ PatchWrites(q)
    \/ \E q \in Reporters : Report(q)
    \/ Connect \/ FreighterAnswers \/ OpenVerifyPage
    \/ CreateSession \/ Poll \/ PollReply

-----------------------------------------------------------------------------
(* The types.                                                              *)
TypeOKStore ==
    /\ entry.status \in {"none"} \cup {ORDER[i] : i \in 1 .. 4}
    /\ entry.address \in {"none", "phone"} /\ entry.created \in 0 .. births
    /\ births \in 0 .. MaxBirths /\ expired \subseteq 1 .. births
    /\ \A q \in Requests : patch[q].at \in {"unsent", "sent", "reading", "answered"}
    /\ phase \in {"connecting", "redirecting", "error", "gone"}
    /\ needsFreighter \in BOOLEAN /\ asking \in {"isConnected", "requestAccess", "nothing"}
    /\ polling \in {"creating", "on", "off", "failed"} 
    /\ told \in {"nothing", "submitted", "confirmed", "failed", "expired"}

GoesBack == /\ entry # NoEntry /\ entry' # NoEntry
            /\ IndexOf(entry'.status) < IndexOf(entry.status)

(* The session's status goes back only when a PATCH had read the entry     *)
(* before somebody else changed it.                                        *)
GoesBackOnlyByRace ==
    [][GoesBack => \E q \in Requests : /\ patch[q].at = "reading" /\ patch[q].s # entry
                                       /\ patch'[q].at = "answered"]_varsStore

(* "Only allow forward-only status transitions to prevent race conditions" *)
(* (sessions/[id]/route.ts:77): the status never goes back.                *)
ForwardOnly == [][~GoesBack]_varsStore
=============================================================================
