------------------------ MODULE SessionClientsProofs ------------------------
(***************************************************************************)
(* Theorems of SessionWidget, for any number of calls of start(), polls in *)
(* flight and phones; of ChipRead, for any taps and lengths of the files;  *)
(* and of ScannerApp, for any links and any number of scans, screens and   *)
(* links that replace a session.  The three share no state.                *)
(***************************************************************************)
EXTENDS SessionWidget, ChipRead, ScannerApp, FiniteSetTheorems, TLAPS

SpecWidget == InitWidget /\ [][NextWidget]_varsWidget

Statuses == {"none"} \cup Live \cup Ended
Results == [of : Runs, verified : BOOLEAN, reason : Ended]
Polls == [run : Runs \cup {0}, at : {"free", "asked"} \cup Live \cup Ended]
Phones == {"away", "proving", "reporting", "failing", "done"}

RunTypes ==
    /\ starts \in 0 .. MaxStarts
    /\ creating \subseteq 1 .. starts /\ intervals \subseteq 1 .. starts
    /\ pollHandle \in 0 .. MaxStarts /\ past \subseteq Runs

DisplayTypes ==
    /\ settled \in BOOLEAN /\ lastScanned \in BOOLEAN
    /\ screen \in {"none", "loading", "error"} \cup Live \cup Ended

DataTypes ==
    /\ results \in Seq(Results) /\ poll \in [1 .. MaxPolls -> Polls]
    /\ sessionStatus \in [Runs -> Statuses] /\ phone \in [Runs -> Phones]
    /\ accepted \subseteq Runs /\ lost \subseteq Runs

TypesWidget == RunTypes /\ DisplayTypes /\ DataTypes

(* The last start() has its result still to come, unless it is settled.    *)
Counted == Len(results) <= starts /\ (starts > 0 /\ ~settled => Len(results) < starts)

(* Only what exists is polled.                                             *)
Known == /\ \A r \in intervals : sessionStatus[r] # "none"
         /\ \A p \in 1 .. MaxPolls : poll[p].at # "free" =>
              /\ poll[p].run \in 1 .. starts /\ sessionStatus[poll[p].run] # "none"

(* The phone is through, and lost an answer if its proof was taken.        *)
Gone(r) == phone[r] = "done" /\ (r \in accepted => r \in lost)

(* How far the phone is tells whether its proof was taken.                 *)
SessionTrue ==
    \A r \in Runs : /\ sessionStatus[r] = "completed" => r \in accepted
                    /\ sessionStatus[r] = "failed" => Gone(r)
                    /\ phone[r] \in {"away", "proving"} => r \notin accepted
                    /\ phone[r] = "reporting" => r \in accepted
                    /\ phone[r] = "failing" /\ r \in accepted => r \in lost

(* So an answer on its way stays true, and so does a result.               *)
PollTrue ==
    \A p \in 1 .. MaxPolls : /\ poll[p].at = "completed" => poll[p].run \in accepted
                             /\ poll[p].at = "failed" => Gone(poll[p].run)

ResultTrue ==
    \A i \in 1 .. Len(results) : /\ results[i].verified => results[i].of \in accepted
                                 /\ results[i].reason = "failed" => Gone(results[i].of)

IInvWidget == TypesWidget /\ Counted /\ Known /\ SessionTrue /\ PollTrue /\ ResultTrue

USE WidgetAssumption

LEMMA InitIInvWidget == InitWidget => IInvWidget
<1>. SUFFICES ASSUME InitWidget PROVE IInvWidget
  OBVIOUS
<1>1. Free \in Polls /\ Free.at = "free"
  BY DEF Free, Polls
<1>2. /\ poll \in [1 .. MaxPolls -> Polls] /\ \A p \in 1 .. MaxPolls : poll[p].at = "free"
      /\ sessionStatus \in [Runs -> Statuses] /\ phone \in [Runs -> Phones]
  BY <1>1 DEF InitWidget, Statuses, Phones
<1>3. results \in Seq(Results) /\ Len(results) = 0
  BY DEF InitWidget
<1>4. RunTypes /\ DisplayTypes /\ DataTypes
  <2>1. RunTypes
    BY DEF InitWidget, RunTypes
  <2>2. DisplayTypes
    BY DEF InitWidget, DisplayTypes
  <2>. QED BY <1>2, <1>3, <2>1, <2>2 DEF InitWidget, DataTypes
<1>5. Counted /\ Known /\ PollTrue
  BY <1>2, <1>3 DEF InitWidget, Counted, Known, PollTrue
<1>6. SessionTrue /\ ResultTrue
  BY <1>3 DEF InitWidget, SessionTrue, ResultTrue
<1>. QED BY <1>4, <1>5, <1>6 DEF IInvWidget, TypesWidget

(* What changes nothing of the session, the polls and the results.         *)
LEMMA ScreenKeepsIInv ==
    ASSUME IInvWidget, Start \/ (\E r \in Runs : CreateFails(r)) \/ StopPolling
                       \/ (\E r \in Runs : DeadlinePasses(r))
    PROVE  IInvWidget'
<1>1. UNCHANGED <<poll, results, sessionStatus, phone, accepted, lost>>
  BY DEF Start, CreateFails, StopPolling, DeadlinePasses, network, remote, widget
<1>2. ASSUME Start PROVE TypesWidget' /\ Counted' /\ Known'
  <2>1. /\ starts' = starts + 1 /\ starts' <= MaxStarts /\ creating' = creating \cup {starts + 1}
        /\ settled' = FALSE /\ screen' = "loading"
        /\ UNCHANGED <<intervals, pollHandle, lastScanned, past>>
    BY <1>2 DEF Start, network, IInvWidget, TypesWidget, RunTypes, DisplayTypes, DataTypes
  <2>2. RunTypes'
    BY <2>1 DEF IInvWidget, TypesWidget, RunTypes
  <2>3. DisplayTypes'
    BY <2>1 DEF IInvWidget, TypesWidget, DisplayTypes
  <2>4. DataTypes'
    BY <1>1 DEF IInvWidget, TypesWidget, DataTypes
  <2>5. Counted'
    BY <1>1, <2>1 DEF IInvWidget, TypesWidget, RunTypes, DataTypes, Counted
  <2>6. Known'
    BY <1>1, <2>1 DEF IInvWidget, TypesWidget, RunTypes, DataTypes, Known, Polls, Runs
  <2>. QED BY <2>2, <2>3, <2>4, <2>5, <2>6 DEF TypesWidget
<1>3. ASSUME NEW r \in Runs, CreateFails(r) \/ DeadlinePasses(r)
      PROVE  TypesWidget' /\ Counted' /\ Known'
  <2>1. /\ creating' \subseteq creating /\ screen' \in {screen, "error"} /\ past' \subseteq Runs
        /\ UNCHANGED <<starts, intervals, pollHandle, settled, lastScanned>>
    BY <1>3 DEF CreateFails, DeadlinePasses, network, widget, IInvWidget, TypesWidget, RunTypes,
       DisplayTypes, DataTypes
  <2>2. RunTypes'
    BY <2>1 DEF IInvWidget, TypesWidget, RunTypes
  <2>3. DisplayTypes'
    BY <2>1 DEF IInvWidget, TypesWidget, DisplayTypes
  <2>4. DataTypes' /\ Counted'
    BY <1>1, <2>1 DEF IInvWidget, TypesWidget, DataTypes, Counted
  <2>5. Known'
    BY <1>1, <2>1 DEF IInvWidget, Known
  <2>. QED BY <2>2, <2>3, <2>4, <2>5 DEF TypesWidget
<1>4. ASSUME StopPolling PROVE TypesWidget' /\ Counted' /\ Known'
  <2>1. /\ intervals' \subseteq intervals /\ pollHandle' = 0
        /\ UNCHANGED <<starts, creating, settled, lastScanned, screen, past>>
    BY <1>4 DEF StopPolling, ClearInterval, network
  <2>2. RunTypes'
    BY <2>1 DEF IInvWidget, TypesWidget, RunTypes
  <2>3. DisplayTypes'
    BY <2>1 DEF IInvWidget, TypesWidget, DisplayTypes
  <2>4. DataTypes' /\ Counted'
    BY <1>1, <2>1 DEF IInvWidget, TypesWidget, DataTypes, Counted
  <2>5. Known'
    BY <1>1, <2>1 DEF IInvWidget, Known
  <2>. QED BY <2>2, <2>3, <2>4, <2>5 DEF TypesWidget
<1>5. TypesWidget' /\ Counted' /\ Known'
  BY <1>2, <1>3, <1>4
<1>. QED
  BY <1>1, <1>5 DEF IInvWidget, SessionTrue, PollTrue, ResultTrue, Gone

LEMMA CreatedKeepsIInv ==
    ASSUME IInvWidget, NEW r \in Runs, Created(r)
    PROVE  IInvWidget'
<1>1. /\ sessionStatus' = [sessionStatus EXCEPT ![r] = "pending"]
      /\ UNCHANGED <<starts, settled, poll, past, results, phone, accepted, lost>>
  BY DEF Created, network
<1>2. TypesWidget'
  BY DEF Created, network, IInvWidget, TypesWidget, RunTypes, DisplayTypes, DataTypes, Runs,
     Live, Ended, Statuses
<1>3. Counted' /\ Known'
  BY <1>1 DEF Created, IInvWidget, TypesWidget, RunTypes, DisplayTypes, DataTypes, Counted, Known
<1>4. SessionTrue'
  BY <1>1 DEF IInvWidget, TypesWidget, RunTypes, DisplayTypes, DataTypes, SessionTrue, Gone
<1>. QED
  BY <1>1, <1>2, <1>3, <1>4 DEF IInvWidget, PollTrue, ResultTrue, Gone

(* The steps of the phone and of the relayer: what was accepted or through *)
(* stays so.                                                               *)
LEMMA RemoteKeepsIInv ==
    ASSUME IInvWidget, UNCHANGED <<widget, network>>,
           sessionStatus' \in [Runs -> Statuses], phone' \in [Runs -> Phones],
           accepted' \subseteq Runs, lost' \subseteq Runs, SessionTrue',
           \A q \in Runs : /\ sessionStatus[q] # "none" => sessionStatus'[q] # "none"
                           /\ q \in accepted => q \in accepted'
                           /\ Gone(q) => Gone(q)'
    PROVE  IInvWidget'
<1>1. UNCHANGED <<starts, creating, intervals, pollHandle, settled, lastScanned, screen,
                  results, poll, past>>
  BY DEF widget, network
<1>2. TypesWidget'
  BY <1>1 DEF IInvWidget, TypesWidget, RunTypes, DisplayTypes, DataTypes
<1>3. Counted'
  BY <1>1 DEF IInvWidget, Counted
<1>4. Known' /\ PollTrue'
  <2>1. \A p \in 1 .. MaxPolls : poll[p].at # "free" => poll[p].run \in Runs
    BY DEF IInvWidget, TypesWidget, RunTypes, DisplayTypes, DataTypes, Known, Runs
  <2>2. \A q \in intervals : q \in Runs
    BY DEF IInvWidget, TypesWidget, RunTypes, DisplayTypes, DataTypes, Runs
  <2>3. Known'
    BY <1>1, <2>1, <2>2 DEF IInvWidget, Known
  <2>4. PollTrue'
    <3>. SUFFICES ASSUME NEW p \in 1 .. MaxPolls, poll[p].at \in {"completed", "failed"}
                  PROVE  (/\ poll[p].at = "completed" => poll[p].run \in accepted
                          /\ poll[p].at = "failed" => Gone(poll[p].run))'
      BY <1>1 DEF PollTrue
    <3>1. poll[p].run \in Runs
      BY <2>1
    <3>. QED BY <1>1, <3>1 DEF IInvWidget, PollTrue, Gone
  <2>. QED BY <2>3, <2>4
<1>5. ResultTrue'
  <2>1. \A i \in 1 .. Len(results) : results[i].of \in Runs
    <3>1. results \in Seq(Results)
      BY DEF IInvWidget, TypesWidget, DataTypes
    <3>2. \A i \in 1 .. Len(results) : results[i] \in Results
      BY <3>1
    <3>. QED BY <3>2 DEF Results
  <2>. QED BY <1>1, <2>1 DEF IInvWidget, ResultTrue, Gone
<1>. QED BY <1>2, <1>3, <1>4, <1>5 DEF IInvWidget

LEMMA PhoneKeepsIInv ==
    ASSUME IInvWidget, NEW r \in Runs,
           \/ RelayerExpires(r) \/ OpenLink(r) \/ ProveAndSubmit(r)
           \/ ReportCompleted(r) \/ ReportFailed(r)
    PROVE  IInvWidget'
<1>1. UNCHANGED <<widget, network>>
  BY DEF RelayerExpires, OpenLink, ProveAndSubmit, ReportCompleted, ReportFailed, Goes
<1>2. sessionStatus' \in [Runs -> Statuses] /\ phone' \in [Runs -> Phones]
  BY DEF RelayerExpires, OpenLink, ProveAndSubmit, ReportCompleted, ReportFailed, Goes, End,
     SubmitRefused, ReportRefused, IInvWidget, TypesWidget, RunTypes, DisplayTypes, DataTypes,
     Statuses, Phones, Live, Ended
<1>3. accepted' \subseteq Runs /\ lost' \subseteq Runs
  BY DEF RelayerExpires, OpenLink, ProveAndSubmit, ReportCompleted, ReportFailed, Goes,
     LoseAnswer, IInvWidget, TypesWidget, RunTypes, DisplayTypes, DataTypes
<1>4. \A q \in Runs : /\ sessionStatus[q] # "none" => sessionStatus'[q] # "none"
                      /\ q # r => /\ sessionStatus'[q] = sessionStatus[q] /\ phone'[q] = phone[q]
                                  /\ q \in accepted' <=> q \in accepted
                                  /\ q \in lost' <=> q \in lost
                      /\ q \in accepted => q \in accepted'
                      /\ q \in lost => q \in lost'
  BY DEF RelayerExpires, OpenLink, ProveAndSubmit, ReportCompleted, ReportFailed, Goes, End,
     LoseAnswer, IInvWidget, TypesWidget, RunTypes, DisplayTypes, DataTypes, Live
<1>5. Gone(r) => Gone(r)'
  BY DEF RelayerExpires, OpenLink, ProveAndSubmit, ReportCompleted, ReportFailed, Goes, Gone,
     IInvWidget, TypesWidget, RunTypes, DisplayTypes, DataTypes
<1>6. /\ sessionStatus'[r] = "completed" => r \in accepted'
      /\ sessionStatus'[r] = "failed" => Gone(r)'
      /\ phone'[r] \in {"away", "proving"} => r \notin accepted'
      /\ phone'[r] = "reporting" => r \in accepted'
      /\ phone'[r] = "failing" /\ r \in accepted' => r \in lost'
  <2>1. CASE RelayerExpires(r)
    BY <2>1 DEF RelayerExpires, End, Live, IInvWidget, TypesWidget, RunTypes, DisplayTypes,
       DataTypes, SessionTrue, Gone
  <2>2. CASE OpenLink(r)
    BY <2>2 DEF OpenLink, Goes, Live, IInvWidget, TypesWidget, RunTypes, DisplayTypes, DataTypes,
       SessionTrue, Gone
  <2>3. CASE ProveAndSubmit(r)
    BY <2>3 DEF ProveAndSubmit, Goes, SubmitRefused, LoseAnswer, IInvWidget, TypesWidget,
       RunTypes, DisplayTypes, DataTypes, SessionTrue, Gone
  <2>4. CASE ReportCompleted(r)
    BY <2>4 DEF ReportCompleted, Goes, End, Live, ReportRefused, LoseAnswer, IInvWidget,
       TypesWidget, DataTypes, SessionTrue, Gone
  <2>5. CASE ReportFailed(r)
    BY <2>5 DEF ReportFailed, Goes, End, Live, IInvWidget, TypesWidget, RunTypes, DisplayTypes,
       DataTypes, SessionTrue, Gone
  <2>. QED BY <2>1, <2>2, <2>3, <2>4, <2>5
<1>7. SessionTrue'
  BY <1>4, <1>6 DEF SessionTrue, Gone, IInvWidget
<1>8. \A q \in Runs : Gone(q) => Gone(q)'
  BY <1>4, <1>5 DEF Gone
<1>. QED BY <1>1, <1>2, <1>3, <1>4, <1>7, <1>8, RemoteKeepsIInv

(* A result that is true and to come.                                      *)
LEMMA SettleKeeps ==
    ASSUME IInvWidget, NEW r \in Runs, NEW verified \in BOOLEAN, NEW reason \in Ended,
           starts > 0, Settle(r, verified, reason), verified => r \in accepted,
           reason = "failed" => Gone(r), UNCHANGED <<starts, remote>>
    PROVE  /\ results' \in Seq(Results) /\ settled' \in BOOLEAN
           /\ intervals' \subseteq intervals /\ pollHandle' \in {0, pollHandle}
           /\ Counted' /\ ResultTrue'
<1>1. UNCHANGED <<starts, sessionStatus, phone, accepted, lost>>
  BY DEF remote
<1>2. CASE settled
  BY <1>1, <1>2 DEF Settle, IInvWidget, TypesWidget, RunTypes, DisplayTypes, DataTypes, Counted,
     ResultTrue, Gone
<1>3. CASE ~settled
  <2>. DEFINE told == [of |-> r, verified |-> verified, reason |-> reason]
  <2>1. /\ settled' = TRUE /\ intervals' = intervals \ {pollHandle} /\ pollHandle' = 0
        /\ results' = Append(results, told)
    BY <1>3 DEF Settle, ClearInterval
  <2>2. told \in Results /\ told.of = r /\ told.reason = reason /\ told.verified = verified
    BY DEF Results
  <2>. HIDE DEF told
  <2>3. /\ results' \in Seq(Results) /\ Len(results') = Len(results) + 1
        /\ Len(results) \in Nat
        /\ \A i \in 1 .. Len(results) : results'[i] = results[i]
        /\ results'[Len(results) + 1] = told
    BY <2>1, <2>2 DEF IInvWidget, TypesWidget, RunTypes, DisplayTypes, DataTypes
  <2>4. Counted'
    BY <1>1, <1>3, <2>1, <2>3 DEF IInvWidget, TypesWidget, RunTypes, DisplayTypes, DataTypes,
       Counted
  <2>5. ResultTrue'
    <3>. SUFFICES ASSUME NEW i \in 1 .. Len(results')
                  PROVE  (/\ results[i].verified => results[i].of \in accepted
                          /\ results[i].reason = "failed" => Gone(results[i].of))'
      BY DEF ResultTrue
    <3>1. CASE i = Len(results) + 1
      BY <1>1, <2>2, <2>3, <3>1 DEF Gone
    <3>2. CASE i # Len(results) + 1
      <4>1. i \in 1 .. Len(results)
        BY <2>3, <3>2
      <4>. QED BY <1>1, <2>3, <4>1 DEF IInvWidget, ResultTrue, Gone
    <3>. QED BY <3>1, <3>2
  <2>. QED BY <2>1, <2>3, <2>4, <2>5
<1>. QED BY <1>2, <1>3 DEF IInvWidget, TypesWidget, RunTypes, DisplayTypes, DataTypes

LEMMA TickKeepsIInv ==
    ASSUME IInvWidget, NEW r \in Runs, Tick(r)
    PROVE  IInvWidget'
<1>1. /\ r \in intervals /\ r \in 1 .. starts /\ starts > 0
      /\ UNCHANGED <<starts, creating, lastScanned, past, remote>>
      /\ UNCHANGED <<sessionStatus, phone, accepted, lost>>
  BY DEF Tick, remote, IInvWidget, TypesWidget, RunTypes, DisplayTypes, DataTypes
<1>2. CASE r \in past
  <2>1. Settle(r, FALSE, "expired") /\ screen' = "expired" /\ poll' = poll
    BY <1>2 DEF Tick, DeadlineGuard
  <2>2. /\ results' \in Seq(Results) /\ settled' \in BOOLEAN
        /\ intervals' \subseteq intervals /\ pollHandle' \in {0, pollHandle}
        /\ Counted' /\ ResultTrue'
    BY <1>1, <2>1, SettleKeeps DEF Ended
  <2>. QED
    BY <1>1, <2>1, <2>2 DEF IInvWidget, TypesWidget, RunTypes, DisplayTypes, DataTypes, Known,
       SessionTrue, PollTrue, Gone, Ended
<1>3. CASE r \notin past
  <2>1. PICK p \in 1 .. MaxPolls : poll' = [poll EXCEPT ![p] = [run |-> r, at |-> "asked"]]
    BY <1>3 DEF Tick, DeadlineGuard
  <2>2. UNCHANGED <<settled, intervals, pollHandle, results, screen>>
    BY <1>3 DEF Tick, DeadlineGuard
  <2>3. [run |-> r, at |-> "asked"] \in Polls
    BY DEF Polls
  <2>4. TypesWidget'
    BY <1>1, <2>1, <2>2, <2>3 DEF IInvWidget, TypesWidget, RunTypes, DisplayTypes, DataTypes
  <2>5. \A q \in 1 .. MaxPolls : poll'[q] = IF q = p THEN [run |-> r, at |-> "asked"] ELSE poll[q]
    BY <2>1 DEF IInvWidget, TypesWidget, RunTypes, DisplayTypes, DataTypes
  <2>6. Known' /\ PollTrue'
    BY <1>1, <2>2, <2>5 DEF IInvWidget, Known, PollTrue, Gone
  <2>. QED
    BY <1>1, <2>2, <2>4, <2>6 DEF IInvWidget, Counted, SessionTrue, ResultTrue, Gone
<1>. QED BY <1>2, <1>3

LEMMA PollKeepsIInv ==
    ASSUME IInvWidget, NEW p \in 1 .. MaxPolls,
           PollServed(p) \/ PollDropped(p) \/ PollAnswered(p)
    PROVE  IInvWidget'
<1>. DEFINE r == poll[p].run
<1>1. UNCHANGED <<starts, creating, past, sessionStatus, phone, accepted, lost>>
  BY DEF PollServed, PollDropped, PollAnswered, widget, remote
<1>2. CASE PollServed(p)
  <2>1. /\ poll' = [poll EXCEPT ![p].at = sessionStatus[r]] /\ poll[p].at = "asked"
        /\ UNCHANGED <<intervals, pollHandle, settled, lastScanned, screen, results>>
    BY <1>2 DEF PollServed, widget
  <2>2. /\ r \in 1 .. starts /\ r \in Runs /\ sessionStatus[r] # "none"
        /\ sessionStatus[r] \in Statuses
    BY <2>1 DEF IInvWidget, TypesWidget, RunTypes, DisplayTypes, DataTypes, Known, Runs
  <2>3. sessionStatus[r] \in Live \cup Ended
    BY <2>2 DEF Statuses
  <2>4. /\ poll' \in [1 .. MaxPolls -> Polls]
        /\ poll'[p].run = r /\ poll'[p].at = sessionStatus[r]
        /\ \A q \in 1 .. MaxPolls : q # p => poll'[q] = poll[q]
    BY <2>1, <2>2, <2>3 DEF IInvWidget, TypesWidget, RunTypes, DisplayTypes, DataTypes, Polls
  <2>5. TypesWidget'
    BY <1>1, <2>1, <2>4 DEF IInvWidget, TypesWidget, RunTypes, DisplayTypes, DataTypes
  <2>6. Known' /\ PollTrue'
    BY <1>1, <2>1, <2>2, <2>4 DEF IInvWidget, Known, PollTrue, SessionTrue, Gone
  <2>. QED
    BY <1>1, <2>1, <2>5, <2>6 DEF IInvWidget, Counted, SessionTrue, ResultTrue, Gone
<1>3. ASSUME poll' = [poll EXCEPT ![p] = Free], intervals' \subseteq intervals
      PROVE  poll' \in [1 .. MaxPolls -> Polls] /\ Known' /\ PollTrue'
  <2>1. Free \in Polls /\ Free.at = "free"
    BY DEF Free, Polls
  <2>2. poll' \in [1 .. MaxPolls -> Polls] /\ poll'[p] = Free
        /\ \A q \in 1 .. MaxPolls : q # p => poll'[q] = poll[q]
    BY <1>3, <2>1 DEF IInvWidget, TypesWidget, RunTypes, DisplayTypes, DataTypes
  <2>. QED BY <1>1, <1>3, <2>1, <2>2 DEF IInvWidget, Known, PollTrue, Gone
<1>4. CASE PollDropped(p)
  <2>1. /\ poll' = [poll EXCEPT ![p] = Free]
        /\ UNCHANGED <<intervals, pollHandle, settled, lastScanned, screen, results>>
    BY <1>4 DEF PollDropped, widget
  <2>2. poll' \in [1 .. MaxPolls -> Polls] /\ Known' /\ PollTrue'
    BY <1>3, <2>1
  <2>. QED
    BY <1>1, <2>1, <2>2 DEF IInvWidget, TypesWidget, RunTypes, DisplayTypes, DataTypes, Counted,
       SessionTrue, ResultTrue, Gone
<1>5. CASE PollAnswered(p)
  <2>. DEFINE status == poll[p].at
  <2>1. /\ status \in Live \cup Ended /\ poll' = [poll EXCEPT ![p] = Free]
        /\ lastScanned' \in BOOLEAN /\ screen' = ScreenAfter(status)
        /\ IF status \in Ended THEN Settle(r, status = "completed", status)
           ELSE UNCHANGED <<settled, intervals, pollHandle, results>>
    BY <1>5 DEF PollAnswered
  <2>2. r \in 1 .. starts /\ r \in Runs /\ starts > 0
    BY <2>1 DEF IInvWidget, TypesWidget, RunTypes, DisplayTypes, DataTypes, Known, Runs, Live,
       Ended
  <2>3. screen' \in {"none", "loading", "error"} \cup Live \cup Ended
    BY <2>1 DEF ScreenAfter, IInvWidget, TypesWidget, RunTypes, DisplayTypes, DataTypes, Live,
       Ended
  <2>4. /\ results' \in Seq(Results) /\ settled' \in BOOLEAN
        /\ intervals' \subseteq intervals /\ pollHandle' \in {0, pollHandle}
        /\ Counted' /\ ResultTrue'
    <3>1. CASE status \in Ended
      <4>1. /\ (status = "completed") \in BOOLEAN /\ UNCHANGED <<starts, remote>>
            /\ Settle(r, status = "completed", status)
            /\ status = "completed" => r \in accepted
            /\ status = "failed" => Gone(r)
        BY <1>1, <2>1, <3>1 DEF remote, IInvWidget, PollTrue
      <4>. HIDE DEF r, status
      <4>. QED BY <2>2, <3>1, <4>1, SettleKeeps
    <3>2. CASE status \notin Ended
      BY <1>1, <2>1, <3>2 DEF IInvWidget, TypesWidget, RunTypes, DisplayTypes, DataTypes,
         Counted, ResultTrue, Gone
    <3>. QED BY <3>1, <3>2
  <2>5. poll' \in [1 .. MaxPolls -> Polls] /\ Known' /\ PollTrue'
    BY <1>3, <2>1, <2>4
  <2>. QED
    BY <1>1, <2>1, <2>3, <2>4, <2>5 DEF IInvWidget, TypesWidget, RunTypes, DisplayTypes,
       DataTypes, SessionTrue, Gone
<1>. QED BY <1>2, <1>4, <1>5

(* The inductive invariant holds.                                          *)
THEOREM WidgetInvariant == SpecWidget => []IInvWidget
<1>1. IInvWidget /\ UNCHANGED varsWidget => IInvWidget'
  BY DEF varsWidget, IInvWidget, TypesWidget, RunTypes, DisplayTypes, DataTypes, Counted, Known,
     SessionTrue, PollTrue, ResultTrue, Gone
<1>2. IInvWidget /\ [NextWidget]_varsWidget => IInvWidget'
  BY <1>1, ScreenKeepsIInv, CreatedKeepsIInv, PhoneKeepsIInv, TickKeepsIInv, PollKeepsIInv
  DEF NextWidget, Ticks, Clock
<1>. QED BY <1>2, InitIInvWidget, PTL DEF SpecWidget

(* onResult is called once for a start(), and says verified only of a      *)
(* session whose proof the relayer took.                                   *)
THEOREM ResultsAreTrue == SpecWidget => []OneTrueResult
<1>1. IInvWidget => OneTrueResult
  BY DEF IInvWidget, Counted, ResultTrue, OneTrueResult
<1>. QED BY <1>1, WidgetInvariant, PTL

(* Of a proof that was taken "failed" is told only if the phone lost an    *)
(* answer.                                                                 *)
THEOREM FailuresAreLosses == SpecWidget => []FailedThoughAccepted
<1>1. IInvWidget => FailedThoughAccepted
  BY DEF IInvWidget, ResultTrue, FailedThoughAccepted, Gone
<1>. QED BY <1>1, WidgetInvariant, PTL

(* The types.                                                              *)
THEOREM WidgetTypes == SpecWidget => []TypeOKWidget
<1>1. IInvWidget => TypeOKWidget
  BY DEF IInvWidget, TypesWidget, RunTypes, DisplayTypes, DataTypes, TypeOKWidget, Runs, Polls,
     Statuses
<1>. QED BY <1>1, WidgetInvariant, PTL

-----------------------------------------------------------------------------
(* The chip.                                                               *)
SpecChip == InitChip /\ [][NextChip]_varsChip

ReadRecords == [at : {"idle", "select", "header", "chunks", "stopped", "done"}, want : Nat,
                got : Seq(Files)]
Outcomes == {"pending", "read", "rejected", "bac_required", "read_failed", "tag_lost"}

TypesChip == /\ currentFile \in Files \cup {"none"} /\ mixed \subseteq Reads
             /\ ef \in [Reads -> ReadRecords] /\ outcome \in Outcomes

(* All that a read has is of one file.                                     *)
AllOf(s, f) == \A i \in 1 .. Len(s) : s[i] = f

(* A read that nothing came between has its file selected since, and only  *)
(* chunks of it.                                                           *)
Undisturbed(r) ==
    /\ ef[r].at \in {"select", "header"} => ef[r].got = <<>>
    /\ r \notin mixed => /\ ef[r].at \in {"header", "chunks"} => currentFile = r[2]
                         /\ ef[r].at = "chunks" => /\ ef[r].want = Chunks[r[2]]
                                                   /\ AllOf(ef[r].got, r[2])
                         /\ ef[r].at = "done" => /\ Len(ef[r].got) = Chunks[r[2]]
                                                 /\ AllOf(ef[r].got, r[2])

IInvChip == TypesChip /\ \A r \in Reads : Undisturbed(r)

LEMMA InitIInvChip == InitChip => IInvChip
<1>. SUFFICES ASSUME InitChip PROVE IInvChip
  OBVIOUS
<1>1. Idle \in ReadRecords /\ Idle.at = "idle"
  BY DEF Idle, ReadRecords
<1>2. TypesChip
  BY <1>1 DEF InitChip, TypesChip, Outcomes
<1>3. \A r \in Reads : Undisturbed(r)
  BY <1>1 DEF InitChip, Undisturbed
<1>. QED BY <1>2, <1>3 DEF IInvChip

(* One chunk more.                                                         *)
LEMMA OneChunkMore ==
    ASSUME NEW s \in Seq(Files), NEW f \in Files
    PROVE  /\ Append(s, f) \in Seq(Files) /\ Len(Append(s, f)) = Len(s) + 1 /\ Len(s) \in Nat
           /\ AllOf(s, f) => AllOf(Append(s, f), f)
BY DEF AllOf

(* No chunk yet: nothing of another file.                                  *)
LEMMA AllOfNone == ASSUME NEW f PROVE AllOf(<<>>, f)
BY DEF AllOf

(* As many chunks as the file has, all of it: the file.                    *)
LEMMA AllOfIsWhole ==
    ASSUME NEW f \in Files, NEW s \in Seq(Files), Len(s) = Chunks[f], AllOf(s, f)
    PROVE  s = WholeFile(f)
<1>1. Len(s) \in Nat /\ DOMAIN s = 1 .. Len(s) /\ s = [i \in 1 .. Len(s) |-> s[i]]
  OBVIOUS
<1>. QED BY <1>1 DEF AllOf, WholeFile

LEMMA TapKeepsIInvChip == ASSUME IInvChip, NEW t \in Taps, Tap(t) PROVE IInvChip'
<1>1. /\ ef' = [r \in Reads |-> IF r[1] = t THEN [Idle EXCEPT !.at = "select"] ELSE ef[r]]
      /\ currentFile' = "none" /\ outcome' = outcome
      /\ mixed' = mixed \cup {r \in Reads : ef[r].at \in {"header", "chunks"}}
  BY DEF Tap
<1>2. [Idle EXCEPT !.at = "select"] \in ReadRecords
  <2>1. Idle \in ReadRecords
    BY DEF Idle, ReadRecords
  <2>. QED BY <2>1 DEF ReadRecords
<1>3. TypesChip'
  <2>1. ef' \in [Reads -> ReadRecords]
    BY <1>1, <1>2 DEF IInvChip, TypesChip
  <2>. QED BY <1>1, <2>1 DEF IInvChip, TypesChip
<1>4. ASSUME NEW r \in Reads PROVE Undisturbed(r)'
  <2>1. CASE r[1] = t
    BY <1>1, <2>1 DEF Undisturbed, Idle
  <2>2. CASE r[1] # t
    <3>1. ef'[r] = ef[r]
      BY <1>1, <2>2
    <3>2. r \notin mixed' => r \notin mixed /\ ef[r].at \notin {"header", "chunks"}
      BY <1>1
    <3>. QED BY <3>1, <3>2 DEF IInvChip, Undisturbed
  <2>. QED BY <2>1, <2>2
<1>. QED BY <1>3, <1>4 DEF IInvChip

(* A step of one readEF that selects nothing.                              *)
LEMMA ReadMoves ==
    ASSUME IInvChip, NEW r \in Reads, NEW e \in ReadRecords, ef' = [ef EXCEPT ![r] = e],
           UNCHANGED <<currentFile, mixed>>, outcome' \in Outcomes,
           Undisturbed(r)'
    PROVE  IInvChip'
<1>1. TypesChip'
  BY DEF IInvChip, TypesChip
<1>2. \A q \in Reads \ {r} : ef'[q] = ef[q]
  BY DEF IInvChip, TypesChip
<1>3. \A q \in Reads \ {r} : Undisturbed(q)'
  BY <1>2 DEF IInvChip, Undisturbed
<1>. QED BY <1>1, <1>3 DEF IInvChip

LEMMA StopKeepsIInvChip ==
    ASSUME IInvChip, NEW r \in Reads, NEW reason \in Outcomes, Stop(r, reason),
           UNCHANGED <<currentFile, mixed>>
    PROVE  IInvChip'
<1>1. ef[r] \in ReadRecords
  BY DEF IInvChip, TypesChip
<1>2. [ef[r] EXCEPT !.at = "stopped"] \in ReadRecords
  BY <1>1 DEF ReadRecords
<1>3. ef' = [ef EXCEPT ![r] = [ef[r] EXCEPT !.at = "stopped"]] /\ outcome' \in Outcomes
  BY <1>1 DEF Stop, SettleOnce, IInvChip, TypesChip, ReadRecords
<1>4. ef'[r].at = "stopped"
  BY <1>1, <1>3 DEF IInvChip, TypesChip, ReadRecords
<1>5. Undisturbed(r)'
  BY <1>4 DEF Undisturbed
<1>. QED BY <1>2, <1>3, <1>5, ReadMoves

LEMMA SelectKeepsIInvChip == ASSUME IInvChip, NEW r \in Reads, SelectFile(r) PROVE IInvChip'
<1>1. CASE \E reason \in {"bac_required", "read_failed"} :
              Stop(r, reason) /\ UNCHANGED <<currentFile, mixed>>
  BY <1>1, StopKeepsIInvChip DEF Outcomes
<1>2. CASE /\ currentFile' = r[2] /\ ef' = [ef EXCEPT ![r].at = "header"]
           /\ mixed' = mixed \cup {q \in Reads \ {r} : ef[q].at \in {"header", "chunks"}}
           /\ UNCHANGED outcome
  <2>1. ef[r] \in ReadRecords /\ ef[r].got = <<>> /\ r[2] \in Files
    BY DEF SelectFile, IInvChip, TypesChip, Undisturbed, Reads
  <2>2. /\ ef' \in [Reads -> ReadRecords] /\ ef'[r].at = "header" /\ ef'[r].got = <<>>
        /\ \A q \in Reads \ {r} : ef'[q] = ef[q]
    <3>1. [ef[r] EXCEPT !.at = "header"] \in ReadRecords
      BY <2>1 DEF ReadRecords
    <3>2. ef' = [ef EXCEPT ![r] = [ef[r] EXCEPT !.at = "header"]]
      BY <1>2, <2>1 DEF IInvChip, TypesChip, ReadRecords
    <3>3. ef'[r] = [ef[r] EXCEPT !.at = "header"]
      BY <3>2 DEF IInvChip, TypesChip
    <3>. QED BY <2>1, <3>1, <3>2, <3>3 DEF IInvChip, TypesChip, ReadRecords
  <2>3. TypesChip'
    BY <1>2, <2>1, <2>2 DEF IInvChip, TypesChip
  <2>4. Undisturbed(r)'
    BY <1>2, <2>2 DEF Undisturbed
  <2>5. ASSUME NEW q \in Reads, q # r PROVE Undisturbed(q)'
    <3>1. ef'[q] = ef[q] /\ (q \notin mixed' => q \notin mixed /\ ef[q].at \notin {"header", "chunks"})
      BY <1>2, <2>2, <2>5
    <3>. QED BY <3>1 DEF IInvChip, Undisturbed
  <2>. QED BY <2>3, <2>4, <2>5 DEF IInvChip
<1>. QED BY <1>1, <1>2 DEF SelectFile

LEMMA HeaderKeepsIInvChip == ASSUME IInvChip, NEW r \in Reads, ReadHeader(r) PROVE IInvChip'
<1>1. CASE Stop(r, "read_failed") /\ UNCHANGED <<currentFile, mixed>>
  BY <1>1, StopKeepsIInvChip DEF Outcomes
<1>2. CASE /\ currentFile # "none" /\ UNCHANGED <<currentFile, mixed, outcome>>
           /\ ef' = [ef EXCEPT ![r].at = "chunks", ![r].want = Chunks[currentFile]]
  <2>1. ef[r] \in ReadRecords /\ ef[r].got = <<>> /\ ef[r].at = "header" /\ currentFile \in Files
    BY <1>2 DEF ReadHeader, IInvChip, TypesChip, Undisturbed
  <2>2. Chunks[currentFile] \in Nat
    BY <2>1, ChipAssumption DEF ChipAssumption
  <2>. DEFINE e == [ef[r] EXCEPT !.at = "chunks", !.want = Chunks[currentFile]]
  <2>3. e \in ReadRecords
    BY <2>1, <2>2 DEF ReadRecords
  <2>4. ef' = [ef EXCEPT ![r] = e]
    BY <1>2, <2>1 DEF IInvChip, TypesChip, ReadRecords
  <2>5. ef'[r] = e /\ e.at = "chunks" /\ e.want = Chunks[currentFile] /\ e.got = <<>>
    BY <2>1, <2>4 DEF IInvChip, TypesChip, ReadRecords
  <2>6. r \notin mixed => currentFile = r[2]
    BY <2>1 DEF IInvChip, Undisturbed
  <2>. HIDE DEF e
  <2>7. Undisturbed(r)'
    BY <1>2, <2>5, <2>6, AllOfNone DEF Undisturbed
  <2>. QED BY <1>2, <2>3, <2>4, <2>7, ReadMoves DEF IInvChip, TypesChip
<1>. QED BY <1>1, <1>2 DEF ReadHeader

LEMMA ChunkKeepsIInvChip == ASSUME IInvChip, NEW r \in Reads, ReadChunk(r) PROVE IInvChip'
<1>1. CASE Stop(r, "read_failed") /\ UNCHANGED <<currentFile, mixed>>
  BY <1>1, StopKeepsIInvChip DEF Outcomes
<1>2. CASE /\ currentFile # "none" /\ ~(Len(ef[r].got) >= Chunks[currentFile])
           /\ UNCHANGED <<currentFile, mixed>>
           /\ ef' = [ef EXCEPT ![r] = [at |-> IF LastChunk(@) THEN "done" ELSE "chunks",
                                        want |-> @.want, got |-> Append(@.got, currentFile)]]
           /\ outcome' = IF BothDone(r[1]) THEN SettleOnce("read") ELSE outcome
  <2>1. ef[r] \in ReadRecords /\ ef[r].at = "chunks" /\ currentFile \in Files
    BY <1>2 DEF ReadChunk, IInvChip, TypesChip
  <2>2. Chunks[currentFile] \in Nat /\ ef[r].got \in Seq(Files) /\ ef[r].want \in Nat
    BY <2>1, ChipAssumption DEF ChipAssumption, ReadRecords
  <2>. DEFINE got == Append(ef[r].got, currentFile)
              e == [at |-> IF LastChunk(ef[r]) THEN "done" ELSE "chunks",
                    want |-> ef[r].want, got |-> got]
  <2>3. /\ got \in Seq(Files) /\ Len(got) = Len(ef[r].got) + 1 /\ Len(ef[r].got) \in Nat
        /\ AllOf(ef[r].got, currentFile) => AllOf(got, currentFile)
    BY <2>1, <2>2, OneChunkMore
  <2>4. ef' = [ef EXCEPT ![r] = e]
    BY <1>2
  <2>5. e.want = ef[r].want /\ e.got = got /\ e.at \in {"done", "chunks"}
        /\ (e.at = "done" => Len(ef[r].got) + 1 >= ef[r].want)
    BY DEF LastChunk
  <2>. HIDE DEF got
  <2>6. e \in ReadRecords
    BY <2>2, <2>3 DEF ReadRecords
  <2>7. ef'[r] = e
    BY <2>4 DEF IInvChip, TypesChip
  <2>. HIDE DEF e
  <2>8. r \notin mixed => /\ currentFile = r[2] /\ ef[r].want = Chunks[r[2]]
                          /\ AllOf(ef[r].got, r[2])
    BY <2>1 DEF IInvChip, Undisturbed
  <2>9. r \notin mixed /\ e.at = "done" => Len(got) = Chunks[r[2]]
    BY <1>2, <2>2, <2>3, <2>5, <2>8
  <2>10. Undisturbed(r)'
    BY <1>2, <2>3, <2>5, <2>7, <2>8, <2>9 DEF Undisturbed
  <2>11. outcome' \in Outcomes
    BY <1>2 DEF IInvChip, TypesChip, SettleOnce, Outcomes
  <2>. QED BY <1>2, <2>4, <2>6, <2>10, <2>11, ReadMoves
<1>. QED BY <1>1, <1>2 DEF ReadChunk

LEMMA IInvChipInductive == IInvChip /\ [NextChip]_varsChip => IInvChip'
<1>. SUFFICES ASSUME IInvChip, [NextChip]_varsChip PROVE IInvChip'
  OBVIOUS
<1>1. CASE UNCHANGED varsChip
  BY <1>1 DEF varsChip, IInvChip, TypesChip, Undisturbed
<1>2. CASE Reject
  BY <1>2 DEF Reject, SettleOnce, Outcomes, IInvChip, TypesChip, Undisturbed
<1>3. ASSUME NEW r \in Reads, Disconnect(r) PROVE IInvChip'
  BY <1>3, StopKeepsIInvChip DEF Disconnect, TagLost, Outcomes
<1>. QED
  BY <1>1, <1>2, <1>3, TapKeepsIInvChip, SelectKeepsIInvChip, HeaderKeepsIInvChip,
     ChunkKeepsIInvChip DEF NextChip, Exchange

(* The chip reader's invariant, for any taps and any lengths of the files. *)
THEOREM ChipInvariant == SpecChip => []IInvChip
BY InitIInvChip, IInvChipInductive, PTL DEF SpecChip

(* The chip reader's state keeps its types.                                *)
THEOREM ChipTypeCorrect == SpecChip => []TypeOKChip
<1>1. IInvChip => TypeOKChip
  <2>. SUFFICES ASSUME IInvChip PROVE TypeOKChip
    OBVIOUS
  <2>1. ASSUME NEW r \in Reads
        PROVE  /\ ef[r].at \in {"idle", "select", "header", "chunks", "stopped", "done"}
               /\ ef[r].want \in Nat
               /\ \A i \in 1 .. Len(ef[r].got) : ef[r].got[i] \in Files
    <3>1. ef[r] \in ReadRecords
      BY DEF IInvChip, TypesChip
    <3>2. ef[r].got \in Seq(Files)
      BY <3>1 DEF ReadRecords
    <3>3. \A i \in 1 .. Len(ef[r].got) : ef[r].got[i] \in Files
      BY <3>2
    <3>. QED BY <3>1, <3>3 DEF ReadRecords
  <2>. QED BY <2>1 DEF IInvChip, TypesChip, Outcomes, TypeOKChip
<1>. QED BY <1>1, ChipInvariant, PTL

(* A read that no other one came between returned its file, whatever the   *)
(* lengths.                                                                *)
THEOREM ChipReadIsWhole == SpecChip => []UndisturbedReadIsWhole
<1>1. IInvChip => UndisturbedReadIsWhole
  <2>. SUFFICES ASSUME IInvChip, NEW r \in Reads, ef[r].at = "done", r \notin mixed
                PROVE  ef[r].got = WholeFile(r[2])
    BY DEF UndisturbedReadIsWhole
  <2>1. ef[r].got \in Seq(Files) /\ r[2] \in Files
    BY DEF IInvChip, TypesChip, ReadRecords, Reads
  <2>2. Len(ef[r].got) = Chunks[r[2]] /\ AllOf(ef[r].got, r[2])
    BY DEF IInvChip, Undisturbed
  <2>. QED BY <2>1, <2>2, AllOfIsWhole
<1>. QED BY <1>1, ChipInvariant, PTL

-----------------------------------------------------------------------------
(* The scanner app.                                                        *)
SpecScanner == InitScanner /\ [][NextScanner]_varsScanner

ScanRecords == [at : InFlight \cup {"not_started", "over"}, of : Links \cup {"none"},
                mount : Nat, key : {"none", "malformed", "right", "wrong"}]

StatusValues == {"checking_nfc", "nfc_unavailable", "awaiting_tap", "submitting",
                 "success", "error"}

TypesApp == /\ session \in Links \cup {"none"} /\ linkError \in BOOLEAN
            /\ initialURL \in Links \cup {"none", "invalid", "handled"}
            /\ route \in {"NoSession", "MrzEntry", "NfcScan", "Result"}
            /\ route = "NoSession" <=> session = "none"
            /\ form \in {"malformed", "right", "wrong"}
            /\ mount \in 0 .. MaxMounts /\ changes \in Nat /\ answered \subseteq Links
            /\ scanStatus \in StatusValues

TypesScans == /\ scan \in [ScanIds -> ScanRecords]
              /\ \A n \in ScanIds : scan[n] # NotStarted => scan[n].of \in Links
              /\ \A n \in ScanIds : scan[n].mount <= mount

(* The scans of the screen on show are of the app's session until a link   *)
(* replaces that.                                                          *)
ScansFollow == route = "NfcScan" /\ changes = 0 =>
                 \A n \in ScanIds : scan[n] # NotStarted /\ scan[n].mount = mount
                                      => scan[n].of = session

(* One scan for the screen and one for each link that replaced the session *)
(* under it; one of them is over when the screen offers another.           *)
ScansBounded == route = "NfcScan" =>
                  /\ Cardinality(ScansOf(mount)) <= 1 + changes
                  /\ RetryOffered => Cardinality(ScansOf(mount)) <= changes

IInvScanner == TypesApp /\ TypesScans /\ ScansFollow /\ ScansBounded /\ ResultWasAnswered

USE ScannerAssumption DEF ScannerAssumption

(* Scans can be counted, MaxScans bounding their number.                   *)
LEMMA ScansFinite ==
    ASSUME NEW m
    PROVE  IsFiniteSet(ScansOf(m)) /\ Cardinality(ScansOf(m)) \in Nat
<1>1. IsFiniteSet(ScanIds)
  BY FS_Interval DEF ScanIds
<1>2. ScansOf(m) \subseteq ScanIds
  BY DEF ScansOf
<1>. QED BY <1>1, <1>2, FS_Subset, FS_CardinalityType

LEMMA ScansFiniteNext == ASSUME NEW m PROVE Cardinality(ScansOf(m))' \in Nat
<1>1. IsFiniteSet(ScanIds)
  BY FS_Interval DEF ScanIds
<1>2. ScansOf(m)' \subseteq ScanIds
  BY DEF ScansOf
<1>. QED BY <1>1, <1>2, FS_Subset, FS_CardinalityType

LEMMA InitIInvScanner == InitScanner => IInvScanner
<1>. SUFFICES ASSUME InitScanner PROVE IInvScanner
  OBVIOUS
<1>1. TypesApp
  <2>1. 0 \in 0 .. MaxMounts /\ 0 \in Nat
    OBVIOUS
  <2>2. linkError \in BOOLEAN
    BY DEF InitScanner
  <2>. QED BY <2>1, <2>2 DEF InitScanner, TypesApp, StatusValues
<1>2. NotStarted \in ScanRecords /\ NotStarted.mount = 0
  BY DEF NotStarted, ScanRecords
<1>3. TypesScans
  <2>1. scan \in [ScanIds -> ScanRecords] /\ \A n \in ScanIds : scan[n] = NotStarted
    BY <1>2 DEF InitScanner
  <2>2. mount = 0 /\ 0 <= 0
    BY DEF InitScanner
  <2>. QED BY <1>2, <2>1, <2>2 DEF TypesScans
<1>4. ScansFollow /\ ScansBounded /\ ResultWasAnswered
  BY DEF InitScanner, ScansFollow, ScansBounded, ResultWasAnswered
<1>. QED BY <1>1, <1>3, <1>4 DEF IInvScanner

(* What StartScan does to the scans.                                       *)
LEMMA ScanStarts ==
    ASSUME IInvScanner, NEW of \in Links, NEW key \in {"none", "malformed", "right", "wrong"},
           NEW m \in Nat, m <= mount', StartScan(of, key, m), mount <= mount', mount' \in Nat
    PROVE  /\ TypesScans' /\ scanStatus' = "checking_nfc"
           /\ Cardinality(ScansOf(m))' <= Cardinality(ScansOf(m)) + 1
           /\ \A n \in ScanIds : scan'[n] # NotStarted =>
                \/ scan'[n] = scan[n] /\ scan[n] # NotStarted
                \/ scan'[n].of = of /\ scan'[n].mount = m
<1>1. PICK n \in ScanIds :
        /\ scan[n] = NotStarted
        /\ scan' = [scan EXCEPT ![n] = [at |-> "availability", of |-> of, mount |-> m, key |-> key]]
        /\ scanStatus' = "checking_nfc"
  BY DEF StartScan
<1>. DEFINE new == [at |-> "availability", of |-> of, mount |-> m, key |-> key]
<1>2. new \in ScanRecords /\ new.of = of /\ new.mount = m /\ new.at = "availability"
  BY DEF ScanRecords, InFlight
<1>3. /\ scan' \in [ScanIds -> ScanRecords] /\ scan'[n] = new
      /\ \A k \in ScanIds \ {n} : scan'[k] = scan[k]
  BY <1>1, <1>2 DEF IInvScanner, TypesScans
<1>4. TypesScans'
  <2>1. \A k \in ScanIds : scan[k].mount \in Nat /\ scan[k].mount <= mount /\ mount \in Nat
    BY DEF IInvScanner, TypesScans, TypesApp, ScanRecords
  <2>2. \A k \in ScanIds : scan'[k].mount <= mount'
    BY <1>2, <1>3, <2>1
  <2>. QED BY <1>2, <1>3, <2>2 DEF IInvScanner, TypesScans
<1>5. Cardinality(ScansOf(m))' <= Cardinality(ScansOf(m)) + 1
  <2>1. n \notin ScansOf(m)
    BY <1>1 DEF ScansOf, NotStarted, InFlight
  <2>2. ScansOf(m)' = ScansOf(m) \cup {n}
    BY <1>2, <1>3, <2>1 DEF ScansOf, InFlight
  <2>3. Cardinality(ScansOf(m) \cup {n}) = Cardinality(ScansOf(m)) + 1
    BY <2>1, ScansFinite, FS_AddElement
  <2>4. Cardinality(ScansOf(m)) \in Nat
    BY ScansFinite
  <2>. QED BY <2>2, <2>3, <2>4
<1>. QED BY <1>1, <1>2, <1>3, <1>4, <1>5

(* What a step of one runScan does to the scans.                           *)
LEMMA ScanMoves ==
    ASSUME IInvScanner, NEW n \in ScanIds, scan[n].at \in InFlight,
           NEW to \in InFlight \cup {"over"}, scan' = [scan EXCEPT ![n].at = to], mount' = mount,
           NEW m
    PROVE  /\ TypesScans'
           /\ \A k \in ScanIds : /\ scan'[k].of = scan[k].of /\ scan'[k].mount = scan[k].mount
                                 /\ scan'[k] # NotStarted => scan[k] # NotStarted
           /\ Cardinality(ScansOf(m))' <= Cardinality(ScansOf(m))
           /\ to = "over" /\ scan[n].mount = m =>
                Cardinality(ScansOf(m))' + 1 <= Cardinality(ScansOf(m))
<1>1. scan \in [ScanIds -> ScanRecords] /\ scan[n] \in ScanRecords
  BY DEF IInvScanner, TypesScans
<1>2. [scan[n] EXCEPT !.at = to] \in ScanRecords
  BY <1>1 DEF ScanRecords
<1>3. /\ scan' \in [ScanIds -> ScanRecords] /\ \A k \in ScanIds \ {n} : scan'[k] = scan[k]
      /\ scan'[n].at = to /\ scan'[n].of = scan[n].of /\ scan'[n].mount = scan[n].mount
  <2>1. scan' = [scan EXCEPT ![n] = [scan[n] EXCEPT !.at = to]]
    BY <1>1 DEF ScanRecords
  <2>2. scan'[n] = [scan[n] EXCEPT !.at = to]
    BY <1>1, <2>1
  <2>. QED BY <1>1, <1>2, <2>1, <2>2 DEF ScanRecords
<1>4. scan[n] # NotStarted
  BY DEF NotStarted, InFlight
<1>5. TypesScans'
  BY <1>3, <1>4 DEF IInvScanner, TypesScans
<1>6. ScansOf(m)' \subseteq ScansOf(m)
  BY <1>3 DEF ScansOf
<1>7. Cardinality(ScansOf(m))' <= Cardinality(ScansOf(m))
  BY <1>6, ScansFinite, FS_Subset
<1>8. to = "over" /\ scan[n].mount = m => Cardinality(ScansOf(m))' + 1 <= Cardinality(ScansOf(m))
  <2>. SUFFICES ASSUME to = "over", scan[n].mount = m
                PROVE  Cardinality(ScansOf(m))' + 1 <= Cardinality(ScansOf(m))
    OBVIOUS
  <2>1. n \in ScansOf(m) /\ ScansOf(m)' = ScansOf(m) \ {n}
    BY <1>3 DEF ScansOf, InFlight
  <2>2. Cardinality(ScansOf(m) \ {n}) = Cardinality(ScansOf(m)) - 1
    BY <2>1, ScansFinite, FS_RemoveElement
  <2>3. Cardinality(ScansOf(m)) \in Nat
    BY ScansFinite
  <2>. QED BY <2>1, <2>2, <2>3
<1>. QED BY <1>3, <1>4, <1>5, <1>7, <1>8

LEMMA StepKeepsScans ==
    ASSUME IInvScanner, NEW n \in ScanIds, scan[n].at \in InFlight,
           NEW to \in InFlight \cup {"over"}, NEW status \in StatusValues, Step(n, to, status),
           UNCHANGED <<mount, changes, session>>, route' = "NfcScan" => route = "NfcScan",
           to = "over" \/ status \in {"awaiting_tap", "submitting"}
    PROVE  /\ TypesScans' /\ scanStatus' \in StatusValues /\ ScansFollow' /\ ScansBounded'
<1>1. PICK m \in Nat : m = mount
  BY DEF IInvScanner, TypesApp
<1>2. /\ scan' = [scan EXCEPT ![n].at = to] /\ mount' = mount
      /\ scanStatus' = IF OnScreen(n) THEN status ELSE scanStatus
  BY DEF Step
<1>3. /\ TypesScans'
      /\ \A k \in ScanIds : /\ scan'[k].of = scan[k].of /\ scan'[k].mount = scan[k].mount
                            /\ scan'[k] # NotStarted => scan[k] # NotStarted
      /\ Cardinality(ScansOf(m))' <= Cardinality(ScansOf(m))
      /\ to = "over" /\ scan[n].mount = m =>
           Cardinality(ScansOf(m))' + 1 <= Cardinality(ScansOf(m))
  BY <1>2, ScanMoves
<1>4. scanStatus' \in StatusValues
  BY <1>2 DEF IInvScanner, TypesApp
<1>5. ScansFollow'
  BY <1>3 DEF IInvScanner, ScansFollow
<1>6. ScansBounded'
  <2>. SUFFICES ASSUME route' = "NfcScan"
                PROVE  /\ Cardinality(ScansOf(m))' <= 1 + changes
                       /\ RetryOffered' => Cardinality(ScansOf(m))' <= changes
    BY <1>1 DEF ScansBounded, ScansOf
  <2>1. /\ Cardinality(ScansOf(m)) <= 1 + changes /\ changes \in Nat
        /\ RetryOffered => Cardinality(ScansOf(m)) <= changes
        /\ Cardinality(ScansOf(m)) \in Nat
    BY <1>1, ScansFinite DEF IInvScanner, ScansBounded, TypesApp
  <2>2. Cardinality(ScansOf(m))' \in Nat
    BY ScansFiniteNext
  <2>3. CASE OnScreen(n)
    <3>1. scanStatus' = status /\ scan[n].mount = m
      BY <1>1, <1>2, <2>3 DEF OnScreen
    <3>2. CASE to = "over"
      BY <1>3, <2>1, <2>2, <3>1, <3>2
    <3>3. CASE status \in {"awaiting_tap", "submitting"}
      BY <1>3, <2>1, <2>2, <3>1, <3>3 DEF RetryOffered
    <3>. QED BY <3>2, <3>3
  <2>4. CASE ~OnScreen(n)
    <3>1. RetryOffered' = RetryOffered
      BY <1>2, <2>4 DEF RetryOffered
    <3>. QED BY <1>3, <2>1, <2>2, <3>1
  <2>. QED BY <2>3, <2>4
<1>. QED BY <1>3, <1>4, <1>5, <1>6

LEMMA RunScanKeepsIInvScanner ==
    ASSUME IInvScanner, NEW n \in ScanIds, Availability(n) \/ Read(n) \/ Submit(n)
    PROVE  IInvScanner'
<1>1. /\ scan[n].at \in InFlight
      /\ UNCHANGED <<session, linkError, initialURL, form, mount, changes>>
  BY DEF Availability, Read, Submit, Elsewhere, InFlight, Answered
<1>2. scan[n].of \in Links
  BY <1>1 DEF IInvScanner, TypesScans, NotStarted, InFlight
<1>3. PICK to \in InFlight \cup {"over"}, status \in StatusValues :
        Step(n, to, status) /\ (to = "over" \/ status \in {"awaiting_tap", "submitting"})
  <2>1. scanStatus \in StatusValues
    BY DEF IInvScanner, TypesApp
  <2>2. CASE Availability(n)
    BY <2>1, <2>2 DEF Availability, InFlight, StatusValues
  <2>3. CASE Read(n)
    BY <2>3 DEF Read, InFlight, StatusValues
  <2>4. CASE Submit(n)
    BY <2>4 DEF Submit, ShowResult, StatusValues
  <2>. QED BY <2>2, <2>3, <2>4
<1>4. /\ route' \in {route, "Result"} /\ (route' # route => OnScreen(n))
      /\ answered' \subseteq Links /\ answered \subseteq answered'
      /\ \/ UNCHANGED <<route, shownFor>>
         \/ /\ route = "NfcScan" /\ route' = "Result" /\ shownFor' = scan[n].of
            /\ scan[n].mount = mount /\ scan[n].of \in answered'
  BY <1>2 DEF Availability, Read, Submit, ShowResult, OnScreen, Answered, IInvScanner, TypesApp
<1>5. TypesScans' /\ scanStatus' \in StatusValues /\ ScansFollow' /\ ScansBounded'
  BY <1>1, <1>3, <1>4, StepKeepsScans
<1>6. TypesApp'
  BY <1>1, <1>4, <1>5 DEF IInvScanner, TypesApp, OnScreen
<1>7. ResultWasAnswered'
  <2>1. CASE UNCHANGED <<route, shownFor>>
    BY <1>1, <1>4, <2>1 DEF IInvScanner, ResultWasAnswered
  <2>2. CASE /\ route = "NfcScan" /\ route' = "Result" /\ shownFor' = scan[n].of
             /\ scan[n].mount = mount /\ scan[n].of \in answered'
    <3>1. scan[n] # NotStarted
      BY <1>1 DEF NotStarted, InFlight
    <3>2. changes = 0 => scan[n].of = session
      BY <2>2, <3>1 DEF IInvScanner, ScansFollow
    <3>. QED BY <1>1, <2>2, <3>2 DEF ResultWasAnswered
  <2>. QED BY <1>4, <2>1, <2>2
<1>. QED BY <1>5, <1>6, <1>7 DEF IInvScanner

(* The keys of a screen's scans are of the four kinds there are.            *)
LEMMA KeysOfScans ==
    ASSUME IInvScanner, NEW m, NEW key \in {scan[n].key : n \in {k \in ScanIds : scan[k].mount = m}}
    PROVE  key \in {"none", "malformed", "right", "wrong"}
BY DEF IInvScanner, TypesScans, ScanRecords

(* A scan that starts on the screen that is there.                         *)
LEMMA RetryKeepsIInvScanner == ASSUME IInvScanner, Retry PROVE IInvScanner'
<1>1. /\ route = "NfcScan" /\ RetryOffered
      /\ UNCHANGED <<session, linkError, initialURL, form, mount, changes, route, shownFor, answered>>
  BY DEF Retry, Elsewhere
<1>2. PICK m \in Nat : m = mount
  BY DEF IInvScanner, TypesApp
<1>3. PICK key \in {scan[n].key : n \in {k \in ScanIds : scan[k].mount = m}} :
        StartScan(session, key, m)
  BY <1>2 DEF Retry
<1>4. key \in {"none", "malformed", "right", "wrong"}
  BY KeysOfScans
<1>5. PICK s \in Links : s = session
  BY <1>1 DEF IInvScanner, TypesApp
<1>6. /\ TypesScans' /\ scanStatus' = "checking_nfc"
      /\ Cardinality(ScansOf(m))' <= Cardinality(ScansOf(m)) + 1
      /\ \A n \in ScanIds : scan'[n] # NotStarted =>
           \/ scan'[n] = scan[n] /\ scan[n] # NotStarted
           \/ scan'[n].of = s /\ scan'[n].mount = m
  <2>1. m <= mount' /\ mount <= mount' /\ mount' \in Nat
    BY <1>1, <1>2
  <2>. QED BY <1>3, <1>4, <1>5, <2>1, ScanStarts
<1>7. TypesApp' /\ ResultWasAnswered'
  BY <1>1, <1>6 DEF IInvScanner, TypesApp, ResultWasAnswered, StatusValues
<1>8. ScansFollow'
  BY <1>1, <1>5, <1>6 DEF IInvScanner, ScansFollow
<1>9. ScansBounded'
  <2>1. Cardinality(ScansOf(m)) <= changes /\ changes \in Nat /\ Cardinality(ScansOf(m)) \in Nat
    BY <1>1, <1>2, ScansFinite DEF IInvScanner, ScansBounded, TypesApp
  <2>2. Cardinality(ScansOf(m))' \in Nat
    BY ScansFiniteNext
  <2>3. Cardinality(ScansOf(m))' <= 1 + changes'
    BY <1>1, <1>6, <2>1, <2>2
  <2>4. ~RetryOffered'
    BY <1>6 DEF RetryOffered
  <2>. QED BY <1>1, <1>2, <2>3, <2>4 DEF ScansBounded, ScansOf
<1>. QED BY <1>6, <1>7, <1>8, <1>9 DEF IInvScanner

(* A scan screen of its own begins with one scan.                          *)
LEMMA ContinueKeepsIInvScanner == ASSUME IInvScanner, HandleContinue PROVE IInvScanner'
<1>1. /\ route = "MrzEntry" /\ form # "malformed" /\ mount < MaxMounts /\ route' = "NfcScan"
      /\ mount' = mount + 1 /\ changes' = 0
      /\ UNCHANGED <<session, linkError, initialURL, form, shownFor, answered>>
  BY DEF HandleContinue
<1>2. PICK m \in Nat : m = mount + 1 /\ StartScan(session, form, m)
  BY DEF HandleContinue, IInvScanner, TypesApp
<1>3. PICK s \in Links : s = session
  BY <1>1 DEF IInvScanner, TypesApp
<1>4. PICK key \in {"none", "malformed", "right", "wrong"} : key = form
  BY DEF IInvScanner, TypesApp
<1>5. mount \in 0 .. MaxMounts /\ mount' = m /\ m \in 0 .. MaxMounts /\ mount <= m
      /\ \A n \in ScanIds : scan[n].mount \in Nat /\ scan[n].mount <= mount
  BY <1>1, <1>2 DEF IInvScanner, TypesApp, TypesScans, ScanRecords
<1>6. /\ TypesScans' /\ scanStatus' = "checking_nfc"
      /\ Cardinality(ScansOf(m))' <= Cardinality(ScansOf(m)) + 1
      /\ \A n \in ScanIds : scan'[n] # NotStarted =>
           \/ scan'[n] = scan[n] /\ scan[n] # NotStarted
           \/ scan'[n].of = s /\ scan'[n].mount = m
  BY <1>2, <1>3, <1>4, <1>5, ScanStarts
<1>7. TypesApp' /\ ResultWasAnswered'
  BY <1>1, <1>5, <1>6 DEF IInvScanner, TypesApp, ResultWasAnswered, StatusValues
<1>8. \A n \in ScanIds : scan[n].mount # m
  BY <1>2, <1>5
<1>9. ScansFollow'
  BY <1>1, <1>3, <1>5, <1>6, <1>8 DEF ScansFollow
<1>10. ScansBounded'
  <2>1. ScansOf(m) = {}
    BY <1>8 DEF ScansOf
  <2>2. Cardinality(ScansOf(m)) = 0
    BY <2>1, FS_EmptySet
  <2>3. Cardinality(ScansOf(m))' \in Nat
    BY ScansFiniteNext
  <2>4. Cardinality(ScansOf(m))' <= 1 + changes' /\ ~RetryOffered'
    BY <1>1, <1>6, <2>2, <2>3 DEF RetryOffered
  <2>. QED BY <1>5, <2>4 DEF ScansBounded, ScansOf
<1>. QED BY <1>6, <1>7, <1>9, <1>10 DEF IInvScanner

(* A link.                                                                 *)
LEMMA SetSessionKeepsIInvScanner ==
    ASSUME IInvScanner, NEW s \in Links, SetSession(s), initialURL' \in {initialURL, "handled"},
           UNCHANGED <<form, mount, shownFor, answered>>
    PROVE  IInvScanner'
<1>1. /\ session' = s /\ linkError' = FALSE
      /\ route' = IF session = "none" THEN "MrzEntry" ELSE route
      /\ changes' = changes + (IF route \in {"NfcScan", "Result"} THEN 1 ELSE 0)
  BY DEF SetSession
<1>2. s # "none" /\ changes \in Nat /\ (route = "NoSession" <=> session = "none")
  BY DEF IInvScanner, TypesApp
<1>3. changes' \in Nat /\ (route \in {"NfcScan", "Result"} => changes' # 0 /\ changes' = changes + 1)
  BY <1>1, <1>2
<1>4. route' \in {"NfcScan", "Result"} => route = route'
  BY <1>1
<1>5. ResultWasAnswered'
  BY <1>3, <1>4 DEF IInvScanner, ResultWasAnswered
<1>6. /\ initialURL' \in Links \cup {"none", "invalid", "handled"} /\ linkError' \in BOOLEAN
      /\ route' \in {"NoSession", "MrzEntry", "NfcScan", "Result"} /\ route' # "NoSession"
  BY <1>1, <1>2 DEF IInvScanner, TypesApp
<1>7. CASE route # "NfcScan"
  <2>1. UNCHANGED <<scan, scanStatus>> /\ route' # "NfcScan"
    BY <1>1, <1>7 DEF SetSession
  <2>2. TypesApp' /\ TypesScans' /\ ScansFollow' /\ ScansBounded'
    BY <1>1, <1>2, <1>3, <1>6, <2>1 DEF IInvScanner, TypesApp, TypesScans, ScansFollow, ScansBounded
  <2>. QED BY <1>5, <2>2 DEF IInvScanner
<1>8. CASE route = "NfcScan"
  <2>1. PICK m \in Nat : m = mount
    BY DEF IInvScanner, TypesApp
  <2>2. PICK key \in {scan[n].key : n \in {k \in ScanIds : scan[k].mount = m}} : StartScan(s, key, m)
    BY <1>8, <2>1 DEF SetSession
  <2>3. key \in {"none", "malformed", "right", "wrong"}
    BY KeysOfScans
  <2>4. /\ TypesScans' /\ scanStatus' = "checking_nfc"
        /\ Cardinality(ScansOf(m))' <= Cardinality(ScansOf(m)) + 1
    <3>1. m <= mount' /\ mount <= mount' /\ mount' \in Nat
      BY <2>1
    <3>. QED BY <2>2, <2>3, <3>1, ScanStarts
  <2>5. TypesApp'
    BY <1>1, <1>2, <1>3, <1>6, <2>4 DEF IInvScanner, TypesApp, StatusValues
  <2>6. ScansFollow'
    BY <1>3, <1>8 DEF ScansFollow
  <2>7. ScansBounded'
    <3>1. Cardinality(ScansOf(m)) <= 1 + changes /\ Cardinality(ScansOf(m)) \in Nat
      BY <1>8, <2>1, ScansFinite DEF IInvScanner, ScansBounded
    <3>2. Cardinality(ScansOf(m))' \in Nat
      BY ScansFiniteNext
    <3>3. Cardinality(ScansOf(m))' <= 1 + changes' /\ ~RetryOffered'
      BY <1>2, <1>3, <1>8, <2>4, <3>1, <3>2 DEF RetryOffered
    <3>. QED BY <2>1, <3>3 DEF ScansBounded, ScansOf
  <2>. QED BY <1>5, <2>4, <2>5, <2>6, <2>7 DEF IInvScanner
<1>. QED BY <1>7, <1>8

(* What leaves the scans and the screen they are on alone.                 *)
LEMMA QuietKeepsIInvScanner ==
    ASSUME IInvScanner, UNCHANGED <<session, mount, scan, scanStatus, shownFor, answered, changes>>,
           linkError' \in BOOLEAN, initialURL' \in {initialURL, "handled"},
           form' \in {"malformed", "right", "wrong"},
           route' = route \/ (route' = "MrzEntry" /\ route # "NoSession")
    PROVE  IInvScanner'
<1>1. TypesApp' /\ TypesScans' /\ ScansFollow' /\ ResultWasAnswered'
  BY DEF IInvScanner, TypesApp, TypesScans, ScansFollow, ResultWasAnswered
<1>2. ScansBounded'
  BY DEF IInvScanner, ScansBounded, ScansOf, RetryOffered
<1>. QED BY <1>1, <1>2 DEF IInvScanner

LEMMA IInvScannerInductive == IInvScanner /\ [NextScanner]_varsScanner => IInvScanner'
<1>. SUFFICES ASSUME IInvScanner, [NextScanner]_varsScanner PROVE IInvScanner'
  OBVIOUS
<1>1. TypesApp
  BY DEF IInvScanner
<1>2. CASE UNCHANGED varsScanner
  BY <1>1, <1>2, QuietKeepsIInvScanner DEF varsScanner, TypesApp
<1>3. CASE Fill \/ GoBack
  <2>1. /\ UNCHANGED <<session, mount, scan, scanStatus, shownFor, answered, changes>>
        /\ UNCHANGED <<linkError, initialURL>>
        /\ form' \in {"malformed", "right", "wrong"}
        /\ route' = route \/ (route' = "MrzEntry" /\ route # "NoSession")
    BY <1>1, <1>3 DEF Fill, GoBack, TypesApp
  <2>. QED BY <1>1, <2>1, QuietKeepsIInvScanner DEF TypesApp
<1>4. CASE ColdStart \/ WarmStart
  <2>1. PICK url \in Links \cup {"none", "invalid"} : HandleUrl(url)
    BY <1>1, <1>4 DEF ColdStart, WarmStart, TypesApp
  <2>2. initialURL' \in {initialURL, "handled"} /\ UNCHANGED <<form, mount, shownFor, answered>>
    BY <1>4 DEF ColdStart, WarmStart
  <2>3. CASE /\ UNCHANGED <<session, route, changes, scan, scanStatus>>
             /\ linkError' \in {linkError, TRUE}
    BY <1>1, <2>2, <2>3, QuietKeepsIInvScanner DEF TypesApp
  <2>4. CASE url \in Links /\ SetSession(url)
    BY <2>2, <2>4, SetSessionKeepsIInvScanner
  <2>. QED BY <2>1, <2>3, <2>4 DEF HandleUrl
<1>. QED
  BY <1>2, <1>3, <1>4, RetryKeepsIInvScanner, ContinueKeepsIInvScanner, RunScanKeepsIInvScanner
  DEF NextScanner

(* The scanner app's invariant, for any links, scans, screens and changes. *)
THEOREM ScannerInvariant == SpecScanner => []IInvScanner
BY InitIInvScanner, IInvScannerInductive, PTL DEF SpecScanner

(* The scanner app's state keeps its types.                                *)
THEOREM ScannerTypeCorrect == SpecScanner => []TypeOKScanner
<1>1. IInvScanner => TypeOKScanner
  BY DEF IInvScanner, TypesApp, TypesScans, ScanRecords, StatusValues, TypeOKScanner
<1>. QED BY <1>1, ScannerInvariant, PTL

(* Scans read the chip at once only because links replaced the session.    *)
THEOREM ScannerOneScan == SpecScanner => []OneScanUnlessReplaced
<1>1. IInvScanner => OneScanUnlessReplaced
  BY DEF IInvScanner, ScansBounded, OneScanUnlessReplaced
<1>. QED BY <1>1, ScannerInvariant, PTL

(* The result on show is one the relayer answered for.                     *)
THEOREM ScannerResultWasAnswered == SpecScanner => []ResultWasAnswered
<1>1. IInvScanner => ResultWasAnswered
  BY DEF IInvScanner
<1>. QED BY <1>1, ScannerInvariant, PTL
=============================================================================
