--------------------- MODULE VerificationSessionProofs ---------------------
(***************************************************************************)
(* Theorems of VerificationSession, for any number of clients, any         *)
(* lifetime and any bound of the clock.                                    *)
(***************************************************************************)
EXTENDS VerificationSession, TLAPS

(* What a call may hold between its read and its write: an allowed move,   *)
(* from a status that was open, read before the session ran out; and no    *)
(* success of its own report.                                              *)
CallsInOrder ==
    \A c \in Clients :
        /\ call[c].wants \notin {"submitted", "confirmed"}
        /\ call[c].readAt <= now
        /\ call[c].pc = "writing" =>
             /\ call[c].wants \in ValidTransitions(call[c].seen)
             /\ call[c].readAt <= expiresAt

(* Before the row exists nothing has been called.                          *)
NothingBeforeCreate ==
    status = "none" => basis = 0 /\ call = [c \in Clients |-> Idle]

IInv == /\ TypeOK /\ CallsInOrder /\ NothingBeforeCreate
        /\ NoSelfReportedSuccess /\ ProgressReadInTime

USE DEF Statuses, Terminal, Wants

(* Only an open status can be left, so what may be written is decided on   *)
(* an open status.                                                         *)
LEMMA TransitionsLeaveOpen ==
    ASSUME NEW s \in Statuses, NEW t \in ValidTransitions(s)
    PROVE  s \notin Terminal /\ t \in Statuses \ {"none"} /\ Rank(s) < Rank(t)
  BY DEF ValidTransitions, Rank

LEMMA InitIInv == Init => IInv
  BY SessionAssumption DEF Init, IInv, TypeOK, CallsInOrder, NothingBeforeCreate,
     NoSelfReportedSuccess, ProgressReadInTime, Idle

LEMMA CreateKeepsIInv == IInv /\ Create => IInv'
  BY SessionAssumption DEF Create, IInv, TypeOK, CallsInOrder, NothingBeforeCreate,
     NoSelfReportedSuccess, ProgressReadInTime, Idle

LEMMA BeginKeepsIInv ==
    ASSUME IInv, NEW c \in Clients, NEW wants \in Wants, Begin(c, wants)
    PROVE  IInv'
<1>. DEFINE q == [pc |-> "called", wants |-> wants, seen |-> "none", readAt |-> 0]
<1>1. /\ call' = [call EXCEPT ![c] = q] /\ status # "none"
      /\ UNCHANGED <<status, expiresAt, now, basis>>
      /\ wants \notin {"submitted", "confirmed"}
  BY DEF Begin, Accepted
<1>2. TypeOK'
  BY <1>1, SessionAssumption DEF IInv, TypeOK
<1>3. CallsInOrder'
  BY <1>1 DEF IInv, TypeOK, CallsInOrder
<1>. QED
  BY <1>1, <1>2, <1>3 DEF IInv, NothingBeforeCreate, NoSelfReportedSuccess,
     ProgressReadInTime

(* The record that a call holds after its read.                            *)
Holding(c, step) == [pc |-> step, wants |-> call[c].wants, seen |-> status, readAt |-> now]

LEMMA ReadKeepsIInv ==
    ASSUME IInv, NEW c \in Clients, Read(c)
    PROVE  IInv'
<1>1. UNCHANGED <<status, expiresAt, now, basis>> /\ call[c].pc = "called"
  BY DEF Read
<1>2. status # "none"
  BY <1>1 DEF IInv, NothingBeforeCreate, Idle
<1>. SUFFICES TypeOK' /\ CallsInOrder'
  BY <1>1, <1>2 DEF IInv, NothingBeforeCreate, NoSelfReportedSuccess, ProgressReadInTime
<1>3. CASE Overdue
  <2>1. call' = [call EXCEPT ![c] = Holding(c, "sweeping")]
    BY <1>3 DEF Read, Holding
  <2>2. status \notin Terminal /\ now > expiresAt
    BY <1>3 DEF Overdue
  <2>. QED
    BY <1>1, <2>1, <2>2, SessionAssumption DEF Holding, IInv, TypeOK, CallsInOrder
<1>4. CASE ~Overdue /\ call[c].wants \in ValidTransitions(status)
  <2>1. call' = [call EXCEPT ![c] = Holding(c, "writing")]
    BY <1>4 DEF Read, Holding
  <2>2. status \notin Terminal
    BY <1>4, TransitionsLeaveOpen DEF IInv, TypeOK
  <2>3. now <= expiresAt
    BY <1>4, <2>2 DEF Overdue, IInv, TypeOK
  <2>. QED
    BY <1>1, <1>4, <2>1, <2>3, SessionAssumption DEF Holding, IInv, TypeOK, CallsInOrder
<1>5. CASE ~Overdue /\ call[c].wants \notin ValidTransitions(status)
  <2>1. call' = [call EXCEPT ![c] = Idle]
    BY <1>5 DEF Read
  <2>. QED
    BY <1>1, <2>1, SessionAssumption DEF Idle, IInv, TypeOK, CallsInOrder
<1>. QED BY <1>3, <1>4, <1>5

LEMMA SweepKeepsIInv ==
    ASSUME IInv, NEW c \in Clients, Sweep(c)
    PROVE  IInv'
<1>1. status # "none"
  BY DEF Sweep, IInv, NothingBeforeCreate, Idle
<1>. QED
  BY <1>1, SessionAssumption DEF Sweep, IInv, TypeOK, CallsInOrder,
     NothingBeforeCreate, NoSelfReportedSuccess, ProgressReadInTime, Idle

LEMMA WriteKeepsIInv ==
    ASSUME IInv, NEW c \in Clients, Write(c)
    PROVE  IInv'
<1>1. /\ call[c].wants \in Statuses \ {"none", "submitted", "confirmed"}
      /\ call[c].readAt <= expiresAt /\ call[c].readAt <= now
  BY TransitionsLeaveOpen DEF Write, IInv, TypeOK, CallsInOrder
<1>. QED
  BY <1>1, SessionAssumption DEF Write, IInv, TypeOK, CallsInOrder,
     NothingBeforeCreate, NoSelfReportedSuccess, ProgressReadInTime, Idle

LEMMA DropKeepsIInv ==
    ASSUME IInv, NEW c \in Clients, Drop(c)
    PROVE  IInv'
  BY SessionAssumption DEF Drop, IInv, TypeOK, CallsInOrder, NothingBeforeCreate,
     NoSelfReportedSuccess, ProgressReadInTime, Idle

LEMMA TickKeepsIInv == IInv /\ Tick => IInv'
  BY SessionAssumption DEF Tick, IInv, TypeOK, CallsInOrder, NothingBeforeCreate,
     NoSelfReportedSuccess, ProgressReadInTime, Idle

LEMMA StutterKeepsIInv == IInv /\ UNCHANGED vars => IInv'
  BY DEF vars, IInv, TypeOK, CallsInOrder, NothingBeforeCreate,
     NoSelfReportedSuccess, ProgressReadInTime

(* The inductive invariant holds.                                          *)
THEOREM InvariantHolds == Spec => []IInv
<1>1. IInv /\ [Next]_vars => IInv'
  BY CreateKeepsIInv, BeginKeepsIInv, ReadKeepsIInv, SweepKeepsIInv, WriteKeepsIInv,
     DropKeepsIInv, TickKeepsIInv, StutterKeepsIInv DEF Next, Step
<1>. QED BY <1>1, InitIInv, PTL DEF Spec

(* Types; and a session that has ended is never chosen to be expired.      *)
THEOREM SessionTypes == Spec => []TypeOK
  BY InvariantHolds, PTL DEF IInv

(* No number of clients can report a success, whatever they send and       *)
(* however their calls interleave.                                         *)
THEOREM SuccessIsNotSelfReported == Spec => []NoSelfReportedSuccess
  BY InvariantHolds, PTL DEF IInv

(* Whatever was written, it had been decided before the session ran out.   *)
THEOREM ProgressWasInTime == Spec => []ProgressReadInTime
  BY InvariantHolds, PTL DEF IInv

-----------------------------------------------------------------------------
(* One step moves the session back, or out of an outcome, only as a race.  *)
RaceStep ==
    Rank(status') < Rank(status) \/ (status \in Terminal /\ status' # status)
        => \E c \in Clients : /\ call[c].pc \in {"writing", "sweeping"}
                              /\ call[c].seen # status /\ call'[c].pc = "idle"

(* By the step: only a write can go back, and only on a status that        *)
(* changed since it was read.                                              *)
LEMMA StepIsRaceOrForward == IInv /\ [Next]_vars => RaceStep
<1>. SUFFICES ASSUME IInv, [Next]_vars PROVE RaceStep
  OBVIOUS
<1>1. status \in Statuses /\ Rank(status) \in 0 .. 6
  BY DEF IInv, TypeOK, Rank
<1>2. ASSUME status' = status PROVE RaceStep
  BY <1>1, <1>2 DEF RaceStep, Rank
<1>3. CASE Create
  BY <1>3 DEF Create, RaceStep, Rank
<1>4. ASSUME NEW c \in Clients, Sweep(c) PROVE RaceStep
  <2>1. call[c].pc = "sweeping" /\ call[c].seen \notin Terminal /\ call'[c].pc = "idle"
    BY <1>4 DEF Sweep, IInv, TypeOK, Idle
  <2>2. ~(Rank(status') < Rank(status))
    BY <1>1, <1>4 DEF Sweep, Rank
  <2>. QED BY <2>1, <2>2 DEF RaceStep
<1>5. ASSUME NEW c \in Clients, Write(c) PROVE RaceStep
  <2>1. /\ call[c].pc = "writing" /\ call'[c].pc = "idle"
        /\ status' \in ValidTransitions(call[c].seen) /\ call[c].seen \in Statuses
    BY <1>5 DEF Write, IInv, TypeOK, CallsInOrder, Idle
  <2>2. CASE call[c].seen # status
    BY <2>1, <2>2 DEF RaceStep
  <2>3. CASE call[c].seen = status
    <3>1. status \notin Terminal /\ Rank(status) < Rank(status') /\ status' \in Statuses
      BY <2>1, <2>3, TransitionsLeaveOpen
    <3>2. Rank(status') \in 0 .. 6
      BY <3>1 DEF Rank
    <3>. QED BY <1>1, <3>1, <3>2 DEF RaceStep
  <2>. QED BY <2>2, <2>3
<1>6. ASSUME NEW c \in Clients, NEW wants \in Wants, Begin(c, wants) PROVE status' = status
  BY <1>6 DEF Begin
<1>7. ASSUME NEW c \in Clients, Read(c) PROVE status' = status
  BY <1>7 DEF Read
<1>8. ASSUME NEW c \in Clients, Drop(c) PROVE status' = status
  BY <1>8 DEF Drop
<1>9. Tick \/ UNCHANGED vars => status' = status
  BY DEF Tick, vars
<1>. QED BY <1>2, <1>3, <1>4, <1>5, <1>6, <1>7, <1>8, <1>9 DEF Next, Step

(* Calls that do not overlap take a session forward only and leave an      *)
(* ended one alone: whatever goes back is a write on an out-of-date read.  *)
THEOREM BackwardStepsAreRaces == Spec => BackwardOnlyByRace
<1>1. IInv /\ [Next]_vars => [RaceStep]_vars
  BY StepIsRaceOrForward
<1>. QED
  BY <1>1, InvariantHolds, PTL DEF Spec, BackwardOnlyByRace, RaceStep
-----------------------------------------------------------------------------
(* A lock from a call's SELECT to its UPDATE would let one call at a time  *)
(* hold a status it has read.                                              *)
Holds(c) == call[c].pc \in {"sweeping", "writing"}
OneAtATime == \A c, d \in Clients : Holds(c) /\ Holds(d) => c = d

(* What a call holds is then the status of the row.                        *)
ReadsAreCurrent == \A c \in Clients : Holds(c) => call[c].seen = status

(* No step takes the session back, or out of its outcome.                  *)
Forward == Rank(status') >= Rank(status) /\ (status \in Terminal => status' = status)

(* Only the holder of the lock writes, and it lets go of what it held.     *)
LEMMA ReadsStayCurrent ==
    ASSUME IInv, OneAtATime, OneAtATime', ReadsAreCurrent, [Next]_vars
    PROVE  ReadsAreCurrent'
<1>1. call \in [Clients -> [pc : {"idle", "called", "sweeping", "writing"}, wants : Wants,
                            seen : Statuses, readAt : 0 .. MaxTime]]
  BY DEF IInv, TypeOK
<1>2. CASE Create
  BY <1>2 DEF Create, IInv, NothingBeforeCreate, Idle, ReadsAreCurrent, Holds
<1>3. ASSUME NEW c \in Clients, Sweep(c) \/ Write(c)
      PROVE  ReadsAreCurrent'
  <2>1. Holds(c) /\ call' = [call EXCEPT ![c] = Idle]
    BY <1>3 DEF Sweep, Write, Holds
  <2>2. \A d \in Clients : d # c => ~Holds(d)
    BY <2>1 DEF OneAtATime
  <2>. QED BY <1>1, <2>1, <2>2 DEF ReadsAreCurrent, Holds, Idle
<1>4. ASSUME NEW c \in Clients, Read(c)
      PROVE  ReadsAreCurrent'
  <2>1. \/ call' = [call EXCEPT ![c] = Idle]
        \/ \E step : call' = [call EXCEPT ![c] = Holding(c, step)]
    BY <1>4 DEF Read, Holding
  <2>2. status' = status
    BY <1>4 DEF Read
  <2>. QED BY <1>1, <2>1, <2>2 DEF ReadsAreCurrent, Holds, Holding, Idle
<1>5. ASSUME NEW c \in Clients, Drop(c) \/ \E wants \in Wants : Begin(c, wants)
      PROVE  ReadsAreCurrent'
  BY <1>1, <1>5 DEF Drop, Begin, ReadsAreCurrent, Holds, Idle
<1>6. CASE Tick \/ UNCHANGED vars
  BY <1>6 DEF Tick, vars, ReadsAreCurrent, Holds
<1>. QED BY <1>2, <1>3, <1>4, <1>5, <1>6 DEF Next, Step

(* Without an out-of-date read there is no race, so each step goes         *)
(* forward.                                                                *)
LEMMA StepIsForward ==
    ASSUME IInv, ReadsAreCurrent, [Next]_vars
    PROVE  Forward
<1>1. RaceStep
  BY StepIsRaceOrForward
<1>2. ~\E c \in Clients : call[c].pc \in {"writing", "sweeping"} /\ call[c].seen # status
  BY DEF ReadsAreCurrent, Holds
<1>3. Rank(status) \in 0 .. 6 /\ Rank(status') \in 0 .. 6
  <2>1. IInv'
    BY CreateKeepsIInv, BeginKeepsIInv, ReadKeepsIInv, SweepKeepsIInv, WriteKeepsIInv,
       DropKeepsIInv, TickKeepsIInv, StutterKeepsIInv DEF Next, Step
  <2>. QED BY <2>1 DEF IInv, TypeOK, Rank
<1>. QED BY <1>1, <1>2, <1>3 DEF RaceStep, Forward

(* With such a lock a session only goes forward, and ends once: overlap    *)
(* between a read and its write is the only cause of what goes wrong.      *)
THEOREM LockedSessionsGoForward == Spec /\ []OneAtATime => [][Forward]_vars
<1>1. Init => ReadsAreCurrent
  BY DEF Init, ReadsAreCurrent, Holds, Idle
<1>2. /\ IInv /\ OneAtATime /\ OneAtATime' /\ ReadsAreCurrent /\ [Next]_vars
      => ReadsAreCurrent'
  BY ReadsStayCurrent
<1>3. IInv /\ ReadsAreCurrent /\ [Next]_vars => [Forward]_vars
  BY StepIsForward
<1>. QED BY <1>1, <1>2, <1>3, InvariantHolds, PTL DEF Spec
=============================================================================
