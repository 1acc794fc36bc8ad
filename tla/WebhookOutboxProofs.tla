------------------------ MODULE WebhookOutboxProofs ------------------------
(***************************************************************************)
(* Theorems of WebhookOutbox: the workers leave what is proved of the      *)
(* requests as it is, and however many of them hold rows that are out of   *)
(* date, a delivery is given up only after all its tries and recorded as   *)
(* delivered only if it was acknowledged.                                  *)
(***************************************************************************)
EXTENDS WebhookOutbox, RelayerProofs

USE RelayerAssumption, OutboxAssumption

SafeOutbox == InitOutbox /\ [][NextOutbox]_allVars

(* No count of tries runs ahead of the posts really made, neither in the   *)
(* table nor in a worker's hands; a posted row's own try is among them.    *)
TriesWerePosts ==
    /\ \A r \in Requests : delivery[r].attempts <= posts[r]
    /\ \A w \in Workers : \A row \in batch[w] : row.attempts <= posts[row.submission]
    /\ \A w \in Workers : posting[w] # None =>
         posting[w].row.attempts + 1 <= posts[posting[w].row.submission]

StatusOfTries ==
    \A r \in Requests : /\ delivery[r].status = "pending" => delivery[r].attempts < MaxTries
                        /\ delivery[r].status = "failed" => delivery[r].attempts = MaxTries

SuccessWasAcked ==
    \A w \in Workers : posting[w] # None /\ posting[w].outcome = "2xx"
                         => posting[w].row.submission \in acked

IInvOutbox == /\ IInvRelayer /\ TypeOKOutbox /\ TriesWerePosts /\ StatusOfTries
              /\ SuccessWasAcked /\ DeliveredWasAcknowledged

Deliveries == [status : {"pending", "delivered", "failed"}, attempts : 0 .. MaxTries,
               due : BOOLEAN]

(* Nothing is read, posted or acknowledged at the start.                   *)
LEMMA InitIInvOutbox == InitOutbox => IInvOutbox
<1>. SUFFICES ASSUME InitOutbox PROVE IInvOutbox
  OBVIOUS
<1>1. IInvRelayer
  BY InitIInvRelayer DEF InitOutbox
<1>2. NewDelivery \in Deliveries /\ NewDelivery.status = "pending" /\ NewDelivery.attempts = 0
  BY DEF NewDelivery, Deliveries
<1>3. TypeOKOutbox
  BY <1>2 DEF InitOutbox, TypeOKOutbox, Deliveries
<1>4. TriesWerePosts /\ StatusOfTries /\ SuccessWasAcked /\ DeliveredWasAcknowledged
  BY <1>2 DEF InitOutbox, TriesWerePosts, StatusOfTries, SuccessWasAcked,
     DeliveredWasAcknowledged
<1>. QED BY <1>1, <1>3, <1>4 DEF IInvOutbox

(* What a worker reads.                                                    *)
LEMMA DueRowsRead ==
    ASSUME TypeOK, TypeOKOutbox, StatusOfTries, NEW row \in DueRows
    PROVE  /\ row \in RowCopy /\ row.attempts = delivery[row.submission].attempts
           /\ delivery[row.submission].status = "pending"
<1>1. PICK w \in outbox :
        /\ delivery[w.submission].status = "pending" /\ settings[w.integrator].url # "null"
        /\ row = [submission |-> w.submission, attempts |-> delivery[w.submission].attempts,
                  url |-> settings[w.integrator].url]
  BY DEF DueRows
<1>2. w.submission \in Requests /\ w.integrator \in Integrators
  BY DEF TypeOK
<1>3. settings[w.integrator].url \in {"good", "odd"}
  <2>1. settings[w.integrator] \in Setting
    BY <1>2 DEF TypeOK
  <2>. QED BY <1>1, <2>1 DEF Setting
<1>4. delivery[w.submission].attempts \in 0 .. MaxTries - 1
  BY <1>1, <1>2 DEF TypeOKOutbox, StatusOfTries
<1>. QED BY <1>1, <1>2, <1>3, <1>4 DEF RowCopy

(* A worker copies the count that is in the table.                         *)
LEMMA FetchKeepsIInv ==
    ASSUME IInvOutbox, NEW w \in Workers, Fetch(w)
    PROVE  (TypeOKOutbox /\ TriesWerePosts /\ StatusOfTries /\ SuccessWasAcked
            /\ DeliveredWasAcknowledged)'
<1>1. /\ batch' = [batch EXCEPT ![w] = DueRows]
      /\ UNCHANGED <<delivery, posting, posts, acked>>
  BY DEF Fetch
<1>2. DueRows \subseteq RowCopy
        /\ \A row \in DueRows : row.attempts = delivery[row.submission].attempts
  BY DueRowsRead DEF IInvOutbox, IInvRelayer
<1>3. TypeOKOutbox'
  BY <1>1, <1>2 DEF IInvOutbox, TypeOKOutbox
<1>4. \A v \in Workers : batch'[v] = IF v = w THEN DueRows ELSE batch[v]
  BY <1>1 DEF IInvOutbox, TypeOKOutbox
<1>5. TriesWerePosts'
  <2>1. \A row \in DueRows : row.submission \in Requests
    BY <1>2 DEF RowCopy
  <2>. QED BY <1>1, <1>2, <1>4, <2>1 DEF IInvOutbox, TriesWerePosts
<1>. QED
  BY <1>1, <1>3, <1>5 DEF IInvOutbox, StatusOfTries, SuccessWasAcked, DeliveredWasAcknowledged

(* A post is counted before its outcome is written.                        *)
LEMMA PostKeepsIInv ==
    ASSUME IInvOutbox, NEW w \in Workers, Post(w)
    PROVE  (TypeOKOutbox /\ TriesWerePosts /\ StatusOfTries /\ SuccessWasAcked
            /\ DeliveredWasAcknowledged)'
<1>1. PICK row \in batch[w], outcome \in Outcomes :
        /\ batch' = [batch EXCEPT ![w] = @ \ {row}]
        /\ posting' = [posting EXCEPT ![w] = [row |-> row, outcome |-> outcome]]
        /\ posts' = [posts EXCEPT ![row.submission] = @ + 1]
        /\ acked' = IF outcome = "2xx" THEN acked \cup {row.submission} ELSE acked
        /\ delivery' = delivery
  BY DEF Post
<1>2. row \in RowCopy /\ row.submission \in Requests /\ row.attempts \in Nat
  BY DEF IInvOutbox, TypeOKOutbox, RowCopy
<1>. DEFINE held == [row |-> row, outcome |-> outcome]
<1>3. held \in [row : RowCopy, outcome : Outcomes] /\ held.row = row /\ held.outcome = outcome
  BY <1>2
<1>. HIDE DEF held
<1>4. posting' = [posting EXCEPT ![w] = held]
  BY <1>1 DEF held
<1>5. /\ posts' \in [Requests -> Nat] /\ posts'[row.submission] = posts[row.submission] + 1
      /\ \A r \in Requests : posts'[r] \in Nat /\ posts[r] \in Nat /\ posts[r] <= posts'[r]
  BY <1>1, <1>2 DEF IInvOutbox, TypeOKOutbox
<1>6. /\ \A v \in Workers : batch'[v] \subseteq batch[v]
      /\ \A v \in Workers : posting'[v] = IF v = w THEN held ELSE posting[v]
  BY <1>1, <1>4 DEF IInvOutbox, TypeOKOutbox
<1>7. TypeOKOutbox'
  <2>1. batch' \in [Workers -> SUBSET RowCopy]
    BY <1>1 DEF IInvOutbox, TypeOKOutbox
  <2>2. acked' \subseteq Requests
    BY <1>1, <1>2 DEF IInvOutbox, TypeOKOutbox
  <2>. QED BY <1>1, <1>3, <1>4, <1>5, <2>1, <2>2 DEF IInvOutbox, TypeOKOutbox
<1>8. TriesWerePosts'
  <2>1. \A r \in Requests : delivery'[r].attempts <= posts'[r]
    BY <1>1, <1>5 DEF IInvOutbox, TypeOKOutbox, TriesWerePosts
  <2>2. \A v \in Workers : \A x \in batch'[v] : x.attempts <= posts'[x.submission]
    <3>1. \A v \in Workers : \A x \in batch[v] : /\ x.submission \in Requests /\ x.attempts \in Nat
                                                 /\ x.attempts <= posts[x.submission]
      BY DEF IInvOutbox, TypeOKOutbox, RowCopy, TriesWerePosts
    <3>. QED BY <1>5, <1>6, <3>1
  <2>3. \A v \in Workers : posting'[v] # None =>
          posting'[v].row.attempts + 1 <= posts'[posting'[v].row.submission]
    <3>1. row.attempts <= posts[row.submission]
      BY DEF IInvOutbox, TriesWerePosts
    <3>2. held.row.attempts + 1 <= posts'[held.row.submission]
      BY <1>2, <1>3, <1>5, <3>1
    <3>3. ASSUME NEW v \in Workers, v # w, posting[v] # None
          PROVE  posting[v].row.attempts + 1 <= posts'[posting[v].row.submission]
      <4>1. posting[v].row \in RowCopy
        BY <3>3 DEF IInvOutbox, TypeOKOutbox
      <4>2. posting[v].row.attempts \in Nat /\ posting[v].row.submission \in Requests
        BY <4>1 DEF RowCopy
      <4>3. posting[v].row.attempts + 1 <= posts[posting[v].row.submission]
        BY <3>3 DEF IInvOutbox, TriesWerePosts
      <4>. QED BY <1>5, <4>2, <4>3
    <3>. QED BY <1>6, <3>2, <3>3
  <2>. QED BY <2>1, <2>2, <2>3 DEF TriesWerePosts
<1>9. SuccessWasAcked'
  BY <1>1, <1>3, <1>6 DEF IInvOutbox, SuccessWasAcked
<1>. QED
  BY <1>1, <1>7, <1>8, <1>9 DEF IInvOutbox, StatusOfTries, DeliveredWasAcknowledged

(* Nothing catches the exception: the rest of the batch is gone.           *)
LEMMA RaiseKeepsIInv ==
    ASSUME IInvOutbox, NEW w \in Workers, PostRaises(w)
    PROVE  (TypeOKOutbox /\ TriesWerePosts /\ StatusOfTries /\ SuccessWasAcked
            /\ DeliveredWasAcknowledged)'
<1>1. /\ batch' = [batch EXCEPT ![w] = {}]
      /\ UNCHANGED <<delivery, posting, posts, acked>>
  BY DEF PostRaises
<1>2. TypeOKOutbox' /\ \A v \in Workers : batch'[v] \subseteq batch[v]
  BY <1>1 DEF IInvOutbox, TypeOKOutbox
<1>3. TriesWerePosts'
  BY <1>1, <1>2 DEF IInvOutbox, TriesWerePosts
<1>. QED
  BY <1>1, <1>2, <1>3 DEF IInvOutbox, StatusOfTries, SuccessWasAcked, DeliveredWasAcknowledged

(* What is written is of the row as it was read; its count stays below the *)
(* posts, whatever became of the row meanwhile.                            *)
LEMMA RecordKeepsIInv ==
    ASSUME IInvOutbox, NEW w \in Workers, Record(w)
    PROVE  (TypeOKOutbox /\ TriesWerePosts /\ StatusOfTries /\ SuccessWasAcked
            /\ DeliveredWasAcknowledged)'
<1>. DEFINE row == posting[w].row
            new == Outcome(row, posting[w].outcome)
<1>1. /\ posting[w] # None /\ delivery' = [delivery EXCEPT ![row.submission] = new]
      /\ posting' = [posting EXCEPT ![w] = None] /\ UNCHANGED <<batch, posts, acked>>
  BY DEF Record
<1>2. posting[w] \in [row : RowCopy, outcome : Outcomes]
  BY <1>1 DEF IInvOutbox, TypeOKOutbox
<1>3. row \in RowCopy /\ posting[w].outcome \in Outcomes
  BY <1>2
<1>4. row.submission \in Requests /\ row.attempts \in 0 .. MaxTries - 1
  BY <1>3 DEF RowCopy
<1>5. /\ new \in Deliveries /\ new.attempts = row.attempts + 1
      /\ new.status = "delivered" => posting[w].outcome = "2xx"
      /\ new.status = "pending" => row.attempts + 1 < MaxTries
      /\ new.status = "failed" => row.attempts + 1 = MaxTries
  BY <1>4 DEF Outcome, Deliveries
<1>6. row.attempts + 1 <= posts[row.submission]
  BY <1>1 DEF IInvOutbox, TriesWerePosts
<1>7. new.status = "delivered" => row.submission \in acked
  BY <1>1, <1>5 DEF IInvOutbox, SuccessWasAcked
<1>. HIDE DEF new, row
<1>8. /\ delivery' \in [Requests -> Deliveries] /\ delivery'[row.submission] = new
      /\ \A r \in Requests : r # row.submission => delivery'[r] = delivery[r]
  BY <1>1, <1>4, <1>5 DEF IInvOutbox, TypeOKOutbox, Deliveries
<1>9. \A v \in Workers : posting'[v] # None => posting'[v] = posting[v]
  BY <1>1 DEF IInvOutbox, TypeOKOutbox
<1>10. TypeOKOutbox'
  BY <1>1, <1>8 DEF IInvOutbox, TypeOKOutbox, Deliveries
<1>11. TriesWerePosts'
  <2>1. \A r \in Requests : delivery'[r].attempts <= posts[r]
    BY <1>4, <1>5, <1>6, <1>8 DEF IInvOutbox, TriesWerePosts
  <2>. QED BY <1>1, <1>9, <2>1 DEF IInvOutbox, TriesWerePosts
<1>12. StatusOfTries'
  BY <1>4, <1>5, <1>8 DEF IInvOutbox, StatusOfTries
<1>13. SuccessWasAcked' /\ DeliveredWasAcknowledged'
  BY <1>1, <1>7, <1>8, <1>9 DEF IInvOutbox, SuccessWasAcked, DeliveredWasAcknowledged
<1>. QED BY <1>10, <1>11, <1>12, <1>13

(* What the workers held is lost; the table and the posts are not.         *)
LEMMA CrashAllKeeps ==
    ASSUME IInvOutbox, CrashAll
    PROVE  (TypeOKOutbox /\ TriesWerePosts /\ StatusOfTries /\ SuccessWasAcked
            /\ DeliveredWasAcknowledged)'
<1>1. /\ batch' = [w \in Workers |-> {}] /\ posting' = [w \in Workers |-> None]
      /\ UNCHANGED <<delivery, posts, acked>>
  BY DEF CrashAll
<1>2. TypeOKOutbox'
  BY <1>1 DEF IInvOutbox, TypeOKOutbox
<1>3. TriesWerePosts' /\ SuccessWasAcked'
  BY <1>1 DEF IInvOutbox, TriesWerePosts, SuccessWasAcked
<1>. QED
  BY <1>1, <1>2, <1>3 DEF IInvOutbox, StatusOfTries, DeliveredWasAcknowledged

(* A backoff that elapses changes no count and no status.                  *)
LEMMA BackoffKeeps ==
    ASSUME IInvOutbox, NEW r \in Requests, BackoffElapses(r)
    PROVE  (TypeOKOutbox /\ TriesWerePosts /\ StatusOfTries /\ SuccessWasAcked
            /\ DeliveredWasAcknowledged)'
<1>1. /\ delivery' = [delivery EXCEPT ![r].due = TRUE]
      /\ UNCHANGED <<batch, posting, posts, acked>>
  BY DEF BackoffElapses
<1>2. /\ delivery' \in [Requests -> Deliveries]
      /\ \A s \in Requests : /\ delivery'[s].status = delivery[s].status
                             /\ delivery'[s].attempts = delivery[s].attempts
  <2>. DEFINE q == [delivery[r] EXCEPT !.due = TRUE]
  <2>1. delivery \in [Requests -> Deliveries] /\ delivery' = [delivery EXCEPT ![r] = q]
    BY <1>1 DEF IInvOutbox, TypeOKOutbox, Deliveries
  <2>2. q \in Deliveries /\ q.status = delivery[r].status /\ q.attempts = delivery[r].attempts
    BY <2>1 DEF Deliveries
  <2>. HIDE DEF q
  <2>. QED BY <2>1, <2>2
<1>3. TypeOKOutbox'
  BY <1>1, <1>2 DEF IInvOutbox, TypeOKOutbox, Deliveries
<1>4. TriesWerePosts' /\ SuccessWasAcked'
  <2>1. UNCHANGED <<batch, posting, posts, acked>>
    BY <1>1
  <2>2. \A s \in Requests : delivery'[s].attempts <= posts[s]
    BY <1>2 DEF IInvOutbox, TriesWerePosts
  <2>. QED BY <2>1, <2>2 DEF IInvOutbox, TriesWerePosts, SuccessWasAcked
<1>5. StatusOfTries' /\ DeliveredWasAcknowledged'
  BY <1>1, <1>2 DEF IInvOutbox, StatusOfTries, DeliveredWasAcknowledged
<1>. QED BY <1>3, <1>4, <1>5

-----------------------------------------------------------------------------
(* A step of the workers, a backoff or a crash is a step of Relayer, or    *)
(* none; so its invariant is inherited.                                    *)
LEMMA OutboxStepsRelayer ==
    ASSUME [NextOutbox]_allVars
    PROVE  [Next]_vars
  BY DEF NextOutbox, allVars, Next, CrashAll, WorkerStep, BackoffElapses

(* The inductive invariant holds, on top of that of the requests.          *)
THEOREM OutboxInvariant == SpecOutbox => []IInvOutbox
<1>1. IInvOutbox /\ [NextOutbox]_allVars => IInvOutbox'
  <2>. SUFFICES ASSUME IInvOutbox, [NextOutbox]_allVars PROVE IInvOutbox'
    OBVIOUS
  <2>1. IInvRelayer'
    BY OutboxStepsRelayer, StepKeepsIInv DEF IInvOutbox
  <2>2. CASE UNCHANGED outboxVars
    <3>1. UNCHANGED <<delivery, batch, posting, posts, acked>>
      BY <2>2 DEF outboxVars
    <3>. QED
      BY <2>1, <3>1 DEF IInvOutbox, TypeOKOutbox, TriesWerePosts, StatusOfTries,
         SuccessWasAcked, DeliveredWasAcknowledged
  <2>3. ASSUME NEW w \in Workers, WorkerStep(w) PROVE IInvOutbox'
    BY <2>1, <2>3, FetchKeepsIInv, PostKeepsIInv, RaiseKeepsIInv, RecordKeepsIInv
    DEF WorkerStep, IInvOutbox
  <2>4. CASE CrashAll
    BY <2>1, <2>4, CrashAllKeeps DEF IInvOutbox
  <2>5. ASSUME NEW r \in Requests, BackoffElapses(r) PROVE IInvOutbox'
    BY <2>1, <2>5, BackoffKeeps DEF IInvOutbox
  <2>. QED BY <2>2, <2>3, <2>4, <2>5 DEF NextOutbox, allVars
<1>2. SpecOutbox => SafeOutbox
  BY PTL DEF SpecOutbox, SafeOutbox
<1>. QED BY <1>1, <1>2, InitIInvOutbox, PTL DEF SafeOutbox

(* The requests of the composed system are Relayer's: the workers, the     *)
(* backoffs and their deaths are crashes or stuttering to them, and they   *)
(* keep their fairness.  So what is proved of Relayer holds here too.      *)
THEOREM OutboxImplementsRelayer == SpecOutbox => FairSpec
<1>1. InitOutbox => Init
  BY DEF InitOutbox
<1>2. [NextOutbox]_allVars => [Next]_vars
  BY OutboxStepsRelayer
<1>3. SpecOutbox => \A r \in Requests : Proceeds(r)
  BY PTL DEF SpecOutbox
<1>4. SpecOutbox => SafeOutbox
  BY PTL DEF SpecOutbox, SafeOutbox
<1>5. SafeOutbox => Spec
  BY <1>1, <1>2, PTL DEF SafeOutbox, Spec
<1>. QED BY <1>3, <1>4, <1>5 DEF FairSpec

(* The types; a row that is read has tries left.                           *)
THEOREM OutboxTypes == SpecOutbox => []TypeOKOutbox
  BY OutboxInvariant, PTL DEF IInvOutbox

(* A delivery is given up only after its endpoint was tried MaxTries times. *)
THEOREM AllTriesWereMade == SpecOutbox => []GivenUpAfterAllTries
<1>1. IInvOutbox => GivenUpAfterAllTries
  BY DEF IInvOutbox, TypeOKOutbox, TriesWerePosts, StatusOfTries, GivenUpAfterAllTries
<1>. QED BY <1>1, OutboxInvariant, PTL

(* A delivery recorded as delivered was acknowledged.                      *)
THEOREM DeliveriesWereAcknowledged == SpecOutbox => []DeliveredWasAcknowledged
  BY OutboxInvariant, PTL DEF IInvOutbox

(* A delivery recorded as delivered is final, unless a worker had read its *)
(* row before.                                                             *)
THEOREM DeliveredStaysDelivered == SpecOutbox => DeliveredIsFinal
<1>1. ASSUME IInvOutbox, [NextOutbox]_allVars, NEW r \in Requests,
             delivery[r].status = "delivered", ~Held(r)
      PROVE  /\ delivery'[r].status = "delivered" /\ posts'[r] = posts[r] /\ ~Held(r)'
  <2>1. \A w \in Workers : /\ \A row \in batch[w] : row.submission # r
                           /\ posting[w] # None => posting[w].row.submission # r
    BY <1>1 DEF Held
  <2>0. TypeOKOutbox /\ delivery[r].status = "delivered"
    BY <1>1 DEF IInvOutbox
  <2>2. CASE UNCHANGED outboxVars
    BY <1>1, <2>2 DEF outboxVars, Held
  <2>3. CASE CrashAll
    BY <1>1, <2>3 DEF CrashAll, Held
  <2>4. ASSUME NEW s \in Requests, BackoffElapses(s)
        PROVE  /\ delivery'[r].status = "delivered" /\ posts'[r] = posts[r] /\ ~Held(r)'
    <3>1. delivery' = [delivery EXCEPT ![s].due = TRUE]
      BY <2>4 DEF BackoffElapses
    <3>2. delivery'[r].status = "delivered"
      BY <2>0, <3>1 DEF TypeOKOutbox
    <3>. QED BY <1>1, <2>4, <3>2 DEF BackoffElapses, Held
  <2>5. ASSUME NEW w \in Workers, Fetch(w)
        PROVE  /\ delivery'[r].status = "delivered" /\ posts'[r] = posts[r] /\ ~Held(r)'
    <3>1. \A row \in DueRows : row.submission # r
      BY <1>1, DueRowsRead DEF IInvOutbox, IInvRelayer
    <3>2. \A v \in Workers : batch'[v] = IF v = w THEN DueRows ELSE batch[v]
      BY <2>0, <2>5 DEF Fetch, TypeOKOutbox
    <3>. QED BY <2>1, <2>0, <2>5, <3>1, <3>2 DEF Fetch, Held
  <2>6. ASSUME NEW w \in Workers, Post(w)
        PROVE  /\ delivery'[r].status = "delivered" /\ posts'[r] = posts[r] /\ ~Held(r)'
    <3>1. PICK row \in batch[w], outcome \in Outcomes :
            /\ batch' = [batch EXCEPT ![w] = @ \ {row}]
            /\ posting' = [posting EXCEPT ![w] = [row |-> row, outcome |-> outcome]]
            /\ posts' = [posts EXCEPT ![row.submission] = @ + 1] /\ delivery' = delivery
      BY <2>6 DEF Post
    <3>2. row.submission # r
      BY <2>1, <3>1
    <3>3. posts'[r] = posts[r]
      BY <2>0, <3>1, <3>2 DEF TypeOKOutbox
    <3>4. /\ \A v \in Workers : batch'[v] \subseteq batch[v]
          /\ \A v \in Workers : posting'[v] = IF v = w THEN [row |-> row, outcome |-> outcome]
                                            ELSE posting[v]
      BY <2>0, <3>1 DEF TypeOKOutbox
    <3>5. \A v \in Workers : /\ \A x \in batch'[v] : x.submission # r
                             /\ posting'[v] # None => posting'[v].row.submission # r
      BY <2>1, <3>2, <3>4
    <3>. QED BY <2>0, <3>1, <3>3, <3>5 DEF Held
  <2>7. ASSUME NEW w \in Workers, PostRaises(w)
        PROVE  /\ delivery'[r].status = "delivered" /\ posts'[r] = posts[r] /\ ~Held(r)'
    <3>1. \A v \in Workers : batch'[v] \subseteq batch[v]
      BY <2>0, <2>7 DEF PostRaises, TypeOKOutbox
    <3>. QED BY <2>1, <2>0, <2>7, <3>1 DEF PostRaises, Held
  <2>8. ASSUME NEW w \in Workers, Record(w)
        PROVE  /\ delivery'[r].status = "delivered" /\ posts'[r] = posts[r] /\ ~Held(r)'
    <3>. DEFINE row == posting[w].row
    <3>1. /\ posting[w] # None
          /\ delivery' = [delivery EXCEPT ![row.submission] = Outcome(row, posting[w].outcome)]
          /\ posting' = [posting EXCEPT ![w] = None] /\ UNCHANGED <<batch, posts>>
      BY <2>8 DEF Record
    <3>2. row.submission # r
      BY <2>1, <3>1
    <3>3. delivery'[r] = delivery[r]
      BY <2>0, <3>1, <3>2 DEF TypeOKOutbox
    <3>4. \A v \in Workers : posting'[v] # None => posting'[v] = posting[v]
      BY <2>0, <3>1 DEF TypeOKOutbox
    <3>5. \A v \in Workers : /\ \A x \in batch'[v] : x.submission # r
                             /\ posting'[v] # None => posting'[v].row.submission # r
      BY <2>1, <3>1, <3>4
    <3>. QED BY <2>0, <3>1, <3>3, <3>5 DEF Held
  <2>. QED
    BY <1>1, <2>2, <2>3, <2>4, <2>5, <2>6, <2>7, <2>8 DEF NextOutbox, WorkerStep, allVars
<1>2. IInvOutbox /\ [NextOutbox]_allVars =>
        [\A r \in Requests :
           delivery[r].status = "delivered" /\ ~Held(r)
             => /\ delivery'[r].status = "delivered"
                /\ posts'[r] = posts[r] /\ ~Held(r)']_allVars
  BY <1>1
<1>3. SpecOutbox => SafeOutbox
  BY PTL DEF SpecOutbox, SafeOutbox
<1>. QED BY <1>2, <1>3, OutboxInvariant, PTL DEF SafeOutbox, DeliveredIsFinal
-----------------------------------------------------------------------------
(* What the loop that the service's comments suppose would add: with one   *)
(* worker, started in one process, no row is ever read twice at a time.    *)
OneWorker == \A v, w \in Workers : v = w

(* A submission that is done stays so, and only such a one has a hook: it  *)
(* enqueued it with its last step, and so has no second one.               *)
HooksOfDone ==
    /\ \A h \in outbox : req[h.submission].pc = "done"
    /\ \A g, h \in outbox : g.submission = h.submission => g = h

(* A step of Relayer keeps what is done done, and enqueues at most the     *)
(* webhook of a submission that ends with it.                              *)
LEMMA StepEnqueues ==
    ASSUME IInvRelayer, [Next]_vars
    PROVE  /\ \A r \in Requests : req[r].pc = "done" => req'[r].pc = "done"
           /\ \/ outbox' = outbox
              \/ \E h : /\ outbox' = outbox \cup {h} /\ h.submission \in Requests
                        /\ req[h.submission].pc # "done" /\ req'[h.submission].pc = "done"
<1>1. CASE UNCHANGED vars
  BY <1>1 DEF vars
<1>2. ASSUME NEW r \in Requests, Advance(r)
      PROVE  /\ req[r].pc # "done" /\ \A s \in Requests : s # r => req'[s] = req[s]
             /\ outbox' = outbox \/ (Finish(r) /\ req'[r].pc = "done")
  <2>1. /\ req[r].pc # "done" /\ \A s \in Requests : s # r => req'[s] = req[s]
        /\ Finish(r) => req'[r].pc = "done"
    BY <1>2, AdvanceMoves DEF IInvRelayer, Moves, Finish
  <2>2. Finish(r) \/ outbox' = outbox
    BY <1>2 DEF Advance, Authenticate, Refuse, RejectOffChain, CheckLimit, SubmitFails,
       SubmitSends, InsertLog, UniqueViolation
  <2>. QED BY <2>1, <2>2
<1>3. ASSUME NEW r \in Requests, Advance(r), Finish(r)
      PROVE  \/ outbox' = outbox
             \/ \E h : outbox' = outbox \cup {h} /\ h.submission = r
  <2>. DEFINE hook == [submission |-> r, integrator |-> req[r].integrator,
                       nullifier |-> req[r].nullifier]
  <2>1. outbox' = outbox \/ outbox' = outbox \cup {hook}
    BY <1>3 DEF Finish
  <2>. QED BY <2>1
<1>4. ASSUME NEW r \in Requests, Advance(r)
      PROVE  /\ \A s \in Requests : req[s].pc = "done" => req'[s].pc = "done"
             /\ \/ outbox' = outbox
                \/ \E h : /\ outbox' = outbox \cup {h} /\ h.submission \in Requests
                          /\ req[h.submission].pc # "done" /\ req'[h.submission].pc = "done"
  BY <1>2, <1>3, <1>4
<1>5. CASE Crash
  BY <1>5 DEF Crash, InFlight
<1>6. ASSUME NEW r \in Requests, NEW i \in Integrators, NEW nf \in Nullifiers, Arrive(r, i, nf)
      PROVE  /\ \A s \in Requests : req[s].pc = "done" => req'[s].pc = "done"
             /\ outbox' = outbox
  BY <1>6 DEF Arrive, IInvRelayer, TypeOK
<1>7. CASE \/ \E i \in Integrators, setting \in Settings : UpdateSettings(i, setting)
           \/ LedgerIncludes \/ Tick
  BY <1>7 DEF UpdateSettings, LedgerIncludes, Tick
<1>. QED BY <1>1, <1>4, <1>5, <1>6, <1>7 DEF Next, Environment

(* Each submission has at most one webhook, enqueued by its last step.     *)
LEMMA HooksStayOfDone ==
    ASSUME IInvRelayer, HooksOfDone, [Next]_vars
    PROVE  HooksOfDone'
<1>1. \A h \in outbox : h.submission \in Requests
  BY DEF IInvRelayer, TypeOK
<1>2. CASE outbox' = outbox
  BY <1>1, <1>2, StepEnqueues DEF HooksOfDone
<1>3. ASSUME NEW h, outbox' = outbox \cup {h}, h.submission \in Requests,
             req[h.submission].pc # "done", req'[h.submission].pc = "done"
      PROVE  HooksOfDone'
  BY <1>1, <1>3, StepEnqueues DEF HooksOfDone
<1>. QED BY <1>2, <1>3, StepEnqueues

(* The row in a worker's hands is the row in the table, and it is in one   *)
(* place: waiting in the batch, or posted.                                 *)
Current(row) == /\ delivery[row.submission].status = "pending"
                /\ delivery[row.submission].attempts = row.attempts

Posted(r) == \E w \in Workers : posting[w] # None /\ posting[w].row.submission = r

RowsAreCurrent ==
    \A w \in Workers :
        /\ \A row \in batch[w] : Current(row) /\ ~Posted(row.submission)
        /\ \A row, other \in batch[w] : row.submission = other.submission => row = other
        /\ posting[w] # None => Current(posting[w].row)

(* Posts that no count in the table shows: the one whose outcome is not    *)
(* written yet, and one for each crash that came in between.               *)
PostsCounted ==
    \A r \in Requests :
        posts[r] <= delivery[r].attempts + crashes + (IF Posted(r) THEN 1 ELSE 0)

IInvAlone == HooksOfDone /\ RowsAreCurrent /\ PostsCounted

(* What was delivered or given up stays so and is not posted again.        *)
SettledIsFinal ==
    [][\A r \in Requests :
          delivery[r].status # "pending"
              => delivery'[r].status = delivery[r].status /\ posts'[r] = posts[r]]_allVars

Keeps(r) == delivery'[r].status = delivery[r].status /\ posts'[r] = posts[r]
SettledKept == \A r \in Requests : delivery[r].status # "pending" => Keeps(r)
(* What is read is current, and each row of the table is read once.        *)
LEMMA FetchAlone ==
    ASSUME OneWorker, IInvOutbox, IInvAlone, NEW w \in Workers, Fetch(w), UNCHANGED vars
    PROVE  RowsAreCurrent' /\ PostsCounted' /\ SettledKept
<1>1. /\ posting[w] = None /\ batch' = [batch EXCEPT ![w] = DueRows]
      /\ UNCHANGED <<delivery, posting, posts, crashes>>
  BY DEF Fetch, Idle, vars
<1>2. \A v \in Workers : v = w /\ batch'[v] = DueRows /\ posting[v] = None
  BY <1>1 DEF OneWorker, IInvOutbox, TypeOKOutbox
<1>3. \A row \in DueRows : Current(row)
  BY DueRowsRead DEF IInvOutbox, IInvRelayer, Current
<1>4. ASSUME NEW row \in DueRows, NEW other \in DueRows, row.submission = other.submission
      PROVE  row = other
  <2>1. PICK h \in outbox :
          row = [submission |-> h.submission, attempts |-> delivery[h.submission].attempts,
                 url |-> settings[h.integrator].url]
    BY DEF DueRows
  <2>2. PICK g \in outbox :
          other = [submission |-> g.submission, attempts |-> delivery[g.submission].attempts,
                   url |-> settings[g.integrator].url]
    BY DEF DueRows
  <2>3. g = h
    BY <1>4, <2>1, <2>2 DEF IInvAlone, HooksOfDone
  <2>. QED BY <2>1, <2>2, <2>3
<1>5. RowsAreCurrent'
  BY <1>1, <1>2, <1>3, <1>4 DEF RowsAreCurrent, Current, Posted
<1>. QED BY <1>1, <1>5 DEF IInvAlone, PostsCounted, Posted, SettledKept, Keeps

(* The row that is posted leaves the batch; its post is the one uncounted. *)
LEMMA PostAlone ==
    ASSUME OneWorker, IInvOutbox, IInvAlone, NEW w \in Workers, Post(w), UNCHANGED vars
    PROVE  RowsAreCurrent' /\ PostsCounted' /\ SettledKept
<1>1. PICK row \in batch[w], outcome \in Outcomes :
        /\ batch' = [batch EXCEPT ![w] = @ \ {row}]
        /\ posting' = [posting EXCEPT ![w] = [row |-> row, outcome |-> outcome]]
        /\ posts' = [posts EXCEPT ![row.submission] = @ + 1]
        /\ delivery' = delivery /\ crashes' = crashes
  BY DEF Post, vars
<1>. DEFINE held == [row |-> row, outcome |-> outcome]
<1>2. row \in RowCopy /\ held \in [row : RowCopy, outcome : Outcomes] /\ held.row = row
  BY <1>1 DEF IInvOutbox, TypeOKOutbox
<1>3. row.submission \in Requests /\ posting[w] = None
  BY <1>2 DEF RowCopy, Post
<1>. HIDE DEF held
<1>4. /\ \A v \in Workers : v = w /\ batch'[v] = batch[v] \ {row} /\ posting'[v] = held
      /\ \A r \in Requests : /\ posts[r] \in Nat /\ delivery[r].attempts \in Nat
                             /\ posts'[r] = IF r = row.submission THEN posts[r] + 1
                                                                  ELSE posts[r]
      /\ crashes \in Nat
  <2>1. crashes \in Nat
    BY DEF IInvOutbox, IInvRelayer, TypeOK
  <2>. QED BY <1>1, <1>2, <1>3, <2>1 DEF held, OneWorker, IInvOutbox, TypeOKOutbox
<1>5. held # None => \A r \in Requests : Posted(r)' <=> r = row.submission
  BY <1>2, <1>4 DEF Posted
<1>6. held # None
  BY <1>2, OutboxAssumption
<1>7. \A x \in batch[w] : /\ Current(x) /\ x \in RowCopy
                          /\ x.submission = row.submission => x = row
  BY <1>1 DEF IInvAlone, RowsAreCurrent, IInvOutbox, TypeOKOutbox
<1>8. RowsAreCurrent'
  <2>1. \A x \in batch[w] \ {row} : Current(x)' /\ ~Posted(x.submission)'
    BY <1>1, <1>5, <1>6, <1>7 DEF Current, RowCopy
  <2>2. Current(held.row)'
    BY <1>1, <1>2, <1>7 DEF Current
  <2>3. \A x, y \in batch[w] : x.submission = y.submission => x = y
    BY DEF IInvAlone, RowsAreCurrent
  <2>. QED BY <1>4, <2>1, <2>2, <2>3 DEF RowsAreCurrent
<1>9. ASSUME NEW r \in Requests, r = row.submission
      PROVE  posts'[r] <= delivery'[r].attempts + crashes' + (IF Posted(r)' THEN 1 ELSE 0)
  <2>1. posts[r] <= delivery[r].attempts + crashes
    BY <1>1, <1>3, <1>4, <1>9 DEF IInvAlone, PostsCounted, RowsAreCurrent
  <2>. QED BY <1>1, <1>4, <1>5, <1>6, <1>9, <2>1
<1>10. ASSUME NEW r \in Requests, r # row.submission
       PROVE  posts'[r] <= delivery'[r].attempts + crashes' + (IF Posted(r)' THEN 1 ELSE 0)
  <2>1. ~Posted(r) => posts[r] <= delivery[r].attempts + crashes
    BY <1>4 DEF IInvAlone, PostsCounted
  <2>2. ~Posted(r)
    BY <1>3, <1>4 DEF Posted
  <2>. QED BY <1>1, <1>4, <1>5, <1>6, <1>10, <2>1, <2>2
<1>11. SettledKept
  BY <1>1, <1>4, <1>7 DEF SettledKept, Keeps, Current
<1>. QED BY <1>8, <1>9, <1>10, <1>11 DEF PostsCounted

(* The rest of a batch is dropped; its rows stay pending in the table.     *)
LEMMA RaiseAlone ==
    ASSUME IInvOutbox, IInvAlone, NEW w \in Workers, PostRaises(w), UNCHANGED vars
    PROVE  RowsAreCurrent' /\ PostsCounted' /\ SettledKept
<1>1. UNCHANGED <<delivery, posting, posts, crashes>> /\ posting[w] = None
  BY DEF PostRaises, vars
<1>2. \A v \in Workers : batch'[v] \subseteq batch[v]
  BY DEF PostRaises, IInvOutbox, TypeOKOutbox
<1>. QED
  BY <1>1, <1>2 DEF IInvAlone, RowsAreCurrent, Current, Posted, PostsCounted, SettledKept, Keeps

(* The count that is written is one more than the count in the table.      *)
LEMMA RecordAlone ==
    ASSUME OneWorker, IInvOutbox, IInvAlone, NEW w \in Workers, Record(w), UNCHANGED vars
    PROVE  RowsAreCurrent' /\ PostsCounted' /\ SettledKept
<1>. DEFINE row == posting[w].row
            new == Outcome(row, posting[w].outcome)
<1>1. /\ posting[w] # None /\ delivery' = [delivery EXCEPT ![row.submission] = new]
      /\ posting' = [posting EXCEPT ![w] = None] /\ UNCHANGED <<batch, posts, crashes>>
  BY DEF Record, vars
<1>2. row \in RowCopy /\ row.submission \in Requests /\ row.attempts \in Nat
  BY <1>1 DEF IInvOutbox, TypeOKOutbox, RowCopy
<1>3. new.attempts = row.attempts + 1
  BY DEF Outcome
<1>4. Current(row)
  BY <1>1 DEF IInvAlone, RowsAreCurrent
<1>. HIDE DEF new
<1>5. /\ \A v \in Workers : v = w /\ posting'[v] = None
      /\ \A r \in Requests : /\ delivery'[r] = IF r = row.submission THEN new ELSE delivery[r]
                             /\ delivery[r].attempts \in Nat /\ posts[r] \in Nat
      /\ crashes \in Nat
  <2>1. crashes \in Nat
    BY DEF IInvOutbox, IInvRelayer, TypeOK
  <2>. QED BY <1>1, <1>2, <2>1 DEF OneWorker, IInvOutbox, TypeOKOutbox
<1>6. \A r : Posted(r) <=> r = row.submission
  BY <1>1, <1>5 DEF Posted
<1>7. RowsAreCurrent'
  <2>1. \A x \in batch[w] : Current(x) /\ x.submission # row.submission /\ x.submission \in Requests
    BY <1>6 DEF IInvAlone, RowsAreCurrent, IInvOutbox, TypeOKOutbox, RowCopy
  <2>2. \A x \in batch[w] : Current(x)' /\ ~Posted(x.submission)'
    BY <1>5, <2>1 DEF Current, Posted
  <2>3. \A x, y \in batch[w] : x.submission = y.submission => x = y
    BY DEF IInvAlone, RowsAreCurrent
  <2>. QED BY <1>1, <1>5, <2>2, <2>3 DEF RowsAreCurrent
<1>8. PostsCounted'
  <2>. SUFFICES ASSUME NEW r \in Requests
                PROVE  posts'[r] <= delivery'[r].attempts + crashes'
                                      + (IF Posted(r)' THEN 1 ELSE 0)
    BY DEF PostsCounted
  <2>1. posts[r] <= delivery[r].attempts + crashes + (IF r = row.submission THEN 1 ELSE 0)
    BY <1>6 DEF IInvAlone, PostsCounted
  <2>2. ~Posted(r)'
    BY <1>5 DEF Posted
  <2>. QED BY <1>1, <1>2, <1>3, <1>4, <1>5, <2>1, <2>2 DEF Current
<1>9. SettledKept
  BY <1>1, <1>4, <1>5 DEF SettledKept, Keeps, Current
<1>. QED BY <1>7, <1>8, <1>9

(* A crash loses at most the one post that was not written back.           *)
LEMMA CrashAlone ==
    ASSUME IInvOutbox, IInvAlone, CrashAll
    PROVE  RowsAreCurrent' /\ PostsCounted' /\ SettledKept
<1>1. /\ batch' = [w \in Workers |-> {}] /\ posting' = [w \in Workers |-> None]
      /\ UNCHANGED <<delivery, posts>> /\ crashes' = crashes + 1
  BY DEF CrashAll, Crash
<1>2. /\ \A r : ~Posted(r)'
      /\ \A r \in Requests : delivery[r].attempts \in Nat /\ posts[r] \in Nat
      /\ crashes \in Nat
  <2>1. crashes \in Nat
    BY DEF IInvOutbox, IInvRelayer, TypeOK
  <2>. QED BY <1>1, <2>1 DEF Posted, IInvOutbox, TypeOKOutbox
<1>3. RowsAreCurrent'
  BY <1>1 DEF RowsAreCurrent
<1>4. PostsCounted'
  <2>. SUFFICES ASSUME NEW r \in Requests
                PROVE  posts'[r] <= delivery'[r].attempts + crashes'
                                      + (IF Posted(r)' THEN 1 ELSE 0)
    BY DEF PostsCounted
  <2>1. posts[r] <= delivery[r].attempts + crashes + (IF Posted(r) THEN 1 ELSE 0)
    BY DEF IInvAlone, PostsCounted
  <2>. QED BY <1>1, <1>2, <2>1
<1>. QED BY <1>1, <1>3, <1>4 DEF SettledKept, Keeps

(* Time and the requests leave what the workers hold alone.                *)
LEMMA OthersAlone ==
    ASSUME IInvOutbox, IInvAlone,
           UNCHANGED <<batch, posting, posts, crashes>>,
           \A r \in Requests : /\ delivery'[r].status = delivery[r].status
                               /\ delivery'[r].attempts = delivery[r].attempts
    PROVE  RowsAreCurrent' /\ PostsCounted' /\ SettledKept
<1>1. \A w \in Workers : /\ \A row \in batch[w] : row.submission \in Requests
                         /\ posting[w] # None => posting[w].row.submission \in Requests
  BY DEF IInvOutbox, TypeOKOutbox, RowCopy
<1>2. RowsAreCurrent'
  BY <1>1 DEF IInvAlone, RowsAreCurrent, Current, Posted
<1>3. PostsCounted'
  BY DEF IInvAlone, PostsCounted, Posted
<1>. QED BY <1>2, <1>3 DEF SettledKept, Keeps

(* Every step of the composed system with one worker.                      *)
LEMMA StepAlone ==
    ASSUME OneWorker, IInvOutbox, IInvAlone, [NextOutbox]_allVars
    PROVE  IInvAlone' /\ SettledKept
<1>1. HooksOfDone'
  BY OutboxStepsRelayer, HooksStayOfDone DEF IInvOutbox, IInvAlone
<1>2. CASE \/ UNCHANGED allVars
           \/ (Environment \/ \E r \in Requests : Advance(r)) /\ UNCHANGED outboxVars
  <2>1. UNCHANGED <<delivery, batch, posting, posts, crashes>>
    BY <1>2 DEF outboxVars, allVars, vars, Environment, Arrive, UpdateSettings,
       LedgerIncludes, Tick, Advance, Authenticate, Refuse, RejectOffChain, CheckLimit,
       SubmitFails, SubmitSends, InsertLog, Finish
  <2>. QED BY <1>1, <2>1, OthersAlone DEF IInvAlone
<1>3. ASSUME NEW w \in Workers, WorkerStep(w) PROVE IInvAlone' /\ SettledKept
  BY <1>1, <1>3, FetchAlone, PostAlone, RaiseAlone, RecordAlone DEF WorkerStep, IInvAlone
<1>4. CASE CrashAll
  BY <1>1, <1>4, CrashAlone DEF IInvAlone
<1>5. ASSUME NEW r \in Requests, BackoffElapses(r) PROVE IInvAlone' /\ SettledKept
  <2>1. /\ delivery' = [delivery EXCEPT ![r].due = TRUE]
        /\ UNCHANGED <<batch, posting, posts, crashes>>
    BY <1>5 DEF BackoffElapses, vars
  <2>2. \A s \in Requests : /\ delivery'[s].status = delivery[s].status
                            /\ delivery'[s].attempts = delivery[s].attempts
    BY <2>1 DEF IInvOutbox, TypeOKOutbox
  <2>. QED BY <1>1, <2>1, <2>2, OthersAlone DEF IInvAlone
<1>. QED BY <1>2, <1>3, <1>4, <1>5 DEF NextOutbox

LEMMA InitAlone == InitOutbox => IInvAlone
BY DEF InitOutbox, Init, NewDelivery, IInvAlone, HooksOfDone, RowsAreCurrent, PostsCounted

LEMMA AloneInvariant == SpecOutbox /\ OneWorker => []IInvAlone
<1>. SUFFICES ASSUME OneWorker PROVE SpecOutbox => []IInvAlone
  OBVIOUS
<1>1. IInvOutbox /\ IInvAlone /\ [NextOutbox]_allVars => IInvAlone'
  BY StepAlone
<1>2. SpecOutbox => SafeOutbox
  BY PTL DEF SpecOutbox, SafeOutbox
<1>. QED BY <1>1, <1>2, InitAlone, OutboxInvariant, PTL DEF SafeOutbox

(* With one worker a delivery that ended is neither reopened nor posted    *)
(* again: what DeliveredIsFinal excepts is only what overlapping runs of   *)
(* process_pending_webhooks do to each other.                              *)
THEOREM OneWorkerSettlesOnce == SpecOutbox /\ OneWorker => SettledIsFinal
<1>. SUFFICES ASSUME OneWorker PROVE SpecOutbox => SettledIsFinal
  OBVIOUS
<1>1. IInvOutbox /\ IInvAlone /\ [NextOutbox]_allVars =>
        [\A r \in Requests :
           delivery[r].status # "pending"
             => delivery'[r].status = delivery[r].status /\ posts'[r] = posts[r]]_allVars
  BY StepAlone DEF SettledKept, Keeps
<1>2. SpecOutbox => SafeOutbox
  BY PTL DEF SpecOutbox, SafeOutbox
<1>. QED BY <1>1, <1>2, AloneInvariant, OutboxInvariant, PTL DEF SafeOutbox, SettledIsFinal

(* An endpoint is then posted to at most WEBHOOK_MAX_RETRIES times, and    *)
(* once more for each time the process died.                               *)
PostsBounded == \A r \in Requests : posts[r] <= MaxTries + crashes

(* With one worker no endpoint is posted to more often than that.          *)
THEOREM OneWorkerPostsBounded == SpecOutbox /\ OneWorker => []PostsBounded
<1>1. IInvOutbox /\ IInvAlone => PostsBounded
  <2>. SUFFICES ASSUME IInvOutbox, IInvAlone, NEW r \in Requests
                PROVE  posts[r] <= MaxTries + crashes
    BY DEF PostsBounded
  <2>1. /\ posts[r] \in Nat /\ crashes \in Nat /\ delivery[r].attempts \in 0 .. MaxTries
        /\ posts[r] <= delivery[r].attempts + crashes + (IF Posted(r) THEN 1 ELSE 0)
    BY DEF IInvOutbox, IInvRelayer, TypeOK, TypeOKOutbox, IInvAlone, PostsCounted
  <2>2. Posted(r) => delivery[r].attempts < MaxTries
    BY DEF Posted, IInvAlone, RowsAreCurrent, Current, IInvOutbox, StatusOfTries
  <2>. QED BY <2>1, <2>2
<1>. QED BY <1>1, AloneInvariant, OutboxInvariant, PTL
-----------------------------------------------------------------------------
(* Deliveries going on beside them keep no request from its answer.        *)
THEOREM OutboxAnswersRequests == SpecOutbox /\ []AdvanceEnabled => EveryRequestAnswered
  BY OutboxImplementsRelayer, RequestsAreAnswered
=============================================================================
