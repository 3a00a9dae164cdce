--------------------------- MODULE DeliveryProofs ---------------------------
(***************************************************************************)
(* Type correctness of Delivery for every value of its constants.          *)
(***************************************************************************)
EXTENDS Delivery, TLAPS

USE DeliveryAssumption DEF vars, history

-----------------------------------------------------------------------------
(* What the helpers return. *)

\* A transition returns a status or refuses.
LEMMA TransitionType ==
  ASSUME NEW current \in Statuses, NEW next \in Statuses
  PROVE  Transition(current, next) \in Statuses \cup {"refused"}
  BY DEF Transition, Statuses

\* The empty records are well formed.
LEMMA Constants ==
  /\ NoAttempt \in Attempts /\ NoNote \in Notes /\ NoTask \in Tasks
  /\ NoThread \in ThreadRecords
  /\ Closed \in [instance : Nat, recipient : Nat]
  /\ Idle \in Drafts
<1>1. NoAttempt \in Attempts
  BY DEF NoAttempt, Attempts
<1>2. NoNote \in Notes /\ NoTask \in Tasks
  BY <1>1 DEF NoNote, NoTask, Notes, Tasks, Statuses
<1>3. NoThread \in ThreadRecords
  BY <1>1 DEF NoThread, ThreadRecords, Statuses, Provider
<1> QED
  BY <1>1, <1>2, <1>3 DEF Closed, Provider, Drafts

\* The fields of a subject are well formed.
LEMMA SubjectTypes ==
  ASSUME TypeOK, NEW k \in Slots
  PROVE  /\ Subject(k) \in Nat /\ Status(k) \in Statuses
         /\ AttemptOf(k) \in Attempts /\ Recipient(k) \in Nat
  BY DEF TypeOK, Slots, Subject, Status, AttemptOf, Recipient, Descriptors, Notes,
         Tasks, ThreadRecords

\* Saving a status leaves a descriptor.
LEMMA SavedInType ==
  ASSUME NEW d \in Descriptors, NEW K, NEW status \in Statuses
  PROVE  SavedIn(d, K, status) \in Descriptors
<1>1. [d.note EXCEPT !.status = IF "note" \in K THEN status ELSE @] \in Notes
  BY DEF Descriptors, Notes
<1>2. [d.task EXCEPT !.status = IF "task" \in K THEN status ELSE @] \in Tasks
  BY DEF Descriptors, Tasks
<1> QED
  BY <1>1, <1>2 DEF SavedIn, Descriptors

\* So does a claim.
LEMMA ClaimedInType ==
  ASSUME NEW d \in Descriptors, NEW k, NEW a \in Attempts
  PROVE  ClaimedIn(d, k, a) \in Descriptors
<1> DEFINE e == SavedIn(d, {k}, "sending")
<1>1. e \in Descriptors
  BY SavedInType DEF Statuses
<1>2. [e.note EXCEPT !.attempt = IF k = "note" THEN a ELSE @] \in Notes
  BY <1>1 DEF Descriptors, Notes
<1>3. [e.task EXCEPT !.attempt = IF k = "task" THEN a ELSE @] \in Tasks
  BY <1>1 DEF Descriptors, Tasks
<1> HIDE DEF e
<1>4. [e EXCEPT !.note.attempt = IF k = "note" THEN a ELSE @,
                !.task.attempt = IF k = "task" THEN a ELSE @] \in Descriptors
  BY <1>1, <1>2, <1>3 DEF Descriptors
<1> QED
  BY <1>4 DEF e, ClaimedIn

\* Cancelling the task leaves a descriptor.
LEMMA CancelledType ==
  ASSUME NEW d \in Descriptors PROVE Cancelled(d) \in Descriptors
<1>1. [d.task EXCEPT !.active = FALSE] \in Tasks
  BY DEF Descriptors, Tasks
<1> QED
  BY <1>1 DEF Cancelled, Descriptors

\* Recovery leaves a descriptor.
LEMMA RecoveredType ==
  ASSUME NEW d \in Descriptors PROVE Recovered(d) \in Descriptors
<1>1. Cancelled(d) \in Descriptors
  BY CancelledType
<1>2. [Cancelled(d).note EXCEPT !.status =
          IF @ \in {"pending", "sending"} THEN "unknown" ELSE @] \in Notes
  BY <1>1 DEF Descriptors, Notes, Statuses
<1> QED
  BY <1>1, <1>2 DEF Recovered, Descriptors

\* Saving and claiming questions leave thread records.
LEMMA SavedThreadsType ==
  ASSUME TypeOK, NEW K, NEW status \in Statuses
  PROVE  SavedThreads(K, status) \in [Threads -> ThreadRecords]
<1>1. \A t \in Threads : [threads[t] EXCEPT !.status = status] \in ThreadRecords
  BY DEF TypeOK, ThreadRecords
<1> QED
  BY <1>1 DEF TypeOK, SavedThreads

LEMMA ClaimedThreadsType ==
  ASSUME TypeOK, NEW k, NEW a \in Attempts
  PROVE  ClaimedThreads(k, a) \in [Threads -> ThreadRecords]
<1>1. \A t \in Threads : [threads[t] EXCEPT !.status = "sending", !.attempt = a,
                                            !.required = TRUE] \in ThreadRecords
  BY DEF TypeOK, ThreadRecords, Statuses
<1> QED
  BY <1>1 DEF TypeOK, ClaimedThreads

\* A draft stays well formed when it becomes stale.
LEMMA StaleType ==
  ASSUME TypeOK, NEW w \in Writers
  PROVE  Stale(w) \in Drafts
<1>1. drafts[w] \in Drafts
  BY DEF TypeOK
<1> QED
  BY <1>1 DEF Stale, Drafts, Idle

\* A commit leaves a well-formed document and well-formed drafts.
LEMMA CommitType ==
  ASSUME TypeOK, NEW T \in [Threads -> ThreadRecords], CommitDiscussion(T)
  PROVE  threads' \in [Threads -> ThreadRecords] /\ drafts' \in [Writers -> Drafts]
  BY StaleType DEF CommitDiscussion

LEMMA CommitIfType ==
  ASSUME TypeOK, NEW T \in [Threads -> ThreadRecords], NEW c, CommitIf(c, T)
  PROVE  threads' \in [Threads -> ThreadRecords] /\ drafts' \in [Writers -> Drafts]
  BY CommitType DEF CommitIf, TypeOK

\* What leaves is an envelope.
LEMMA EnvelopeType ==
  ASSUME TypeOK, NEW k \in Slots, NEW a \in Attempts, NEW n \in Nat
  PROVE  Claimed(k, a) \in Envelopes /\ Unclaimed(k, n) \in Envelopes
<1>1. Subject(k) \in Nat /\ Recipient(k) \in Nat
  BY SubjectTypes
<1>2. Claimed(k, a) \in Envelopes
  BY <1>1 DEF Claimed, Envelopes, Attempts, Slots
<1>3. Unclaimed(k, n) \in Envelopes
  BY <1>1 DEF Unclaimed, Envelopes, Slots
<1> QED
  BY <1>2, <1>3

\* A failed save in the middle leaves well-formed state.
LEMMA SaveSomeType ==
  ASSUME TypeOK, NEW d \in Descriptors, NEW P, SaveSome(d, P)
  PROVE  /\ s' \in Descriptors /\ disk' \in Descriptors
         /\ threads' \in [Threads -> ThreadRecords] /\ drafts' \in [Writers -> Drafts]
<1>1. "unknown" \in Statuses
  BY DEF Statuses
<1>2. s' \in Descriptors
  BY <1>1, SavedInType DEF SaveSome
<1>3. disk' \in Descriptors
  BY <1>2 DEF SaveSome, TypeOK
<1>4. SavedThreads(P, "unknown") \in [Threads -> ThreadRecords]
  BY <1>1, SavedThreadsType
<1>5. CommitIf(P \cap Threads # {}, SavedThreads(P, "unknown"))
  BY DEF SaveSome
<1> QED
  BY <1>2, <1>3, <1>4, <1>5, CommitIfType

-----------------------------------------------------------------------------
(* Requests about threads. *)

Requests ==
  {a \in [action : {"create", "ask", "claim", "reply", "delivery",
                    "answer-failed", "resolve", "reopen", "retry"},
          question : Nat, attempt : Nat, status : Statuses,
          key : Keys \cup {Direct}, recipient : Nat] :
     a.action = "reply" => a.key \in Keys}

\* Whoever asks names identities that exist.
LEMMA RequestType ==
  ASSUME TypeOK, NEW t \in Threads, NEW R \in SUBSET Nat,
         NEW a \in RequestsAbout(t, R)
  PROVE  a \in Requests /\ a.action \in Events
<1> SUFFICES a \in Requests
  BY DEF RequestsAbout
<1> DEFINE q == threads[t].question
           seen == {<<q, 0, threads[t].recipient>>} \cup
                   {<<e.subject, e.attempt, e.recipient>> :
                       e \in {x \in sent : x.slot = t}}
<1>1. q \in Nat /\ threads[t].recipient \in Nat
  BY DEF TypeOK, ThreadRecords
<1>2. \A c \in seen : c[1] \in Nat /\ c[2] \in Nat /\ c[3] \in Nat
  BY <1>1 DEF TypeOK, Envelopes
<1>3. Provider \in Nat /\ "none" \in Statuses
  BY DEF Provider, Statuses
<1>4. CASE \E x \in {"claim", "resolve", "reopen"} :
              a = Request(x, q, 0, "none", Direct, Provider)
  BY <1>1, <1>3, <1>4 DEF Request, Requests
<1>5. CASE \E x \in {"create", "ask", "retry"}, r \in R :
              a = Request(x, q, 0, "none", Direct, r)
  BY <1>1, <1>3, <1>5 DEF Request, Requests
<1>6. CASE \E c \in seen, k \in Keys :
              a = Request("reply", c[1], c[2], "none", k, c[3])
  BY <1>2, <1>3, <1>6 DEF Request, Requests
<1>7. CASE \E c \in seen, x \in Receipts :
              a = Request("delivery", c[1], c[2], x, Direct, c[3])
  BY <1>2, <1>7 DEF Request, Requests, DeliveryAssumption
<1>8. CASE \E c \in seen :
              a = Request("answer-failed", c[1], c[2], "none", Direct, c[3])
  BY <1>2, <1>3, <1>8 DEF Request, Requests
<1>9. a \in UNION {
        {Request(x, q, 0, "none", Direct, Provider) :
            x \in {"claim", "resolve", "reopen"}},
        {Request(x, q, 0, "none", Direct, r) :
            x \in {"create", "ask", "retry"}, r \in R},
        {Request("reply", c[1], c[2], "none", k, c[3]) : c \in seen, k \in Keys},
        {Request("delivery", c[1], c[2], x, Direct, c[3]) :
            c \in seen, x \in Receipts},
        {Request("answer-failed", c[1], c[2], "none", Direct, c[3]) : c \in seen}}
  BY DEF RequestsAbout
<1> HIDE DEF seen, q
<1> QED
  BY <1>4, <1>5, <1>6, <1>7, <1>8, <1>9

\* An applicable request leaves a thread record.
LEMMA ApplyType ==
  ASSUME NEW T \in ThreadRecords, NEW a \in Requests, NEW n \in Nat,
         Applicable(T, a)
  PROVE  ApplyDiscussion(T, a, n) \in ThreadRecords
<1>1. CASE a.action \in {"create", "ask"}
  BY <1>1, Constants DEF ApplyDiscussion, ThreadRecords, Requests, Statuses
<1>2. CASE a.action = "claim"
  <2>1. [id |-> n, consumer |-> Direct, instance |-> 0,
         recipient |-> T.recipient] \in Attempts
    BY DEF Attempts, ThreadRecords
  <2> QED
    BY <1>2, <2>1 DEF ApplyDiscussion, ThreadRecords, Statuses
<1>3. CASE a.action = "reply"
  <2>1. [key |-> a.key, question |-> a.question] \in [key : Keys, question : Nat]
    BY <1>3 DEF Requests
  <2> QED
    BY <1>3, <2>1 DEF ApplyDiscussion, ThreadRecords, Statuses
<1>4. CASE a.action = "delivery"
  <2>1. Transition(T.status, a.status) \in Statuses
    BY <1>4, TransitionType DEF Applicable, ThreadRecords, Requests
  <2> QED
    BY <1>4, <2>1 DEF ApplyDiscussion, ThreadRecords
<1>5. CASE a.action = "answer-failed"
  BY <1>5 DEF ApplyDiscussion, ThreadRecords, Statuses
<1>6. CASE a.action \in {"resolve", "reopen"}
  BY <1>6 DEF ApplyDiscussion, ThreadRecords
<1>7. CASE a.action = "retry"
  BY <1>7, Constants DEF ApplyDiscussion, ThreadRecords, Requests, Statuses
<1>8. a.action \in {"create", "ask", "claim", "reply", "delivery",
                    "answer-failed", "resolve", "reopen", "retry"}
  BY DEF Requests
<1> QED
  BY <1>1, <1>2, <1>3, <1>4, <1>5, <1>6, <1>7, <1>8

\* A record of the numbers stays one when a number is raised.
LEMMA NumbersType ==
  ASSUME TypeOK
  PROVE  /\ [last EXCEPT !.subject = @ + 1] \in Numbers
         /\ [last EXCEPT !.copy = @ + 1] \in Numbers
         /\ [last EXCEPT !.instance = @ + 1] \in Numbers
         /\ [last EXCEPT !.binding = @ + 1] \in Numbers
         /\ last.subject \in Nat /\ last.copy \in Nat
         /\ last.instance \in Nat /\ last.binding \in Nat
  BY DEF TypeOK, Numbers

\* The identity that a request takes is a number.
LEMMA AllocateType ==
  ASSUME TypeOK, NEW a, Allocate(a)
  PROVE  Fresh(a) \in Nat /\ last' \in Numbers
<1>1. last \in [subject : Nat, copy : Nat, instance : Nat, binding : Nat]
  BY DEF TypeOK, Numbers
<1>2. last.subject \in Nat /\ last.copy \in Nat
  BY <1>1
<1>3. Fresh(a) \in Nat
  BY <1>2 DEF Fresh, NewQuestion
<1>4. CASE NewQuestion(a) /\ ~Exposes(a)
  <2>1. last' = [last EXCEPT !.subject = @ + 1]
    BY <1>1, <1>4 DEF Allocate
  <2> QED
    BY <1>3, <2>1, NumbersType
<1>5. CASE Exposes(a) /\ ~NewQuestion(a)
  <2>1. last' = [last EXCEPT !.copy = @ + 1]
    BY <1>1, <1>5 DEF Allocate
  <2> QED
    BY <1>3, <2>1, NumbersType
<1>6. CASE ~Exposes(a) /\ ~NewQuestion(a)
  BY <1>1, <1>3, <1>6 DEF Allocate, Numbers
<1>7. ~(Exposes(a) /\ NewQuestion(a))
  BY DEF Exposes, NewQuestion
<1> QED
  BY <1>3, <1>4, <1>5, <1>6, <1>7 DEF Numbers

\* What a request means for the history is well formed.
LEMMA EffectType ==
  ASSUME TypeOK, NEW t \in Threads, NEW a \in Requests, NEW n \in Nat
  PROVE  Effect(t, a, n) \in Effects
<1>1. threads[t].question \in Nat /\ threads[t].recipient \in Nat
  BY DEF TypeOK, ThreadRecords
<1>2. DirectAttempt(t, n) \in Attempts
  BY <1>1 DEF DirectAttempt, Attempts
<1>3. Claimed(t, DirectAttempt(t, n)) \in Envelopes /\ Unclaimed(t, n) \in Envelopes
  BY <1>2, EnvelopeType DEF Slots
<1>4. \A st \in Statuses : <<a.attempt, st>> \in Nat \X Statuses
  BY DEF Requests
<1>5. <<a.attempt, CASE a.action = "reply" -> "answered"
                     [] a.action = "delivery" -> a.status
                     [] OTHER -> "failed">> \in Nat \X Statuses
  BY <1>4 DEF Requests, Statuses
<1>6. Effect(t, a, n).asked \in SUBSET Nat
  BY <1>1 DEF Effect
<1>7. Effect(t, a, n).exposed \in SUBSET Envelopes
  BY <1>3 DEF Effect
<1>8. Effect(t, a, n).said \in SUBSET (Nat \X Statuses)
  BY <1>5 DEF Effect
<1> QED
  BY <1>6, <1>7, <1>8 DEF Effect, Effects

LEMMA RecordType ==
  ASSUME TypeOK, NEW f \in Effects, Record(f)
  PROVE  /\ due' \subseteq Nat /\ sent' \subseteq Envelopes
         /\ reported' \subseteq Nat \X Statuses
  BY DEF TypeOK, Record, Effects

-----------------------------------------------------------------------------
(* Consumers. *)

LEMMA OpenConsumerType ==
  ASSUME TypeOK, NEW c \in Consumers, NEW r \in Nat, OpenConsumer(c, r)
  PROVE  TypeOK'
<1> DEFINE mine == Unfinished(s, c)
           d == SavedIn(s, mine, "unknown")
<1>1. "unknown" \in Statuses
  BY DEF Statuses
<1>2. d \in Descriptors
  BY <1>1, SavedInType DEF TypeOK
<1>3. last' \in Numbers /\ last'.instance \in Nat
  BY NumbersType DEF OpenConsumer, Numbers
<1>4. SavedThreads(mine, "unknown") \in [Threads -> ThreadRecords]
  BY <1>1, SavedThreadsType
<1>5. CommitIf(mine \cap Threads # {}, SavedThreads(mine, "unknown"))
  BY DEF OpenConsumer
<1> DEFINE e == [d EXCEPT !.consumers[c] = [instance |-> last'.instance,
                                            recipient |-> r]]
<1>6. s' = e /\ disk' = e
  BY DEF OpenConsumer, Persist
<1> HIDE DEF d, mine
<1>7. e \in Descriptors
  BY <1>2, <1>3 DEF Descriptors
<1>8. UNCHANGED <<up, faults, history>>
  BY DEF OpenConsumer
<1> QED
  BY <1>3, <1>4, <1>5, <1>6, <1>7, <1>8, CommitIfType DEF TypeOK

LEMMA OpenConsumerPartlyType ==
  ASSUME TypeOK, NEW c \in Consumers, NEW r \in Nat, OpenConsumerPartly(c, r)
  PROVE  TypeOK'
<1>1. PICK P \in Prefixes(Unfinished(s, c)) : SaveSome(s, P)
  BY DEF OpenConsumerPartly
<1>2. s \in Descriptors
  BY DEF TypeOK
<1>3. UNCHANGED <<up, last, history>> /\ faults' = faults + 1
  BY DEF OpenConsumerPartly, Fault
<1> QED
  BY <1>1, <1>2, <1>3, SaveSomeType DEF TypeOK

LEMMA CloseConsumerType ==
  ASSUME TypeOK, NEW c \in Consumers, CloseConsumer(c)
  PROVE  TypeOK'
<1> DEFINE D(h) == IF h THEN Cancelled(s) ELSE s
           M(h) == {k \in Unfinished(D(h), c) :
                       AttemptOf(k).instance = s.consumers[c].instance}
<1>1. PICK hosted \in {FALSE, s.task.active} :
        \/ /\ Persist([SavedIn(D(hosted), M(hosted), "unknown")
                          EXCEPT !.consumers[c] = Closed])
           /\ CommitIf(M(hosted) \cap Threads # {},
                       SavedThreads(M(hosted), "unknown"))
           /\ UNCHANGED faults
        \/ Fault /\ \E P \in Prefixes(M(hosted)) : SaveSome(D(hosted), P)
  BY DEF CloseConsumer
<1> DEFINE d == D(hosted)
           mine == M(hosted)
<1>2. d \in Descriptors
  BY CancelledType DEF TypeOK
<1>3. UNCHANGED <<up, last, history>>
  BY DEF CloseConsumer
<1>4. "unknown" \in Statuses
  BY DEF Statuses
<1>5. SavedThreads(mine, "unknown") \in [Threads -> ThreadRecords]
  BY <1>4, SavedThreadsType
<1>6. SavedIn(d, mine, "unknown") \in Descriptors
  BY <1>2, <1>4, SavedInType
<1>7. \/ /\ Persist([SavedIn(d, mine, "unknown")
                       EXCEPT !.consumers[c] = Closed])
         /\ CommitIf(mine \cap Threads # {}, SavedThreads(mine, "unknown"))
         /\ UNCHANGED faults
      \/ Fault /\ \E P \in Prefixes(mine) : SaveSome(d, P)
  BY <1>1
<1> HIDE DEF d, mine
<1>8. CASE /\ Persist([SavedIn(d, mine, "unknown") EXCEPT !.consumers[c] = Closed])
           /\ CommitIf(mine \cap Threads # {}, SavedThreads(mine, "unknown"))
           /\ UNCHANGED faults
  <2> DEFINE e == SavedIn(d, mine, "unknown")
  <2> HIDE DEF e
  <2>1. [e EXCEPT !.consumers[c] = Closed] \in Descriptors
    BY <1>6, Constants DEF Descriptors, e
  <2>2. s' \in Descriptors /\ disk' \in Descriptors
    BY <1>8, <2>1 DEF Persist, e
  <2>3. threads' \in [Threads -> ThreadRecords] /\ drafts' \in [Writers -> Drafts]
    BY <1>5, <1>8, CommitIfType
  <2> QED
    BY <1>3, <1>8, <2>2, <2>3 DEF TypeOK
<1>9. CASE Fault /\ \E P \in Prefixes(mine) : SaveSome(d, P)
  BY <1>2, <1>3, <1>9, SaveSomeType DEF TypeOK, Fault
<1> QED
  BY <1>7, <1>8, <1>9

LEMMA NextDeliveryType ==
  ASSUME TypeOK, NEW c \in Consumers, NextDelivery(c)
  PROVE  TypeOK'
<1>1. PICK lapsed \in {FALSE, First(Candidates(s, c)) = {"task"}} :
        LET d == IF lapsed THEN Cancelled(s) ELSE s
            attempt == [id |-> last.copy + 1, consumer |-> c,
                        instance |-> s.consumers[c].instance,
                        recipient |-> s.consumers[c].recipient] IN
        \E k \in First(Candidates(d, c)) :
          /\ last' = [last EXCEPT !.copy = @ + 1]
          /\ IF k \in Threads
             THEN /\ CommitDiscussion(ClaimedThreads(k, attempt))
                  /\ IF lapsed THEN Forget(d) ELSE UNCHANGED <<s, disk, faults>>
             ELSE Persist(ClaimedIn(d, k, attempt))
                  /\ UNCHANGED <<threads, drafts, faults>>
          /\ sent' = sent \cup {Claimed(k, attempt)}
          /\ due' = due \ {Subject(k)}
  BY DEF NextDelivery
<1> DEFINE d == IF lapsed THEN Cancelled(s) ELSE s
           attempt == [id |-> last.copy + 1, consumer |-> c,
                       instance |-> s.consumers[c].instance,
                       recipient |-> s.consumers[c].recipient]
<1>2. PICK k \in First(Candidates(d, c)) :
          /\ last' = [last EXCEPT !.copy = @ + 1]
          /\ IF k \in Threads
             THEN /\ CommitDiscussion(ClaimedThreads(k, attempt))
                  /\ IF lapsed THEN Forget(d) ELSE UNCHANGED <<s, disk, faults>>
             ELSE Persist(ClaimedIn(d, k, attempt))
                  /\ UNCHANGED <<threads, drafts, faults>>
          /\ sent' = sent \cup {Claimed(k, attempt)}
          /\ due' = due \ {Subject(k)}
  BY <1>1
<1>3. UNCHANGED <<up, reported>>
  BY DEF NextDelivery
<1>4. d \in Descriptors
  BY CancelledType DEF TypeOK
<1>5. s.consumers[c].instance \in Nat /\ s.consumers[c].recipient \in Nat
  BY DEF TypeOK, Descriptors
<1>6. attempt \in Attempts
  BY <1>5, NumbersType DEF Attempts
<1>7. k \in Slots
  BY <1>2 DEF First, Candidates
<1> HIDE DEF d, attempt
<1>8. last' \in Numbers
  BY <1>2, NumbersType
<1>9. sent' \subseteq Envelopes /\ due' \subseteq Nat
  BY <1>2, <1>6, <1>7, EnvelopeType DEF TypeOK
<1>10. CASE k \in Threads
  <2>1. ClaimedThreads(k, attempt) \in [Threads -> ThreadRecords]
    BY <1>6, ClaimedThreadsType
  <2>2. threads' \in [Threads -> ThreadRecords] /\ drafts' \in [Writers -> Drafts]
    BY <1>2, <1>10, <2>1, CommitType
  <2>3. s' \in Descriptors /\ disk' \in Descriptors /\ faults' \in Nat
    BY <1>2, <1>4, <1>10 DEF TypeOK, Forget, Persist, Fault
  <2> QED
    BY <1>3, <1>8, <1>9, <2>2, <2>3 DEF TypeOK
<1>11. CASE k \notin Threads
  <2>1. s' \in Descriptors /\ disk' \in Descriptors
    BY <1>2, <1>4, <1>6, <1>11, ClaimedInType DEF Persist
  <2> QED
    BY <1>2, <1>3, <1>8, <1>9, <1>11, <2>1 DEF TypeOK
<1> QED
  BY <1>10, <1>11

LEMMA ReceiptType ==
  ASSUME TypeOK, NEW c \in Consumers, NEW e \in sent, NEW status \in Receipts,
         Receipt(c, e, status)
  PROVE  TypeOK'
<1> DEFINE k == e.slot
           next == Transition(Status(k), status)
<1>1. e \in Envelopes /\ status \in Statuses
  BY DEF TypeOK, DeliveryAssumption
<1>2. k \in Slots /\ e.attempt \in Nat
  BY <1>1 DEF Envelopes, Slots
<1>3. next \in Statuses
  BY <1>1, <1>2, SubjectTypes, TransitionType DEF Receipt
<1>4. reported' \subseteq Nat \X Statuses
  BY <1>1, <1>2 DEF Receipt, TypeOK
<1>5. UNCHANGED <<up, last, faults, due, sent>>
  BY DEF Receipt
<1>6. IF k \in Threads
      THEN CommitDiscussion(SavedThreads({k}, next)) /\ UNCHANGED <<s, disk>>
      ELSE Persist(SavedIn(s, {k}, next)) /\ UNCHANGED <<threads, drafts>>
  BY DEF Receipt
<1> HIDE DEF k, next
<1>7. SavedThreads({k}, next) \in [Threads -> ThreadRecords]
  BY <1>3, SavedThreadsType
<1>8. SavedIn(s, {k}, next) \in Descriptors
  BY <1>3, SavedInType DEF TypeOK
<1>9. CASE k \in Threads
  BY <1>4, <1>5, <1>6, <1>7, <1>9, CommitType DEF TypeOK
<1>10. CASE k \notin Threads
  BY <1>4, <1>5, <1>6, <1>8, <1>10 DEF TypeOK, Persist
<1> QED
  BY <1>9, <1>10

-----------------------------------------------------------------------------
(* The handback. *)

LEMMA EmitHandbackType ==
  ASSUME TypeOK, NEW d \in Descriptors, EmitHandback(d)
  PROVE  TypeOK'
<1>1. NewNote(d) \in Notes
  BY Constants, NumbersType DEF NewNote, Notes, Statuses, Descriptors
<1>2. [d EXCEPT !.note = NewNote(d)] \in Descriptors
  BY <1>1 DEF Descriptors
<1>3. s' \in Descriptors /\ disk' \in Descriptors
  BY <1>2 DEF EmitHandback, Persist
<1>4. last' \in Numbers /\ last'.subject \in Nat
  BY NumbersType DEF EmitHandback, Numbers
<1>5. due' \subseteq Nat
  BY <1>4 DEF EmitHandback, TypeOK
<1>6. UNCHANGED <<up, threads, drafts, faults, sent, reported>>
  BY DEF EmitHandback
<1> QED
  BY <1>3, <1>4, <1>5, <1>6 DEF TypeOK

\* An action that only persists a descriptor.
LEMMA PersistType ==
  ASSUME TypeOK, NEW d \in Descriptors, Persist(d),
         UNCHANGED <<up, threads, drafts, last, faults, history>>
  PROVE  TypeOK'
  BY DEF TypeOK, Persist

LEMMA ForgetType ==
  ASSUME TypeOK, NEW d \in Descriptors, Forget(d)
  PROVE  s' \in Descriptors /\ disk' \in Descriptors /\ faults' \in Nat
  BY DEF TypeOK, Forget, Persist, Fault

LEMMA ReclaimType ==
  ASSUME TypeOK, Reclaim PROVE TypeOK'
<1>1. [s EXCEPT !.owner = "agent"] \in Descriptors
  BY DEF TypeOK, Descriptors
<1> QED
  BY <1>1, EmitHandbackType DEF Reclaim

LEMMA RetryNotificationType ==
  ASSUME TypeOK, RetryNotification PROVE TypeOK'
  BY EmitHandbackType DEF RetryNotification, TypeOK

LEMMA HandoverType ==
  ASSUME TypeOK, Handover PROVE TypeOK'
<1>1. [s EXCEPT !.owner = "human"] \in Descriptors
  BY DEF TypeOK, Descriptors
<1> QED
  BY <1>1, PersistType DEF Handover

\* A legacy report, which may let the message leave.
LEMMA LegacySendType ==
  ASSUME TypeOK, NEW k \in {"note", "task"}, NEW status, LegacySend(k, status)
  PROVE  last' \in Numbers /\ sent' \subseteq Envelopes /\ due' \subseteq Nat
<1>1. k \in Slots
  BY DEF Slots
<1>2. CASE status = "sending"
  <2>1. last' = [last EXCEPT !.copy = @ + 1]
    BY <1>2 DEF LegacySend
  <2>2. last' \in Numbers /\ last'.copy \in Nat
    BY <2>1, NumbersType DEF Numbers
  <2>3. Unclaimed(k, last'.copy) \in Envelopes
    BY <1>1, <2>2, Constants, EnvelopeType
  <2> QED
    BY <1>2, <2>2, <2>3 DEF LegacySend, TypeOK
<1>3. CASE status # "sending"
  BY <1>3 DEF LegacySend, TypeOK
<1> QED
  BY <1>2, <1>3

\* What a caller may know is a number.
LEMMA KnownType ==
  ASSUME TypeOK, NEW k, NEW id \in Known(k) PROVE id \in Nat
  BY DEF TypeOK, Known, Envelopes

LEMMA EventStatusType ==
  ASSUME TypeOK, NEW id \in Nat, NEW status \in Receipts, EventStatus(id, status)
  PROVE  TypeOK'
<1>1. status \in Statuses
  BY DEF DeliveryAssumption
<1>2. [s.note EXCEPT !.status = status] \in Notes
  BY <1>1 DEF TypeOK, Descriptors, Notes
<1>3. [s EXCEPT !.note.status = status] \in Descriptors
  BY <1>2 DEF TypeOK, Descriptors
<1>4. s' \in Descriptors /\ disk' \in Descriptors
  BY <1>3 DEF EventStatus, Persist
<1>5. last' \in Numbers /\ sent' \subseteq Envelopes /\ due' \subseteq Nat
  BY LegacySendType DEF EventStatus
<1>6. reported' \subseteq Nat \X Statuses
  BY <1>1 DEF EventStatus, TypeOK
<1>7. UNCHANGED <<up, threads, drafts, faults>>
  BY DEF EventStatus
<1> QED
  BY <1>4, <1>5, <1>6, <1>7 DEF TypeOK

-----------------------------------------------------------------------------
(* The task, the binding and the run. *)

LEMMA StartTaskType ==
  ASSUME TypeOK, NEW status \in Statuses, StartTask(status)
  PROVE  TypeOK'
<1>1. last' \in Numbers /\ last'.subject \in Nat
  BY NumbersType DEF StartTask, Numbers
<1> DEFINE task == [id |-> last'.subject, status |-> status, attempt |-> NoAttempt,
                    run |-> s.run, binding |-> s.binding, active |-> TRUE]
<1>2. task \in Tasks
  BY <1>1, Constants DEF Tasks, TypeOK, Descriptors
<1> HIDE DEF task
<1>3. [s EXCEPT !.task = task] \in Descriptors /\ [s EXCEPT !.task = NoTask] \in Descriptors
  BY <1>2, Constants DEF TypeOK, Descriptors
<1>4. \/ Persist([s EXCEPT !.task = task]) /\ UNCHANGED faults
      \/ Fault /\ s' = [s EXCEPT !.task = NoTask] /\ UNCHANGED disk
  BY DEF StartTask, task
<1>5. s' \in Descriptors /\ disk' \in Descriptors /\ faults' \in Nat
  BY <1>3, <1>4 DEF TypeOK, Persist, Fault
<1>6. due' \subseteq Nat
  BY <1>1 DEF StartTask, TypeOK
<1>7. UNCHANGED <<up, threads, drafts, sent, reported>>
  BY DEF StartTask
<1> QED
  BY <1>1, <1>5, <1>6, <1>7 DEF TypeOK

LEMMA TaskDeliveryType ==
  ASSUME TypeOK, NEW id \in Nat, NEW status \in Receipts, TaskDelivery(id, status)
  PROVE  TypeOK'
<1>1. status \in Statuses
  BY DEF DeliveryAssumption
<1>2. [s.task EXCEPT !.status = status] \in Tasks
  BY <1>1 DEF TypeOK, Descriptors, Tasks
<1>3. [s EXCEPT !.task.status = status] \in Descriptors
  BY <1>2 DEF TypeOK, Descriptors
<1>4. s' \in Descriptors /\ disk' \in Descriptors
  BY <1>3 DEF TaskDelivery, Persist
<1>5. last' \in Numbers /\ sent' \subseteq Envelopes /\ due' \subseteq Nat
  BY LegacySendType DEF TaskDelivery
<1>6. reported' \subseteq Nat \X Statuses
  BY <1>1 DEF TaskDelivery, TypeOK
<1>7. UNCHANGED <<up, threads, drafts, faults>>
  BY DEF TaskDelivery
<1> QED
  BY <1>4, <1>5, <1>6, <1>7 DEF TypeOK

LEMMA TaskHeartbeatType ==
  ASSUME TypeOK, TaskHeartbeat PROVE TypeOK'
<1>1. [s.task EXCEPT !.status = "acknowledged"] \in Tasks
  BY DEF TypeOK, Descriptors, Tasks, Statuses
<1>2. [s EXCEPT !.task.status = "acknowledged"] \in Descriptors
  BY <1>1 DEF TypeOK, Descriptors
<1> QED
  BY <1>2, PersistType DEF TaskHeartbeat

LEMMA TaskEndsType ==
  ASSUME TypeOK, TaskEnds PROVE TypeOK'
<1>1. Cancelled(s) \in Descriptors
  BY CancelledType DEF TypeOK
<1>2. s' \in Descriptors /\ disk' \in Descriptors /\ faults' \in Nat
  BY <1>1, ForgetType DEF TaskEnds
<1> QED
  BY <1>2 DEF TaskEnds, TypeOK

LEMMA BindType ==
  ASSUME TypeOK, Bind PROVE TypeOK'
<1>1. last' \in Numbers /\ last'.binding \in Nat
  BY NumbersType DEF Bind, Numbers
<1> DEFINE d == Cancelled(s)
<1>2. d \in Descriptors
  BY CancelledType DEF TypeOK
<1> HIDE DEF d
<1>3. [d EXCEPT !.binding = last'.binding, !.note = NoNote] \in Descriptors
  BY <1>1, <1>2, Constants DEF Descriptors
<1>4. s' \in Descriptors /\ disk' \in Descriptors /\ faults' \in Nat
  BY <1>3, ForgetType DEF Bind, d
<1> QED
  BY <1>1, <1>4 DEF Bind, TypeOK

LEMMA RunAgainType ==
  ASSUME TypeOK, RunAgain PROVE TypeOK'
<1> DEFINE d == Cancelled(s)
<1>1. d \in Descriptors
  BY CancelledType DEF TypeOK
<1> HIDE DEF d
<1>2. [d EXCEPT !.run = @ + 1] \in Descriptors
  BY <1>1 DEF Descriptors
<1> QED
  BY <1>2, PersistType DEF RunAgain, d

-----------------------------------------------------------------------------
(* The discussion and the broker's life. *)

LEMMA LiveCommentType ==
  ASSUME TypeOK, NEW t \in Threads, LiveComment(t)
  PROVE  TypeOK'
<1>1. {Provider, s.binding, threads[t].recipient} \subseteq Nat
  BY DEF Provider, TypeOK, Descriptors, ThreadRecords
<1>2. PICK a \in RequestsAbout(t, {Provider, s.binding, threads[t].recipient}) :
        /\ Applicable(threads[t], a)
        /\ Allocate(a)
        /\ CommitDiscussion([threads EXCEPT ![t] =
                               ApplyDiscussion(threads[t], a, Fresh(a))])
        /\ Record(Effect(t, a, Fresh(a)))
        /\ UNCHANGED <<s, disk, up, faults>>
  BY DEF LiveComment
<1>3. a \in Requests
  BY <1>1, <1>2, RequestType
<1>4. Fresh(a) \in Nat /\ last' \in Numbers
  BY <1>2, AllocateType
<1>5. threads[t] \in ThreadRecords
  BY DEF TypeOK
<1>6. ApplyDiscussion(threads[t], a, Fresh(a)) \in ThreadRecords
  BY <1>2, <1>3, <1>4, <1>5, ApplyType
<1>7. [threads EXCEPT ![t] = ApplyDiscussion(threads[t], a, Fresh(a))]
         \in [Threads -> ThreadRecords]
  BY <1>6 DEF TypeOK
<1>8. threads' \in [Threads -> ThreadRecords] /\ drafts' \in [Writers -> Drafts]
  BY <1>2, <1>7, CommitType
<1>9. Effect(t, a, Fresh(a)) \in Effects
  BY <1>3, <1>4, EffectType
<1>10. /\ due' \subseteq Nat /\ sent' \subseteq Envelopes
       /\ reported' \subseteq Nat \X Statuses
  BY <1>2, <1>9, RecordType
<1> QED
  BY <1>2, <1>4, <1>8, <1>10 DEF TypeOK

LEMMA OfflineReadType ==
  ASSUME TypeOK, NEW w \in Writers, NEW t \in Threads, OfflineRead(w, t)
  PROVE  TypeOK'
<1>1. {Provider, threads[t].recipient} \subseteq Nat
  BY DEF Provider, TypeOK, ThreadRecords
<1>2. PICK a \in RequestsAbout(t, {Provider, threads[t].recipient}) :
        /\ Applicable(threads[t], a)
        /\ Allocate(a)
        /\ drafts' = [drafts EXCEPT ![w] =
              [state |-> "fresh",
               threads |-> [threads EXCEPT ![t] =
                              ApplyDiscussion(threads[t], a, Fresh(a))],
               effect |-> Effect(t, a, Fresh(a))]]
        /\ UNCHANGED <<s, disk, up, threads, faults, history>>
  BY DEF OfflineRead
<1>3. a \in Requests
  BY <1>1, <1>2, RequestType
<1>4. Fresh(a) \in Nat /\ last' \in Numbers
  BY <1>2, AllocateType
<1>5. threads[t] \in ThreadRecords
  BY DEF TypeOK
<1>6. ApplyDiscussion(threads[t], a, Fresh(a)) \in ThreadRecords
  BY <1>2, <1>3, <1>4, <1>5, ApplyType
<1>7. [threads EXCEPT ![t] = ApplyDiscussion(threads[t], a, Fresh(a))]
         \in [Threads -> ThreadRecords]
  BY <1>6 DEF TypeOK
<1>8. Effect(t, a, Fresh(a)) \in Effects
  BY <1>3, <1>4, EffectType
<1>9. drafts' \in [Writers -> Drafts]
  BY <1>2, <1>7, <1>8 DEF TypeOK, Drafts
<1> QED
  BY <1>2, <1>4, <1>9 DEF TypeOK

LEMMA OfflineCommitType ==
  ASSUME TypeOK, NEW w \in Writers, OfflineCommit(w)
  PROVE  TypeOK'
<1>1. drafts[w] \in Drafts /\ drafts[w].state = "fresh"
  BY DEF TypeOK, OfflineCommit
<1>2. drafts[w].threads \in [Threads -> ThreadRecords] /\ drafts[w].effect \in Effects
  BY <1>1 DEF Drafts, Idle
<1>3. drafts' \in [Writers -> Drafts]
  BY StaleType, Constants DEF OfflineCommit
<1>4. /\ due' \subseteq Nat /\ sent' \subseteq Envelopes
      /\ reported' \subseteq Nat \X Statuses
  BY <1>2, RecordType DEF OfflineCommit
<1> QED
  BY <1>2, <1>3, <1>4 DEF OfflineCommit, TypeOK

LEMMA OfflineConflictType ==
  ASSUME TypeOK, NEW w \in Writers, OfflineConflict(w)
  PROVE  TypeOK'
  BY Constants DEF OfflineConflict, TypeOK

LEMMA BrokerStopsType ==
  ASSUME TypeOK, BrokerStops PROVE TypeOK'
  BY DEF BrokerStops, Fault, TypeOK

LEMMA RecoverDescriptorType ==
  ASSUME TypeOK, RecoverDescriptor PROVE TypeOK'
<1>1. Recovered(disk) \in Descriptors
  BY RecoveredType DEF TypeOK
<1> QED
  BY <1>1 DEF RecoverDescriptor, Persist, TypeOK

LEMMA RecoverDiscussionType ==
  ASSUME TypeOK, RecoverDiscussion PROVE TypeOK'
<1> DEFINE cut == {t \in Threads : threads[t].status = "sending"}
<1>1. SavedThreads(cut, "unknown") \in [Threads -> ThreadRecords]
  BY SavedThreadsType DEF Statuses
<1>2. CommitIf(cut # {}, SavedThreads(cut, "unknown"))
  BY DEF RecoverDiscussion
<1>3. threads' \in [Threads -> ThreadRecords] /\ drafts' \in [Writers -> Drafts]
  BY <1>1, <1>2, CommitIfType
<1>4. UNCHANGED <<s, disk, last, faults, history>> /\ up' = "serving"
  BY DEF RecoverDiscussion
<1> QED
  BY <1>3, <1>4 DEF TypeOK

-----------------------------------------------------------------------------
(* Every step. *)

LEMMA InitType ==
  ASSUME Init PROVE TypeOK
<1>1. s \in Descriptors
  BY Constants DEF Init, Descriptors
<1> QED
  BY <1>1, Constants DEF Init, TypeOK, Numbers

LEMMA NextType ==
  ASSUME TypeOK, [Next]_vars
  PROVE  TypeOK'
<1>1. CASE Consume
  <2>1. Provider \in Nat /\ s.binding \in Nat
    BY DEF Provider, TypeOK, Descriptors
  <2>2. PICK c \in Consumers :
          \/ \E r \in {Provider, s.binding} :
                OpenConsumer(c, r) \/ OpenConsumerPartly(c, r)
          \/ CloseConsumer(c)
          \/ NextDelivery(c)
          \/ \E e \in sent, status \in Receipts : Receipt(c, e, status)
    BY <1>1 DEF Consume
  <2> QED
    BY <2>1, <2>2, OpenConsumerType, OpenConsumerPartlyType, CloseConsumerType,
       NextDeliveryType, ReceiptType
<1>2. CASE Handback
  BY <1>2, ReclaimType, HandoverType, RetryNotificationType, KnownType,
     EventStatusType DEF Handback
<1>3. CASE Scope
  <2>1. "acknowledged" \in Statuses /\ "pending" \in Statuses
    BY DEF Statuses
  <2> QED
    BY <1>3, <2>1, StartTaskType, TaskHeartbeatType, TaskEndsType, KnownType,
       TaskDeliveryType DEF Scope, TaskStart, TaskAuthorize
<1>4. CASE Discuss
  BY <1>4, LiveCommentType, OfflineReadType, OfflineCommitType,
     OfflineConflictType DEF Discuss
<1>5. CASE Bind \/ RunAgain
  BY <1>5, BindType, RunAgainType
<1>6. CASE BrokerStops \/ RecoverDescriptor \/ RecoverDiscussion
  BY <1>6, BrokerStopsType, RecoverDescriptorType, RecoverDiscussionType
<1>7. CASE UNCHANGED vars
  BY <1>7 DEF TypeOK
<1> QED
  BY <1>1, <1>2, <1>3, <1>4, <1>5, <1>6, <1>7 DEF Next

(* Every variable keeps the shape the code gives it, for every number of    *)
(* consumers, threads and writers and whatever clients report.              *)
THEOREM TypeCorrect == Spec => []TypeOK
<1>1. Init => TypeOK
  BY InitType
<1>2. TypeOK /\ [Next]_vars => TypeOK'
  BY NextType
<1> QED
  BY <1>1, <1>2, PTL DEF Spec
=============================================================================
