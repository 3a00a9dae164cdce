--------------------------- MODULE DeliverySafety ---------------------------
(***************************************************************************)
(* What the discussion promises, for every number of threads, writers and  *)
(* consumers: one answer to a question, which stays, and the abstract      *)
(* specification Question.                                                 *)
(*                                                                         *)
(* The argument has three parts. DraftInv: a draft that is still fresh is   *)
(* one request applied to the present document. Hence every step changes    *)
(* the document in one of five ways (ThreadMove). Each of them keeps the    *)
(* answers in order (Orderly) and is a step of Question or a stutter.       *)
(***************************************************************************)
EXTENDS DeliveryProofs

USE DeliveryAssumption DEF vars, history

-----------------------------------------------------------------------------
(* The inductive invariant. *)

\* Request a about t may be applied now; a new question gets the number n,
\* which nobody has used in this thread.
Ready(t, a, n, N) ==
    /\ t \in Threads /\ a \in Requests /\ n \in Nat
    /\ Applicable(threads[t], a) /\ a.action \in Events
    /\ NewQuestion(a) => threads[t].question < n /\ n <= N

After(t, a, n) == [threads EXCEPT ![t] = ApplyDiscussion(threads[t], a, n)]

DraftInv ==
    \A w \in Writers :
        drafts[w].state = "fresh" =>
            \E t \in Threads, a \in Requests, n \in Nat :
                /\ Ready(t, a, n, last.subject)
                /\ drafts[w].threads = After(t, a, n)
                /\ drafts[w].effect = Effect(t, a, n)

\* The answers of a thread in order: none is to a later question, one to the
\* current question shows in the status, no two are to the same question.
Orderly(T, N) ==
    /\ T.question <= N
    /\ (T.question = 0) <=> (T.status = "none")
    /\ \A m \in T.answers :
          /\ m.question <= T.question
          /\ m.question = T.question => T.status = "answered"
    /\ \A m, n \in T.answers : m.question = n.question => m = n

ThreadInv == \A t \in Threads : Orderly(threads[t], last.subject)

IInv == TypeOK /\ DraftInv /\ ThreadInv

-----------------------------------------------------------------------------
(* How a step may change the document. *)

OpenThread(t) == threads[t].question # 0 /\ ~threads[t].resolved

Interrupted ==
    \E K \in SUBSET {t \in Threads : threads[t].status = "sending"} :
        threads' = SavedThreads(K, "unknown")

Taken ==
    \E t \in Threads, a \in Attempts :
        /\ OpenThread(t) /\ threads[t].status = "pending"
        /\ threads' = ClaimedThreads(t, a)

Told ==
    \E t \in Threads, status \in Statuses :
        /\ OpenThread(t) /\ Transition(threads[t].status, status) # "refused"
        /\ threads' = SavedThreads({t}, Transition(threads[t].status, status))

Applied ==
    \E t \in Threads, a \in Requests, n \in Nat :
        Ready(t, a, n, last'.subject) /\ threads' = After(t, a, n)

ThreadMove == UNCHANGED threads \/ Interrupted \/ Taken \/ Told \/ Applied

\* No draft survives a commit.
Outdated == \A w \in Writers : drafts'[w].state # "fresh"

LEMMA StaleOutdated ==
  ASSUME NEW w PROVE Stale(w).state # "fresh"
<1>1. CASE drafts[w].state = "fresh"
  <2>1. Stale(w) = [drafts[w] EXCEPT !.state = "stale"]
    BY <1>1 DEF Stale
  <2> QED
    BY <2>1
<1>2. CASE drafts[w].state # "fresh"
  BY <1>2 DEF Stale
<1> QED
  BY <1>1, <1>2

-----------------------------------------------------------------------------
(* Every step changes the document in one of these ways, and outdates the   *)
(* drafts when it does.                                                     *)

\* What a consumer has not finished is being sent.
LEMMA UnfinishedSends ==
  ASSUME NEW d, NEW c, NEW P \in SUBSET Unfinished(d, c)
  PROVE  P \cap Threads \subseteq {t \in Threads : threads[t].status = "sending"}
  BY DEF Unfinished, Status, DeliveryAssumption

LEMMA InterruptMoves ==
  ASSUME NEW P, NEW c,
         P \cap Threads \subseteq {t \in Threads : threads[t].status = "sending"},
         CommitIf(c, SavedThreads(P, "unknown"))
  PROVE  \/ UNCHANGED <<threads, drafts>>
         \/ Interrupted /\ Outdated
<1>1. SavedThreads(P, "unknown") = SavedThreads(P \cap Threads, "unknown")
  BY DEF SavedThreads
<1>2. CASE c
  <2>1. threads' = SavedThreads(P \cap Threads, "unknown")
    BY <1>1, <1>2 DEF CommitIf, CommitDiscussion
  <2>2. Interrupted
    BY <2>1 DEF Interrupted
  <2>3. Outdated
    BY <1>2, StaleOutdated DEF CommitIf, CommitDiscussion, Outdated
  <2> QED
    BY <2>2, <2>3
<1>3. CASE ~c
  BY <1>3 DEF CommitIf
<1> QED
  BY <1>2, <1>3

LEMMA SaveSomeMoves ==
  ASSUME NEW d, NEW P,
         P \cap Threads \subseteq {t \in Threads : threads[t].status = "sending"},
         SaveSome(d, P)
  PROVE  \/ UNCHANGED <<threads, drafts>>
         \/ Interrupted /\ Outdated
<1>1. CommitIf(P \cap Threads # {}, SavedThreads(P, "unknown"))
  BY DEF SaveSome
<1> QED
  BY <1>1, InterruptMoves

LEMMA OpenMoves ==
  ASSUME NEW c, NEW r, OpenConsumer(c, r) \/ OpenConsumerPartly(c, r)
  PROVE  \/ UNCHANGED <<threads, drafts>>
         \/ Interrupted /\ Outdated
<1>1. CASE OpenConsumer(c, r)
  <2>1. CommitIf(Unfinished(s, c) \cap Threads # {},
                 SavedThreads(Unfinished(s, c), "unknown"))
    BY <1>1 DEF OpenConsumer
  <2>2. Unfinished(s, c) \cap Threads
           \subseteq {t \in Threads : threads[t].status = "sending"}
    BY UnfinishedSends
  <2> QED
    BY <2>1, <2>2, InterruptMoves
<1>2. CASE OpenConsumerPartly(c, r)
  <2>1. PICK P \in Prefixes(Unfinished(s, c)) : SaveSome(s, P)
    BY <1>2 DEF OpenConsumerPartly
  <2>2. P \in SUBSET Unfinished(s, c)
    BY <2>1 DEF Prefixes
  <2> QED
    BY <2>1, <2>2, UnfinishedSends, SaveSomeMoves
<1> QED
  BY <1>1, <1>2

LEMMA CloseMoves ==
  ASSUME NEW c, CloseConsumer(c)
  PROVE  \/ UNCHANGED <<threads, drafts>>
         \/ Interrupted /\ Outdated
<1> DEFINE D(h) == IF h THEN Cancelled(s) ELSE s
           M(h) == {k \in Unfinished(D(h), c) :
                       AttemptOf(k).instance = s.consumers[c].instance}
<1>1. PICK hosted \in {FALSE, s.task.active} :
        \/ CommitIf(M(hosted) \cap Threads # {},
                    SavedThreads(M(hosted), "unknown"))
        \/ \E P \in Prefixes(M(hosted)) : SaveSome(D(hosted), P)
  BY DEF CloseConsumer
<1>2. M(hosted) \in SUBSET Unfinished(D(hosted), c)
  OBVIOUS
<1> HIDE DEF M, D
<1>3. \A P \in Prefixes(M(hosted)) : P \in SUBSET Unfinished(D(hosted), c)
  BY <1>2 DEF Prefixes
<1>4. CASE CommitIf(M(hosted) \cap Threads # {},
                    SavedThreads(M(hosted), "unknown"))
  BY <1>2, <1>4, UnfinishedSends, InterruptMoves
<1>5. CASE \E P \in Prefixes(M(hosted)) : SaveSome(D(hosted), P)
  BY <1>3, <1>5, UnfinishedSends, SaveSomeMoves
<1> QED
  BY <1>1, <1>4, <1>5

\* A claim takes a waiting question of an open thread.
LEMMA NextDeliveryMoves ==
  ASSUME TypeOK, NEW c \in Consumers, NextDelivery(c)
  PROVE  \/ UNCHANGED <<threads, drafts>>
         \/ Taken /\ Outdated
<1> DEFINE attempt == [id |-> last.copy + 1, consumer |-> c,
                       instance |-> s.consumers[c].instance,
                       recipient |-> s.consumers[c].recipient]
           D(h) == IF h THEN Cancelled(s) ELSE s
<1>1. PICK lapsed \in {FALSE, First(Candidates(s, c)) = {"task"}} :
        \E k \in First(Candidates(D(lapsed), c)) :
           IF k \in Threads
           THEN CommitDiscussion(ClaimedThreads(k, attempt))
           ELSE UNCHANGED <<threads, drafts>>
  BY DEF NextDelivery
<1>2. s.consumers[c].instance \in Nat /\ s.consumers[c].recipient \in Nat
  BY DEF TypeOK, Descriptors
<1>3. attempt \in Attempts
  BY <1>2, NumbersType DEF Attempts
<1> HIDE DEF attempt, D
<1>4. PICK k \in First(Candidates(D(lapsed), c)) :
           IF k \in Threads
           THEN CommitDiscussion(ClaimedThreads(k, attempt))
           ELSE UNCHANGED <<threads, drafts>>
  BY <1>1
<1>5. CASE k \in Threads
  <2>1. Shown(D(lapsed), k) /\ Status(k) = "pending"
    BY <1>4 DEF First, Candidates
  <2>2. OpenThread(k) /\ threads[k].status = "pending"
    BY <1>5, <2>1 DEF Shown, Status, OpenThread, DeliveryAssumption
  <2>3. Taken
    BY <1>3, <1>4, <1>5, <2>2 DEF Taken, CommitDiscussion
  <2>4. Outdated
    BY <1>4, <1>5, StaleOutdated DEF CommitDiscussion, Outdated
  <2> QED
    BY <2>3, <2>4
<1>6. CASE k \notin Threads
  BY <1>4, <1>6
<1> QED
  BY <1>5, <1>6

LEMMA ReceiptMoves ==
  ASSUME TypeOK, NEW c \in Consumers, NEW e \in sent, NEW status \in Receipts,
         Receipt(c, e, status)
  PROVE  \/ UNCHANGED <<threads, drafts>>
         \/ Told /\ Outdated
<1>1. CASE e.slot \in Threads
  <2> DEFINE t == e.slot
             next == Transition(threads[t].status, status)
  <2>1. Status(t) = threads[t].status /\ OpenThread(t)
    BY <1>1 DEF Receipt, Shown, Status, OpenThread, DeliveryAssumption
  <2>2. next # "refused" /\ CommitDiscussion(SavedThreads({t}, next))
    BY <1>1, <2>1 DEF Receipt
  <2>3. Told
    BY <1>1, <2>1, <2>2 DEF Told, CommitDiscussion, DeliveryAssumption
  <2>4. Outdated
    BY <2>2, StaleOutdated DEF CommitDiscussion, Outdated
  <2> QED
    BY <2>3, <2>4
<1>2. CASE e.slot \notin Threads
  BY <1>2 DEF Receipt
<1> QED
  BY <1>1, <1>2

\* A new question takes a number that no thread has.
LEMMA AllocateReady ==
  ASSUME TypeOK, ThreadInv, NEW t \in Threads, NEW a \in Requests,
         Applicable(threads[t], a), a.action \in Events, Allocate(a)
  PROVE  Ready(t, a, Fresh(a), last'.subject) /\ last.subject <= last'.subject
<1>1. Fresh(a) \in Nat
  BY AllocateType
<1>2. threads[t].question \in Nat /\ threads[t].question <= last.subject
  BY DEF TypeOK, ThreadRecords, ThreadInv, Orderly
<1>3. last.subject \in Nat /\ last \in Numbers
  BY NumbersType DEF TypeOK
<1>4. CASE NewQuestion(a)
  <2>1. ~Exposes(a)
    BY <1>4 DEF NewQuestion, Exposes
  <2>2. last'.subject = last.subject + 1
    BY <1>3, <1>4, <2>1 DEF Allocate, Numbers
  <2>3. Fresh(a) = last.subject + 1
    BY <1>4 DEF Fresh
  <2> QED
    BY <1>1, <1>2, <1>3, <2>2, <2>3 DEF Ready
<1>5. CASE ~NewQuestion(a)
  <2>1. last'.subject = last.subject
    BY <1>3, <1>5 DEF Allocate, Numbers
  <2> QED
    BY <1>1, <1>3, <1>5, <2>1 DEF Ready
<1> QED
  BY <1>4, <1>5

LEMMA LiveCommentMoves ==
  ASSUME TypeOK, ThreadInv, NEW t \in Threads, LiveComment(t)
  PROVE  Applied /\ Outdated
<1>1. {Provider, s.binding, threads[t].recipient} \subseteq Nat
  BY DEF Provider, TypeOK, Descriptors, ThreadRecords
<1>2. PICK a \in RequestsAbout(t, {Provider, s.binding, threads[t].recipient}) :
        /\ Applicable(threads[t], a)
        /\ Allocate(a)
        /\ CommitDiscussion(After(t, a, Fresh(a)))
  BY DEF LiveComment, After
<1>3. a \in Requests /\ a.action \in Events
  BY <1>1, <1>2, RequestType
<1>4. Ready(t, a, Fresh(a), last'.subject)
  BY <1>2, <1>3, AllocateReady
<1>5. Applied
  BY <1>2, <1>3, <1>4 DEF Applied, CommitDiscussion, Ready
<1>6. Outdated
  BY <1>2, StaleOutdated DEF CommitDiscussion, Outdated
<1> QED
  BY <1>5, <1>6

LEMMA OfflineCommitMoves ==
  ASSUME TypeOK, DraftInv, NEW w \in Writers, OfflineCommit(w)
  PROVE  Applied /\ Outdated
<1>1. last' = last /\ threads' = drafts[w].threads /\ drafts[w].state = "fresh"
  BY DEF OfflineCommit
<1>2. Applied
  BY <1>1 DEF Applied, DraftInv
<1>3. Idle.state # "fresh"
  BY DEF Idle
<1>4. drafts' = [x \in Writers |-> IF x = w THEN Idle ELSE Stale(x)]
  BY DEF OfflineCommit
<1>5. Outdated
  BY <1>3, <1>4, StaleOutdated DEF Outdated
<1> QED
  BY <1>2, <1>5

\* The other steps leave the discussion alone.
LEMMA OthersMove ==
  ASSUME Handback \/ Scope \/ Bind \/ RunAgain \/ BrokerStops \/ RecoverDescriptor
         \/ UNCHANGED vars
  PROVE  UNCHANGED <<threads, drafts>>
<1>1. CASE Handback
  BY <1>1 DEF Handback, Reclaim, Handover, RetryNotification, EmitHandback, EventStatus
<1>2. CASE Scope
  BY <1>2 DEF Scope, TaskStart, TaskAuthorize, StartTask, TaskHeartbeat, TaskEnds,
              TaskDelivery
<1>3. CASE Bind \/ RunAgain
  BY <1>3 DEF Bind, RunAgain
<1>4. CASE BrokerStops \/ RecoverDescriptor
  BY <1>4 DEF BrokerStops, RecoverDescriptor
<1>5. CASE UNCHANGED vars
  BY <1>5
<1> QED
  BY <1>1, <1>2, <1>3, <1>4, <1>5

LEMMA RecoverDiscussionMoves ==
  ASSUME RecoverDiscussion
  PROVE  \/ UNCHANGED <<threads, drafts>>
         \/ Interrupted /\ Outdated
<1> DEFINE cut == {t \in Threads : threads[t].status = "sending"}
<1>1. CommitIf(cut # {}, SavedThreads(cut, "unknown"))
  BY DEF RecoverDiscussion
<1>2. cut \cap Threads \subseteq {t \in Threads : threads[t].status = "sending"}
  OBVIOUS
<1> QED
  BY <1>1, <1>2, InterruptMoves

\* An offline writer that reads or gives up touches only its own draft.
Reads == \E w \in Writers : \/ \E t \in Threads : OfflineRead(w, t)
                            \/ OfflineConflict(w)

LEMMA MoveStep ==
  ASSUME IInv, [Next]_vars
  PROVE  \/ UNCHANGED <<threads, drafts>>
         \/ Reads /\ UNCHANGED threads
         \/ (Interrupted \/ Taken \/ Told \/ Applied) /\ Outdated
<1>1. TypeOK /\ DraftInv /\ ThreadInv
  BY DEF IInv
<1>2. CASE Consume
  <2>1. PICK c \in Consumers :
          \/ \E r \in {Provider, s.binding} :
                OpenConsumer(c, r) \/ OpenConsumerPartly(c, r)
          \/ CloseConsumer(c)
          \/ NextDelivery(c)
          \/ \E e \in sent, status \in Receipts : Receipt(c, e, status)
    BY <1>2 DEF Consume
  <2>2. CASE \E r \in {Provider, s.binding} :
               OpenConsumer(c, r) \/ OpenConsumerPartly(c, r)
    BY <2>2, OpenMoves
  <2>3. CASE CloseConsumer(c)
    BY <2>3, CloseMoves
  <2>4. CASE NextDelivery(c)
    BY <1>1, <2>4, NextDeliveryMoves
  <2>5. CASE \E e \in sent, status \in Receipts : Receipt(c, e, status)
    BY <1>1, <2>5, ReceiptMoves
  <2> QED
    BY <2>1, <2>2, <2>3, <2>4, <2>5
<1>3. CASE Discuss
  <2>1. CASE \E t \in Threads : LiveComment(t)
    BY <1>1, <2>1, LiveCommentMoves
  <2>2. CASE \E w \in Writers : OfflineCommit(w)
    BY <1>1, <2>2, OfflineCommitMoves
  <2>3. CASE Reads
    BY <2>3 DEF Reads, OfflineRead, OfflineConflict
  <2> QED
    BY <1>3, <2>1, <2>2, <2>3 DEF Discuss, Reads
<1>4. CASE RecoverDiscussion
  BY <1>4, RecoverDiscussionMoves
<1>5. CASE Handback \/ Scope \/ Bind \/ RunAgain \/ BrokerStops \/ RecoverDescriptor
           \/ UNCHANGED vars
  BY <1>5, OthersMove
<1> QED
  BY <1>2, <1>3, <1>4, <1>5 DEF Next

\* No step takes an identity back.
LEMMA SubjectGrows ==
  ASSUME TypeOK, [Next]_vars
  PROVE  last'.subject \in Nat /\ last.subject <= last'.subject
<1>1. last \in Numbers /\ last.subject \in Nat
  BY NumbersType DEF TypeOK
<1>2. TypeOK'
  BY NextType
<1>3. last'.subject \in Nat
  BY <1>2 DEF TypeOK, Numbers
<1>4. CASE UNCHANGED last
  BY <1>1, <1>4
<1>5. CASE last' = [last EXCEPT !.subject = @ + 1]
  BY <1>1, <1>5 DEF Numbers
<1>6. CASE \/ last' = [last EXCEPT !.copy = @ + 1]
           \/ last' = [last EXCEPT !.instance = @ + 1]
           \/ last' = [last EXCEPT !.binding = @ + 1]
  BY <1>1, <1>6 DEF Numbers
<1>7. ASSUME NEW a, Allocate(a) PROVE last.subject <= last'.subject
  <2>1. last' = [last EXCEPT !.subject = IF NewQuestion(a) THEN @ + 1 ELSE @,
                             !.copy = IF Exposes(a) THEN @ + 1 ELSE @]
    BY <1>7 DEF Allocate
  <2>2. CASE NewQuestion(a)
    BY <1>1, <2>1, <2>2 DEF Numbers
  <2>3. CASE ~NewQuestion(a)
    BY <1>1, <2>1, <2>3 DEF Numbers
  <2> QED
    BY <2>2, <2>3
<1>8. CASE Consume
  <2>1. \/ UNCHANGED last
        \/ last' = [last EXCEPT !.instance = @ + 1]
        \/ last' = [last EXCEPT !.copy = @ + 1]
    BY ZenonT(40), <1>8 DEF Consume, OpenConsumer, OpenConsumerPartly, CloseConsumer,
                NextDelivery, Receipt
  <2> QED
    BY <1>4, <1>6, <2>1, <1>3
<1>9. CASE Handback
  <2>1. \/ UNCHANGED last
        \/ last' = [last EXCEPT !.subject = @ + 1]
        \/ last' = [last EXCEPT !.copy = @ + 1]
    BY <1>9 DEF Handback, Reclaim, Handover, RetryNotification, EmitHandback,
                EventStatus, LegacySend
  <2> QED
    BY <1>3, <1>4, <1>5, <1>6, <2>1
<1>10. CASE Scope
  <2>1. \/ UNCHANGED last
        \/ last' = [last EXCEPT !.subject = @ + 1]
        \/ last' = [last EXCEPT !.copy = @ + 1]
    BY <1>10 DEF Scope, TaskStart, TaskAuthorize, StartTask, TaskHeartbeat,
                 TaskEnds, TaskDelivery, LegacySend
  <2> QED
    BY <1>3, <1>4, <1>5, <1>6, <2>1
<1>11. CASE Discuss
  <2>1. \/ UNCHANGED last
        \/ \E a : Allocate(a)
    BY <1>11 DEF Discuss, LiveComment, OfflineRead, OfflineCommit, OfflineConflict
  <2> QED
    BY <1>3, <1>4, <1>7, <2>1
<1>12. CASE Bind
  BY <1>3, <1>6, <1>12 DEF Bind
<1>13. CASE RunAgain \/ BrokerStops \/ RecoverDescriptor \/ RecoverDiscussion
  BY <1>3, <1>4, <1>13 DEF RunAgain, BrokerStops, RecoverDescriptor, RecoverDiscussion
<1> QED
  BY <1>3, <1>4, <1>8, <1>9, <1>10, <1>11, <1>12, <1>13 DEF Next

\* What a request means depends on the document alone.
LEMMA EffectStays ==
  ASSUME UNCHANGED threads, NEW t \in Threads, NEW a, NEW n
  PROVE  Effect(t, a, n)' = Effect(t, a, n)
<1>1. /\ Subject(t) = threads[t].question /\ Subject(t)' = threads'[t].question
      /\ Recipient(t) = threads[t].recipient /\ Recipient(t)' = threads'[t].recipient
  BY DEF Subject, Recipient, DeliveryAssumption
<1>2. DirectAttempt(t, n)' = DirectAttempt(t, n)
  BY DEF DirectAttempt
<1>3. Unclaimed(t, n)' = Unclaimed(t, n)
  BY <1>1 DEF Unclaimed
<1>4. Claimed(t, DirectAttempt(t, n))' = Claimed(t, DirectAttempt(t, n))
  BY <1>1, <1>2 DEF Claimed
<1> QED
  BY <1>3, <1>4 DEF Effect

\* A fresh draft stays one request away from the document.
LEMMA DraftStep ==
  ASSUME IInv, [Next]_vars
  PROVE  DraftInv'
<1>1. TypeOK /\ DraftInv /\ ThreadInv
  BY DEF IInv
<1>2. last.subject \in Nat /\ last'.subject \in Nat /\ last.subject <= last'.subject
  BY <1>1, SubjectGrows, NumbersType
<1>3. \A t \in Threads : threads[t].question \in Nat
  BY <1>1 DEF TypeOK, ThreadRecords
<1>4. ASSUME UNCHANGED threads,
             NEW w \in Writers, drafts'[w] = drafts[w], drafts'[w].state = "fresh"
      PROVE  \E t \in Threads, a \in Requests, n \in Nat :
                /\ Ready(t, a, n, last.subject)'
                /\ drafts'[w].threads = After(t, a, n)'
                /\ drafts'[w].effect = Effect(t, a, n)'
  <2>1. PICK t \in Threads, a \in Requests, n \in Nat :
          /\ Ready(t, a, n, last.subject)
          /\ drafts[w].threads = After(t, a, n)
          /\ drafts[w].effect = Effect(t, a, n)
    BY <1>1, <1>4 DEF DraftInv
  <2>2. After(t, a, n)' = After(t, a, n)
    BY <1>4 DEF After
  <2>3. Ready(t, a, n, last.subject)'
    BY <1>2, <1>3, <1>4, <2>1 DEF Ready
  <2>4. Effect(t, a, n)' = Effect(t, a, n)
    BY <1>4, EffectStays
  <2> QED
    BY <1>4, <2>1, <2>2, <2>3, <2>4
<1>5. CASE UNCHANGED <<threads, drafts>>
  BY <1>4, <1>5 DEF DraftInv
<1>6. CASE Outdated
  BY <1>6 DEF DraftInv, Outdated
<1>7. ASSUME NEW w \in Writers, OfflineConflict(w) PROVE DraftInv'
  <2>1. drafts' = [drafts EXCEPT ![w] = Idle] /\ UNCHANGED threads
    BY <1>7 DEF OfflineConflict
  <2>2. \A x \in Writers : x # w => drafts'[x] = drafts[x]
    BY <1>1, <2>1 DEF TypeOK
  <2>3. drafts'[w].state # "fresh"
    BY <1>1, <2>1 DEF TypeOK, Idle
  <2> QED
    BY <1>4, <2>1, <2>2, <2>3 DEF DraftInv
<1>8. ASSUME NEW w \in Writers, NEW t \in Threads, OfflineRead(w, t) PROVE DraftInv'
  <2>1. {Provider, threads[t].recipient} \subseteq Nat
    BY <1>1 DEF Provider, TypeOK, ThreadRecords
  <2>2. PICK a \in RequestsAbout(t, {Provider, threads[t].recipient}) :
          /\ Applicable(threads[t], a)
          /\ Allocate(a)
          /\ drafts' = [drafts EXCEPT ![w] =
                [state |-> "fresh", threads |-> After(t, a, Fresh(a)),
                 effect |-> Effect(t, a, Fresh(a))]]
          /\ UNCHANGED threads
    BY <1>8 DEF OfflineRead, After
  <2>3. a \in Requests /\ a.action \in Events
    BY <1>1, <2>1, <2>2, RequestType
  <2>4. Ready(t, a, Fresh(a), last'.subject)
    BY <1>1, <2>2, <2>3, AllocateReady
  <2>5. \A x \in Writers : x # w => drafts'[x] = drafts[x]
    BY <1>1, <2>2 DEF TypeOK
  <2>6. drafts'[w].threads = After(t, a, Fresh(a))
    BY <1>1, <2>2 DEF TypeOK
  <2>7. PICK n \in Nat : n = Fresh(a)
    BY <2>4 DEF Ready
  <2>8. Ready(t, a, n, last.subject)'
    BY <2>2, <2>4, <2>7 DEF Ready
  <2>9. drafts'[w].threads = After(t, a, n)'
    BY <2>2, <2>6, <2>7 DEF After
  <2>10. drafts'[w].effect = Effect(t, a, n)'
    <3>1. drafts'[w].effect = Effect(t, a, n)
      BY <1>1, <2>2, <2>7 DEF TypeOK
    <3> QED
      BY <2>2, <3>1, EffectStays
  <2>11. \E u \in Threads, b \in Requests, m \in Nat :
            /\ Ready(u, b, m, last.subject)'
            /\ drafts'[w].threads = After(u, b, m)'
            /\ drafts'[w].effect = Effect(u, b, m)'
    BY <2>3, <2>8, <2>9, <2>10
  <2> QED
    BY <1>4, <2>2, <2>5, <2>11 DEF DraftInv
<1> QED
  BY <1>5, <1>6, <1>7, <1>8, MoveStep DEF Reads

-----------------------------------------------------------------------------
(* Answers stay in order. *)

\* What a change of one thread keeps.
Keeps(T, U) ==
    /\ T.answers \subseteq U.answers
    /\ T.status = "answered" /\ U.question = T.question => U.status = "answered"

\* A change that touches neither questions nor answers.
Quiet(T, U) ==
    /\ U.question = T.question /\ U.answers = T.answers
    /\ T.status = "answered" => U.status = "answered"
    /\ (T.status = "none") <=> (U.status = "none")

LEMMA QuietOrderly ==
  ASSUME NEW T \in ThreadRecords, NEW U \in ThreadRecords, NEW N \in Nat, NEW M \in Nat,
         N <= M, Orderly(T, N), Quiet(T, U)
  PROVE  Orderly(U, M) /\ Keeps(T, U)
<1>1. T.question \in Nat
  BY DEF ThreadRecords
<1> QED
  BY <1>1 DEF Orderly, Quiet, Keeps

\* A transition neither undoes an answer nor leaves a thread without a status.
LEMMA TransitionKeeps ==
  ASSUME NEW current \in Statuses, NEW next \in Statuses,
         Transition(current, next) # "refused"
  PROVE  /\ current = "answered" => Transition(current, next) = "answered"
         /\ (current = "none") <=> (Transition(current, next) = "none")
  BY DEF Transition, Statuses, Acknowledged, Outcomes

\* A request keeps the answers in order.
LEMMA ApplyOrderly ==
  ASSUME NEW T \in ThreadRecords, NEW a \in Requests, NEW n \in Nat,
         NEW N \in Nat, NEW M \in Nat, N <= M, Orderly(T, N), Applicable(T, a),
         NewQuestion(a) => T.question < n /\ n <= M
  PROVE  LET U == ApplyDiscussion(T, a, n) IN Orderly(U, M) /\ Keeps(T, U)
<1> DEFINE U == ApplyDiscussion(T, a, n)
<1>1. U \in ThreadRecords
  BY ApplyType
<1>2. T.question \in Nat /\ T.status \in Statuses
  BY DEF ThreadRecords
<1>3. \A m \in T.answers : m.question \in Nat
  BY DEF ThreadRecords
<1>4. CASE a.action \in {"create", "ask"}
  <2>1. U.question = n /\ U.status = "pending" /\ U.answers = T.answers
    BY <1>4 DEF ApplyDiscussion, ThreadRecords
  <2>2. T.question < n /\ n <= M
    BY <1>4 DEF NewQuestion
  <2> HIDE DEF U
  <2>3. Orderly(U, M)
    BY <1>2, <1>3, <2>1, <2>2 DEF Orderly
  <2>4. Keeps(T, U)
    BY <1>2, <2>1, <2>2 DEF Keeps
  <2> QED
    BY <2>3, <2>4 DEF U
<1>5. CASE a.action = "reply"
  <2>1. MayReply(T, a)
    BY <1>5 DEF Applicable
  <2>2. CASE Posted(T, a)
    <3>1. U = T
      BY <1>5, <2>2 DEF ApplyDiscussion
    <3>2. Quiet(T, U)
      BY <3>1 DEF Quiet
    <3> QED
      BY <1>1, <3>2, QuietOrderly
  <2>3. CASE ~Posted(T, a)
    <3> DEFINE m == [key |-> a.key, question |-> a.question]
    <3>1. /\ U.question = T.question /\ U.status = "answered"
          /\ U.answers = T.answers \cup {m}
      BY <1>5, <2>3 DEF ApplyDiscussion, ThreadRecords
    <3>2. a.question = T.question /\ T.question # 0 /\ T.status # "answered"
      BY <2>1, <2>3 DEF MayReply, Authentic
    <3>3. m.question = T.question
      BY <3>2
    <3> HIDE DEF m, U
    <3>4. Orderly(U, M)
      BY <1>2, <1>3, <3>1, <3>2, <3>3 DEF Orderly
    <3>5. Keeps(T, U)
      BY <3>1 DEF Keeps
    <3> QED
      BY <3>4, <3>5 DEF U
  <2> QED
    BY <2>2, <2>3
<1>6. CASE a.action = "delivery"
  <2>1. U = [T EXCEPT !.status = Transition(T.status, a.status)]
    BY <1>6 DEF ApplyDiscussion
  <2>2. Transition(T.status, a.status) # "refused" /\ a.status \in Statuses
    BY <1>6 DEF Applicable, Requests
  <2>3. Quiet(T, U)
    BY <1>2, <2>1, <2>2, TransitionKeeps DEF Quiet, ThreadRecords
  <2> QED
    BY <1>1, <2>3, QuietOrderly
<1>7. CASE a.action = "answer-failed"
  <2>1. T.status # "none"
    BY <1>7 DEF Applicable, Authentic, Orderly
  <2>2. Quiet(T, U)
    BY <1>7, <2>1 DEF ApplyDiscussion, Quiet, ThreadRecords
  <2> QED
    BY <1>1, <2>2, QuietOrderly
<1>8. CASE a.action = "claim"
  <2>1. T.status = "pending"
    BY <1>8 DEF Applicable
  <2>2. Quiet(T, U)
    BY <1>8, <2>1 DEF ApplyDiscussion, Quiet, ThreadRecords
  <2> QED
    BY <1>1, <2>2, QuietOrderly
<1>9. CASE a.action = "retry"
  <2>1. T.status # "answered" /\ T.status # "none"
    BY <1>9 DEF Applicable, Orderly
  <2>2. Quiet(T, U)
    BY <1>9, <2>1 DEF ApplyDiscussion, Quiet, ThreadRecords
  <2> QED
    BY <1>1, <2>2, QuietOrderly
<1>10. CASE a.action \in {"resolve", "reopen"}
  <2>1. Quiet(T, U)
    BY <1>10 DEF ApplyDiscussion, Quiet, ThreadRecords
  <2> QED
    BY <1>1, <2>1, QuietOrderly
<1> QED
  BY <1>4, <1>5, <1>6, <1>7, <1>8, <1>9, <1>10 DEF Requests

LEMMA OrderStep ==
  ASSUME IInv, [Next]_vars, NEW t \in Threads
  PROVE  Orderly(threads'[t], last'.subject) /\ Keeps(threads[t], threads'[t])
<1>1. TypeOK /\ ThreadInv /\ TypeOK'
  BY NextType DEF IInv
<1>2. threads[t] \in ThreadRecords /\ threads'[t] \in ThreadRecords
  BY <1>1 DEF TypeOK
<1>3. Orderly(threads[t], last.subject)
  BY <1>1 DEF ThreadInv
<1>4. last.subject \in Nat /\ last'.subject \in Nat /\ last.subject <= last'.subject
  BY <1>1, SubjectGrows, NumbersType
<1>5. ASSUME Quiet(threads[t], threads'[t])
      PROVE  Orderly(threads'[t], last'.subject) /\ Keeps(threads[t], threads'[t])
  BY <1>2, <1>3, <1>4, <1>5, QuietOrderly
<1>6. CASE UNCHANGED threads
  <2>1. Quiet(threads[t], threads'[t])
    BY <1>6 DEF Quiet
  <2> QED
    BY <1>5, <2>1
<1>7. CASE Interrupted
  <2>1. PICK K \in SUBSET {u \in Threads : threads[u].status = "sending"} :
          threads' = SavedThreads(K, "unknown")
    BY <1>7 DEF Interrupted
  <2>2. CASE t \in K
    <3>1. threads'[t] = [threads[t] EXCEPT !.status = "unknown"]
      BY <2>1, <2>2 DEF SavedThreads
    <3>2. threads[t].status = "sending"
      BY <2>2
    <3>3. Quiet(threads[t], threads'[t])
      BY <1>2, <3>1, <3>2 DEF Quiet, ThreadRecords
    <3> QED
      BY <1>5, <3>3
  <2>3. CASE t \notin K
    <3>1. threads'[t] = threads[t]
      BY <2>1, <2>3 DEF SavedThreads
    <3>2. Quiet(threads[t], threads'[t])
      BY <3>1 DEF Quiet
    <3> QED
      BY <1>5, <3>2
  <2> QED
    BY <2>2, <2>3
<1>8. CASE Taken
  <2>1. PICK u \in Threads, a \in Attempts :
          threads[u].status = "pending" /\ threads' = ClaimedThreads(u, a)
    BY <1>8 DEF Taken
  <2>2. CASE t = u
    <3>1. threads'[t] = [threads[t] EXCEPT !.status = "sending", !.attempt = a,
                                           !.required = TRUE]
      BY <2>1, <2>2 DEF ClaimedThreads
    <3>2. Quiet(threads[t], threads'[t])
      BY <1>2, <2>1, <2>2, <3>1 DEF Quiet, ThreadRecords
    <3> QED
      BY <1>5, <3>2
  <2>3. CASE t # u
    <3>1. threads'[t] = threads[t]
      BY <2>1, <2>3 DEF ClaimedThreads
    <3>2. Quiet(threads[t], threads'[t])
      BY <3>1 DEF Quiet
    <3> QED
      BY <1>5, <3>2
  <2> QED
    BY <2>2, <2>3
<1>9. CASE Told
  <2>1. PICK u \in Threads, status \in Statuses :
          /\ Transition(threads[u].status, status) # "refused"
          /\ threads' = SavedThreads({u}, Transition(threads[u].status, status))
    BY <1>9 DEF Told
  <2>2. CASE t = u
    <3> DEFINE next == Transition(threads[t].status, status)
    <3>1. threads'[t] = [threads[t] EXCEPT !.status = next]
      BY <2>1, <2>2 DEF SavedThreads
    <3>2. threads[t].status \in Statuses
      BY <1>2 DEF ThreadRecords
    <3>3. /\ threads[t].status = "answered" => next = "answered"
          /\ (threads[t].status = "none") <=> (next = "none")
      BY <2>1, <2>2, <3>2, TransitionKeeps
    <3> HIDE DEF next
    <3>4. Quiet(threads[t], threads'[t])
      BY <1>2, <3>1, <3>3 DEF Quiet, ThreadRecords
    <3> QED
      BY <1>5, <3>4
  <2>3. CASE t # u
    <3>1. threads'[t] = threads[t]
      BY <2>1, <2>3 DEF SavedThreads
    <3>2. Quiet(threads[t], threads'[t])
      BY <3>1 DEF Quiet
    <3> QED
      BY <1>5, <3>2
  <2> QED
    BY <2>2, <2>3
<1>10. CASE Applied
  <2>1. PICK u \in Threads, a \in Requests, n \in Nat :
          Ready(u, a, n, last'.subject) /\ threads' = After(u, a, n)
    BY <1>10 DEF Applied
  <2>2. CASE t = u
    <3>1. threads'[t] = ApplyDiscussion(threads[t], a, n)
      BY <1>1, <2>1, <2>2 DEF After, TypeOK
    <3>2. /\ Applicable(threads[t], a)
          /\ NewQuestion(a) => threads[t].question < n /\ n <= last'.subject
      BY <2>1, <2>2 DEF Ready
    <3> QED
      BY <1>2, <1>3, <1>4, <3>1, <3>2, ApplyOrderly
  <2>3. CASE t # u
    <3>1. threads'[t] = threads[t]
      BY <1>1, <2>1, <2>3 DEF After, TypeOK
    <3>2. Quiet(threads[t], threads'[t])
      BY <3>1 DEF Quiet
    <3> QED
      BY <1>5, <3>2
  <2> QED
    BY <2>2, <2>3
<1> QED
  BY <1>6, <1>7, <1>8, <1>9, <1>10, MoveStep

-----------------------------------------------------------------------------
(* The theorems. *)

LEMMA InitIInv ==
  ASSUME Init PROVE IInv
<1>1. TypeOK
  BY InitType
<1>2. DraftInv
  BY DEF Init, DraftInv, Idle
<1>3. ThreadInv
  BY DEF Init, ThreadInv, Orderly, NoThread
<1> QED
  BY <1>1, <1>2, <1>3 DEF IInv

LEMMA NextIInv ==
  ASSUME IInv, [Next]_vars PROVE IInv'
<1>1. TypeOK'
  BY NextType DEF IInv
<1>2. ThreadInv'
  BY OrderStep DEF ThreadInv
<1> QED
  BY <1>1, <1>2, DraftStep DEF IInv

(* The invariant holds.                                                     *)
THEOREM Invariance == Spec => []IInv
<1>1. Init => IInv
  BY InitIInv
<1>2. IInv /\ [Next]_vars => IInv'
  BY NextIInv
<1> QED
  BY <1>1, <1>2, PTL DEF Spec

(* A question has at most one answer, however many hosts, live and offline, *)
(* reply to it at once (ApplyDiscussion, MutateDiscussion).                 *)
THEOREM AtMostOneAnswer == Spec => []OneAnswer
<1>1. IInv => OneAnswer
  BY DEF IInv, ThreadInv, Orderly, OneAnswer
<1> QED
  BY <1>1, Invariance, PTL

(* No step erases an answer or reopens a question that has one: neither a   *)
(* late receipt, nor an interruption, nor a writer with an old snapshot.    *)
THEOREM AnswersStay == Spec => AnswersKept
<1>1. IInv /\ [Next]_vars =>
        [\A t \in Threads :
            /\ threads[t].answers \subseteq threads'[t].answers
            /\ threads[t].status = "answered"
               /\ threads'[t].question = threads[t].question
                 => threads'[t].status = "answered"]_vars
  BY OrderStep DEF Keeps
<1> QED
  BY <1>1, Invariance, PTL DEF Spec, AnswersKept

-----------------------------------------------------------------------------
(* The discussion implements Question. *)

\* The phase of one thread changes, whatever else does.
LEMMA PhaseOnly ==
  ASSUME TypeOK, NEW t \in Threads, NEW U \in ThreadRecords,
         threads' = [threads EXCEPT ![t] = U]
  PROVE  /\ Asked!Moves(t, PhaseOf(U.status))
         /\ \A u \in Threads : threads'[u] = IF u = t THEN U ELSE threads[u]
<1>1. \A u \in Threads : threads'[u] = IF u = t THEN U ELSE threads[u]
  BY DEF TypeOK
<1> DEFINE phase == [u \in Threads |-> PhaseOf(threads[u].status)]
<1>2. \A u \in Threads : PhaseOf(threads'[u].status) =
         IF u = t THEN PhaseOf(U.status) ELSE PhaseOf(threads[u].status)
  BY <1>1
<1>3. [u \in Threads |-> PhaseOf(threads'[u].status)]
         = [phase EXCEPT ![t] = PhaseOf(U.status)]
  BY <1>2
<1> QED
  BY <1>1, <1>3 DEF Asked!Moves

\* A thread that changes into U without another question or recipient.
LEMMA PhaseMoves ==
  ASSUME TypeOK, NEW t \in Threads, NEW U \in ThreadRecords,
         threads' = [threads EXCEPT ![t] = U],
         U.question = threads[t].question, U.resolved = threads[t].resolved,
         U.recipient = threads[t].recipient
  PROVE  Asked!Same /\ Asked!Moves(t, PhaseOf(U.status))
<1>1. /\ Asked!Moves(t, PhaseOf(U.status))
      /\ \A u \in Threads : threads'[u] = IF u = t THEN U ELSE threads[u]
  BY PhaseOnly
<1>2. Asked!Same
  BY <1>1 DEF Asked!Same
<1> QED
  BY <1>1, <1>2

\* The phases that a transition leads to.
LEMMA TransitionPhase ==
  ASSUME NEW current \in Statuses, NEW next \in Statuses, current # "none",
         Transition(current, next) # "refused"
  PROVE  LET p == PhaseOf(current)
             q == PhaseOf(Transition(current, next)) IN
         \/ q = p
         \/ p = "waiting" /\ q = "away"
         \/ p \in {"away", "uncertain"} /\ q = "heard"
         \/ p # "answered" /\ q = "answered"
         \/ p # "answered" /\ q = "uncertain"
  BY DEF Transition, Statuses, Acknowledged, Outcomes, PhaseOf

\* A transition of an open thread is a step of Question or a stutter.
LEMMA TransitionAsked ==
  ASSUME TypeOK, NEW t \in Threads, NEW next \in Statuses, OpenThread(t),
         Orderly(threads[t], last.subject),
         Transition(threads[t].status, next) # "refused",
         threads' = [threads EXCEPT ![t] =
            [threads[t] EXCEPT !.status = Transition(threads[t].status, next)]]
  PROVE  Asked!Next \/ UNCHANGED Asked!vars
<1> DEFINE current == threads[t].status
           result == Transition(current, next)
           U == [threads[t] EXCEPT !.status = result]
<1>1. threads[t] \in ThreadRecords /\ current \in Statuses
  BY DEF TypeOK, ThreadRecords
<1>2. result \in Statuses
  BY <1>1, TransitionType
<1>3. /\ U \in ThreadRecords /\ U.status = result
      /\ U.question = threads[t].question /\ U.resolved = threads[t].resolved
      /\ U.recipient = threads[t].recipient
  <2> HIDE DEF result
  <2> QED
    BY <1>1, <1>2 DEF ThreadRecords
<1>4. threads' = [threads EXCEPT ![t] = U]
  OBVIOUS
<1>5. current # "none"
  BY DEF OpenThread, Orderly
<1>6. \/ PhaseOf(result) = PhaseOf(current)
      \/ PhaseOf(current) = "waiting" /\ PhaseOf(result) = "away"
      \/ PhaseOf(current) \in {"away", "uncertain"} /\ PhaseOf(result) = "heard"
      \/ PhaseOf(current) # "answered" /\ PhaseOf(result) = "answered"
      \/ PhaseOf(current) # "answered" /\ PhaseOf(result) = "uncertain"
  BY <1>1, <1>5, TransitionPhase
<1> HIDE DEF U, result
<1>7. Asked!Same /\ Asked!Moves(t, PhaseOf(result))
  BY <1>3, <1>4, PhaseMoves
<1>8. Asked!Open(t)
  BY DEF OpenThread, Asked!Open
<1>9. CASE PhaseOf(result) = PhaseOf(current)
  <2>1. \A u \in Threads : PhaseOf(threads'[u].status) = PhaseOf(threads[u].status)
    BY <1>3, <1>4, <1>9 DEF TypeOK
  <2> QED
    BY <1>7, <2>1 DEF Asked!vars, Asked!Same
<1>10. CASE PhaseOf(current) = "waiting" /\ PhaseOf(result) = "away"
  <2>1. Asked!Leave(t)
    BY <1>7, <1>8, <1>10 DEF Asked!Leave
  <2> QED
    BY <2>1 DEF Asked!Next
<1>11. CASE PhaseOf(current) \in {"away", "uncertain"} /\ PhaseOf(result) = "heard"
  <2>1. Asked!Hear(t)
    BY <1>7, <1>8, <1>11 DEF Asked!Hear
  <2> QED
    BY <2>1 DEF Asked!Next
<1>12. CASE PhaseOf(current) # "answered" /\ PhaseOf(result) = "answered"
  <2>1. Asked!Answer(t)
    BY <1>7, <1>8, <1>12 DEF Asked!Answer
  <2> QED
    BY <2>1 DEF Asked!Next
<1>13. CASE PhaseOf(current) # "answered" /\ PhaseOf(result) = "uncertain"
  <2>1. Asked!Fail(t)
    BY <1>7, <1>8, <1>13 DEF Asked!Fail
  <2> QED
    BY <2>1 DEF Asked!Next
<1> QED
  BY <1>6, <1>9, <1>10, <1>11, <1>12, <1>13

\* A request is a step of Question or a stutter.
LEMMA ApplyAsked ==
  ASSUME TypeOK, ThreadInv, NEW t \in Threads, NEW a \in Requests, NEW n \in Nat,
         Ready(t, a, n, last'.subject), threads' = After(t, a, n)
  PROVE  Asked!Next \/ UNCHANGED Asked!vars
<1> DEFINE T == threads[t]
           U == ApplyDiscussion(T, a, n)
<1>1. T \in ThreadRecords /\ T.question \in Nat /\ T.status \in Statuses
  BY DEF TypeOK, ThreadRecords
<1>2. Applicable(T, a)
  BY DEF Ready
<1>3. U \in ThreadRecords
  BY <1>1, <1>2, ApplyType
<1>4. threads' = [threads EXCEPT ![t] = U]
  BY DEF After
<1>5. Orderly(T, last.subject)
  BY DEF ThreadInv
<1>6. /\ Asked!Moves(t, PhaseOf(U.status))
      /\ \A u \in Threads : threads'[u] = IF u = t THEN U ELSE threads[u]
  <2> HIDE DEF U
  <2> QED
    BY <1>3, <1>4, PhaseOnly
<1>7. ASSUME U.question = T.question, U.resolved = T.resolved, U.recipient = T.recipient
      PROVE  Asked!Same
  <2> HIDE DEF U
  <2> QED
    BY <1>3, <1>4, <1>7, PhaseMoves
<1>8. ASSUME U = T PROVE UNCHANGED Asked!vars
  <2> HIDE DEF U
  <2>1. threads' = threads
    BY <1>1, <1>4, <1>8 DEF TypeOK
  <2> QED
    BY <2>1 DEF Asked!vars
<1>9. CASE a.action \in {"create", "ask"}
  <2>1. /\ U.question = n /\ U.status = "pending" /\ U.resolved = FALSE
    BY <1>1, <1>9 DEF ApplyDiscussion, ThreadRecords
  <2>2. T.question < n
    BY <1>9 DEF Ready, NewQuestion
  <2>3. T.status \in {"none", "answered"} \/ T.resolved
    BY <1>2, <1>5, <1>9 DEF Applicable, Orderly
  <2>4. PhaseOf(T.status) \in {"none", "answered"} \/ T.resolved
    BY <2>3 DEF PhaseOf
  <2>5. PhaseOf(U.status) = "waiting"
    BY <2>1 DEF PhaseOf
  <2> HIDE DEF U
  <2>6. Asked!Moves(t, "waiting")
    BY <1>6, <2>5
  <2>7. /\ Asked!SameElsewhere([u \in Threads |-> threads[u].question],
                               [u \in Threads |-> threads'[u].question], t)
        /\ Asked!SameElsewhere([u \in Threads |-> threads[u].recipient],
                               [u \in Threads |-> threads'[u].recipient], t)
    BY <1>6 DEF Asked!SameElsewhere
  <2> DEFINE resolved == [u \in Threads |-> threads[u].resolved]
  <2>8. [u \in Threads |-> threads'[u].resolved] = [resolved EXCEPT ![t] = FALSE]
    BY <1>6, <2>1
  <2>9. threads'[t].question # threads[t].question
    BY <1>1, <1>6, <2>1, <2>2
  <2>10. Asked!Ask(t)
    BY <2>4, <2>6, <2>7, <2>8, <2>9 DEF Asked!Ask
  <2> QED
    BY <2>10 DEF Asked!Next
<1>10. CASE a.action = "claim"
  <2>1. /\ U.question = T.question /\ U.resolved = T.resolved
        /\ U.recipient = T.recipient /\ U.status = "sending"
    BY <1>1, <1>10 DEF ApplyDiscussion, ThreadRecords
  <2>2. Asked!Open(t) /\ T.status = "pending"
    BY <1>2, <1>10 DEF Applicable, Asked!Open
  <2>3. PhaseOf(T.status) = "waiting" /\ PhaseOf(U.status) = "away"
    BY <2>1, <2>2 DEF PhaseOf
  <2>4. Asked!Same
    BY <1>7, <2>1
  <2> HIDE DEF U
  <2>5. Asked!Moves(t, "away")
    BY <1>6, <2>3
  <2>6. Asked!Leave(t)
    BY <2>2, <2>3, <2>4, <2>5 DEF Asked!Leave
  <2> QED
    BY <2>6 DEF Asked!Next
<1>11. CASE a.action = "reply"
  <2>1. MayReply(T, a)
    BY <1>2, <1>11 DEF Applicable
  <2>2. CASE Posted(T, a)
    <3>1. U = T
      BY <1>11, <2>2 DEF ApplyDiscussion
    <3> QED
      BY <1>8, <3>1
  <2>3. CASE ~Posted(T, a)
    <3>1. /\ U.question = T.question /\ U.resolved = T.resolved
          /\ U.recipient = T.recipient /\ U.status = "answered"
      BY <1>1, <1>11, <2>3 DEF ApplyDiscussion, ThreadRecords
    <3>2. Asked!Open(t) /\ T.status # "answered"
      BY <2>1, <2>3 DEF MayReply, Authentic, Asked!Open
    <3>3. PhaseOf(T.status) # "answered" /\ PhaseOf(U.status) = "answered"
      BY <1>1, <3>1, <3>2 DEF PhaseOf, Statuses
    <3>4. Asked!Same
      BY <1>7, <3>1
    <3> HIDE DEF U
    <3>5. Asked!Moves(t, "answered")
      BY <1>6, <3>3
    <3>6. Asked!Answer(t)
      BY <3>2, <3>3, <3>4, <3>5 DEF Asked!Answer
    <3> QED
      BY <3>6 DEF Asked!Next
  <2> QED
    BY <2>2, <2>3
<1>12. CASE a.action = "delivery"
  <2>1. U = [T EXCEPT !.status = Transition(T.status, a.status)]
    BY <1>12 DEF ApplyDiscussion
  <2>2. /\ Transition(T.status, a.status) # "refused" /\ a.status \in Statuses
        /\ OpenThread(t)
    BY <1>2, <1>12 DEF Applicable, Requests, Authentic, OpenThread
  <2>3. threads' = [threads EXCEPT ![t] =
          [threads[t] EXCEPT !.status = Transition(threads[t].status, a.status)]]
    BY <1>4, <2>1
  <2> QED
    BY <1>5, <2>2, <2>3, TransitionAsked
<1>13. CASE a.action = "answer-failed"
  <2>1. CASE T.status = "answered"
    <3>1. U = T
      BY <1>1, <1>13, <2>1 DEF ApplyDiscussion, ThreadRecords
    <3> QED
      BY <1>8, <3>1
  <2>2. CASE T.status # "answered"
    <3>1. /\ U.question = T.question /\ U.resolved = T.resolved
          /\ U.recipient = T.recipient /\ U.status = "failed"
      BY <1>1, <1>13, <2>2 DEF ApplyDiscussion, ThreadRecords
    <3>2. Asked!Open(t)
      BY <1>2, <1>13 DEF Applicable, Authentic, Asked!Open
    <3>3. PhaseOf(T.status) # "answered" /\ PhaseOf(U.status) = "uncertain"
      BY <1>1, <2>2, <3>1 DEF PhaseOf, Statuses
    <3>4. Asked!Same
      BY <1>7, <3>1
    <3> HIDE DEF U
    <3>5. Asked!Moves(t, "uncertain")
      BY <1>6, <3>3
    <3>6. Asked!Fail(t)
      BY <3>2, <3>3, <3>4, <3>5 DEF Asked!Fail
    <3> QED
      BY <3>6 DEF Asked!Next
  <2> QED
    BY <2>1, <2>2
<1>14. CASE a.action = "retry"
  <2>1. /\ U.question = T.question /\ U.resolved = T.resolved /\ U.status = "pending"
    BY <1>1, <1>14 DEF ApplyDiscussion, ThreadRecords
  <2>2. /\ Asked!Open(t)
        /\ \/ T.status \in {"unknown", "failed", "pending"}
           \/ T.recipient = Provider /\ T.status # "answered"
    BY <1>2, <1>14 DEF Applicable, Asked!Open
  <2>3. \/ PhaseOf(T.status) \in {"waiting", "uncertain"}
        \/ T.recipient = Provider /\ PhaseOf(T.status) # "answered"
    BY <1>1, <2>2 DEF PhaseOf, Statuses
  <2>4. PhaseOf(U.status) = "waiting"
    BY <2>1 DEF PhaseOf
  <2> HIDE DEF U
  <2>5. Asked!Moves(t, "waiting")
    BY <1>6, <2>4
  <2>6. Asked!SameElsewhere([u \in Threads |-> threads[u].recipient],
                            [u \in Threads |-> threads'[u].recipient], t)
    BY <1>6 DEF Asked!SameElsewhere
  <2>7. /\ [u \in Threads |-> threads'[u].question] = [u \in Threads |-> threads[u].question]
        /\ [u \in Threads |-> threads'[u].resolved] = [u \in Threads |-> threads[u].resolved]
    BY <1>6, <2>1
  <2>8. Asked!Retry(t)
    BY <2>2, <2>3, <2>5, <2>6, <2>7 DEF Asked!Retry
  <2> QED
    BY <2>8 DEF Asked!Next
<1>15. CASE a.action \in {"resolve", "reopen"}
  <2>1. /\ U.question = T.question /\ U.status = T.status /\ U.recipient = T.recipient
    BY <1>1, <1>15 DEF ApplyDiscussion, ThreadRecords
  <2>2. T.question # 0
    BY <1>2, <1>15 DEF Applicable
  <2> HIDE DEF U
  <2>3. Asked!SameElsewhere([u \in Threads |-> threads[u].resolved],
                            [u \in Threads |-> threads'[u].resolved], t)
    BY <1>6 DEF Asked!SameElsewhere
  <2>4. /\ [u \in Threads |-> threads'[u].question] = [u \in Threads |-> threads[u].question]
        /\ [u \in Threads |-> threads'[u].recipient] = [u \in Threads |-> threads[u].recipient]
    BY <1>6, <2>1
  <2>5. [u \in Threads |-> PhaseOf(threads'[u].status)]
           = [u \in Threads |-> PhaseOf(threads[u].status)]
    BY <1>6, <2>1
  <2>6. Asked!Settle(t)
    BY <2>2, <2>3, <2>4, <2>5 DEF Asked!Settle
  <2> QED
    BY <2>6 DEF Asked!Next
<1> QED
  BY <1>9, <1>10, <1>11, <1>12, <1>13, <1>14, <1>15 DEF Requests

\* Every step is a step of Question or a stutter.
LEMMA StepAsked ==
  ASSUME IInv, [Next]_vars
  PROVE  [Asked!Next]_(Asked!vars)
<1>1. TypeOK /\ ThreadInv
  BY DEF IInv
<1>2. threads \in [Threads -> ThreadRecords]
  BY <1>1 DEF TypeOK
<1>3. CASE UNCHANGED threads
  BY <1>3 DEF Asked!vars
<1>4. CASE Interrupted
  <2>1. PICK K \in SUBSET {t \in Threads : threads[t].status = "sending"} :
          threads' = SavedThreads(K, "unknown")
    BY <1>4 DEF Interrupted
  <2>2. \A t \in Threads : threads'[t] =
          IF t \in K THEN [threads[t] EXCEPT !.status = "unknown"] ELSE threads[t]
    BY <2>1 DEF SavedThreads
  <2>3. \A t \in Threads :
           /\ threads'[t].question = threads[t].question
           /\ threads'[t].resolved = threads[t].resolved
           /\ threads'[t].recipient = threads[t].recipient
           /\ t \in K => threads'[t].status = "unknown"
    BY <1>2, <2>2 DEF ThreadRecords
  <2>4. Asked!Same
    BY <2>3 DEF Asked!Same
  <2>5. PhaseOf("unknown") = "uncertain" /\ PhaseOf("sending") = "away"
    BY DEF PhaseOf
  <2>6. K \in SUBSET {t \in Threads : PhaseOf(threads[t].status) = "away"}
    BY <2>1, <2>5
  <2>7. \A t \in Threads : PhaseOf(threads'[t].status) =
          IF t \in K THEN "uncertain" ELSE PhaseOf(threads[t].status)
    BY <2>2, <2>3, <2>5
  <2>8. Asked!Interrupt
    BY <2>4, <2>6, <2>7 DEF Asked!Interrupt
  <2> QED
    BY <2>8 DEF Asked!Next
<1>5. CASE Taken
  <2>1. PICK t \in Threads, a \in Attempts :
          /\ OpenThread(t) /\ threads[t].status = "pending"
          /\ threads' = ClaimedThreads(t, a)
    BY <1>5 DEF Taken
  <2> DEFINE U == [threads[t] EXCEPT !.status = "sending", !.attempt = a,
                                     !.required = TRUE]
  <2>2. /\ U \in ThreadRecords /\ U.question = threads[t].question
        /\ U.resolved = threads[t].resolved /\ U.recipient = threads[t].recipient
        /\ U.status = "sending"
    BY <1>2 DEF ThreadRecords, Statuses
  <2>3. threads' = [threads EXCEPT ![t] = U]
    BY <1>2, <2>1 DEF ClaimedThreads
  <2> HIDE DEF U
  <2>4. PhaseOf("pending") = "waiting" /\ PhaseOf("sending") = "away"
    BY DEF PhaseOf
  <2>5. Asked!Same /\ Asked!Moves(t, "away")
    BY <1>1, <2>2, <2>3, <2>4, PhaseMoves
  <2>6. Asked!Leave(t)
    BY <2>1, <2>4, <2>5 DEF Asked!Leave, Asked!Open, OpenThread
  <2> QED
    BY <2>6 DEF Asked!Next
<1>6. CASE Told
  <2>1. PICK t \in Threads, status \in Statuses :
          /\ OpenThread(t) /\ Transition(threads[t].status, status) # "refused"
          /\ threads' = SavedThreads({t}, Transition(threads[t].status, status))
    BY <1>6 DEF Told
  <2> DEFINE next == Transition(threads[t].status, status)
  <2> HIDE DEF next
  <2>2. threads' = SavedThreads({t}, next)
    BY <2>1 DEF next
  <2>3. threads' = [threads EXCEPT ![t] = [threads[t] EXCEPT !.status = next]]
    BY <1>2, <2>2 DEF SavedThreads
  <2>4. Orderly(threads[t], last.subject)
    BY <1>1 DEF ThreadInv
  <2> QED
    BY <1>1, <2>1, <2>3, <2>4, TransitionAsked DEF next
<1>7. CASE Applied
  BY <1>1, <1>7, ApplyAsked DEF Applied
<1> QED
  BY <1>3, <1>4, <1>5, <1>6, <1>7, MoveStep

(* The discussion, with every live and offline writer, every consumer and    *)
(* every crash, behaves as a person who asks is promised (Question).         *)
THEOREM DiscussionImplementsQuestion == Spec => ImplementsQuestion
<1>1. Init => Asked!Init
  BY DEF Init, NoThread, PhaseOf, Asked!Init
<1>2. IInv /\ [Next]_vars => [Asked!Next]_(Asked!vars)
  BY StepAsked
<1> QED
  BY <1>1, <1>2, Invariance, PTL DEF Spec, ImplementsQuestion, Asked!Spec

=============================================================================
