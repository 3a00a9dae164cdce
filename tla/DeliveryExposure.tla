-------------------------- MODULE DeliveryExposure --------------------------
(***************************************************************************)
(* A message leaves only on request and is saved as claimed, for every     *)
(* number of consumers, threads and writers.                               *)
(*                                                                         *)
(* Every step is of one of five kinds (KindStep): it offers nothing new,    *)
(* it offers a new handback or task, it lets one message leave, it applies  *)
(* one request to a thread, or it prepares a draft. DueInv says that what   *)
(* is offered is due. It needs IdInv: a message that leaves takes only its  *)
(* own identity from what is due.                                           *)
(***************************************************************************)
EXTENDS DeliverySafety

USE DeliveryAssumption DEF vars, history

-----------------------------------------------------------------------------
(* The inductive invariant. *)

\* Message k has identity i, in memory, on disk or in a draft.
Holds(k, i) ==
    \/ k = "note" /\ i \in {s.note.id, disk.note.id}
    \/ k = "task" /\ i \in {s.task.id, disk.task.id}
    \/ k \in Threads /\ i = threads[k].question
    \/ /\ k \in Threads
       /\ \E w \in Writers : /\ drafts[w].state = "fresh"
                             /\ i = drafts[w].threads[k].question

IdInv ==
    \A k \in Slots, i \in Nat \ {0} :
        Holds(k, i) => /\ i <= last.subject
                       /\ \A l \in Slots : Holds(l, i) => l = k

DueInv ==
    /\ 0 \notin due
    /\ s.note.status = "pending" => s.note.id \in due
    /\ s.task.status = "pending" /\ s.task.active => s.task.id \in due
    /\ \A t \in Threads : threads[t].status = "pending" => threads[t].question \in due

Durable(d) ==
    \A e \in sent :
        /\ e.slot = "note" /\ d.note.id = e.subject => d.note.status # "pending"
        /\ e.slot = "task" /\ d.task.id = e.subject => d.task.status # "pending"

DurableInv ==
    /\ Durable(s) /\ Durable(disk)
    /\ \A e \in sent : e.subject <= last.subject

EInv == IInv /\ IdInv /\ DueInv /\ DurableInv

-----------------------------------------------------------------------------
(* The kinds of step. *)

\* A handback, a task or a descriptor that offers no more than another one.
NoteFrom(n, m) ==
    /\ n.id \in {0, m.id}
    /\ n.status = "pending" => n.id = m.id /\ m.status = "pending"
TaskFrom(t, u) ==
    /\ t.id \in {0, u.id}
    /\ t.status = "pending" => /\ t.id = u.id /\ u.status = "pending"
                               /\ t.active => u.active
From(d, c) == NoteFrom(d.note, c.note) /\ TaskFrom(d.task, c.task)

Withdrawn(d) == d.note.status # "pending" /\ ~d.task.active

\* The document offers no new question.
DocQuiet ==
    /\ \A t \in Threads :
          /\ threads'[t].question = threads[t].question
          /\ threads'[t].status = "pending" => threads[t].status = "pending"
    /\ \A w \in Writers : drafts'[w].state = "fresh" => drafts'[w] = drafts[w]

QuietStep ==
    /\ From(s', s) \/ (From(s', disk) /\ Withdrawn(s'))
    /\ From(disk', s) \/ From(disk', disk)
    /\ DocQuiet
    /\ UNCHANGED <<due, sent>> /\ last'.subject = last.subject

EmitStep ==
    /\ DocQuiet
    /\ sent' = sent /\ last'.subject = last.subject + 1
    /\ due' \in {due, due \cup {last'.subject}}
    /\ \/ /\ disk' = s' /\ s'.note.id = last'.subject /\ TaskFrom(s'.task, s.task)
          /\ last'.subject \in due'
       \/ /\ disk' = s' /\ s'.task.id = last'.subject /\ NoteFrom(s'.note, s.note)
          /\ s'.task.status = "pending" => last'.subject \in due'
       \/ disk' = disk /\ From(s', s)

Sends(k, e) ==
    /\ Status(k) = "pending" /\ (k = "task" => s.task.active)
    /\ e.slot = k /\ e.subject = Subject(k)
    /\ sent' = sent \cup {e} /\ due' = due \ {Subject(k)}
    /\ last'.subject = last.subject
    /\ From(s', s) /\ (From(disk', s) \/ From(disk', disk)) /\ DocQuiet
    /\ k = "note" => disk' = s' /\ s'.note.status # "pending"
    /\ k = "task" => disk' = s' /\ s'.task.status # "pending"
    /\ k \in Threads => threads'[k].status # "pending"
SendStep == \E k \in Slots, e \in Envelopes : Sends(k, e)

Commits(t, a, n) ==
    /\ UNCHANGED <<s, disk>> /\ Outdated
    /\ Ready(t, a, n, last'.subject) /\ threads' = After(t, a, n)
    /\ Record(Effect(t, a, n))
    /\ NewQuestion(a) => Holds(t, n) \/ n = last.subject + 1
RequestStep == \E t \in Threads, a \in Requests, n \in Nat : Commits(t, a, n)

Prepares(w, t, a, n) ==
    /\ UNCHANGED <<s, disk, threads, due, sent>>
    /\ Ready(t, a, n, last'.subject)
    /\ NewQuestion(a) => n = last.subject + 1
    /\ drafts'[w].threads = After(t, a, n)
    /\ \A x \in Writers : x # w => drafts'[x] = drafts[x]
ReadStep ==
    \E w \in Writers, t \in Threads, a \in Requests, n \in Nat : Prepares(w, t, a, n)

Kinds == QuietStep \/ EmitStep \/ SendStep \/ RequestStep \/ ReadStep

-----------------------------------------------------------------------------
(* What the operations on a descriptor offer. *)

LEMMA FromSelf == ASSUME NEW d PROVE From(d, d)
  BY DEF From, NoteFrom, TaskFrom

LEMMA SavedFrom ==
  ASSUME NEW d \in Descriptors, NEW K, NEW status \in Statuses,
         status = "pending" => /\ "note" \in K => d.note.status = "pending"
                               /\ "task" \in K => d.task.status = "pending"
  PROVE  From(SavedIn(d, K, status), d)
  BY DEF SavedIn, From, NoteFrom, TaskFrom, Descriptors, Notes, Tasks

LEMMA CancelledFrom ==
  ASSUME NEW d \in Descriptors
  PROVE  From(Cancelled(d), d) /\ ~Cancelled(d).task.active
  BY DEF Cancelled, From, NoteFrom, TaskFrom, Descriptors, Tasks

LEMMA FromFrom ==
  ASSUME NEW c \in Descriptors, NEW d, NEW e, From(d, c), From(e, d)
  PROVE  From(e, c)
  BY DEF From, NoteFrom, TaskFrom

LEMMA ConsumersFrom ==
  ASSUME NEW d \in Descriptors, NEW c, From(d, c), NEW f
  PROVE  From([d EXCEPT !.consumers = f], c)
  BY DEF From, Descriptors

LEMMA ClaimedFrom ==
  ASSUME NEW d \in Descriptors, NEW k, NEW a \in Attempts
  PROVE  /\ From(ClaimedIn(d, k, a), d)
         /\ k = "note" => ClaimedIn(d, k, a).note.status # "pending"
         /\ k = "task" => ClaimedIn(d, k, a).task.status # "pending"
<1> DEFINE e == SavedIn(d, {k}, "sending")
<1>1. e \in Descriptors /\ From(e, d)
  BY SavedInType, SavedFrom DEF Statuses
<1>2. /\ k = "note" => e.note.status # "pending"
      /\ k = "task" => e.task.status # "pending"
  BY DEF SavedIn, Descriptors, Notes, Tasks
<1> HIDE DEF e
<1> DEFINE f == [e EXCEPT !.note.attempt = IF k = "note" THEN a ELSE @,
                          !.task.attempt = IF k = "task" THEN a ELSE @]
<1>3. /\ f.note.id = e.note.id /\ f.note.status = e.note.status
      /\ f.task.id = e.task.id /\ f.task.status = e.task.status
      /\ f.task.active = e.task.active
  BY <1>1 DEF Descriptors, Notes, Tasks
<1>4. f = ClaimedIn(d, k, a)
  BY DEF ClaimedIn, e
<1> HIDE DEF f
<1>5. From(f, d)
  BY <1>1, <1>3 DEF From, NoteFrom, TaskFrom
<1> QED
  BY <1>2, <1>3, <1>4, <1>5

LEMMA RecoveredFrom ==
  ASSUME NEW d \in Descriptors
  PROVE  From(Recovered(d), d) /\ Withdrawn(Recovered(d))
<1> DEFINE e == Cancelled(d)
<1>1. e \in Descriptors /\ From(e, d) /\ ~e.task.active
  BY CancelledType, CancelledFrom
<1> HIDE DEF e
<1>2. /\ From([e EXCEPT !.note.status =
               IF @ \in {"pending", "sending"} THEN "unknown" ELSE @], e)
      /\ Withdrawn([e EXCEPT !.note.status =
               IF @ \in {"pending", "sending"} THEN "unknown" ELSE @])
  BY <1>1 DEF From, NoteFrom, TaskFrom, Withdrawn, Descriptors, Notes
<1> QED
  BY <1>1, <1>2, FromFrom DEF Recovered, e

LEMMA TransitionSource ==
  ASSUME NEW current \in Statuses, NEW next \in Statuses
  PROVE  /\ Transition(current, next) \in {"pending", "sending"} => current = "pending"
         /\ Transition(current, next) # "refused" /\ next # "pending"
              => Transition(current, next) # "pending"
         /\ next = "sending" => Transition(current, next) \in {"sending", "refused"}
  BY DEF Transition, Statuses, Acknowledged, Outcomes

-----------------------------------------------------------------------------
(* Every step is of one of the kinds. *)

\* An interruption, a claim and a receipt offer no new question.
LEMMA MovesQuiet ==
  ASSUME TypeOK,
         \/ UNCHANGED <<threads, drafts>>
         \/ (Interrupted \/ Taken \/ Told) /\ Outdated
  PROVE  DocQuiet
<1>1. \A t \in Threads : threads[t] \in ThreadRecords
  BY DEF TypeOK
<1>2. CASE UNCHANGED <<threads, drafts>>
  BY <1>2 DEF DocQuiet
<1>3. CASE Interrupted /\ Outdated
  BY <1>1, <1>3 DEF Interrupted, SavedThreads, ThreadRecords, DocQuiet, Outdated
<1>4. CASE Taken /\ Outdated
  <2>1. PICK t \in Threads, a \in Attempts : threads' = ClaimedThreads(t, a)
    BY <1>4 DEF Taken
  <2>2. \A u \in Threads : /\ threads'[u].question = threads[u].question
                           /\ threads'[u].status = "pending"
                                => threads[u].status = "pending"
    BY <1>1, <2>1 DEF ClaimedThreads, ThreadRecords
  <2> QED
    BY <1>4, <2>2, Zenon DEF DocQuiet, Outdated
<1>5. CASE Told /\ Outdated
  <2>1. PICK t \in Threads, status \in Statuses :
          threads' = SavedThreads({t}, Transition(threads[t].status, status))
    BY <1>5 DEF Told
  <2> DEFINE next == Transition(threads[t].status, status)
  <2>2. next = "pending" => threads[t].status = "pending"
    BY <1>1, TransitionSource DEF ThreadRecords
  <2> HIDE DEF next
  <2>3. threads' = SavedThreads({t}, next)
    BY <2>1 DEF next
  <2> QED
    BY <1>1, <1>5, <2>2, <2>3 DEF SavedThreads, ThreadRecords, DocQuiet, Outdated
<1> QED
  BY <1>2, <1>3, <1>4, <1>5

\* The number of subjects stays when another number is raised.
LEMMA OtherNumbers ==
  ASSUME TypeOK,
         \/ UNCHANGED last
         \/ last' = [last EXCEPT !.copy = @ + 1]
         \/ last' = [last EXCEPT !.instance = @ + 1]
         \/ last' = [last EXCEPT !.binding = @ + 1]
  PROVE  last'.subject = last.subject
  BY DEF TypeOK, Numbers

LEMMA OpenKind ==
  ASSUME TypeOK, NEW c \in Consumers, NEW r \in Nat,
         OpenConsumer(c, r) \/ OpenConsumerPartly(c, r)
  PROVE  QuietStep
<1>1. DocQuiet
  BY OpenMoves, MovesQuiet
<1>2. s \in Descriptors /\ "unknown" \in Statuses
  BY DEF TypeOK, Statuses
<1>3. CASE OpenConsumer(c, r)
  <2> DEFINE d == SavedIn(s, Unfinished(s, c), "unknown")
  <2>1. d \in Descriptors /\ From(d, s)
    BY <1>2, SavedInType, SavedFrom
  <2>2. \E f : s' = [d EXCEPT !.consumers = f] /\ disk' = s'
    BY <1>3 DEF OpenConsumer, Persist
  <2> HIDE DEF d
  <2>3. From(s', s) /\ From(disk', s)
    BY <2>1, <2>2, ConsumersFrom
  <2>4. UNCHANGED <<due, sent>> /\ last' = [last EXCEPT !.instance = @ + 1]
    BY <1>3 DEF OpenConsumer
  <2> QED
    BY <1>1, <2>3, <2>4, OtherNumbers DEF QuietStep
<1>4. CASE OpenConsumerPartly(c, r)
  <2>1. PICK P : SaveSome(s, P)
    BY <1>4 DEF OpenConsumerPartly
  <2>2. From(s', s)
    BY <1>2, <2>1, SavedFrom DEF SaveSome
  <2>3. From(disk', s) \/ From(disk', disk)
    BY <2>1, <2>2, FromSelf DEF SaveSome
  <2>4. UNCHANGED <<due, sent, last>>
    BY <1>4 DEF OpenConsumerPartly
  <2> QED
    BY <1>1, <2>2, <2>3, <2>4 DEF QuietStep
<1> QED
  BY <1>3, <1>4

LEMMA CloseKind ==
  ASSUME TypeOK, NEW c \in Consumers, CloseConsumer(c)
  PROVE  QuietStep
<1>1. DocQuiet
  BY CloseMoves, MovesQuiet
<1>2. UNCHANGED <<due, sent, last>>
  BY DEF CloseConsumer
<1>3. PICK hosted \in {FALSE, s.task.active} : \E K :
        LET d == IF hosted THEN Cancelled(s) ELSE s IN
        \/ \E f : Persist([SavedIn(d, K, "unknown") EXCEPT !.consumers = f])
        \/ \E P : SaveSome(d, P)
  BY DEF CloseConsumer
<1> DEFINE d == IF hosted THEN Cancelled(s) ELSE s
<1>4. d \in Descriptors /\ From(d, s) /\ s \in Descriptors /\ "unknown" \in Statuses
  BY CancelledType, CancelledFrom, FromSelf DEF TypeOK, Statuses
<1>5. PICK K : \/ \E f : Persist([SavedIn(d, K, "unknown") EXCEPT !.consumers = f])
                \/ \E P : SaveSome(d, P)
  BY <1>3
<1> HIDE DEF d
<1>6. ASSUME NEW P PROVE SavedIn(d, P, "unknown") \in Descriptors
                         /\ From(SavedIn(d, P, "unknown"), s)
  BY <1>4, SavedInType, SavedFrom, FromFrom
<1>7. CASE \E f : Persist([SavedIn(d, K, "unknown") EXCEPT !.consumers = f])
  <2> DEFINE e == SavedIn(d, K, "unknown")
  <2>1. e \in Descriptors /\ From(e, s)
    BY <1>6
  <2>2. PICK f : Persist([e EXCEPT !.consumers = f])
    BY <1>7
  <2> HIDE DEF e
  <2>3. From(s', s) /\ From(disk', s)
    BY <2>1, <2>2, ConsumersFrom DEF Persist
  <2> QED
    BY <1>1, <1>2, <2>3 DEF QuietStep
<1>8. CASE \E P : SaveSome(d, P)
  <2>1. PICK P : SaveSome(d, P)
    BY <1>8
  <2>2. From(s', s)
    BY <1>6, <2>1 DEF SaveSome
  <2>3. From(disk', s) \/ From(disk', disk)
    BY <1>4, <2>1, <2>2, FromSelf DEF SaveSome
  <2> QED
    BY <1>1, <1>2, <2>2, <2>3 DEF QuietStep
<1> QED
  BY <1>5, <1>7, <1>8

LEMMA ReceiptKind ==
  ASSUME TypeOK, NEW c \in Consumers, NEW e \in sent, NEW status \in Receipts,
         Receipt(c, e, status)
  PROVE  QuietStep
<1>1. DocQuiet
  BY ReceiptMoves, MovesQuiet
<1>2. UNCHANGED <<due, sent, last>>
  BY DEF Receipt
<1>3. s \in Descriptors /\ s.note.status \in Statuses /\ s.task.status \in Statuses
  BY DEF TypeOK, Descriptors, Notes, Tasks
<1>4. CASE e.slot \in Threads
  <2>1. UNCHANGED <<s, disk>>
    BY <1>4 DEF Receipt
  <2> QED
    BY <1>1, <1>2, <2>1, FromSelf DEF QuietStep
<1>5. CASE e.slot \notin Threads
  <2> DEFINE k == e.slot
             next == Transition(Status(k), status)
  <2>1. k \in {"note", "task"} /\ status \in Statuses
    BY <1>5 DEF TypeOK, Envelopes, DeliveryAssumption
  <2>2. next # "refused" /\ Persist(SavedIn(s, {k}, next))
    BY <1>5 DEF Receipt
  <2>3. Status(k) = IF k = "note" THEN s.note.status ELSE s.task.status
    BY <2>1 DEF Status
  <2>4. next \in Statuses /\ (next = "pending" => Status(k) = "pending")
    BY <1>3, <2>1, <2>2, <2>3, TransitionType, TransitionSource
  <2> HIDE DEF next
  <2>5. From(SavedIn(s, {k}, next), s)
    BY <1>3, <2>1, <2>3, <2>4, SavedFrom
  <2>6. From(s', s) /\ From(disk', s)
    BY <2>2, <2>5 DEF Persist
  <2> QED
    BY <1>1, <1>2, <2>6 DEF QuietStep
<1> QED
  BY <1>4, <1>5

LEMMA NextDeliveryKind ==
  ASSUME TypeOK, NEW c \in Consumers, NextDelivery(c)
  PROVE  SendStep
<1> DEFINE attempt == [id |-> last.copy + 1, consumer |-> c,
                       instance |-> s.consumers[c].instance,
                       recipient |-> s.consumers[c].recipient]
           D(h) == IF h THEN Cancelled(s) ELSE s
<1>1. PICK lapsed \in {FALSE, First(Candidates(s, c)) = {"task"}} :
        \E k \in First(Candidates(D(lapsed), c)) :
           /\ last' = [last EXCEPT !.copy = @ + 1]
           /\ IF k \in Threads
              THEN /\ CommitDiscussion(ClaimedThreads(k, attempt))
                   /\ IF lapsed THEN Forget(D(lapsed)) ELSE UNCHANGED <<s, disk>>
              ELSE Persist(ClaimedIn(D(lapsed), k, attempt))
                   /\ UNCHANGED <<threads, drafts>>
           /\ sent' = sent \cup {Claimed(k, attempt)}
           /\ due' = due \ {Subject(k)}
  BY DEF NextDelivery
<1>2. s.consumers[c].instance \in Nat /\ s.consumers[c].recipient \in Nat
      /\ s \in Descriptors
  BY DEF TypeOK, Descriptors
<1>3. attempt \in Attempts
  BY <1>2, NumbersType DEF Attempts
<1> DEFINE d == D(lapsed)
<1>4. d \in Descriptors /\ From(d, s) /\ (d.task.active => s.task.active)
  BY <1>2, CancelledType, CancelledFrom, FromSelf
<1>5. lapsed => d = Cancelled(s)
  OBVIOUS
<1> HIDE DEF attempt, D
<1>6. PICK k \in First(Candidates(d, c)) :
           /\ last' = [last EXCEPT !.copy = @ + 1]
           /\ IF k \in Threads
              THEN /\ CommitDiscussion(ClaimedThreads(k, attempt))
                   /\ IF lapsed THEN Forget(d) ELSE UNCHANGED <<s, disk>>
              ELSE Persist(ClaimedIn(d, k, attempt))
                   /\ UNCHANGED <<threads, drafts>>
           /\ sent' = sent \cup {Claimed(k, attempt)}
           /\ due' = due \ {Subject(k)}
  BY <1>1
<1> HIDE DEF d
<1>7. k \in Slots /\ Shown(d, k) /\ Status(k) = "pending"
  BY <1>6 DEF First, Candidates
<1>8. k = "task" => s.task.active
  BY <1>4, <1>7 DEF Shown, DeliveryAssumption
<1> DEFINE e == Claimed(k, attempt)
<1>9. e \in Envelopes /\ e.slot = k /\ e.subject = Subject(k)
  BY <1>3, <1>7, EnvelopeType DEF Claimed
<1>10. DocQuiet
  BY NextDeliveryMoves, MovesQuiet
<1>11. last'.subject = last.subject
  BY <1>6, OtherNumbers
<1> HIDE DEF e
<1>12. sent' = sent \cup {e} /\ due' = due \ {Subject(k)}
  BY <1>6 DEF e
<1>13. CASE k \in Threads
  <2>1. From(s', s) /\ (From(disk', s) \/ From(disk', disk))
    BY <1>4, <1>6, <1>13, FromSelf DEF Forget, Persist
  <2>2. k # "note" /\ k # "task"
    BY <1>13 DEF DeliveryAssumption
  <2>3. threads'[k].status # "pending"
    BY <1>6, <1>13 DEF CommitDiscussion, ClaimedThreads, TypeOK, ThreadRecords
  <2>4. Sends(k, e)
    BY <1>7, <1>8, <1>9, <1>10, <1>11, <1>12, <2>1, <2>2, <2>3 DEF Sends
  <2> QED
    BY <1>7, <1>9, <2>4 DEF SendStep
<1>14. CASE k \notin Threads
  <2>1. Persist(ClaimedIn(d, k, attempt))
    BY <1>6, <1>14
  <2>2. /\ From(ClaimedIn(d, k, attempt), d)
        /\ k = "note" => ClaimedIn(d, k, attempt).note.status # "pending"
        /\ k = "task" => ClaimedIn(d, k, attempt).task.status # "pending"
    BY <1>3, <1>4, ClaimedFrom
  <2>3. From(s', s) /\ disk' = s'
    BY <1>2, <1>4, <2>1, <2>2, FromFrom DEF Persist
  <2>4. Sends(k, e)
    BY <1>7, <1>8, <1>9, <1>10, <1>11, <1>12, <1>14, <2>1, <2>2, <2>3 DEF Sends, Persist
  <2> QED
    BY <1>7, <1>9, <2>4 DEF SendStep
<1> QED
  BY <1>13, <1>14

\* An action that only changes the descriptor, and offers nothing.
LEMMA DescriptorKind ==
  ASSUME UNCHANGED <<threads, drafts, due, sent>>, last'.subject = last.subject, TypeOK,
         From(s', s) \/ (From(s', disk) /\ Withdrawn(s')),
         From(disk', s) \/ From(disk', disk)
  PROVE  QuietStep
<1>1. DocQuiet
  BY MovesQuiet
<1> QED
  BY <1>1 DEF QuietStep

LEMMA EmitKind ==
  ASSUME TypeOK, NEW d \in Descriptors, TaskFrom(d.task, s.task), EmitHandback(d)
  PROVE  EmitStep
<1>1. s' = [d EXCEPT !.note = NewNote(d)] /\ disk' = s'
  BY DEF EmitHandback, Persist
<1>2. last' = [last EXCEPT !.subject = @ + 1] /\ UNCHANGED <<threads, drafts, sent>>
  BY DEF EmitHandback
<1>3. last'.subject = last.subject + 1
  BY <1>2 DEF TypeOK, Numbers
<1>4. s'.note = NewNote(d) /\ s'.task = d.task
  BY <1>1 DEF Descriptors
<1>5. s'.note.id = last'.subject
  BY <1>3, <1>4 DEF NewNote
<1>6. DocQuiet
  BY <1>2, MovesQuiet
<1>7. due' = due \cup {last'.subject}
  BY DEF EmitHandback
<1> QED
  BY <1>1, <1>2, <1>3, <1>4, <1>5, <1>6, <1>7 DEF EmitStep

LEMMA HandbackKind ==
  ASSUME TypeOK, Reclaim \/ RetryNotification \/ Handover
  PROVE  EmitStep \/ QuietStep
<1>1. s \in Descriptors
  BY DEF TypeOK
<1>2. CASE Reclaim
  <2> DEFINE d == [s EXCEPT !.owner = "agent"]
  <2>1. d \in Descriptors /\ d.task = s.task
    BY <1>1 DEF Descriptors
  <2>2. EmitHandback(d)
    BY <1>2 DEF Reclaim
  <2> HIDE DEF d
  <2>3. TaskFrom(d.task, s.task)
    BY <2>1 DEF TaskFrom
  <2> QED
    BY <2>1, <2>2, <2>3, EmitKind
<1>3. CASE RetryNotification
  <2>1. TaskFrom(s.task, s.task)
    BY DEF TaskFrom
  <2> QED
    BY <1>1, <1>3, <2>1, EmitKind DEF RetryNotification
<1>4. CASE Handover
  <2>1. s' = [s EXCEPT !.owner = "human"] /\ disk' = s'
    BY <1>4 DEF Handover, Persist
  <2>2. s'.note = s.note /\ s'.task = s.task
    BY <1>1, <2>1 DEF Descriptors
  <2>3. From(s', s) /\ From(disk', s)
    BY <2>1, <2>2 DEF From, NoteFrom, TaskFrom
  <2>4. UNCHANGED <<threads, drafts, due, sent, last>>
    BY <1>4 DEF Handover
  <2> QED
    BY <2>3, <2>4, DescriptorKind
<1> QED
  BY <1>2, <1>3, <1>4

\* A legacy report of the handback or the task.
LEMMA LegacyKind ==
  ASSUME TypeOK, NEW k \in {"note", "task"}, NEW status \in Statuses,
         UNCHANGED <<threads, drafts>>, LegacySend(k, status), disk' = s',
         From(s', s), k = "task" => s.task.active,
         status = "sending" =>
            /\ Status(k) = "pending"
            /\ k = "note" => s'.note.status # "pending"
            /\ k = "task" => s'.task.status # "pending"
  PROVE  SendStep \/ QuietStep
<1>1. DocQuiet
  BY MovesQuiet
<1>2. k \in Slots /\ k \notin Threads
  BY DEF Slots, DeliveryAssumption
<1>3. CASE status = "sending"
  <2> DEFINE e == Unclaimed(k, last'.copy)
  <2>1. last' = [last EXCEPT !.copy = @ + 1] /\ sent' = sent \cup {e}
        /\ due' = due \ {Subject(k)}
    BY <1>3 DEF LegacySend
  <2>2. last'.copy \in Nat /\ last'.subject = last.subject
    BY <2>1, NumbersType, OtherNumbers DEF TypeOK, Numbers
  <2>3. e \in Envelopes /\ e.slot = k /\ e.subject = Subject(k)
    BY <1>2, <2>2, Constants, EnvelopeType DEF Unclaimed
  <2> HIDE DEF e
  <2>4. Sends(k, e)
    BY <1>1, <1>2, <1>3, <2>1, <2>2, <2>3 DEF Sends
  <2> QED
    BY <1>2, <2>3, <2>4 DEF SendStep
<1>4. CASE status # "sending"
  <2>1. UNCHANGED <<last, sent, due>>
    BY <1>4 DEF LegacySend
  <2> QED
    BY <1>1, <2>1 DEF QuietStep
<1> QED
  BY <1>3, <1>4

LEMMA EventStatusKind ==
  ASSUME TypeOK, NEW id, NEW status \in Receipts, EventStatus(id, status)
  PROVE  SendStep \/ QuietStep
<1>1. status \in Statuses /\ s \in Descriptors /\ s.note.status \in Statuses
  BY DEF DeliveryAssumption, TypeOK, Descriptors, Notes
<1>2. s' = [s EXCEPT !.note.status = status] /\ disk' = s'
  BY DEF EventStatus, Persist
<1>3. /\ s'.note.status = status /\ s'.note.id = s.note.id /\ s'.task = s.task
  BY <1>1, <1>2 DEF Descriptors, Notes
<1>4. Transition(s.note.status, status) = status \/ status = "acknowledged"
  BY DEF EventStatus
<1>5. status \in {"pending", "sending"} => s.note.status = "pending"
  BY <1>1, <1>4, TransitionSource
<1>6. From(s', s)
  BY <1>3, <1>5 DEF From, NoteFrom, TaskFrom
<1>7. Status("note") = s.note.status
  BY DEF Status
<1>8. UNCHANGED <<threads, drafts>> /\ LegacySend("note", status)
  BY DEF EventStatus
<1> QED
  BY <1>1, <1>2, <1>3, <1>5, <1>6, <1>7, <1>8, LegacyKind

LEMMA TaskDeliveryKind ==
  ASSUME TypeOK, NEW id, NEW status \in Receipts, TaskDelivery(id, status)
  PROVE  SendStep \/ QuietStep
<1>1. status \in Statuses /\ s \in Descriptors /\ s.task.status \in Statuses
  BY DEF DeliveryAssumption, TypeOK, Descriptors, Tasks
<1>2. s' = [s EXCEPT !.task.status = status] /\ disk' = s'
  BY DEF TaskDelivery, Persist
<1>3. /\ s'.task.status = status /\ s'.task.id = s.task.id /\ s'.note = s.note
      /\ s'.task.active = s.task.active
  BY <1>1, <1>2 DEF Descriptors, Tasks
<1>4. Transition(s.task.status, status) = status /\ s.task.active
  BY DEF TaskDelivery, TaskValid
<1>5. status \in {"pending", "sending"} => s.task.status = "pending"
  BY <1>1, <1>4, TransitionSource
<1>6. From(s', s)
  BY <1>3, <1>5 DEF From, NoteFrom, TaskFrom
<1>7. Status("task") = s.task.status
  BY DEF Status
<1>8. UNCHANGED <<threads, drafts>> /\ LegacySend("task", status)
  BY DEF TaskDelivery
<1> QED
  BY <1>1, <1>2, <1>3, <1>4, <1>5, <1>6, <1>7, <1>8, LegacyKind

LEMMA StartTaskKind ==
  ASSUME TypeOK, NEW status \in {"pending", "acknowledged"}, StartTask(status)
  PROVE  EmitStep
<1>1. s \in Descriptors
  BY DEF TypeOK
<1>2. last' = [last EXCEPT !.subject = @ + 1] /\ UNCHANGED <<threads, drafts, sent>>
  BY DEF StartTask
<1>3. last'.subject = last.subject + 1
  BY <1>2 DEF TypeOK, Numbers
<1>4. DocQuiet
  BY <1>2, MovesQuiet
<1>5. due' = IF status = "pending" THEN due \cup {last'.subject} ELSE due
  BY DEF StartTask
<1> DEFINE task == [id |-> last'.subject, status |-> status, attempt |-> NoAttempt,
                    run |-> s.run, binding |-> s.binding, active |-> TRUE]
<1>6. \/ s' = [s EXCEPT !.task = task] /\ disk' = s'
      \/ s' = [s EXCEPT !.task = NoTask] /\ disk' = disk
  BY DEF StartTask, Persist
<1>7. task.id = last'.subject /\ task.status = status
  OBVIOUS
<1> HIDE DEF task
<1>8. CASE s' = [s EXCEPT !.task = task] /\ disk' = s'
  <2>1. s'.task = task /\ s'.note = s.note
    BY <1>1, <1>8 DEF Descriptors
  <2>2. NoteFrom(s'.note, s.note)
    BY <2>1 DEF NoteFrom
  <2>3. s'.task.id = last'.subject /\ s'.task.status = status
    BY <1>7, <2>1
  <2>4. s'.task.status = "pending" => last'.subject \in due'
    BY <1>5, <2>3
  <2> QED
    BY <1>2, <1>3, <1>4, <1>5, <1>8, <2>2, <2>3, <2>4 DEF EmitStep
<1>9. CASE s' = [s EXCEPT !.task = NoTask] /\ disk' = disk
  <2>1. s'.task = NoTask /\ s'.note = s.note
    BY <1>1, <1>9 DEF Descriptors
  <2>2. From(s', s)
    BY <2>1 DEF From, NoteFrom, TaskFrom, NoTask
  <2> QED
    BY <1>2, <1>3, <1>4, <1>5, <1>9, <2>2 DEF EmitStep
<1> QED
  BY <1>6, <1>8, <1>9

LEMMA TaskHeartbeatKind ==
  ASSUME TypeOK, TaskHeartbeat
  PROVE  QuietStep
<1>1. s \in Descriptors
  BY DEF TypeOK
<1>2. s' = [s EXCEPT !.task.status = "acknowledged"] /\ disk' = s'
  BY DEF TaskHeartbeat, Persist
<1>3. s'.note = s.note /\ s'.task.id = s.task.id /\ s'.task.status = "acknowledged"
  BY <1>1, <1>2 DEF Descriptors, Tasks
<1>4. From(s', s)
  BY <1>3 DEF From, NoteFrom, TaskFrom
<1>5. UNCHANGED <<threads, drafts, due, sent, last>>
  BY DEF TaskHeartbeat
<1> QED
  BY <1>2, <1>4, <1>5, DescriptorKind

\* Cancelling, binding and a new run; a failed save leaves the disk alone.
LEMMA ForgetFrom ==
  ASSUME NEW d, From(d, s), Forget(d)
  PROVE  From(s', s) /\ (From(disk', s) \/ From(disk', disk))
  BY FromSelf DEF Forget, Persist

LEMMA WithdrawKind ==
  ASSUME TypeOK, TaskEnds \/ Bind \/ RunAgain
  PROVE  QuietStep
<1> DEFINE d == Cancelled(s)
<1>1. d \in Descriptors /\ From(d, s) /\ s \in Descriptors
  BY CancelledType, CancelledFrom DEF TypeOK
<1>2. CASE TaskEnds
  <2>1. Forget(d)
    BY <1>2 DEF TaskEnds
  <2>2. UNCHANGED <<threads, drafts, due, sent, last>>
    BY <1>2 DEF TaskEnds
  <2> HIDE DEF d
  <2>3. From(s', s) /\ (From(disk', s) \/ From(disk', disk))
    BY <1>1, <2>1, ForgetFrom
  <2> QED
    BY <2>2, <2>3, DescriptorKind
<1>3. CASE Bind
  <2> DEFINE b == last'.binding
             e == [d EXCEPT !.binding = b, !.note = NoNote]
  <2>1. Forget(e)
    BY <1>3 DEF Bind
  <2>2. UNCHANGED <<threads, drafts, due, sent>> /\ last' = [last EXCEPT !.binding = @ + 1]
    BY <1>3 DEF Bind
  <2>3. last'.subject = last.subject
    BY <2>2, OtherNumbers
  <2> HIDE DEF b, d
  <2>4. e.note = NoNote /\ e.task = d.task
    BY <1>1 DEF Descriptors
  <2> HIDE DEF e
  <2>5. From(e, s)
    BY <1>1, <2>4 DEF From, NoteFrom, NoNote
  <2>6. From(s', s) /\ (From(disk', s) \/ From(disk', disk))
    BY <2>1, <2>5, ForgetFrom
  <2> QED
    BY <2>2, <2>3, <2>6, DescriptorKind
<1>4. CASE RunAgain
  <2>1. s' = [d EXCEPT !.run = @ + 1] /\ disk' = s'
    BY <1>4 DEF RunAgain, Persist
  <2>2. UNCHANGED <<threads, drafts, due, sent, last>>
    BY <1>4 DEF RunAgain
  <2> HIDE DEF d
  <2>3. s'.note = d.note /\ s'.task = d.task
    BY <1>1, <2>1 DEF Descriptors
  <2>4. From(s', s)
    BY <1>1, <2>3 DEF From
  <2> QED
    BY <2>1, <2>2, <2>4, DescriptorKind
<1> QED
  BY <1>2, <1>3, <1>4

LEMMA CrashKind ==
  ASSUME TypeOK, BrokerStops \/ RecoverDescriptor \/ RecoverDiscussion \/ UNCHANGED vars
  PROVE  QuietStep
<1>1. CASE BrokerStops
  <2>1. UNCHANGED <<s, threads, drafts, due, sent, last>> /\ disk' \in {disk, s}
    BY <1>1 DEF BrokerStops
  <2>2. From(s', s) /\ (From(disk', s) \/ From(disk', disk))
    BY <2>1, FromSelf
  <2> QED
    BY <2>1, <2>2, DescriptorKind
<1>2. CASE RecoverDescriptor
  <2>1. s' = Recovered(disk) /\ disk' = s'
    BY <1>2 DEF RecoverDescriptor, Persist
  <2>2. UNCHANGED <<threads, drafts, due, sent, last>>
    BY <1>2 DEF RecoverDescriptor
  <2>3. disk \in Descriptors
    BY DEF TypeOK
  <2>4. From(s', disk) /\ Withdrawn(s') /\ From(disk', disk)
    BY <2>1, <2>3, RecoveredFrom
  <2> QED
    BY <2>2, <2>4, DescriptorKind
<1>3. CASE RecoverDiscussion
  <2>1. DocQuiet
    BY <1>3, RecoverDiscussionMoves, MovesQuiet
  <2>2. UNCHANGED <<s, disk, due, sent, last>>
    BY <1>3 DEF RecoverDiscussion
  <2> QED
    BY <2>1, <2>2, FromSelf DEF QuietStep
<1>4. CASE UNCHANGED vars
  BY <1>4, FromSelf, DescriptorKind
<1> QED
  BY <1>1, <1>2, <1>3, <1>4

\* The number of a new question.
LEMMA FreshNumber ==
  ASSUME NEW a, NewQuestion(a) PROVE Fresh(a) = last.subject + 1
  BY DEF Fresh

LEMMA LiveCommentKind ==
  ASSUME IInv, NEW t \in Threads, LiveComment(t)
  PROVE  RequestStep
<1>1. TypeOK /\ ThreadInv
  BY DEF IInv
<1>2. {Provider, s.binding, threads[t].recipient} \subseteq Nat
  BY <1>1 DEF Provider, TypeOK, Descriptors, ThreadRecords
<1>3. PICK a \in RequestsAbout(t, {Provider, s.binding, threads[t].recipient}) :
        /\ Applicable(threads[t], a)
        /\ Allocate(a)
        /\ CommitDiscussion(After(t, a, Fresh(a)))
        /\ Record(Effect(t, a, Fresh(a)))
        /\ UNCHANGED <<s, disk>>
  BY DEF LiveComment, After
<1>4. a \in Requests /\ a.action \in Events
  BY <1>1, <1>2, <1>3, RequestType
<1>5. Ready(t, a, Fresh(a), last'.subject)
  BY <1>1, <1>3, <1>4, AllocateReady
<1>6. Outdated /\ threads' = After(t, a, Fresh(a))
  BY <1>3, StaleOutdated DEF CommitDiscussion, Outdated
<1>7. NewQuestion(a) => Fresh(a) = last.subject + 1
  BY FreshNumber
<1>8. Commits(t, a, Fresh(a))
  BY <1>3, <1>5, <1>6, <1>7 DEF Commits
<1>9. Fresh(a) \in Nat
  BY <1>5 DEF Ready
<1> QED
  BY <1>4, <1>8, <1>9 DEF RequestStep

LEMMA OfflineCommitKind ==
  ASSUME IInv, NEW w \in Writers, OfflineCommit(w)
  PROVE  RequestStep
<1>1. TypeOK /\ DraftInv
  BY DEF IInv
<1>2. /\ threads' = drafts[w].threads /\ drafts[w].state = "fresh"
      /\ Record(drafts[w].effect) /\ UNCHANGED <<s, disk, last>>
  BY DEF OfflineCommit
<1>3. PICK t \in Threads, a \in Requests, n \in Nat :
        /\ Ready(t, a, n, last.subject)
        /\ drafts[w].threads = After(t, a, n)
        /\ drafts[w].effect = Effect(t, a, n)
  BY <1>1, <1>2 DEF DraftInv
<1>4. Outdated
  BY <1>1, OfflineCommitMoves
<1>5. ASSUME NewQuestion(a) PROVE Holds(t, n)
  <2>1. After(t, a, n)[t] = ApplyDiscussion(threads[t], a, n)
    BY <1>1 DEF After, TypeOK
  <2>2. ApplyDiscussion(threads[t], a, n).question = n
    BY <1>1, <1>5 DEF ApplyDiscussion, NewQuestion, TypeOK, ThreadRecords
  <2> QED
    BY <1>2, <1>3, <2>1, <2>2 DEF Holds
<1>6. Commits(t, a, n)
  BY <1>2, <1>3, <1>4, <1>5 DEF Commits
<1> QED
  BY <1>6 DEF RequestStep

LEMMA OfflineReadKind ==
  ASSUME IInv, NEW w \in Writers, NEW t \in Threads, OfflineRead(w, t)
  PROVE  ReadStep
<1>1. TypeOK /\ ThreadInv
  BY DEF IInv
<1>2. {Provider, threads[t].recipient} \subseteq Nat
  BY <1>1 DEF Provider, TypeOK, ThreadRecords
<1>3. PICK a \in RequestsAbout(t, {Provider, threads[t].recipient}) :
        /\ Applicable(threads[t], a)
        /\ Allocate(a)
        /\ drafts' = [drafts EXCEPT ![w] =
              [state |-> "fresh", threads |-> After(t, a, Fresh(a)),
               effect |-> Effect(t, a, Fresh(a))]]
        /\ UNCHANGED <<s, disk, threads, due, sent>>
  BY DEF OfflineRead, After
<1>4. a \in Requests /\ a.action \in Events
  BY <1>1, <1>2, <1>3, RequestType
<1>5. Ready(t, a, Fresh(a), last'.subject)
  BY <1>1, <1>3, <1>4, AllocateReady
<1>6. \A x \in Writers : x # w => drafts'[x] = drafts[x]
  BY <1>1, <1>3 DEF TypeOK
<1>7. drafts'[w].threads = After(t, a, Fresh(a))
  BY <1>1, <1>3 DEF TypeOK
<1>8. NewQuestion(a) => Fresh(a) = last.subject + 1
  BY FreshNumber
<1>9. Prepares(w, t, a, Fresh(a))
  BY <1>3, <1>5, <1>6, <1>7, <1>8 DEF Prepares
<1>10. Fresh(a) \in Nat
  BY <1>5 DEF Ready
<1> QED
  BY <1>4, <1>9, <1>10 DEF ReadStep

LEMMA OfflineConflictKind ==
  ASSUME TypeOK, NEW w \in Writers, OfflineConflict(w)
  PROVE  QuietStep
<1>1. drafts' = [drafts EXCEPT ![w] = Idle]
      /\ UNCHANGED <<s, disk, threads, last, due, sent>>
  BY DEF OfflineConflict
<1>2. Idle.state # "fresh"
  BY DEF Idle
<1>3. \A x \in Writers : drafts'[x] = IF x = w THEN Idle ELSE drafts[x]
  BY <1>1 DEF TypeOK
<1>4. DocQuiet
  BY <1>1, <1>2, <1>3 DEF DocQuiet
<1> QED
  BY <1>1, <1>4, FromSelf DEF QuietStep

LEMMA KindStep ==
  ASSUME IInv, [Next]_vars
  PROVE  Kinds
<1>1. TypeOK
  BY DEF IInv
<1>2. CASE Consume
  <2>1. Provider \in Nat /\ s.binding \in Nat
    BY <1>1 DEF Provider, TypeOK, Descriptors
  <2>2. PICK c \in Consumers :
          \/ \E r \in {Provider, s.binding} :
                OpenConsumer(c, r) \/ OpenConsumerPartly(c, r)
          \/ CloseConsumer(c)
          \/ NextDelivery(c)
          \/ \E e \in sent, status \in Receipts : Receipt(c, e, status)
    BY <1>2 DEF Consume
  <2> QED
    BY <1>1, <2>1, <2>2, OpenKind, CloseKind, NextDeliveryKind, ReceiptKind DEF Kinds
<1>3. CASE Handback
  BY <1>1, <1>3, HandbackKind, EventStatusKind DEF Handback, Kinds
<1>4. CASE Scope
  BY <1>1, <1>4, StartTaskKind, TaskHeartbeatKind, WithdrawKind, TaskDeliveryKind
  DEF Scope, TaskStart, TaskAuthorize, Kinds
<1>5. CASE Discuss
  BY <1>1, <1>5, LiveCommentKind, OfflineReadKind, OfflineCommitKind,
     OfflineConflictKind DEF Discuss, Kinds
<1>6. CASE Bind \/ RunAgain
  BY <1>1, <1>6, WithdrawKind DEF Kinds
<1>7. CASE BrokerStops \/ RecoverDescriptor \/ RecoverDiscussion \/ UNCHANGED vars
  BY <1>1, <1>7, CrashKind DEF Kinds
<1> QED
  BY <1>2, <1>3, <1>4, <1>5, <1>6, <1>7 DEF Next

-----------------------------------------------------------------------------
(* Identities stay with their messages. *)

\* After a step, message k has an identity that it had, or is the one
\* message that got the new number.
NewIds(j) ==
    \A k \in Slots, i \in Nat \ {0} :
        Holds(k, i)' => \/ Holds(k, i)
                        \/ k = j /\ i = last.subject + 1 /\ i <= last'.subject

LEMMA FromIds ==
  ASSUME NEW d, NEW c, From(d, c)
  PROVE  d.note.id \in {0, c.note.id} /\ d.task.id \in {0, c.task.id}
  BY DEF From, NoteFrom, TaskFrom

\* In a quiet document no thread or draft has another identity.
LEMMA QuietIds ==
  ASSUME DocQuiet, NEW k \in Threads, NEW i, Holds(k, i)'
  PROVE  Holds(k, i)
<1>1. k # "note" /\ k # "task"
  BY DEF DeliveryAssumption
<1>2. CASE i = threads'[k].question
  BY <1>2 DEF DocQuiet, Holds
<1>3. CASE \E w \in Writers : /\ drafts'[w].state = "fresh"
                             /\ i = drafts'[w].threads[k].question
  BY <1>3 DEF DocQuiet, Holds
<1> QED
  BY <1>1, <1>2, <1>3 DEF Holds

\* The question of a thread after a request.
LEMMA AfterQuestion ==
  ASSUME TypeOK, NEW t \in Threads, NEW a \in Requests, NEW n \in Nat,
         NEW k \in Threads
  PROVE  After(t, a, n)[k].question =
            IF k = t /\ NewQuestion(a) THEN n ELSE threads[k].question
<1>1. threads \in [Threads -> ThreadRecords] /\ threads[k] \in ThreadRecords
  BY DEF TypeOK
<1>2. CASE k # t
  BY <1>1, <1>2 DEF After
<1>3. CASE k = t
  <2>1. After(t, a, n)[k] = ApplyDiscussion(threads[k], a, n)
    BY <1>1, <1>3 DEF After
  <2>2. ApplyDiscussion(threads[k], a, n).question =
           IF NewQuestion(a) THEN n ELSE threads[k].question
    BY <1>1 DEF ApplyDiscussion, ThreadRecords, NewQuestion, Requests
  <2> QED
    BY <1>3, <2>1, <2>2
<1> QED
  BY <1>2, <1>3

LEMMA IdStep ==
  ASSUME EInv, [Next]_vars
  PROVE  \E j : NewIds(j)
<1>1. TypeOK /\ IInv
  BY DEF EInv, IInv
<1>2. last.subject \in Nat /\ last'.subject \in Nat /\ last.subject <= last'.subject
  BY <1>1, SubjectGrows, NumbersType
<1>3. "note" \notin Threads /\ "task" \notin Threads
  BY DEF DeliveryAssumption
<1>4. CASE QuietStep
  <2>1. /\ s'.note.id \in {0, s.note.id, disk.note.id}
        /\ s'.task.id \in {0, s.task.id, disk.task.id}
    BY <1>4, FromIds DEF QuietStep
  <2>2. /\ disk'.note.id \in {0, s.note.id, disk.note.id}
        /\ disk'.task.id \in {0, s.task.id, disk.task.id}
    BY <1>4, FromIds DEF QuietStep
  <2>3. ASSUME NEW k \in Slots, NEW i \in Nat \ {0}, Holds(k, i)' PROVE Holds(k, i)
    <3>1. CASE k = "note"
      BY <1>3, <2>1, <2>2, <2>3, <3>1 DEF Holds
    <3>2. CASE k = "task"
      BY <1>3, <2>1, <2>2, <2>3, <3>2 DEF Holds
    <3>3. CASE k \in Threads
      BY <1>4, <2>3, <3>3, QuietIds DEF QuietStep
    <3> QED
      BY <3>1, <3>2, <3>3 DEF Slots
  <2> QED
    BY <2>3 DEF NewIds
<1>5. CASE SendStep
  <2>1. DocQuiet /\ From(s', s) /\ (From(disk', s) \/ From(disk', disk))
    BY <1>5 DEF SendStep, Sends
  <2>2. /\ s'.note.id \in {0, s.note.id}
        /\ s'.task.id \in {0, s.task.id}
    BY <2>1, FromIds
  <2>3. /\ disk'.note.id \in {0, s.note.id, disk.note.id}
        /\ disk'.task.id \in {0, s.task.id, disk.task.id}
    BY <2>1, FromIds
  <2>4. ASSUME NEW k \in Slots, NEW i \in Nat \ {0}, Holds(k, i)' PROVE Holds(k, i)
    <3>1. CASE k = "note"
      BY <1>3, <2>2, <2>3, <2>4, <3>1 DEF Holds
    <3>2. CASE k = "task"
      BY <1>3, <2>2, <2>3, <2>4, <3>2 DEF Holds
    <3>3. CASE k \in Threads
      BY <2>1, <2>4, <3>3, QuietIds
    <3> QED
      BY <3>1, <3>2, <3>3 DEF Slots
  <2> QED
    BY <2>4 DEF NewIds
<1>6. CASE EmitStep
  <2>1. DocQuiet /\ last'.subject = last.subject + 1
    BY <1>6 DEF EmitStep
  <2>2. ASSUME NEW k \in Threads, NEW i \in Nat \ {0}, Holds(k, i)' PROVE Holds(k, i)
    BY <2>1, <2>2, QuietIds
  <2>3. CASE /\ disk' = s' /\ s'.note.id = last'.subject /\ TaskFrom(s'.task, s.task)
    <3>1. s'.task.id \in {0, s.task.id}
      BY <2>3 DEF TaskFrom
    <3>2. ASSUME NEW i \in Nat \ {0}, Holds("task", i)' PROVE Holds("task", i)
      BY <1>3, <2>3, <3>1, <3>2 DEF Holds
    <3>3. ASSUME NEW i \in Nat \ {0}, Holds("note", i)' PROVE i = last'.subject
      BY <1>3, <2>3, <3>3 DEF Holds
    <3>4. NewIds("note")
      BY <1>2, <2>1, <2>2, <3>2, <3>3 DEF NewIds, Slots
    <3> QED
      BY <3>4
  <2>4. CASE /\ disk' = s' /\ s'.task.id = last'.subject /\ NoteFrom(s'.note, s.note)
    <3>1. s'.note.id \in {0, s.note.id}
      BY <2>4 DEF NoteFrom
    <3>2. ASSUME NEW i \in Nat \ {0}, Holds("note", i)' PROVE Holds("note", i)
      BY <1>3, <2>4, <3>1, <3>2 DEF Holds
    <3>3. ASSUME NEW i \in Nat \ {0}, Holds("task", i)' PROVE i = last'.subject
      BY <1>3, <2>4, <3>3 DEF Holds
    <3>4. NewIds("task")
      BY <1>2, <2>1, <2>2, <3>2, <3>3 DEF NewIds, Slots
    <3> QED
      BY <3>4
  <2>5. CASE disk' = disk /\ From(s', s)
    <3>1. s'.note.id \in {0, s.note.id} /\ s'.task.id \in {0, s.task.id}
      BY <2>5, FromIds
    <3>2. ASSUME NEW k \in {"note", "task"}, NEW i \in Nat \ {0}, Holds(k, i)'
          PROVE  Holds(k, i)
      BY <1>3, <2>5, <3>1, <3>2 DEF Holds
    <3>3. NewIds("task")
      BY <2>2, <3>2 DEF NewIds, Slots
    <3> QED
      BY <3>3
  <2> QED
    BY <1>6, <2>3, <2>4, <2>5 DEF EmitStep
<1>7. CASE RequestStep
  <2>1. PICK t \in Threads, a \in Requests, n \in Nat : Commits(t, a, n)
    BY <1>7 DEF RequestStep
  <2>2. UNCHANGED <<s, disk>> /\ Outdated /\ threads' = After(t, a, n)
    BY <2>1 DEF Commits
  <2>3. ASSUME NEW k \in {"note", "task"}, NEW i \in Nat \ {0}, Holds(k, i)'
        PROVE  Holds(k, i)
    BY <1>3, <2>2, <2>3 DEF Holds
  <2>4. ASSUME NEW k \in Threads, NEW i \in Nat \ {0}, Holds(k, i)'
        PROVE  Holds(k, i) \/ (k = t /\ i = last.subject + 1 /\ i <= last'.subject)
    <3>1. i = threads'[k].question
      BY <1>3, <2>2, <2>4 DEF Holds, Outdated
    <3>2. i = IF k = t /\ NewQuestion(a) THEN n ELSE threads[k].question
      BY <1>1, <2>2, <3>1, AfterQuestion
    <3>3. NewQuestion(a) => (Holds(t, n) \/ n = last.subject + 1) /\ n <= last'.subject
      BY <2>1 DEF Commits, Ready
    <3> QED
      BY <3>2, <3>3 DEF Holds
  <2>5. NewIds(t)
    BY <2>3, <2>4 DEF NewIds, Slots
  <2> QED
    BY <2>5
<1>8. CASE ReadStep
  <2>1. PICK w \in Writers, t \in Threads, a \in Requests, n \in Nat :
          Prepares(w, t, a, n)
    BY <1>8 DEF ReadStep
  <2>2. /\ UNCHANGED <<s, disk, threads>> /\ drafts'[w].threads = After(t, a, n)
        /\ \A x \in Writers : x # w => drafts'[x] = drafts[x]
    BY <2>1 DEF Prepares
  <2>3. ASSUME NEW k \in {"note", "task"}, NEW i \in Nat \ {0}, Holds(k, i)'
        PROVE  Holds(k, i)
    BY <1>3, <2>2, <2>3 DEF Holds
  <2>4. ASSUME NEW k \in Threads, NEW i \in Nat \ {0}, Holds(k, i)'
        PROVE  Holds(k, i) \/ (k = t /\ i = last.subject + 1 /\ i <= last'.subject)
    <3>1. \/ i = threads[k].question
          \/ \E x \in Writers : x # w /\ drafts[x].state = "fresh"
                                /\ i = drafts[x].threads[k].question
          \/ i = After(t, a, n)[k].question
      BY <1>3, <2>2, <2>4 DEF Holds
    <3>2. After(t, a, n)[k].question =
             IF k = t /\ NewQuestion(a) THEN n ELSE threads[k].question
      BY <1>1, AfterQuestion
    <3>3. NewQuestion(a) => n = last.subject + 1 /\ n <= last'.subject
      BY <2>1 DEF Prepares, Ready
    <3> QED
      BY <3>1, <3>2, <3>3 DEF Holds
  <2>5. NewIds(t)
    BY <2>3, <2>4 DEF NewIds, Slots
  <2> QED
    BY <2>5
<1> QED
  BY <1>1, <1>4, <1>5, <1>6, <1>7, <1>8, KindStep DEF Kinds

LEMMA IdInvStep ==
  ASSUME EInv, [Next]_vars
  PROVE  IdInv'
<1>1. TypeOK /\ IdInv
  BY DEF EInv, IInv
<1>2. last.subject \in Nat /\ last'.subject \in Nat /\ last.subject <= last'.subject
  BY <1>1, SubjectGrows, NumbersType
<1>3. PICK j : NewIds(j)
  BY IdStep
<1>4. ASSUME NEW k \in Slots, NEW i \in Nat \ {0}, Holds(k, i)'
      PROVE  i <= last'.subject
  <2>1. Holds(k, i) \/ i <= last'.subject
    BY <1>3, <1>4 DEF NewIds
  <2>2. Holds(k, i) => i <= last.subject
    BY <1>1 DEF IdInv
  <2> QED
    BY <1>2, <2>1, <2>2
<1>5. ASSUME NEW k \in Slots, NEW l \in Slots, NEW i \in Nat \ {0},
             Holds(k, i)', Holds(l, i)'
      PROVE  l = k
  <2>1. /\ Holds(k, i) \/ (k = j /\ i = last.subject + 1)
        /\ Holds(l, i) \/ (l = j /\ i = last.subject + 1)
    BY <1>3, <1>5 DEF NewIds
  <2>2. /\ Holds(k, i) => i <= last.subject /\ (Holds(l, i) => l = k)
        /\ Holds(l, i) => i <= last.subject
    BY <1>1 DEF IdInv
  <2> QED
    BY <1>2, <2>1, <2>2
<1> QED
  BY <1>4, <1>5 DEF IdInv

-----------------------------------------------------------------------------
(* What is offered is due, what has left is saved. *)

LEMMA HoldsSubject ==
  ASSUME TypeOK, NEW k \in Slots
  PROVE  Holds(k, Subject(k)) /\ Subject(k) \in Nat
<1>1. Subject(k) \in Nat
  BY SubjectTypes
<1>2. Holds(k, Subject(k))
  BY DEF Holds, Subject, Slots, DeliveryAssumption
<1> QED
  BY <1>1, <1>2

\* What a request asks for and lets leave.
LEMMA EffectSets ==
  ASSUME TypeOK, NEW t \in Threads, NEW a \in Requests, NEW n \in Nat,
         Applicable(threads[t], a)
  PROVE  LET f == Effect(t, a, n) IN
         /\ \A e \in f.exposed : /\ e.slot = t /\ e.subject = threads[t].question
                                /\ Exposes(a)
         /\ f.asked = IF NewQuestion(a) THEN {n}
                      ELSE IF a.action = "retry" THEN {threads[t].question} ELSE {}
         /\ Exposes(a) => /\ threads[t].status = "pending"
                          /\ ~NewQuestion(a) /\ a.action # "retry"
                          /\ ApplyDiscussion(threads[t], a, n).status = "sending"
         /\ a.action = "retry" => threads[t].question # 0
<1> DEFINE f == Effect(t, a, n)
<1>1. Subject(t) = threads[t].question
  BY DEF Subject, DeliveryAssumption
<1>2. \A e \in f.exposed : Exposes(a) /\ (\/ e = Claimed(t, DirectAttempt(t, n))
                                         \/ e = Unclaimed(t, n))
  BY DEF Effect
<1>3. /\ Claimed(t, DirectAttempt(t, n)).slot = t
      /\ Claimed(t, DirectAttempt(t, n)).subject = threads[t].question
      /\ Unclaimed(t, n).slot = t /\ Unclaimed(t, n).subject = threads[t].question
  BY <1>1 DEF Claimed, Unclaimed
<1>4. \A e \in f.exposed : /\ e.slot = t /\ e.subject = threads[t].question
                          /\ Exposes(a)
  <2> HIDE DEF f
  <2> QED
    BY <1>2, <1>3
<1>5. f.asked = IF NewQuestion(a) THEN {n}
                ELSE IF a.action = "retry" THEN {threads[t].question} ELSE {}
  BY DEF Effect
<1>6. threads[t] \in ThreadRecords /\ threads[t].status \in Statuses
  BY DEF TypeOK, ThreadRecords
<1>7. ASSUME Exposes(a)
      PROVE  /\ threads[t].status = "pending"
             /\ ~NewQuestion(a) /\ a.action # "retry"
             /\ ApplyDiscussion(threads[t], a, n).status = "sending"
  <2>1. ~NewQuestion(a) /\ a.action # "retry"
    BY <1>7 DEF Exposes, NewQuestion
  <2>2. CASE a.action = "claim"
    BY <1>6, <2>1, <2>2 DEF Applicable, ApplyDiscussion, ThreadRecords
  <2>3. CASE a.action = "delivery" /\ a.status = "sending"
    <3>1. Transition(threads[t].status, "sending") # "refused"
      BY <2>3 DEF Applicable
    <3>2. "sending" \in Statuses
      BY DEF Statuses
    <3>3. /\ threads[t].status = "pending"
          /\ Transition(threads[t].status, "sending") = "sending"
      BY <1>6, <3>1, <3>2, TransitionSource
    <3>4. ApplyDiscussion(threads[t], a, n) =
            [threads[t] EXCEPT !.status = Transition(threads[t].status, a.status)]
      BY <2>3 DEF ApplyDiscussion
    <3> QED
      BY <1>6, <2>1, <2>3, <3>3, <3>4 DEF ThreadRecords
  <2> QED
    BY <1>7, <2>2, <2>3 DEF Exposes
<1>8. a.action = "retry" => threads[t].question # 0
  BY DEF Applicable
<1> QED
  BY <1>4, <1>5, <1>7, <1>8

\* A request that asks for nothing offers nothing new.
LEMMA AfterStatus ==
  ASSUME TypeOK, NEW t \in Threads, NEW a \in Requests, NEW n \in Nat,
         Applicable(threads[t], a), ~NewQuestion(a), a.action # "retry",
         ApplyDiscussion(threads[t], a, n).status = "pending"
  PROVE  threads[t].status = "pending"
<1>1. threads[t] \in ThreadRecords /\ threads[t].status \in Statuses
  BY DEF TypeOK, ThreadRecords
<1>2. CASE a.action = "delivery"
  <2> DEFINE next == Transition(threads[t].status, a.status)
  <2>1. a.status \in Statuses
    BY DEF Requests
  <2>2. next = "pending" => threads[t].status = "pending"
    BY <1>1, <2>1, TransitionSource
  <2>3. ApplyDiscussion(threads[t], a, n) = [threads[t] EXCEPT !.status = next]
    BY <1>2 DEF ApplyDiscussion
  <2> HIDE DEF next
  <2> QED
    BY <1>1, <2>2, <2>3 DEF ThreadRecords
<1>3. CASE a.action \in {"claim", "reply", "answer-failed", "resolve", "reopen"}
  BY <1>1, <1>3 DEF ApplyDiscussion, ThreadRecords
<1> QED
  BY <1>2, <1>3 DEF Requests, NewQuestion

LEMMA DueStep ==
  ASSUME EInv, [Next]_vars
  PROVE  DueInv'
<1>1. TypeOK /\ IInv /\ IdInv /\ DueInv
  BY DEF EInv, IInv
<1>2. last.subject \in Nat /\ due \subseteq Nat
      /\ \A t \in Threads : threads[t].question \in Nat
  BY <1>1, NumbersType DEF TypeOK, ThreadRecords
<1>3. \A d, c : From(d, c) =>
        /\ d.note.status = "pending" => d.note.id = c.note.id /\ c.note.status = "pending"
        /\ d.task.status = "pending" => /\ d.task.id = c.task.id
                                        /\ c.task.status = "pending"
                                        /\ d.task.active => c.task.active
  BY DEF From, NoteFrom, TaskFrom
<1>4. CASE QuietStep
  <2>1. due' = due /\ DocQuiet /\ (From(s', s) \/ Withdrawn(s'))
    BY <1>4 DEF QuietStep
  <2>2. s'.note.status = "pending" => s'.note.id \in due
    BY <1>1, <1>3, <2>1 DEF DueInv, Withdrawn
  <2>3. s'.task.status = "pending" /\ s'.task.active => s'.task.id \in due
    BY <1>1, <1>3, <2>1 DEF DueInv, Withdrawn
  <2>4. \A t \in Threads : threads'[t].status = "pending" => threads'[t].question \in due
    BY <1>1, <2>1 DEF DueInv, DocQuiet
  <2> QED
    BY <1>1, <2>1, <2>2, <2>3, <2>4 DEF DueInv
<1>5. CASE EmitStep
  <2>1. DocQuiet /\ last'.subject = last.subject + 1
        /\ due' \in {due, due \cup {last'.subject}}
    BY <1>5 DEF EmitStep
  <2>2. 0 \notin due' /\ due \subseteq due'
    BY <1>1, <1>2, <2>1 DEF DueInv
  <2>3. \A t \in Threads : threads'[t].status = "pending" => threads'[t].question \in due'
    BY <1>1, <2>1, <2>2 DEF DueInv, DocQuiet
  <2>4. /\ s'.note.status = "pending" => s'.note.id \in due'
        /\ s'.task.status = "pending" /\ s'.task.active => s'.task.id \in due'
    <3>1. CASE s'.note.id = last'.subject /\ TaskFrom(s'.task, s.task)
               /\ last'.subject \in due'
      BY <1>1, <2>2, <3>1 DEF DueInv, TaskFrom
    <3>2. CASE s'.task.id = last'.subject /\ NoteFrom(s'.note, s.note)
               /\ (s'.task.status = "pending" => last'.subject \in due')
      BY <1>1, <2>2, <3>2 DEF DueInv, NoteFrom
    <3>3. CASE From(s', s)
      BY <1>1, <1>3, <2>2, <3>3 DEF DueInv
    <3> QED
      BY <1>5, <3>1, <3>2, <3>3 DEF EmitStep
  <2> QED
    BY <2>2, <2>3, <2>4 DEF DueInv
<1>6. CASE SendStep
  <2>1. PICK k \in Slots, e \in Envelopes : Sends(k, e)
    BY <1>6 DEF SendStep
  <2>2. due' = due \ {Subject(k)} /\ From(s', s) /\ DocQuiet
    BY <2>1 DEF Sends
  <2>3. ASSUME NEW l \in Slots, l # k, NEW i \in due, Holds(l, i) PROVE i \in due'
    <3>1. i \in Nat \ {0}
      BY <1>1, <1>2 DEF DueInv
    <3>2. Holds(k, Subject(k))
      BY <1>1, HoldsSubject
    <3>3. i # Subject(k)
      BY <1>1, <2>3, <3>1, <3>2 DEF IdInv
    <3> QED
      BY <2>2, <3>3
  <2>4. s'.note.status = "pending" => s'.note.id \in due'
    <3>1. SUFFICES ASSUME s'.note.status = "pending" PROVE s'.note.id \in due'
      OBVIOUS
    <3>2. s'.note.id = s.note.id /\ s.note.status = "pending"
      BY <1>3, <2>2, <3>1
    <3>3. "note" # k
      BY <2>1, <3>1 DEF Sends
    <3>4. Holds("note", s.note.id) /\ s.note.id \in due /\ "note" \in Slots
      BY <1>1, <3>2 DEF Holds, DueInv, Slots
    <3> QED
      BY <2>3, <3>2, <3>3, <3>4
  <2>5. s'.task.status = "pending" /\ s'.task.active => s'.task.id \in due'
    <3>1. SUFFICES ASSUME s'.task.status = "pending", s'.task.active
                   PROVE  s'.task.id \in due'
      OBVIOUS
    <3>2. s'.task.id = s.task.id /\ s.task.status = "pending" /\ s.task.active
      BY <1>3, <2>2, <3>1
    <3>3. "task" # k
      BY <2>1, <3>1 DEF Sends
    <3>4. Holds("task", s.task.id) /\ s.task.id \in due /\ "task" \in Slots
      BY <1>1, <3>2 DEF Holds, DueInv, Slots
    <3> QED
      BY <2>3, <3>2, <3>3, <3>4
  <2>6. ASSUME NEW t \in Threads, threads'[t].status = "pending"
        PROVE  threads'[t].question \in due'
    <3>1. threads'[t].question = threads[t].question /\ threads[t].status = "pending"
      BY <2>2, <2>6 DEF DocQuiet
    <3>2. t # k
      BY <2>1, <2>6 DEF Sends
    <3>3. Holds(t, threads[t].question) /\ threads[t].question \in due /\ t \in Slots
      BY <1>1, <3>1 DEF Holds, DueInv, Slots
    <3> QED
      BY <2>3, <3>1, <3>2, <3>3
  <2>7. 0 \notin due'
    BY <1>1, <2>2 DEF DueInv
  <2> QED
    BY <2>4, <2>5, <2>6, <2>7 DEF DueInv
<1>7. CASE RequestStep
  <2>1. PICK t \in Threads, a \in Requests, n \in Nat : Commits(t, a, n)
    BY <1>7 DEF RequestStep
  <2> DEFINE f == Effect(t, a, n)
             U == ApplyDiscussion(threads[t], a, n)
  <2>2. /\ s' = s /\ threads' = After(t, a, n) /\ Applicable(threads[t], a)
        /\ NewQuestion(a) => threads[t].question < n
        /\ due' = (due \cup f.asked) \ {e.subject : e \in f.exposed}
    BY <2>1 DEF Commits, Ready, Record
  <2>3. /\ \A e \in f.exposed : /\ e.slot = t /\ e.subject = threads[t].question
                                /\ Exposes(a)
        /\ f.asked = IF NewQuestion(a) THEN {n}
                     ELSE IF a.action = "retry" THEN {threads[t].question} ELSE {}
        /\ Exposes(a) => /\ threads[t].status = "pending"
                         /\ ~NewQuestion(a) /\ a.action # "retry"
                         /\ U.status = "sending"
        /\ a.action = "retry" => threads[t].question # 0
    BY <1>1, <2>2, EffectSets
  <2> HIDE DEF f
  <2>4. ASSUME NEW l \in Slots, l # t, NEW i \in due, Holds(l, i) PROVE i \in due'
    <3>1. i \in Nat \ {0}
      BY <1>1, <1>2 DEF DueInv
    <3>2. Holds(t, threads[t].question) /\ t \in Slots
      BY DEF Holds, Slots
    <3>3. i # threads[t].question
      BY <1>1, <2>4, <3>1, <3>2 DEF IdInv
    <3> QED
      BY <2>2, <2>3, <3>3
  <2>5. "note" # t /\ "task" # t
    BY DEF DeliveryAssumption
  <2>6. s'.note.status = "pending" => s'.note.id \in due'
    <3>1. s.note.status = "pending" =>
            Holds("note", s.note.id) /\ s.note.id \in due /\ "note" \in Slots
      BY <1>1 DEF Holds, DueInv, Slots
    <3> QED
      BY <2>2, <2>4, <2>5, <3>1
  <2>7. s'.task.status = "pending" /\ s'.task.active => s'.task.id \in due'
    <3>1. s.task.status = "pending" /\ s.task.active =>
            Holds("task", s.task.id) /\ s.task.id \in due /\ "task" \in Slots
      BY <1>1 DEF Holds, DueInv, Slots
    <3> QED
      BY <2>2, <2>4, <2>5, <3>1
  <2>8. ASSUME NEW u \in Threads, threads'[u].status = "pending"
        PROVE  threads'[u].question \in due'
    <3>1. CASE u # t
      <4>1. threads'[u] = threads[u]
        BY <1>1, <2>2, <3>1 DEF After, TypeOK
      <4>2. Holds(u, threads[u].question) /\ threads[u].question \in due /\ u \in Slots
        BY <1>1, <2>8, <4>1 DEF Holds, DueInv, Slots
      <4> QED
        BY <2>4, <3>1, <4>1, <4>2
    <3>2. CASE u = t
      <4>1. threads'[t] = U
        BY <1>1, <2>2 DEF After, TypeOK
      <4>2. threads'[t].question = IF NewQuestion(a) THEN n ELSE threads[t].question
        BY <1>1, <2>2, AfterQuestion
      <4>3. U.status = "pending"
        BY <2>8, <3>2, <4>1
      <4>4. ~Exposes(a)
        BY <2>3, <4>3
      <4>5. due' = due \cup f.asked
        BY <2>2, <2>3, <4>4
      <4>6. CASE NewQuestion(a) \/ a.action = "retry"
        BY <2>3, <3>2, <4>2, <4>5, <4>6
      <4>7. CASE ~NewQuestion(a) /\ a.action # "retry"
        <5>1. threads[t].status = "pending"
          BY <1>1, <2>2, <4>3, <4>7, AfterStatus
        <5> QED
          BY <1>1, <3>2, <4>2, <4>5, <4>7, <5>1 DEF DueInv
      <4> QED
        BY <4>6, <4>7
    <3> QED
      BY <3>1, <3>2
  <2>9. 0 \notin due'
    <3>1. NewQuestion(a) => n # 0
      BY <1>2, <2>2
    <3> QED
      BY <1>1, <2>2, <2>3, <3>1 DEF DueInv
  <2> QED
    BY <2>6, <2>7, <2>8, <2>9 DEF DueInv
<1>8. CASE ReadStep
  <2>1. UNCHANGED <<s, threads, due>>
    BY <1>8 DEF ReadStep, Prepares
  <2> QED
    BY <1>1, <2>1 DEF DueInv
<1> QED
  BY <1>1, <1>4, <1>5, <1>6, <1>7, <1>8, KindStep DEF Kinds

\* A descriptor that offers no more than a durable one is durable.
LEMMA FromDurable ==
  ASSUME NEW d, NEW c, From(d, c), Durable(c)
  PROVE  Durable(d)
  BY DEF Durable, From, NoteFrom, TaskFrom

LEMMA DurableStep ==
  ASSUME EInv, [Next]_vars
  PROVE  DurableInv'
<1>1. TypeOK /\ IInv /\ IdInv /\ DurableInv
  BY DEF EInv, IInv
<1>2. last.subject \in Nat /\ last'.subject \in Nat /\ last.subject <= last'.subject
  BY <1>1, SubjectGrows, NumbersType
<1>3. \A e \in sent : e.subject \in Nat /\ e.subject <= last.subject
  BY <1>1 DEF TypeOK, Envelopes, DurableInv
<1>4. Durable(s) /\ Durable(disk)
  BY <1>1 DEF DurableInv
<1>5. ASSUME sent' = sent, Durable(s'), Durable(disk') PROVE DurableInv'
  BY <1>2, <1>3, <1>5 DEF DurableInv, Durable
<1>6. CASE QuietStep
  BY <1>4, <1>5, <1>6, FromDurable DEF QuietStep
<1>7. CASE EmitStep
  <2>1. sent' = sent /\ last'.subject = last.subject + 1
    BY <1>7 DEF EmitStep
  <2>2. \A e \in sent : e.subject # last'.subject
    BY <1>2, <1>3, <2>1
  <2>3. CASE /\ disk' = s' /\ s'.note.id = last'.subject /\ TaskFrom(s'.task, s.task)
    <3>1. Durable(s')
      BY <1>4, <2>2, <2>3 DEF Durable, TaskFrom
    <3> QED
      BY <1>5, <2>1, <2>3, <3>1
  <2>4. CASE /\ disk' = s' /\ s'.task.id = last'.subject /\ NoteFrom(s'.note, s.note)
    <3>1. Durable(s')
      BY <1>4, <2>2, <2>4 DEF Durable, NoteFrom
    <3> QED
      BY <1>5, <2>1, <2>4, <3>1
  <2>5. CASE disk' = disk /\ From(s', s)
    BY <1>4, <1>5, <2>1, <2>5, FromDurable
  <2> QED
    BY <1>7, <2>3, <2>4, <2>5 DEF EmitStep
<1>8. CASE SendStep
  <2>1. PICK k \in Slots, e \in Envelopes : Sends(k, e)
    BY <1>8 DEF SendStep
  <2>2. /\ e.slot = k /\ e.subject = Subject(k) /\ sent' = sent \cup {e}
        /\ last'.subject = last.subject
        /\ From(s', s) /\ (From(disk', s) \/ From(disk', disk))
        /\ k = "note" => disk' = s' /\ s'.note.status # "pending"
        /\ k = "task" => disk' = s' /\ s'.task.status # "pending"
    BY <2>1 DEF Sends
  <2>3. Durable(s') /\ Durable(disk')
    BY <1>4, <2>2, FromDurable
  <2>4. Subject(k) \in Nat /\ Subject(k) <= last.subject
    <3>1. Subject(k) \in Nat /\ Holds(k, Subject(k))
      BY <1>1, HoldsSubject
    <3>2. CASE Subject(k) = 0
      BY <1>2, <3>2
    <3>3. CASE Subject(k) # 0
      BY <1>1, <3>1, <3>3 DEF IdInv
    <3> QED
      BY <3>2, <3>3
  <2>5. \A x \in sent' : x.subject <= last'.subject
    BY <1>3, <2>2, <2>4
  <2>6. Durable(s)' /\ Durable(disk)'
    BY <2>2, <2>3 DEF Durable
  <2> QED
    BY <2>5, <2>6 DEF DurableInv
<1>9. CASE RequestStep
  <2>1. PICK t \in Threads, a \in Requests, n \in Nat : Commits(t, a, n)
    BY <1>9 DEF RequestStep
  <2> DEFINE f == Effect(t, a, n)
  <2>2. /\ s' = s /\ disk' = disk /\ Applicable(threads[t], a)
        /\ sent' = sent \cup f.exposed
    BY <2>1 DEF Commits, Ready, Record
  <2>3. /\ \A e \in f.exposed : /\ e.slot = t /\ e.subject = threads[t].question
                                /\ Exposes(a)
        /\ f.asked = IF NewQuestion(a) THEN {n}
                     ELSE IF a.action = "retry" THEN {threads[t].question} ELSE {}
        /\ Exposes(a) => /\ threads[t].status = "pending"
                         /\ ~NewQuestion(a) /\ a.action # "retry"
                         /\ ApplyDiscussion(threads[t], a, n).status = "sending"
        /\ a.action = "retry" => threads[t].question # 0
    BY <1>1, <2>2, EffectSets
  <2>4. threads[t].question \in Nat /\ threads[t].question <= last.subject
    BY <1>1 DEF IInv, TypeOK, ThreadRecords, ThreadInv, Orderly
  <2>5. "note" # t /\ "task" # t
    BY DEF DeliveryAssumption
  <2> HIDE DEF f
  <2>6. \A x \in sent' : x.subject <= last'.subject
    BY <1>2, <1>3, <2>2, <2>3, <2>4
  <2>7. Durable(s)' /\ Durable(disk)'
    BY <1>4, <2>2, <2>3, <2>5 DEF Durable
  <2> QED
    BY <2>6, <2>7 DEF DurableInv
<1>10. CASE ReadStep
  <2>1. UNCHANGED <<s, disk, sent>>
    BY <1>10 DEF ReadStep, Prepares
  <2> QED
    BY <1>4, <1>5, <2>1
<1> QED
  BY <1>1, <1>6, <1>7, <1>8, <1>9, <1>10, KindStep DEF Kinds

-----------------------------------------------------------------------------
(* The theorems. *)

LEMMA InitEInv ==
  ASSUME Init PROVE EInv
<1>1. IInv
  BY InitIInv
<1>2. IdInv
  BY DEF Init, IdInv, Holds, NoNote, NoTask, NoThread, Idle
<1>3. DueInv
  BY DEF Init, DueInv, NoNote, NoTask, NoThread
<1>4. DurableInv
  BY DEF Init, DurableInv, Durable
<1> QED
  BY <1>1, <1>2, <1>3, <1>4 DEF EInv

LEMMA NextEInv ==
  ASSUME EInv, [Next]_vars PROVE EInv'
<1>1. IInv'
  BY NextIInv DEF EInv
<1> QED
  BY <1>1, IdInvStep, DueStep, DurableStep DEF EInv

\* A step lets a message leave only if it is due.
LEMMA ExposureStep ==
  ASSUME EInv, [Next]_vars
  PROVE  \A e \in sent' \ sent : e.subject \in due
<1>1. TypeOK /\ IInv /\ DueInv
  BY DEF EInv, IInv
<1>2. CASE SendStep
  <2>1. PICK k \in Slots, e \in Envelopes : Sends(k, e)
    BY <1>2 DEF SendStep
  <2>2. /\ e.subject = Subject(k) /\ sent' = sent \cup {e}
        /\ Status(k) = "pending" /\ (k = "task" => s.task.active)
    BY <2>1 DEF Sends
  <2>3. Subject(k) \in due
    BY <1>1, <2>2 DEF DueInv, Status, Subject, Slots
  <2> QED
    BY <2>2, <2>3
<1>3. CASE RequestStep
  <2>1. PICK t \in Threads, a \in Requests, n \in Nat : Commits(t, a, n)
    BY <1>3 DEF RequestStep
  <2> DEFINE f == Effect(t, a, n)
  <2>2. Applicable(threads[t], a) /\ sent' = sent \cup f.exposed
    BY <2>1 DEF Commits, Ready, Record
  <2>3. /\ \A e \in f.exposed : /\ e.slot = t /\ e.subject = threads[t].question
                                /\ Exposes(a)
        /\ f.asked = IF NewQuestion(a) THEN {n}
                     ELSE IF a.action = "retry" THEN {threads[t].question} ELSE {}
        /\ Exposes(a) => /\ threads[t].status = "pending"
                         /\ ~NewQuestion(a) /\ a.action # "retry"
                         /\ ApplyDiscussion(threads[t], a, n).status = "sending"
        /\ a.action = "retry" => threads[t].question # 0
    BY <1>1, <2>2, EffectSets
  <2> HIDE DEF f
  <2> QED
    BY <1>1, <2>2, <2>3 DEF DueInv
<1>4. CASE QuietStep \/ EmitStep \/ ReadStep
  BY <1>4 DEF QuietStep, EmitStep, ReadStep, Prepares
<1> QED
  BY <1>1, <1>2, <1>3, <1>4, KindStep DEF Kinds

(* The invariant holds.                                                     *)
THEOREM Exposures == Spec => []EInv
<1>1. Init => EInv
  BY InitEInv
<1>2. EInv /\ [Next]_vars => EInv'
  BY NextEInv
<1> QED
  BY <1>1, <1>2, PTL DEF Spec

(* A message leaves only if somebody asked for it, or asked again, after it  *)
(* left the last time: through any host or listener, across crashes, failed  *)
(* writes and offline writers (NextDelivery, eventStatus, commentsLocked).   *)
THEOREM LeavesOnRequest == Spec => ExposureWasAsked
<1>1. EInv /\ [Next]_vars => [\A e \in sent' \ sent : e.subject \in due]_vars
  BY ExposureStep
<1> QED
  BY <1>1, Exposures, PTL DEF Spec, ExposureWasAsked

(* Whatever has left is not pending on disk: a broker that starts from what  *)
(* is saved does not deliver it again ("Persist a claim before sending").    *)
THEOREM ClaimSavedFirst == Spec => []ClaimIsDurable
<1>1. EInv => ClaimIsDurable
  BY DEF EInv, DurableInv, Durable, ClaimIsDurable
<1> QED
  BY <1>1, Exposures, PTL
=============================================================================
