-------------------------- MODULE DeliveryAttempts --------------------------
(***************************************************************************)
(* What is shown of a message and the attempt behind it, for every number  *)
(* of consumers, threads and writers. Three arguments, each from an        *)
(* inductive invariant of its own:                                         *)
(*   - a receipt is of the attempt it names (SaidInv);                     *)
(*   - what is being sent has a host that sends it (HostInv);              *)
(*   - an acknowledgement is not taken back (KeptInv).                     *)
(* All three speak of the disk too: a crash brings back what it holds.     *)
(***************************************************************************)
EXTENDS DeliveryExposure

USE DeliveryAssumption DEF vars, history

-----------------------------------------------------------------------------
(* Receipts: what is shown of a message was said by a holder of its attempt. *)

\* What only a holder of an attempt says of it.
Spoken == {"queued", "failed", "thinking", "answered"}

\* What is shown of x was said, according to R, under the attempt of x.
Vouched(x, R) ==
    x.attempt # NoAttempt /\ x.status \in Spoken => <<x.attempt.id, x.status>> \in R
BothVouched(d, R) == Vouched(d.note, R) /\ Vouched(d.task, R)

\* The inductive invariant counts the disk: a crash brings it back.
SaidInv ==
    /\ BothVouched(s, reported) /\ BothVouched(disk, reported)
    /\ \A t \in Threads : Vouched(threads[t], reported)

LEMMA VouchedStays ==
  ASSUME NEW x, NEW R, Vouched(x, R), NEW Q, R \subseteq Q
  PROVE  Vouched(x, Q)
  BY DEF Vouched

LEMMA BothStay ==
  ASSUME NEW d, NEW R, BothVouched(d, R), NEW Q, R \subseteq Q
  PROVE  BothVouched(d, Q)
  BY VouchedStays DEF BothVouched

\* A status is written into the messages of K: nobody need have said it, or it was.
LEMMA SavedVouched ==
  ASSUME NEW d \in Descriptors, NEW R, BothVouched(d, R), NEW K, NEW status \in Statuses,
         "note" \in K => Vouched([d.note EXCEPT !.status = status], R),
         "task" \in K => Vouched([d.task EXCEPT !.status = status], R)
  PROVE  BothVouched(SavedIn(d, K, status), R)
<1> DEFINE e == SavedIn(d, K, status)
<1>1. /\ e.note = IF "note" \in K THEN [d.note EXCEPT !.status = status] ELSE d.note
      /\ e.task = IF "task" \in K THEN [d.task EXCEPT !.status = status] ELSE d.task
  BY DEF SavedIn, Descriptors, Notes, Tasks
<1> HIDE DEF e
<1> QED
  BY <1>1 DEF BothVouched, e

LEMMA UnspokenVouched ==
  ASSUME NEW d \in Descriptors, NEW R, BothVouched(d, R), NEW K,
         NEW status \in Statuses \ Spoken
  PROVE  BothVouched(SavedIn(d, K, status), R)
<1>1. /\ [d.note EXCEPT !.status = status].status = status
      /\ [d.task EXCEPT !.status = status].status = status
  BY DEF Descriptors, Notes, Tasks
<1>2. /\ Vouched([d.note EXCEPT !.status = status], R)
      /\ Vouched([d.task EXCEPT !.status = status], R)
  BY <1>1 DEF Vouched
<1> QED
  BY <1>2, SavedVouched

LEMMA CancelledVouched ==
  ASSUME NEW d \in Descriptors, NEW R, BothVouched(d, R)
  PROVE  BothVouched(Cancelled(d), R)
<1>1. /\ Cancelled(d).note = d.note
      /\ Cancelled(d).task.attempt = d.task.attempt
      /\ Cancelled(d).task.status = d.task.status
  BY DEF Cancelled, Descriptors, Tasks
<1> QED
  BY <1>1 DEF BothVouched, Vouched

LEMMA ConsumersVouched ==
  ASSUME NEW d \in Descriptors, NEW R, BothVouched(d, R), NEW f
  PROVE  BothVouched([d EXCEPT !.consumers = f], R)
  BY DEF BothVouched, Descriptors

LEMMA ClaimedVouched ==
  ASSUME NEW d \in Descriptors, NEW R, BothVouched(d, R), NEW k, NEW a \in Attempts
  PROVE  BothVouched(ClaimedIn(d, k, a), R)
<1> DEFINE e == SavedIn(d, {k}, "sending")
           f == [e EXCEPT !.note.attempt = IF k = "note" THEN a ELSE @,
                          !.task.attempt = IF k = "task" THEN a ELSE @]
<1>1. e \in Descriptors /\ BothVouched(e, R)
  BY SavedInType, UnspokenVouched DEF Statuses, Spoken
<1>2. /\ k = "note" => e.note.status = "sending"
      /\ k = "task" => e.task.status = "sending"
  BY DEF SavedIn, Descriptors, Notes, Tasks
<1> HIDE DEF e
<1>3. /\ f.note.status = e.note.status /\ f.task.status = e.task.status
      /\ f.note.attempt = IF k = "note" THEN a ELSE e.note.attempt
      /\ f.task.attempt = IF k = "task" THEN a ELSE e.task.attempt
  BY <1>1 DEF Descriptors, Notes, Tasks
<1>4. f = ClaimedIn(d, k, a)
  BY DEF ClaimedIn, e
<1> HIDE DEF f
<1>5. Vouched(f.note, R)
  BY <1>1, <1>2, <1>3 DEF BothVouched, Vouched, Spoken
<1>6. Vouched(f.task, R)
  BY <1>1, <1>2, <1>3 DEF BothVouched, Vouched, Spoken
<1> QED
  BY <1>4, <1>5, <1>6 DEF BothVouched

LEMMA RecoveredVouched ==
  ASSUME NEW d \in Descriptors, NEW R, BothVouched(d, R)
  PROVE  BothVouched(Recovered(d), R)
<1> DEFINE e == Cancelled(d)
           f == [e EXCEPT !.note.status =
                   IF @ \in {"pending", "sending"} THEN "unknown" ELSE @]
<1>1. e \in Descriptors /\ BothVouched(e, R)
  BY CancelledType, CancelledVouched
<1>2. f = Recovered(d)
  BY DEF Recovered
<1> HIDE DEF e
<1>3. /\ f.task = e.task /\ f.note.attempt = e.note.attempt
      /\ f.note.status \in Spoken => f.note.status = e.note.status
  BY <1>1 DEF Descriptors, Notes, Spoken
<1> HIDE DEF f
<1> QED
  BY <1>1, <1>2, <1>3 DEF BothVouched, Vouched

\* An interruption and a claim show nothing that only a holder says.
LEMMA MovesVouched ==
  ASSUME TypeOK, SaidInv, UNCHANGED threads \/ Interrupted \/ Taken,
         reported \subseteq reported'
  PROVE  \A t \in Threads : Vouched(threads'[t], reported')
<1>1. \A t \in Threads : Vouched(threads[t], reported') /\ threads[t] \in ThreadRecords
  BY VouchedStays DEF SaidInv, TypeOK
<1>2. CASE UNCHANGED threads
  BY <1>1, <1>2
<1>3. CASE Interrupted
  <2>1. PICK K : threads' = SavedThreads(K, "unknown")
    BY <1>3 DEF Interrupted
  <2> TAKE t \in Threads
  <2>2. threads'[t] = IF t \in K THEN [threads[t] EXCEPT !.status = "unknown"]
                                 ELSE threads[t]
    BY <2>1 DEF SavedThreads
  <2>3. t \in K => threads'[t].status = "unknown"
    BY <1>1, <2>2 DEF ThreadRecords
  <2> QED
    BY <1>1, <2>2, <2>3 DEF Vouched, Spoken
<1>4. CASE Taken
  <2>1. PICK u \in Threads, a \in Attempts : threads' = ClaimedThreads(u, a)
    BY <1>4 DEF Taken
  <2> TAKE t \in Threads
  <2>2. t # u => threads'[t] = threads[t]
    BY <2>1 DEF ClaimedThreads
  <2>3. t = u => threads'[t].status = "sending"
    BY <1>1, <2>1 DEF ClaimedThreads, ThreadRecords
  <2> QED
    BY <1>1, <2>2, <2>3 DEF Vouched, Spoken
<1> QED
  BY <1>2, <1>3, <1>4

\* A step of which nothing was said, and of which both descriptors are vouched for.
LEMMA SilentStep ==
  ASSUME TypeOK, SaidInv, UNCHANGED threads \/ Interrupted \/ Taken,
         reported \subseteq reported',
         BothVouched(s', reported'), BothVouched(disk', reported')
  PROVE  SaidInv'
  BY MovesVouched DEF SaidInv, BothVouched, Vouched, NoAttempt

\* A part of the interrupted messages is saved.
LEMMA SaveSomeSaid ==
  ASSUME TypeOK, SaidInv, NEW d \in Descriptors, BothVouched(d, reported), NEW P,
         SaveSome(d, P), UNCHANGED threads \/ Interrupted, reported' = reported
  PROVE  SaidInv'
<1>1. BothVouched(s', reported)
  BY UnspokenVouched DEF SaveSome, Statuses, Spoken
<1>2. disk' \in {s', disk, d}
  BY DEF SaveSome
<1>3. BothVouched(disk', reported)
  BY <1>1, <1>2 DEF SaidInv
<1> QED
  BY <1>1, <1>3, SilentStep

LEMMA OpenSaid ==
  ASSUME TypeOK, SaidInv, NEW c \in Consumers, NEW r \in Nat,
         OpenConsumer(c, r) \/ OpenConsumerPartly(c, r)
  PROVE  SaidInv'
<1>1. UNCHANGED threads \/ Interrupted
  BY OpenMoves
<1>2. s \in Descriptors /\ BothVouched(s, reported)
  BY DEF TypeOK, SaidInv
<1>3. CASE OpenConsumer(c, r)
  <2> DEFINE d == SavedIn(s, Unfinished(s, c), "unknown")
  <2>1. d \in Descriptors /\ BothVouched(d, reported)
    BY <1>2, SavedInType, UnspokenVouched DEF Statuses, Spoken
  <2>2. \E f : s' = [d EXCEPT !.consumers = f] /\ disk' = s'
    BY <1>3 DEF OpenConsumer, Persist
  <2> HIDE DEF d
  <2>3. BothVouched(s', reported) /\ disk' = s'
    BY <2>1, <2>2, ConsumersVouched
  <2>4. reported' = reported
    BY <1>3 DEF OpenConsumer
  <2> QED
    BY <1>1, <2>3, <2>4, SilentStep
<1>4. CASE OpenConsumerPartly(c, r)
  <2>1. PICK P : SaveSome(s, P)
    BY <1>4 DEF OpenConsumerPartly
  <2>2. reported' = reported
    BY <1>4 DEF OpenConsumerPartly
  <2> QED
    BY <1>1, <1>2, <2>1, <2>2, SaveSomeSaid
<1> QED
  BY <1>3, <1>4

LEMMA CloseSaid ==
  ASSUME TypeOK, SaidInv, NEW c \in Consumers, CloseConsumer(c)
  PROVE  SaidInv'
<1>1. UNCHANGED threads \/ Interrupted
  BY CloseMoves
<1>2. reported' = reported
  BY DEF CloseConsumer
<1>3. PICK hosted \in {FALSE, s.task.active} : \E K :
        LET d == IF hosted THEN Cancelled(s) ELSE s IN
        \/ \E f : Persist([SavedIn(d, K, "unknown") EXCEPT !.consumers = f])
        \/ \E P : SaveSome(d, P)
  BY DEF CloseConsumer
<1> DEFINE d == IF hosted THEN Cancelled(s) ELSE s
<1>4. d \in Descriptors /\ BothVouched(d, reported)
  BY CancelledType, CancelledVouched DEF TypeOK, SaidInv
<1>5. PICK K : \/ \E f : Persist([SavedIn(d, K, "unknown") EXCEPT !.consumers = f])
                \/ \E P : SaveSome(d, P)
  BY <1>3
<1> HIDE DEF d
<1>6. CASE \E f : Persist([SavedIn(d, K, "unknown") EXCEPT !.consumers = f])
  <2> DEFINE e == SavedIn(d, K, "unknown")
  <2>1. e \in Descriptors /\ BothVouched(e, reported)
    BY <1>4, SavedInType, UnspokenVouched DEF Statuses, Spoken
  <2>2. PICK f : Persist([e EXCEPT !.consumers = f])
    BY <1>6
  <2> HIDE DEF e
  <2>3. BothVouched(s', reported) /\ disk' = s'
    BY <2>1, <2>2, ConsumersVouched DEF Persist
  <2> QED
    BY <1>1, <1>2, <2>3, SilentStep
<1>7. CASE \E P : SaveSome(d, P)
  BY <1>1, <1>2, <1>4, <1>7, SaveSomeSaid
<1> QED
  BY <1>5, <1>6, <1>7

LEMMA NextDeliverySaid ==
  ASSUME TypeOK, SaidInv, NEW c \in Consumers, NextDelivery(c)
  PROVE  SaidInv'
<1> DEFINE attempt == [id |-> last.copy + 1, consumer |-> c,
                       instance |-> s.consumers[c].instance,
                       recipient |-> s.consumers[c].recipient]
           D(h) == IF h THEN Cancelled(s) ELSE s
<1>1. UNCHANGED threads \/ Taken
  BY NextDeliveryMoves
<1>2. reported' = reported
  BY DEF NextDelivery
<1>3. PICK lapsed \in {FALSE, First(Candidates(s, c)) = {"task"}} : \E k :
        \/ Forget(D(lapsed)) \/ UNCHANGED <<s, disk>>
        \/ Persist(ClaimedIn(D(lapsed), k, attempt))
  BY DEF NextDelivery
<1>4. attempt \in Attempts
  <2>1. s.consumers[c].instance \in Nat /\ s.consumers[c].recipient \in Nat
    BY DEF TypeOK, Descriptors
  <2> QED
    BY <2>1, NumbersType DEF Attempts
<1>5. D(lapsed) \in Descriptors /\ BothVouched(D(lapsed), reported)
  BY CancelledType, CancelledVouched DEF TypeOK, SaidInv
<1> HIDE DEF attempt, D
<1>6. PICK k : \/ Forget(D(lapsed)) \/ UNCHANGED <<s, disk>>
               \/ Persist(ClaimedIn(D(lapsed), k, attempt))
  BY <1>3
<1>7. BothVouched(ClaimedIn(D(lapsed), k, attempt), reported)
  BY <1>4, <1>5, ClaimedVouched
<1>8. BothVouched(s', reported) /\ BothVouched(disk', reported)
  BY <1>5, <1>6, <1>7 DEF Forget, Persist, SaidInv
<1> QED
  BY <1>1, <1>2, <1>8, SilentStep

LEMMA ReceiptSaid ==
  ASSUME TypeOK, SaidInv, NEW c \in Consumers, NEW e \in sent, NEW status \in Receipts,
         Receipt(c, e, status)
  PROVE  SaidInv'
<1> DEFINE k == e.slot
           next == Transition(Status(k), status)
<1>1. /\ reported' = reported \cup {<<e.attempt, status>>}
      /\ AttemptOf(k) # NoAttempt /\ e.attempt = AttemptOf(k).id
      /\ next # "refused"
  BY DEF Receipt, Check
<1>2. k \in Slots /\ status \in Statuses
  BY DEF TypeOK, Envelopes, Slots, DeliveryAssumption
<1>3. Status(k) \in Statuses
  BY <1>2, SubjectTypes
<1>4. next \in Statuses /\ next \in {Status(k), status}
  BY <1>1, <1>2, <1>3, TransitionType DEF Transition
<1>5. /\ BothVouched(s, reported') /\ BothVouched(disk, reported')
      /\ \A t \in Threads : Vouched(threads[t], reported')
  BY <1>1, BothStay, VouchedStays DEF SaidInv
<1>6. next \in Spoken => <<AttemptOf(k).id, next>> \in reported'
  <2>1. CASE next = status
    BY <1>1, <2>1
  <2>2. CASE next = Status(k)
    <3>1. Status(k) \in Spoken => <<AttemptOf(k).id, Status(k)>> \in reported
      BY <1>1, <1>2 DEF SaidInv, BothVouched, Vouched, Status, AttemptOf, Slots
    <3> QED
      BY <1>1, <2>2, <3>1
  <2> QED
    BY <1>4, <2>1, <2>2
<1>7. CASE k \in Threads
  <2>1. threads' = SavedThreads({k}, next) /\ UNCHANGED <<s, disk>>
    BY <1>7 DEF Receipt, CommitDiscussion
  <2>2. AttemptOf(k) = threads[k].attempt
    BY <1>7 DEF AttemptOf, DeliveryAssumption
  <2> HIDE DEF next
  <2>3. ASSUME NEW t \in Threads PROVE Vouched(threads'[t], reported')
    <3>1. CASE t # k
      BY <1>5, <2>1, <3>1 DEF SavedThreads
    <3>2. CASE t = k
      <4>1. threads'[t].status = next /\ threads'[t].attempt = threads[t].attempt
        BY <2>1, <3>2 DEF SavedThreads, TypeOK, ThreadRecords
      <4> QED
        BY <1>6, <2>2, <3>2, <4>1 DEF Vouched
    <3> QED
      BY <3>1, <3>2
  <2> QED
    BY <1>5, <2>1, <2>3 DEF SaidInv, BothVouched, Vouched
<1>8. CASE k \notin Threads
  <2>1. Persist(SavedIn(s, {k}, next)) /\ UNCHANGED threads
    BY <1>8 DEF Receipt
  <2>2. s \in Descriptors
    BY DEF TypeOK
  <2>3. /\ AttemptOf("note") = s.note.attempt /\ AttemptOf("task") = s.task.attempt
    BY DEF AttemptOf
  <2> HIDE DEF next, k
  <2>4. "note" \in {k} => Vouched([s.note EXCEPT !.status = next], reported')
    BY <1>6, <2>2, <2>3 DEF Vouched, Descriptors, Notes
  <2>5. "task" \in {k} => Vouched([s.task EXCEPT !.status = next], reported')
    BY <1>6, <2>2, <2>3 DEF Vouched, Descriptors, Tasks
  <2>6. BothVouched(s', reported') /\ disk' = s'
    BY <1>4, <1>5, <2>1, <2>2, <2>4, <2>5, SavedVouched DEF Persist
  <2> QED
    BY <1>1, <2>1, <2>6, SilentStep
<1> QED
  BY <1>7, <1>8

LEMMA EmitHandbackSaid ==
  ASSUME TypeOK, SaidInv, NEW d \in Descriptors, BothVouched(d, reported),
         EmitHandback(d)
  PROVE  SaidInv'
<1>1. s' = [d EXCEPT !.note = NewNote(d)] /\ disk' = s'
      /\ UNCHANGED <<threads, reported>>
  BY DEF EmitHandback, Persist
<1>2. s'.task = d.task /\ s'.note.attempt = NoAttempt
  BY <1>1 DEF Descriptors, NewNote
<1>3. BothVouched(s', reported)
  BY <1>2 DEF BothVouched, Vouched
<1> QED
  BY <1>1, <1>3, SilentStep

LEMMA HandbackSaid ==
  ASSUME TypeOK, SaidInv, Reclaim \/ RetryNotification \/ Handover
  PROVE  SaidInv'
<1>1. s \in Descriptors /\ BothVouched(s, reported)
  BY DEF TypeOK, SaidInv
<1>2. ASSUME NEW o \in {"agent", "human"}
      PROVE  [s EXCEPT !.owner = o] \in Descriptors
             /\ BothVouched([s EXCEPT !.owner = o], reported)
  BY <1>1 DEF Descriptors, BothVouched
<1>3. CASE Reclaim
  BY <1>2, <1>3, EmitHandbackSaid DEF Reclaim
<1>4. CASE RetryNotification
  BY <1>1, <1>4, EmitHandbackSaid DEF RetryNotification
<1>5. CASE Handover
  <2>1. BothVouched(s', reported) /\ disk' = s' /\ UNCHANGED <<threads, reported>>
    BY <1>2, <1>5 DEF Handover, Persist
  <2> QED
    BY <2>1, SilentStep
<1> QED
  BY <1>3, <1>4, <1>5

\* A listener without a consumer record proves the attempt as well, if there is one.
LEMMA LegacySaid ==
  ASSUME TypeOK, SaidInv, NEW id, NEW status \in Receipts,
         EventStatus(id, status) \/ TaskDelivery(id, status)
  PROVE  SaidInv'
<1>1. s \in Descriptors /\ UNCHANGED threads
      /\ reported' = reported \cup {<<id, status>>}
  BY DEF TypeOK, EventStatus, TaskDelivery
<1>2. BothVouched(s, reported')
  BY <1>1, BothStay DEF SaidInv
<1>3. CASE EventStatus(id, status)
  <2>1. s' = [s EXCEPT !.note.status = status] /\ disk' = s'
        /\ Proves(s.note.attempt, id)
    BY <1>3 DEF EventStatus, Persist
  <2>2. s'.task = s.task /\ s'.note.attempt = s.note.attempt /\ s'.note.status = status
    BY <1>1, <2>1 DEF Descriptors, Notes
  <2>3. Vouched(s'.note, reported')
    BY <1>1, <2>1, <2>2 DEF Vouched, Proves
  <2>4. BothVouched(s', reported') /\ disk' = s'
    BY <1>2, <2>1, <2>2, <2>3 DEF BothVouched
  <2> QED
    BY <1>1, <2>4, SilentStep
<1>4. CASE TaskDelivery(id, status)
  <2>1. s' = [s EXCEPT !.task.status = status] /\ disk' = s'
        /\ Proves(s.task.attempt, id)
    BY <1>4 DEF TaskDelivery, Persist
  <2>2. s'.note = s.note /\ s'.task.attempt = s.task.attempt /\ s'.task.status = status
    BY <1>1, <2>1 DEF Descriptors, Tasks
  <2>3. Vouched(s'.task, reported')
    BY <1>1, <2>1, <2>2 DEF Vouched, Proves
  <2>4. BothVouched(s', reported') /\ disk' = s'
    BY <1>2, <2>1, <2>2, <2>3 DEF BothVouched
  <2> QED
    BY <1>1, <2>4, SilentStep
<1> QED
  BY <1>3, <1>4

LEMMA TaskSaid ==
  ASSUME TypeOK, SaidInv,
         \/ \E status \in {"pending", "acknowledged"} : StartTask(status)
         \/ TaskHeartbeat
  PROVE  SaidInv'
<1>1. s \in Descriptors /\ UNCHANGED <<threads, reported>>
      /\ BothVouched(s, reported) /\ BothVouched(disk, reported)
  BY DEF TypeOK, SaidInv, StartTask, TaskHeartbeat
<1>2. CASE \E status \in {"pending", "acknowledged"} : StartTask(status)
  <2>1. PICK status : StartTask(status)
    BY <1>2
  <2> DEFINE task == [id |-> last'.subject, status |-> status, attempt |-> NoAttempt,
                      run |-> s.run, binding |-> s.binding, active |-> TRUE]
  <2>2. /\ s' = [s EXCEPT !.task = task] \/ s' = [s EXCEPT !.task = NoTask]
        /\ disk' \in {s', disk}
    BY <2>1 DEF StartTask, Persist
  <2>3. task.attempt = NoAttempt /\ NoTask.attempt = NoAttempt
    BY DEF NoTask
  <2> HIDE DEF task
  <2>4. s'.note = s.note /\ s'.task.attempt = NoAttempt
    BY <1>1, <2>2, <2>3 DEF Descriptors
  <2>5. BothVouched(s', reported)
    BY <1>1, <2>4 DEF BothVouched, Vouched
  <2> QED
    BY <1>1, <2>2, <2>5, SilentStep
<1>3. CASE TaskHeartbeat
  <2>1. s' = [s EXCEPT !.task.status = "acknowledged"] /\ disk' = s'
    BY <1>3 DEF TaskHeartbeat, Persist
  <2>2. s'.note = s.note /\ s'.task.status = "acknowledged"
    BY <1>1, <2>1 DEF Descriptors, Tasks
  <2>3. BothVouched(s', reported)
    BY <1>1, <2>2 DEF BothVouched, Vouched, Spoken
  <2> QED
    BY <1>1, <2>1, <2>3, SilentStep
<1> QED
  BY <1>2, <1>3

LEMMA WithdrawSaid ==
  ASSUME TypeOK, SaidInv, TaskEnds \/ Bind \/ RunAgain
  PROVE  SaidInv'
<1> DEFINE d == Cancelled(s)
<1>1. d \in Descriptors /\ BothVouched(d, reported) /\ BothVouched(disk, reported)
  BY CancelledType, CancelledVouched DEF TypeOK, SaidInv
<1>2. UNCHANGED <<threads, reported>>
  BY DEF TaskEnds, Bind, RunAgain
<1>3. \E b, r : \/ s' = d
                \/ s' = [d EXCEPT !.binding = b, !.note = NoNote]
                \/ s' = [d EXCEPT !.run = r]
  BY DEF TaskEnds, Bind, RunAgain, Forget, Persist
<1>4. disk' \in {s', disk}
  BY DEF TaskEnds, Bind, RunAgain, Forget, Persist
<1> HIDE DEF d
<1>5. s'.task = d.task /\ s'.note \in {d.note, NoNote}
  BY <1>1, <1>3 DEF Descriptors
<1>6. BothVouched(s', reported)
  BY <1>1, <1>5 DEF BothVouched, Vouched, NoNote
<1> QED
  BY <1>1, <1>2, <1>4, <1>6, SilentStep

LEMMA CrashSaid ==
  ASSUME TypeOK, SaidInv, BrokerStops \/ RecoverDescriptor \/ RecoverDiscussion
  PROVE  SaidInv'
<1>1. BothVouched(s, reported) /\ BothVouched(disk, reported) /\ disk \in Descriptors
  BY DEF TypeOK, SaidInv
<1>2. CASE BrokerStops
  <2>1. UNCHANGED <<s, threads, reported>> /\ disk' \in {disk, s}
    BY <1>2 DEF BrokerStops
  <2> QED
    BY <1>1, <2>1, SilentStep
<1>3. CASE RecoverDescriptor
  <2>1. s' = Recovered(disk) /\ disk' = s' /\ UNCHANGED <<threads, reported>>
    BY <1>3 DEF RecoverDescriptor, Persist
  <2> QED
    BY <1>1, <2>1, RecoveredVouched, SilentStep
<1>4. CASE RecoverDiscussion
  <2>1. UNCHANGED threads \/ Interrupted
    BY <1>4, RecoverDiscussionMoves
  <2>2. UNCHANGED <<s, disk, reported>>
    BY <1>4 DEF RecoverDiscussion
  <2> QED
    BY <1>1, <2>1, <2>2, SilentStep
<1> QED
  BY <1>2, <1>3, <1>4

\* A request shows of a question what its author says, under the attempt of the
\* question, or nothing that only a holder says.
LEMMA ApplyVouched ==
  ASSUME NEW T \in ThreadRecords, NEW R, Vouched(T, R), NEW a \in Requests,
         Applicable(T, a), NEW n \in Nat, NEW said,
         said = IF a.action \in {"reply", "delivery", "answer-failed"}
                THEN {<<a.attempt, CASE a.action = "reply" -> "answered"
                                     [] a.action = "delivery" -> a.status
                                     [] OTHER -> "failed">>}
                ELSE {}
  PROVE  Vouched(ApplyDiscussion(T, a, n), R \cup said)
<1> DEFINE U == ApplyDiscussion(T, a, n)
<1>1. Vouched(T, R \cup said)
  BY VouchedStays
<1>2. T \in ThreadRecords /\ T.status \in Statuses
  BY DEF ThreadRecords
<1>3. CASE a.action \in {"create", "ask", "retry"}
  <2>1. U.attempt = NoAttempt
    BY <1>2, <1>3 DEF ApplyDiscussion, ThreadRecords
  <2> QED
    BY <2>1 DEF Vouched
<1>4. CASE a.action = "claim"
  <2>1. U.status = "sending"
    BY <1>2, <1>4 DEF ApplyDiscussion, ThreadRecords
  <2> QED
    BY <2>1 DEF Vouched, Spoken
<1>5. CASE a.action \in {"resolve", "reopen"}
  <2>1. U.status = T.status /\ U.attempt = T.attempt
    BY <1>2, <1>5 DEF ApplyDiscussion, ThreadRecords
  <2> QED
    BY <1>1, <2>1 DEF Vouched
<1>6. ASSUME a.action \in {"reply", "delivery", "answer-failed"}
      PROVE  T.attempt # NoAttempt => a.attempt = T.attempt.id
  BY <1>6 DEF Applicable, MayReply, Authentic
<1>7. CASE a.action = "reply"
  <2>1. said = {<<a.attempt, "answered">>}
    BY <1>7
  <2>2. U.attempt = T.attempt /\ (U = T \/ U.status = "answered")
    BY <1>2, <1>7 DEF ApplyDiscussion, ThreadRecords
  <2> QED
    BY <1>1, <1>6, <1>7, <2>1, <2>2 DEF Vouched
<1>8. CASE a.action = "delivery"
  <2>1. said = {<<a.attempt, a.status>>}
    BY <1>8
  <2>2. Transition(T.status, a.status) \in {T.status, a.status}
    BY <1>8 DEF Applicable, Transition
  <2>3. U.attempt = T.attempt /\ U.status = Transition(T.status, a.status)
    BY <1>2, <1>8 DEF ApplyDiscussion, ThreadRecords
  <2> QED
    BY <1>1, <1>6, <1>8, <2>1, <2>2, <2>3 DEF Vouched
<1>9. CASE a.action = "answer-failed"
  <2>1. said = {<<a.attempt, "failed">>}
    BY <1>9
  <2>2. U.attempt = T.attempt /\ U.status \in {T.status, "failed"}
    BY <1>2, <1>9 DEF ApplyDiscussion, ThreadRecords
  <2> QED
    BY <1>1, <1>6, <1>9, <2>1, <2>2 DEF Vouched
<1> QED
  BY <1>3, <1>4, <1>5, <1>7, <1>8, <1>9 DEF Requests

LEMMA RequestSaid ==
  ASSUME TypeOK, SaidInv, RequestStep
  PROVE  SaidInv'
<1>1. PICK t \in Threads, a \in Requests, n \in Nat : Commits(t, a, n)
  BY DEF RequestStep
<1> DEFINE f == Effect(t, a, n)
<1>2. /\ UNCHANGED <<s, disk>> /\ Applicable(threads[t], a)
      /\ threads' = After(t, a, n) /\ reported' = reported \cup f.said
  BY <1>1 DEF Commits, Ready, Record
<1>3. f.said = IF a.action \in {"reply", "delivery", "answer-failed"}
               THEN {<<a.attempt, CASE a.action = "reply" -> "answered"
                                    [] a.action = "delivery" -> a.status
                                    [] OTHER -> "failed">>}
               ELSE {}
  BY DEF Effect
<1> HIDE DEF f
<1>4. /\ BothVouched(s, reported') /\ BothVouched(disk, reported')
      /\ \A u \in Threads : Vouched(threads[u], reported')
  BY <1>2, BothStay, VouchedStays DEF SaidInv
<1>5. threads[t] \in ThreadRecords /\ Vouched(threads[t], reported)
  BY DEF TypeOK, SaidInv
<1>6. Vouched(ApplyDiscussion(threads[t], a, n), reported')
  BY <1>2, <1>3, <1>5, ApplyVouched
<1>7. \A u \in Threads :
        threads'[u] = IF u = t THEN ApplyDiscussion(threads[t], a, n) ELSE threads[u]
  BY <1>2 DEF After, TypeOK
<1> QED
  BY <1>2, <1>4, <1>6, <1>7 DEF SaidInv, BothVouched, Vouched

LEMMA SaidStep ==
  ASSUME IInv, SaidInv, [Next]_vars
  PROVE  SaidInv'
<1>1. TypeOK
  BY DEF IInv
<1>2. CASE Consume
  <2>1. Provider \in Nat /\ s.binding \in Nat
    BY <1>1 DEF Provider, TypeOK, Descriptors
  <2>2. PICK c \in Consumers :
          \/ \E r \in {Provider, s.binding} :
                OpenConsumer(c, r) \/ OpenConsumerPartly(c, r)
          \/ CloseConsumer(c)
          \/ NextDelivery(c)
          \/ \E e \in sent, status \in Receipts : Receipt(c, e, status)
    BY <1>2 DEF Consume
  <2> QED
    BY <1>1, <2>1, <2>2, OpenSaid, CloseSaid, NextDeliverySaid, ReceiptSaid
<1>3. CASE Handback
  BY <1>1, <1>3, HandbackSaid, LegacySaid DEF Handback
<1>4. CASE Scope
  BY <1>1, <1>4, TaskSaid, WithdrawSaid, LegacySaid
  DEF Scope, TaskStart, TaskAuthorize
<1>5. CASE Discuss
  <2>1. CASE \E t \in Threads : LiveComment(t)
    BY <1>1, <2>1, LiveCommentKind, RequestSaid
  <2>2. CASE \E w \in Writers : OfflineCommit(w)
    BY <1>1, <2>2, OfflineCommitKind, RequestSaid
  <2>3. CASE \E w \in Writers : (\E t \in Threads : OfflineRead(w, t)) \/ OfflineConflict(w)
    <3>1. UNCHANGED <<s, disk, threads, reported>>
      BY <2>3 DEF OfflineRead, OfflineConflict
    <3> QED
      BY <3>1 DEF SaidInv, BothVouched, Vouched
  <2> QED
    BY <1>5, <2>1, <2>2, <2>3 DEF Discuss
<1>6. CASE Bind \/ RunAgain
  BY <1>1, <1>6, WithdrawSaid
<1>7. CASE BrokerStops \/ RecoverDescriptor \/ RecoverDiscussion
  BY <1>1, <1>7, CrashSaid
<1>8. CASE UNCHANGED vars
  BY <1>8 DEF SaidInv, BothVouched, Vouched
<1> QED
  BY <1>2, <1>3, <1>4, <1>5, <1>6, <1>7, <1>8 DEF Next

(* What is shown of a claimed message was said by a holder of that very      *)
(* attempt, for every number of hosts that are replaced, messages that are   *)
(* asked again and receipts that come late (Attempt.Check, eventStatus).     *)
THEOREM ReceiptsBelong == Spec => []StatusBelongsToAttempt
<1>1. Init => SaidInv
  BY DEF Init, SaidInv, BothVouched, Vouched, NoNote, NoTask, NoThread
<1>2. IInv /\ SaidInv /\ [Next]_vars => SaidInv'
  BY SaidStep
<1>3. SaidInv => StatusBelongsToAttempt
  BY DEF SaidInv, BothVouched, Vouched, Spoken, StatusBelongsToAttempt, Slots, Status,
         AttemptOf
<1> QED
  BY <1>1, <1>2, <1>3, Invariance, PTL DEF Spec

-----------------------------------------------------------------------------
(* Hosts: a message shown as being sent has a host that sends it. *)

\* What waits has no attempt.
Untaken(x) == x.status = "pending" => x.attempt = NoAttempt

\* What is being sent is being sent by a present instance, of the consumers C.
HostedIn(x, C) ==
    x.status = "sending" /\ x.attempt.consumer \in Consumers
      => C[x.attempt.consumer].instance = x.attempt.instance

NoteShown(d) == d.note.id # 0 /\ d.owner = "agent" /\ d.note.run = d.run
TaskShown(d) == d.task.active /\ d.task.binding = d.binding /\ d.task.run = d.run
ThreadShown(T, b) == T.question # 0 /\ ~T.resolved /\ T.recipient \in {Provider, b}

\* Descriptor d when N bindings have been made.
Sound(d, N) ==
    Untaken(d.note) /\ Untaken(d.task) /\ d.note.run <= d.run /\ d.binding <= N
BothHosted(d) ==
    /\ NoteShown(d) => HostedIn(d.note, d.consumers)
    /\ TaskShown(d) => HostedIn(d.task, d.consumers)
DocHosted ==
    \A t \in Threads :
        ThreadShown(threads[t], s.binding) => HostedIn(threads[t], s.consumers)

\* The inductive invariant. A binding is never used again, so a thread of a
\* former one is not shown again; a broker that recovers sends nothing.
HostInv ==
    /\ Sound(s, last.binding) /\ Sound(disk, last.binding)
    /\ \A t \in Threads : Untaken(threads[t]) /\ threads[t].recipient <= last.binding
    /\ \A w \in Writers : drafts[w].state = "fresh" =>
          \A t \in Threads : drafts[w].threads[t].recipient <= last.binding
    /\ up = "recovering" => s.note.status # "sending" /\ ~s.task.active
    /\ up = "serving" => BothHosted(s) /\ DocHosted

LEMMA BindingNumbers ==
  ASSUME TypeOK
  PROVE  /\ last.binding \in Nat /\ s.binding \in Nat /\ disk.binding \in Nat
         /\ \A t \in Threads : threads[t].recipient \in Nat
  BY DEF TypeOK, Numbers, Descriptors, ThreadRecords

\* A status is written that neither offers nor sends.
LEMMA SavedHosted ==
  ASSUME NEW d \in Descriptors, NEW K, NEW status \in Statuses \ {"pending", "sending"}
  PROVE  /\ \A N : Sound(d, N) => Sound(SavedIn(d, K, status), N)
         /\ BothHosted(d) => BothHosted(SavedIn(d, K, status))
<1> DEFINE e == SavedIn(d, K, status)
<1>1. /\ e.note.status = IF "note" \in K THEN status ELSE d.note.status
      /\ e.task.status = IF "task" \in K THEN status ELSE d.task.status
      /\ e.note.attempt = d.note.attempt /\ e.task.attempt = d.task.attempt
      /\ e.note.id = d.note.id /\ e.note.run = d.note.run
      /\ e.task.run = d.task.run /\ e.task.binding = d.task.binding
      /\ e.task.active = d.task.active
      /\ e.run = d.run /\ e.binding = d.binding /\ e.owner = d.owner
      /\ e.consumers = d.consumers
  BY DEF SavedIn, Descriptors, Notes, Tasks
<1> HIDE DEF e
<1>2. ASSUME NEW N, Sound(d, N) PROVE Sound(e, N)
  BY <1>1, <1>2 DEF Sound, Untaken
<1>3. ASSUME BothHosted(d) PROVE BothHosted(e)
  BY <1>1, <1>3 DEF BothHosted, HostedIn, NoteShown, TaskShown
<1> QED
  BY <1>2, <1>3 DEF e

LEMMA CancelledHosted ==
  ASSUME NEW d \in Descriptors
  PROVE  /\ \A N : Sound(d, N) => Sound(Cancelled(d), N)
         /\ BothHosted(d) => BothHosted(Cancelled(d))
         /\ Cancelled(d).consumers = d.consumers /\ Cancelled(d).binding = d.binding
         /\ Cancelled(d).note = d.note /\ Cancelled(d).run = d.run
         /\ Cancelled(d).owner = d.owner /\ ~Cancelled(d).task.active
<1> DEFINE e == Cancelled(d)
<1>1. /\ e.note = d.note /\ e.task.attempt = d.task.attempt
      /\ e.task.status = d.task.status /\ ~e.task.active
      /\ e.run = d.run /\ e.binding = d.binding /\ e.owner = d.owner
      /\ e.consumers = d.consumers
  BY DEF Cancelled, Descriptors, Tasks
<1> HIDE DEF e
<1>2. ASSUME NEW N, Sound(d, N) PROVE Sound(e, N)
  BY <1>1, <1>2 DEF Sound, Untaken
<1>3. ASSUME BothHosted(d) PROVE BothHosted(e)
  BY <1>1, <1>3 DEF BothHosted, HostedIn, NoteShown, TaskShown
<1> QED
  BY <1>1, <1>2, <1>3 DEF e

\* A thread stays, or is neither offered nor sent any more.
Eased(T, U) ==
    \/ U = T
    \/ U.status \notin {"pending", "sending"} /\ U.recipient = T.recipient

LEMMA QuietEased ==
  ASSUME TypeOK, UNCHANGED threads \/ Interrupted
  PROVE  \A t \in Threads : Eased(threads[t], threads'[t])
<1>1. CASE UNCHANGED threads
  BY <1>1 DEF Eased
<1>2. CASE Interrupted
  <2>1. PICK K : threads' = SavedThreads(K, "unknown")
    BY <1>2 DEF Interrupted
  <2> TAKE t \in Threads
  <2>2. threads'[t] = IF t \in K THEN [threads[t] EXCEPT !.status = "unknown"]
                                 ELSE threads[t]
    BY <2>1 DEF SavedThreads
  <2>3. t \in K => /\ threads'[t].status = "unknown"
                   /\ threads'[t].recipient = threads[t].recipient
    BY <2>2 DEF TypeOK, ThreadRecords
  <2> QED
    BY <2>2, <2>3 DEF Eased
<1> QED
  BY <1>1, <1>2

\* The threads stay hosted when the binding and the consumers do.
LEMMA EasedHosted ==
  ASSUME DocHosted, \A t \in Threads : Eased(threads[t], threads'[t]),
         s'.binding = s.binding, s'.consumers = s.consumers
  PROVE  DocHosted'
  BY DEF DocHosted, Eased, HostedIn, ThreadShown

\* What a step must show of the documents, besides what depends on the hosts.
LEMMA HostStep ==
  ASSUME TypeOK, HostInv, UNCHANGED drafts \/ Outdated,
         \A t \in Threads : /\ Untaken(threads'[t])
                            /\ threads'[t].recipient <= last'.binding,
         last'.binding \in Nat, last.binding <= last'.binding,
         Sound(s', last'.binding), Sound(disk', last'.binding),
         up' = "recovering" => s'.note.status # "sending" /\ ~s'.task.active,
         up' = "serving" => BothHosted(s') /\ DocHosted'
  PROVE  HostInv'
<1>1. ASSUME NEW w \in Writers, drafts'[w].state = "fresh", NEW t \in Threads
      PROVE  drafts'[w].threads[t].recipient <= last'.binding
  <2>1. drafts'[w] = drafts[w]
    BY <1>1 DEF Outdated
  <2>2. drafts[w].threads[t].recipient <= last.binding
    BY <1>1, <2>1 DEF HostInv
  <2>3. drafts[w].threads \in [Threads -> ThreadRecords]
    BY <1>1, <2>1 DEF TypeOK, Drafts, Idle
  <2>4. drafts[w].threads[t].recipient \in Nat /\ last.binding \in Nat
    BY <2>3, BindingNumbers DEF ThreadRecords
  <2> QED
    BY <2>1, <2>2, <2>4
<1> QED
  BY <1>1 DEF HostInv, Sound, BothHosted

\* A step that eases threads keeps what does not depend on the hosts.
LEMMA EasedStep ==
  ASSUME TypeOK, HostInv, \A t \in Threads : Eased(threads[t], threads'[t]),
         UNCHANGED drafts \/ Outdated,
         last'.binding \in Nat, last.binding <= last'.binding,
         Sound(s', last'.binding), Sound(disk', last'.binding),
         up' = "recovering" => s'.note.status # "sending" /\ ~s'.task.active,
         up' = "serving" => BothHosted(s') /\ DocHosted'
  PROVE  HostInv'
<1>1. last.binding \in Nat /\ \A t \in Threads : threads[t].recipient \in Nat
  BY BindingNumbers
<1>2. \A t \in Threads : /\ Untaken(threads'[t])
                         /\ threads'[t].recipient = threads[t].recipient
  BY DEF HostInv, Eased, Untaken
<1>3. \A t \in Threads : threads'[t].recipient <= last'.binding
  BY <1>1, <1>2 DEF HostInv
<1> QED
  BY <1>2, <1>3, HostStep

\* A step that leaves the binding, the consumers and the stage of the broker.
LEMMA StillStep ==
  ASSUME TypeOK, HostInv, \A t \in Threads : Eased(threads[t], threads'[t]),
         UNCHANGED drafts \/ Outdated,
         last'.binding = last.binding, up = "serving", up' = "serving",
         Sound(s', last.binding), Sound(disk', last.binding), BothHosted(s'),
         s'.binding = s.binding, s'.consumers = s.consumers
  PROVE  HostInv'
<1>1. DocHosted'
  BY EasedHosted DEF HostInv
<1>2. last.binding \in Nat
  BY BindingNumbers
<1> QED
  BY <1>1, <1>2, EasedStep

LEMMA OtherBindings ==
  ASSUME TypeOK,
         \/ UNCHANGED last
         \/ last' = [last EXCEPT !.copy = @ + 1]
         \/ last' = [last EXCEPT !.instance = @ + 1]
         \/ last' = [last EXCEPT !.subject = @ + 1]
  PROVE  last'.binding = last.binding
  BY DEF TypeOK, Numbers

\* A consumer is replaced or closed: whatever it was sending is interrupted.
LEMMA HostLeaves ==
  ASSUME TypeOK, HostInv, up = "serving", up' = "serving", NEW c \in Consumers,
         NEW d \in {s, Cancelled(s)}, NEW K, NEW f,
         \A k \in Slots : Shown(d, k) /\ Status(k) = "sending" /\ AttemptOf(k).consumer = c
                         => k \in K,
         s' = [SavedIn(d, K, "unknown") EXCEPT !.consumers[c] = f], disk' = s',
         CommitIf(K \cap Threads # {}, SavedThreads(K, "unknown")),
         UNCHANGED threads \/ Interrupted, UNCHANGED drafts \/ Outdated,
         last'.binding = last.binding
  PROVE  HostInv'
<1> DEFINE e == SavedIn(d, K, "unknown")
<1>1. d \in Descriptors /\ Sound(d, last.binding) /\ BothHosted(d)
      /\ d.consumers = s.consumers /\ d.binding = s.binding
      /\ d.note = s.note /\ d.task.status = s.task.status
      /\ d.task.attempt = s.task.attempt
  <2>1. s \in Descriptors /\ Sound(s, last.binding) /\ BothHosted(s)
    BY DEF TypeOK, HostInv
  <2>2. /\ Cancelled(s).task.status = s.task.status
        /\ Cancelled(s).task.attempt = s.task.attempt
    BY <2>1 DEF Cancelled, Descriptors, Tasks
  <2> QED
    BY <2>1, <2>2, CancelledType, CancelledHosted
<1>2. e \in Descriptors /\ Sound(e, last.binding) /\ BothHosted(e)
  BY <1>1, SavedInType, SavedHosted DEF Statuses
<1>3. /\ e.note.status = IF "note" \in K THEN "unknown" ELSE d.note.status
      /\ e.task.status = IF "task" \in K THEN "unknown" ELSE d.task.status
      /\ e.note.attempt = d.note.attempt /\ e.task.attempt = d.task.attempt
      /\ NoteShown(e) = NoteShown(d) /\ TaskShown(e) = TaskShown(d)
      /\ e.consumers = d.consumers /\ e.binding = d.binding
  BY <1>1 DEF SavedIn, Descriptors, Notes, Tasks, NoteShown, TaskShown
<1>4. s' = [e EXCEPT !.consumers[c] = f]
  OBVIOUS
<1> HIDE DEF e
<1>5. /\ s'.note = e.note /\ s'.task = e.task /\ s'.run = e.run
      /\ s'.binding = e.binding /\ s'.owner = e.owner
      /\ s'.consumers = [e.consumers EXCEPT ![c] = f]
  BY <1>2, <1>4 DEF Descriptors
<1>6. \A x \in Consumers \ {c} : s'.consumers[x] = e.consumers[x]
  BY <1>2, <1>5 DEF Descriptors
<1>7. /\ NoteShown(s') = NoteShown(e) /\ TaskShown(s') = TaskShown(e)
      /\ Sound(s', last.binding)
  BY <1>2, <1>5 DEF NoteShown, TaskShown, Sound
<1>8. NoteShown(e) /\ e.note.status = "sending" => e.note.attempt.consumer # c
  <2>1. Shown(d, "note") = NoteShown(d)
    BY DEF Shown, NoteShown, DeliveryAssumption
  <2>2. Status("note") = s.note.status /\ AttemptOf("note") = s.note.attempt
    BY DEF Status, AttemptOf
  <2>3. "note" \in Slots
    BY DEF Slots
  <2> QED
    BY <1>1, <1>3, <2>1, <2>2, <2>3
<1>9. TaskShown(e) /\ e.task.status = "sending" => e.task.attempt.consumer # c
  <2>1. Shown(d, "task") = TaskShown(d)
    BY DEF Shown, TaskShown, DeliveryAssumption
  <2>2. Status("task") = s.task.status /\ AttemptOf("task") = s.task.attempt
    BY DEF Status, AttemptOf
  <2>3. "task" \in Slots
    BY DEF Slots
  <2> QED
    BY <1>1, <1>3, <2>1, <2>2, <2>3
<1>10. NoteShown(s') => HostedIn(s'.note, s'.consumers)
  BY <1>2, <1>5, <1>6, <1>7, <1>8 DEF HostedIn, BothHosted
<1>11. TaskShown(s') => HostedIn(s'.task, s'.consumers)
  BY <1>2, <1>5, <1>6, <1>7, <1>9 DEF HostedIn, BothHosted
<1>12. \A t \in Threads : Eased(threads[t], threads'[t])
  BY QuietEased
<1>13. ASSUME NEW t \in Threads, ThreadShown(threads'[t], s'.binding)
       PROVE  HostedIn(threads'[t], s'.consumers)
  <2>1. SUFFICES ASSUME threads'[t].status = "sending",
                        threads'[t].attempt.consumer \in Consumers
                 PROVE  s'.consumers[threads'[t].attempt.consumer].instance
                          = threads'[t].attempt.instance
    BY DEF HostedIn
  <2>2. threads'[t] = threads[t]
    BY <1>12, <2>1 DEF Eased
  <2>3. ThreadShown(threads[t], s.binding)
    BY <1>1, <1>3, <1>5, <1>13, <2>2
  <2>4. HostedIn(threads[t], s.consumers)
    BY <2>3 DEF HostInv, DocHosted
  <2>5. Shown(d, t) /\ Status(t) = threads[t].status /\ AttemptOf(t) = threads[t].attempt
    BY <1>1, <2>3 DEF Shown, ThreadShown, Status, AttemptOf, DeliveryAssumption
  <2>6. t \notin K
    <3>1. SUFFICES ASSUME t \in K PROVE FALSE
      OBVIOUS
    <3>2. threads' = SavedThreads(K, "unknown")
      BY <3>1 DEF CommitIf, CommitDiscussion
    <3>3. threads'[t].status = "unknown"
      BY <3>1, <3>2 DEF SavedThreads, TypeOK, ThreadRecords
    <3> QED
      BY <2>1, <3>3
  <2>7. threads[t].attempt.consumer # c
    BY <2>1, <2>2, <2>5, <2>6 DEF Slots
  <2>8. s'.consumers[threads[t].attempt.consumer]
          = s.consumers[threads[t].attempt.consumer]
    BY <1>1, <1>3, <1>6, <2>1, <2>2, <2>7
  <2> QED
    BY <2>1, <2>2, <2>4, <2>8 DEF HostedIn
<1>14. BothHosted(s') /\ DocHosted'
  BY <1>10, <1>11, <1>13 DEF BothHosted, DocHosted
<1>15. last.binding \in Nat
  BY BindingNumbers
<1> QED
  BY <1>7, <1>12, <1>14, <1>15, EasedStep

LEMMA OpenHosted ==
  ASSUME TypeOK, HostInv, NEW c \in Consumers, NEW r \in Nat, OpenConsumer(c, r)
  PROVE  HostInv'
<1> DEFINE K == Unfinished(s, c)
           f == [instance |-> last'.instance, recipient |-> r]
<1>1. /\ up = "serving" /\ up' = "serving"
      /\ last' = [last EXCEPT !.instance = @ + 1]
      /\ s' = [SavedIn(s, K, "unknown") EXCEPT !.consumers[c] = f] /\ disk' = s'
      /\ CommitIf(K \cap Threads # {}, SavedThreads(K, "unknown"))
  BY DEF OpenConsumer, MayOpen, Persist
<1>2. /\ UNCHANGED threads \/ Interrupted
      /\ UNCHANGED drafts \/ Outdated
  BY OpenMoves
<1>3. last'.binding = last.binding
  BY <1>1, OtherBindings
<1>4. \A k \in Slots : Shown(s, k) /\ Status(k) = "sending" /\ AttemptOf(k).consumer = c
                         => k \in K
  BY DEF Unfinished, NoAttempt, DeliveryAssumption
<1> HIDE DEF K, f
<1> QED
  BY <1>1, <1>2, <1>3, <1>4, HostLeaves

\* Some of what was interrupted is saved.
LEMMA SaveSomeHosted ==
  ASSUME TypeOK, HostInv, up = "serving", up' = "serving",
         NEW d \in {s, Cancelled(s)}, NEW P, SaveSome(d, P), UNCHANGED last,
         UNCHANGED threads \/ Interrupted, UNCHANGED drafts \/ Outdated
  PROVE  HostInv'
<1>1. d \in Descriptors /\ Sound(d, last.binding) /\ BothHosted(d)
      /\ d.consumers = s.consumers /\ d.binding = s.binding
  <2>1. s \in Descriptors /\ Sound(s, last.binding) /\ BothHosted(s)
    BY DEF TypeOK, HostInv
  <2> QED
    BY <2>1, CancelledType, CancelledHosted
<1> DEFINE e == SavedIn(d, P, "unknown")
<1>2. Sound(e, last.binding) /\ BothHosted(e)
  BY <1>1, SavedHosted DEF Statuses
<1>3. e.consumers = d.consumers /\ e.binding = d.binding
  BY <1>1 DEF SavedIn, Descriptors
<1>4. s' = e /\ disk' \in {e, disk, d}
  BY DEF SaveSome
<1> HIDE DEF e
<1>5. Sound(disk, last.binding)
  BY DEF HostInv
<1>6. \A t \in Threads : Eased(threads[t], threads'[t])
  BY QuietEased
<1> QED
  BY <1>1, <1>2, <1>3, <1>4, <1>5, <1>6, StillStep

LEMMA OpenPartlyHosted ==
  ASSUME TypeOK, HostInv, NEW c \in Consumers, NEW r \in Nat, OpenConsumerPartly(c, r)
  PROVE  HostInv'
<1>1. /\ up = "serving" /\ up' = "serving" /\ UNCHANGED last
      /\ \E P : SaveSome(s, P)
  BY DEF OpenConsumerPartly, MayOpen
<1>2. /\ UNCHANGED threads \/ Interrupted
      /\ UNCHANGED drafts \/ Outdated
  BY OpenMoves
<1> QED
  BY <1>1, <1>2, SaveSomeHosted

LEMMA CloseHosted ==
  ASSUME TypeOK, HostInv, NEW c \in Consumers, CloseConsumer(c)
  PROVE  HostInv'
<1> DEFINE D(h) == IF h THEN Cancelled(s) ELSE s
           M(h) == {k \in Unfinished(D(h), c) :
                       AttemptOf(k).instance = s.consumers[c].instance}
<1>1. PICK hosted \in {FALSE, s.task.active} :
        \/ /\ Persist([SavedIn(D(hosted), M(hosted), "unknown")
                         EXCEPT !.consumers[c] = Closed])
           /\ CommitIf(M(hosted) \cap Threads # {},
                       SavedThreads(M(hosted), "unknown"))
        \/ \E P : SaveSome(D(hosted), P)
  BY DEF CloseConsumer
<1>2. up = "serving" /\ up' = "serving" /\ UNCHANGED last
  BY DEF CloseConsumer, MayUse
<1>3. /\ UNCHANGED threads \/ Interrupted
      /\ UNCHANGED drafts \/ Outdated
  BY CloseMoves
<1> DEFINE d == D(hosted)
           K == M(hosted)
<1>4. d \in {s, Cancelled(s)}
  OBVIOUS
<1>5. K = {k \in Unfinished(d, c) : AttemptOf(k).instance = s.consumers[c].instance}
  OBVIOUS
<1>6. \/ /\ Persist([SavedIn(d, K, "unknown") EXCEPT !.consumers[c] = Closed])
         /\ CommitIf(K \cap Threads # {}, SavedThreads(K, "unknown"))
      \/ \E P : SaveSome(d, P)
  BY <1>1
<1> HIDE DEF D, M, d, K
<1>7. CASE \E P : SaveSome(d, P)
  BY <1>2, <1>3, <1>4, <1>7, SaveSomeHosted
<1>8. CASE /\ Persist([SavedIn(d, K, "unknown") EXCEPT !.consumers[c] = Closed])
           /\ CommitIf(K \cap Threads # {}, SavedThreads(K, "unknown"))
  <2>1. ASSUME NEW k \in Slots, Shown(d, k), Status(k) = "sending",
               AttemptOf(k).consumer = c
        PROVE  k \in K
    <3>1. k \in Unfinished(d, c)
      BY <2>1 DEF Unfinished, NoAttempt, DeliveryAssumption
    <3>2. Shown(s, k)
      <4>1. CASE d = s
        BY <2>1, <4>1
      <4>2. CASE d = Cancelled(s)
        <5>1. /\ d.note = s.note /\ d.owner = s.owner /\ d.run = s.run
              /\ d.binding = s.binding /\ ~d.task.active
          BY <4>2, CancelledHosted DEF TypeOK
        <5> QED
          BY <2>1, <5>1 DEF Shown
      <4> QED
        BY <1>4, <4>1, <4>2
    <3>3. AttemptOf(k).instance = s.consumers[c].instance
      <4>1. CASE k = "note"
        BY <1>2, <2>1, <3>2, <4>1
        DEF HostInv, BothHosted, HostedIn, Shown, NoteShown, Status, AttemptOf,
            DeliveryAssumption
      <4>2. CASE k = "task"
        BY <1>2, <2>1, <3>2, <4>2
        DEF HostInv, BothHosted, HostedIn, Shown, TaskShown, Status, AttemptOf,
            DeliveryAssumption
      <4>3. CASE k \in Threads
        BY <1>2, <2>1, <3>2, <4>3
        DEF HostInv, DocHosted, HostedIn, Shown, ThreadShown, Status, AttemptOf,
            DeliveryAssumption
      <4> QED
        BY <4>1, <4>2, <4>3 DEF Slots
    <3> QED
      BY <1>5, <3>1, <3>3
  <2>2. \A k \in Slots : Shown(d, k) /\ Status(k) = "sending" /\ AttemptOf(k).consumer = c
                         => k \in K
    BY <2>1
  <2>3. s' = [SavedIn(d, K, "unknown") EXCEPT !.consumers[c] = Closed] /\ disk' = s'
    BY <1>8 DEF Persist
  <2> QED
    BY <1>2, <1>3, <1>4, <1>8, <2>2, <2>3, HostLeaves
<1> QED
  BY <1>6, <1>7, <1>8

\* Whoever writes a status that may be sent finds the message waiting.
LEMMA StatusHosted ==
  ASSUME NEW x, NEW y, NEW C, Untaken(x), y.attempt = x.attempt,
         y.status \in {"pending", "sending"} => x.status = "pending"
  PROVE  Untaken(y) /\ HostedIn(y, C)
  BY DEF Untaken, HostedIn, NoAttempt, DeliveryAssumption

LEMMA ClaimedFields ==
  ASSUME NEW d \in Descriptors, NEW k \in {"note", "task"}, NEW a \in Attempts
  PROVE  LET e == ClaimedIn(d, k, a) IN
         /\ e.note.id = d.note.id /\ e.note.run = d.note.run
         /\ e.note.status = IF k = "note" THEN "sending" ELSE d.note.status
         /\ e.note.attempt = IF k = "note" THEN a ELSE d.note.attempt
         /\ e.task.run = d.task.run /\ e.task.binding = d.task.binding
         /\ e.task.active = d.task.active
         /\ e.task.status = IF k = "task" THEN "sending" ELSE d.task.status
         /\ e.task.attempt = IF k = "task" THEN a ELSE d.task.attempt
         /\ e.run = d.run /\ e.binding = d.binding /\ e.owner = d.owner
         /\ e.consumers = d.consumers
<1> DEFINE e == SavedIn(d, {k}, "sending")
<1>1. e \in Descriptors
  BY SavedInType DEF Statuses
<1>2. /\ e.note.id = d.note.id /\ e.note.run = d.note.run
      /\ e.note.status = IF k = "note" THEN "sending" ELSE d.note.status
      /\ e.note.attempt = d.note.attempt
      /\ e.task.run = d.task.run /\ e.task.binding = d.task.binding
      /\ e.task.active = d.task.active
      /\ e.task.status = IF k = "task" THEN "sending" ELSE d.task.status
      /\ e.task.attempt = d.task.attempt
      /\ e.run = d.run /\ e.binding = d.binding /\ e.owner = d.owner
      /\ e.consumers = d.consumers
  BY DEF SavedIn, Descriptors, Notes, Tasks
<1>3. ClaimedIn(d, k, a) = [e EXCEPT !.note.attempt = IF k = "note" THEN a ELSE @,
                                     !.task.attempt = IF k = "task" THEN a ELSE @]
  BY DEF ClaimedIn
<1> HIDE DEF e
<1>4. CASE k = "note"
  BY <1>1, <1>2, <1>3, <1>4 DEF Descriptors, Notes, Tasks
<1>5. CASE k = "task"
  BY <1>1, <1>2, <1>3, <1>5 DEF Descriptors, Notes, Tasks
<1> QED
  BY <1>4, <1>5

\* The host that takes a message from the descriptor sends it.
LEMMA ClaimedHosted ==
  ASSUME NEW d \in Descriptors, NEW k \in {"note", "task"}, NEW a \in Attempts,
         NEW N, Sound(d, N), BothHosted(d),
         d.consumers[a.consumer].instance = a.instance
  PROVE  Sound(ClaimedIn(d, k, a), N) /\ BothHosted(ClaimedIn(d, k, a))
<1> DEFINE e == ClaimedIn(d, k, a)
<1>1. /\ e.note.id = d.note.id /\ e.note.run = d.note.run
      /\ e.note.status = IF k = "note" THEN "sending" ELSE d.note.status
      /\ e.note.attempt = IF k = "note" THEN a ELSE d.note.attempt
      /\ e.task.run = d.task.run /\ e.task.binding = d.task.binding
      /\ e.task.active = d.task.active
      /\ e.task.status = IF k = "task" THEN "sending" ELSE d.task.status
      /\ e.task.attempt = IF k = "task" THEN a ELSE d.task.attempt
      /\ e.run = d.run /\ e.binding = d.binding /\ e.owner = d.owner
      /\ e.consumers = d.consumers
  BY ClaimedFields
<1> HIDE DEF e
<1>2. Sound(e, N)
  BY <1>1 DEF Sound, Untaken
<1>3. NoteShown(e) = NoteShown(d) /\ TaskShown(e) = TaskShown(d)
  BY <1>1 DEF NoteShown, TaskShown
<1>4. NoteShown(e) => HostedIn(e.note, e.consumers)
  BY <1>1, <1>3 DEF BothHosted, HostedIn
<1>5. TaskShown(e) => HostedIn(e.task, e.consumers)
  BY <1>1, <1>3 DEF BothHosted, HostedIn
<1> QED
  BY <1>2, <1>4, <1>5 DEF BothHosted, e

\* One thread changes, and is hosted if it is shown.
LEMMA ThreadStep ==
  ASSUME TypeOK, HostInv, UNCHANGED drafts \/ Outdated, NEW t \in Threads,
         threads' = [threads EXCEPT ![t] = threads'[t]],
         Untaken(threads'[t]), threads'[t].recipient <= last.binding,
         up' = "serving" /\ ThreadShown(threads'[t], s'.binding)
           => HostedIn(threads'[t], s'.consumers),
         last'.binding = last.binding, UNCHANGED up,
         up = "recovering" => UNCHANGED s,
         Sound(s', last.binding), Sound(disk', last.binding),
         up = "serving" => BothHosted(s'),
         s'.binding = s.binding, s'.consumers = s.consumers
  PROVE  HostInv'
<1>1. \A u \in Threads \ {t} : threads'[u] = threads[u]
  BY DEF TypeOK
<1>2. \A u \in Threads : /\ Untaken(threads'[u])
                         /\ threads'[u].recipient <= last'.binding
  BY <1>1 DEF HostInv
<1>3. up = "serving" => DocHosted'
  BY <1>1 DEF HostInv, DocHosted
<1>4. last.binding \in Nat
  BY BindingNumbers
<1>5. up' = "recovering" => s'.note.status # "sending" /\ ~s'.task.active
  BY DEF HostInv
<1> QED
  BY <1>2, <1>3, <1>4, <1>5, HostStep

LEMMA NextDeliveryHosted ==
  ASSUME TypeOK, HostInv, NEW c \in Consumers, NextDelivery(c)
  PROVE  HostInv'
<1> DEFINE attempt == [id |-> last.copy + 1, consumer |-> c,
                       instance |-> s.consumers[c].instance,
                       recipient |-> s.consumers[c].recipient]
           D(h) == IF h THEN Cancelled(s) ELSE s
<1>1. PICK lapsed \in {FALSE, First(Candidates(s, c)) = {"task"}} :
        \E k \in First(Candidates(D(lapsed), c)) :
           /\ last' = [last EXCEPT !.copy = @ + 1]
           /\ IF k \in Threads
              THEN /\ CommitDiscussion(ClaimedThreads(k, attempt))
                   /\ IF lapsed THEN Forget(D(lapsed)) ELSE UNCHANGED <<s, disk>>
              ELSE Persist(ClaimedIn(D(lapsed), k, attempt))
                   /\ UNCHANGED <<threads, drafts>>
  BY DEF NextDelivery
<1>2. s.consumers[c].instance \in Nat /\ s.consumers[c].recipient \in Nat
      /\ s \in Descriptors /\ disk \in Descriptors
  BY DEF TypeOK, Descriptors
<1>3. attempt \in Attempts /\ attempt.consumer = c
      /\ attempt.instance = s.consumers[c].instance
  BY <1>2, NumbersType DEF Attempts
<1>4. up = "serving" /\ up' = "serving"
  BY DEF NextDelivery, MayUse
<1> DEFINE d == D(lapsed)
<1>5. d \in Descriptors /\ Sound(d, last.binding) /\ BothHosted(d)
      /\ d.consumers = s.consumers /\ d.binding = s.binding
  <2>1. Sound(s, last.binding) /\ BothHosted(s)
    BY <1>4 DEF HostInv
  <2> QED
    BY <1>2, <2>1, CancelledType, CancelledHosted
<1>6. lapsed \/ d = s
  OBVIOUS
<1> HIDE DEF attempt, D
<1>7. PICK k \in First(Candidates(d, c)) :
           /\ last' = [last EXCEPT !.copy = @ + 1]
           /\ IF k \in Threads
              THEN /\ CommitDiscussion(ClaimedThreads(k, attempt))
                   /\ IF lapsed THEN Forget(d) ELSE UNCHANGED <<s, disk>>
              ELSE Persist(ClaimedIn(d, k, attempt))
                   /\ UNCHANGED <<threads, drafts>>
  BY <1>1
<1> HIDE DEF d
<1>8. last'.binding = last.binding
  BY <1>7, OtherBindings
<1>9. k \in Slots
  BY <1>7 DEF First, Candidates
<1>10. Sound(disk, last.binding) /\ Sound(s, last.binding) /\ BothHosted(s)
  BY <1>4 DEF HostInv
<1>11. CASE k \in Threads
  <2>1. CommitDiscussion(ClaimedThreads(k, attempt))
    BY <1>7, <1>11
  <2>2. Outdated
    BY <2>1, StaleOutdated DEF CommitDiscussion, Outdated
  <2>3. /\ threads'[k].status = "sending" /\ threads'[k].attempt = attempt
        /\ threads'[k].recipient = threads[k].recipient
        /\ threads' = [threads EXCEPT ![k] = threads'[k]]
    BY <1>11, <2>1 DEF CommitDiscussion, ClaimedThreads, TypeOK, ThreadRecords
  <2>4. s' \in {s, d} /\ disk' \in {disk, d}
    BY <1>7, <1>11 DEF Forget, Persist
  <2>5. /\ Sound(s', last.binding) /\ Sound(disk', last.binding) /\ BothHosted(s')
        /\ s'.binding = s.binding /\ s'.consumers = s.consumers
    BY <1>5, <1>10, <2>4
  <2>6. Untaken(threads'[k]) /\ HostedIn(threads'[k], s'.consumers)
    BY <1>3, <2>3, <2>5 DEF Untaken, HostedIn
  <2>7. threads'[k].recipient <= last.binding
    BY <1>11, <2>3 DEF HostInv
  <2> QED
    BY <1>4, <1>8, <1>11, <2>2, <2>3, <2>5, <2>6, <2>7, ThreadStep
<1>12. CASE k \notin Threads
  <2>1. k \in {"note", "task"} /\ Persist(ClaimedIn(d, k, attempt))
        /\ UNCHANGED <<threads, drafts>>
    BY <1>7, <1>9, <1>12 DEF Slots
  <2>2. d.consumers[attempt.consumer].instance = attempt.instance
    BY <1>3, <1>5
  <2>3. /\ Sound(ClaimedIn(d, k, attempt), last.binding)
        /\ BothHosted(ClaimedIn(d, k, attempt))
    BY <1>3, <1>5, <2>1, <2>2, ClaimedHosted
  <2>4. /\ ClaimedIn(d, k, attempt).consumers = d.consumers
        /\ ClaimedIn(d, k, attempt).binding = d.binding
    BY <1>3, <1>5, <2>1, ClaimedFields
  <2>5. \A t \in Threads : Eased(threads[t], threads'[t])
    BY <2>1 DEF Eased
  <2> QED
    BY <1>4, <1>5, <1>8, <2>1, <2>3, <2>4, <2>5, StillStep DEF Persist
<1> QED
  BY <1>11, <1>12

LEMMA ReceiptHosted ==
  ASSUME TypeOK, HostInv, NEW c \in Consumers, NEW e \in sent, NEW status \in Receipts,
         Receipt(c, e, status)
  PROVE  HostInv'
<1> DEFINE k == e.slot
           next == Transition(Status(k), status)
<1>1. k \in Slots /\ status \in Statuses
  BY DEF TypeOK, Envelopes, Slots, DeliveryAssumption
<1>2. Status(k) \in Statuses
  BY <1>1, SubjectTypes
<1>3. next \in Statuses /\ (next \in {"pending", "sending"} => Status(k) = "pending")
  BY <1>1, <1>2, TransitionType, TransitionSource DEF Receipt
<1>4. /\ up = "serving" /\ up' = "serving" /\ UNCHANGED last
      /\ s \in Descriptors /\ Sound(disk, last.binding) /\ Sound(s, last.binding)
      /\ BothHosted(s)
  BY DEF Receipt, MayUse, TypeOK, HostInv
<1>5. CASE k \in Threads
  <2>1. CommitDiscussion(SavedThreads({k}, next)) /\ UNCHANGED <<s, disk>>
    BY <1>5 DEF Receipt
  <2>2. Outdated
    BY <2>1, StaleOutdated DEF CommitDiscussion, Outdated
  <2>3. Status(k) = threads[k].status
    BY <1>5 DEF Status, DeliveryAssumption
  <2> HIDE DEF next, k
  <2>4. /\ threads'[k].status = next /\ threads'[k].attempt = threads[k].attempt
        /\ threads'[k].recipient = threads[k].recipient
        /\ threads' = [threads EXCEPT ![k] = threads'[k]]
    BY <1>5, <2>1 DEF CommitDiscussion, SavedThreads, TypeOK, ThreadRecords
  <2>5. Untaken(threads[k]) /\ threads[k].recipient <= last.binding
    BY <1>5 DEF HostInv
  <2>6. Untaken(threads'[k]) /\ HostedIn(threads'[k], s'.consumers)
    BY <1>3, <2>3, <2>4, <2>5, StatusHosted
  <2> QED
    BY <1>4, <1>5, <2>1, <2>2, <2>4, <2>5, <2>6, ThreadStep
<1>6. CASE k \notin Threads
  <2> DEFINE d == SavedIn(s, {k}, next)
  <2>1. Persist(d) /\ UNCHANGED <<threads, drafts>> /\ k \in {"note", "task"}
    BY <1>1, <1>6 DEF Receipt, Slots
  <2> HIDE DEF next, k
  <2>2. /\ d.note.status = IF k = "note" THEN next ELSE s.note.status
        /\ d.task.status = IF k = "task" THEN next ELSE s.task.status
        /\ d.note.attempt = s.note.attempt /\ d.task.attempt = s.task.attempt
        /\ d.note.id = s.note.id /\ d.note.run = s.note.run
        /\ d.task.run = s.task.run /\ d.task.binding = s.task.binding
        /\ d.task.active = s.task.active
        /\ d.run = s.run /\ d.binding = s.binding /\ d.owner = s.owner
        /\ d.consumers = s.consumers
    BY <1>4, <2>1 DEF SavedIn, Descriptors, Notes, Tasks
  <2> HIDE DEF d
  <2>3. Untaken(s.note) /\ Untaken(s.task)
    BY <1>4 DEF Sound
  <2>4. k = "note" => Sound(d, last.binding) /\ BothHosted(d)
    <3>1. SUFFICES ASSUME k = "note" PROVE Sound(d, last.binding) /\ BothHosted(d)
      OBVIOUS
    <3>2. Status(k) = s.note.status
      BY <3>1 DEF Status
    <3>3. Untaken(d.note) /\ HostedIn(d.note, d.consumers)
      BY <1>3, <2>2, <2>3, <3>1, <3>2, StatusHosted
    <3> QED
      BY <1>4, <2>2, <3>1, <3>3 DEF Sound, BothHosted, Untaken, HostedIn, TaskShown
  <2>5. k = "task" => Sound(d, last.binding) /\ BothHosted(d)
    <3>1. SUFFICES ASSUME k = "task" PROVE Sound(d, last.binding) /\ BothHosted(d)
      OBVIOUS
    <3>2. Status(k) = s.task.status
      BY <3>1 DEF Status
    <3>3. Untaken(d.task) /\ HostedIn(d.task, d.consumers)
      BY <1>3, <2>2, <2>3, <3>1, <3>2, StatusHosted
    <3> QED
      BY <1>4, <2>2, <3>1, <3>3 DEF Sound, BothHosted, Untaken, HostedIn, NoteShown
  <2>6. s' = d /\ disk' = d /\ Sound(d, last.binding) /\ BothHosted(d)
    BY <2>1, <2>4, <2>5 DEF Persist
  <2>7. \A t \in Threads : Eased(threads[t], threads'[t])
    BY <2>1 DEF Eased
  <2> QED
    BY <1>4, <2>1, <2>2, <2>6, <2>7, StillStep
<1> QED
  BY <1>5, <1>6

\* A handler of the broker writes the descriptor only.
LEMMA DescriptorHosted ==
  ASSUME TypeOK, HostInv, UNCHANGED <<up, threads, drafts>>, up = "serving",
         last'.binding = last.binding,
         s'.binding = s.binding, s'.consumers = s.consumers,
         Untaken(s'.note), HostedIn(s'.note, s.consumers) \/ ~NoteShown(s'),
         Untaken(s'.task), HostedIn(s'.task, s.consumers) \/ ~TaskShown(s'),
         s'.note.run <= s'.run, disk' \in {disk, s'}
  PROVE  HostInv'
<1>1. \A t \in Threads : Eased(threads[t], threads'[t])
  BY DEF Eased
<1>2. Sound(s', last.binding) /\ Sound(disk', last.binding) /\ BothHosted(s')
  BY DEF HostInv, Sound, BothHosted
<1> QED
  BY <1>1, <1>2, StillStep

LEMMA EmitHandbackHosted ==
  ASSUME TypeOK, HostInv, up = "serving", NEW o \in {"agent", "human"},
         EmitHandback([s EXCEPT !.owner = o])
  PROVE  HostInv'
<1>1. /\ last' = [last EXCEPT !.subject = @ + 1]
      /\ UNCHANGED <<up, threads, drafts>>
  BY DEF EmitHandback
<1>2. s \in Descriptors /\ s.run \in Nat
  BY DEF TypeOK, Descriptors
<1> DEFINE note == NewNote([s EXCEPT !.owner = o])
<1>3. note.status = "pending" /\ note.attempt = NoAttempt /\ note.run = s.run
  BY <1>2 DEF NewNote, Descriptors
<1>4. s' = [s EXCEPT !.owner = o, !.note = note] /\ disk' = s'
  BY DEF EmitHandback, Persist
<1> HIDE DEF note
<1>5. /\ s'.note = note /\ s'.run = s.run /\ s'.task = s.task
      /\ s'.binding = s.binding /\ s'.consumers = s.consumers
  BY <1>2, <1>4 DEF Descriptors
<1>6. Untaken(s'.note) /\ HostedIn(s'.note, s.consumers)
  BY <1>3, <1>5 DEF Untaken, HostedIn
<1>7. TaskShown(s') = TaskShown(s)
  BY <1>5 DEF TaskShown
<1>8. Untaken(s'.task) /\ (HostedIn(s'.task, s.consumers) \/ ~TaskShown(s'))
  BY <1>5, <1>7 DEF HostInv, Sound, BothHosted
<1>9. last'.binding = last.binding
  BY <1>1, OtherBindings
<1>10. s'.note.run <= s'.run
  BY <1>2, <1>3, <1>5
<1> QED
  BY <1>1, <1>4, <1>5, <1>6, <1>8, <1>9, <1>10, DescriptorHosted

LEMMA HandbackHosted ==
  ASSUME TypeOK, HostInv, Reclaim \/ RetryNotification \/ Handover
  PROVE  HostInv'
<1>1. s \in Descriptors /\ up = "serving"
  BY DEF TypeOK, Reclaim, RetryNotification, EmitHandback, Handover
<1>2. CASE Reclaim
  BY <1>1, <1>2, EmitHandbackHosted DEF Reclaim
<1>3. CASE RetryNotification
  <2>1. s = [s EXCEPT !.owner = "agent"]
    BY <1>1, <1>3 DEF RetryNotification, Descriptors
  <2>2. EmitHandback([s EXCEPT !.owner = "agent"])
    BY <1>3, <2>1 DEF RetryNotification
  <2> QED
    BY <1>1, <2>2, EmitHandbackHosted
<1>4. CASE Handover
  <2>1. /\ s' = [s EXCEPT !.owner = "human"] /\ disk' = s'
        /\ UNCHANGED <<up, threads, drafts, last>>
    BY <1>4 DEF Handover, Persist
  <2>2. /\ s'.note = s.note /\ s'.run = s.run /\ s'.task = s.task
        /\ s'.binding = s.binding /\ s'.consumers = s.consumers /\ s'.owner = "human"
    BY <1>1, <2>1 DEF Descriptors
  <2>3. TaskShown(s') = TaskShown(s) /\ ~NoteShown(s')
    BY <2>2 DEF TaskShown, NoteShown
  <2>4. Sound(s, last.binding) /\ BothHosted(s)
    BY <1>1 DEF HostInv
  <2> QED
    BY <1>1, <2>1, <2>2, <2>3, <2>4, DescriptorHosted DEF Sound, BothHosted
<1> QED
  BY <1>2, <1>3, <1>4

\* A listener without a consumer record sends in nobody's name.
LEMMA LegacyHosted ==
  ASSUME TypeOK, HostInv, NEW id, NEW status \in Receipts,
         EventStatus(id, status) \/ TaskDelivery(id, status)
  PROVE  HostInv'
<1>1. /\ s \in Descriptors /\ up = "serving" /\ UNCHANGED <<up, threads, drafts>>
      /\ Sound(s, last.binding) /\ BothHosted(s) /\ status \in Statuses
      /\ s.note.status \in Statuses /\ s.task.status \in Statuses
  BY DEF TypeOK, HostInv, EventStatus, TaskDelivery, TaskValid, DeliveryAssumption,
         Descriptors, Notes, Tasks
<1>2. last'.binding = last.binding
  <2>1. last' = last \/ last' = [last EXCEPT !.copy = @ + 1]
    BY DEF EventStatus, TaskDelivery, LegacySend
  <2> QED
    BY <2>1, OtherBindings
<1>3. CASE EventStatus(id, status)
  <2>1. s' = [s EXCEPT !.note.status = status] /\ disk' = s'
    BY <1>3 DEF EventStatus, Persist
  <2>2. /\ s'.note.status = status /\ s'.note.attempt = s.note.attempt
        /\ s'.note.run = s.note.run /\ s'.run = s.run /\ s'.task = s.task
        /\ s'.binding = s.binding /\ s'.consumers = s.consumers
    BY <1>1, <2>1 DEF Descriptors, Notes
  <2>3. \/ Transition(s.note.status, status) = status
        \/ status = "acknowledged"
    BY <1>3 DEF EventStatus
  <2>4. status \in {"pending", "sending"} => s.note.status = "pending"
    BY ZenonT(40), <1>1, <2>3, TransitionSource
  <2>5. Untaken(s'.note) /\ HostedIn(s'.note, s.consumers)
    BY <1>1, <2>2, <2>4, StatusHosted DEF Sound
  <2>6. TaskShown(s') = TaskShown(s)
    BY <2>2 DEF TaskShown
  <2> QED
    BY <1>1, <1>2, <2>1, <2>2, <2>5, <2>6, DescriptorHosted DEF Sound, BothHosted
<1>4. CASE TaskDelivery(id, status)
  <2>1. s' = [s EXCEPT !.task.status = status] /\ disk' = s'
    BY <1>4 DEF TaskDelivery, Persist
  <2>2. /\ s'.task.status = status /\ s'.task.attempt = s.task.attempt
        /\ s'.run = s.run /\ s'.note = s.note /\ s'.owner = s.owner
        /\ s'.binding = s.binding /\ s'.consumers = s.consumers
    BY <1>1, <2>1 DEF Descriptors, Tasks
  <2>3. Transition(s.task.status, status) = status
    BY <1>4 DEF TaskDelivery
  <2>4. status \in {"pending", "sending"} => s.task.status = "pending"
    BY ZenonT(40), <1>1, <2>3, TransitionSource
  <2>5. Untaken(s'.task) /\ HostedIn(s'.task, s.consumers)
    BY <1>1, <2>2, <2>4, StatusHosted DEF Sound
  <2>6. NoteShown(s') = NoteShown(s)
    BY <2>2 DEF NoteShown
  <2> QED
    BY <1>1, <1>2, <2>1, <2>2, <2>5, <2>6, DescriptorHosted DEF Sound, BothHosted
<1> QED
  BY <1>3, <1>4

LEMMA TaskHosted ==
  ASSUME TypeOK, HostInv,
         \/ \E status \in {"pending", "acknowledged"} : StartTask(status)
         \/ TaskHeartbeat
  PROVE  HostInv'
<1>1. /\ s \in Descriptors /\ up = "serving" /\ UNCHANGED <<up, threads, drafts>>
      /\ Sound(s, last.binding) /\ BothHosted(s)
  BY DEF TypeOK, HostInv, StartTask, TaskHeartbeat, TaskValid
<1>2. CASE \E status \in {"pending", "acknowledged"} : StartTask(status)
  <2>1. PICK status : StartTask(status)
    BY <1>2
  <2> DEFINE task == [id |-> last'.subject, status |-> status, attempt |-> NoAttempt,
                      run |-> s.run, binding |-> s.binding, active |-> TRUE]
  <2>2. /\ s' = [s EXCEPT !.task = task] \/ s' = [s EXCEPT !.task = NoTask]
        /\ disk' \in {s', disk} /\ last' = [last EXCEPT !.subject = @ + 1]
    BY <2>1 DEF StartTask, Persist
  <2>3. task.attempt = NoAttempt /\ NoTask.attempt = NoAttempt
    BY DEF NoTask
  <2> HIDE DEF task
  <2>4. /\ s'.note = s.note /\ s'.task.attempt = NoAttempt
        /\ s'.run = s.run /\ s'.owner = s.owner
        /\ s'.binding = s.binding /\ s'.consumers = s.consumers
    BY <1>1, <2>2, <2>3 DEF Descriptors
  <2>5. Untaken(s'.task) /\ HostedIn(s'.task, s.consumers)
    BY <2>4 DEF Untaken, HostedIn, NoAttempt, DeliveryAssumption
  <2>6. NoteShown(s') = NoteShown(s)
    BY <2>4 DEF NoteShown
  <2>7. last'.binding = last.binding
    BY <2>2, OtherBindings
  <2> QED
    BY <1>1, <2>2, <2>4, <2>5, <2>6, <2>7, DescriptorHosted DEF Sound, BothHosted
<1>3. CASE TaskHeartbeat
  <2>1. s' = [s EXCEPT !.task.status = "acknowledged"] /\ disk' = s' /\ UNCHANGED last
    BY <1>3 DEF TaskHeartbeat, Persist
  <2>2. /\ s'.note = s.note /\ s'.task.status = "acknowledged"
        /\ s'.run = s.run /\ s'.owner = s.owner
        /\ s'.binding = s.binding /\ s'.consumers = s.consumers
    BY <1>1, <2>1 DEF Descriptors, Tasks
  <2>3. Untaken(s'.task) /\ HostedIn(s'.task, s.consumers)
    BY <2>2 DEF Untaken, HostedIn
  <2>4. NoteShown(s') = NoteShown(s)
    BY <2>2 DEF NoteShown
  <2> QED
    BY <1>1, <2>1, <2>2, <2>3, <2>4, DescriptorHosted DEF Sound, BothHosted
<1> QED
  BY <1>2, <1>3

\* The task is cancelled; a new run shows no handback of the run before.
LEMMA WithdrawHosted ==
  ASSUME TypeOK, HostInv, TaskEnds \/ RunAgain
  PROVE  HostInv'
<1> DEFINE d == Cancelled(s)
<1>1. /\ s \in Descriptors /\ up = "serving" /\ Sound(s, last.binding) /\ BothHosted(s)
      /\ UNCHANGED <<up, threads, drafts, last>>
      /\ s.run \in Nat /\ s.note.run \in Nat
  BY DEF TypeOK, HostInv, TaskEnds, RunAgain, Descriptors, Notes
<1>2. d \in Descriptors /\ d.task.attempt = s.task.attempt
      /\ d.task.status = s.task.status /\ ~d.task.active
      /\ d.note = s.note /\ d.run = s.run /\ d.owner = s.owner
      /\ d.binding = s.binding /\ d.consumers = s.consumers
  BY <1>1, CancelledType, CancelledHosted DEF Cancelled, Descriptors, Tasks
<1>3. /\ s' = d \/ (s' = [d EXCEPT !.run = @ + 1] /\ RunAgain)
      /\ disk' \in {disk, s'}
  BY DEF TaskEnds, RunAgain, Forget, Persist
<1> HIDE DEF d
<1>4. /\ s'.note = s.note /\ s'.task = d.task /\ s'.owner = s.owner
      /\ s'.run \in {s.run, s.run + 1} /\ (s'.run = s.run => s' = d)
      /\ s'.binding = s.binding /\ s'.consumers = s.consumers
  BY <1>1, <1>2, <1>3 DEF Descriptors
<1>5. Untaken(s'.note) /\ Untaken(s'.task) /\ s.note.run <= s.run
  BY <1>1, <1>2, <1>4 DEF Sound, Untaken
<1>6. s'.note.run <= s'.run /\ (s'.run # s.run => s'.note.run # s'.run)
  BY <1>1, <1>4, <1>5
<1>7. ~TaskShown(s')
  BY <1>2, <1>4 DEF TaskShown
<1>8. HostedIn(s'.note, s.consumers) \/ ~NoteShown(s')
  BY <1>1, <1>4, <1>6 DEF BothHosted, NoteShown
<1> QED
  BY <1>1, <1>3, <1>4, <1>5, <1>6, <1>7, <1>8, DescriptorHosted

\* No question of a new binding has been asked yet.
LEMMA BindHosted ==
  ASSUME TypeOK, HostInv, Bind
  PROVE  HostInv'
<1> DEFINE d == Cancelled(s)
<1>1. /\ s \in Descriptors /\ up = "serving" /\ up' = "serving"
      /\ Sound(s, last.binding) /\ Sound(disk, last.binding) /\ DocHosted
      /\ UNCHANGED <<threads, drafts>> /\ s.run \in Nat
      /\ last' = [last EXCEPT !.binding = @ + 1]
  BY DEF TypeOK, HostInv, Bind, Descriptors
<1>2. d \in Descriptors /\ d.task.attempt = s.task.attempt
      /\ d.task.status = s.task.status /\ ~d.task.active /\ d.run = s.run
      /\ d.consumers = s.consumers
  BY <1>1, CancelledType, CancelledHosted DEF Cancelled, Descriptors, Tasks
<1>3. last.binding \in Nat /\ s.binding \in Nat /\ disk.binding \in Nat
      /\ \A t \in Threads : threads[t].recipient \in Nat
  BY BindingNumbers
<1>4. last'.binding = last.binding + 1
  BY <1>1, <1>3 DEF TypeOK, Numbers
<1>5. /\ s' = [d EXCEPT !.binding = last'.binding, !.note = NoNote]
      /\ disk' \in {disk, s'}
  BY DEF Bind, Forget, Persist
<1> HIDE DEF d
<1>6. /\ s'.note = NoNote /\ s'.task = d.task /\ s'.binding = last'.binding
      /\ s'.run = s.run /\ s'.consumers = s.consumers
  BY <1>2, <1>5 DEF Descriptors
<1>7. Sound(s', last'.binding)
  <2>1. NoNote.run = 0 /\ Untaken(NoNote)
    BY DEF NoNote, Untaken
  <2>2. Untaken(d.task)
    BY <1>1, <1>2 DEF Sound, Untaken
  <2> QED
    BY <1>1, <1>3, <1>4, <1>6, <2>1, <2>2 DEF Sound
<1>8. Sound(disk, last'.binding)
  BY <1>1, <1>3, <1>4 DEF Sound
<1>9. BothHosted(s')
  BY <1>2, <1>6 DEF BothHosted, NoteShown, TaskShown, NoNote
<1>10. ASSUME NEW t \in Threads, ThreadShown(threads'[t], s'.binding)
       PROVE  HostedIn(threads'[t], s'.consumers)
  <2>1. threads'[t] = threads[t] /\ threads[t].recipient <= last.binding
    BY <1>1 DEF HostInv
  <2>2. threads[t].recipient # s'.binding
    BY <1>3, <1>4, <1>6, <2>1
  <2>3. ThreadShown(threads[t], s.binding)
    BY <1>10, <2>1, <2>2 DEF ThreadShown
  <2> QED
    BY <1>1, <1>6, <2>1, <2>3 DEF DocHosted
<1>11. DocHosted'
  BY <1>10 DEF DocHosted
<1>12. \A t \in Threads : Eased(threads[t], threads'[t])
  BY <1>1 DEF Eased
<1>13. last'.binding \in Nat /\ last.binding <= last'.binding
  BY <1>3, <1>4
<1> QED
  BY <1>1, <1>5, <1>7, <1>8, <1>9, <1>11, <1>12, <1>13, EasedStep

\* A broker that recovers withdraws what was being sent before it serves.
LEMMA CrashHosted ==
  ASSUME TypeOK, HostInv, BrokerStops \/ RecoverDescriptor \/ RecoverDiscussion
  PROVE  HostInv'
<1>1. /\ last.binding \in Nat /\ last'.binding = last.binding
      /\ s \in Descriptors /\ disk \in Descriptors
      /\ Sound(s, last.binding) /\ Sound(disk, last.binding)
  BY BindingNumbers DEF TypeOK, HostInv, BrokerStops, RecoverDescriptor,
                        RecoverDiscussion
<1>2. CASE BrokerStops
  <2>1. up' = "down" /\ disk' \in {disk, s} /\ UNCHANGED <<s, threads, drafts>>
    BY <1>2 DEF BrokerStops
  <2>2. \A t \in Threads : Eased(threads[t], threads'[t])
    BY <2>1 DEF Eased
  <2> QED
    BY <1>1, <2>1, <2>2, EasedStep
<1>3. CASE RecoverDescriptor
  <2>1. /\ s' = Recovered(disk) /\ disk' = s' /\ up' = "recovering"
        /\ UNCHANGED <<threads, drafts>>
    BY <1>3 DEF RecoverDescriptor, Persist
  <2> DEFINE d == Cancelled(disk)
  <2>2. d \in Descriptors /\ Sound(d, last.binding) /\ ~d.task.active
    BY <1>1, CancelledType, CancelledHosted
  <2>3. s' = [d EXCEPT !.note.status = IF @ \in {"pending", "sending"} THEN "unknown"
                                       ELSE @]
    BY <2>1 DEF Recovered
  <2> HIDE DEF d
  <2>4. /\ s'.note.status \notin {"pending", "sending"} /\ s'.task = d.task
        /\ s'.note.run = d.note.run /\ s'.run = d.run /\ s'.binding = d.binding
    BY <2>2, <2>3 DEF Descriptors, Notes
  <2>5. Sound(s', last.binding)
    BY <2>2, <2>4 DEF Sound, Untaken
  <2>6. \A t \in Threads : Eased(threads[t], threads'[t])
    BY <2>1 DEF Eased
  <2> QED
    BY <1>1, <2>1, <2>2, <2>4, <2>5, <2>6, EasedStep
<1>4. CASE RecoverDiscussion
  <2> DEFINE cut == {t \in Threads : threads[t].status = "sending"}
  <2>1. /\ up = "recovering" /\ up' = "serving" /\ UNCHANGED <<s, disk>>
        /\ CommitIf(cut # {}, SavedThreads(cut, "unknown"))
    BY <1>4 DEF RecoverDiscussion
  <2>2. /\ UNCHANGED threads \/ Interrupted
        /\ UNCHANGED drafts \/ Outdated
    BY <1>4, RecoverDiscussionMoves
  <2>3. \A t \in Threads : Eased(threads[t], threads'[t])
    BY <2>2, QuietEased
  <2>4. ASSUME NEW t \in Threads PROVE threads'[t].status # "sending"
    <3>1. CASE cut = {}
      BY <2>1, <3>1 DEF CommitIf
    <3>2. CASE cut # {}
      <4>1. threads' = SavedThreads(cut, "unknown")
        BY <2>1, <3>2 DEF CommitIf, CommitDiscussion
      <4> QED
        BY <4>1 DEF SavedThreads, TypeOK, ThreadRecords
    <3> QED
      BY <3>1, <3>2
  <2>5. DocHosted'
    BY <2>4 DEF DocHosted, HostedIn
  <2>6. BothHosted(s')
    BY <2>1 DEF HostInv, BothHosted, HostedIn, TaskShown
  <2> QED
    BY <1>1, <2>1, <2>2, <2>3, <2>5, <2>6, EasedStep
<1> QED
  BY <1>2, <1>3, <1>4

\* A request that reopens nothing leaves no send without its host.
LEMMA ApplyHosted ==
  ASSUME NEW T \in ThreadRecords, Untaken(T), NEW a \in Requests,
         a.action # "reopen", Applicable(T, a), NEW n \in Nat, NEW b, NEW C,
         NEW U, U = ApplyDiscussion(T, a, n)
  PROVE  /\ Untaken(U)
         /\ \/ U.recipient = T.recipient
            \/ a.action \in {"create", "ask", "retry"} /\ U.recipient = a.recipient
         /\ (ThreadShown(T, b) => HostedIn(T, C)) /\ ThreadShown(U, b) => HostedIn(U, C)
<1>1. T.status \in Statuses
  BY DEF ThreadRecords
<1>2. CASE a.action \in {"create", "ask", "retry"}
  <2>1. U.attempt = NoAttempt /\ U.status = "pending" /\ U.recipient = a.recipient
    BY <1>2 DEF ApplyDiscussion, ThreadRecords
  <2>2. Untaken(U) /\ HostedIn(U, C)
    BY <2>1 DEF Untaken, HostedIn
  <2> QED
    BY <1>2, <2>1, <2>2
<1>3. CASE a.action = "claim"
  <2>1. /\ U.status = "sending" /\ U.attempt.consumer = Direct
        /\ U.recipient = T.recipient
    BY <1>3 DEF ApplyDiscussion, ThreadRecords
  <2>2. Untaken(U) /\ HostedIn(U, C)
    BY <2>1 DEF Untaken, HostedIn, DeliveryAssumption
  <2> QED
    BY <2>1, <2>2
<1>4. CASE a.action = "resolve"
  <2>1. /\ U.status = T.status /\ U.attempt = T.attempt /\ U.recipient = T.recipient
        /\ U.resolved
    BY <1>4 DEF ApplyDiscussion, ThreadRecords
  <2>2. Untaken(U) /\ ~ThreadShown(U, b)
    BY <2>1 DEF Untaken, ThreadShown
  <2> QED
    BY <2>1, <2>2
<1>5. CASE a.action = "reply"
  <2>1. U = T \/ (U.status = "answered" /\ U.recipient = T.recipient)
    BY <1>5 DEF ApplyDiscussion, ThreadRecords
  <2> QED
    BY <2>1 DEF Untaken, HostedIn
<1>6. CASE a.action = "answer-failed"
  <2>1. U.status \in {"answered", "failed"} /\ U.recipient = T.recipient
    BY <1>6 DEF ApplyDiscussion, ThreadRecords
  <2> QED
    BY <2>1 DEF Untaken, HostedIn
<1>7. CASE a.action = "delivery"
  <2> DEFINE next == Transition(T.status, a.status)
  <2>1. a.status \in Statuses
    BY DEF Requests
  <2>2. next \in {"pending", "sending"} => T.status = "pending"
    BY <1>1, <2>1, TransitionSource
  <2> HIDE DEF next
  <2>3. U.status = next /\ U.attempt = T.attempt /\ U.recipient = T.recipient
    BY <1>7 DEF ApplyDiscussion, ThreadRecords, next
  <2>4. Untaken(U) /\ HostedIn(U, C)
    BY <2>2, <2>3, StatusHosted
  <2> QED
    BY <2>3, <2>4
<1> QED
  BY <1>2, <1>3, <1>4, <1>5, <1>6, <1>7 DEF Requests

LEMMA RequestHosted ==
  ASSUME "reopen" \notin Events, TypeOK, HostInv, RequestStep,
         \A t \in Threads : threads'[t].recipient <= last.binding,
         UNCHANGED up, last'.binding = last.binding
  PROVE  HostInv'
<1>1. PICK t \in Threads, a \in Requests, n \in Nat : Commits(t, a, n)
  BY DEF RequestStep
<1>2. /\ UNCHANGED <<s, disk>> /\ Outdated
      /\ Applicable(threads[t], a) /\ a.action \in Events
      /\ threads' = [threads EXCEPT ![t] = ApplyDiscussion(threads[t], a, n)]
  BY <1>1 DEF Commits, Ready, After
<1> DEFINE U == ApplyDiscussion(threads[t], a, n)
<1>3. threads[t] \in ThreadRecords /\ Untaken(threads[t])
  BY DEF TypeOK, HostInv
<1>4. /\ Untaken(U)
      /\ (ThreadShown(threads[t], s.binding) => HostedIn(threads[t], s.consumers))
         /\ ThreadShown(U, s.binding) => HostedIn(U, s.consumers)
  BY <1>2, <1>3, ApplyHosted
<1>5. threads'[t] = U
  BY <1>2 DEF TypeOK
<1> HIDE DEF U
<1>6. up = "serving" /\ ThreadShown(threads[t], s.binding)
        => HostedIn(threads[t], s.consumers)
  BY DEF HostInv, DocHosted
<1>7. threads' = [threads EXCEPT ![t] = threads'[t]]
  BY <1>2, <1>5 DEF U
<1>8. Sound(s, last.binding) /\ Sound(disk, last.binding)
      /\ (up = "serving" => BothHosted(s))
  BY DEF HostInv
<1> QED
  BY <1>2, <1>4, <1>5, <1>6, <1>7, <1>8, ThreadStep

\* Whoever asks names a binding that exists.
LEMMA RequestRecipient ==
  ASSUME NEW t, NEW R, NEW a \in RequestsAbout(t, R),
         a.action \in {"create", "ask", "retry"}
  PROVE  a.recipient \in R
  BY DEF RequestsAbout, Request

LEMMA AllocateBinding ==
  ASSUME TypeOK, NEW a, Allocate(a)
  PROVE  last'.binding = last.binding
  BY DEF Allocate, TypeOK, Numbers

LEMMA RecipientBound ==
  ASSUME TypeOK, HostInv, NEW t \in Threads, NEW R, NEW a \in RequestsAbout(t, R),
         a \in Requests, a.action # "reopen", Applicable(threads[t], a), NEW n \in Nat,
         \A r \in R : r <= last.binding
  PROVE  \A u \in Threads : After(t, a, n)[u].recipient <= last.binding
<1> DEFINE U == ApplyDiscussion(threads[t], a, n)
<1>1. threads[t] \in ThreadRecords /\ Untaken(threads[t])
  BY DEF TypeOK, HostInv
<1>2. \/ U.recipient = threads[t].recipient
      \/ a.action \in {"create", "ask", "retry"} /\ U.recipient = a.recipient
  BY <1>1, ApplyHosted
<1> HIDE DEF U
<1>3. \A u \in Threads : threads[u].recipient <= last.binding
  BY DEF HostInv
<1>4. U.recipient <= last.binding
  BY <1>2, <1>3, RequestRecipient
<1>5. \A u \in Threads : After(t, a, n)[u] = IF u = t THEN U ELSE threads[u]
  BY DEF After, TypeOK, U
<1> QED
  BY <1>3, <1>4, <1>5

LEMMA LiveCommentHosted ==
  ASSUME "reopen" \notin Events, IInv, HostInv, NEW t \in Threads, LiveComment(t)
  PROVE  HostInv'
<1>0. TypeOK
  BY DEF IInv
<1> DEFINE R == {Provider, s.binding, threads[t].recipient}
<1>1. R \subseteq Nat /\ \A r \in R : r <= last.binding
  <2>1. last.binding \in Nat /\ s.binding \in Nat /\ threads[t].recipient \in Nat
    BY <1>0, BindingNumbers
  <2>2. Provider = 0 /\ s.binding <= last.binding /\ threads[t].recipient <= last.binding
    BY DEF Provider, HostInv, Sound
  <2> QED
    BY <2>1, <2>2
<1>2. PICK a \in RequestsAbout(t, R) :
        /\ Applicable(threads[t], a) /\ Allocate(a) /\ UNCHANGED up
        /\ CommitDiscussion(After(t, a, Fresh(a)))
  BY DEF LiveComment, After
<1> HIDE DEF R
<1>3. a \in Requests /\ a.action \in Events
  BY <1>0, <1>1, <1>2, RequestType
<1>4. Fresh(a) \in Nat /\ last'.binding = last.binding
  BY <1>0, <1>2, <1>3, AllocateType, AllocateBinding
<1>5. \A u \in Threads : After(t, a, Fresh(a))[u].recipient <= last.binding
  BY <1>0, <1>1, <1>2, <1>3, <1>4, RecipientBound
<1>6. RequestStep
  BY LiveCommentKind
<1> QED
  BY <1>0, <1>2, <1>4, <1>5, <1>6, RequestHosted DEF CommitDiscussion

LEMMA OfflineHosted ==
  ASSUME "reopen" \notin Events, IInv, HostInv, NEW w \in Writers,
         \/ \E t \in Threads : OfflineRead(w, t)
         \/ OfflineCommit(w) \/ OfflineConflict(w)
  PROVE  HostInv'
<1>1. TypeOK /\ DraftInv /\ ThreadInv
  BY DEF IInv
<1>2. CASE OfflineCommit(w)
  <2>1. RequestStep
    BY <1>1, <1>2, OfflineCommitKind
  <2>2. /\ drafts[w].state = "fresh" /\ threads' = drafts[w].threads
        /\ UNCHANGED <<up, last>>
    BY <1>2 DEF OfflineCommit
  <2>3. \A t \in Threads : threads'[t].recipient <= last.binding
    BY <2>2 DEF HostInv
  <2> QED
    BY <1>1, <2>1, <2>2, <2>3, RequestHosted
<1>3. CASE OfflineConflict(w)
  <2>1. /\ drafts' = [drafts EXCEPT ![w] = Idle]
        /\ UNCHANGED <<s, disk, up, threads, last>>
    BY <1>3 DEF OfflineConflict
  <2>2. \A x \in Writers : drafts'[x].state = "fresh" => drafts'[x] = drafts[x]
    BY <1>1, <2>1 DEF TypeOK, Idle
  <2> QED
    BY <2>1, <2>2 DEF HostInv, DocHosted
<1>4. CASE \E t \in Threads : OfflineRead(w, t)
  <2>1. PICK t \in Threads : OfflineRead(w, t)
    BY <1>4
  <2> DEFINE R == {Provider, threads[t].recipient}
  <2>2. R \subseteq Nat /\ \A r \in R : r <= last.binding
    <3>1. last.binding \in Nat /\ threads[t].recipient \in Nat
      BY <1>1, BindingNumbers
    <3>2. Provider = 0 /\ threads[t].recipient <= last.binding
      BY DEF Provider, HostInv
    <3> QED
      BY <3>1, <3>2
  <2>3. PICK a \in RequestsAbout(t, R) :
          /\ Applicable(threads[t], a) /\ Allocate(a)
          /\ drafts' = [drafts EXCEPT ![w] =
                [state |-> "fresh", threads |-> After(t, a, Fresh(a)),
                 effect |-> Effect(t, a, Fresh(a))]]
          /\ UNCHANGED <<s, disk, up, threads>>
    BY <2>1 DEF OfflineRead, After
  <2> HIDE DEF R
  <2>4. a \in Requests /\ a.action \in Events
    BY <1>1, <2>2, <2>3, RequestType
  <2>5. Fresh(a) \in Nat /\ last'.binding = last.binding
    BY <1>1, <2>3, <2>4, AllocateType, AllocateBinding
  <2>6. \A u \in Threads : After(t, a, Fresh(a))[u].recipient <= last.binding
    BY <1>1, <2>2, <2>3, <2>4, <2>5, RecipientBound
  <2>7. ASSUME NEW x \in Writers, drafts'[x].state = "fresh", NEW u \in Threads
        PROVE  drafts'[x].threads[u].recipient <= last.binding
    <3>1. CASE x = w
      BY <1>1, <2>3, <2>6, <3>1 DEF TypeOK
    <3>2. CASE x # w
      BY <1>1, <2>3, <2>7, <3>2 DEF TypeOK, HostInv
    <3> QED
      BY <3>1, <3>2
  <2> QED
    BY <2>3, <2>5, <2>7 DEF HostInv, DocHosted
<1> QED
  BY <1>2, <1>3, <1>4

LEMMA HostNext ==
  ASSUME "reopen" \notin Events, IInv, HostInv, [Next]_vars
  PROVE  HostInv'
<1>1. TypeOK /\ ThreadInv
  BY DEF IInv
<1>2. CASE Consume
  <2>1. Provider \in Nat /\ s.binding \in Nat
    BY <1>1 DEF Provider, TypeOK, Descriptors
  <2>2. PICK c \in Consumers :
          \/ \E r \in {Provider, s.binding} :
                OpenConsumer(c, r) \/ OpenConsumerPartly(c, r)
          \/ CloseConsumer(c)
          \/ NextDelivery(c)
          \/ \E e \in sent, status \in Receipts : Receipt(c, e, status)
    BY <1>2 DEF Consume
  <2> QED
    BY <1>1, <2>1, <2>2, OpenHosted, OpenPartlyHosted, CloseHosted,
       NextDeliveryHosted, ReceiptHosted
<1>3. CASE Handback
  BY <1>1, <1>3, HandbackHosted, LegacyHosted DEF Handback
<1>4. CASE Scope
  BY <1>1, <1>4, TaskHosted, WithdrawHosted, LegacyHosted
  DEF Scope, TaskStart, TaskAuthorize
<1>5. CASE Discuss
  BY <1>5, LiveCommentHosted, OfflineHosted DEF Discuss
<1>6. CASE Bind \/ RunAgain
  BY <1>1, <1>6, BindHosted, WithdrawHosted
<1>7. CASE BrokerStops \/ RecoverDescriptor \/ RecoverDiscussion
  BY <1>1, <1>7, CrashHosted
<1>8. CASE UNCHANGED vars
  BY <1>8 DEF HostInv, DocHosted
<1> QED
  BY <1>2, <1>3, <1>4, <1>5, <1>6, <1>7, <1>8 DEF Next

(* While the broker serves, what is shown as being sent is being sent by the  *)
(* present instance of a host, for every number of hosts that are replaced,   *)
(* bindings, failed saves and crashes, if no resolved thread is reopened      *)
(* (setConsumer, consumer-close, bind, the recovery of lifecycle.go).         *)
THEOREM SendsHosted ==
  ASSUME "reopen" \notin Events
  PROVE  Spec => []SendingHasHost
<1>1. Init => HostInv
  BY DEF Init, HostInv, Sound, BothHosted, DocHosted, Untaken, HostedIn, NoteShown,
         TaskShown, ThreadShown, NoNote, NoTask, NoThread, Idle, Provider
<1>2. IInv /\ HostInv /\ [Next]_vars => HostInv'
  BY HostNext
<1>3. HostInv => SendingHasHost
  BY DEF HostInv, BothHosted, DocHosted, HostedIn, NoteShown, TaskShown, ThreadShown,
         SendingHasHost, Slots, Shown, Status, AttemptOf, DeliveryAssumption
<1> QED
  BY <1>1, <1>2, <1>3, Invariance, PTL DEF Spec

-----------------------------------------------------------------------------
(* Acknowledgements: what a recipient has acknowledged is not taken back. *)

\* From x to y, a message keeps its acknowledgement or its sender failed to answer.
AckKept(x, y) ==
    x.attempt # NoAttempt /\ y.attempt = x.attempt /\ x.status \in Acknowledged
      => y.status \in Acknowledged \cup {"failed"}

\* Message y has what x has, or another attempt.
Alike(x, y) == y.attempt \in {x.attempt, NoAttempt}
               /\ (y.attempt # NoAttempt => y.status = x.status)
BothAlike(d, e) == Alike(d.note, e.note) /\ Alike(d.task, e.task)

\* The inductive invariant: of an attempt in memory the disk says the same, so
\* that a recovery, which replaces the first by the second, undoes nothing.
Agrees(x, y) == x.attempt = y.attempt /\ y.attempt # NoAttempt => x.status = y.status
KeptInv == Agrees(disk.note, s.note) /\ Agrees(disk.task, s.task)

\* What a step must show of the descriptor.
DescriptorKept ==
    KeptInv' /\ AckKept(s.note, s'.note) /\ AckKept(s.task, s'.task)

\* A step that says nothing new.
LEMMA AlikeKept ==
  ASSUME KeptInv, BothAlike(s, s'), BothAlike(disk, disk') \/ BothAlike(s, disk')
  PROVE  DescriptorKept
  BY DEF DescriptorKept, KeptInv, Agrees, AckKept, BothAlike, Alike

\* A step that saves what it says.
LEMMA SavedKept ==
  ASSUME disk' = s', AckKept(s.note, s'.note), AckKept(s.task, s'.task)
  PROVE  DescriptorKept
  BY DEF DescriptorKept, KeptInv, Agrees

LEMMA SelfAlike ==
  ASSUME NEW d PROVE BothAlike(d, d)
  BY DEF BothAlike, Alike

LEMMA CancelledAlike ==
  ASSUME NEW d \in Descriptors
  PROVE  BothAlike(d, Cancelled(d))
  BY DEF Cancelled, BothAlike, Alike, Descriptors, Tasks

\* Only what is being sent is interrupted.
LEMMA InterruptedKept ==
  ASSUME NEW d \in Descriptors, BothAlike(s, d), s \in Descriptors, NEW K,
         "note" \in K => s.note.status = "sending",
         "task" \in K => s.task.status = "sending"
  PROVE  /\ AckKept(s.note, SavedIn(d, K, "unknown").note)
         /\ AckKept(s.task, SavedIn(d, K, "unknown").task)
<1> DEFINE e == SavedIn(d, K, "unknown")
<1>1. /\ e.note.status = IF "note" \in K THEN "unknown" ELSE d.note.status
      /\ e.task.status = IF "task" \in K THEN "unknown" ELSE d.task.status
      /\ e.note.attempt = d.note.attempt /\ e.task.attempt = d.task.attempt
  BY DEF SavedIn, Descriptors, Notes, Tasks
<1> HIDE DEF e
<1>2. AckKept(s.note, e.note) /\ AckKept(s.task, e.task)
  BY <1>1 DEF AckKept, BothAlike, Alike, Acknowledged
<1> QED
  BY <1>2 DEF e

LEMMA UnfinishedStatus ==
  ASSUME NEW d, NEW c, NEW K \in SUBSET Unfinished(d, c)
  PROVE  /\ "note" \in K => s.note.status = "sending"
         /\ "task" \in K => s.task.status = "sending"
  BY DEF Unfinished, Status

LEMMA SaveSomeKept ==
  ASSUME TypeOK, KeptInv, NEW d \in {s, Cancelled(s)}, NEW c,
         NEW P \in SUBSET Unfinished(d, c), SaveSome(d, P)
  PROVE  DescriptorKept
<1> DEFINE e == SavedIn(d, P, "unknown")
<1>1. s \in Descriptors /\ d \in Descriptors /\ BothAlike(s, d)
  BY CancelledType, CancelledAlike, SelfAlike DEF TypeOK
<1>2. s' = e
  BY DEF SaveSome
<1>3. CASE P \cap {"note", "task"} # {}
  <2>1. disk' = s'
    BY <1>2, <1>3 DEF SaveSome
  <2>2. AckKept(s.note, e.note) /\ AckKept(s.task, e.task)
    BY <1>1, UnfinishedStatus, InterruptedKept
  <2> HIDE DEF e
  <2> QED
    BY <1>2, <2>1, <2>2, SavedKept
<1>4. CASE P \cap {"note", "task"} = {}
  <2>1. disk' \in {disk, d}
    BY <1>4 DEF SaveSome
  <2>2. e.note = d.note /\ e.task = d.task
    BY <1>1, <1>4 DEF SavedIn, Descriptors, Notes, Tasks
  <2> HIDE DEF e
  <2>3. BothAlike(s, s')
    BY <1>1, <1>2, <2>2 DEF BothAlike
  <2> QED
    BY <1>1, <2>1, <2>3, SelfAlike, AlikeKept
<1> QED
  BY <1>3, <1>4

LEMMA OpenKept ==
  ASSUME TypeOK, KeptInv, NEW c \in Consumers, NEW r,
         OpenConsumer(c, r) \/ OpenConsumerPartly(c, r)
  PROVE  DescriptorKept
<1>1. s \in Descriptors
  BY DEF TypeOK
<1>2. CASE OpenConsumer(c, r)
  <2> DEFINE e == SavedIn(s, Unfinished(s, c), "unknown")
  <2>1. e \in Descriptors
    BY <1>1, SavedInType DEF Statuses
  <2>2. AckKept(s.note, e.note) /\ AckKept(s.task, e.task)
    BY <1>1, SelfAlike, UnfinishedStatus, InterruptedKept
  <2>3. \E f : s' = [e EXCEPT !.consumers = f] /\ disk' = s'
    BY <1>2 DEF OpenConsumer, Persist
  <2> HIDE DEF e
  <2>4. s'.note = e.note /\ s'.task = e.task /\ disk' = s'
    BY <2>1, <2>3 DEF Descriptors
  <2> QED
    BY <2>2, <2>4, SavedKept
<1>3. CASE OpenConsumerPartly(c, r)
  <2>1. PICK P \in Prefixes(Unfinished(s, c)) : SaveSome(s, P)
    BY <1>3 DEF OpenConsumerPartly
  <2>2. P \in SUBSET Unfinished(s, c)
    BY <2>1 DEF Prefixes
  <2> QED
    BY <2>1, <2>2, SaveSomeKept
<1> QED
  BY <1>2, <1>3

LEMMA CloseKept ==
  ASSUME TypeOK, KeptInv, NEW c \in Consumers, CloseConsumer(c)
  PROVE  DescriptorKept
<1> DEFINE D(h) == IF h THEN Cancelled(s) ELSE s
           M(h) == {k \in Unfinished(D(h), c) :
                       AttemptOf(k).instance = s.consumers[c].instance}
<1>1. PICK hosted \in {FALSE, s.task.active} :
        \/ Persist([SavedIn(D(hosted), M(hosted), "unknown")
                      EXCEPT !.consumers[c] = Closed])
        \/ \E P \in Prefixes(M(hosted)) : SaveSome(D(hosted), P)
  BY DEF CloseConsumer
<1> DEFINE d == D(hosted)
           K == M(hosted)
<1>2. d \in {s, Cancelled(s)} /\ K \in SUBSET Unfinished(d, c)
  OBVIOUS
<1>3. s \in Descriptors /\ d \in Descriptors /\ BothAlike(s, d)
  BY CancelledType, CancelledAlike, SelfAlike DEF TypeOK
<1> HIDE DEF D, M
<1>4. \/ Persist([SavedIn(d, K, "unknown") EXCEPT !.consumers[c] = Closed])
      \/ \E P \in Prefixes(K) : SaveSome(d, P)
  BY <1>1
<1> HIDE DEF d, K
<1>5. CASE Persist([SavedIn(d, K, "unknown") EXCEPT !.consumers[c] = Closed])
  <2> DEFINE e == SavedIn(d, K, "unknown")
  <2>1. e \in Descriptors
    BY <1>3, SavedInType DEF Statuses
  <2>2. AckKept(s.note, e.note) /\ AckKept(s.task, e.task)
    BY <1>2, <1>3, UnfinishedStatus, InterruptedKept
  <2>3. s' = [e EXCEPT !.consumers[c] = Closed] /\ disk' = s'
    BY <1>5 DEF Persist
  <2> HIDE DEF e
  <2>4. s'.note = e.note /\ s'.task = e.task
    BY <2>1, <2>3 DEF Descriptors
  <2> QED
    BY <2>2, <2>3, <2>4, SavedKept
<1>6. CASE \E P \in Prefixes(K) : SaveSome(d, P)
  <2>1. PICK P \in Prefixes(K) : SaveSome(d, P)
    BY <1>6
  <2>2. P \in SUBSET Unfinished(d, c)
    BY <1>2, <2>1 DEF Prefixes
  <2> QED
    BY <1>2, <2>1, <2>2, SaveSomeKept
<1> QED
  BY <1>4, <1>5, <1>6

LEMMA NextDeliveryKept ==
  ASSUME TypeOK, KeptInv, NEW c \in Consumers, NextDelivery(c)
  PROVE  DescriptorKept
<1> DEFINE attempt == [id |-> last.copy + 1, consumer |-> c,
                       instance |-> s.consumers[c].instance,
                       recipient |-> s.consumers[c].recipient]
           D(h) == IF h THEN Cancelled(s) ELSE s
<1>1. PICK lapsed \in {FALSE, First(Candidates(s, c)) = {"task"}} :
        \E k \in First(Candidates(D(lapsed), c)) :
           IF k \in Threads
           THEN Forget(D(lapsed)) \/ UNCHANGED <<s, disk>>
           ELSE Persist(ClaimedIn(D(lapsed), k, attempt))
  BY DEF NextDelivery
<1>2. s.consumers[c].instance \in Nat /\ s.consumers[c].recipient \in Nat
      /\ s \in Descriptors
  BY DEF TypeOK, Descriptors
<1>3. attempt \in Attempts
  BY <1>2, NumbersType DEF Attempts
<1> DEFINE d == D(lapsed)
<1>4. d \in Descriptors /\ BothAlike(s, d)
  BY <1>2, CancelledType, CancelledAlike, SelfAlike
<1> HIDE DEF attempt, D
<1>5. PICK k \in First(Candidates(d, c)) :
           IF k \in Threads
           THEN Forget(d) \/ UNCHANGED <<s, disk>>
           ELSE Persist(ClaimedIn(d, k, attempt))
  BY <1>1
<1> HIDE DEF d
<1>6. k \in Slots /\ Status(k) = "pending"
  BY <1>5 DEF First, Candidates
<1>7. CASE k \in Threads
  <2>1. s' \in {s, d} /\ disk' \in {disk, d}
    BY <1>5, <1>7 DEF Forget, Persist
  <2> QED
    BY <1>4, <2>1, SelfAlike, AlikeKept
<1>8. CASE k \notin Threads
  <2>1. k \in {"note", "task"} /\ s' = ClaimedIn(d, k, attempt) /\ disk' = s'
    BY <1>5, <1>6, <1>8 DEF Slots, Persist
  <2>2. /\ s'.note.status = IF k = "note" THEN "sending" ELSE d.note.status
        /\ s'.note.attempt = IF k = "note" THEN attempt ELSE d.note.attempt
        /\ s'.task.status = IF k = "task" THEN "sending" ELSE d.task.status
        /\ s'.task.attempt = IF k = "task" THEN attempt ELSE d.task.attempt
    BY <1>3, <1>4, <2>1, ClaimedFields
  <2>3. /\ k = "note" => s.note.status = "pending"
        /\ k = "task" => s.task.status = "pending"
    BY <1>6 DEF Status
  <2>4. AckKept(s.note, s'.note) /\ AckKept(s.task, s'.task)
    BY <1>4, <2>2, <2>3 DEF AckKept, Acknowledged, BothAlike, Alike
  <2> QED
    BY <2>1, <2>4, SavedKept
<1> QED
  BY <1>7, <1>8

\* No transition takes an acknowledgement back.
LEMMA TransitionAck ==
  ASSUME NEW current \in Acknowledged, NEW next \in Statuses
  PROVE  Transition(current, next) \in Acknowledged \cup {"refused"}
  BY DEF Transition, Acknowledged, Outcomes, Statuses

LEMMA ReceiptKept ==
  ASSUME TypeOK, KeptInv, NEW c \in Consumers, NEW e \in sent, NEW status \in Receipts,
         Receipt(c, e, status)
  PROVE  DescriptorKept
<1> DEFINE k == e.slot
           next == Transition(Status(k), status)
<1>1. status \in Statuses /\ s \in Descriptors
  BY DEF DeliveryAssumption, TypeOK
<1>2. Status(k) \in Acknowledged => next \in Acknowledged
  BY <1>1, TransitionAck DEF Receipt
<1>3. CASE k \in Threads
  <2>1. UNCHANGED <<s, disk>>
    BY <1>3 DEF Receipt
  <2> QED
    BY <2>1, SelfAlike, AlikeKept
<1>4. CASE k \notin Threads
  <2>1. s' = SavedIn(s, {k}, next) /\ disk' = s'
    BY <1>4 DEF Receipt, Persist
  <2> HIDE DEF next, k
  <2>2. /\ s'.note.status = IF k = "note" THEN next ELSE s.note.status
        /\ s'.task.status = IF k = "task" THEN next ELSE s.task.status
    BY <1>1, <2>1 DEF SavedIn, Descriptors, Notes, Tasks
  <2>3. /\ k = "note" => Status(k) = s.note.status
        /\ k = "task" => Status(k) = s.task.status
    BY DEF Status
  <2>4. AckKept(s.note, s'.note) /\ AckKept(s.task, s'.task)
    BY <1>2, <2>2, <2>3 DEF AckKept
  <2> QED
    BY <2>1, <2>4, SavedKept
<1> QED
  BY <1>3, <1>4

LEMMA HandbackKept ==
  ASSUME TypeOK, KeptInv, Reclaim \/ RetryNotification \/ Handover
  PROVE  DescriptorKept
<1>1. s \in Descriptors
  BY DEF TypeOK
<1>2. \E o, note :
        /\ disk' = s'
        /\ \/ s' = [s EXCEPT !.owner = o]
           \/ /\ s' = [s EXCEPT !.owner = o, !.note = note]
              /\ note.attempt = NoAttempt
  <2>1. CASE Handover
    BY <2>1 DEF Handover, Persist
  <2>2. \A d : NewNote(d).attempt = NoAttempt
    BY DEF NewNote
  <2>3. CASE Reclaim
    <3>1. s' = [[s EXCEPT !.owner = "agent"] EXCEPT
                   !.note = NewNote([s EXCEPT !.owner = "agent"])]
          /\ disk' = s'
      BY <2>3 DEF Reclaim, EmitHandback, Persist
    <3> DEFINE note == NewNote([s EXCEPT !.owner = "agent"])
    <3>2. note.attempt = NoAttempt
      BY <2>2
    <3> HIDE DEF note
    <3>3. s' = [s EXCEPT !.owner = "agent", !.note = note]
      BY <3>1 DEF note
    <3> QED
      BY <3>1, <3>2, <3>3
  <2>4. CASE RetryNotification
    <3>1. s' = [s EXCEPT !.note = NewNote(s)] /\ disk' = s' /\ s.owner = "agent"
      BY <2>4 DEF RetryNotification, EmitHandback, Persist
    <3> DEFINE note == NewNote(s)
    <3>2. note.attempt = NoAttempt
      BY <2>2
    <3> HIDE DEF note
    <3>3. s' = [s EXCEPT !.owner = "agent", !.note = note]
      BY <1>1, <3>1 DEF Descriptors, note
    <3> QED
      BY <3>1, <3>2, <3>3
  <2> QED
    BY <2>1, <2>3, <2>4
<1>3. /\ disk' = s' /\ s'.task = s.task
      /\ s'.note = s.note \/ s'.note.attempt = NoAttempt
  BY <1>1, <1>2 DEF Descriptors
<1> QED
  BY <1>3, SavedKept DEF AckKept

LEMMA LegacyKept ==
  ASSUME TypeOK, KeptInv, NEW id, NEW status \in Receipts,
         EventStatus(id, status) \/ TaskDelivery(id, status)
  PROVE  DescriptorKept
<1>1. s \in Descriptors /\ status \in Statuses
  BY DEF TypeOK, DeliveryAssumption
<1>2. CASE EventStatus(id, status)
  <2>1. s' = [s EXCEPT !.note.status = status] /\ disk' = s'
    BY <1>2 DEF EventStatus, Persist
  <2>2. /\ s'.note.status = status /\ s'.note.attempt = s.note.attempt
        /\ s'.task = s.task
    BY <1>1, <2>1 DEF Descriptors, Notes
  <2>3. Transition(s.note.status, status) = status \/ status = "acknowledged"
    BY <1>2 DEF EventStatus
  <2>4. s.note.status \in Acknowledged => status \in Acknowledged
    BY <1>1, <2>3, TransitionAck DEF Acknowledged, Statuses
  <2> QED
    BY <2>1, <2>2, <2>4, SavedKept DEF AckKept
<1>3. CASE TaskDelivery(id, status)
  <2>1. s' = [s EXCEPT !.task.status = status] /\ disk' = s'
    BY <1>3 DEF TaskDelivery, Persist
  <2>2. /\ s'.task.status = status /\ s'.task.attempt = s.task.attempt
        /\ s'.note = s.note
    BY <1>1, <2>1 DEF Descriptors, Tasks
  <2>3. Transition(s.task.status, status) = status
    BY <1>3 DEF TaskDelivery
  <2>4. s.task.status \in Acknowledged => status \in Acknowledged
    BY <1>1, <2>3, TransitionAck DEF Acknowledged, Statuses
  <2> QED
    BY <2>1, <2>2, <2>4, SavedKept DEF AckKept
<1> QED
  BY <1>2, <1>3

LEMMA TaskKept ==
  ASSUME TypeOK, KeptInv,
         \/ \E status \in {"pending", "acknowledged"} : StartTask(status)
         \/ TaskHeartbeat
  PROVE  DescriptorKept
<1>1. s \in Descriptors
  BY DEF TypeOK
<1>2. CASE \E status \in {"pending", "acknowledged"} : StartTask(status)
  <2>1. PICK status : StartTask(status)
    BY <1>2
  <2> DEFINE task == [id |-> last'.subject, status |-> status, attempt |-> NoAttempt,
                      run |-> s.run, binding |-> s.binding, active |-> TRUE]
  <2>2. /\ s' = [s EXCEPT !.task = task] \/ s' = [s EXCEPT !.task = NoTask]
        /\ disk' \in {s', disk}
    BY <2>1 DEF StartTask, Persist
  <2>3. task.attempt = NoAttempt /\ NoTask.attempt = NoAttempt
    BY DEF NoTask
  <2> HIDE DEF task
  <2>4. s'.note = s.note /\ s'.task.attempt = NoAttempt
    BY <1>1, <2>2, <2>3 DEF Descriptors
  <2>5. BothAlike(s, s')
    BY <2>4 DEF BothAlike, Alike
  <2> QED
    BY <2>2, <2>5, SelfAlike, AlikeKept
<1>3. CASE TaskHeartbeat
  <2>1. s' = [s EXCEPT !.task.status = "acknowledged"] /\ disk' = s'
    BY <1>3 DEF TaskHeartbeat, Persist
  <2>2. s'.note = s.note /\ s'.task.status = "acknowledged"
    BY <1>1, <2>1 DEF Descriptors, Tasks
  <2> QED
    BY <2>1, <2>2, SavedKept DEF AckKept, Acknowledged
<1> QED
  BY <1>2, <1>3

LEMMA WithdrawKept ==
  ASSUME TypeOK, KeptInv, TaskEnds \/ Bind \/ RunAgain
  PROVE  DescriptorKept
<1> DEFINE d == Cancelled(s)
<1>1. d \in Descriptors /\ BothAlike(s, d)
  BY CancelledType, CancelledAlike DEF TypeOK
<1>2. \E b, r : \/ s' = d
                \/ s' = [d EXCEPT !.binding = b, !.note = NoNote]
                \/ s' = [d EXCEPT !.run = r]
  BY DEF TaskEnds, Bind, RunAgain, Forget, Persist
<1>3. disk' \in {s', disk}
  BY DEF TaskEnds, Bind, RunAgain, Forget, Persist
<1> HIDE DEF d
<1>4. s'.task = d.task /\ s'.note \in {d.note, NoNote}
  BY <1>1, <1>2 DEF Descriptors
<1>5. BothAlike(s, s')
  BY <1>1, <1>4 DEF BothAlike, Alike, NoNote
<1> QED
  BY <1>3, <1>5, SelfAlike, AlikeKept

\* A recovery takes from the disk what was in memory.
LEMMA CrashKept ==
  ASSUME TypeOK, KeptInv, BrokerStops \/ RecoverDescriptor \/ RecoverDiscussion
  PROVE  DescriptorKept
<1>1. CASE BrokerStops \/ RecoverDiscussion
  <2>1. s' = s /\ disk' \in {disk, s}
    BY <1>1 DEF BrokerStops, RecoverDiscussion
  <2> QED
    BY <2>1, SelfAlike, AlikeKept
<1>2. CASE RecoverDescriptor
  <2> DEFINE d == Cancelled(disk)
  <2>1. d \in Descriptors /\ d.note = disk.note /\ d.task.status = disk.task.status
        /\ d.task.attempt = disk.task.attempt
    BY CancelledType DEF TypeOK, Cancelled, Descriptors, Tasks
  <2>2. disk' = s'
        /\ s' = [d EXCEPT !.note.status = IF @ \in {"pending", "sending"} THEN "unknown"
                                          ELSE @]
    BY <1>2 DEF RecoverDescriptor, Recovered, Persist
  <2> HIDE DEF d
  <2>3. /\ s'.task = d.task /\ s'.note.attempt = d.note.attempt
        /\ d.note.status \in Acknowledged => s'.note.status = d.note.status
    BY <2>1, <2>2 DEF Descriptors, Notes, Acknowledged
  <2>4. AckKept(s.note, s'.note)
    BY <2>1, <2>3 DEF AckKept, KeptInv, Agrees
  <2>5. AckKept(s.task, s'.task)
    BY <2>1, <2>3 DEF AckKept, KeptInv, Agrees
  <2> QED
    BY <2>2, <2>4, <2>5, SavedKept
<1> QED
  BY <1>1, <1>2

\* Whatever a request says, it takes no acknowledgement back.
LEMMA ApplyKept ==
  ASSUME NEW T \in ThreadRecords, NEW a \in Requests, Applicable(T, a), NEW n \in Nat,
         NEW U, U = ApplyDiscussion(T, a, n)
  PROVE  AckKept(T, U)
<1>1. CASE a.action \in {"create", "ask", "retry"}
  <2>1. U.attempt = NoAttempt
    BY <1>1 DEF ApplyDiscussion, ThreadRecords
  <2> QED
    BY <2>1 DEF AckKept
<1>2. CASE a.action = "claim"
  <2>1. T.status = "pending"
    BY <1>2 DEF Applicable
  <2> QED
    BY <2>1 DEF AckKept, Acknowledged
<1>3. CASE a.action \in {"resolve", "reopen"}
  <2>1. U.status = T.status
    BY <1>3 DEF ApplyDiscussion, ThreadRecords
  <2> QED
    BY <2>1 DEF AckKept
<1>4. CASE a.action = "reply"
  <2>1. U = T \/ U.status = "answered"
    BY <1>4 DEF ApplyDiscussion, ThreadRecords
  <2> QED
    BY <2>1 DEF AckKept, Acknowledged
<1>5. CASE a.action = "answer-failed"
  <2>1. U.status \in {"answered", "failed"}
    BY <1>5 DEF ApplyDiscussion, ThreadRecords
  <2> QED
    BY <2>1 DEF AckKept, Acknowledged
<1>6. CASE a.action = "delivery"
  <2> DEFINE next == Transition(T.status, a.status)
  <2>1. T.status \in Acknowledged => next \in Acknowledged
    BY <1>6, TransitionAck DEF Requests, Applicable
  <2> HIDE DEF next
  <2>2. U.status = next
    BY <1>6 DEF ApplyDiscussion, ThreadRecords, next
  <2> QED
    BY <2>1, <2>2 DEF AckKept
<1> QED
  BY <1>1, <1>2, <1>3, <1>4, <1>5, <1>6 DEF Requests

LEMMA ThreadsKept ==
  ASSUME TypeOK, ThreadMove
  PROVE  \A t \in Threads : AckKept(threads[t], threads'[t])
<1>1. \A t \in Threads : threads[t] \in ThreadRecords
  BY DEF TypeOK
<1>2. CASE UNCHANGED threads
  BY <1>2 DEF AckKept
<1>3. CASE Interrupted
  <2>1. PICK K \in SUBSET {t \in Threads : threads[t].status = "sending"} :
          threads' = SavedThreads(K, "unknown")
    BY <1>3 DEF Interrupted
  <2> TAKE t \in Threads
  <2>2. t \in K => threads[t].status = "sending"
    OBVIOUS
  <2>3. t \notin K => threads'[t] = threads[t]
    BY <2>1 DEF SavedThreads
  <2> QED
    BY <2>2, <2>3 DEF AckKept, Acknowledged
<1>4. CASE Taken
  <2>1. PICK t \in Threads, a \in Attempts :
          threads[t].status = "pending" /\ threads' = ClaimedThreads(t, a)
    BY <1>4 DEF Taken
  <2> TAKE u \in Threads
  <2>2. u # t => threads'[u] = threads[u]
    BY <2>1 DEF ClaimedThreads
  <2> QED
    BY <2>1, <2>2 DEF AckKept, Acknowledged
<1>5. CASE Told
  <2>1. PICK t \in Threads, status \in Statuses :
          /\ Transition(threads[t].status, status) # "refused"
          /\ threads' = SavedThreads({t}, Transition(threads[t].status, status))
    BY <1>5 DEF Told
  <2> DEFINE next == Transition(threads[t].status, status)
  <2>2. threads[t].status \in Acknowledged => next \in Acknowledged
    BY <2>1, TransitionAck
  <2>3. threads' = SavedThreads({t}, next)
    BY <2>1
  <2> HIDE DEF next
  <2> TAKE u \in Threads
  <2>4. threads'[u] = IF u = t THEN [threads[t] EXCEPT !.status = next] ELSE threads[u]
    BY <2>3 DEF SavedThreads
  <2>5. u = t => threads'[u].status = next
    BY <1>1, <2>4 DEF ThreadRecords
  <2> QED
    BY <2>2, <2>4, <2>5 DEF AckKept
<1>6. CASE Applied
  <2>1. PICK t \in Threads, a \in Requests, n \in Nat :
          Ready(t, a, n, last'.subject) /\ threads' = After(t, a, n)
    BY <1>6 DEF Applied
  <2> TAKE u \in Threads
  <2>2. CASE u = t
    <3>1. Applicable(threads[t], a) /\ threads'[t] = ApplyDiscussion(threads[t], a, n)
      BY <2>1 DEF Ready, After, TypeOK
    <3> QED
      BY <1>1, <2>2, <3>1, ApplyKept
  <2>3. CASE u # t
    <3>1. threads'[u] = threads[u]
      BY <2>1, <2>3 DEF After, TypeOK
    <3> QED
      BY <3>1 DEF AckKept
  <2> QED
    BY <2>2, <2>3
<1> QED
  BY <1>2, <1>3, <1>4, <1>5, <1>6 DEF ThreadMove

LEMMA KeptNext ==
  ASSUME IInv, KeptInv, [Next]_vars
  PROVE  DescriptorKept
<1>1. TypeOK
  BY DEF IInv
<1>2. CASE Consume
  <2>1. PICK c \in Consumers :
          \/ \E r \in {Provider, s.binding} :
                OpenConsumer(c, r) \/ OpenConsumerPartly(c, r)
          \/ CloseConsumer(c)
          \/ NextDelivery(c)
          \/ \E e \in sent, status \in Receipts : Receipt(c, e, status)
    BY <1>2 DEF Consume
  <2> QED
    BY <1>1, <2>1, OpenKept, CloseKept, NextDeliveryKept, ReceiptKept
<1>3. CASE Handback
  BY <1>1, <1>3, HandbackKept, LegacyKept DEF Handback
<1>4. CASE Scope
  BY <1>1, <1>4, TaskKept, WithdrawKept, LegacyKept
  DEF Scope, TaskStart, TaskAuthorize
<1>5. CASE Discuss \/ UNCHANGED vars
  <2>1. UNCHANGED <<s, disk>>
    BY <1>5 DEF Discuss, LiveComment, OfflineRead, OfflineCommit, OfflineConflict
  <2> QED
    BY <2>1, SelfAlike, AlikeKept
<1>6. CASE Bind \/ RunAgain
  BY <1>1, <1>6, WithdrawKept
<1>7. CASE BrokerStops \/ RecoverDescriptor \/ RecoverDiscussion
  BY <1>1, <1>7, CrashKept
<1> QED
  BY <1>2, <1>3, <1>4, <1>5, <1>6, <1>7 DEF Next

\* The five ways of MoveStep.
LEMMA MoveOfThreads ==
  ASSUME IInv, [Next]_vars
  PROVE  ThreadMove
  BY MoveStep DEF ThreadMove

LEMMA KeptSlots ==
  ASSUME DescriptorKept, \A t \in Threads : AckKept(threads[t], threads'[t])
  PROVE  \A k \in Slots :
           AttemptOf(k) # NoAttempt /\ AttemptOf(k)' = AttemptOf(k)
           /\ Status(k) \in Acknowledged
             => Status(k)' \in Acknowledged \cup {"failed"}
  BY DEF DescriptorKept, AckKept, Slots, Status, AttemptOf, DeliveryAssumption

(* What a recipient acknowledged under an attempt is not taken back, by any    *)
(* number of late receipts, interruptions, failed writes and recoveries: only  *)
(* a failure to answer ends it (Transition, and lifecycle.go, which takes from *)
(* the disk no older status of an attempt than the broker had in memory).      *)
THEOREM AcknowledgementsStay == Spec => AcknowledgementKept
<1> DEFINE Step == [\A k \in Slots :
                      AttemptOf(k) # NoAttempt /\ AttemptOf(k)' = AttemptOf(k)
                      /\ Status(k) \in Acknowledged
                        => Status(k)' \in Acknowledged \cup {"failed"}]_vars
<1>1. Init => KeptInv
  BY DEF Init, KeptInv, Agrees, NoNote, NoTask
<1>2. IInv /\ KeptInv /\ [Next]_vars => KeptInv'
  BY KeptNext DEF DescriptorKept
<1>3. IInv /\ KeptInv /\ [Next]_vars => Step
  <2>1. SUFFICES ASSUME IInv, KeptInv, [Next]_vars PROVE Step
    OBVIOUS
  <2>2. DescriptorKept /\ TypeOK /\ ThreadMove
    BY <2>1, KeptNext, MoveOfThreads DEF IInv
  <2> QED
    BY <2>2, ThreadsKept, KeptSlots
<1> QED
  BY <1>1, <1>2, <1>3, Invariance, PTL DEF Spec, AcknowledgementKept
=============================================================================
