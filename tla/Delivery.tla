------------------------------ MODULE Delivery ------------------------------
(***************************************************************************)
(* Delivery of messages to an agent or a provider (internal/delivery,      *)
(* broker/delivery.go, notifications.go, the delivery part of              *)
(* coordination.go, comments.go and session/discussion_actions.go).        *)
(*                                                                         *)
(* Three kinds of message wait for a recipient: the handback, the task and *)
(* the current question of each thread. The first two live in the          *)
(* session's descriptor, which only the broker writes; questions live in   *)
(* the discussion document, which other processes write too, by            *)
(* compare-and-swap. Every broker handler holds b.mu, so it is one action; *)
(* an offline writer reads in one action and commits in another.           *)
(*                                                                         *)
(* A recipient is Provider or the revision of the agent's binding. Sets of *)
(* clients are not modelled: a consumer, a legacy listener or an answering *)
(* agent may do at any time what the messages it has seen allow.           *)
(***************************************************************************)
EXTENDS Integers, FiniteSets

CONSTANTS
    Consumers,      \* consumer identities that hosts choose
    Direct,         \* who claims without a consumer record
    Threads,        \* comment threads
    Keys,           \* message IDs of replies
    Writers,        \* processes that write the discussion without the broker
    ConsumerLimit,  \* 32 in the code
    MaxSubjects, MaxCopies, MaxInstances, MaxBindings, MaxRuns, MaxFaults,
    Receipts,       \* statuses that clients report
    Events          \* optional operations that are explored

Statuses == {"none", "pending", "sending", "queued", "thinking",
             "acknowledged", "answered", "failed", "unknown"}

DeliveryAssumption ==
    /\ Receipts \subseteq Statuses
    /\ Direct \notin Consumers
    /\ {"note", "task"} \cap Threads = {}
    /\ {ConsumerLimit, MaxSubjects, MaxCopies, MaxInstances,
        MaxBindings, MaxRuns, MaxFaults} \subseteq Nat

ASSUME DeliveryAssumption

VARIABLES
    s,          \* the descriptor in the broker's memory (b.s)
    disk,       \* session.json
    up,         \* whether the broker serves
    threads,    \* the discussion document
    drafts,     \* what each offline writer has read and is about to commit
    last,       \* identities handed out so far
    faults,     \* failed writes so far
    due,        \* history: subjects asked for and not exposed since
    sent,       \* history: every message that left, with its attempt
    reported    \* history: what the holder of an attempt said of it

vars == <<s, disk, up, threads, drafts, last, faults, due, sent, reported>>
history == <<due, sent, reported>>

-----------------------------------------------------------------------------
Provider == 0

NoAttempt == [id |-> 0, consumer |-> Direct, instance |-> 0, recipient |-> 0]
NoNote == [id |-> 0, status |-> "none", attempt |-> NoAttempt, run |-> 0]
NoTask == [id |-> 0, status |-> "none", attempt |-> NoAttempt, run |-> 0,
           binding |-> 0, active |-> FALSE]
NoThread == [question |-> 0, status |-> "none", recipient |-> Provider,
             attempt |-> NoAttempt, required |-> FALSE, resolved |-> FALSE,
             answers |-> {}]
Closed == [instance |-> 0, recipient |-> Provider]
Idle == [state |-> "idle"]

Attempts == [id : Nat, consumer : Consumers \cup {Direct}, instance : Nat,
             recipient : Nat]
Notes == [id : Nat, status : Statuses, attempt : Attempts, run : Nat]
Tasks == [id : Nat, status : Statuses, attempt : Attempts, run : Nat,
          binding : Nat, active : BOOLEAN]
ThreadRecords ==
    [question : Nat, status : Statuses, recipient : Nat, attempt : Attempts,
     required : BOOLEAN, resolved : BOOLEAN,
     answers : SUBSET [key : Keys, question : Nat]]
Descriptors ==
    [binding : Nat, owner : {"agent", "human"}, run : Nat, note : Notes,
     task : Tasks,
     consumers : [Consumers -> [instance : Nat, recipient : Nat]]]
Envelopes ==
    [slot : Threads \cup {"note", "task"}, subject : Nat, attempt : Nat,
     copy : Nat, consumer : Consumers \cup {Direct}, instance : Nat,
     recipient : Nat]

(* state.go:27-56. "refused" is the error. *)
Acknowledged == {"thinking", "acknowledged", "answered"}
Outcomes == {"queued", "failed", "unknown"}

\* Mutant of Transition: a late receipt takes an acknowledgement back.
TransitionTakesBack(current, next) ==
    IF current = next /\ next # "sending" THEN current
    ELSE IF \/ next = "sending" /\ current = "pending"
            \/ /\ next \in Outcomes
               /\ current \in {"sending", "acknowledged", "thinking"}
            \/ /\ next \in {"acknowledged", "thinking"}
               /\ current \in {"sending", "queued", "unknown"}
            \/ next = "answered" /\ current \notin {"pending", "failed"}
         THEN next
    ELSE "refused"

Transition(current, next) ==
    IF current = next /\ next # "sending" THEN current
    ELSE IF /\ current \in Acknowledged
            /\ next \in Outcomes \cup {"thinking", "acknowledged"}
         THEN current
    ELSE IF \/ next = "sending" /\ current = "pending"
            \/ next \in Outcomes /\ current = "sending"
            \/ /\ next \in {"acknowledged", "thinking"}
               /\ current \in {"sending", "queued", "unknown"}
            \/ /\ next = "answered"
               /\ current \in {"sending", "queued", "unknown", "thinking",
                               "acknowledged"}
         THEN next
    ELSE "refused"

-----------------------------------------------------------------------------
(* deliverySubjects: the messages the broker offers under descriptor d. *)
Slots == {"note", "task"} \cup Threads

Shown(d, k) ==
    \/ k = "note" /\ d.note.id # 0 /\ d.owner = "agent" /\ d.note.run = d.run
    \/ /\ k = "task" /\ d.task.active
       /\ d.task.binding = d.binding /\ d.task.run = d.run
    \/ /\ k \in Threads
       /\ threads[k].question # 0 /\ ~threads[k].resolved
       /\ threads[k].recipient \in {Provider, d.binding}

Subject(k) == CASE k = "note" -> s.note.id
                [] k = "task" -> s.task.id
                [] OTHER -> threads[k].question
Status(k) == CASE k = "note" -> s.note.status
               [] k = "task" -> s.task.status
               [] OTHER -> threads[k].status
AttemptOf(k) == CASE k = "note" -> s.note.attempt
                  [] k = "task" -> s.task.attempt
                  [] OTHER -> threads[k].attempt
Recipient(k) == IF k \in Threads THEN threads[k].recipient ELSE s.binding

(* A consumer's binding is still the session's (delivery.go:183). *)
Current(d, r) == r \in {Provider, d.binding}

(* What subject.save writes for the slots of K, and for a claim by a of k. *)
SavedIn(d, K, status) ==
    [d EXCEPT !.note.status = IF "note" \in K THEN status ELSE @,
              !.task.status = IF "task" \in K THEN status ELSE @]

\* Mutant of SavedThreads: what was interrupted is offered again.
SavedThreadsReplay(K, status) ==
    [t \in Threads |->
        IF t \in K
        THEN [threads[t] EXCEPT
                !.status = IF status = "unknown" THEN "pending" ELSE status]
        ELSE threads[t]]

SavedThreads(K, status) ==
    [t \in Threads |-> IF t \in K THEN [threads[t] EXCEPT !.status = status]
                       ELSE threads[t]]
ClaimedIn(d, k, a) ==
    [SavedIn(d, {k}, "sending")
        EXCEPT !.note.attempt = IF k = "note" THEN a ELSE @,
               !.task.attempt = IF k = "task" THEN a ELSE @]
ClaimedThreads(k, a) ==
    [t \in Threads |->
        IF t = k THEN [threads[t] EXCEPT !.status = "sending", !.attempt = a,
                                         !.required = TRUE]
        ELSE threads[t]]

\* Mutant of Persist: a failed save is ignored.
PersistLazily(d) == s' = d /\ disk' \in {d, disk}

Persist(d) == s' = d /\ disk' = d

\* Mutant of Stale: a commit does not compare revisions.
StaleUnnoticed(w) == drafts[w]

(* CommitDiscussion bumps the revision: every snapshot read before is stale. *)
Stale(w) == IF drafts[w].state = "fresh"
            THEN [drafts[w] EXCEPT !.state = "stale"] ELSE drafts[w]
CommitDiscussion(T) ==
    /\ threads' = T
    /\ drafts' = [w \in Writers |-> Stale(w)]
CommitIf(changed, T) ==
    IF changed THEN CommitDiscussion(T) ELSE UNCHANGED <<threads, drafts>>

Cancelled(d) == [d EXCEPT !.task.active = FALSE]

(* What left: a claim carries its attempt, a legacy report of "sending" none. *)
Claimed(k, a) ==
    [slot |-> k, subject |-> Subject(k), attempt |-> a.id, copy |-> a.id,
     consumer |-> a.consumer, instance |-> a.instance, recipient |-> a.recipient]
Unclaimed(k, copy) ==
    [slot |-> k, subject |-> Subject(k), attempt |-> 0, copy |-> copy,
     consumer |-> Direct, instance |-> 0, recipient |-> Recipient(k)]

-----------------------------------------------------------------------------
(* Consumers: deliveryAction, and consumer-close of hostAction. *)

\* Mutant of Unfinished: the questions are forgotten.
UnfinishedDescriptor(d, c) ==
    {k \in {"note", "task"} :
        /\ Shown(d, k) /\ Status(k) = "sending"
        /\ AttemptOf(k) # NoAttempt /\ AttemptOf(k).consumer = c}

(* The sends of consumer c that nobody has reported on. *)
Unfinished(d, c) ==
    {k \in Slots : /\ Shown(d, k) /\ Status(k) = "sending"
                   /\ AttemptOf(k) # NoAttempt /\ AttemptOf(k).consumer = c}

Attached(c) == s.consumers[c].instance # 0

MayOpen(c, r) ==
    /\ up = "serving" /\ last.instance < MaxInstances
    /\ Current(s, r)
    /\ Attached(c) \/ Cardinality({x \in Consumers : Attached(x)}) < ConsumerLimit

(* delivery.go:140-178: the sends of the replaced instance become uncertain. *)
OpenConsumer(c, r) ==
    LET mine == Unfinished(s, c) IN
    /\ MayOpen(c, r)
    /\ last' = [last EXCEPT !.instance = @ + 1]
    /\ Persist([SavedIn(s, mine, "unknown") EXCEPT
            !.consumers[c] = [instance |-> last'.instance, recipient |-> r]])
    /\ CommitIf(mine \cap Threads # {}, SavedThreads(mine, "unknown"))
    /\ UNCHANGED <<up, faults, history>>

(* Subjects are saved in order, so a failed save leaves the ones before it. *)
Prefixes(K) ==
    {P \in SUBSET K : /\ "task" \in P => "note" \in P \/ "note" \notin K
                      /\ P \cap Threads # {} =>
                            K \cap {"note", "task"} \subseteq P}

SaveSome(d, P) ==
    /\ s' = SavedIn(d, P, "unknown")
    /\ disk' \in IF P \cap {"note", "task"} # {} THEN {s'}
                ELSE IF d # s THEN {disk, d} ELSE {disk}
    /\ CommitIf(P \cap Threads # {}, SavedThreads(P, "unknown"))

Fault == faults < MaxFaults /\ faults' = faults + 1

(* cancelTask ignores the error of its save. *)
Forget(d) == \/ Persist(d) /\ UNCHANGED faults
             \/ "fault" \in Events /\ Fault /\ s' = d /\ UNCHANGED disk

OpenConsumerPartly(c, r) ==
    /\ "fault" \in Events /\ MayOpen(c, r) /\ Fault
    /\ \E P \in Prefixes(Unfinished(s, c)) : SaveSome(s, P)
    /\ UNCHANGED <<up, last, history>>

MayUse(c) == /\ up = "serving" /\ Attached(c)
             /\ Current(s, s.consumers[c].recipient)

(* host.go:27-50. A task that this host was working on is cancelled first, *)
(* and is then no longer a subject. Which host works on it is external.    *)
CloseConsumer(c) ==
    \E hosted \in {FALSE, s.task.active} :
        LET d == IF hosted THEN Cancelled(s) ELSE s
            mine == {k \in Unfinished(d, c) :
                        AttemptOf(k).instance = s.consumers[c].instance} IN
        /\ "close" \in Events /\ MayUse(c)
        /\ \/ /\ Persist([SavedIn(d, mine, "unknown")
                            EXCEPT !.consumers[c] = Closed])
              /\ CommitIf(mine \cap Threads # {}, SavedThreads(mine, "unknown"))
              /\ UNCHANGED faults
           \/ /\ "fault" \in Events /\ Fault
              /\ \E P \in Prefixes(mine) : SaveSome(d, P)
        /\ UNCHANGED <<up, last, history>>

(* What consumer c could be given, under d, in the order of the code. *)
Candidates(d, c) ==
    {k \in Slots : /\ Shown(d, k) /\ Status(k) = "pending"
                   /\ Recipient(k) = s.consumers[c].recipient}
First(K) == {k \in K : /\ k = "task" => "note" \notin K
                       /\ k \in Threads => K \cap {"note", "task"} = {}}

(* consumer-next, delivery.go:193-229: the claim is saved, then the message  *)
(* leaves. A task whose lease or host has lapsed is cancelled and skipped.   *)
(* A save that fails changes nothing; the cursor belongs to the event stream.*)
NextDelivery(c) ==
    \E lapsed \in {FALSE, First(Candidates(s, c)) = {"task"}} :
        LET d == IF lapsed THEN Cancelled(s) ELSE s
            attempt == [id |-> last.copy + 1, consumer |-> c,
                        instance |-> s.consumers[c].instance,
                        recipient |-> s.consumers[c].recipient] IN
        /\ MayUse(c) /\ last.copy < MaxCopies
        /\ \E k \in First(Candidates(d, c)) :
              /\ last' = [last EXCEPT !.copy = @ + 1]
              /\ IF k \in Threads
                 THEN /\ CommitDiscussion(ClaimedThreads(k, attempt))
                      /\ IF lapsed THEN Forget(d) ELSE UNCHANGED <<s, disk, faults>>
                 ELSE Persist(ClaimedIn(d, k, attempt))
                      /\ UNCHANGED <<threads, drafts, faults>>
              /\ sent' = sent \cup {Claimed(k, attempt)}
              /\ due' = due \ {Subject(k)}
        /\ UNCHANGED <<up, reported>>

\* Mutant of Check: any attempt of the present instance will do.
CheckHost(a, id, c) ==
    /\ a # NoAttempt /\ a.consumer = c
    /\ a.instance = s.consumers[c].instance
    /\ a.recipient = s.consumers[c].recipient

(* Attempt.Check, with the caller's present instance. *)
Check(a, id, c) ==
    /\ a # NoAttempt /\ id = a.id /\ a.consumer = c
    /\ a.instance = s.consumers[c].instance
    /\ a.recipient = s.consumers[c].recipient

(* event-status of a consumer, delivery.go:230-258, for any message seen. *)
Receipt(c, e, status) ==
    LET k == e.slot
        next == Transition(Status(k), status) IN
    /\ MayUse(c)
    /\ Shown(s, k) /\ Subject(k) = e.subject
    /\ Check(AttemptOf(k), e.attempt, c)
    /\ status \notin {"answered", "sending"}
    /\ status = "thinking" => k \in Threads
    /\ next # "refused"
    /\ IF k \in Threads
       THEN CommitDiscussion(SavedThreads({k}, next)) /\ UNCHANGED <<s, disk>>
       ELSE Persist(SavedIn(s, {k}, next)) /\ UNCHANGED <<threads, drafts>>
    /\ reported' = reported \cup {<<e.attempt, status>>}
    /\ UNCHANGED <<up, last, faults, due, sent>>

-----------------------------------------------------------------------------
(* The handback: notifications.go and actions.go. *)

NewNote(d) == [id |-> last.subject + 1, status |-> "pending",
               attempt |-> NoAttempt, run |-> d.run]

(* emit("control_returned"); when it cannot be saved, nothing has changed. *)
EmitHandback(d) ==
    /\ last.subject < MaxSubjects
    /\ last' = [last EXCEPT !.subject = @ + 1]
    /\ Persist([d EXCEPT !.note = NewNote(d)])
    /\ due' = due \cup {last'.subject}
    /\ UNCHANGED <<up, threads, drafts, faults, sent, reported>>

Reclaim ==
    /\ up = "serving" /\ s.owner = "human"
    /\ EmitHandback([s EXCEPT !.owner = "agent"])

RetryNotification ==
    /\ up = "serving" /\ s.owner = "agent"
    /\ s.note.status \in {"failed", "unknown"}
    /\ EmitHandback(s)

Handover ==
    /\ up = "serving" /\ s.owner = "agent"
    /\ Persist([s EXCEPT !.owner = "human"])
    /\ UNCHANGED <<up, threads, drafts, last, faults, history>>

(* A listener without a consumer record claims by reporting "sending". *)
LegacySend(k, status) ==
    /\ status = "sending" => last.copy < MaxCopies
    /\ last' = IF status = "sending" THEN [last EXCEPT !.copy = @ + 1] ELSE last
    /\ sent' = IF status = "sending"
               THEN sent \cup {Unclaimed(k, last'.copy)}
               ELSE sent
    /\ due' = IF status = "sending" THEN due \ {Subject(k)} ELSE due

(* Attempt IDs a caller may know: those of messages that left, or none. *)
Known(k) == {0} \cup {e.attempt : e \in {x \in sent : x.slot = k}}
Proves(attempt, id) == attempt = NoAttempt \/ id = attempt.id

(* eventStatus, notifications.go:61-93. It does not look at the run. *)
EventStatus(id, status) ==
    LET n == s.note
        next == Transition(n.status, status) IN
    /\ up = "serving" /\ n.id # 0 /\ s.owner = "agent"
    /\ Proves(n.attempt, id)
    /\ \/ next = status
       \/ /\ next = "refused" /\ status = "acknowledged"
          /\ n.status = "pending" /\ n.attempt = NoAttempt
    /\ Persist([s EXCEPT !.note.status = status])
    /\ LegacySend("note", status)
    /\ reported' = reported \cup {<<id, status>>}
    /\ UNCHANGED <<up, threads, drafts, faults>>

-----------------------------------------------------------------------------
(* The task: coordination.go. The leases and the settled pause that these *)
(* handlers also require are external here.                               *)

StartTask(status) ==
    /\ up = "serving" /\ ~s.task.active /\ last.subject < MaxSubjects
    /\ last' = [last EXCEPT !.subject = @ + 1]
    /\ \/ /\ Persist([s EXCEPT !.task =
                [id |-> last'.subject, status |-> status, attempt |-> NoAttempt,
                 run |-> s.run, binding |-> s.binding, active |-> TRUE]])
          /\ UNCHANGED faults
       \/ /\ "fault" \in Events /\ Fault
          /\ s' = [s EXCEPT !.task = NoTask]
          /\ UNCHANGED disk
    /\ due' = IF status = "pending" THEN due \cup {last'.subject} ELSE due
    /\ UNCHANGED <<up, threads, drafts, sent, reported>>

(* What the agent starts is already in its conversation: never delivered. *)
TaskStart == StartTask("acknowledged")
TaskAuthorize == StartTask("pending")

TaskValid == up = "serving" /\ s.task.active /\ s.task.binding = s.binding

(* task-delivery, coordination.go:103-130. *)
TaskDelivery(id, status) ==
    /\ TaskValid
    /\ Proves(s.task.attempt, id)
    /\ Transition(s.task.status, status) = status
    /\ Persist([s EXCEPT !.task.status = status])
    /\ LegacySend("task", status)
    /\ reported' = reported \cup {<<id, status>>}
    /\ UNCHANGED <<up, threads, drafts, faults>>

TaskHeartbeat ==
    /\ TaskValid
    /\ Persist([s EXCEPT !.task.status = "acknowledged"])
    /\ UNCHANGED <<up, threads, drafts, last, faults, history>>

(* Completion, cancellation, a lapsed lease, an exit of the target. *)
TaskEnds ==
    /\ up = "serving" /\ s.task.active
    /\ Forget(Cancelled(s))
    /\ UNCHANGED <<up, threads, drafts, last, history>>

(* actions.go:136-154. The new binding stays when it cannot be saved. *)
Bind ==
    /\ up = "serving" /\ last.binding < MaxBindings
    /\ last' = [last EXCEPT !.binding = @ + 1]
    /\ Forget([Cancelled(s) EXCEPT !.binding = last'.binding, !.note = NoNote])
    /\ UNCHANGED <<up, threads, drafts, history>>

(* restartLocked replaces the run. *)
RunAgain ==
    /\ up = "serving" /\ s.run < MaxRuns
    /\ Persist([Cancelled(s) EXCEPT !.run = @ + 1])
    /\ UNCHANGED <<up, threads, drafts, last, faults, history>>

-----------------------------------------------------------------------------
(* The discussion: ApplyDiscussion on thread record T. A request names the *)
(* question, the recipient and the attempt that its author has seen.       *)

Request(action, q, id, status, key, r) ==
    [action |-> action, question |-> q, attempt |-> id, status |-> status,
     key |-> key, recipient |-> r]

Authentic(T, a) ==
    /\ T.question # 0 /\ ~T.resolved
    /\ T.question = a.question /\ T.recipient = a.recipient
    /\ IF T.attempt = NoAttempt THEN ~T.required /\ a.attempt = 0
       ELSE a.attempt = T.attempt.id

Posted(T, a) == [key |-> a.key, question |-> a.question] \in T.answers

\* Mutant of MayReply: only the same key is the same answer.
MayReplyAgain(T, a) ==
    Authentic(T, a) /\ (Posted(T, a) \/ \A m \in T.answers : m.key # a.key)

(* The same reply again is accepted and changes nothing. *)
MayReply(T, a) ==
    /\ Authentic(T, a)
    /\ \/ Posted(T, a)
       \/ T.status # "answered" /\ \A m \in T.answers : m.key # a.key

Applicable(T, a) ==
    CASE a.action = "create" -> T.question = 0
      [] a.action = "ask" ->
            T.question # 0 /\ (T.resolved \/ T.status = "answered")
      [] a.action = "claim" ->
            /\ T.question # 0 /\ T.question = a.question
            /\ ~T.resolved /\ T.status = "pending"
      [] a.action = "reply" -> MayReply(T, a)
      [] a.action = "delivery" ->
            /\ Authentic(T, a) /\ a.status # "answered"
            /\ Transition(T.status, a.status) # "refused"
      [] a.action = "answer-failed" -> Authentic(T, a)
      [] a.action = "retry" ->
            /\ T.question # 0 /\ ~T.resolved
            /\ \/ T.status \in {"unknown", "failed", "pending"}
               \/ T.recipient = Provider /\ T.status # "answered"
      [] OTHER -> T.question # 0

(* n is the identity of a new question, or of a new attempt. *)
ApplyDiscussion(T, a, n) ==
    CASE a.action \in {"create", "ask"} ->
            [T EXCEPT !.question = n, !.status = "pending",
                      !.recipient = a.recipient, !.attempt = NoAttempt,
                      !.required = FALSE, !.resolved = FALSE]
      [] a.action = "claim" ->
            [T EXCEPT !.status = "sending", !.required = TRUE,
                      !.attempt = [id |-> n, consumer |-> Direct, instance |-> 0,
                                   recipient |-> T.recipient]]
      [] a.action = "reply" ->
            IF Posted(T, a) THEN T
            ELSE [T EXCEPT !.status = "answered",
                           !.answers = @ \cup {[key |-> a.key,
                                                question |-> a.question]}]
      [] a.action = "delivery" ->
            [T EXCEPT !.status = Transition(@, a.status)]
      [] a.action = "answer-failed" ->
            [T EXCEPT !.status = IF @ = "answered" THEN @ ELSE "failed"]
      [] a.action = "resolve" -> [T EXCEPT !.resolved = TRUE]
      [] a.action = "reopen" -> [T EXCEPT !.resolved = FALSE]
      [] a.action = "retry" ->
            [T EXCEPT !.status = "pending", !.recipient = a.recipient,
                      !.attempt = NoAttempt,
                      !.required = @ \/ T.attempt # NoAttempt]

(* A claim, or a legacy report of "sending", lets the message leave. *)
Exposes(a) == \/ a.action = "claim"
              \/ a.action = "delivery" /\ a.status = "sending"
NewQuestion(a) == a.action \in {"create", "ask"}

Fresh(a) == IF NewQuestion(a) THEN last.subject + 1 ELSE last.copy + 1
Allocate(a) ==
    /\ NewQuestion(a) => last.subject < MaxSubjects
    /\ Exposes(a) => last.copy < MaxCopies
    /\ last' = [last EXCEPT !.subject = IF NewQuestion(a) THEN @ + 1 ELSE @,
                            !.copy = IF Exposes(a) THEN @ + 1 ELSE @]

DirectAttempt(t, n) == [id |-> n, consumer |-> Direct, instance |-> 0,
                        recipient |-> threads[t].recipient]

(* What a committed request means for the history variables. *)
Effect(t, a, n) ==
    [asked |-> IF NewQuestion(a) THEN {n}
               ELSE IF a.action = "retry" THEN {threads[t].question} ELSE {},
     exposed |-> IF Exposes(a)
                 THEN {IF a.action = "claim" THEN Claimed(t, DirectAttempt(t, n))
                       ELSE Unclaimed(t, n)}
                 ELSE {},
     said |-> IF a.action \in {"reply", "delivery", "answer-failed"}
              THEN {<<a.attempt, CASE a.action = "reply" -> "answered"
                                   [] a.action = "delivery" -> a.status
                                   [] OTHER -> "failed">>}
              ELSE {}]
Record(f) ==
    /\ due' = (due \cup f.asked) \ {e.subject : e \in f.exposed}
    /\ sent' = sent \cup f.exposed
    /\ reported' = reported \cup f.said

(* Requests about thread t that somebody could make. *)
RequestsAbout(t, recipients) ==
    LET q == threads[t].question
        seen == {<<q, 0, threads[t].recipient>>} \cup
                {<<e.subject, e.attempt, e.recipient>> :
                    e \in {x \in sent : x.slot = t}} IN
    {a \in UNION {
        {Request(x, q, 0, "none", Direct, Provider) :
            x \in {"claim", "resolve", "reopen"}},
        {Request(x, q, 0, "none", Direct, r) :
            x \in {"create", "ask", "retry"}, r \in recipients},
        {Request("reply", c[1], c[2], "none", k, c[3]) : c \in seen, k \in Keys},
        {Request("delivery", c[1], c[2], x, Direct, c[3]) :
            c \in seen, x \in Receipts},
        {Request("answer-failed", c[1], c[2], "none", Direct, c[3]) : c \in seen}
     } : a.action \in Events}

(* commentsLocked. The default recipient of a follow-up is the one before,   *)
(* that of a retry the present binding. A commit that meets another writer's *)
(* is refused and changes nothing.                                           *)
LiveComment(t) ==
    \E a \in RequestsAbout(t, {Provider, s.binding, threads[t].recipient}) :
        LET T == threads[t] IN
        /\ up = "serving"
        /\ a.action \in {"create", "retry"} => Current(s, a.recipient)
        /\ a.action \in {"reply", "delivery", "answer-failed"} =>
              Current(s, T.recipient)
        /\ Applicable(T, a)
        /\ Allocate(a)
        /\ CommitDiscussion([threads EXCEPT ![t] = ApplyDiscussion(T, a, Fresh(a))])
        /\ Record(Effect(t, a, Fresh(a)))
        /\ UNCHANGED <<s, disk, up, faults>>

(* MutateDiscussion: read and apply, without the lock; then compare and swap. *)
OfflineRead(w, t) ==
    \E a \in RequestsAbout(t, {Provider, threads[t].recipient}) :
        LET T == threads[t] IN
        /\ a.action # "create" /\ drafts[w].state = "idle"
        /\ Applicable(T, a)
        /\ Allocate(a)
        /\ drafts' = [drafts EXCEPT ![w] =
              [state |-> "fresh",
               threads |-> [threads EXCEPT ![t] = ApplyDiscussion(T, a, Fresh(a))],
               effect |-> Effect(t, a, Fresh(a))]]
        /\ UNCHANGED <<s, disk, up, threads, faults, history>>

OfflineCommit(w) ==
    /\ drafts[w].state = "fresh"
    /\ threads' = drafts[w].threads
    /\ drafts' = [x \in Writers |-> IF x = w THEN Idle ELSE Stale(x)]
    /\ Record(drafts[w].effect)
    /\ UNCHANGED <<s, disk, up, last, faults>>

(* A conflict: the writer reads again, or gives up. *)
OfflineConflict(w) ==
    /\ drafts[w].state = "stale"
    /\ drafts' = [drafts EXCEPT ![w] = Idle]
    /\ UNCHANGED <<s, disk, up, threads, last, faults, history>>

-----------------------------------------------------------------------------
(* The broker stops, deliberately (which saves) or not, and is recovered:   *)
(* lifecycle.go. Requests are served only after both documents are written, *)
(* and it may stop between the two.                                         *)

BrokerStops ==
    /\ "crash" \in Events
    /\ up # "down" /\ Fault
    /\ up' = "down"
    /\ disk' \in {disk, s}
    /\ UNCHANGED <<s, threads, drafts, last, history>>

\* Mutants of Recovered: an interrupted send is offered again; it gets a
\* status that the table of transitions does not know.
RecoveredReplay(d) ==
    [Cancelled(d) EXCEPT !.note.status = IF @ = "sending" THEN "pending" ELSE @]

RecoveredInterrupted(d) ==
    [Cancelled(d) EXCEPT
        !.note.status = IF @ \in {"pending", "sending"} THEN "interrupted" ELSE @]

Recovered(d) ==
    [Cancelled(d) EXCEPT
        !.note.status = IF @ \in {"pending", "sending"} THEN "unknown" ELSE @]

RecoverDescriptor ==
    /\ up = "down"
    /\ Persist(Recovered(disk))
    /\ up' = "recovering"
    /\ UNCHANGED <<threads, drafts, last, faults, history>>

RecoverDiscussion ==
    LET cut == {t \in Threads : threads[t].status = "sending"} IN
    /\ up = "recovering"
    /\ CommitIf(cut # {}, SavedThreads(cut, "unknown"))
    /\ up' = "serving"
    /\ UNCHANGED <<s, disk, last, faults, history>>

-----------------------------------------------------------------------------
Init ==
    /\ s = [binding |-> 1, owner |-> "human", run |-> 1, note |-> NoNote,
            task |-> NoTask, consumers |-> [c \in Consumers |-> Closed]]
    /\ disk = s
    /\ up = "serving"
    /\ threads = [t \in Threads |-> NoThread]
    /\ drafts = [w \in Writers |-> Idle]
    /\ last = [subject |-> 0, copy |-> 0, instance |-> 0, binding |-> 1]
    /\ faults = 0
    /\ due = {} /\ sent = {} /\ reported = {}

Consume ==
    \E c \in Consumers :
        \/ \E r \in {Provider, s.binding} :
              OpenConsumer(c, r) \/ OpenConsumerPartly(c, r)
        \/ CloseConsumer(c)
        \/ NextDelivery(c)
        \/ \E e \in sent, status \in Receipts : Receipt(c, e, status)

Handback ==
    \/ "reclaim" \in Events /\ (Reclaim \/ Handover)
    \/ RetryNotification
    \/ /\ "legacy" \in Events
       /\ \E id \in Known("note"), status \in Receipts : EventStatus(id, status)

Scope ==
    \/ "task" \in Events /\ (TaskStart \/ TaskAuthorize \/ TaskHeartbeat)
    \/ TaskEnds
    \/ /\ "legacy" \in Events
       /\ \E id \in Known("task"), status \in Receipts : TaskDelivery(id, status)

Discuss ==
    \/ \E t \in Threads : LiveComment(t)
    \/ \E w \in Writers : \/ \E t \in Threads : OfflineRead(w, t)
                          \/ OfflineCommit(w) \/ OfflineConflict(w)

Next ==
    \/ Consume \/ Handback \/ Scope \/ Discuss
    \/ Bind \/ RunAgain
    \/ BrokerStops \/ RecoverDescriptor \/ RecoverDiscussion

Spec == Init /\ [][Next]_vars

-----------------------------------------------------------------------------
(* Properties *)

(* Every variable has the shape the code gives it.                         *)
Numbers == [subject : Nat, copy : Nat, instance : Nat, binding : Nat]
Effects == [asked : SUBSET Nat, exposed : SUBSET Envelopes,
            said : SUBSET (Nat \X Statuses)]
Drafts == {Idle} \cup [state : {"fresh", "stale"},
                       threads : [Threads -> ThreadRecords], effect : Effects]
TypeOK ==
    /\ s \in Descriptors /\ disk \in Descriptors
    /\ up \in {"serving", "down", "recovering"}
    /\ threads \in [Threads -> ThreadRecords]
    /\ drafts \in [Writers -> Drafts]
    /\ last \in Numbers /\ faults \in Nat
    /\ due \subseteq Nat /\ sent \subseteq Envelopes
    /\ reported \subseteq Nat \X Statuses

(* A message leaves only if somebody asked for it, or asked again, after it  *)
(* left the last time: whichever host claims it, through whichever of the    *)
(* managed, direct and legacy ways, across crashes and concurrent writers.   *)
ExposureWasAsked == [][\A e \in sent' \ sent : e.subject \in due]_vars

(* When a message has left, the disk no longer says that it is pending: a    *)
(* broker that starts from what is saved cannot take it for one to deliver   *)
(* ("Persist a claim before sending").                                       *)
ClaimIsDurable ==
    \A e \in sent :
        /\ e.slot = "note" /\ disk.note.id = e.subject => disk.note.status # "pending"
        /\ e.slot = "task" /\ disk.task.id = e.subject => disk.task.status # "pending"

(* A question has at most one answer, although several holders of the same   *)
(* attempt, live and offline, may reply at once under different keys.        *)
OneAnswer ==
    \A t \in Threads : \A m, n \in threads[t].answers :
        m.question = n.question => m = n

(* A posted answer is never erased by a writer with an older snapshot, and   *)
(* an answered question stays answered until another one is asked.           *)
AnswersKept ==
    [][\A t \in Threads :
        /\ threads[t].answers \subseteq threads'[t].answers
        /\ threads[t].status = "answered" /\ threads'[t].question = threads[t].question
             => threads'[t].status = "answered"]_vars

(* What the recipient has acknowledged under an attempt is not taken back by *)
(* a late receipt, an interruption or a recovery; only a failure to answer,  *)
(* reported under the same attempt, ends it.                                 *)
AcknowledgementKept ==
    [][\A k \in Slots :
        AttemptOf(k) # NoAttempt /\ AttemptOf(k)' = AttemptOf(k)
        /\ Status(k) \in Acknowledged
          => Status(k)' \in Acknowledged \cup {"failed"}]_vars

(* What is shown of a claimed message was said by a holder of that very      *)
(* attempt: a receipt for an attempt that was retried, or of a host that was *)
(* replaced, never reaches a newer one.                                      *)
StatusBelongsToAttempt ==
    \A k \in Slots :
        AttemptOf(k) # NoAttempt
        /\ Status(k) \in {"queued", "failed", "thinking", "answered"}
          => <<AttemptOf(k).id, Status(k)>> \in reported

(* While the broker serves, a message shown as being sent is being sent by   *)
(* the present instance of a consumer: replacing or closing a host, a new    *)
(* binding, an interrupted save and a crash leave none behind. (Reopening a  *)
(* resolved thread may: see InterruptedSendCanBeRetried.)                    *)
SendingHasHost ==
    up = "serving" =>
        \A k \in Slots :
            Shown(s, k) /\ Status(k) = "sending" /\ AttemptOf(k).consumer \in Consumers
              => s.consumers[AttemptOf(k).consumer].instance = AttemptOf(k).instance

(* An open question whose sender can no longer report, because its binding   *)
(* or its instance is gone, is shown as uncertain and can be retried.        *)
InterruptedSendCanBeRetried ==
    up = "serving" =>
        \A t \in Threads :
            LET T == threads[t] IN
            ~T.resolved /\ T.status = "sending" /\ T.recipient # Provider
            /\ T.attempt.consumer \in Consumers
              => /\ T.recipient = s.binding
                 /\ s.consumers[T.attempt.consumer].instance = T.attempt.instance

(* The discussion implements what a question promises.                       *)
PhaseOf(status) ==
    CASE status = "pending" -> "waiting"
      [] status \in {"sending", "queued"} -> "away"
      [] status \in {"unknown", "failed"} -> "uncertain"
      [] status \in {"thinking", "acknowledged"} -> "heard"
      [] OTHER -> status

Asked == INSTANCE Question WITH
    question <- [t \in Threads |-> threads[t].question],
    phase <- [t \in Threads |-> PhaseOf(threads[t].status)],
    resolved <- [t \in Threads |-> threads[t].resolved],
    recipient <- [t \in Threads |-> threads[t].recipient]

ImplementsQuestion == Asked!Spec
=============================================================================
