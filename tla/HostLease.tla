---------------------------- MODULE HostLease -----------------------------
(***************************************************************************)
(* The authority of an agent's task: its lease, and the proofs that the    *)
(* conversation turn it belongs to is alive (broker/host.go, coordination. *)
(* go, cli/managed_events.go, cli/tasks.go).                               *)
(*                                                                         *)
(* The agent's host (external: an editor's or a terminal's agent) tells    *)
(* the managed client, over a pipe, which turn is active. The client       *)
(* forwards these facts to the broker one at a time, but a request it has  *)
(* given up may still be served later. The broker answers a challenge for  *)
(* each proof. Deliveries to the consumer are in the module Delivery.      *)
(*                                                                         *)
(* Time passes in steps of about 15 seconds, and a deadline is kept as the *)
(* number of steps left. Zero is a deadline that has passed.               *)
(***************************************************************************)
EXTENDS Naturals, Sequences

CONSTANTS
    ProofTTL,       \* hostProofTTL: 30 s
    ChallengeTTL,   \* hostChallengeTTL: 20 s
    TaskLease,      \* taskLease: 60 s
    RenewAfter,     \* a lease is renewed when it has grown older than this: 15 s
    MaxTurns, MaxInstances, MaxFacts, MaxChallenges, MaxPipe,   \* bounds
    MaxLeaseFaults

LeaseAssumption ==
    /\ ProofTTL \in Nat \ {0} /\ ChallengeTTL \in Nat \ {0}
    /\ TaskLease \in Nat \ {0} /\ RenewAfter \in 0 .. TaskLease
    /\ MaxTurns \in Nat /\ MaxInstances \in Nat /\ MaxFacts \in Nat
    /\ MaxChallenges \in Nat /\ MaxPipe \in Nat /\ MaxLeaseFaults \in Nat
ASSUME LeaseAssumption

VARIABLES
    agent,          \* the host: its turn, its instance and sequence, a challenge to answer
    turns,          \* turns started so far
    client,         \* the managed client: the instance it opened, 0 when it is gone
    pipe,           \* host facts the client has not read
    late,           \* facts whose request the client has given up
    consumer,       \* b.s.Consumers[id]
    instances, challenges,      \* identities issued so far
    scope,          \* b.s.Task
    still,          \* the target is paused, nothing is being interrupted
    listening,      \* the agent's last event stream has not been closed for over 5 s
    ended,          \* history: turns the broker has been told are over
    leaseFaults     \* failed writes and interruptions, crashes

leaseVars == <<agent, turns, client, pipe, late, consumer, instances, challenges,
               scope, still, listening, ended, leaseFaults>>

NoHost == [turn |-> 0, state |-> "none", seq |-> 0, left |-> 0]
NoConsumer == [instance |-> 0, host |-> NoHost, challenge |-> 0, left |-> 0]
NoTask == [status |-> "none", turn |-> 0, instance |-> 0, left |-> 0, acked |-> FALSE]

LeaseInit ==
    /\ agent = [turn |-> 0, instance |-> 0, seq |-> 0, asked |-> 0]
    /\ turns = 0 /\ client = 0 /\ pipe = <<>> /\ late = {}
    /\ consumer = NoConsumer /\ instances = 0 /\ challenges = 0
    /\ scope = NoTask /\ still = TRUE /\ listening = TRUE
    /\ ended = {} /\ leaseFaults = 0

LeaseFault(happens) ==
    /\ happens => leaseFaults < MaxLeaseFaults
    /\ leaseFaults' = IF happens THEN leaseFaults + 1 ELSE leaseFaults

hostSide == <<agent, turns, client, pipe, late>>
identities == <<instances, challenges>>

-----------------------------------------------------------------------------
(* Validity. *)

ActiveTask(t) == t.status \in {"authorized", "active"}

\* hostTaskValid. The consumer of the task's instance is gone when another is open.
HostTaskValid(t, c) ==
    t.instance # 0 =>
        /\ c.instance = t.instance
        /\ c.host.state = "active" /\ c.host.turn = t.turn
        /\ c.host.left > 0

TaskValid(t, c) == ActiveTask(t) /\ HostTaskValid(t, c) /\ t.left > 0

\* cancelTask. A notification that cannot be saved is not retried.
Cancelled(t) == IF ActiveTask(t) THEN [t EXCEPT !.status = "cancelled"] ELSE t

Owned(t, c) == ActiveTask(t) /\ t.instance # 0 /\ t.instance = c.instance

-----------------------------------------------------------------------------
(* The host and the managed client. *)

AgentFact(state, turn, challenge) ==
    [instance |-> agent.instance, seq |-> agent.seq + 1, turn |-> turn,
     state |-> state, challenge |-> challenge]

Speak(f) == /\ Len(pipe) < MaxPipe /\ agent.seq < MaxFacts
            /\ pipe' = Append(pipe, f)

\* The client asks for a challenge: it has just connected, 15 seconds have passed, or
\* the host wants to prove its turn. It shows the challenge to the host. A broker that
\* cannot save it ends the client.
Challenge ==
    /\ client # 0 /\ client = consumer.instance /\ agent.asked = 0
    /\ challenges < MaxChallenges
    /\ challenges' = challenges + 1
    /\ consumer' = [consumer EXCEPT !.challenge = challenges + 1, !.left = ChallengeTTL]
    /\ agent' = [agent EXCEPT !.asked = challenges + 1]
    /\ UNCHANGED <<turns, client, pipe, late, instances, scope, still, listening, ended,
                   leaseFaults>>

TurnStarts ==
    /\ agent.turn = 0 /\ turns < MaxTurns
    /\ turns' = turns + 1
    /\ agent' = [agent EXCEPT !.turn = turns + 1]
    /\ UNCHANGED <<client, pipe, late, consumer, identities, scope, still, listening,
                   ended, leaseFaults>>

TurnEnds ==
    /\ agent.turn # 0
    /\ IF agent.instance = 0
       THEN /\ agent' = [agent EXCEPT !.turn = 0]
            /\ UNCHANGED pipe
       ELSE /\ Speak(AgentFact("idle", agent.turn, 0))
            /\ agent' = [agent EXCEPT !.turn = 0, !.seq = @ + 1]
    /\ UNCHANGED <<turns, client, late, consumer, identities, scope, still, listening,
                   ended, leaseFaults>>

\* The host answers a challenge with its present turn.
Prove ==
    /\ agent.asked # 0
    /\ Speak(AgentFact(IF agent.turn = 0 THEN "idle" ELSE "active", agent.turn, agent.asked))
    /\ agent' = [agent EXCEPT !.asked = 0, !.seq = @ + 1]
    /\ UNCHANGED <<turns, client, late, consumer, identities, scope, still, listening,
                   ended, leaseFaults>>

\* consumer-open: every connection is a new instance, of which nothing is proved. The
\* host learns of it when it reads the client's next frame.
Open ==
    /\ instances < MaxInstances
    /\ instances' = instances + 1
    /\ client' = instances + 1
    /\ consumer' = [NoConsumer EXCEPT !.instance = instances + 1]
    /\ UNCHANGED <<agent, turns, pipe, late, challenges, scope, still, listening, ended,
                   leaseFaults>>

Ready ==
    /\ client # 0 /\ agent.instance # client
    /\ agent' = [agent EXCEPT !.instance = client, !.seq = 0, !.asked = 0]
    /\ UNCHANGED <<turns, client, pipe, late, consumer, identities, scope, still,
                   listening, ended, leaseFaults>>

\* The process is killed.
ClientDies ==
    /\ client # 0
    /\ client' = 0 /\ pipe' = <<>>
    /\ agent' = [agent EXCEPT !.instance = 0, !.asked = 0]
    /\ UNCHANGED <<turns, late, consumer, identities, scope, still, listening, ended,
                   leaseFaults>>

-----------------------------------------------------------------------------
(* hostAction. An interruption of a running target is begun by every          *)
(* cancellation; the target stops later.                                     *)

\* MUTANT of Current: facts of the instance are taken in any order.
CurrentAnyOrder(c, f) == f.instance = c.instance

\* The fact that c has now, once f is taken. A proof keeps its deadline for as long as
\* the turn stays active; only a challenge extends it.
Accepted(c, f) ==
    [turn |-> f.turn, state |-> f.state, seq |-> f.seq,
     left |-> IF f.challenge # 0 /\ f.state = "active" THEN ProofTTL
              ELSE IF c.host.state = "active" /\ f.state = "active" /\ c.host.turn = f.turn
              THEN c.host.left ELSE 0]

Current(c, f) == f.instance = c.instance /\ f.seq > c.host.seq
Answered(c, f) == f.challenge # 0 => (f.challenge = c.challenge /\ c.left > 0)

\* What a task owned by the instance becomes when its fact is known.
Settled(t, f) ==
    IF f.state = "active" /\ f.turn = t.turn THEN t
    ELSE IF f.state = "idle" /\ f.turn = t.turn /\ still
    THEN [t EXCEPT !.status = "completed"]
    ELSE Cancelled(t)

\* MUTANT of Fenced: an expired scope is left to the maintenance timer.
Unfenced(t, c) == t

\* The scope that has expired is fenced before the fact could revive it.
Fenced(t, c) == IF Owned(t, c) /\ ~HostTaskValid(t, c) THEN Cancelled(t) ELSE t

\* The fact is refused when the challenge is another or too old, and when the target
\* cannot be interrupted or the record cannot be saved. A completion that cannot be
\* saved leaves the task as it was.
Take(f) ==
    LET fenced == Fenced(scope, consumer)
        settled == IF Owned(fenced, consumer) THEN Settled(fenced, f) ELSE fenced
    IN  \/ /\ LeaseFault(Answered(consumer, f))
           /\ scope' = fenced
           /\ UNCHANGED <<consumer, ended>>
        \/ /\ Answered(consumer, f)
           /\ consumer' = [consumer EXCEPT !.host = Accepted(consumer, f),
                              !.challenge = IF f.challenge = 0 THEN @ ELSE 0,
                              !.left = IF f.challenge = 0 THEN @ ELSE 0]
           /\ ended' = IF f.state = "active" THEN ended ELSE ended \union {f.turn}
           /\ \E unsaved \in {FALSE, settled.status = "completed" /\ ActiveTask(fenced)} :
                 /\ LeaseFault(unsaved)
                 /\ scope' = IF unsaved THEN fenced ELSE settled

\* consumer-fact. It is refused when another instance or a later fact is known, and has
\* no effect when the write of the record fails.
Fact(f) ==
    IF Current(consumer, f) THEN Take(f)
    ELSE UNCHANGED <<consumer, scope, ended, leaseFaults>>

\* consumer-close. When the target cannot be interrupted, or the record cannot be
\* saved, the consumer stays; the task is cancelled all the same.
Close(fails) ==
    IF client # consumer.instance THEN ~fails /\ UNCHANGED <<consumer, scope>>
    ELSE /\ scope' = IF Owned(scope, consumer) THEN Cancelled(scope) ELSE scope
         /\ consumer' = IF fails THEN consumer ELSE NoConsumer

\* The client reads a fact from the host and asks the broker to take it. It may give
\* the request up without knowing whether it was served.
Forward ==
    /\ client # 0 /\ pipe # <<>> /\ Head(pipe).instance = client
    /\ pipe' = Tail(pipe)
    /\ \/ Fact(Head(pipe)) /\ UNCHANGED late
       \/ /\ late' = late \union {Head(pipe)}
          /\ UNCHANGED <<consumer, scope, ended, leaseFaults>>
    /\ UNCHANGED <<agent, turns, client, identities, still, listening>>

Arrive ==
    \E f \in late :
       /\ late' = late \ {f}
       /\ Fact(f)
       /\ UNCHANGED <<agent, turns, client, pipe, identities, still, listening>>

\* The host closes the pipe, or a fact is of an earlier instance: the client closes
\* its consumer and ends.
Leave ==
    /\ client # 0
    /\ \E fails \in BOOLEAN : LeaseFault(fails) /\ Close(fails)
    /\ client' = 0 /\ pipe' = <<>>
    /\ agent' = [agent EXCEPT !.instance = 0, !.asked = 0]
    /\ UNCHANGED <<turns, late, identities, still, listening, ended>>

-----------------------------------------------------------------------------
(* The task. *)

\* task-start by the agent, task-authorize by the human; at a settled pause.
Grant ==
    /\ ~ActiveTask(scope) /\ still
    /\ \E started \in BOOLEAN :
          scope' = [NoTask EXCEPT !.status = "authorized", !.left = TaskLease,
                       !.acked = started]
    /\ UNCHANGED <<hostSide, consumer, identities, still, listening, ended, leaseFaults>>

\* associateHost: the turn the caller names, which it may have read long ago.
Associable(t, c, instance, turn) ==
    /\ c.instance = instance /\ c.host.turn = turn /\ c.host.state = "active"
    /\ HostTaskValid([t EXCEPT !.instance = instance, !.turn = turn], c)
    /\ t.instance # 0 => (t.instance = instance /\ t.turn = turn)

\* Any request for a task whose scope is no longer valid cancels it.
Refuse ==
    /\ ActiveTask(scope) /\ ~TaskValid(scope, consumer)
    /\ scope' = Cancelled(scope)
    /\ UNCHANGED <<hostSide, consumer, identities, still, listening, ended, leaseFaults>>

Renewed(t) == [t EXCEPT !.left = TaskLease, !.acked = TRUE]

\* task-heartbeat, of a bounded operation of the command line, or of the host that
\* claims the task for its turn.
Heartbeat ==
    /\ TaskValid(scope, consumer)
    /\ \/ scope' = Renewed(scope)
       \/ \E i \in 1 .. instances, n \in 1 .. turns :
             /\ Associable(scope, consumer, i, n)
             /\ scope' = Renewed([scope EXCEPT !.instance = i, !.turn = n])
    /\ UNCHANGED <<hostSide, consumer, identities, still, listening, ended, leaseFaults>>

\* A movement of the agent.
Move ==
    /\ TaskValid(scope, consumer) /\ still
    /\ scope' = [scope EXCEPT !.status = "active", !.left = TaskLease]
    /\ still' = FALSE
    /\ UNCHANGED <<hostSide, consumer, identities, listening, ended, leaseFaults>>

\* The target stops, the interruption is over.
TargetRests ==
    /\ ~still /\ still' = TRUE
    /\ UNCHANGED <<hostSide, consumer, identities, scope, listening, ended, leaseFaults>>

Complete ==
    /\ TaskValid(scope, consumer) /\ still
    /\ scope' = [scope EXCEPT !.status = "completed"]
    /\ UNCHANGED <<hostSide, consumer, identities, still, listening, ended, leaseFaults>>

\* task-cancel by the human, or by an agent whose operation failed.
Cancel ==
    /\ ActiveTask(scope)
    /\ scope' = Cancelled(scope)
    /\ UNCHANGED <<hostSide, consumer, identities, still, listening, ended, leaseFaults>>

\* maintainTask, every second. The lease of a task with a proved host is renewed
\* without its asking.
Maintain ==
    LET lost == ~HostTaskValid(scope, consumer)
        alone == scope.instance = 0 /\ ~listening
    IN  /\ ActiveTask(scope)
        /\ IF scope.left = 0 \/ alone \/ lost
           THEN scope' = Cancelled(scope)
           ELSE /\ scope.instance # 0 /\ scope.acked
                /\ TaskLease - scope.left > RenewAfter
                /\ scope' = [scope EXCEPT !.left = TaskLease]
        /\ UNCHANGED <<hostSide, consumer, identities, still, listening, ended, leaseFaults>>

\* The agent's event streams have been closed for some time, or one is opened.
StreamsChange ==
    /\ listening' = ~listening
    /\ UNCHANGED <<hostSide, consumer, identities, scope, still, ended, leaseFaults>>

Less(n) == IF n = 0 THEN 0 ELSE n - 1

Tick ==
    /\ consumer' = [consumer EXCEPT !.left = Less(@), !.host.left = Less(@)]
    /\ scope' = [scope EXCEPT !.left = Less(@)]
    /\ <<consumer', scope'>> # <<consumer, scope>>
    /\ UNCHANGED <<hostSide, identities, still, listening, ended, leaseFaults>>

\* The broker dies and is recovered. A persisted fact proves nothing.
RecoverLease ==
    /\ LeaseFault(TRUE)
    /\ consumer' = [consumer EXCEPT !.host = NoHost, !.challenge = 0, !.left = 0]
    /\ scope' = Cancelled(scope)
    /\ still' = TRUE /\ listening' = TRUE
    /\ UNCHANGED <<hostSide, identities, ended>>

-----------------------------------------------------------------------------
HostNext == TurnStarts \/ TurnEnds \/ Prove \/ Ready
ClientNext == Open \/ Challenge \/ Forward \/ Arrive \/ Leave \/ ClientDies
TaskNext == \/ Grant \/ Refuse \/ Heartbeat \/ Move \/ TargetRests \/ Complete \/ Cancel
            \/ Maintain \/ StreamsChange \/ Tick \/ RecoverLease

LeaseNext == HostNext \/ ClientNext \/ TaskNext
LeaseSpec == LeaseInit /\ [][LeaseNext]_leaseVars

-----------------------------------------------------------------------------
(* Correctness. *)

\* A turn the broker has been told is over counts as alive no more, whatever was
\* delayed on the way: no task can be claimed for it (host.go:60, host.go:75).
EndedTurnsStayEnded ==
    consumer.host.state = "active" /\ consumer.host.left > 0
        => consumer.host.turn \notin ended

\* A scope that was not proved for a moment is lost for good: no step makes a task
\* that is still active valid again (host.go:63, coordination.go:36).
ScopeNeverRevived ==
    [][ActiveTask(scope) /\ ~HostTaskValid(scope, consumer)
          => ~(ActiveTask(scope') /\ HostTaskValid(scope', consumer'))]_leaseVars
=============================================================================
