----------------------------- MODULE Execution -----------------------------
(***************************************************************************)
(* Execution control in the broker: who may move the target, how a         *)
(* movement is dispatched to Delve, how an interruption fences every later *)
(* movement, and how a tracepoint capture resumes the target by itself.    *)
(*                                                                         *)
(* Every handler of the broker runs under one mutex, so a handler is one   *)
(* action.  What interleaves is everything that happens without the mutex: *)
(*   - the goroutine that waits for the response to a dispatch (Settle);   *)
(*   - the worker of an interruption, which asks Delve to pause (Worker);  *)
(*   - the goroutine that inspects a tracepoint hit (Capture);             *)
(*   - the reader of the adapter's events, which updates Delve.State()     *)
(*     ahead of the broker (ReadEvent), and the broker's own consumption   *)
(*     of those events (WatchEvent);                                       *)
(*   - the adapter and the target themselves (Adapter, Target).          *)
(*                                                                         *)
(* A generation carried by a request is either current or stale; a stale   *)
(* request is refused, and only its effects that survive the refusal are   *)
(* actions here.  Command identities belong to another module.             *)
(***************************************************************************)
EXTENDS Integers, Sequences, FiniteSets

CONSTANTS
  MaxRequests,     \* bound: requests of the human, the editor and the agent
  MaxRuns,         \* bound: targets started by this broker
  MaxPauses,       \* bound: pause requests an interruption leaves unread
  MaxDispatches,   \* bound: no tracepoint is hit after this many dispatches
  CaptureSlots,    \* captures in flight at once (8 in the code)
  Happens          \* which of the Optional events a configuration explores

\* An editor is connected; an agent works; other edits move the generation; the
\* agent is replaced; the target is stopped, or restarted; the broker is told to
\* quit; a response is late; an interruption reaches its thirty seconds; the
\* adapter connection is lost; a descriptor cannot be saved.
Optional == {"editor", "agent", "touch", "bind", "stop", "restart", "quit",
             "late", "deadline", "link", "unsaved"}

ASSUME ExecutionAssumption ==
  /\ MaxRequests \in Nat
  /\ MaxRuns \in Nat \ {0}
  /\ MaxPauses \in Nat \ {0}
  /\ MaxDispatches \in Nat
  /\ CaptureSlots \in Nat
  /\ Happens \subseteq Optional

VARIABLES
  run,              \* b.backend, numbered: every restart opens a new one
  stopped, closing, \* s.Stopped and b.closing
  moving, interrupting, handleEpoch, generation,
  executionIntent, executionMode, executionActor, executionTask,
                    \* "none" is the empty string of the code
  dispatchSequence,
  pending,          \* pendingExecution: dispatches without a settled response
  workers,          \* interruption goroutines that have not returned
  task, leaseOpen,  \* s.Task, and whether its lease and host proof hold
  binding,          \* s.Binding.Revision
  captures,         \* capture goroutines that have not returned
  dap, dapEpoch,    \* Delve.state (Running, exited) and Delve.epoch
  wire, events,     \* client.Events and Delve.Events, both FIFO
  connected,        \* the adapter connection
  inbox, replies,   \* requests the adapter has not read, responses it wrote
  target,           \* what the program really does
  hold,             \* history: a human interrupted, and no movement was asked
                    \*   for ("held") or none was dispatched ("asked") since
  early,            \* history: a movement overtook the entry stop
  gaveUp,           \* history: an interruption passed its deadline
  requests          \* bound counter

ended  == <<stopped, closing>>
intent == <<executionIntent, executionMode, executionActor, executionTask>>
fence  == <<interrupting, handleEpoch, workers>>
scope  == <<task, leaseOpen, binding>>
client == <<dap, dapEpoch, wire, events, connected>>
world  == <<inbox, replies, target>>
vars   == <<run, ended, moving, fence, generation, intent, dispatchSequence,
            pending, scope, captures, client, world, hold, early, gaveUp,
            requests>>

Verbs     == {"continue", "next"}
Stops     == {"entry", "pause", "breakpoint", "tracepoint"}
EventKind == Stops \cup {"continued", "exited"}
NoTask    == [id |-> 0, status |-> "none", binding |-> 0]
Pause     == [kind |-> "pause", id |-> 0]
Move(id)  == [kind |-> "move", id |-> id]

----------------------------------------------------------------------------
(* Predicates of the handlers.                                             *)

Accepting == ~stopped /\ ~closing

ActiveTask == task.status \in {"authorized", "active"}

\* taskMatches and the lease part of taskValid.
TaskMatches == ActiveTask /\ task.binding = binding
TaskValid   == TaskMatches /\ leaseOpen
TaskLapsed  == TaskMatches /\ ~leaseOpen

\* stateStatus.
Status == IF dap = "exited" THEN "exited"
          ELSE IF dap = "running" \/ moving THEN "running" ELSE "paused"

PendingFor(P) == \E p \in P : p.run = run

\* Mutant of Settled: Delve's own state is taken for the truth.
SettledByDelve(P)  == dap # "running" /\ ~PendingFor(P)

\* What interruptDAP and its worker wait for.
Settled(P) == ~moving /\ dap # "running" /\ ~PendingFor(P)

\* The "moving" that humanIntent computes.
Executing == moving \/ interrupting \/ dap = "running" \/ PendingFor(pending)

\* Mutant of Busy: Delve is asked, the movement on its way is not.
BusyByDelve == interrupting \/ dap = "running"

\* The guard of dispatchDAP.
Busy == moving \/ interrupting \/ dap = "running"

----------------------------------------------------------------------------
(* Parts of the handlers.                                                  *)

Request == requests < MaxRequests /\ requests' = requests + 1

CancelledTask == IF ActiveTask THEN [task EXCEPT !.status = "cancelled"] ELSE task

CompletedTask == IF ActiveTask THEN [task EXCEPT !.status = "completed"] ELSE task

CancelTask == task' = CancelledTask /\ UNCHANGED <<leaseOpen, binding>>

\* The agent's use of its grant: the task is active and its lease renewed.
UseTask == /\ task' = [task EXCEPT !.status = "active"]
           /\ UNCHANGED <<leaseOpen, binding>>

\* interruptDAP, with P the dispatches still pending.
InterruptDAP(P) ==
  IF Settled(P)
  THEN UNCHANGED fence
  ELSE /\ interrupting' = TRUE
       /\ handleEpoch' = handleEpoch + 1
       /\ workers' = workers \cup
            {[n |-> handleEpoch + 1, run |-> run, pc |-> "check"]}

\* Mutants of Disarm: "pause" is stored as the armed movement; the movement
\* stays armed.
DisarmAsPause(n) == /\ executionIntent' = executionIntent + n
                    /\ executionMode' = "pause"
                    /\ UNCHANGED <<executionActor, executionTask>>

DisarmLater(n) == /\ executionIntent' = executionIntent + n
                  /\ UNCHANGED <<executionMode, executionActor, executionTask>>

\* executionIntent moves by n and no movement is armed any more.
Disarm(n) == /\ executionIntent' = executionIntent + n
             /\ executionMode' = "none"
             /\ UNCHANGED <<executionActor, executionTask>>

\* setExecutionIntent, after n earlier increments in the same handler.
Arm(n, verb, actor) ==
  /\ executionIntent' = executionIntent + n + 1
  /\ executionMode' = verb
  /\ executionActor' = actor
  /\ executionTask' = IF actor = "agent" THEN task.id ELSE 0

\* Mutant of InterruptExecution: an interruption under way is not noticed.
InterruptExecutionAgain(n) == Disarm(n + 1) /\ InterruptDAP(pending)

\* interruptExecution, after n earlier increments in the same handler.
InterruptExecution(n) ==
  /\ Disarm(n + 1)
  /\ IF interrupting THEN UNCHANGED fence ELSE InterruptDAP(pending)

Occurs(e, s) == \E i \in DOMAIN s : s[i] = e
Queued(e)    == Occurs(e, wire) \/ Occurs(e, events)

\* dispatchDAP once its guard has passed.  Begin writes the request before it
\* returns: it fails only on a lost connection, and a write that a dead
\* connection still buffered reaches nobody.
DispatchDAP ==
  /\ ~Busy
  /\ handleEpoch' = handleEpoch + 1
  /\ generation' = generation + 1
  /\ dispatchSequence' = dispatchSequence + 1
  /\ early' = (early \/ Queued("entry"))
  /\ \/ /\ moving' = TRUE
        /\ pending' = pending \cup
             {[id |-> dispatchSequence + 1, run |-> run, epoch |-> handleEpoch + 1]}
        /\ inbox' = IF connected THEN Append(inbox, Move(dispatchSequence + 1)) ELSE inbox
     \/ /\ ~connected
        /\ UNCHANGED <<moving, pending, inbox>>
  /\ UNCHANGED <<interrupting, workers, replies, target>>

\* Nothing of dispatchDAP happened.
NoDispatch == UNCHANGED <<moving, handleEpoch, generation, dispatchSequence,
                          early, pending, inbox, interrupting, workers,
                          replies, target>>

----------------------------------------------------------------------------
(* Human movement through the HTTP action.                                 *)

\* humanIntent during agent execution: the agent loses its task, the target
\* is interrupted, and the human is asked to retry from the pause.  The same
\* happens to a movement with a stale generation, and to the editor's.
HumanPreemptsAgent ==
  /\ ~closing
  /\ Request
  /\ ActiveTask /\ Executing
  /\ CancelTask
  /\ InterruptExecution(1)
  /\ hold' = "held"
  /\ UNCHANGED <<run, ended, moving, generation, dispatchSequence, pending,
                 captures, client, world, early, gaveUp>>

\* A movement refused after humanIntent: the target is not paused, or the
\* generation is stale while the agent holds a task.
HumanMoveRefused ==
  /\ Accepting
  /\ Request
  /\ ~(ActiveTask /\ Executing)
  /\ ActiveTask \/ Status # "paused"
  /\ CancelTask
  /\ Disarm(1)
  /\ UNCHANGED <<run, ended, moving, fence, generation, dispatchSequence,
                 pending, captures, client, world, hold, early, gaveUp>>

\* The fence is still up at a pause: the intent is recorded before
\* beginExecution refuses.
HumanMoveFenced(verb) ==
  /\ Accepting
  /\ Request
  /\ ~ActiveTask
  /\ Status = "paused" /\ interrupting
  /\ Arm(1, verb, "human")
  /\ hold' = IF hold = "held" THEN "asked" ELSE hold
  /\ UNCHANGED <<run, ended, moving, fence, generation, dispatchSequence,
                 pending, scope, captures, client, world, early, gaveUp>>

HumanMove(verb) ==
  /\ Accepting
  /\ Request
  /\ ~(ActiveTask /\ Executing)
  /\ Status = "paused" /\ ~interrupting
  /\ CancelTask
  /\ Arm(1, verb, "human")
  /\ DispatchDAP
  /\ hold' = "free"
  /\ UNCHANGED <<run, ended, captures, client, gaveUp>>

\* The same movement from the connected editor: no generation and no status is
\* checked, and the intent is armed whether or not the dispatch is refused.
EditorMove(verb) ==
  /\ "editor" \in Happens /\ ~closing /\ target # "none"
  /\ Request
  /\ ~(ActiveTask /\ Executing)
  /\ CancelTask
  /\ Arm(1, verb, "human")
  /\ IF Busy
     THEN NoDispatch /\ hold' = IF hold = "held" THEN "asked" ELSE hold
     ELSE DispatchDAP /\ hold' = "free"
  /\ UNCHANGED <<run, ended, captures, client, gaveUp>>

----------------------------------------------------------------------------
(* Pause.                                                                  *)

\* A human pause is accepted with any generation.
HumanPause ==
  /\ Accepting
  /\ Request
  /\ CancelTask
  /\ InterruptExecution(1)
  /\ generation' = generation + 1
  /\ hold' = "held"
  /\ UNCHANGED <<run, ended, moving, dispatchSequence, pending, captures,
                 client, world, early, gaveUp>>

\* The editor's pause leaves the generation alone.
EditorPause ==
  /\ "editor" \in Happens /\ ~closing /\ target # "none"
  /\ Request
  /\ CancelTask
  /\ InterruptExecution(1)
  /\ hold' = "held"
  /\ UNCHANGED <<run, ended, moving, generation, dispatchSequence, pending,
                 captures, client, world, early, gaveUp>>

AgentPause ==
  /\ Accepting
  /\ Request
  /\ TaskValid
  /\ UseTask
  /\ InterruptExecution(0)
  /\ generation' = generation + 1
  /\ UNCHANGED <<run, ended, moving, dispatchSequence, pending, captures,
                 client, world, hold, early, gaveUp>>

----------------------------------------------------------------------------
(* Agent movement.                                                         *)

AgentMoveRefused ==
  /\ Accepting
  /\ Request
  /\ TaskValid
  /\ Status # "paused"
  /\ UseTask
  /\ UNCHANGED <<run, ended, moving, fence, generation, intent,
                 dispatchSequence, pending, captures, client, world, hold,
                 early, gaveUp>>

AgentMoveFenced(verb) ==
  /\ Accepting
  /\ Request
  /\ TaskValid
  /\ Status = "paused" /\ interrupting
  /\ UseTask
  /\ Arm(0, verb, "agent")
  /\ hold' = IF hold = "held" THEN "asked" ELSE hold
  /\ UNCHANGED <<run, ended, moving, fence, generation, dispatchSequence,
                 pending, captures, client, world, early, gaveUp>>

AgentMove(verb) ==
  /\ Accepting
  /\ Request
  /\ TaskValid
  /\ Status = "paused" /\ ~interrupting
  /\ UseTask
  /\ Arm(0, verb, "agent")
  /\ DispatchDAP
  /\ hold' = "free"
  /\ UNCHANGED <<run, ended, captures, client, gaveUp>>

----------------------------------------------------------------------------
(* The agent's task.                                                       *)

\* task-start by the agent, or task-authorize by a human.  When the event
\* cannot be saved the broker is left without a task.
GrantTask(saved) ==
  /\ "agent" \in Happens
  /\ saved \/ "unsaved" \in Happens
  /\ Accepting
  /\ Request
  /\ ~ActiveTask
  /\ Status = "paused"
  /\ generation' = generation + 1
  /\ task' = IF saved
             THEN [id |-> generation + 1, status |-> "authorized", binding |-> binding]
             ELSE NoTask
  /\ leaseOpen' = saved
  /\ UNCHANGED <<run, ended, moving, fence, intent, dispatchSequence, pending,
                 binding, captures, client, world, hold, early, gaveUp>>

\* task-cancel: a human needs no valid task, the agent does.
CancelTaskAction(byHuman) ==
  /\ Accepting
  /\ Request
  /\ byHuman \/ TaskValid
  /\ CancelTask
  /\ generation' = generation + 1
  /\ InterruptExecution(0)
  /\ hold' = IF byHuman THEN "held" ELSE hold
  /\ UNCHANGED <<run, ended, moving, dispatchSequence, pending, captures,
                 client, world, early, gaveUp>>

CompleteTask ==
  /\ Accepting
  /\ Request
  /\ TaskValid
  /\ Status # "running" /\ ~interrupting
  /\ task' = CompletedTask
  /\ UNCHANGED <<run, ended, moving, fence, generation, intent,
                 dispatchSequence, pending, leaseOpen, binding, captures,
                 client, world, hold, early, gaveUp>>

\* bind: another agent conversation takes the session.
Bind ==
  /\ "bind" \in Happens
  /\ Accepting
  /\ Request
  /\ task' = CancelledTask
  /\ InterruptExecution(0)
  /\ binding' = binding + 1
  /\ generation' = generation + 1
  /\ UNCHANGED <<run, ended, moving, dispatchSequence, pending, leaseOpen,
                 captures, client, world, hold, early, gaveUp>>

\* Time passes: the lease expires or the host proof does.
LeaseLapses ==
  /\ ActiveTask /\ leaseOpen
  /\ leaseOpen' = FALSE
  /\ UNCHANGED <<run, ended, moving, fence, generation, intent,
                 dispatchSequence, pending, task, binding, captures, client,
                 world, hold, early, gaveUp, requests>>

\* A lapsed scope found by taskValid in any agent request, or by the
\* maintenance tick; the tick also ends the task of an agent whose event
\* stream has been away for more than five seconds.
MaintainTask ==
  /\ ~closing
  /\ ActiveTask
  /\ CancelTask
  /\ InterruptExecution(0)
  /\ UNCHANGED <<run, ended, moving, generation, dispatchSequence, pending,
                 captures, client, world, hold, early, gaveUp, requests>>

----------------------------------------------------------------------------
(* The end of a target, and the end of the broker.                         *)

\* The human's stop has humanIntent's effects, the agent's uses its task; both
\* keep them when Delve cannot be stopped.
StopRequest(byHuman) ==
  \/ (byHuman /\ CancelTask /\ Disarm(1) /\ hold' = "held")
  \/ (~byHuman /\ TaskValid /\ UNCHANGED <<intent, hold>>)

StopRefused(byHuman) ==
  /\ "stop" \in Happens
  /\ Accepting
  /\ Request
  /\ StopRequest(byHuman)
  /\ ~byHuman => UseTask
  /\ UNCHANGED <<run, ended, moving, fence, generation, dispatchSequence,
                 pending, captures, client, world, early, gaveUp>>

\* The emitted end of the session completes a task that is still active.
StopTarget(byHuman) ==
  /\ "stop" \in Happens
  /\ Accepting
  /\ Request
  /\ connected \/ dap = "exited"
  /\ StopRequest(byHuman)
  /\ ~byHuman => task' = CompletedTask /\ UNCHANGED <<leaseOpen, binding>>
  /\ stopped' = TRUE
  /\ generation' = generation + 1
  /\ target' = "exited"
  /\ wire' = IF target = "exited" \/ ~connected THEN wire ELSE Append(wire, "exited")
  /\ UNCHANGED <<run, closing, moving, fence, dispatchSequence, pending,
                 captures, dap, dapEpoch, events, connected, inbox, replies,
                 early, gaveUp>>

\* restartLocked: the old target is killed and a new one attached, or the
\* session ends without a backend.  The goroutines of the old run remain.
Restart(byHuman, opened) ==
  /\ "restart" \in Happens
  /\ Accepting
  /\ Request
  /\ run < MaxRuns
  /\ connected \/ dap = "exited"
  /\ StopRequest(byHuman)
  /\ ~byHuman => CancelTask
  /\ run' = run + 1
  /\ stopped' = ~opened
  /\ moving' = FALSE
  /\ interrupting' = FALSE
  /\ handleEpoch' = handleEpoch + 1
  /\ generation' = generation + 1
  /\ dap' = IF opened THEN "paused" ELSE "exited"
  /\ dapEpoch' = 0
  /\ wire' = IF opened THEN <<"entry">> ELSE <<>>
  /\ events' = <<>>
  /\ connected' = opened
  /\ inbox' = <<>>
  /\ replies' = {}
  /\ target' = IF opened THEN "paused" ELSE "none"
  /\ early' = FALSE
  /\ gaveUp' = FALSE
  /\ UNCHANGED <<closing, workers, dispatchSequence, pending, captures>>

\* Serve's way out on a signal: a target known to run is asked to pause.
Shutdown ==
  /\ "quit" \in Happens
  /\ Accepting
  /\ closing' = TRUE
  /\ inbox' = IF dap = "running" /\ connected THEN Append(inbox, Pause) ELSE inbox
  /\ UNCHANGED <<run, stopped, moving, fence, generation, intent,
                 dispatchSequence, pending, scope, captures, client, replies,
                 target, hold, early, gaveUp, requests>>

\* Every other accepted change of the session, such as a watch or a
\* breakpoint: the generation moves and execution does not.
Touch ==
  /\ "touch" \in Happens
  /\ Accepting
  /\ Request
  /\ Status = "paused"
  /\ generation' = generation + 1
  /\ UNCHANGED <<run, ended, moving, fence, intent, dispatchSequence, pending,
                 scope, captures, client, world, hold, early, gaveUp>>

----------------------------------------------------------------------------
(* The adapter and the target (external).                                  *)

Emit(e) == wire' = IF connected THEN Append(wire, e) ELSE wire

\* Only a dispatch that still waits receives its response.
Reply(id, outcome) ==
  replies' = IF connected /\ \E p \in pending : p.id = id /\ p.run = run
             THEN replies \cup {[id |-> id, outcome |-> outcome]} ELSE replies

\* A movement starts a paused target; the adapter may announce it by an event.
AdapterAccepts(announce) ==
  /\ inbox # <<>> /\ Head(inbox).kind = "move"
  /\ target = "paused"
  /\ target' = "running"
  /\ inbox' = Tail(inbox)
  /\ Reply(Head(inbox).id, "ok")
  /\ IF announce THEN Emit("continued") ELSE UNCHANGED wire
  /\ UNCHANGED <<run, ended, moving, fence, generation, intent,
                 dispatchSequence, pending, scope, captures, dap, dapEpoch,
                 events, connected, hold, early, gaveUp, requests>>

AdapterRejects ==
  /\ inbox # <<>> /\ Head(inbox).kind = "move"
  /\ inbox' = Tail(inbox)
  /\ Reply(Head(inbox).id, "rejected")
  /\ UNCHANGED <<run, ended, moving, fence, generation, intent,
                 dispatchSequence, pending, scope, captures, client, target,
                 hold, early, gaveUp, requests>>

\* A pause of a target at rest is answered without another event.
AdapterPauses ==
  /\ inbox # <<>> /\ Head(inbox) = Pause
  /\ inbox' = Tail(inbox)
  /\ IF target = "running"
     THEN target' = "paused" /\ Emit("pause")
     ELSE UNCHANGED <<target, wire>>
  /\ UNCHANGED <<run, ended, moving, fence, generation, intent,
                 dispatchSequence, pending, scope, captures, dap, dapEpoch,
                 events, connected, replies, hold, early, gaveUp, requests>>

TargetHalts(kind) ==
  /\ target = "running"
  /\ kind = "tracepoint" => dispatchSequence < MaxDispatches
  /\ target' = IF kind = "exited" THEN "exited" ELSE "paused"
  /\ Emit(kind)
  /\ UNCHANGED <<run, ended, moving, fence, generation, intent,
                 dispatchSequence, pending, scope, captures, dap, dapEpoch,
                 events, connected, inbox, replies, hold, early, gaveUp,
                 requests>>

LinkLost ==
  /\ "link" \in Happens /\ connected
  /\ connected' = FALSE
  /\ UNCHANGED <<run, ended, moving, fence, generation, intent,
                 dispatchSequence, pending, scope, captures, dap, dapEpoch,
                 wire, events, world, hold, early, gaveUp, requests>>

----------------------------------------------------------------------------
(* Events on their way to the broker.                                      *)

\* Delve.events: Running and the epoch move before the broker sees the event;
\* an entry stop of a target already running is dropped.
ReadEvent ==
  /\ wire # <<>>
  /\ LET e == Head(wire)
         dropped == e = "entry" /\ dap = "running"
     IN /\ dap' = IF dropped THEN dap
                  ELSE IF e = "continued" THEN "running"
                  ELSE IF e = "exited" THEN "exited" ELSE "paused"
        /\ dapEpoch' = IF dropped THEN dapEpoch ELSE dapEpoch + 1
        /\ events' = IF dropped THEN events ELSE Append(events, e)
  /\ wire' = Tail(wire)
  /\ UNCHANGED <<run, ended, moving, fence, generation, intent,
                 dispatchSequence, pending, scope, captures, connected, world,
                 hold, early, gaveUp, requests>>

\* captureStop: the hit is reserved and saved before it is inspected.  What
\* dispatch it came after is history, for the properties.
CaptureStop(saved) ==
  IF saved /\ Accepting /\ Cardinality(captures) < CaptureSlots
  THEN captures' = captures \cup
         {[run |-> run, epoch |-> handleEpoch + 1, dapEpoch |-> dapEpoch,
           generation |-> generation + 1, intent |-> executionIntent,
           after |-> dispatchSequence]}
  ELSE UNCHANGED captures

\* watchBackend: one event of the current backend.
WatchEvent(saved) ==
  /\ events # <<>>
  /\ saved \/ "unsaved" \in Happens
  /\ LET e == Head(events)
     IN /\ moving' = (e = "continued")
        /\ task' = IF e = "exited" THEN CompletedTask ELSE task
        /\ IF e = "tracepoint" THEN CaptureStop(saved) ELSE saved /\ UNCHANGED captures
  /\ events' = Tail(events)
  /\ handleEpoch' = handleEpoch + 1
  /\ generation' = generation + 1
  /\ UNCHANGED <<run, ended, interrupting, workers, intent, dispatchSequence,
                 pending, leaseOpen, binding, dap, dapEpoch, wire, connected,
                 world, hold, early, gaveUp, requests>>

----------------------------------------------------------------------------
(* The goroutine of a dispatch: the response, or its absence.              *)

Outcomes == {"ok", "rejected", "ambiguous"}

\* Mutant of RollsBack: the latest dispatch is not told from an older one.
RollsBackAny(p) == p.epoch = handleEpoch \/ dap # "running"

\* A definite rejection of p takes the movement back.
RollsBack(p) == \/ p.epoch = handleEpoch
                \/ p.id = dispatchSequence /\ dap # "running"

Settle(p, outcome) ==
  /\ \/ outcome = "ambiguous" /\ ("late" \in Happens \/ p.run # run \/ ~connected)
     \/ p.run = run /\ [id |-> p.id, outcome |-> outcome] \in replies
  /\ pending' = pending \ {p}
  /\ replies' = {r \in replies : r.id # p.id}
  /\ IF p.run = run /\ outcome = "ambiguous" /\ p.epoch = handleEpoch
     THEN InterruptDAP(pending \ {p}) /\ UNCHANGED moving
     ELSE /\ UNCHANGED fence
          /\ moving' = (moving /\ ~(p.run = run /\ outcome = "rejected" /\ RollsBack(p)))
  /\ UNCHANGED <<run, ended, generation, intent, dispatchSequence, scope,
                 captures, client, inbox, target, hold, early, gaveUp, requests>>

----------------------------------------------------------------------------
(* The worker of an interruption.                                          *)

WorkerKeeps == UNCHANGED <<run, ended, moving, handleEpoch, generation, intent,
                           dispatchSequence, pending, scope, captures, client,
                           replies, target, hold, early, requests>>

WorkerReturns(w) == workers' = workers \ {w}
WorkerGoes(w, pc) == workers' = (workers \ {w}) \cup {[w EXCEPT !.pc = pc]}

WorkerCheck(w) ==
  /\ w.pc = "check"
  /\ IF w.run # run THEN WorkerReturns(w) /\ UNCHANGED interrupting
     ELSE IF Settled(pending) THEN WorkerReturns(w) /\ interrupting' = FALSE
     ELSE WorkerGoes(w, "send") /\ UNCHANGED interrupting
  /\ UNCHANGED <<inbox, gaveUp>>
  /\ WorkerKeeps

\* After thirty seconds the worker gives up and leaves the fence in place.
WorkerGivesUp(w) ==
  /\ "deadline" \in Happens
  /\ w.pc = "check" /\ w.run = run
  /\ WorkerReturns(w)
  /\ gaveUp' = TRUE
  /\ UNCHANGED <<interrupting, inbox>>
  /\ WorkerKeeps

\* Mutant of AfterPause: the pause was sent, so the worker leaves.
AfterPauseLeaves(w) == WorkerReturns(w)

\* The worker ticks, or returns when the broker is done.
AfterPause(w) == WorkerGoes(w, "check") \/ (stopped /\ WorkerReturns(w))

\* The pause is written without the mutex, to the backend of the worker.
\* Its answer, refusal or timeout changes nothing.
WorkerSend(w) ==
  /\ w.pc = "send"
  /\ Cardinality({i \in DOMAIN inbox : inbox[i] = Pause}) < MaxPauses
  /\ inbox' = IF w.run = run /\ connected THEN Append(inbox, Pause) ELSE inbox
  /\ AfterPause(w)
  /\ UNCHANGED <<interrupting, gaveUp>>
  /\ WorkerKeeps

----------------------------------------------------------------------------
(* The goroutine of a capture.                                             *)

\* Mutant of Current: the intent alone is trusted.
CurrentByIntent(c) == ~moving /\ ~closing

\* No dispatch, event or accepted action since the hit.
Current(c) ==
  /\ c.run = run
  /\ c.epoch = handleEpoch
  /\ c.dapEpoch = dapEpoch
  /\ c.generation = generation
  /\ ~moving /\ ~closing

\* mayResumeCapture up to the lease, which taskValid enforces.
Armed(c) ==
  /\ executionIntent = c.intent
  /\ executionMode = "continue"
  /\ ~interrupting /\ Accepting
  /\ \/ executionActor = "human"
     \/ executionActor = "agent" /\ TaskMatches /\ task.id = executionTask

\* Mutant of MayResumeCapture: the lease is not consulted.
MayResumeCaptureUnleased(c) == Armed(c)

MayResumeCapture(c) == Armed(c) /\ (executionActor = "agent" => leaseOpen)

\* Everything was captured: the target continues under the same intent.
CaptureResumes(c) ==
  /\ Current(c) /\ MayResumeCapture(c) /\ ~Busy
  /\ captures' = captures \ {c}
  /\ DispatchDAP
  /\ executionMode' = IF moving' THEN executionMode ELSE "none"
  /\ UNCHANGED <<run, ended, executionIntent, executionActor, executionTask,
                 scope, client, hold, gaveUp, requests>>

\* Everything was captured, but the agent's lease has lapsed meanwhile.
CaptureLapses(c) ==
  /\ Current(c) /\ Armed(c) /\ ~MayResumeCapture(c)
  /\ captures' = captures \ {c}
  /\ CancelTask
  /\ InterruptExecution(0)
  /\ UNCHANGED <<run, ended, moving, generation, dispatchSequence, pending,
                 client, world, hold, early, gaveUp, requests>>

\* A failed or truncated capture, a stale one, or one nothing waits for.
CaptureEnds(c, complete) ==
  /\ complete => \/ ~(Current(c) /\ Armed(c))
                 \/ MayResumeCapture(c) /\ Busy
  /\ captures' = captures \ {c}
  /\ executionMode' = IF executionIntent = c.intent THEN "none" ELSE executionMode
  /\ UNCHANGED <<run, ended, moving, fence, generation, executionIntent,
                 executionActor, executionTask, dispatchSequence, pending,
                 scope, client, world, hold, early, gaveUp, requests>>

----------------------------------------------------------------------------
Init ==
  /\ run = 1
  /\ stopped = FALSE /\ closing = FALSE
  /\ moving = FALSE /\ interrupting = FALSE
  /\ handleEpoch = 0 /\ generation = 1
  /\ executionIntent = 0 /\ executionMode = "none"
  /\ executionActor = "none" /\ executionTask = 0
  /\ dispatchSequence = 0
  /\ pending = {} /\ workers = {} /\ captures = {}
  /\ task = NoTask /\ leaseOpen = FALSE /\ binding = 1
  /\ dap = "paused" /\ dapEpoch = 0
  /\ wire = <<"entry">> /\ events = <<>> /\ connected = TRUE
  /\ inbox = <<>> /\ replies = {}
  /\ target = "paused"
  /\ hold = "free" /\ early = FALSE /\ gaveUp = FALSE
  /\ requests = 0

Human ==
  \/ HumanPreemptsAgent \/ HumanMoveRefused \/ HumanPause \/ EditorPause
  \/ \E verb \in Verbs : HumanMoveFenced(verb) \/ HumanMove(verb) \/ EditorMove(verb)

Agent ==
  \/ AgentPause \/ AgentMoveRefused \/ CompleteTask
  \/ \E verb \in Verbs : AgentMoveFenced(verb) \/ AgentMove(verb)

Session ==
  \/ Bind \/ Touch \/ Shutdown \/ LeaseLapses \/ MaintainTask
  \/ \E saved \in BOOLEAN : GrantTask(saved)
  \/ \E byHuman \in BOOLEAN :
       \/ CancelTaskAction(byHuman) \/ StopRefused(byHuman) \/ StopTarget(byHuman)
       \/ \E opened \in BOOLEAN : Restart(byHuman, opened)

Adapter ==
  \/ AdapterRejects \/ AdapterPauses
  \/ \E announce \in BOOLEAN : AdapterAccepts(announce)

Target ==
  \E kind \in {"breakpoint", "tracepoint", "exited"} : TargetHalts(kind)

Watch == \E saved \in BOOLEAN : WatchEvent(saved)

Settles == \E p \in pending, outcome \in Outcomes : Settle(p, outcome)

WorkerStep(w) == WorkerCheck(w) \/ WorkerSend(w)

Capture ==
  \E c \in captures :
    \/ CaptureResumes(c) \/ CaptureLapses(c)
    \/ \E complete \in BOOLEAN : CaptureEnds(c, complete)

Next ==
  \/ Human \/ Agent \/ Session
  \/ Adapter \/ Target \/ LinkLost
  \/ ReadEvent \/ Watch \/ Settles \/ Capture
  \/ \E w \in workers : WorkerStep(w) \/ WorkerGivesUp(w)

Spec == Init /\ [][Next]_vars

\* The adapter reads its requests, and the broker's goroutines are scheduled.
\* Nobody has to ask for anything, and no target has to stop by itself.
Fairness ==
  /\ WF_vars(Adapter)
  /\ WF_vars(ReadEvent)
  /\ WF_vars(Watch)
  /\ WF_vars(Settles)
  /\ WF_vars(\E w \in workers : WorkerStep(w))

FairSpec == Spec /\ Fairness

----------------------------------------------------------------------------
(* Properties.                                                             *)

Dispatch == [id : Nat, run : Nat, epoch : Nat]
Worker   == [n : Nat, run : Nat, pc : {"check", "send"}]
Job      == [run : Nat, epoch : Nat, dapEpoch : Nat, generation : Nat, intent : Nat,
             after : Nat]
Message  == [kind : {"move", "pause"}, id : Nat]
Response == [id : Nat, outcome : {"ok", "rejected"}]
TaskRecord ==
  [id : Nat, binding : Nat,
   status : {"none", "authorized", "active", "cancelled", "completed"}]

FlagType ==
  /\ stopped \in BOOLEAN /\ closing \in BOOLEAN /\ moving \in BOOLEAN
  /\ interrupting \in BOOLEAN /\ leaseOpen \in BOOLEAN /\ connected \in BOOLEAN
  /\ early \in BOOLEAN /\ gaveUp \in BOOLEAN

ControlType ==
  /\ run \in Nat /\ generation \in Nat /\ handleEpoch \in Nat
  /\ dispatchSequence \in Nat /\ requests \in Nat
  /\ pending \subseteq Dispatch /\ workers \subseteq Worker /\ captures \subseteq Job

IntentType ==
  /\ executionIntent \in Nat /\ executionMode \in Verbs \cup {"none"}
  /\ executionActor \in {"none", "human", "agent"} /\ executionTask \in Nat
  /\ task \in TaskRecord /\ binding \in Nat
  /\ hold \in {"free", "asked", "held"}

WorldType ==
  /\ dap \in {"paused", "running", "exited"} /\ dapEpoch \in Nat
  /\ wire \in Seq(EventKind) /\ events \in Seq(EventKind)
  /\ inbox \in Seq(Message) /\ replies \subseteq Response
  /\ target \in {"paused", "running", "exited", "none"}

\* The state of the broker, of its goroutines and of the adapter is well formed.
TypeOK == FlagType /\ ControlType /\ IntentType /\ WorldType

\* A dispatch decided by a capture: the only step that ends a capture and
\* sends a movement.
ResumeStep == dispatchSequence' # dispatchSequence /\ captures' # captures

\* Whenever a movement leaves the broker in the agent's name, by request or by
\* a capture that resumes, a task is active under the current binding, it is
\* the task the movement was requested for, and its lease is open.
AgentMovesOnlyUnderGrant ==
  [][dispatchSequence' # dispatchSequence /\ executionActor' = "agent" =>
       /\ task'.status = "active" /\ task'.binding = binding'
       /\ task'.id = executionTask' /\ leaseOpen']_vars

\* Once a human has paused, cancelled, stopped or preempted, no capture
\* resumes the target until somebody has asked for a movement again.
ResumeYieldsToHuman == [][ResumeStep => hold # "held"]_vars

\* The handover guide: "Human Pause ... keep the target stopped".  A capture
\* resumes only when a movement was accepted since the last human pause.
PauseKeepsTargetStopped == [][ResumeStep => hold = "free"]_vars

\* A capture resumes the target only from the very stop it inspected: the same
\* run, no movement sent since the hit, and a program that stands still.
ResumeFromItsOwnStop ==
  [][ResumeStep => \A c \in captures \ captures' :
       /\ c.run = run /\ c.after = dispatchSequence
       /\ target # "running" \/ early]_vars

\* The response to a dispatch that another one has followed changes neither
\* the movement nor the fence of the newer one.
StaleReplyHarmless ==
  [][\A p \in pending \ pending' :
       p.id # dispatchSequence => UNCHANGED <<moving, interrupting, workers>>]_vars

\* One interruption at a time: a second worker would still be asking for a
\* pause after the first had lowered the fence, and stop a newer movement.
OneInterrupter ==
  \A v, w \in workers : v.run = run /\ w.run = run => v = w

\* The fence is never forgotten: while it is up its worker is alive, unless
\* that worker has reported that it gave up or the session is over.
FenceHasOwner ==
  interrupting /\ ~stopped => gaveUp \/ \E w \in workers : w.run = run

\* The fence comes down only over a target at rest, although the broker sees
\* the target only through delayed responses and events.
FenceFallsAtRest ==
  [][interrupting /\ ~interrupting' => target' # "running" \/ early]_vars

\* The comment of interruptDAP, without excuse: "Keep the interruption fence
\* until the old dispatch and its stop have both settled".
FenceKeptUntilStopSettles ==
  [][interrupting /\ ~interrupting' => target' # "running"]_vars

\* The adapter never reads a movement while the target is moving.
OneMovementAtATime ==
  inbox # <<>> /\ Head(inbox).kind = "move" => target # "running" \/ early

\* The comment of Serve: "Deliberate broker shutdown leaves a recoverable
\* target paused".
ShutdownLeavesPaused ==
  closing /\ ~stopped /\ connected /\ inbox = <<>> => target # "running"

\* An interruption settles: the fence comes down, or the connection, the
\* session or the interruption's own patience is over.
InterruptionSettles ==
  interrupting ~> (~interrupting \/ ~connected \/ stopped \/ closing \/ gaveUp)

----------------------------------------------------------------------------
(* The inductive invariant behind the safety properties.                   *)

\* A dispatch that still owns the epoch is the latest one and is not fenced.
DispatchInv ==
  \A p \in pending :
    /\ p.id <= dispatchSequence /\ p.epoch <= handleEpoch
    /\ p.epoch = handleEpoch => p.id = dispatchSequence /\ ~interrupting

\* Workers belong to runs there have been, and one of this run to a fence.
WorkerInv ==
  \A w \in workers : w.run <= run /\ (w.run = run => interrupting)

\* Task identities are generations, so a new grant is not the one that armed
\* the movement, and the one that did is in use.
GrantInv ==
  /\ task.id <= generation /\ executionTask <= generation
  /\ executionActor = "agent" /\ task.id = executionTask => task.status # "authorized"

\* After a human interruption nothing is armed.
HoldInv == hold = "held" => executionMode # "continue"

\* A capture that still owns the epoch follows the latest dispatch.
CaptureInv ==
  \A c \in captures :
    /\ c.epoch <= handleEpoch
    /\ c.epoch = handleEpoch => c.after = dispatchSequence

\* A target of this run that can still move, and no movement overtook its entry.
Live == ~early /\ target \in {"paused", "running"}

\* Movements in an inbox, and that there is at most one.
MoveIn(s)   == \E i \in DOMAIN s : s[i].kind = "move"
OneMove(s)  == \A i, j \in DOMAIN s :
                 s[i].kind = "move" /\ s[j].kind = "move" => i = j

\* Nothing follows a stop.
StopLast(s) == \A i \in DOMAIN s : s[i] \in Stops => i = Len(s)

MoveSent   == MoveIn(inbox)
StopQueued == \E e \in Stops : Queued(e)

\* One movement at a time is somewhere between its dispatch and the event of
\* its stop, and the broker knows that it is.
FlowInv ==
  /\ Live /\ target = "running" => moving
  /\ Live /\ MoveSent => moving /\ target = "paused"
  /\ Live /\ (\E e \in Stops \ {"entry"} : Queued(e)) => moving
  /\ Live /\ StopQueued => target = "paused" /\ ~MoveSent
  /\ Live => ~Queued("exited")

\* Movements and stops do not queue up behind each other.
QueueInv ==
  Live =>
    /\ OneMove(inbox) /\ StopLast(wire) /\ StopLast(events)
    /\ (\E e \in Stops : Occurs(e, events)) => wire = <<>>

\* A rejected movement left the target where it was.
ReplyInv ==
  /\ \A i \in DOMAIN inbox : inbox[i].id <= dispatchSequence
  /\ \A r \in replies :
       /\ r.id <= dispatchSequence
       /\ Live /\ r.id = dispatchSequence /\ r.outcome = "rejected" =>
            target = "paused" /\ ~MoveSent /\ ~StopQueued

IInv ==
  /\ TypeOK
  /\ DispatchInv /\ WorkerInv /\ OneInterrupter /\ FenceHasOwner
  /\ GrantInv /\ HoldInv /\ CaptureInv
  /\ FlowInv /\ QueueInv /\ ReplyInv
=============================================================================
