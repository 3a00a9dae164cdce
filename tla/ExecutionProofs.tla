-------------------------- MODULE ExecutionProofs --------------------------
(***************************************************************************)
(* Proofs about Execution for every bound and every choice of optional     *)
(* events: type correctness, and the part of the inductive invariant that  *)
(* follows one movement from its dispatch through the adapter and the      *)
(* target to the event of its stop, which is why the broker, which sees    *)
(* only delayed responses and events, is right to believe that the target  *)
(* stands still.                                                           *)
(***************************************************************************)
EXTENDS Execution, TLAPS

USE DEF ended, intent, fence, scope, client, world

----------------------------------------------------------------------------
(* Type correctness.                                                       *)

\* The request counter counts.
LEMMA RequestType == ASSUME TypeOK, Request PROVE requests' \in Nat
  BY DEF TypeOK, ControlType, Request

\* Cancelling, completing and using a task leave a task record.
LEMMA TaskTypes ==
  ASSUME TypeOK
  PROVE  /\ CancelledTask \in TaskRecord /\ CompletedTask \in TaskRecord
         /\ [task EXCEPT !.status = "active"] \in TaskRecord
         /\ CancelTask \/ UseTask => task' \in TaskRecord /\ binding' \in Nat
  BY DEF TypeOK, IntentType, TaskRecord, CancelledTask, CompletedTask, CancelTask,
         UseTask

\* Disarming keeps the intent well formed.
LEMMA DisarmTypes ==
  ASSUME TypeOK, NEW n \in Nat, Disarm(n)
  PROVE  /\ executionIntent' \in Nat /\ executionMode' \in Verbs \cup {"none"}
         /\ executionActor' \in {"none", "human", "agent"} /\ executionTask' \in Nat
  BY DEF TypeOK, IntentType, Disarm

\* So does arming.
LEMMA ArmTypes ==
  ASSUME TypeOK, NEW n \in Nat, NEW verb \in Verbs, NEW actor \in {"human", "agent"},
         Arm(n, verb, actor)
  PROVE  /\ executionIntent' \in Nat /\ executionMode' \in Verbs \cup {"none"}
         /\ executionActor' \in {"none", "human", "agent"} /\ executionTask' \in Nat
<1>1. task.id \in Nat
  BY DEF TypeOK, IntentType, TaskRecord
<1> QED
  BY <1>1 DEF TypeOK, IntentType, Arm

\* A new interruption has a well-formed worker.
LEMMA InterruptTypes ==
  ASSUME TypeOK, NEW P, InterruptDAP(P)
  PROVE  interrupting' \in BOOLEAN /\ handleEpoch' \in Nat /\ workers' \subseteq Worker
<1>1. [n |-> handleEpoch + 1, run |-> run, pc |-> "check"] \in Worker
  BY DEF TypeOK, ControlType, Worker
<1>2. workers' \subseteq Worker
  BY <1>1 DEF TypeOK, ControlType, InterruptDAP
<1>3. handleEpoch' \in Nat
  BY DEF TypeOK, ControlType, InterruptDAP
<1>4. interrupting' \in BOOLEAN
  BY DEF TypeOK, FlagType, InterruptDAP
<1> QED
  BY <1>2, <1>3, <1>4

\* Interrupting keeps the intent and the fence well formed.
LEMMA InterruptExecutionTypes ==
  ASSUME TypeOK, NEW n \in Nat, InterruptExecution(n)
  PROVE  /\ interrupting' \in BOOLEAN /\ handleEpoch' \in Nat /\ workers' \subseteq Worker
         /\ executionIntent' \in Nat /\ executionMode' \in Verbs \cup {"none"}
         /\ executionActor' \in {"none", "human", "agent"} /\ executionTask' \in Nat
<1>1. Disarm(n + 1)
  BY DEF InterruptExecution
<1>2. CASE interrupting
  BY <1>1, <1>2, DisarmTypes DEF InterruptExecution, TypeOK, FlagType, ControlType
<1>3. CASE ~interrupting
  <2>1. InterruptDAP(pending)
    BY <1>3 DEF InterruptExecution
  <2> QED
    BY <1>1, <2>1, DisarmTypes, InterruptTypes
<1> QED
  BY <1>2, <1>3

\* A dispatch leaves well formed what it assigns.
LEMMA DispatchTypes ==
  ASSUME TypeOK, DispatchDAP
  PROVE  /\ moving' \in BOOLEAN /\ interrupting' \in BOOLEAN /\ early' \in BOOLEAN
         /\ generation' \in Nat /\ handleEpoch' \in Nat /\ dispatchSequence' \in Nat
         /\ pending' \subseteq Dispatch /\ workers' \subseteq Worker
         /\ inbox' \in Seq(Message) /\ replies' \subseteq Response
         /\ target' \in {"paused", "running", "exited", "none"}
<1> USE DEF TypeOK, ControlType, FlagType, WorldType, DispatchDAP
<1>1. Append(inbox, Move(dispatchSequence + 1)) \in Seq(Message)
  <2>1. Move(dispatchSequence + 1) \in Message
    BY DEF Move, Message
  <2> QED
    BY <2>1
<1>2. [id |-> dispatchSequence + 1, run |-> run, epoch |-> handleEpoch + 1] \in Dispatch
  BY DEF Dispatch
<1>3. moving' \in BOOLEAN
  OBVIOUS
<1>4. interrupting' \in BOOLEAN
  OBVIOUS
<1>5. early' \in BOOLEAN
  OBVIOUS
<1>6. generation' \in Nat /\ handleEpoch' \in Nat /\ dispatchSequence' \in Nat
  OBVIOUS
<1>7. pending' \subseteq Dispatch
  BY <1>2
<1>8. inbox' \in Seq(Message)
  BY <1>1
<1>9. /\ replies' \subseteq Response /\ workers' \subseteq Worker
      /\ target' \in {"paused", "running", "exited", "none"}
  OBVIOUS
<1> QED
  BY <1>3, <1>4, <1>5, <1>6, <1>7, <1>8, <1>9

\* The counters that a handler increments.
LEMMA CounterTypes ==
  ASSUME TypeOK
  PROVE  /\ generation' = generation + 1 => generation' \in Nat
         /\ handleEpoch' = handleEpoch + 1 => handleEpoch' \in Nat
         /\ binding' = binding + 1 => binding' \in Nat
         /\ run' = run + 1 => run' \in Nat
         /\ dapEpoch' = dapEpoch + 1 => dapEpoch' \in Nat
  BY DEF TypeOK, ControlType, IntentType, WorldType

\* The adapter's queues.
LEMMA QueueTypes ==
  ASSUME TypeOK
  PROVE  /\ Pause \in Message /\ Append(inbox, Pause) \in Seq(Message)
         /\ inbox # <<>> => Head(inbox) \in Message /\ Tail(inbox) \in Seq(Message)
         /\ \A e \in EventKind : Append(wire, e) \in Seq(EventKind)
         /\ \A e \in EventKind : Emit(e) => wire' \in Seq(EventKind)
<1>1. Pause \in Message
  BY DEF Pause, Message
<1>2. inbox \in Seq(Message) /\ wire \in Seq(EventKind)
  BY DEF TypeOK, WorldType
<1>3. \A e \in EventKind : Append(wire, e) \in Seq(EventKind)
  BY <1>2
<1>4. \A e \in EventKind : Emit(e) => wire' \in Seq(EventKind)
  BY <1>2, <1>3 DEF Emit
<1>5. inbox # <<>> => Head(inbox) \in Message /\ Tail(inbox) \in Seq(Message)
  BY <1>2
<1> QED
  BY <1>1, <1>2, <1>3, <1>4, <1>5

\* The answer to the head of the inbox.
LEMMA ReplyTypes ==
  ASSUME TypeOK, inbox # <<>>, NEW outcome \in {"ok", "rejected"},
         Reply(Head(inbox).id, outcome)
  PROVE  replies' \subseteq Response
<1>1. Head(inbox).id \in Nat
  BY QueueTypes DEF Message
<1>2. [id |-> Head(inbox).id, outcome |-> outcome] \in Response
  BY <1>1 DEF Response
<1> QED
  BY <1>2 DEF TypeOK, WorldType, Reply

\* A worker that moves on is a worker.
LEMMA WorkerTypes ==
  ASSUME TypeOK, NEW w \in workers, NEW pc \in {"check", "send"},
         WorkerReturns(w) \/ WorkerGoes(w, pc)
  PROVE  workers' \subseteq Worker
<1>1. [w EXCEPT !.pc = pc] \in Worker
  BY DEF TypeOK, ControlType, Worker
<1> QED
  BY <1>1 DEF TypeOK, ControlType, WorkerReturns, WorkerGoes

\* A reserved capture is a job.
LEMMA CaptureTypes ==
  ASSUME TypeOK, NEW saved \in BOOLEAN, CaptureStop(saved)
  PROVE  captures' \subseteq Job
<1>1. [run |-> run, epoch |-> handleEpoch + 1, dapEpoch |-> dapEpoch,
       generation |-> generation + 1, intent |-> executionIntent,
       after |-> dispatchSequence] \in Job
  BY DEF TypeOK, ControlType, IntentType, WorldType, Job
<1> QED
  BY <1>1 DEF TypeOK, ControlType, CaptureStop

\* Every step keeps the state well formed.
LEMMA TypeStep ==
  ASSUME TypeOK, Next
  PROVE  TypeOK'
<1> USE DEF TypeOK
<1>1. ASSUME HumanPreemptsAgent
      PROVE  TypeOK'
  <2>1. InterruptExecution(1)
    BY <1>1 DEF HumanPreemptsAgent
  <2>2. /\ interrupting' \in BOOLEAN /\ handleEpoch' \in Nat /\ workers' \subseteq Worker
        /\ executionIntent' \in Nat /\ executionMode' \in Verbs \cup {"none"}
        /\ executionActor' \in {"none", "human", "agent"} /\ executionTask' \in Nat
    BY <2>1, InterruptExecutionTypes
  <2>3. FlagType'
    BY <1>1, <2>2 DEF HumanPreemptsAgent, CancelTask, FlagType
  <2>4. ControlType'
    BY <1>1, <2>2, RequestType DEF HumanPreemptsAgent, ControlType
  <2>5. IntentType'
    BY <1>1, <2>2, TaskTypes DEF HumanPreemptsAgent, IntentType
  <2>6. WorldType'
    BY <1>1 DEF HumanPreemptsAgent, WorldType
  <2> QED
    BY <2>3, <2>4, <2>5, <2>6
<1>2. ASSUME HumanMoveRefused
      PROVE  TypeOK'
  <2>1. FlagType'
    BY <1>2 DEF HumanMoveRefused, CancelTask, FlagType
  <2>2. ControlType'
    BY <1>2, RequestType DEF HumanMoveRefused, ControlType
  <2>3. IntentType'
    BY <1>2, TaskTypes, DisarmTypes DEF HumanMoveRefused, IntentType
  <2>4. WorldType'
    BY <1>2 DEF HumanMoveRefused, WorldType
  <2> QED
    BY <2>1, <2>2, <2>3, <2>4
<1>3. ASSUME HumanPause
      PROVE  TypeOK'
  <2>1. InterruptExecution(1)
    BY <1>3 DEF HumanPause
  <2>2. /\ interrupting' \in BOOLEAN /\ handleEpoch' \in Nat /\ workers' \subseteq Worker
        /\ executionIntent' \in Nat /\ executionMode' \in Verbs \cup {"none"}
        /\ executionActor' \in {"none", "human", "agent"} /\ executionTask' \in Nat
    BY <2>1, InterruptExecutionTypes
  <2>3. FlagType'
    BY <1>3, <2>2 DEF HumanPause, CancelTask, FlagType
  <2>4. ControlType'
    BY <1>3, <2>2, RequestType, CounterTypes DEF HumanPause, ControlType
  <2>5. IntentType'
    BY <1>3, <2>2, TaskTypes DEF HumanPause, IntentType
  <2>6. WorldType'
    BY <1>3 DEF HumanPause, WorldType
  <2> QED
    BY <2>3, <2>4, <2>5, <2>6
<1>4. ASSUME EditorPause
      PROVE  TypeOK'
  <2>1. InterruptExecution(1)
    BY <1>4 DEF EditorPause
  <2>2. /\ interrupting' \in BOOLEAN /\ handleEpoch' \in Nat /\ workers' \subseteq Worker
        /\ executionIntent' \in Nat /\ executionMode' \in Verbs \cup {"none"}
        /\ executionActor' \in {"none", "human", "agent"} /\ executionTask' \in Nat
    BY <2>1, InterruptExecutionTypes
  <2>3. FlagType'
    BY <1>4, <2>2 DEF EditorPause, CancelTask, FlagType
  <2>4. ControlType'
    BY <1>4, <2>2, RequestType DEF EditorPause, ControlType
  <2>5. IntentType'
    BY <1>4, <2>2, TaskTypes DEF EditorPause, IntentType
  <2>6. WorldType'
    BY <1>4 DEF EditorPause, WorldType
  <2> QED
    BY <2>3, <2>4, <2>5, <2>6
<1>5. ASSUME NEW verb \in Verbs, HumanMoveFenced(verb)
      PROVE  TypeOK'
  <2>1. FlagType'
    BY <1>5 DEF HumanMoveFenced, FlagType
  <2>2. ControlType'
    BY <1>5, RequestType DEF HumanMoveFenced, ControlType
  <2>3. IntentType'
    BY <1>5, ArmTypes DEF HumanMoveFenced, IntentType
  <2>4. WorldType'
    BY <1>5 DEF HumanMoveFenced, WorldType
  <2> QED
    BY <2>1, <2>2, <2>3, <2>4
<1>6. ASSUME NEW verb \in Verbs, HumanMove(verb)
      PROVE  TypeOK'
  <2>1. FlagType'
    BY <1>6, DispatchTypes DEF HumanMove, CancelTask, FlagType
  <2>2. ControlType'
    BY <1>6, RequestType, DispatchTypes DEF HumanMove, ControlType
  <2>3. IntentType'
    BY <1>6, TaskTypes, ArmTypes DEF HumanMove, IntentType
  <2>4. WorldType'
    BY <1>6, DispatchTypes DEF HumanMove, WorldType
  <2> QED
    BY <2>1, <2>2, <2>3, <2>4
<1>7. ASSUME NEW verb \in Verbs, EditorMove(verb)
      PROVE  TypeOK'
  <2>1. FlagType'
    BY <1>7, DispatchTypes DEF EditorMove, CancelTask, NoDispatch, FlagType
  <2>2. ControlType'
    BY <1>7, RequestType, DispatchTypes DEF EditorMove, ControlType, NoDispatch
  <2>3. IntentType'
    BY <1>7, TaskTypes, ArmTypes DEF EditorMove, IntentType
  <2>4. WorldType'
    BY <1>7, DispatchTypes DEF EditorMove, WorldType, NoDispatch
  <2> QED
    BY <2>1, <2>2, <2>3, <2>4
<1>8. ASSUME AgentPause
      PROVE  TypeOK'
  <2>1. InterruptExecution(0)
    BY <1>8 DEF AgentPause
  <2>2. /\ interrupting' \in BOOLEAN /\ handleEpoch' \in Nat /\ workers' \subseteq Worker
        /\ executionIntent' \in Nat /\ executionMode' \in Verbs \cup {"none"}
        /\ executionActor' \in {"none", "human", "agent"} /\ executionTask' \in Nat
    BY <2>1, InterruptExecutionTypes
  <2>3. FlagType'
    BY <1>8, <2>2 DEF AgentPause, UseTask, FlagType
  <2>4. ControlType'
    BY <1>8, <2>2, RequestType, CounterTypes DEF AgentPause, ControlType
  <2>5. IntentType'
    BY <1>8, <2>2, TaskTypes DEF AgentPause, IntentType
  <2>6. WorldType'
    BY <1>8 DEF AgentPause, WorldType
  <2> QED
    BY <2>3, <2>4, <2>5, <2>6
<1>9. ASSUME AgentMoveRefused
      PROVE  TypeOK'
  <2>1. FlagType'
    BY <1>9 DEF AgentMoveRefused, UseTask, FlagType
  <2>2. ControlType'
    BY <1>9, RequestType DEF AgentMoveRefused, ControlType
  <2>3. IntentType'
    BY <1>9, TaskTypes DEF AgentMoveRefused, IntentType
  <2>4. WorldType'
    BY <1>9 DEF AgentMoveRefused, WorldType
  <2> QED
    BY <2>1, <2>2, <2>3, <2>4
<1>10. ASSUME CompleteTask
      PROVE  TypeOK'
  <2>1. FlagType'
    BY <1>10 DEF CompleteTask, FlagType
  <2>2. ControlType'
    BY <1>10, RequestType DEF CompleteTask, ControlType
  <2>3. IntentType'
    BY <1>10, TaskTypes DEF CompleteTask, IntentType
  <2>4. WorldType'
    BY <1>10 DEF CompleteTask, WorldType
  <2> QED
    BY <2>1, <2>2, <2>3, <2>4
<1>11. ASSUME NEW verb \in Verbs, AgentMoveFenced(verb)
      PROVE  TypeOK'
  <2>1. FlagType'
    BY <1>11 DEF AgentMoveFenced, UseTask, FlagType
  <2>2. ControlType'
    BY <1>11, RequestType DEF AgentMoveFenced, ControlType
  <2>3. IntentType'
    BY <1>11, TaskTypes, ArmTypes DEF AgentMoveFenced, IntentType
  <2>4. WorldType'
    BY <1>11 DEF AgentMoveFenced, WorldType
  <2> QED
    BY <2>1, <2>2, <2>3, <2>4
<1>12. ASSUME NEW verb \in Verbs, AgentMove(verb)
      PROVE  TypeOK'
  <2>1. FlagType'
    BY <1>12, DispatchTypes DEF AgentMove, UseTask, FlagType
  <2>2. ControlType'
    BY <1>12, RequestType, DispatchTypes DEF AgentMove, ControlType
  <2>3. IntentType'
    BY <1>12, TaskTypes, ArmTypes DEF AgentMove, IntentType
  <2>4. WorldType'
    BY <1>12, DispatchTypes DEF AgentMove, WorldType
  <2> QED
    BY <2>1, <2>2, <2>3, <2>4
<1>13. ASSUME Bind
      PROVE  TypeOK'
  <2>1. InterruptExecution(0)
    BY <1>13 DEF Bind
  <2>2. /\ interrupting' \in BOOLEAN /\ handleEpoch' \in Nat /\ workers' \subseteq Worker
        /\ executionIntent' \in Nat /\ executionMode' \in Verbs \cup {"none"}
        /\ executionActor' \in {"none", "human", "agent"} /\ executionTask' \in Nat
    BY <2>1, InterruptExecutionTypes
  <2>3. FlagType'
    BY <1>13, <2>2 DEF Bind, FlagType
  <2>4. ControlType'
    BY <1>13, <2>2, RequestType, CounterTypes DEF Bind, ControlType
  <2>5. IntentType'
    BY <1>13, <2>2, TaskTypes, CounterTypes DEF Bind, IntentType
  <2>6. WorldType'
    BY <1>13 DEF Bind, WorldType
  <2> QED
    BY <2>3, <2>4, <2>5, <2>6
<1>14. ASSUME Touch
      PROVE  TypeOK'
  <2>1. FlagType'
    BY <1>14 DEF Touch, FlagType
  <2>2. ControlType'
    BY <1>14, RequestType, CounterTypes DEF Touch, ControlType
  <2>3. IntentType'
    BY <1>14 DEF Touch, IntentType
  <2>4. WorldType'
    BY <1>14 DEF Touch, WorldType
  <2> QED
    BY <2>1, <2>2, <2>3, <2>4
<1>15. ASSUME Shutdown
      PROVE  TypeOK'
  <2>1. FlagType'
    BY <1>15 DEF Shutdown, FlagType
  <2>2. ControlType'
    BY <1>15 DEF Shutdown, ControlType
  <2>3. IntentType'
    BY <1>15 DEF Shutdown, IntentType
  <2>4. WorldType'
    BY <1>15, QueueTypes DEF Shutdown, WorldType
  <2> QED
    BY <2>1, <2>2, <2>3, <2>4
<1>16. ASSUME LeaseLapses
      PROVE  TypeOK'
  <2>1. FlagType'
    BY <1>16 DEF LeaseLapses, FlagType
  <2>2. ControlType'
    BY <1>16 DEF LeaseLapses, ControlType
  <2>3. IntentType'
    BY <1>16 DEF LeaseLapses, IntentType
  <2>4. WorldType'
    BY <1>16 DEF LeaseLapses, WorldType
  <2> QED
    BY <2>1, <2>2, <2>3, <2>4
<1>17. ASSUME MaintainTask
      PROVE  TypeOK'
  <2>1. InterruptExecution(0)
    BY <1>17 DEF MaintainTask
  <2>2. /\ interrupting' \in BOOLEAN /\ handleEpoch' \in Nat /\ workers' \subseteq Worker
        /\ executionIntent' \in Nat /\ executionMode' \in Verbs \cup {"none"}
        /\ executionActor' \in {"none", "human", "agent"} /\ executionTask' \in Nat
    BY <2>1, InterruptExecutionTypes
  <2>3. FlagType'
    BY <1>17, <2>2 DEF MaintainTask, CancelTask, FlagType
  <2>4. ControlType'
    BY <1>17, <2>2 DEF MaintainTask, ControlType
  <2>5. IntentType'
    BY <1>17, <2>2, TaskTypes DEF MaintainTask, IntentType
  <2>6. WorldType'
    BY <1>17 DEF MaintainTask, WorldType
  <2> QED
    BY <2>3, <2>4, <2>5, <2>6
<1>18. ASSUME NEW saved \in BOOLEAN, GrantTask(saved)
      PROVE  TypeOK'
  <2>1. FlagType'
    BY <1>18 DEF GrantTask, FlagType
  <2>2. ControlType'
    BY <1>18, RequestType, CounterTypes DEF GrantTask, ControlType
  <2>3. IntentType'
    <3>1. NoTask \in TaskRecord
      BY DEF NoTask, TaskRecord
    <3>2. [id |-> generation + 1, status |-> "authorized", binding |-> binding]
            \in TaskRecord
      BY DEF ControlType, IntentType, TaskRecord
    <3>3. task' \in TaskRecord
      BY <1>18, <3>1, <3>2 DEF GrantTask
    <3> QED
      BY <1>18, <3>3 DEF GrantTask, IntentType
  <2>4. WorldType'
    BY <1>18 DEF GrantTask, WorldType
  <2> QED
    BY <2>1, <2>2, <2>3, <2>4
<1>19. ASSUME NEW byHuman \in BOOLEAN, CancelTaskAction(byHuman)
      PROVE  TypeOK'
  <2>1. InterruptExecution(0)
    BY <1>19 DEF CancelTaskAction
  <2>2. /\ interrupting' \in BOOLEAN /\ handleEpoch' \in Nat /\ workers' \subseteq Worker
        /\ executionIntent' \in Nat /\ executionMode' \in Verbs \cup {"none"}
        /\ executionActor' \in {"none", "human", "agent"} /\ executionTask' \in Nat
    BY <2>1, InterruptExecutionTypes
  <2>3. FlagType'
    BY <1>19, <2>2 DEF CancelTaskAction, CancelTask, FlagType
  <2>4. ControlType'
    BY <1>19, <2>2, RequestType, CounterTypes DEF CancelTaskAction, ControlType
  <2>5. IntentType'
    BY <1>19, <2>2, TaskTypes DEF CancelTaskAction, IntentType
  <2>6. WorldType'
    BY <1>19 DEF CancelTaskAction, WorldType
  <2> QED
    BY <2>3, <2>4, <2>5, <2>6
<1>20. ASSUME NEW byHuman \in BOOLEAN, StopRefused(byHuman)
      PROVE  TypeOK'
  <2>1. FlagType'
    BY <1>20 DEF StopRefused, UseTask, StopRequest, CancelTask, FlagType
  <2>2. ControlType'
    BY <1>20, RequestType DEF StopRefused, ControlType
  <2>3. IntentType'
    BY <1>20, TaskTypes, DisarmTypes DEF StopRefused, IntentType, StopRequest
  <2>4. WorldType'
    BY <1>20 DEF StopRefused, WorldType
  <2> QED
    BY <2>1, <2>2, <2>3, <2>4
<1>21. ASSUME NEW byHuman \in BOOLEAN, StopTarget(byHuman)
      PROVE  TypeOK'
  <2>1. FlagType'
    BY <1>21 DEF StopTarget, StopRequest, CancelTask, UseTask, FlagType
  <2>2. ControlType'
    BY <1>21, RequestType, CounterTypes DEF StopTarget, ControlType
  <2>3. IntentType'
    BY <1>21, TaskTypes, DisarmTypes DEF StopTarget, IntentType, StopRequest
  <2>4. WorldType'
    BY <1>21, QueueTypes DEF StopTarget, WorldType, EventKind, Stops
  <2> QED
    BY <2>1, <2>2, <2>3, <2>4
<1>22. ASSUME NEW byHuman \in BOOLEAN, NEW opened \in BOOLEAN, Restart(byHuman, opened)
      PROVE  TypeOK'
  <2>1. FlagType'
    BY <1>22 DEF Restart, CancelTask, StopRequest, UseTask, FlagType
  <2>2. ControlType'
    BY <1>22, RequestType, CounterTypes DEF Restart, ControlType
  <2>3. IntentType'
    BY <1>22, TaskTypes, DisarmTypes DEF Restart, IntentType, StopRequest
  <2>4. WorldType'
    <3>1. <<"entry">> \in Seq(EventKind) /\ <<>> \in Seq(EventKind)
      BY DEF EventKind, Stops
    <3>2. wire' \in Seq(EventKind) /\ events' \in Seq(EventKind)
      BY <1>22, <3>1 DEF Restart
    <3>3. inbox' \in Seq(Message) /\ replies' \subseteq Response
      BY <1>22 DEF Restart
    <3>4. /\ dap' \in {"paused", "running", "exited"} /\ dapEpoch' \in Nat
          /\ target' \in {"paused", "running", "exited", "none"}
      BY <1>22 DEF Restart
    <3> QED
      BY <3>2, <3>3, <3>4 DEF WorldType
  <2> QED
    BY <2>1, <2>2, <2>3, <2>4
<1>23. ASSUME AdapterRejects
      PROVE  TypeOK'
  <2>1. FlagType'
    BY <1>23 DEF AdapterRejects, FlagType
  <2>2. ControlType'
    BY <1>23 DEF AdapterRejects, ControlType
  <2>3. IntentType'
    BY <1>23 DEF AdapterRejects, IntentType
  <2>4. WorldType'
    BY <1>23, QueueTypes, ReplyTypes DEF AdapterRejects, WorldType
  <2> QED
    BY <2>1, <2>2, <2>3, <2>4
<1>24. ASSUME AdapterPauses
      PROVE  TypeOK'
  <2>1. FlagType'
    BY <1>24 DEF AdapterPauses, FlagType
  <2>2. ControlType'
    BY <1>24 DEF AdapterPauses, ControlType
  <2>3. IntentType'
    BY <1>24 DEF AdapterPauses, IntentType
  <2>4. WorldType'
    BY <1>24, QueueTypes DEF AdapterPauses, WorldType, EventKind, Stops
  <2> QED
    BY <2>1, <2>2, <2>3, <2>4
<1>25. ASSUME NEW announce \in BOOLEAN, AdapterAccepts(announce)
      PROVE  TypeOK'
  <2>1. FlagType'
    BY <1>25 DEF AdapterAccepts, FlagType
  <2>2. ControlType'
    BY <1>25 DEF AdapterAccepts, ControlType
  <2>3. IntentType'
    BY <1>25 DEF AdapterAccepts, IntentType
  <2>4. WorldType'
    BY <1>25, QueueTypes, ReplyTypes DEF AdapterAccepts, WorldType, EventKind, Stops
  <2> QED
    BY <2>1, <2>2, <2>3, <2>4
<1>26. ASSUME NEW kind \in {"breakpoint", "tracepoint", "exited"}, TargetHalts(kind)
      PROVE  TypeOK'
  <2>1. FlagType'
    BY <1>26 DEF TargetHalts, FlagType
  <2>2. ControlType'
    BY <1>26 DEF TargetHalts, ControlType
  <2>3. IntentType'
    BY <1>26 DEF TargetHalts, IntentType
  <2>4. WorldType'
    BY <1>26, QueueTypes DEF TargetHalts, WorldType, EventKind, Stops
  <2> QED
    BY <2>1, <2>2, <2>3, <2>4
<1>27. ASSUME LinkLost
      PROVE  TypeOK'
  <2>1. FlagType'
    BY <1>27 DEF LinkLost, FlagType
  <2>2. ControlType'
    BY <1>27 DEF LinkLost, ControlType
  <2>3. IntentType'
    BY <1>27 DEF LinkLost, IntentType
  <2>4. WorldType'
    BY <1>27 DEF LinkLost, WorldType
  <2> QED
    BY <2>1, <2>2, <2>3, <2>4
<1>28. ASSUME ReadEvent
      PROVE  TypeOK'
  <2>1. FlagType'
    BY <1>28 DEF ReadEvent, FlagType
  <2>2. ControlType'
    BY <1>28, CounterTypes DEF ReadEvent, ControlType
  <2>3. IntentType'
    BY <1>28 DEF ReadEvent, IntentType
  <2>4. WorldType'
    BY <1>28, QueueTypes DEF ReadEvent, WorldType, EventKind, Stops
  <2> QED
    BY <2>1, <2>2, <2>3, <2>4
<1>29. ASSUME NEW saved \in BOOLEAN, WatchEvent(saved)
      PROVE  TypeOK'
  <2>1. FlagType'
    BY <1>29 DEF WatchEvent, FlagType
  <2>2. ControlType'
    BY <1>29, CounterTypes, CaptureTypes DEF WatchEvent, ControlType
  <2>3. IntentType'
    BY <1>29, TaskTypes DEF WatchEvent, IntentType
  <2>4. WorldType'
    BY <1>29 DEF WatchEvent, WorldType
  <2> QED
    BY <2>1, <2>2, <2>3, <2>4
<1>30. ASSUME NEW p \in pending, NEW outcome \in Outcomes, Settle(p, outcome)
      PROVE  TypeOK'
  <2>1. FlagType'
    BY <1>30, InterruptTypes DEF Settle, FlagType
  <2>2. ControlType'
    BY <1>30, InterruptTypes DEF Settle, ControlType
  <2>3. IntentType'
    BY <1>30 DEF Settle, IntentType
  <2>4. WorldType'
    BY <1>30 DEF Settle, WorldType
  <2> QED
    BY <2>1, <2>2, <2>3, <2>4
<1>31. ASSUME NEW c \in captures, CaptureResumes(c)
      PROVE  TypeOK'
  <2>1. FlagType'
    BY <1>31, DispatchTypes DEF CaptureResumes, FlagType
  <2>2. ControlType'
    BY <1>31, DispatchTypes DEF CaptureResumes, ControlType
  <2>3. IntentType'
    BY <1>31 DEF CaptureResumes, IntentType
  <2>4. WorldType'
    BY <1>31, DispatchTypes DEF CaptureResumes, WorldType
  <2> QED
    BY <2>1, <2>2, <2>3, <2>4
<1>32. ASSUME NEW c \in captures, CaptureLapses(c)
      PROVE  TypeOK'
  <2>1. InterruptExecution(0)
    BY <1>32 DEF CaptureLapses
  <2>2. /\ interrupting' \in BOOLEAN /\ handleEpoch' \in Nat /\ workers' \subseteq Worker
        /\ executionIntent' \in Nat /\ executionMode' \in Verbs \cup {"none"}
        /\ executionActor' \in {"none", "human", "agent"} /\ executionTask' \in Nat
    BY <2>1, InterruptExecutionTypes
  <2>3. FlagType'
    BY <1>32, <2>2 DEF CaptureLapses, CancelTask, FlagType
  <2>4. ControlType'
    BY <1>32, <2>2 DEF CaptureLapses, ControlType
  <2>5. IntentType'
    BY <1>32, <2>2, TaskTypes DEF CaptureLapses, IntentType
  <2>6. WorldType'
    BY <1>32 DEF CaptureLapses, WorldType
  <2> QED
    BY <2>3, <2>4, <2>5, <2>6
<1>33. ASSUME NEW c \in captures, NEW complete \in BOOLEAN, CaptureEnds(c, complete)
      PROVE  TypeOK'
  <2>1. FlagType'
    BY <1>33 DEF CaptureEnds, FlagType
  <2>2. ControlType'
    BY <1>33 DEF CaptureEnds, ControlType
  <2>3. IntentType'
    BY <1>33 DEF CaptureEnds, IntentType
  <2>4. WorldType'
    BY <1>33 DEF CaptureEnds, WorldType
  <2> QED
    BY <2>1, <2>2, <2>3, <2>4
<1>34. ASSUME NEW w \in workers, WorkerCheck(w)
      PROVE  TypeOK'
  <2>1. FlagType'
    BY <1>34 DEF WorkerCheck, WorkerKeeps, FlagType
  <2>2. ControlType'
    BY <1>34, WorkerTypes DEF WorkerCheck, ControlType, WorkerKeeps
  <2>3. IntentType'
    BY <1>34 DEF WorkerCheck, IntentType, WorkerKeeps
  <2>4. WorldType'
    BY <1>34 DEF WorkerCheck, WorldType, WorkerKeeps
  <2> QED
    BY <2>1, <2>2, <2>3, <2>4
<1>35. ASSUME NEW w \in workers, WorkerSend(w)
      PROVE  TypeOK'
  <2>1. FlagType'
    BY <1>35 DEF WorkerSend, WorkerKeeps, FlagType
  <2>2. ControlType'
    BY <1>35, WorkerTypes DEF WorkerSend, ControlType, WorkerKeeps, AfterPause
  <2>3. IntentType'
    BY <1>35 DEF WorkerSend, IntentType, WorkerKeeps
  <2>4. WorldType'
    BY <1>35, QueueTypes DEF WorkerSend, WorldType, WorkerKeeps
  <2> QED
    BY <2>1, <2>2, <2>3, <2>4
<1>36. ASSUME NEW w \in workers, WorkerGivesUp(w)
      PROVE  TypeOK'
  <2>1. FlagType'
    BY <1>36 DEF WorkerGivesUp, WorkerKeeps, FlagType
  <2>2. ControlType'
    BY <1>36, WorkerTypes DEF WorkerGivesUp, ControlType, WorkerKeeps
  <2>3. IntentType'
    BY <1>36 DEF WorkerGivesUp, IntentType, WorkerKeeps
  <2>4. WorldType'
    BY <1>36 DEF WorkerGivesUp, WorldType, WorkerKeeps
  <2> QED
    BY <2>1, <2>2, <2>3, <2>4
<1> QED
  BY <1>1, <1>2, <1>3, <1>4, <1>5, <1>6, <1>7, <1>8, <1>9, <1>10, <1>11, <1>12,
     <1>13, <1>14, <1>15, <1>16, <1>17, <1>18, <1>19, <1>20, <1>21, <1>22,
     <1>23, <1>24, <1>25, <1>26, <1>27, <1>28, <1>29, <1>30, <1>31, <1>32,
     <1>33, <1>34, <1>35, <1>36
     DEF Next, Human, Agent, Session, Adapter, Target, Watch, Settles, WorkerStep, Capture

\* Initially the state is well formed.
LEMMA TypeInit == ASSUME Init PROVE TypeOK
<1> USE DEF Init
<1>1. FlagType
  BY DEF FlagType
<1>2. ControlType
  BY DEF ControlType
<1>3. IntentType
  BY DEF IntentType, NoTask, TaskRecord
<1>4. WorldType
  <2>1. <<"entry">> \in Seq(EventKind) /\ <<>> \in Seq(EventKind)
    BY DEF EventKind, Stops
  <2> QED
    BY <2>1 DEF WorldType
<1> QED
  BY <1>1, <1>2, <1>3, <1>4 DEF TypeOK

\* So does a stuttering step.
LEMMA TypeStutter == ASSUME TypeOK, UNCHANGED vars PROVE TypeOK'
<1> USE DEF vars, TypeOK
<1>1. FlagType'
  BY DEF FlagType
<1>2. ControlType'
  BY DEF ControlType
<1>3. IntentType'
  BY DEF IntentType
<1>4. WorldType'
  BY DEF WorldType
<1> QED
  BY <1>1, <1>2, <1>3, <1>4

\* Type correctness: the broker, its goroutines and the adapter stay well formed.
THEOREM TypeCorrect == Spec => []TypeOK
<1>1. TypeOK /\ [Next]_vars => TypeOK'
  BY TypeStep, TypeStutter
<1> QED
  BY <1>1, TypeInit, PTL DEF Spec

----------------------------------------------------------------------------
(* Sequences.                                                              *)

\* The elements of an extended sequence.
LEMMA AppendElements ==
  ASSUME NEW S, NEW s \in Seq(S), NEW e \in S
  PROVE  /\ Append(s, e) \in Seq(S)
         /\ Len(Append(s, e)) = Len(s) + 1 /\ Len(s) \in Nat
         /\ DOMAIN Append(s, e) = 1 .. (Len(s) + 1) /\ DOMAIN s = 1 .. Len(s)
         /\ \A i \in DOMAIN s : Append(s, e)[i] = s[i]
         /\ Append(s, e)[Len(s) + 1] = e
  OBVIOUS

\* The elements of a sequence without its head.
LEMMA TailElements ==
  ASSUME NEW S, NEW s \in Seq(S), s # <<>>
  PROVE  /\ Tail(s) \in Seq(S) /\ Head(s) = s[1] /\ Head(s) \in S
         /\ Len(Tail(s)) = Len(s) - 1 /\ Len(s) \in Nat
         /\ DOMAIN Tail(s) = 1 .. (Len(s) - 1) /\ DOMAIN s = 1 .. Len(s)
         /\ 1 \in DOMAIN s
         /\ \A i \in DOMAIN Tail(s) : i + 1 \in DOMAIN s /\ Tail(s)[i] = s[i + 1]
  OBVIOUS

----------------------------------------------------------------------------
(* The inbox of the adapter.                                               *)

\* A pause adds no movement.
LEMMA PauseSent ==
  ASSUME TypeOK
  PROVE  /\ MoveIn(Append(inbox, Pause)) <=> MoveIn(inbox)
         /\ OneMove(inbox) => OneMove(Append(inbox, Pause))
         /\ (\A i \in DOMAIN inbox : inbox[i].id <= dispatchSequence) =>
              \A i \in DOMAIN Append(inbox, Pause) :
                Append(inbox, Pause)[i].id <= dispatchSequence
<1>1. inbox \in Seq(Message) /\ Pause \in Message /\ dispatchSequence \in Nat
  BY QueueTypes DEF TypeOK, WorldType, ControlType
<1>2. Pause.kind = "pause" /\ Pause.id = 0
  BY DEF Pause
<1> DEFINE s == Append(inbox, Pause)
<1>3. /\ DOMAIN s = 1 .. (Len(inbox) + 1) /\ DOMAIN inbox = 1 .. Len(inbox)
      /\ Len(inbox) \in Nat
      /\ \A i \in DOMAIN inbox : s[i] = inbox[i]
      /\ s[Len(inbox) + 1] = Pause
  BY <1>1, AppendElements
<1> HIDE DEF s
<1>4. \A i \in DOMAIN s : s[i].kind = "move" => i \in DOMAIN inbox
  BY <1>2, <1>3
<1>5. \A i \in DOMAIN inbox : i \in DOMAIN s
  BY <1>3
<1>6. MoveIn(s) <=> MoveIn(inbox)
  BY <1>3, <1>4, <1>5 DEF MoveIn
<1>7. OneMove(inbox) => OneMove(s)
  BY <1>3, <1>4 DEF OneMove
<1>8. (\A i \in DOMAIN inbox : inbox[i].id <= dispatchSequence) =>
        \A i \in DOMAIN s : s[i].id <= dispatchSequence
  BY <1>1, <1>2, <1>3
<1> QED
  BY <1>6, <1>7, <1>8 DEF s

\* Reading the head takes the only movement away, if it is one.
LEMMA HeadRead ==
  ASSUME TypeOK, inbox # <<>>
  PROVE  /\ MoveIn(Tail(inbox)) => MoveIn(inbox)
         /\ OneMove(inbox) => OneMove(Tail(inbox))
         /\ OneMove(inbox) /\ Head(inbox).kind = "move" => ~MoveIn(Tail(inbox))
         /\ Head(inbox).kind = "move" => MoveIn(inbox)
         /\ (\A i \in DOMAIN inbox : inbox[i].id <= dispatchSequence) =>
              /\ Head(inbox).id <= dispatchSequence
              /\ \A i \in DOMAIN Tail(inbox) : Tail(inbox)[i].id <= dispatchSequence
<1>1. inbox \in Seq(Message)
  BY DEF TypeOK, WorldType
<1> DEFINE t == Tail(inbox)
<1>2. /\ Head(inbox) = inbox[1] /\ 1 \in DOMAIN inbox /\ DOMAIN t \subseteq Nat \ {0}
      /\ \A i \in DOMAIN t : i + 1 \in DOMAIN inbox /\ t[i] = inbox[i + 1]
  BY <1>1, TailElements
<1> HIDE DEF t
<1>3. MoveIn(t) => MoveIn(inbox)
  BY <1>2 DEF MoveIn
<1>4. OneMove(inbox) => OneMove(t)
  BY <1>2 DEF OneMove
<1>5. OneMove(inbox) /\ Head(inbox).kind = "move" => ~MoveIn(t)
  BY <1>2 DEF OneMove, MoveIn
<1>6. Head(inbox).kind = "move" => MoveIn(inbox)
  BY <1>2 DEF MoveIn
<1> QED
  BY <1>2, <1>3, <1>4, <1>5, <1>6 DEF t

\* A dispatch adds the only movement.
LEMMA MoveAdded ==
  ASSUME TypeOK
  PROVE  LET s == Append(inbox, Move(dispatchSequence + 1))
         IN  /\ ~MoveIn(inbox) => OneMove(s)
             /\ (\A i \in DOMAIN inbox : inbox[i].id <= dispatchSequence) =>
                  \A i \in DOMAIN s : s[i].id <= dispatchSequence + 1
<1>1. /\ inbox \in Seq(Message) /\ dispatchSequence \in Nat
      /\ Move(dispatchSequence + 1) \in Message
  BY DEF TypeOK, WorldType, ControlType, Move, Message
<1>2. Move(dispatchSequence + 1).id = dispatchSequence + 1
  BY DEF Move
<1> DEFINE s == Append(inbox, Move(dispatchSequence + 1))
<1>3. /\ DOMAIN s = 1 .. (Len(inbox) + 1) /\ DOMAIN inbox = 1 .. Len(inbox)
      /\ Len(inbox) \in Nat
      /\ \A i \in DOMAIN inbox : s[i] = inbox[i]
      /\ s[Len(inbox) + 1] = Move(dispatchSequence + 1)
  BY <1>1, AppendElements
<1>4. \A i \in DOMAIN inbox : inbox[i].id \in Nat
  <2>1. \A i \in DOMAIN inbox : inbox[i] \in Message
    BY <1>1
  <2> QED
    BY <2>1 DEF Message
<1> HIDE DEF s
<1>5. ~MoveIn(inbox) => OneMove(s)
  BY <1>3 DEF MoveIn, OneMove
<1>6. (\A i \in DOMAIN inbox : inbox[i].id <= dispatchSequence) =>
        \A i \in DOMAIN s : s[i].id <= dispatchSequence + 1
  BY <1>1, <1>2, <1>3, <1>4
<1> QED
  BY <1>5, <1>6 DEF s

----------------------------------------------------------------------------
(* The events on their way.                                                *)

\* An event that is emitted, or read by the broker, goes last.
LEMMA EventAdded ==
  ASSUME NEW s \in Seq(EventKind), NEW e \in EventKind
  PROVE  /\ \A k : Occurs(k, Append(s, e)) <=> Occurs(k, s) \/ k = e
         /\ (\A k \in Stops : ~Occurs(k, s)) => StopLast(Append(s, e))
<1> DEFINE t == Append(s, e)
<1>1. /\ DOMAIN t = 1 .. (Len(s) + 1) /\ DOMAIN s = 1 .. Len(s) /\ Len(s) \in Nat
      /\ Len(t) = Len(s) + 1
      /\ \A i \in DOMAIN s : t[i] = s[i]
      /\ t[Len(s) + 1] = e
  BY AppendElements
<1> HIDE DEF t
<1>2. \A k : Occurs(k, t) <=> Occurs(k, s) \/ k = e
  BY <1>1 DEF Occurs
<1>3. (\A k \in Stops : ~Occurs(k, s)) => StopLast(t)
  BY <1>1 DEF Occurs, StopLast
<1> QED
  BY <1>2, <1>3 DEF t

\* The head of a queue of events is consumed.
LEMMA EventTaken ==
  ASSUME NEW s \in Seq(EventKind), s # <<>>
  PROVE  /\ \A k : Occurs(k, s) <=> Head(s) = k \/ Occurs(k, Tail(s))
         /\ StopLast(s) => StopLast(Tail(s))
         /\ StopLast(s) /\ Head(s) \in Stops => Tail(s) = <<>>
         /\ Head(s) \in EventKind /\ Tail(s) \in Seq(EventKind)
<1> DEFINE t == Tail(s)
<1>1. /\ t \in Seq(EventKind) /\ Head(s) = s[1] /\ Head(s) \in EventKind
      /\ Len(t) = Len(s) - 1 /\ Len(s) \in Nat /\ 1 \in DOMAIN s
      /\ DOMAIN t = 1 .. (Len(s) - 1) /\ DOMAIN s = 1 .. Len(s)
      /\ \A i \in DOMAIN t : i + 1 \in DOMAIN s /\ t[i] = s[i + 1]
  BY TailElements
<1> HIDE DEF t
<1>2. \A k : Occurs(k, s) <=> Head(s) = k \/ Occurs(k, t)
  <2>1. \A i \in DOMAIN s : i = 1 \/ (i - 1 \in DOMAIN t /\ s[i] = t[i - 1])
    BY <1>1
  <2> QED
    BY <1>1, <2>1 DEF Occurs
<1>3. StopLast(s) => StopLast(t)
  BY <1>1 DEF StopLast
<1>4. StopLast(s) /\ Head(s) \in Stops => t = <<>>
  <2>1. StopLast(s) /\ Head(s) \in Stops => Len(t) = 0
    BY <1>1 DEF StopLast
  <2> QED
    BY <1>1, <2>1
<1> QED
  BY <1>1, <1>2, <1>3, <1>4 DEF t

\* An empty queue holds nothing.
LEMMA NoEvent ==
  /\ \A k : ~Occurs(k, <<>>)
  /\ StopLast(<<>>) /\ ~MoveIn(<<>>) /\ OneMove(<<>>)
  BY DEF Occurs, StopLast, MoveIn, OneMove

----------------------------------------------------------------------------
(* One movement at a time, by kind of step.                                *)

Flow == FlowInv /\ QueueInv /\ ReplyInv

\* Steps that do not touch the movement; a response may be consumed.
LEMMA StillFlow ==
  ASSUME Flow, replies' \subseteq replies,
         UNCHANGED <<moving, early, target, inbox, wire, events, dispatchSequence>>
  PROVE  Flow'
<1>1. /\ Live' <=> Live
      /\ MoveSent' <=> MoveSent
      /\ \A e : Queued(e)' <=> Queued(e)
  BY DEF Live, MoveSent, MoveIn, Queued, Occurs
<1>2. StopQueued' <=> StopQueued
  BY <1>1 DEF StopQueued
<1>3. FlowInv'
  BY <1>1, <1>2 DEF Flow, FlowInv
<1>4. QueueInv'
  BY <1>1 DEF Flow, QueueInv, OneMove, StopLast, Occurs
<1>5. ReplyInv'
  BY <1>1, <1>2 DEF Flow, ReplyInv
<1> QED
  BY <1>3, <1>4, <1>5 DEF Flow

\* Steps after which the target of the run no longer matters.
LEMMA DeadFlow ==
  ASSUME Flow, ~Live', UNCHANGED <<inbox, replies, dispatchSequence>>
  PROVE  Flow'
  BY DEF Flow, FlowInv, QueueInv, ReplyInv

\* A pause is sent.
LEMMA PauseFlow ==
  ASSUME TypeOK, Flow, inbox' = inbox \/ inbox' = Append(inbox, Pause),
         UNCHANGED <<moving, early, target, replies, wire, events, dispatchSequence>>
  PROVE  Flow'
<1>1. CASE inbox' = inbox
  BY <1>1, StillFlow
<1>2. CASE inbox' = Append(inbox, Pause)
  <2>1. /\ Live' <=> Live
        /\ MoveSent' <=> MoveSent
        /\ \A e : Queued(e)' <=> Queued(e)
        /\ OneMove(inbox) => OneMove(inbox')
    BY <1>2, PauseSent DEF Live, MoveSent, Queued, Occurs
  <2>2. StopQueued' <=> StopQueued
    BY <2>1 DEF StopQueued
  <2>3. FlowInv'
    BY <2>1, <2>2 DEF Flow, FlowInv
  <2>4. QueueInv'
    BY <2>1 DEF Flow, QueueInv, StopLast, Occurs
  <2>5. ReplyInv'
    BY <1>2, <2>1, <2>2, PauseSent DEF Flow, ReplyInv
  <2> QED
    BY <2>3, <2>4, <2>5 DEF Flow
<1> QED
  BY <1>1, <1>2

\* A dispatch finds the target at rest with nothing on its way.
LEMMA DispatchFlow ==
  ASSUME TypeOK, Flow, DispatchDAP, UNCHANGED <<wire, events>>
  PROVE  Flow'
<1>1. ~moving /\ target' = target /\ replies' = replies
  BY DEF DispatchDAP, Busy
<1>2. Live' => Live /\ ~Queued("entry")
  BY <1>1 DEF DispatchDAP, Live
<1>3. Live' => target = "paused" /\ ~MoveSent /\ ~StopQueued
  BY <1>1, <1>2 DEF Flow, FlowInv, StopQueued, Live
<1>4. \A e : Queued(e)' <=> Queued(e)
  BY DEF Queued, Occurs
<1>5. StopQueued' <=> StopQueued
  BY <1>4 DEF StopQueued
<1>6. MoveSent' => moving' \/ MoveSent
  BY DEF DispatchDAP, MoveSent
<1>7. FlowInv'
  BY <1>1, <1>2, <1>3, <1>4, <1>5, <1>6 DEF Flow, FlowInv, StopQueued
<1>8. QueueInv'
  <2>1. Live' => OneMove(inbox')
    BY <1>2, <1>3, MoveAdded DEF DispatchDAP, MoveSent, Flow, QueueInv
  <2> QED
    BY <1>2, <2>1 DEF Flow, QueueInv, StopLast, Occurs
<1>9. ReplyInv'
  <2>1. dispatchSequence' = dispatchSequence + 1 /\ dispatchSequence \in Nat
    BY DEF DispatchDAP, TypeOK, ControlType
  <2>2. \A r \in replies : r.id \in Nat /\ r.id <= dispatchSequence
    BY DEF Flow, ReplyInv, TypeOK, WorldType, Response
  <2>3. \A i \in DOMAIN inbox : inbox[i].id \in Nat /\ inbox[i].id <= dispatchSequence
    <3>1. \A i \in DOMAIN inbox : inbox[i] \in Message
      BY DEF TypeOK, WorldType
    <3> QED
      BY <3>1 DEF Flow, ReplyInv, Message
  <2>4. \A i \in DOMAIN inbox' : inbox'[i].id <= dispatchSequence'
    <3>1. CASE inbox' = inbox
      BY <2>1, <2>3, <3>1
    <3>2. CASE inbox' = Append(inbox, Move(dispatchSequence + 1))
      BY <2>1, <2>3, <3>2, MoveAdded
    <3> QED
      BY <3>1, <3>2 DEF DispatchDAP
  <2> QED
    BY <1>1, <2>1, <2>2, <2>4 DEF ReplyInv
<1> QED
  BY <1>7, <1>8, <1>9 DEF Flow

\* The adapter refuses the movement it reads.
LEMMA RejectFlow ==
  ASSUME TypeOK, Flow, AdapterRejects
  PROVE  Flow'
<1>1. /\ inbox # <<>> /\ Head(inbox).kind = "move" /\ inbox' = Tail(inbox)
      /\ Reply(Head(inbox).id, "rejected")
      /\ UNCHANGED <<moving, early, target, wire, events, dispatchSequence>>
  BY DEF AdapterRejects
<1>2. /\ Live' <=> Live
      /\ \A e : Queued(e)' <=> Queued(e)
      /\ MoveSent /\ (MoveSent' => MoveSent)
  BY <1>1, HeadRead DEF Live, Queued, Occurs, MoveSent
<1>3. StopQueued' <=> StopQueued
  BY <1>2 DEF StopQueued
<1>4. Live => target = "paused" /\ ~MoveSent' /\ ~StopQueued /\ OneMove(inbox')
  BY <1>1, <1>2, HeadRead DEF Flow, FlowInv, QueueInv, MoveSent
<1>5. FlowInv'
  BY <1>1, <1>2, <1>3, <1>4 DEF Flow, FlowInv
<1>6. QueueInv'
  BY <1>1, <1>2, <1>4 DEF Flow, QueueInv, StopLast, Occurs
<1>7. ReplyInv'
  <2>1. /\ Head(inbox).id <= dispatchSequence
        /\ \A i \in DOMAIN inbox' : inbox'[i].id <= dispatchSequence'
    BY <1>1, HeadRead DEF Flow, ReplyInv
  <2>2. \A r \in replies' : r \in replies \/ r.id = Head(inbox).id
    BY <1>1 DEF Reply
  <2> QED
    BY <1>1, <1>2, <1>3, <1>4, <2>1, <2>2 DEF Flow, ReplyInv
<1> QED
  BY <1>5, <1>6, <1>7 DEF Flow

\* The adapter starts the target, and may announce it.
LEMMA AcceptFlow ==
  ASSUME TypeOK, Flow, NEW announce \in BOOLEAN, AdapterAccepts(announce)
  PROVE  Flow'
<1>1. /\ inbox # <<>> /\ Head(inbox).kind = "move" /\ inbox' = Tail(inbox)
      /\ target = "paused" /\ target' = "running"
      /\ Reply(Head(inbox).id, "ok")
      /\ wire' = wire \/ wire' = Append(wire, "continued")
      /\ UNCHANGED <<moving, early, events, dispatchSequence>>
  BY DEF AdapterAccepts, Emit
<1>2. wire \in Seq(EventKind) /\ "continued" \in EventKind /\ "continued" \notin Stops
  BY DEF TypeOK, WorldType, EventKind, Stops
<1>3. \A e : e # "continued" => (Queued(e)' <=> Queued(e))
  <2>1. CASE wire' = wire
    BY <1>1, <2>1 DEF Queued, Occurs
  <2>2. CASE wire' = Append(wire, "continued")
    <3>1. \A e : Occurs(e, wire)' <=> Occurs(e, wire) \/ e = "continued"
      BY <1>2, <2>2, EventAdded DEF Occurs
    <3>2. \A e : Occurs(e, events)' <=> Occurs(e, events)
      BY <1>1 DEF Occurs
    <3> QED
      BY <3>1, <3>2 DEF Queued
  <2> QED
    BY <1>1, <2>1, <2>2
<1>4. (Live' <=> Live) /\ MoveSent
  BY <1>1, HeadRead DEF Live, MoveSent
<1>5. StopQueued' <=> StopQueued
  BY <1>2, <1>3 DEF StopQueued
<1>6. Live => moving /\ ~MoveSent' /\ ~StopQueued /\ OneMove(inbox')
  BY <1>1, <1>4, HeadRead DEF Flow, FlowInv, QueueInv, MoveSent
<1>7. FlowInv'
  BY <1>1, <1>3, <1>4, <1>5, <1>6 DEF Flow, FlowInv
<1>8. QueueInv'
  BY <1>4, <1>5, <1>6 DEF QueueInv, StopQueued, Queued, StopLast, Occurs
<1>9. ReplyInv'
  <2>1. /\ Head(inbox).id <= dispatchSequence
        /\ \A i \in DOMAIN inbox' : inbox'[i].id <= dispatchSequence'
    BY <1>1, HeadRead DEF Flow, ReplyInv
  <2>2. \A r \in replies' : r \in replies \/ (r.id = Head(inbox).id /\ r.outcome = "ok")
    BY <1>1 DEF Reply
  <2>3. Live => \A r \in replies : r.id = dispatchSequence => r.outcome # "rejected"
    BY <1>4 DEF Flow, ReplyInv
  <2> QED
    BY <1>1, <1>4, <2>1, <2>2, <2>3 DEF Flow, ReplyInv
<1> QED
  BY <1>7, <1>8, <1>9 DEF Flow

\* The target stops, by itself or because it was asked to, and the adapter says
\* so; a request may have been read.
LEMMA HaltFlow ==
  ASSUME TypeOK, Flow, NEW e \in Stops, Emit(e), target = "running", target' = "paused",
         \/ inbox' = inbox
         \/ inbox # <<>> /\ inbox' = Tail(inbox),
         UNCHANGED <<moving, early, replies, events, dispatchSequence>>
  PROVE  Flow'
<1>1. wire \in Seq(EventKind) /\ e \in EventKind
  BY DEF TypeOK, WorldType, EventKind
<1>2. \A k : Queued(k)' => Queued(k) \/ k = e
  BY <1>1, EventAdded DEF Emit, Queued, Occurs
<1>3. (Live' <=> Live) /\ (MoveSent' => MoveSent)
  BY HeadRead DEF Live, MoveSent
<1>4. Live => moving /\ ~MoveSent /\ ~StopQueued
  BY DEF Flow, FlowInv
<1>5. FlowInv'
  <2>1. Live' => ~Queued("exited")'
    BY <1>2, <1>3 DEF Flow, FlowInv, Stops
  <2> QED
    BY <1>3, <1>4, <2>1 DEF FlowInv
<1>6. QueueInv'
  <2>1. Live => (\A k \in Stops : ~Occurs(k, wire)) /\ (\A k \in Stops : ~Occurs(k, events))
    BY <1>4 DEF StopQueued, Queued
  <2>2. Live => StopLast(wire')
    BY <1>1, <2>1, EventAdded DEF Emit, Flow, QueueInv
  <2>3. Live => OneMove(inbox')
    BY HeadRead DEF Flow, QueueInv
  <2> QED
    BY <1>3, <2>1, <2>2, <2>3 DEF Flow, QueueInv, Occurs, StopLast
<1>7. ReplyInv'
  <2>1. \A i \in DOMAIN inbox' : inbox'[i].id <= dispatchSequence'
    BY HeadRead DEF Flow, ReplyInv
  <2>2. Live => \A r \in replies : r.id = dispatchSequence => r.outcome # "rejected"
    BY DEF Flow, ReplyInv
  <2> QED
    BY <1>3, <2>1, <2>2 DEF Flow, ReplyInv
<1> QED
  BY <1>5, <1>6, <1>7 DEF Flow

\* A pause is read by an adapter whose target stands still.
LEMMA IdlePauseFlow ==
  ASSUME TypeOK, Flow, inbox # <<>>, inbox' = Tail(inbox),
         UNCHANGED <<moving, early, target, replies, wire, events, dispatchSequence>>
  PROVE  Flow'
<1>1. /\ Live' <=> Live
      /\ MoveSent' => MoveSent
      /\ \A e : Queued(e)' <=> Queued(e)
  BY HeadRead DEF Live, MoveSent, Queued, Occurs
<1>2. StopQueued' <=> StopQueued
  BY <1>1 DEF StopQueued
<1>3. FlowInv'
  BY <1>1, <1>2 DEF Flow, FlowInv
<1>4. QueueInv'
  BY <1>1, HeadRead DEF Flow, QueueInv, StopLast, Occurs
<1>5. ReplyInv'
  BY <1>1, <1>2, HeadRead DEF Flow, ReplyInv
<1> QED
  BY <1>3, <1>4, <1>5 DEF Flow

\* The adapter's event is read, or an entry stop is dropped.
LEMMA ReadFlow ==
  ASSUME TypeOK, Flow, ReadEvent
  PROVE  Flow'
<1>1. /\ wire # <<>> /\ wire' = Tail(wire)
      /\ events' = events \/ events' = Append(events, Head(wire))
      /\ UNCHANGED <<moving, early, target, inbox, replies, dispatchSequence>>
  BY DEF ReadEvent
<1>2. /\ wire \in Seq(EventKind) /\ events \in Seq(EventKind)
      /\ Head(wire) \in EventKind
      /\ \A e : Occurs(e, wire) <=> Head(wire) = e \/ Occurs(e, wire')
      /\ StopLast(wire) => StopLast(wire')
      /\ StopLast(wire) /\ Head(wire) \in Stops => wire' = <<>>
  BY <1>1, EventTaken DEF TypeOK, WorldType
<1>3. \A e : Occurs(e, events') => Occurs(e, events) \/ e = Head(wire)
  <2>1. CASE events' = events
    BY <2>1
  <2>2. CASE events' = Append(events, Head(wire))
    BY <1>2, <2>2, EventAdded
  <2> QED
    BY <1>1, <2>1, <2>2
<1>4. \A e : Queued(e)' => Queued(e)
  BY <1>2, <1>3 DEF Queued, Occurs
<1>5. (Live' <=> Live) /\ (MoveSent' <=> MoveSent) /\ (StopQueued' => StopQueued)
  BY <1>1, <1>4 DEF Live, MoveSent, MoveIn, StopQueued
<1>6. FlowInv'
  BY <1>1, <1>4, <1>5 DEF Flow, FlowInv
<1>7. QueueInv'
  <2>1. Live => \A k \in Stops : ~Occurs(k, events)
    BY <1>1 DEF Flow, QueueInv
  <2>2. Live => StopLast(events')
    <3>1. CASE events' = events
      BY <3>1 DEF Flow, QueueInv
    <3>2. CASE events' = Append(events, Head(wire))
      BY <1>2, <2>1, <3>2, EventAdded
    <3> QED
      BY <1>1, <3>1, <3>2
  <2>3. Live => \A k \in Stops : Occurs(k, events') => wire' = <<>>
    BY <1>2, <1>3, <2>1 DEF Flow, QueueInv
  <2>4. Live => StopLast(wire') /\ OneMove(inbox')
    BY <1>1, <1>2 DEF Flow, QueueInv
  <2> QED
    BY <1>5, <2>2, <2>3, <2>4 DEF QueueInv, Occurs, StopLast
<1>8. ReplyInv'
  BY <1>1, <1>5 DEF Flow, ReplyInv
<1> QED
  BY <1>6, <1>7, <1>8 DEF Flow

\* The broker consumes an event: only a stop ends the movement, and nothing is
\* behind it.
LEMMA WatchFlow ==
  ASSUME TypeOK, Flow, NEW saved \in BOOLEAN, WatchEvent(saved)
  PROVE  Flow'
<1>1. /\ events # <<>> /\ events' = Tail(events)
      /\ moving' = (Head(events) = "continued")
      /\ UNCHANGED <<early, target, inbox, wire, replies, dispatchSequence>>
  BY DEF WatchEvent
<1>2. /\ Head(events) \in EventKind
      /\ \A e : Occurs(e, events) <=> Head(events) = e \/ Occurs(e, events')
      /\ StopLast(events) => StopLast(events')
      /\ StopLast(events) /\ Head(events) \in Stops => events' = <<>>
  BY <1>1, EventTaken DEF TypeOK, WorldType
<1>3. \A e : Queued(e)' => Queued(e)
  BY <1>1, <1>2 DEF Queued, Occurs
<1>4. (Live' <=> Live) /\ (MoveSent' <=> MoveSent) /\ (StopQueued' => StopQueued)
  BY <1>1, <1>3 DEF Live, MoveSent, MoveIn, StopQueued
<1>5. Live /\ Head(events) \in Stops =>
        target = "paused" /\ ~MoveSent /\ (\A e : ~Queued(e)')
  <2>1. Live /\ Head(events) \in Stops => StopQueued /\ wire = <<>> /\ events' = <<>>
    BY <1>2 DEF Flow, QueueInv, StopQueued, Queued
  <2>2. Live /\ Head(events) \in Stops => wire' = <<>>
    BY <1>1, <2>1
  <2> QED
    BY <2>1, <2>2, NoEvent DEF Flow, FlowInv, Queued, Occurs
<1>6. Live => Head(events) \in Stops \/ Head(events) = "continued"
  BY <1>2 DEF Flow, FlowInv, EventKind, Queued
<1>7. FlowInv'
  <2>1. CASE Live /\ Head(events) \in Stops
    BY <1>1, <1>4, <1>5, <2>1 DEF FlowInv, StopQueued
  <2>2. CASE Live /\ Head(events) = "continued"
    BY <1>1, <1>3, <1>4, <2>2 DEF Flow, FlowInv
  <2>3. CASE ~Live
    BY <1>4, <2>3 DEF FlowInv
  <2> QED
    BY <1>6, <2>1, <2>2, <2>3
<1>8. QueueInv'
  BY <1>1, <1>2, <1>4 DEF Flow, QueueInv, OneMove, StopLast, Occurs
<1>9. ReplyInv'
  BY <1>1, <1>4 DEF Flow, ReplyInv
<1> QED
  BY <1>7, <1>8, <1>9 DEF Flow

\* A dispatch is settled: only a rejection of the latest one takes the movement
\* back, and it left the target where it was.
LEMMA SettleFlow ==
  ASSUME TypeOK, Flow, DispatchInv, NEW p \in pending, NEW outcome \in Outcomes,
         Settle(p, outcome)
  PROVE  Flow'
<1>1. /\ replies' \subseteq replies
      /\ UNCHANGED <<early, target, inbox, wire, events, dispatchSequence>>
  BY DEF Settle
<1>2. CASE moving' = moving
  BY <1>1, <1>2, StillFlow
<1>3. CASE moving' # moving
  <2>1. /\ ~moving' /\ p.run = run /\ outcome = "rejected" /\ RollsBack(p)
    <3>1. ~(p.run = run /\ outcome = "ambiguous" /\ p.epoch = handleEpoch)
      BY <1>3 DEF Settle
    <3>2. moving' = (moving /\ ~(p.run = run /\ outcome = "rejected" /\ RollsBack(p)))
      BY <3>1 DEF Settle
    <3>3. moving \in BOOLEAN
      BY DEF TypeOK, FlagType
    <3> QED
      BY <1>3, <3>2, <3>3
  <2>2. p.id = dispatchSequence
    BY <2>1 DEF RollsBack, DispatchInv
  <2>3. [id |-> p.id, outcome |-> "rejected"] \in replies
    BY <2>1 DEF Settle
  <2>4. Live => target = "paused" /\ ~MoveSent /\ ~StopQueued
    BY <2>2, <2>3 DEF Flow, ReplyInv
  <2>5. /\ Live' <=> Live
        /\ MoveSent' <=> MoveSent
        /\ \A e : Queued(e)' <=> Queued(e)
    BY <1>1 DEF Live, MoveSent, MoveIn, Queued, Occurs
  <2>6. StopQueued' <=> StopQueued
    BY <2>5 DEF StopQueued
  <2>7. FlowInv'
    BY <1>1, <2>4, <2>5, <2>6 DEF Flow, FlowInv, StopQueued
  <2>8. QueueInv'
    BY <1>1, <2>5 DEF Flow, QueueInv, OneMove, StopLast, Occurs
  <2>9. ReplyInv'
    BY <1>1, <2>5, <2>6 DEF Flow, ReplyInv
  <2> QED
    BY <2>7, <2>8, <2>9 DEF Flow
<1> QED
  BY <1>2, <1>3

\* A new run begins with its entry stop on the way, or not at all.
LEMMA RestartFlow ==
  ASSUME TypeOK, Flow, NEW byHuman \in BOOLEAN, NEW opened \in BOOLEAN,
         Restart(byHuman, opened)
  PROVE  Flow'
<1>1. /\ inbox' = <<>> /\ events' = <<>> /\ replies' = {}
      /\ opened => wire' = <<"entry">> /\ target' = "paused"
      /\ ~opened => target' = "none"
  BY DEF Restart
<1>2. /\ \A e : Occurs(e, <<"entry">>) <=> e = "entry"
      /\ StopLast(<<"entry">>)
  BY DEF Occurs, StopLast
<1>3. ~MoveSent' /\ OneMove(inbox)' /\ StopLast(events)' /\ (\A e : ~Occurs(e, events)')
  BY <1>1, NoEvent DEF MoveSent, MoveIn, OneMove, StopLast, Occurs
<1>4. CASE opened
  <2>1. (\A e : Queued(e)' <=> e = "entry") /\ StopLast(wire)'
    BY <1>1, <1>2, <1>3, <1>4 DEF Queued, Occurs, StopLast
  <2> QED
    BY <1>1, <1>3, <1>4, <2>1
       DEF Flow, FlowInv, QueueInv, ReplyInv, StopQueued, Stops
<1>5. CASE ~opened
  BY <1>1, <1>5 DEF Flow, FlowInv, QueueInv, ReplyInv, Live
<1> QED
  BY <1>4, <1>5

\* Every step keeps to one movement at a time.
LEMMA FlowStep ==
  ASSUME TypeOK, Flow, DispatchInv, Next
  PROVE  Flow'
<1>1. ASSUME HumanPreemptsAgent
      PROVE  Flow'
  BY <1>1, StillFlow DEF HumanPreemptsAgent
<1>2. ASSUME HumanMoveRefused
      PROVE  Flow'
  BY <1>2, StillFlow DEF HumanMoveRefused
<1>3. ASSUME HumanPause
      PROVE  Flow'
  BY <1>3, StillFlow DEF HumanPause
<1>4. ASSUME EditorPause
      PROVE  Flow'
  BY <1>4, StillFlow DEF EditorPause
<1>5. ASSUME NEW verb \in Verbs, HumanMoveFenced(verb)
      PROVE  Flow'
  BY <1>5, StillFlow DEF HumanMoveFenced
<1>6. ASSUME NEW verb \in Verbs, HumanMove(verb)
      PROVE  Flow'
  BY <1>6, DispatchFlow DEF HumanMove
<1>7. ASSUME NEW verb \in Verbs, EditorMove(verb)
      PROVE  Flow'
  <2>1. CASE Busy
    BY <1>7, <2>1, StillFlow DEF EditorMove, NoDispatch
  <2>2. CASE ~Busy
    BY <1>7, <2>2, DispatchFlow DEF EditorMove
  <2> QED
    BY <2>1, <2>2
<1>8. ASSUME AgentPause
      PROVE  Flow'
  BY <1>8, StillFlow DEF AgentPause
<1>9. ASSUME AgentMoveRefused
      PROVE  Flow'
  BY <1>9, StillFlow DEF AgentMoveRefused
<1>10. ASSUME CompleteTask
      PROVE  Flow'
  BY <1>10, StillFlow DEF CompleteTask
<1>11. ASSUME NEW verb \in Verbs, AgentMoveFenced(verb)
      PROVE  Flow'
  BY <1>11, StillFlow DEF AgentMoveFenced
<1>12. ASSUME NEW verb \in Verbs, AgentMove(verb)
      PROVE  Flow'
  BY <1>12, DispatchFlow DEF AgentMove
<1>13. ASSUME Bind
      PROVE  Flow'
  BY <1>13, StillFlow DEF Bind
<1>14. ASSUME Touch
      PROVE  Flow'
  BY <1>14, StillFlow DEF Touch
<1>15. ASSUME Shutdown
      PROVE  Flow'
  BY <1>15, PauseFlow DEF Shutdown
<1>16. ASSUME LeaseLapses
      PROVE  Flow'
  BY <1>16, StillFlow DEF LeaseLapses
<1>17. ASSUME MaintainTask
      PROVE  Flow'
  BY <1>17, StillFlow DEF MaintainTask
<1>18. ASSUME NEW saved \in BOOLEAN, GrantTask(saved)
      PROVE  Flow'
  BY <1>18, StillFlow DEF GrantTask
<1>19. ASSUME NEW byHuman \in BOOLEAN, CancelTaskAction(byHuman)
      PROVE  Flow'
  BY <1>19, StillFlow DEF CancelTaskAction
<1>20. ASSUME NEW byHuman \in BOOLEAN, StopRefused(byHuman)
      PROVE  Flow'
  BY <1>20, StillFlow DEF StopRefused
<1>21. ASSUME NEW byHuman \in BOOLEAN, StopTarget(byHuman)
      PROVE  Flow'
  BY <1>21, DeadFlow DEF StopTarget, Live
<1>22. ASSUME NEW byHuman \in BOOLEAN, NEW opened \in BOOLEAN, Restart(byHuman, opened)
      PROVE  Flow'
  BY <1>22, RestartFlow
<1>23. ASSUME AdapterRejects
      PROVE  Flow'
  BY <1>23, RejectFlow
<1>24. ASSUME AdapterPauses
      PROVE  Flow'
  <2>1. CASE target = "running"
    BY <1>24, <2>1, HaltFlow DEF AdapterPauses, Stops
  <2>2. CASE target # "running"
    BY <1>24, <2>2, IdlePauseFlow DEF AdapterPauses
  <2> QED
    BY <2>1, <2>2
<1>25. ASSUME NEW announce \in BOOLEAN, AdapterAccepts(announce)
      PROVE  Flow'
  BY <1>25, AcceptFlow
<1>26. ASSUME NEW kind \in {"breakpoint", "tracepoint", "exited"}, TargetHalts(kind)
      PROVE  Flow'
  <2>1. CASE kind = "exited"
    BY <1>26, <2>1, DeadFlow DEF TargetHalts, Live
  <2>2. CASE kind # "exited"
    BY <1>26, <2>2, HaltFlow DEF TargetHalts, Stops
  <2> QED
    BY <2>1, <2>2
<1>27. ASSUME LinkLost
      PROVE  Flow'
  BY <1>27, StillFlow DEF LinkLost
<1>28. ASSUME ReadEvent
      PROVE  Flow'
  BY <1>28, ReadFlow
<1>29. ASSUME NEW saved \in BOOLEAN, WatchEvent(saved)
      PROVE  Flow'
  BY <1>29, WatchFlow
<1>30. ASSUME NEW p \in pending, NEW outcome \in Outcomes, Settle(p, outcome)
      PROVE  Flow'
  BY <1>30, SettleFlow
<1>31. ASSUME NEW c \in captures, CaptureResumes(c)
      PROVE  Flow'
  BY <1>31, DispatchFlow DEF CaptureResumes
<1>32. ASSUME NEW c \in captures, CaptureLapses(c)
      PROVE  Flow'
  BY <1>32, StillFlow DEF CaptureLapses
<1>33. ASSUME NEW c \in captures, NEW complete \in BOOLEAN, CaptureEnds(c, complete)
      PROVE  Flow'
  BY <1>33, StillFlow DEF CaptureEnds
<1>34. ASSUME NEW w \in workers, WorkerCheck(w)
      PROVE  Flow'
  BY <1>34, StillFlow DEF WorkerCheck, WorkerKeeps
<1>35. ASSUME NEW w \in workers, WorkerSend(w)
      PROVE  Flow'
  BY <1>35, PauseFlow DEF WorkerSend, WorkerKeeps
<1>36. ASSUME NEW w \in workers, WorkerGivesUp(w)
      PROVE  Flow'
  BY <1>36, StillFlow DEF WorkerGivesUp, WorkerKeeps
<1> QED
  BY <1>1, <1>2, <1>3, <1>4, <1>5, <1>6, <1>7, <1>8, <1>9, <1>10, <1>11, <1>12,
     <1>13, <1>14, <1>15, <1>16, <1>17, <1>18, <1>19, <1>20, <1>21, <1>22,
     <1>23, <1>24, <1>25, <1>26, <1>27, <1>28, <1>29, <1>30, <1>31, <1>32,
     <1>33, <1>34, <1>35, <1>36
     DEF Next, Human, Agent, Session, Adapter, Target, Watch, Settles, WorkerStep, Capture
============================================================================
