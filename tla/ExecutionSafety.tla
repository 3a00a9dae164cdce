-------------------------- MODULE ExecutionSafety --------------------------
(***************************************************************************)
(* The inductive invariant IInv of Execution, one part at a time, and the  *)
(* safety and action properties that follow from it.                       *)
(***************************************************************************)
EXTENDS ExecutionProofs

USE DEF ended, intent, fence, scope, client, world

----------------------------------------------------------------------------
(* Dispatches, the fence and its workers.                                  *)

FenceInv == DispatchInv /\ WorkerInv /\ OneInterrupter

\* An interruption of a movement that is not fenced yet: its worker is the only
\* one of this run, and no dispatch owns the new epoch.
LEMMA InterruptFence ==
  ASSUME TypeOK, FenceInv, ~interrupting, NEW P, InterruptDAP(P),
         pending' \subseteq pending, UNCHANGED <<run, dispatchSequence>>
  PROVE  FenceInv'
<1>1. CASE Settled(P)
  <2>1. UNCHANGED <<interrupting, handleEpoch, workers>>
    BY <1>1 DEF InterruptDAP
  <2> QED
    BY <2>1 DEF FenceInv, DispatchInv, WorkerInv, OneInterrupter
<1>2. CASE ~Settled(P)
  <2>1. /\ interrupting'
        /\ handleEpoch' = handleEpoch + 1
        /\ workers' = workers \cup {[n |-> handleEpoch + 1, run |-> run, pc |-> "check"]}
    BY <1>2 DEF InterruptDAP
  <2>2. \A w \in workers : w.run # run
    BY DEF FenceInv, WorkerInv
  <2>3. DispatchInv'
    BY <2>1 DEF FenceInv, DispatchInv, Dispatch, TypeOK, ControlType
  <2>4. WorkerInv'
    BY <2>1 DEF FenceInv, WorkerInv, Worker, TypeOK, ControlType
  <2>5. OneInterrupter'
    BY <2>1, <2>2 DEF OneInterrupter
  <2> QED
    BY <2>3, <2>4, <2>5 DEF FenceInv
<1> QED
  BY <1>1, <1>2

\* interruptExecution adds a worker only when no fence is up.
LEMMA InterruptExecutionFence ==
  ASSUME TypeOK, FenceInv, NEW n \in Nat, InterruptExecution(n),
         UNCHANGED <<run, dispatchSequence, pending>>
  PROVE  FenceInv'
<1>1. CASE interrupting
  <2>1. UNCHANGED <<interrupting, handleEpoch, workers>>
    BY <1>1 DEF InterruptExecution
  <2> QED
    BY <2>1 DEF FenceInv, DispatchInv, WorkerInv, OneInterrupter
<1>2. CASE ~interrupting
  BY <1>2, InterruptFence DEF InterruptExecution
<1> QED
  BY <1>1, <1>2

\* A dispatch takes the next number and the next epoch.
LEMMA DispatchFence ==
  ASSUME TypeOK, FenceInv, DispatchDAP, run' = run
  PROVE  FenceInv'
<1> USE DEF FenceInv, DispatchDAP, TypeOK, ControlType
<1>1. DispatchInv'
  BY DEF DispatchInv, Dispatch, Busy
<1>2. WorkerInv' /\ OneInterrupter'
  BY DEF WorkerInv, OneInterrupter
<1> QED
  BY <1>1, <1>2

\* A step that starts neither a dispatch nor an interruption.
LEMMA StillFence ==
  ASSUME TypeOK, FenceInv, pending' \subseteq pending,
         handleEpoch' = handleEpoch \/ handleEpoch' = handleEpoch + 1,
         UNCHANGED <<run, dispatchSequence, interrupting, workers>>
  PROVE  FenceInv'
<1> USE DEF FenceInv, TypeOK, ControlType
<1>1. DispatchInv'
  BY DEF DispatchInv, Dispatch
<1>2. WorkerInv' /\ OneInterrupter'
  BY DEF WorkerInv, OneInterrupter
<1> QED
  BY <1>1, <1>2

\* The new fence has its worker.
LEMMA InterruptOwner ==
  ASSUME FenceHasOwner, NEW P, InterruptDAP(P), UNCHANGED <<run, stopped, gaveUp>>
  PROVE  FenceHasOwner'
<1>1. CASE Settled(P)
  BY <1>1 DEF InterruptDAP, FenceHasOwner
<1>2. CASE ~Settled(P)
  <2>1. [n |-> handleEpoch + 1, run |-> run, pc |-> "check"] \in workers'
    BY <1>2 DEF InterruptDAP
  <2> QED
    BY <2>1 DEF FenceHasOwner
<1> QED
  BY <1>1, <1>2

\* And keeps the one it has.
LEMMA InterruptExecutionOwner ==
  ASSUME FenceHasOwner, NEW n, InterruptExecution(n), UNCHANGED <<run, stopped, gaveUp>>
  PROVE  FenceHasOwner'
<1>1. CASE interrupting
  BY <1>1 DEF InterruptExecution, FenceHasOwner
<1>2. CASE ~interrupting
  BY <1>2, InterruptOwner DEF InterruptExecution
<1> QED
  BY <1>1, <1>2

\* A dispatch leaves the fence alone.
LEMMA DispatchOwner ==
  ASSUME FenceHasOwner, DispatchDAP, UNCHANGED <<run, stopped, gaveUp>>
  PROVE  FenceHasOwner'
  BY DEF FenceHasOwner, DispatchDAP

\* So does every step that neither interrupts nor settles an interruption; the
\* session may end.
LEMMA StillOwner ==
  ASSUME FenceHasOwner, UNCHANGED <<run, gaveUp, interrupting, workers>>,
         stopped => stopped'
  PROVE  FenceHasOwner'
  BY DEF FenceHasOwner

\* A worker that goes on or returns leaves the others as they were.
LEMMA WorkerFence ==
  ASSUME TypeOK, FenceInv, NEW w \in workers, NEW pc \in {"check", "send"},
         WorkerReturns(w) \/ WorkerGoes(w, pc),
         UNCHANGED <<run, handleEpoch, dispatchSequence, pending, interrupting>>
  PROVE  FenceInv'
<1>1. \A v \in workers' : \E u \in workers : v.run = u.run /\ (v = u \/ v = [w EXCEPT !.pc = pc])
  BY DEF WorkerReturns, WorkerGoes, TypeOK, ControlType, Worker
<1>2. DispatchInv'
  BY DEF FenceInv, DispatchInv
<1>3. WorkerInv'
  BY <1>1 DEF FenceInv, WorkerInv
<1>4. OneInterrupter'
  <2>1. CASE WorkerReturns(w)
    BY <2>1 DEF WorkerReturns, FenceInv, OneInterrupter
  <2>2. CASE WorkerGoes(w, pc)
    <3>1. [w EXCEPT !.pc = pc].run = w.run
      BY DEF TypeOK, ControlType, Worker
    <3> QED
      BY <2>2, <3>1 DEF WorkerGoes, FenceInv, OneInterrupter
  <2> QED
    BY <2>1, <2>2
<1> QED
  BY <1>2, <1>3, <1>4 DEF FenceInv

\* A worker of this run that goes on still owns the fence.
LEMMA WorkerOwner ==
  ASSUME TypeOK, FenceHasOwner, NEW w \in workers, NEW pc \in {"check", "send"},
         \/ WorkerGoes(w, pc)
         \/ WorkerReturns(w) /\ (w.run # run \/ stopped \/ gaveUp'),
         gaveUp => gaveUp',
         UNCHANGED <<run, stopped, interrupting>>
  PROVE  FenceHasOwner'
<1>1. CASE WorkerGoes(w, pc)
  <2>1. [w EXCEPT !.pc = pc].run = w.run /\ [w EXCEPT !.pc = pc] \in workers'
    BY <1>1 DEF WorkerGoes, TypeOK, ControlType, Worker
  <2> QED
    BY <1>1, <2>1 DEF WorkerGoes, FenceHasOwner
<1>2. CASE WorkerReturns(w) /\ (w.run # run \/ stopped \/ gaveUp')
  BY <1>2 DEF WorkerReturns, FenceHasOwner
<1> QED
  BY <1>1, <1>2

\* Every step keeps the fence in order.
LEMMA FenceStep ==
  ASSUME TypeOK, FenceInv, FenceHasOwner, Next
  PROVE  FenceInv' /\ FenceHasOwner'
<1>1. ASSUME HumanPreemptsAgent
      PROVE  FenceInv' /\ FenceHasOwner'
  BY <1>1, InterruptExecutionFence, InterruptExecutionOwner DEF HumanPreemptsAgent
<1>2. ASSUME HumanMoveRefused
      PROVE  FenceInv' /\ FenceHasOwner'
  BY <1>2, StillFence, StillOwner DEF HumanMoveRefused
<1>3. ASSUME HumanPause
      PROVE  FenceInv' /\ FenceHasOwner'
  BY <1>3, InterruptExecutionFence, InterruptExecutionOwner DEF HumanPause
<1>4. ASSUME EditorPause
      PROVE  FenceInv' /\ FenceHasOwner'
  BY <1>4, InterruptExecutionFence, InterruptExecutionOwner DEF EditorPause
<1>5. ASSUME NEW verb \in Verbs, HumanMoveFenced(verb)
      PROVE  FenceInv' /\ FenceHasOwner'
  BY <1>5, StillFence, StillOwner DEF HumanMoveFenced
<1>6. ASSUME NEW verb \in Verbs, HumanMove(verb)
      PROVE  FenceInv' /\ FenceHasOwner'
  BY <1>6, DispatchFence, DispatchOwner DEF HumanMove
<1>7. ASSUME NEW verb \in Verbs, EditorMove(verb)
      PROVE  FenceInv' /\ FenceHasOwner'
  <2>1. CASE Busy
    BY <1>7, <2>1, StillFence, StillOwner DEF EditorMove, NoDispatch
  <2>2. CASE ~Busy
    BY <1>7, <2>2, DispatchFence, DispatchOwner DEF EditorMove
  <2> QED
    BY <2>1, <2>2
<1>8. ASSUME AgentPause
      PROVE  FenceInv' /\ FenceHasOwner'
  BY <1>8, InterruptExecutionFence, InterruptExecutionOwner DEF AgentPause
<1>9. ASSUME AgentMoveRefused
      PROVE  FenceInv' /\ FenceHasOwner'
  BY <1>9, StillFence, StillOwner DEF AgentMoveRefused
<1>10. ASSUME CompleteTask
      PROVE  FenceInv' /\ FenceHasOwner'
  BY <1>10, StillFence, StillOwner DEF CompleteTask
<1>11. ASSUME NEW verb \in Verbs, AgentMoveFenced(verb)
      PROVE  FenceInv' /\ FenceHasOwner'
  BY <1>11, StillFence, StillOwner DEF AgentMoveFenced
<1>12. ASSUME NEW verb \in Verbs, AgentMove(verb)
      PROVE  FenceInv' /\ FenceHasOwner'
  BY <1>12, DispatchFence, DispatchOwner DEF AgentMove
<1>13. ASSUME Bind
      PROVE  FenceInv' /\ FenceHasOwner'
  BY <1>13, InterruptExecutionFence, InterruptExecutionOwner DEF Bind
<1>14. ASSUME Touch
      PROVE  FenceInv' /\ FenceHasOwner'
  BY <1>14, StillFence, StillOwner DEF Touch
<1>15. ASSUME Shutdown
      PROVE  FenceInv' /\ FenceHasOwner'
  BY <1>15, StillFence, StillOwner DEF Shutdown
<1>16. ASSUME LeaseLapses
      PROVE  FenceInv' /\ FenceHasOwner'
  BY <1>16, StillFence, StillOwner DEF LeaseLapses
<1>17. ASSUME MaintainTask
      PROVE  FenceInv' /\ FenceHasOwner'
  BY <1>17, InterruptExecutionFence, InterruptExecutionOwner DEF MaintainTask
<1>18. ASSUME NEW saved \in BOOLEAN, GrantTask(saved)
      PROVE  FenceInv' /\ FenceHasOwner'
  BY <1>18, StillFence, StillOwner DEF GrantTask
<1>19. ASSUME NEW byHuman \in BOOLEAN, CancelTaskAction(byHuman)
      PROVE  FenceInv' /\ FenceHasOwner'
  BY <1>19, InterruptExecutionFence, InterruptExecutionOwner DEF CancelTaskAction
<1>20. ASSUME NEW byHuman \in BOOLEAN, StopRefused(byHuman)
      PROVE  FenceInv' /\ FenceHasOwner'
  BY <1>20, StillFence, StillOwner DEF StopRefused
<1>21. ASSUME NEW byHuman \in BOOLEAN, StopTarget(byHuman)
      PROVE  FenceInv' /\ FenceHasOwner'
  BY <1>21, StillFence, StillOwner DEF StopTarget
<1>22. ASSUME NEW byHuman \in BOOLEAN, NEW opened \in BOOLEAN, Restart(byHuman, opened)
      PROVE  FenceInv' /\ FenceHasOwner'
  BY <1>22
     DEF Restart, FenceInv, DispatchInv, WorkerInv, OneInterrupter,
         FenceHasOwner,
        TypeOK, ControlType, FlagType, Dispatch, Worker
<1>23. ASSUME AdapterRejects
      PROVE  FenceInv' /\ FenceHasOwner'
  BY <1>23, StillFence, StillOwner DEF AdapterRejects
<1>24. ASSUME AdapterPauses
      PROVE  FenceInv' /\ FenceHasOwner'
  BY <1>24, StillFence, StillOwner DEF AdapterPauses
<1>25. ASSUME NEW announce \in BOOLEAN, AdapterAccepts(announce)
      PROVE  FenceInv' /\ FenceHasOwner'
  BY <1>25, StillFence, StillOwner DEF AdapterAccepts
<1>26. ASSUME NEW kind \in {"breakpoint", "tracepoint", "exited"}, TargetHalts(kind)
      PROVE  FenceInv' /\ FenceHasOwner'
  BY <1>26, StillFence, StillOwner DEF TargetHalts
<1>27. ASSUME LinkLost
      PROVE  FenceInv' /\ FenceHasOwner'
  BY <1>27, StillFence, StillOwner DEF LinkLost
<1>28. ASSUME ReadEvent
      PROVE  FenceInv' /\ FenceHasOwner'
  BY <1>28, StillFence, StillOwner DEF ReadEvent
<1>29. ASSUME NEW saved \in BOOLEAN, WatchEvent(saved)
      PROVE  FenceInv' /\ FenceHasOwner'
  BY <1>29, StillFence, StillOwner DEF WatchEvent
<1>30. ASSUME NEW p \in pending, NEW outcome \in Outcomes, Settle(p, outcome)
      PROVE  FenceInv' /\ FenceHasOwner'
  <2>1. CASE p.run = run /\ outcome = "ambiguous" /\ p.epoch = handleEpoch
    <3>1. ~interrupting
      BY <2>1 DEF FenceInv, DispatchInv
    <3>2. InterruptDAP(pending \ {p}) /\ pending' \subseteq pending
      BY <1>30, <2>1 DEF Settle
    <3> QED
      BY <1>30, <3>1, <3>2, InterruptFence, InterruptOwner DEF Settle
  <2>2. CASE ~(p.run = run /\ outcome = "ambiguous" /\ p.epoch = handleEpoch)
    <3>1. UNCHANGED <<interrupting, handleEpoch, workers>> /\ pending' \subseteq pending
      BY <1>30, <2>2 DEF Settle
    <3> QED
      BY <1>30, <3>1, StillFence, StillOwner DEF Settle
  <2> QED
    BY <2>1, <2>2
<1>31. ASSUME NEW c \in captures, CaptureResumes(c)
      PROVE  FenceInv' /\ FenceHasOwner'
  BY <1>31, DispatchFence, DispatchOwner DEF CaptureResumes
<1>32. ASSUME NEW c \in captures, CaptureLapses(c)
      PROVE  FenceInv' /\ FenceHasOwner'
  BY <1>32, InterruptExecutionFence, InterruptExecutionOwner DEF CaptureLapses
<1>33. ASSUME NEW c \in captures, NEW complete \in BOOLEAN, CaptureEnds(c, complete)
      PROVE  FenceInv' /\ FenceHasOwner'
  BY <1>33, StillFence, StillOwner DEF CaptureEnds
<1>34. ASSUME NEW w \in workers, WorkerCheck(w)
      PROVE  FenceInv' /\ FenceHasOwner'
  <2>1. UNCHANGED <<run, stopped, handleEpoch, dispatchSequence, pending, gaveUp>>
    BY <1>34 DEF WorkerCheck, WorkerKeeps
  <2>2. CASE w.run # run
    BY <1>34, <2>1, <2>2, WorkerFence, WorkerOwner DEF WorkerCheck
  <2>3. CASE w.run = run /\ Settled(pending)
    <3>1. WorkerReturns(w) /\ ~interrupting'
      BY <1>34, <2>3 DEF WorkerCheck
    <3>2. \A v \in workers' : v \in workers /\ v.run # run
      BY <2>3, <3>1 DEF WorkerReturns, FenceInv, OneInterrupter
    <3> QED
      BY <2>1, <3>1, <3>2
         DEF FenceInv, DispatchInv, WorkerInv, OneInterrupter, FenceHasOwner
  <2>4. CASE w.run = run /\ ~Settled(pending)
    <3>1. WorkerGoes(w, "send") /\ UNCHANGED interrupting
      BY <1>34, <2>4 DEF WorkerCheck
    <3> QED
      BY <2>1, <3>1, WorkerFence, WorkerOwner
  <2> QED
    BY <2>2, <2>3, <2>4
<1>35. ASSUME NEW w \in workers, WorkerSend(w)
      PROVE  FenceInv' /\ FenceHasOwner'
  BY <1>35, WorkerFence, WorkerOwner DEF WorkerSend, WorkerKeeps, AfterPause
<1>36. ASSUME NEW w \in workers, WorkerGivesUp(w)
      PROVE  FenceInv' /\ FenceHasOwner'
  <2>1. WorkerReturns(w) /\ gaveUp' /\ UNCHANGED <<run, stopped, interrupting>>
    BY <1>36 DEF WorkerGivesUp, WorkerKeeps
  <2> QED
    BY <1>36, <2>1, WorkerFence, WorkerOwner DEF WorkerGivesUp, WorkerKeeps
<1> QED
  BY <1>1, <1>2, <1>3, <1>4, <1>5, <1>6, <1>7, <1>8, <1>9, <1>10, <1>11, <1>12,
     <1>13, <1>14, <1>15, <1>16, <1>17, <1>18, <1>19, <1>20, <1>21, <1>22,
     <1>23, <1>24, <1>25, <1>26, <1>27, <1>28, <1>29, <1>30, <1>31, <1>32,
     <1>33, <1>34, <1>35, <1>36
     DEF Next, Human, Agent, Session, Adapter, Target, Watch, Settles, WorkerStep, Capture

----------------------------------------------------------------------------
(* Grants, holds and captures.                                             *)

\* An interruption moves the epoch by one, or not at all.
LEMMA InterruptEpoch ==
  ASSUME NEW n \in Nat, InterruptExecution(n)
  PROVE  /\ Disarm(n + 1)
         /\ handleEpoch' = handleEpoch \/ handleEpoch' = handleEpoch + 1
  BY DEF InterruptExecution, InterruptDAP

\* Every step keeps grants, holds and captures in order.
LEMMA GrantStep ==
  ASSUME TypeOK, GrantInv, HoldInv, CaptureInv, Next
  PROVE  GrantInv' /\ HoldInv' /\ CaptureInv'
<1>1. ASSUME HumanPreemptsAgent
      PROVE  GrantInv' /\ HoldInv' /\ CaptureInv'
  <2>1. /\ Disarm(2)
        /\ (handleEpoch' = handleEpoch \/ handleEpoch' = handleEpoch + 1)
    BY <1>1, InterruptEpoch DEF HumanPreemptsAgent
  <2>2. GrantInv'
    BY <1>1, <2>1
       DEF HumanPreemptsAgent, CancelTask, ActiveTask, Disarm,
           CancelledTask, GrantInv, NoTask, TypeOK, ControlType, IntentType,
           TaskRecord
  <2>3. HoldInv'
    BY <1>1, <2>1
       DEF HumanPreemptsAgent, CancelTask, ActiveTask, Disarm,
           CancelledTask, HoldInv, MayResumeCapture, Armed, Verbs
  <2>4. CaptureInv'
    BY <1>1, <2>1
       DEF HumanPreemptsAgent, CancelTask, ActiveTask, Disarm,
           CancelledTask, CaptureInv, TypeOK, ControlType, Job
  <2> QED
    BY <2>2, <2>3, <2>4
<1>2. ASSUME HumanMoveRefused
      PROVE  GrantInv' /\ HoldInv' /\ CaptureInv'
  <2>1. GrantInv'
    BY <1>2
       DEF HumanMoveRefused, CancelTask, Disarm, ActiveTask, CancelledTask,
           GrantInv, NoTask, TypeOK, ControlType, IntentType, TaskRecord
  <2>2. HoldInv'
    BY <1>2
       DEF HumanMoveRefused, CancelTask, Disarm, ActiveTask, CancelledTask,
           HoldInv, MayResumeCapture, Armed, Verbs
  <2>3. CaptureInv'
    BY <1>2
       DEF HumanMoveRefused, CancelTask, Disarm, ActiveTask, CancelledTask,
           CaptureInv, TypeOK, ControlType, Job
  <2> QED
    BY <2>1, <2>2, <2>3
<1>3. ASSUME HumanPause
      PROVE  GrantInv' /\ HoldInv' /\ CaptureInv'
  <2>1. /\ Disarm(2)
        /\ (handleEpoch' = handleEpoch \/ handleEpoch' = handleEpoch + 1)
    BY <1>3, InterruptEpoch DEF HumanPause
  <2>2. GrantInv'
    BY <1>3, <2>1
       DEF HumanPause, CancelTask, Disarm, CancelledTask, ActiveTask,
           GrantInv, NoTask, TypeOK, ControlType, IntentType, TaskRecord
  <2>3. HoldInv'
    BY <1>3, <2>1
       DEF HumanPause, CancelTask, Disarm, CancelledTask, ActiveTask,
           HoldInv, MayResumeCapture, Armed, Verbs
  <2>4. CaptureInv'
    BY <1>3, <2>1
       DEF HumanPause, CancelTask, Disarm, CancelledTask, ActiveTask,
           CaptureInv, TypeOK, ControlType, Job
  <2> QED
    BY <2>2, <2>3, <2>4
<1>4. ASSUME EditorPause
      PROVE  GrantInv' /\ HoldInv' /\ CaptureInv'
  <2>1. /\ Disarm(2)
        /\ (handleEpoch' = handleEpoch \/ handleEpoch' = handleEpoch + 1)
    BY <1>4, InterruptEpoch DEF EditorPause
  <2>2. GrantInv'
    BY <1>4, <2>1
       DEF EditorPause, CancelTask, Disarm, CancelledTask, ActiveTask,
           GrantInv, NoTask, TypeOK, ControlType, IntentType, TaskRecord
  <2>3. HoldInv'
    BY <1>4, <2>1
       DEF EditorPause, CancelTask, Disarm, CancelledTask, ActiveTask,
           HoldInv, MayResumeCapture, Armed, Verbs
  <2>4. CaptureInv'
    BY <1>4, <2>1
       DEF EditorPause, CancelTask, Disarm, CancelledTask, ActiveTask,
           CaptureInv, TypeOK, ControlType, Job
  <2> QED
    BY <2>2, <2>3, <2>4
<1>5. ASSUME NEW verb \in Verbs, HumanMoveFenced(verb)
      PROVE  GrantInv' /\ HoldInv' /\ CaptureInv'
  <2>1. GrantInv'
    BY <1>5
       DEF HumanMoveFenced, Arm, ActiveTask, GrantInv, NoTask, TypeOK,
           ControlType, IntentType, TaskRecord
  <2>2. HoldInv'
    BY <1>5
       DEF HumanMoveFenced, Arm, ActiveTask, HoldInv, MayResumeCapture,
           Armed, Verbs
  <2>3. CaptureInv'
    BY <1>5
       DEF HumanMoveFenced, Arm, ActiveTask, CaptureInv, TypeOK,
           ControlType, Job
  <2> QED
    BY <2>1, <2>2, <2>3
<1>6. ASSUME NEW verb \in Verbs, HumanMove(verb)
      PROVE  GrantInv' /\ HoldInv' /\ CaptureInv'
  <2>1. GrantInv'
    BY <1>6
       DEF HumanMove, CancelTask, DispatchDAP, Arm, ActiveTask,
           CancelledTask, GrantInv, NoTask, TypeOK, ControlType, IntentType,
           TaskRecord
  <2>2. HoldInv'
    BY <1>6
       DEF HumanMove, CancelTask, DispatchDAP, Arm, ActiveTask,
           CancelledTask, HoldInv, MayResumeCapture, Armed, Verbs
  <2>3. CaptureInv'
    BY <1>6
       DEF HumanMove, CancelTask, DispatchDAP, Arm, ActiveTask,
           CancelledTask, CaptureInv, TypeOK, ControlType, Job
  <2> QED
    BY <2>1, <2>2, <2>3
<1>7. ASSUME NEW verb \in Verbs, EditorMove(verb)
      PROVE  GrantInv' /\ HoldInv' /\ CaptureInv'
  <2>1. GrantInv'
    BY <1>7
       DEF EditorMove, CancelTask, NoDispatch, DispatchDAP, Arm, ActiveTask,
           CancelledTask, GrantInv, NoTask, TypeOK, ControlType, IntentType,
           TaskRecord
  <2>2. HoldInv'
    BY <1>7
       DEF EditorMove, CancelTask, NoDispatch, DispatchDAP, Arm, ActiveTask,
           CancelledTask, HoldInv, MayResumeCapture, Armed, Verbs
  <2>3. CaptureInv'
    BY <1>7
       DEF EditorMove, CancelTask, NoDispatch, DispatchDAP, Arm, ActiveTask,
           CancelledTask, CaptureInv, TypeOK, ControlType, Job
  <2> QED
    BY <2>1, <2>2, <2>3
<1>8. ASSUME AgentPause
      PROVE  GrantInv' /\ HoldInv' /\ CaptureInv'
  <2>1. /\ Disarm(1)
        /\ (handleEpoch' = handleEpoch \/ handleEpoch' = handleEpoch + 1)
    BY <1>8, InterruptEpoch DEF AgentPause
  <2>2. GrantInv'
    BY <1>8, <2>1
       DEF AgentPause, UseTask, Disarm, GrantInv, NoTask, TypeOK,
           ControlType, IntentType, TaskRecord
  <2>3. HoldInv'
    BY <1>8, <2>1
       DEF AgentPause, UseTask, Disarm, HoldInv, MayResumeCapture, Armed,
           Verbs
  <2>4. CaptureInv'
    BY <1>8, <2>1
       DEF AgentPause, UseTask, Disarm, CaptureInv, TypeOK, ControlType, Job
  <2> QED
    BY <2>2, <2>3, <2>4
<1>9. ASSUME AgentMoveRefused
      PROVE  GrantInv' /\ HoldInv' /\ CaptureInv'
  <2>1. GrantInv'
    BY <1>9
       DEF AgentMoveRefused, UseTask, GrantInv, NoTask, TypeOK, ControlType,
           IntentType, TaskRecord
  <2>2. HoldInv'
    BY <1>9 DEF AgentMoveRefused, UseTask, HoldInv, MayResumeCapture, Armed, Verbs
  <2>3. CaptureInv'
    BY <1>9 DEF AgentMoveRefused, UseTask, CaptureInv, TypeOK, ControlType, Job
  <2> QED
    BY <2>1, <2>2, <2>3
<1>10. ASSUME CompleteTask
      PROVE  GrantInv' /\ HoldInv' /\ CaptureInv'
  <2>1. GrantInv'
    BY <1>10
       DEF CompleteTask, CompletedTask, ActiveTask, GrantInv, NoTask,
           TypeOK, ControlType, IntentType, TaskRecord
  <2>2. HoldInv'
    BY <1>10
       DEF CompleteTask, CompletedTask, ActiveTask, HoldInv,
           MayResumeCapture, Armed, Verbs
  <2>3. CaptureInv'
    BY <1>10
       DEF CompleteTask, CompletedTask, ActiveTask, CaptureInv, TypeOK,
           ControlType, Job
  <2> QED
    BY <2>1, <2>2, <2>3
<1>11. ASSUME NEW verb \in Verbs, AgentMoveFenced(verb)
      PROVE  GrantInv' /\ HoldInv' /\ CaptureInv'
  <2>1. GrantInv'
    BY <1>11
       DEF AgentMoveFenced, UseTask, Arm, GrantInv, NoTask, TypeOK,
           ControlType, IntentType, TaskRecord
  <2>2. HoldInv'
    BY <1>11
       DEF AgentMoveFenced, UseTask, Arm, HoldInv, MayResumeCapture, Armed,
           Verbs
  <2>3. CaptureInv'
    BY <1>11
       DEF AgentMoveFenced, UseTask, Arm, CaptureInv, TypeOK, ControlType,
           Job
  <2> QED
    BY <2>1, <2>2, <2>3
<1>12. ASSUME NEW verb \in Verbs, AgentMove(verb)
      PROVE  GrantInv' /\ HoldInv' /\ CaptureInv'
  <2>1. GrantInv'
    BY <1>12
       DEF AgentMove, UseTask, DispatchDAP, Arm, GrantInv, NoTask, TypeOK,
           ControlType, IntentType, TaskRecord
  <2>2. HoldInv'
    BY <1>12
       DEF AgentMove, UseTask, DispatchDAP, Arm, HoldInv, MayResumeCapture,
           Armed, Verbs
  <2>3. CaptureInv'
    BY <1>12
       DEF AgentMove, UseTask, DispatchDAP, Arm, CaptureInv, TypeOK,
           ControlType, Job
  <2> QED
    BY <2>1, <2>2, <2>3
<1>13. ASSUME Bind
      PROVE  GrantInv' /\ HoldInv' /\ CaptureInv'
  <2>1. /\ Disarm(1)
        /\ (handleEpoch' = handleEpoch \/ handleEpoch' = handleEpoch + 1)
    BY <1>13, InterruptEpoch DEF Bind
  <2>2. GrantInv'
    BY <1>13, <2>1
       DEF Bind, CancelledTask, Disarm, ActiveTask, GrantInv, NoTask,
           TypeOK, ControlType, IntentType, TaskRecord
  <2>3. HoldInv'
    BY <1>13, <2>1
       DEF Bind, CancelledTask, Disarm, ActiveTask, HoldInv,
           MayResumeCapture, Armed, Verbs
  <2>4. CaptureInv'
    BY <1>13, <2>1
       DEF Bind, CancelledTask, Disarm, ActiveTask, CaptureInv, TypeOK,
           ControlType, Job
  <2> QED
    BY <2>2, <2>3, <2>4
<1>14. ASSUME Touch
      PROVE  GrantInv' /\ HoldInv' /\ CaptureInv'
  <2>1. GrantInv'
    BY <1>14
       DEF Touch, GrantInv, NoTask, TypeOK, ControlType, IntentType,
           TaskRecord
  <2>2. HoldInv'
    BY <1>14 DEF Touch, HoldInv, MayResumeCapture, Armed, Verbs
  <2>3. CaptureInv'
    BY <1>14 DEF Touch, CaptureInv, TypeOK, ControlType, Job
  <2> QED
    BY <2>1, <2>2, <2>3
<1>15. ASSUME Shutdown
      PROVE  GrantInv' /\ HoldInv' /\ CaptureInv'
  <2>1. GrantInv'
    BY <1>15
       DEF Shutdown, GrantInv, NoTask, TypeOK, ControlType, IntentType,
           TaskRecord
  <2>2. HoldInv'
    BY <1>15 DEF Shutdown, HoldInv, MayResumeCapture, Armed, Verbs
  <2>3. CaptureInv'
    BY <1>15 DEF Shutdown, CaptureInv, TypeOK, ControlType, Job
  <2> QED
    BY <2>1, <2>2, <2>3
<1>16. ASSUME LeaseLapses
      PROVE  GrantInv' /\ HoldInv' /\ CaptureInv'
  <2>1. GrantInv'
    BY <1>16
       DEF LeaseLapses, ActiveTask, GrantInv, NoTask, TypeOK, ControlType,
           IntentType, TaskRecord
  <2>2. HoldInv'
    BY <1>16 DEF LeaseLapses, ActiveTask, HoldInv, MayResumeCapture, Armed, Verbs
  <2>3. CaptureInv'
    BY <1>16 DEF LeaseLapses, ActiveTask, CaptureInv, TypeOK, ControlType, Job
  <2> QED
    BY <2>1, <2>2, <2>3
<1>17. ASSUME MaintainTask
      PROVE  GrantInv' /\ HoldInv' /\ CaptureInv'
  <2>1. /\ Disarm(1)
        /\ (handleEpoch' = handleEpoch \/ handleEpoch' = handleEpoch + 1)
    BY <1>17, InterruptEpoch DEF MaintainTask
  <2>2. GrantInv'
    BY <1>17, <2>1
       DEF MaintainTask, CancelTask, ActiveTask, Disarm, CancelledTask,
           GrantInv, NoTask, TypeOK, ControlType, IntentType, TaskRecord
  <2>3. HoldInv'
    BY <1>17, <2>1
       DEF MaintainTask, CancelTask, ActiveTask, Disarm, CancelledTask,
           HoldInv, MayResumeCapture, Armed, Verbs
  <2>4. CaptureInv'
    BY <1>17, <2>1
       DEF MaintainTask, CancelTask, ActiveTask, Disarm, CancelledTask,
           CaptureInv, TypeOK, ControlType, Job
  <2> QED
    BY <2>2, <2>3, <2>4
<1>18. ASSUME NEW saved \in BOOLEAN, GrantTask(saved)
      PROVE  GrantInv' /\ HoldInv' /\ CaptureInv'
  <2>1. GrantInv'
    BY <1>18
       DEF GrantTask, ActiveTask, GrantInv, NoTask, TypeOK, ControlType,
           IntentType, TaskRecord
  <2>2. HoldInv'
    BY <1>18 DEF GrantTask, ActiveTask, HoldInv, MayResumeCapture, Armed, Verbs
  <2>3. CaptureInv'
    BY <1>18 DEF GrantTask, ActiveTask, CaptureInv, TypeOK, ControlType, Job
  <2> QED
    BY <2>1, <2>2, <2>3
<1>19. ASSUME NEW byHuman \in BOOLEAN, CancelTaskAction(byHuman)
      PROVE  GrantInv' /\ HoldInv' /\ CaptureInv'
  <2>1. /\ Disarm(1)
        /\ (handleEpoch' = handleEpoch \/ handleEpoch' = handleEpoch + 1)
    BY <1>19, InterruptEpoch DEF CancelTaskAction
  <2>2. GrantInv'
    BY <1>19, <2>1
       DEF CancelTaskAction, CancelTask, Disarm, CancelledTask, ActiveTask,
           GrantInv, NoTask, TypeOK, ControlType, IntentType, TaskRecord
  <2>3. HoldInv'
    BY <1>19, <2>1
       DEF CancelTaskAction, CancelTask, Disarm, CancelledTask, ActiveTask,
           HoldInv, MayResumeCapture, Armed, Verbs
  <2>4. CaptureInv'
    BY <1>19, <2>1
       DEF CancelTaskAction, CancelTask, Disarm, CancelledTask, ActiveTask,
           CaptureInv, TypeOK, ControlType, Job
  <2> QED
    BY <2>2, <2>3, <2>4
<1>20. ASSUME NEW byHuman \in BOOLEAN, StopRefused(byHuman)
      PROVE  GrantInv' /\ HoldInv' /\ CaptureInv'
  <2>1. GrantInv'
    BY <1>20
       DEF StopRefused, UseTask, StopRequest, CancelTask, Disarm,
           CancelledTask, ActiveTask, GrantInv, NoTask, TypeOK, ControlType,
           IntentType, TaskRecord
  <2>2. HoldInv'
    BY <1>20
       DEF StopRefused, UseTask, StopRequest, CancelTask, Disarm,
           CancelledTask, ActiveTask, HoldInv, MayResumeCapture, Armed,
           Verbs
  <2>3. CaptureInv'
    BY <1>20
       DEF StopRefused, UseTask, StopRequest, CancelTask, Disarm,
           CancelledTask, ActiveTask, CaptureInv, TypeOK, ControlType, Job
  <2> QED
    BY <2>1, <2>2, <2>3
<1>21. ASSUME NEW byHuman \in BOOLEAN, StopTarget(byHuman)
      PROVE  GrantInv' /\ HoldInv' /\ CaptureInv'
  <2>1. GrantInv'
    BY SMTT(30), <1>21
       DEF StopTarget, StopRequest, CompletedTask, CancelTask, UseTask,
           Disarm, CancelledTask, ActiveTask, GrantInv, NoTask, TypeOK,
           ControlType, IntentType, TaskRecord
  <2>2. HoldInv'
    BY <1>21
       DEF StopTarget, StopRequest, CompletedTask, CancelTask, UseTask,
           Disarm, CancelledTask, ActiveTask, HoldInv, MayResumeCapture,
           Armed, Verbs
  <2>3. CaptureInv'
    BY <1>21
       DEF StopTarget, StopRequest, CompletedTask, CancelTask, UseTask,
           Disarm, CancelledTask, ActiveTask, CaptureInv, TypeOK,
           ControlType, Job
  <2> QED
    BY <2>1, <2>2, <2>3
<1>22. ASSUME NEW byHuman \in BOOLEAN, NEW opened \in BOOLEAN, Restart(byHuman, opened)
      PROVE  GrantInv' /\ HoldInv' /\ CaptureInv'
  <2>1. GrantInv'
    BY SMTT(30), <1>22
       DEF Restart, CancelTask, StopRequest, UseTask, Disarm, CancelledTask,
           ActiveTask, GrantInv, NoTask, TypeOK, ControlType, IntentType,
           TaskRecord
  <2>2. HoldInv'
    BY <1>22
       DEF Restart, CancelTask, StopRequest, UseTask, Disarm, CancelledTask,
           ActiveTask, HoldInv, MayResumeCapture, Armed, Verbs
  <2>3. CaptureInv'
    BY <1>22
       DEF Restart, CancelTask, StopRequest, UseTask, Disarm, CancelledTask,
           ActiveTask, CaptureInv, TypeOK, ControlType, Job
  <2> QED
    BY <2>1, <2>2, <2>3
<1>23. ASSUME AdapterRejects
      PROVE  GrantInv' /\ HoldInv' /\ CaptureInv'
  <2>1. GrantInv'
    BY <1>23
       DEF AdapterRejects, GrantInv, NoTask, TypeOK, ControlType,
           IntentType, TaskRecord
  <2>2. HoldInv'
    BY <1>23 DEF AdapterRejects, HoldInv, MayResumeCapture, Armed, Verbs
  <2>3. CaptureInv'
    BY <1>23 DEF AdapterRejects, CaptureInv, TypeOK, ControlType, Job
  <2> QED
    BY <2>1, <2>2, <2>3
<1>24. ASSUME AdapterPauses
      PROVE  GrantInv' /\ HoldInv' /\ CaptureInv'
  <2>1. GrantInv'
    BY <1>24
       DEF AdapterPauses, GrantInv, NoTask, TypeOK, ControlType, IntentType,
           TaskRecord
  <2>2. HoldInv'
    BY <1>24 DEF AdapterPauses, HoldInv, MayResumeCapture, Armed, Verbs
  <2>3. CaptureInv'
    BY <1>24 DEF AdapterPauses, CaptureInv, TypeOK, ControlType, Job
  <2> QED
    BY <2>1, <2>2, <2>3
<1>25. ASSUME NEW announce \in BOOLEAN, AdapterAccepts(announce)
      PROVE  GrantInv' /\ HoldInv' /\ CaptureInv'
  <2>1. GrantInv'
    BY <1>25
       DEF AdapterAccepts, GrantInv, NoTask, TypeOK, ControlType,
           IntentType, TaskRecord
  <2>2. HoldInv'
    BY <1>25 DEF AdapterAccepts, HoldInv, MayResumeCapture, Armed, Verbs
  <2>3. CaptureInv'
    BY <1>25 DEF AdapterAccepts, CaptureInv, TypeOK, ControlType, Job
  <2> QED
    BY <2>1, <2>2, <2>3
<1>26. ASSUME NEW kind \in {"breakpoint", "tracepoint", "exited"}, TargetHalts(kind)
      PROVE  GrantInv' /\ HoldInv' /\ CaptureInv'
  <2>1. GrantInv'
    BY <1>26
       DEF TargetHalts, GrantInv, NoTask, TypeOK, ControlType, IntentType,
           TaskRecord
  <2>2. HoldInv'
    BY <1>26 DEF TargetHalts, HoldInv, MayResumeCapture, Armed, Verbs
  <2>3. CaptureInv'
    BY <1>26 DEF TargetHalts, CaptureInv, TypeOK, ControlType, Job
  <2> QED
    BY <2>1, <2>2, <2>3
<1>27. ASSUME LinkLost
      PROVE  GrantInv' /\ HoldInv' /\ CaptureInv'
  <2>1. GrantInv'
    BY <1>27
       DEF LinkLost, GrantInv, NoTask, TypeOK, ControlType, IntentType,
           TaskRecord
  <2>2. HoldInv'
    BY <1>27 DEF LinkLost, HoldInv, MayResumeCapture, Armed, Verbs
  <2>3. CaptureInv'
    BY <1>27 DEF LinkLost, CaptureInv, TypeOK, ControlType, Job
  <2> QED
    BY <2>1, <2>2, <2>3
<1>28. ASSUME ReadEvent
      PROVE  GrantInv' /\ HoldInv' /\ CaptureInv'
  <2>1. GrantInv'
    BY <1>28
       DEF ReadEvent, GrantInv, NoTask, TypeOK, ControlType, IntentType,
           TaskRecord
  <2>2. HoldInv'
    BY <1>28 DEF ReadEvent, HoldInv, MayResumeCapture, Armed, Verbs
  <2>3. CaptureInv'
    BY <1>28 DEF ReadEvent, CaptureInv, TypeOK, ControlType, Job
  <2> QED
    BY <2>1, <2>2, <2>3
<1>29. ASSUME NEW saved \in BOOLEAN, WatchEvent(saved)
      PROVE  GrantInv' /\ HoldInv' /\ CaptureInv'
  <2>1. GrantInv'
    BY <1>29
       DEF WatchEvent, CaptureStop, CompletedTask, ActiveTask, GrantInv,
           NoTask, TypeOK, ControlType, IntentType, TaskRecord
  <2>2. HoldInv'
    BY <1>29
       DEF WatchEvent, CaptureStop, CompletedTask, ActiveTask, HoldInv,
           MayResumeCapture, Armed, Verbs
  <2>3. CaptureInv'
    BY <1>29
       DEF WatchEvent, CaptureStop, CompletedTask, ActiveTask, CaptureInv,
           TypeOK, ControlType, Job
  <2> QED
    BY <2>1, <2>2, <2>3
<1>30. ASSUME NEW p \in pending, NEW outcome \in Outcomes, Settle(p, outcome)
      PROVE  GrantInv' /\ HoldInv' /\ CaptureInv'
  <2>1. GrantInv'
    BY <1>30
       DEF Settle, InterruptDAP, GrantInv, NoTask, TypeOK, ControlType,
           IntentType, TaskRecord
  <2>2. HoldInv'
    BY <1>30 DEF Settle, InterruptDAP, HoldInv, MayResumeCapture, Armed, Verbs
  <2>3. CaptureInv'
    BY <1>30 DEF Settle, InterruptDAP, CaptureInv, TypeOK, ControlType, Job
  <2> QED
    BY <2>1, <2>2, <2>3
<1>31. ASSUME NEW c \in captures, CaptureResumes(c)
      PROVE  GrantInv' /\ HoldInv' /\ CaptureInv'
  <2>1. GrantInv'
    BY <1>31
       DEF CaptureResumes, DispatchDAP, GrantInv, NoTask, TypeOK,
           ControlType, IntentType, TaskRecord
  <2>2. HoldInv'
    BY <1>31
       DEF CaptureResumes, DispatchDAP, HoldInv, MayResumeCapture, Armed,
           Verbs
  <2>3. CaptureInv'
    BY <1>31 DEF CaptureResumes, DispatchDAP, CaptureInv, TypeOK, ControlType, Job
  <2> QED
    BY <2>1, <2>2, <2>3
<1>32. ASSUME NEW c \in captures, CaptureLapses(c)
      PROVE  GrantInv' /\ HoldInv' /\ CaptureInv'
  <2>1. /\ Disarm(1)
        /\ (handleEpoch' = handleEpoch \/ handleEpoch' = handleEpoch + 1)
    BY <1>32, InterruptEpoch DEF CaptureLapses
  <2>2. GrantInv'
    BY <1>32, <2>1
       DEF CaptureLapses, CancelTask, Disarm, CancelledTask, ActiveTask,
           GrantInv, NoTask, TypeOK, ControlType, IntentType, TaskRecord
  <2>3. HoldInv'
    BY <1>32, <2>1
       DEF CaptureLapses, CancelTask, Disarm, CancelledTask, ActiveTask,
           HoldInv, MayResumeCapture, Armed, Verbs
  <2>4. CaptureInv'
    BY <1>32, <2>1
       DEF CaptureLapses, CancelTask, Disarm, CancelledTask, ActiveTask,
           CaptureInv, TypeOK, ControlType, Job
  <2> QED
    BY <2>2, <2>3, <2>4
<1>33. ASSUME NEW c \in captures, NEW complete \in BOOLEAN, CaptureEnds(c, complete)
      PROVE  GrantInv' /\ HoldInv' /\ CaptureInv'
  <2>1. GrantInv'
    BY <1>33
       DEF CaptureEnds, GrantInv, NoTask, TypeOK, ControlType, IntentType,
           TaskRecord
  <2>2. HoldInv'
    BY <1>33 DEF CaptureEnds, HoldInv, MayResumeCapture, Armed, Verbs
  <2>3. CaptureInv'
    BY <1>33 DEF CaptureEnds, CaptureInv, TypeOK, ControlType, Job
  <2> QED
    BY <2>1, <2>2, <2>3
<1>34. ASSUME NEW w \in workers, WorkerCheck(w)
      PROVE  GrantInv' /\ HoldInv' /\ CaptureInv'
  <2>1. GrantInv'
    BY <1>34
       DEF WorkerCheck, WorkerKeeps, GrantInv, NoTask, TypeOK, ControlType,
           IntentType, TaskRecord
  <2>2. HoldInv'
    BY <1>34 DEF WorkerCheck, WorkerKeeps, HoldInv, MayResumeCapture, Armed, Verbs
  <2>3. CaptureInv'
    BY <1>34 DEF WorkerCheck, WorkerKeeps, CaptureInv, TypeOK, ControlType, Job
  <2> QED
    BY <2>1, <2>2, <2>3
<1>35. ASSUME NEW w \in workers, WorkerSend(w)
      PROVE  GrantInv' /\ HoldInv' /\ CaptureInv'
  <2>1. GrantInv'
    BY <1>35
       DEF WorkerSend, WorkerKeeps, GrantInv, NoTask, TypeOK, ControlType,
           IntentType, TaskRecord
  <2>2. HoldInv'
    BY <1>35 DEF WorkerSend, WorkerKeeps, HoldInv, MayResumeCapture, Armed, Verbs
  <2>3. CaptureInv'
    BY <1>35 DEF WorkerSend, WorkerKeeps, CaptureInv, TypeOK, ControlType, Job
  <2> QED
    BY <2>1, <2>2, <2>3
<1>36. ASSUME NEW w \in workers, WorkerGivesUp(w)
      PROVE  GrantInv' /\ HoldInv' /\ CaptureInv'
  <2>1. GrantInv'
    BY <1>36
       DEF WorkerGivesUp, WorkerKeeps, GrantInv, NoTask, TypeOK,
           ControlType, IntentType, TaskRecord
  <2>2. HoldInv'
    BY <1>36
       DEF WorkerGivesUp, WorkerKeeps, HoldInv, MayResumeCapture, Armed,
           Verbs
  <2>3. CaptureInv'
    BY <1>36 DEF WorkerGivesUp, WorkerKeeps, CaptureInv, TypeOK, ControlType, Job
  <2> QED
    BY <2>1, <2>2, <2>3
<1> QED
  BY <1>1, <1>2, <1>3, <1>4, <1>5, <1>6, <1>7, <1>8, <1>9, <1>10, <1>11, <1>12,
     <1>13, <1>14, <1>15, <1>16, <1>17, <1>18, <1>19, <1>20, <1>21, <1>22,
     <1>23, <1>24, <1>25, <1>26, <1>27, <1>28, <1>29, <1>30, <1>31, <1>32,
     <1>33, <1>34, <1>35, <1>36
     DEF Next, Human, Agent, Session, Adapter, Target, Watch, Settles, WorkerStep, Capture

----------------------------------------------------------------------------
(* The inductive invariant.                                                *)

\* It holds initially: only the entry stop is on its way.
LEMMA InitIInv == ASSUME Init PROVE IInv
<1>1. TypeOK
  BY TypeInit
<1>2. DispatchInv /\ WorkerInv /\ OneInterrupter /\ FenceHasOwner /\ CaptureInv
  BY DEF Init, DispatchInv, WorkerInv, OneInterrupter, FenceHasOwner, CaptureInv
<1>3. GrantInv /\ HoldInv
  BY DEF Init, GrantInv, HoldInv, NoTask
<1>4. /\ \A e : Queued(e) <=> e = "entry"
      /\ ~MoveSent /\ OneMove(inbox) /\ StopLast(wire) /\ StopLast(events)
      /\ \A e : ~Occurs(e, events)
  BY NoEvent DEF Init, Queued, Occurs, MoveSent, MoveIn, OneMove, StopLast
<1>5. FlowInv
  BY <1>4 DEF Init, FlowInv, StopQueued, Stops
<1>6. QueueInv
  BY <1>4 DEF QueueInv
<1>7. ReplyInv
  BY DEF Init, ReplyInv
<1> QED
  BY <1>1, <1>2, <1>3, <1>5, <1>6, <1>7 DEF IInv

\* Every step keeps it.
LEMMA NextIInv == ASSUME IInv, [Next]_vars PROVE IInv'
<1> USE DEF IInv
<1>1. CASE Next
  <2>1. TypeOK'
    BY <1>1, TypeStep
  <2>2. FenceInv' /\ FenceHasOwner'
    BY <1>1, FenceStep DEF FenceInv
  <2>3. GrantInv' /\ HoldInv' /\ CaptureInv'
    BY <1>1, GrantStep
  <2>4. Flow'
    BY <1>1, FlowStep DEF Flow
  <2> QED
    BY <2>1, <2>2, <2>3, <2>4 DEF FenceInv, Flow
<1>2. CASE UNCHANGED vars
  <2>1. TypeOK'
    BY <1>2, TypeStutter
  <2>2. FenceInv' /\ FenceHasOwner'
    BY <1>2, StillFence, StillOwner DEF FenceInv, vars
  <2>3. GrantInv' /\ HoldInv' /\ CaptureInv'
    BY <1>2 DEF vars, GrantInv, HoldInv, CaptureInv
  <2>4. Flow'
    BY <1>2, StillFlow DEF Flow, vars
  <2> QED
    BY <2>1, <2>2, <2>3, <2>4 DEF FenceInv, Flow
<1> QED
  BY <1>1, <1>2

\* The invariant that every safety theorem below rests on.
THEOREM Invariance == Spec => []IInv
  BY InitIInv, NextIInv, PTL DEF Spec

----------------------------------------------------------------------------
(* The safety properties.                                                  *)

\* However many interruptions and restarts overlap, one worker of the present
\* run at most is lowering the fence (interruptDAP).
THEOREM OneInterruption == Spec => []OneInterrupter
<1>1. IInv => OneInterrupter
  BY DEF IInv
<1> QED
  BY <1>1, Invariance, PTL

\* No fence without a worker that will lower it or report that it gave up.
THEOREM FenceOwned == Spec => []FenceHasOwner
<1>1. IInv => FenceHasOwner
  BY DEF IInv
<1> QED
  BY <1>1, Invariance, PTL

\* The adapter never reads a movement while the target moves.
THEOREM MovementsOneAtATime == Spec => []OneMovementAtATime
<1>1. ASSUME IInv
      PROVE  OneMovementAtATime
  <2> SUFFICES ASSUME inbox # <<>>, Head(inbox).kind = "move", ~early
               PROVE  target # "running"
    BY DEF OneMovementAtATime
  <2>1. TypeOK /\ FlowInv
    BY <1>1 DEF IInv
  <2>2. MoveSent
    BY <2>1, HeadRead DEF MoveSent
  <2> QED
    BY <2>1, <2>2 DEF FlowInv, Live
<1> QED
  BY <1>1, Invariance, PTL

\* The fence comes down only over a target at rest.
THEOREM FenceFalls == Spec => FenceFallsAtRest
<1>1. ASSUME IInv, [Next]_vars
      PROVE  interrupting /\ ~interrupting' => target' # "running" \/ early
  <2> SUFFICES ASSUME interrupting, ~interrupting'
               PROVE  target' # "running" \/ early
    OBVIOUS
  <2>1. /\ (target # "running" \/ early \/ moving)
    BY <1>1 DEF IInv, FlowInv, Live
  <2>2. CASE Next
    <3>1. ASSUME NEW n, InterruptExecution(n)
          PROVE  FALSE
      BY <3>1 DEF InterruptExecution
    <3>2. ASSUME NEW P, InterruptDAP(P)
          PROVE  FALSE
      BY <3>2 DEF InterruptDAP
    <3>3. CASE \E w \in workers : WorkerCheck(w)
      BY <2>1, <3>3 DEF WorkerCheck, WorkerKeeps, Settled
    <3>4. CASE \E byHuman, opened \in BOOLEAN : Restart(byHuman, opened)
      BY <3>4 DEF Restart
    <3>5. ~Human
      BY <3>1 DEF Human, HumanPreemptsAgent, HumanMoveRefused, HumanPause, EditorPause,
         HumanMoveFenced, HumanMove, EditorMove, DispatchDAP, NoDispatch
    <3>6. ~Agent
      BY <3>1 DEF Agent, AgentPause, AgentMoveRefused, CompleteTask, AgentMoveFenced,
         AgentMove, DispatchDAP
    <3>7. Session => \E byHuman, opened \in BOOLEAN : Restart(byHuman, opened)
      BY <3>1 DEF Session, Bind, Touch, Shutdown, LeaseLapses, MaintainTask, GrantTask,
         CancelTaskAction, StopRefused, StopTarget
    <3>8. ~(Adapter \/ Target \/ LinkLost \/ ReadEvent \/ Watch)
      BY DEF Adapter, AdapterRejects, AdapterPauses, AdapterAccepts, Target, TargetHalts,
         LinkLost, ReadEvent, Watch, WatchEvent
    <3>9. ~Settles
      BY <3>2 DEF Settles, Settle
    <3>10. ~Capture
      BY <3>1 DEF Capture, CaptureResumes, CaptureLapses, CaptureEnds, DispatchDAP
    <3>11. \A w \in workers : ~WorkerSend(w) /\ ~WorkerGivesUp(w)
      BY DEF WorkerSend, WorkerGivesUp
    <3> QED
      BY <2>2, <3>3, <3>4, <3>5, <3>6, <3>7, <3>8, <3>9, <3>10, <3>11
         DEF Next, WorkerStep
  <2>3. CASE UNCHANGED vars
    BY <2>3 DEF vars
  <2> QED
    BY <1>1, <2>2, <2>3
<1> QED
  BY <1>1, Invariance, PTL DEF Spec, FenceFallsAtRest

\* A late response to an overtaken dispatch disturbs nothing.
THEOREM StaleReplies == Spec => StaleReplyHarmless
<1>1. ASSUME IInv, [Next]_vars, NEW p \in pending \ pending', p.id # dispatchSequence
      PROVE  UNCHANGED <<moving, interrupting, workers>>
  <2>1. PICK q \in pending, outcome \in Outcomes : Settle(q, outcome)
    <3>1. ~(pending \subseteq pending')
      BY <1>1
    <3>2. ~Human
      BY <3>1 DEF Human, HumanPreemptsAgent, HumanMoveRefused, HumanPause, EditorPause,
         HumanMoveFenced, HumanMove, EditorMove, DispatchDAP, NoDispatch
    <3>3. ~Agent
      BY <3>1 DEF Agent, AgentPause, AgentMoveRefused, CompleteTask, AgentMoveFenced,
         AgentMove, DispatchDAP
    <3>4. ~Session
      BY <3>1 DEF Session, Bind, Touch, Shutdown, LeaseLapses, MaintainTask, GrantTask,
         CancelTaskAction, StopRefused, StopTarget, Restart
    <3>5. ~(Adapter \/ Target \/ LinkLost \/ ReadEvent \/ Watch)
      BY <3>1 DEF Adapter, AdapterRejects, AdapterPauses, AdapterAccepts, Target,
         TargetHalts, LinkLost, ReadEvent, Watch, WatchEvent
    <3>6. ~Capture
      BY <3>1 DEF Capture, CaptureResumes, CaptureLapses, CaptureEnds, DispatchDAP
    <3>7. \A w \in workers : ~WorkerStep(w) /\ ~WorkerGivesUp(w)
      BY <3>1 DEF WorkerStep, WorkerCheck, WorkerSend, WorkerGivesUp, WorkerKeeps
    <3>8. ~UNCHANGED vars
      BY <3>1 DEF vars
    <3> QED
      BY <1>1, <3>2, <3>3, <3>4, <3>5, <3>6, <3>7, <3>8 DEF Next, Settles
  <2>2. q = p
    BY <1>1, <2>1 DEF Settle
  <2>3. p.epoch # handleEpoch
    BY <1>1 DEF IInv, DispatchInv
  <2>4. ~RollsBack(q)
    BY <1>1, <2>2, <2>3 DEF RollsBack
  <2>5. ~(q.run = run /\ outcome = "ambiguous" /\ q.epoch = handleEpoch)
    BY <2>2, <2>3
  <2>6. UNCHANGED fence
    BY <2>1, <2>5 DEF Settle
  <2>7. moving' = (moving /\ ~(q.run = run /\ outcome = "rejected" /\ RollsBack(q)))
    BY <2>1, <2>5 DEF Settle
  <2>8. moving \in BOOLEAN
    BY <1>1 DEF IInv, TypeOK, FlagType
  <2> QED
    BY <2>4, <2>6, <2>7, <2>8
<1>2. IInv /\ [Next]_vars =>
        [\A p \in pending \ pending' :
           p.id # dispatchSequence => UNCHANGED <<moving, interrupting, workers>>]_vars
  BY <1>1
<1> QED
  BY <1>2, Invariance, PTL DEF Spec, StaleReplyHarmless

\* Movements leave the broker in four ways.
LEMMA Dispatchers ==
  ASSUME [Next]_vars, dispatchSequence' # dispatchSequence
  PROVE  \/ \E verb \in Verbs : HumanMove(verb) \/ EditorMove(verb) \/ AgentMove(verb)
         \/ \E c \in captures : CaptureResumes(c)
<1>2. ~(HumanPreemptsAgent \/ HumanMoveRefused \/ HumanPause \/ EditorPause
        \/ \E verb \in Verbs : HumanMoveFenced(verb))
  BY DEF HumanPreemptsAgent, HumanMoveRefused, HumanPause, EditorPause, HumanMoveFenced
<1>3. ~(AgentPause \/ AgentMoveRefused \/ CompleteTask
        \/ \E verb \in Verbs : AgentMoveFenced(verb))
  BY DEF AgentPause, AgentMoveRefused, CompleteTask, AgentMoveFenced
<1>4. ~Session
  BY DEF Session, Bind, Touch, Shutdown, LeaseLapses, MaintainTask, GrantTask,
         CancelTaskAction, StopRefused, StopTarget, Restart
<1>5. ~(Adapter \/ Target \/ LinkLost \/ ReadEvent \/ Watch)
  BY DEF Adapter, AdapterRejects, AdapterPauses, AdapterAccepts, Target,
         TargetHalts, LinkLost, ReadEvent, Watch, WatchEvent
<1>6. ~Settles
  BY DEF Settles, Settle
<1>7. \A c \in captures : ~CaptureLapses(c) /\ \A complete \in BOOLEAN : ~CaptureEnds(c, complete)
  BY DEF CaptureLapses, CaptureEnds
<1>8. \A w \in workers : ~WorkerStep(w) /\ ~WorkerGivesUp(w)
  BY DEF WorkerStep, WorkerCheck, WorkerSend, WorkerGivesUp, WorkerKeeps
<1>9. ~UNCHANGED vars
  BY DEF vars
<1> QED
  BY <1>2, <1>3, <1>4, <1>5, <1>6, <1>7, <1>8, <1>9 DEF Next, Human, Agent, Capture

\* No movement in the agent's name without its own live grant.
THEOREM AgentMovesGranted == Spec => AgentMovesOnlyUnderGrant
<1> DEFINE Granted == /\ task'.status = "active" /\ task'.binding = binding'
                      /\ task'.id = executionTask' /\ leaseOpen'
<1>1. ASSUME IInv, [Next]_vars, dispatchSequence' # dispatchSequence,
             executionActor' = "agent"
      PROVE  Granted
  <2>1. CASE \E verb \in Verbs : HumanMove(verb) \/ EditorMove(verb)
    BY <1>1, <2>1 DEF HumanMove, EditorMove, Arm
  <2>2. ASSUME NEW verb \in Verbs, AgentMove(verb)
        PROVE  Granted
    <3>1. /\ task.binding = binding /\ leaseOpen
          /\ task' = [task EXCEPT !.status = "active"]
          /\ binding' = binding /\ leaseOpen' = leaseOpen
          /\ executionTask' = task.id
      BY <2>2 DEF AgentMove, TaskValid, TaskMatches, UseTask, Arm
    <3>2. task \in TaskRecord
      BY <1>1 DEF IInv, TypeOK, IntentType
    <3> QED
      BY <3>1, <3>2 DEF TaskRecord
  <2>3. ASSUME NEW c \in captures, CaptureResumes(c)
        PROVE  Granted
    <3>1. /\ executionActor = "agent" /\ UNCHANGED <<task, binding, leaseOpen, executionTask>>
      BY <1>1, <2>3 DEF CaptureResumes
    <3>2. /\ ActiveTask /\ task.binding = binding /\ task.id = executionTask
          /\ leaseOpen
      BY <2>3, <3>1 DEF CaptureResumes, MayResumeCapture, Armed, TaskMatches
    <3>3. task.status = "active"
      BY <1>1, <3>1, <3>2 DEF IInv, GrantInv, ActiveTask
    <3> QED
      BY <3>1, <3>2, <3>3
  <2> QED
    BY <1>1, <2>1, <2>2, <2>3, Dispatchers
<1>2. IInv /\ [Next]_vars =>
        [dispatchSequence' # dispatchSequence /\ executionActor' = "agent" => Granted]_vars
  BY <1>1
<1> QED
  BY <1>2, Invariance, PTL DEF Spec, AgentMovesOnlyUnderGrant

\* A movement decided by a capture is decided by CaptureResumes.
LEMMA Resumers ==
  ASSUME [Next]_vars, ResumeStep
  PROVE  \E c \in captures : CaptureResumes(c)
<1>1. \A verb \in Verbs : HumanMove(verb) \/ EditorMove(verb) \/ AgentMove(verb)
        => captures' = captures
  BY DEF HumanMove, EditorMove, AgentMove
<1> QED
  BY <1>1, Dispatchers DEF ResumeStep

\* After a human interruption no capture resumes the target unasked.
THEOREM ResumeYields == Spec => ResumeYieldsToHuman
<1>1. ASSUME IInv, [Next]_vars, ResumeStep
      PROVE  hold # "held"
  <2>1. PICK c \in captures : CaptureResumes(c)
    BY <1>1, Resumers
  <2>2. executionMode = "continue"
    BY <2>1 DEF CaptureResumes, MayResumeCapture, Armed
  <2> QED
    BY <1>1, <2>2 DEF IInv, HoldInv
<1> QED
  BY <1>1, Invariance, PTL DEF Spec, ResumeYieldsToHuman

\* A capture resumes only the stop it inspected, and only a target at rest.
THEOREM ResumeOwnStop == Spec => ResumeFromItsOwnStop
<1> DEFINE Own == \A c \in captures \ captures' :
                    /\ c.run = run /\ c.after = dispatchSequence
                    /\ target # "running" \/ early
<1>1. ASSUME IInv, [Next]_vars, ResumeStep
      PROVE  Own
  <2>1. PICK c \in captures : CaptureResumes(c)
    BY <1>1, Resumers
  <2>2. captures \ captures' = {c}
    BY <2>1 DEF CaptureResumes
  <2>3. c.run = run /\ c.epoch = handleEpoch /\ ~moving
    BY <2>1 DEF CaptureResumes, Current
  <2>4. c.after = dispatchSequence
    BY <1>1, <2>3 DEF IInv, CaptureInv
  <2>5. target # "running" \/ early
    BY <1>1, <2>3 DEF IInv, FlowInv, Live
  <2> QED
    BY <2>2, <2>3, <2>4, <2>5
<1>2. IInv /\ [Next]_vars => [ResumeStep => Own]_vars
  BY <1>1
<1> QED
  BY <1>2, Invariance, PTL DEF Spec, ResumeFromItsOwnStop
============================================================================
