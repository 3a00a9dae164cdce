---------------------------- MODULE MCExecution ----------------------------
(***************************************************************************)
(* Model checking of Execution.  The epochs, generations and intents only  *)
(* grow and are only compared for equality, with values they once had:     *)
(* which of those comparisons still hold is all the future depends on.     *)
(* View keeps exactly that, and forgets the numbers.  It tells captures    *)
(* apart as long as CaptureSlots is at most 2.  Properties over steps are  *)
(* evaluated on every step, and those over states depend on View alone.    *)
(* Runs of a liveness property use no View.                                *)
(***************************************************************************)
EXTENDS Execution

ASSUME CaptureSlots <= 2

Flags(c) == <<c.run = run, c.epoch = handleEpoch, c.dapEpoch = dapEpoch,
              c.generation = generation, c.intent = executionIntent,
              c.after = dispatchSequence>>

View ==
  <<run, ended, moving, interrupting,
    executionMode, executionActor, executionTask = task.id, dispatchSequence,
    {<<p.id, p.run, p.epoch = handleEpoch>> : p \in pending},
    {<<w.run, w.pc, w.n = handleEpoch>> : w \in workers},
    {Flags(c) : c \in captures}, Cardinality(captures),
    task.status, task.binding = binding, leaseOpen,
    dap, wire, events, connected, world, hold, early, gaveUp, requests>>
============================================================================
