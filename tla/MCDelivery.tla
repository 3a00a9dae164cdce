----------------------------- MODULE MCDelivery -----------------------------
(* Instances of Delivery for the model checker. *)
EXTENDS Delivery, TLC

(* Consumers, reply keys and writers are interchangeable. *)
Symmetry == Permutations(Consumers) \cup Permutations(Keys) \cup Permutations(Writers)

(* reported is history that only StatusBelongsToAttempt reads. *)
View == <<s, disk, up, threads, drafts, last, faults, due, sent>>

(* A bound: messages of other kinds, a new run and a new binding only as long *)
(* as nobody has begun a question.                                            *)
OneKind ==
    \/ (\A t \in Threads : threads[t] = NoThread) /\ (\A w \in Writers : drafts[w] = Idle)
    \/ s.note.id = 0 /\ s.task.id = 0 /\ s.run = 1 /\ s.binding = 1
=============================================================================
