------------------------------ MODULE Question ------------------------------
(***************************************************************************)
(* What a person who asks a question in a thread is promised, whoever      *)
(* writes the discussion and whatever crashes: between two departures of a *)
(* question lies an explicit retry, an interrupted departure is never      *)
(* undone silently, and an answer ends the question.                       *)
(* Delivery implements this specification.                                 *)
(***************************************************************************)
EXTENDS Naturals

CONSTANTS Threads, Provider

VARIABLES question, phase, resolved, recipient

vars == <<question, phase, resolved, recipient>>

Phases == {"none", "waiting", "away", "uncertain", "heard", "answered"}

Init ==
    /\ question = [t \in Threads |-> 0]
    /\ phase = [t \in Threads |-> "none"]
    /\ resolved = [t \in Threads |-> FALSE]
    /\ recipient = [t \in Threads |-> Provider]

Same == UNCHANGED <<question, resolved, recipient>>

Moves(t, p) == phase' = [phase EXCEPT ![t] = p]

SameElsewhere(f, g, t) == \A u \in Threads \ {t} : g[u] = f[u]

Open(t) == question[t] # 0 /\ ~resolved[t]

Ask(t) ==
    /\ phase[t] \in {"none", "answered"} \/ resolved[t]
    /\ question'[t] # question[t] /\ SameElsewhere(question, question', t)
    /\ SameElsewhere(recipient, recipient', t)
    /\ resolved' = [resolved EXCEPT ![t] = FALSE]
    /\ Moves(t, "waiting")

Leave(t) == Open(t) /\ phase[t] = "waiting" /\ Moves(t, "away") /\ Same

Hear(t) == /\ Open(t) /\ phase[t] \in {"away", "uncertain"}
           /\ Moves(t, "heard") /\ Same

Answer(t) == /\ Open(t) /\ phase[t] # "answered"
             /\ Moves(t, "answered") /\ Same

Fail(t) == /\ Open(t) /\ phase[t] # "answered"
           /\ Moves(t, "uncertain") /\ Same

Retry(t) ==
    /\ Open(t)
    /\ \/ phase[t] \in {"waiting", "uncertain"}
       \/ recipient[t] = Provider /\ phase[t] # "answered"
    /\ SameElsewhere(recipient, recipient', t)
    /\ Moves(t, "waiting")
    /\ UNCHANGED <<question, resolved>>

Settle(t) == /\ question[t] # 0
             /\ SameElsewhere(resolved, resolved', t)
             /\ UNCHANGED <<question, phase, recipient>>

(* Whatever is away may have been interrupted, for several threads at once. *)
Interrupt ==
    /\ \E K \in SUBSET {t \in Threads : phase[t] = "away"} :
          phase' = [t \in Threads |-> IF t \in K THEN "uncertain" ELSE phase[t]]
    /\ Same

Next ==
    \/ \E t \in Threads : \/ Ask(t) \/ Leave(t) \/ Hear(t) \/ Answer(t)
                          \/ Fail(t) \/ Retry(t) \/ Settle(t)
    \/ Interrupt

Spec == Init /\ [][Next]_vars
=============================================================================
