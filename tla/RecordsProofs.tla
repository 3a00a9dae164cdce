---------------------------- MODULE RecordsProofs ---------------------------
(***************************************************************************)
(* Proofs about the leases of tasks and about what a broker keeps over its *)
(* crashes, for every value of the constants.                              *)
(***************************************************************************)
EXTENDS HostLease, Ledger, Archive, Definitions, FiniteSetTheorems, SequenceTheorems, TLAPS

----------------------------------------------------------------------------
(* The authority of a task.                                                *)

Facts == {f \in [instance : Nat, seq : Nat, turn : Nat, state : {"active", "idle"},
                 challenge : Nat] :
             f.state = "active" => f.turn # 0 /\ f.challenge # 0}
Hosts == [turn : Nat, state : {"none", "active", "idle"}, seq : Nat, left : Nat]
Told == {pipe[i] : i \in 1 .. Len(pipe)} \union late

AgentType ==
    /\ agent \in [turn : Nat, instance : Nat, seq : Nat, asked : Nat]
    /\ turns \in Nat /\ client \in Nat /\ instances \in Nat /\ challenges \in Nat
    /\ pipe \in Seq(Facts) /\ late \subseteq Facts /\ ended \subseteq Nat
    /\ agent.turn <= turns /\ agent.instance <= instances /\ client <= instances
    /\ agent.asked <= challenges

ConsumerType ==
    /\ consumer \in [instance : Nat, host : Hosts, challenge : Nat, left : Nat]
    /\ consumer.instance <= instances /\ consumer.challenge <= challenges

\* A fact was told by the host in the order of its sequence and of its turns.
Placed(f) ==
    /\ f.instance <= instances /\ f.turn <= turns /\ f.challenge <= challenges
    /\ f.instance = agent.instance => f.seq <= agent.seq
    /\ f.instance = client /\ client # 0 => agent.instance = client
    /\ f.state = "idle" /\ f.turn # 0 => f.turn # agent.turn

InOrder(f, g) ==
    f.state = "idle" /\ g.state = "active" /\ f.turn = g.turn /\ f.instance = g.instance
        => g.seq < f.seq

FactInv == /\ \A f \in Told : Placed(f)
           /\ \A f, g \in Told : InOrder(f, g)
           /\ \A f \in late : f.instance # 0

\* Nothing that is still on its way tells that an ended turn is active, and is taken.
Stale(f) == \/ f.instance # consumer.instance
            \/ f.seq <= consumer.host.seq
            \/ f.challenge # consumer.challenge

EndedInv ==
    /\ \A n \in ended : n # 0 => n # agent.turn
    /\ \A n \in ended : n <= turns
    /\ \A f \in Told : f.state = "active" /\ f.turn \in ended => Stale(f)
    /\ consumer.host.state = "active" => consumer.host.turn \notin ended
    /\ consumer.host.state = "active" => consumer.host.turn # 0

LeaseInv == AgentType /\ ConsumerType /\ FactInv /\ EndedInv

USE DEF hostSide, identities

LEMMA LeaseStarts == LeaseInit => LeaseInv
  BY DEF LeaseInit, LeaseInv, AgentType, ConsumerType, FactInv, EndedInv, Told, NoConsumer,
         NoHost, Hosts

\* The host tells one more fact.
LEMMA SpokenFact ==
  ASSUME LeaseInv, NEW f \in Facts, Speak(f)
  PROVE  pipe' \in Seq(Facts) /\ \A g \in {pipe'[i] : i \in 1 .. Len(pipe')} :
                                    g = f \/ g \in {pipe[i] : i \in 1 .. Len(pipe)}
<1>1. pipe \in Seq(Facts) /\ pipe' = Append(pipe, f)
  BY DEF Speak, LeaseInv, AgentType
<1>2. /\ pipe' \in Seq(Facts) /\ Len(pipe) \in Nat /\ Len(pipe') = Len(pipe) + 1
      /\ pipe'[Len(pipe) + 1] = f
      /\ \A i \in 1 .. Len(pipe) : pipe'[i] = pipe[i]
  BY <1>1
<1>3. ASSUME NEW i \in 1 .. Len(pipe')
      PROVE  pipe'[i] = f \/ pipe'[i] \in {pipe[j] : j \in 1 .. Len(pipe)}
  <2>1. i = Len(pipe) + 1 \/ i \in 1 .. Len(pipe)
    BY <1>2
  <2> QED
    BY <1>2, <2>1
<1> QED
  BY <1>2, <1>3

\* One fact that is new, of the agent's instance and next in its sequence, at most.
LEMMA ToldFacts ==
  ASSUME LeaseInv, NEW f \in Facts,
         f.instance = agent.instance, f.seq = agent.seq + 1, f.turn <= turns,
         f.challenge <= challenges,
         f.turn = agent.turn, f.state = "idle" => f.turn = 0 \/ agent'.turn # f.turn,
         agent' \in [turn : Nat, instance : Nat, seq : Nat, asked : Nat],
         agent'.instance = agent.instance, agent'.seq = agent.seq + 1,
         agent'.turn \in {0, agent.turn}, agent'.asked \in {0, agent.asked},
         f.state = "active" => agent'.turn = agent.turn,
         Speak(f),
         UNCHANGED <<turns, client, late, consumer, instances, challenges, ended>>
  PROVE  LeaseInv'
<1>1. pipe' \in Seq(Facts) /\ \A g \in Told' : g = f \/ g \in Told
  BY SpokenFact DEF Told
<1> HIDE DEF Told
<1>2. AgentType' /\ ConsumerType'
  <2>1. AgentType'
    BY <1>1 DEF LeaseInv, AgentType
  <2>2. ConsumerType'
    BY <1>1 DEF LeaseInv, AgentType, ConsumerType
  <2> QED
    BY <2>1, <2>2
<1>3. \A g \in Told : g \in Facts
  BY DEF Told, LeaseInv, AgentType
<1>4. FactInv'
  <2>1. ASSUME NEW g \in Told' PROVE Placed(g)'
    <3>1. agent.seq \in Nat /\ agent.instance <= instances
      BY DEF LeaseInv, AgentType
    <3>2. CASE g = f
      BY <3>1, <3>2 DEF Placed
    <3>3. CASE g \in Told
      <4>1. Placed(g) /\ g.seq \in Nat
        BY <1>3, <3>3 DEF LeaseInv, FactInv, Facts
      <4> QED
        BY <3>1, <4>1 DEF Placed
    <3> QED
      BY <1>1, <3>2, <3>3
  <2>2. ASSUME NEW g \in Told', NEW h \in Told' PROVE InOrder(g, h)
    <3>1. CASE g \in Told /\ h \in Told
      BY <3>1 DEF LeaseInv, FactInv
    <3>2. CASE g = f /\ h # f
      <4>1. Placed(h) /\ h.seq \in Nat /\ agent.seq \in Nat
        BY <1>1, <1>3, <3>2 DEF LeaseInv, FactInv, AgentType, Facts
      <4> QED
        BY <3>2, <4>1 DEF Placed, InOrder
    <3>3. CASE h = f /\ g \in Told
      BY <1>3, <3>3 DEF LeaseInv, FactInv, Placed, InOrder, Facts
    <3>4. CASE h = f /\ g = f
      BY <3>4 DEF InOrder
    <3> QED
      BY <1>1, <3>1, <3>2, <3>3, <3>4
  <2>3. \A g \in late' : g.instance # 0
    BY DEF LeaseInv, FactInv
  <2> QED
    BY <2>1, <2>2, <2>3 DEF FactInv
<1>5. EndedInv'
  BY <1>1 DEF LeaseInv, EndedInv, Stale, Facts, AgentType
<1> QED
  BY <1>2, <1>4, <1>5 DEF LeaseInv

\* The client takes a fact from the pipe, or one it had given up arrives.
Fewer == /\ pipe' \in Seq(Facts) /\ late' \subseteq Facts /\ Told' \subseteq Told
         /\ \A f \in late' : f.instance # 0

LEMMA FewerFacts ==
  ASSUME LeaseInv, Fewer, UNCHANGED <<agent, turns, client, instances, challenges>>
  PROVE  /\ FactInv'
         /\ ended' \subseteq Nat => AgentType'
<1> HIDE DEF Told
<1>1. FactInv'
  BY DEF LeaseInv, FactInv, Placed, Fewer
<1>2. ended' \subseteq Nat => AgentType'
  BY DEF LeaseInv, AgentType, Fewer
<1> QED
  BY <1>1, <1>2

LEMMA ForwardedFact ==
  ASSUME LeaseInv, client # 0, pipe # <<>>, Head(pipe).instance = client,
         pipe' = Tail(pipe), late' \in {late, late \union {Head(pipe)}}
  PROVE  Head(pipe) \in Facts /\ Head(pipe) \in Told /\ Fewer
<1>1. pipe \in Seq(Facts) /\ late \subseteq Facts
  BY DEF LeaseInv, AgentType
<1>2. /\ Len(pipe) \in Nat /\ Len(pipe) >= 1 /\ Head(pipe) = pipe[1] /\ Head(pipe) \in Facts
      /\ pipe' \in Seq(Facts) /\ Len(pipe') = Len(pipe) - 1
      /\ \A i \in 1 .. Len(pipe') : pipe'[i] = pipe[i + 1]
  BY <1>1
<1>3. Head(pipe) \in Told
  BY <1>2 DEF Told
<1>4. Told' \subseteq Told
  <2> SUFFICES ASSUME NEW g \in Told' PROVE g \in Told
    OBVIOUS
  <2>1. CASE g \in late'
    BY <1>3, <2>1 DEF Told
  <2>2. CASE g \notin late'
    <3>1. PICK i \in 1 .. Len(pipe') : g = pipe'[i]
      BY <2>2 DEF Told
    <3>2. i + 1 \in 1 .. Len(pipe) /\ g = pipe[i + 1]
      BY <1>2, <3>1
    <3> QED
      BY <3>2 DEF Told
  <2> QED
    BY <2>1, <2>2
<1>5. \A f \in late' : f.instance # 0
  BY DEF LeaseInv, FactInv
<1> QED
  BY <1>1, <1>2, <1>3, <1>4, <1>5 DEF Fewer

\* A fact of the consumer's instance is taken, unless it is old.
LEMMA TakenFact ==
  ASSUME LeaseInv, NEW f \in Facts, f \in Told, Fact(f), Fewer,
         UNCHANGED <<agent, turns, client, instances, challenges>>
  PROVE  LeaseInv'
<1> HIDE DEF Told
<1>1. CASE UNCHANGED <<consumer, ended>>
  <2>1. AgentType' /\ FactInv'
    BY <1>1, FewerFacts DEF LeaseInv, AgentType
  <2>2. ConsumerType'
    BY <1>1 DEF LeaseInv, ConsumerType
  <2>3. EndedInv'
    BY <1>1 DEF LeaseInv, EndedInv, Stale, Fewer
  <2> QED
    BY <2>1, <2>2, <2>3 DEF LeaseInv
<1>2. CASE ~UNCHANGED <<consumer, ended>>
  <2>1. /\ f.instance = consumer.instance /\ f.seq > consumer.host.seq
        /\ f.challenge # 0 => f.challenge = consumer.challenge
        /\ consumer' = [consumer EXCEPT !.host = Accepted(consumer, f),
                              !.challenge = IF f.challenge = 0 THEN @ ELSE 0,
                              !.left = IF f.challenge = 0 THEN @ ELSE 0]
        /\ ended' = IF f.state = "active" THEN ended ELSE ended \union {f.turn}
    BY <1>2 DEF Fact, Current, Take, Answered
  <2>2. Accepted(consumer, f) \in Hosts
    <3>1. f.turn \in Nat /\ f.state \in {"none", "active", "idle"} /\ f.seq \in Nat
      BY DEF Facts
    <3>2. ProofTTL \in Nat /\ consumer.host.left \in Nat
      BY LeaseAssumption DEF LeaseAssumption, LeaseInv, ConsumerType, Hosts
    <3> QED
      BY <3>1, <3>2 DEF Accepted, Hosts
  <2>3. /\ consumer' \in [instance : Nat, host : Hosts, challenge : Nat, left : Nat]
        /\ consumer'.instance = consumer.instance
        /\ consumer'.host = Accepted(consumer, f)
        /\ consumer'.challenge \in {0, consumer.challenge}
        /\ consumer'.challenge = IF f.challenge = 0 THEN consumer.challenge ELSE 0
    BY <2>1, <2>2 DEF LeaseInv, ConsumerType
  <2>4. ConsumerType'
    BY <2>3 DEF LeaseInv, ConsumerType, AgentType
  <2>5. ended' \subseteq Nat /\ f.turn <= turns /\ AgentType' /\ FactInv'
    BY <2>1, FewerFacts DEF LeaseInv, AgentType, FactInv, Placed, Facts
  <2>6. consumer'.host.turn = f.turn /\ consumer'.host.state = f.state
        /\ consumer'.host.seq = f.seq
    BY <2>3 DEF Accepted
  <2>7. \A g \in Told : g \in Facts
    BY DEF Told, LeaseInv, AgentType
  <2>8. ASSUME NEW g \in Told', g.state = "active", g.turn \in ended'
        PROVE  Stale(g)'
    <3>1. g \in Told /\ g \in Facts /\ f.seq \in Nat /\ g.seq \in Nat /\ consumer.host.seq \in Nat
      BY <2>7 DEF Fewer, Facts, LeaseInv, ConsumerType, Hosts
    <3>2. CASE g.turn \in ended
      <4>1. Stale(g)
        BY <2>8, <3>1, <3>2 DEF LeaseInv, EndedInv
      <4>2. g.challenge # 0
        BY <2>8, <3>1 DEF Facts
      <4> QED
        BY <2>1, <2>3, <2>6, <3>1, <4>1, <4>2 DEF Stale
    <3>3. CASE g.turn \notin ended
      <4>1. f.state = "idle" /\ g.turn = f.turn
        BY <2>1, <2>8, <3>3 DEF Facts
      <4>2. g.instance = f.instance => g.seq < f.seq
        BY <2>8, <3>1, <4>1 DEF LeaseInv, FactInv, InOrder
      <4> QED
        BY <2>1, <2>3, <2>6, <3>1, <4>2 DEF Stale
    <3> QED
      BY <3>2, <3>3
  <2>9. ASSUME f.state = "active" PROVE f.turn \notin ended /\ f.turn # 0
    <3>1. f.challenge # 0 /\ f.turn # 0 /\ f.seq \in Nat /\ consumer.host.seq \in Nat
      BY <2>9 DEF Facts, LeaseInv, ConsumerType, Hosts
    <3>2. ~Stale(f)
      BY <2>1, <3>1 DEF Stale
    <3> QED
      BY <2>9, <3>1, <3>2 DEF LeaseInv, EndedInv
  <2>10. /\ \A n \in ended' : n # 0 => n # agent.turn
         /\ \A n \in ended' : n <= turns
    BY <2>1, <2>5 DEF LeaseInv, EndedInv, FactInv, Placed, Facts
  <2>11. consumer'.host.state = "active"
            => consumer'.host.turn \notin ended' /\ consumer'.host.turn # 0
    BY <2>1, <2>6, <2>9
  <2>12. EndedInv'
    BY <2>8, <2>10, <2>11 DEF EndedInv
  <2> QED
    BY <2>4, <2>5, <2>12 DEF LeaseInv
<1> QED
  BY <1>1, <1>2

\* The facts of an instance that is over reach the broker only late.
LEMMA HostLeaves ==
  ASSUME LeaseInv, pipe' = <<>>, client' = 0, UNCHANGED <<late, turns, instances, challenges, ended>>,
         agent' = [agent EXCEPT !.instance = 0, !.asked = 0],
         consumer' \in {consumer, NoConsumer}
  PROVE  LeaseInv'
<1>1. Told' = late /\ late \subseteq Told /\ pipe' \in Seq(Facts)
  BY DEF Told
<1> HIDE DEF Told
<1>2. /\ agent' \in [turn : Nat, instance : Nat, seq : Nat, asked : Nat]
      /\ agent'.turn = agent.turn /\ agent'.instance = 0 /\ agent'.asked = 0
  BY DEF LeaseInv, AgentType
<1>3. AgentType'
  BY <1>1, <1>2 DEF LeaseInv, AgentType
<1>4. NoConsumer \in [instance : Nat, host : Hosts, challenge : Nat, left : Nat]
  BY DEF NoConsumer, NoHost, Hosts
<1>5. ConsumerType'
  BY <1>4 DEF LeaseInv, ConsumerType, AgentType, NoConsumer
<1>6. FactInv'
  BY <1>1, <1>2 DEF LeaseInv, FactInv, Placed
<1>7. \A g \in late : g \in Facts
  BY DEF LeaseInv, AgentType
<1>8. EndedInv'
  BY <1>1, <1>2, <1>7 DEF LeaseInv, EndedInv, Stale, NoConsumer, NoHost, Facts
<1> QED
  BY <1>3, <1>5, <1>6, <1>8 DEF LeaseInv

\* The host: its turns and proofs.
LEMMA HostSteps == LeaseInv /\ HostNext => LeaseInv'
<1> SUFFICES ASSUME LeaseInv, HostNext PROVE LeaseInv'
  OBVIOUS
<1> USE DEF AgentFact
<1>1. CASE TurnStarts
  <2>1. /\ agent.turn = 0 /\ turns' = turns + 1 /\ agent' = [agent EXCEPT !.turn = turns + 1]
        /\ UNCHANGED <<client, pipe, late, consumer, instances, challenges, ended>>
    BY <1>1 DEF TurnStarts
  <2>2. Told' = Told
    BY <2>1 DEF Told
  <2>3. /\ agent' \in [turn : Nat, instance : Nat, seq : Nat, asked : Nat]
        /\ agent'.turn = turns + 1 /\ agent'.instance = agent.instance
        /\ agent'.seq = agent.seq /\ agent'.asked = agent.asked /\ turns \in Nat
    BY <2>1 DEF LeaseInv, AgentType
  <2>4. \A f \in Told : f \in Facts
    BY DEF Told, LeaseInv, AgentType
  <2> HIDE DEF Told
  <2>5. AgentType' /\ ConsumerType'
    <3>1. AgentType'
      BY <2>1, <2>3 DEF LeaseInv, AgentType
    <3>2. ConsumerType'
      BY <2>1, <2>3 DEF LeaseInv, AgentType, ConsumerType
    <3> QED
      BY <3>1, <3>2
  <2>6. \A f \in Told : Placed(f)'
    BY <2>1, <2>3, <2>4 DEF LeaseInv, FactInv, Placed, Facts
  <2>7. FactInv'
    BY <2>1, <2>2, <2>6 DEF LeaseInv, FactInv
  <2>8. EndedInv'
    BY <2>1, <2>2, <2>3 DEF LeaseInv, AgentType, EndedInv, Stale
  <2> QED
    BY <2>5, <2>7, <2>8 DEF LeaseInv
<1>2. CASE TurnEnds
  <2>1. CASE agent.instance = 0
    <3>1. /\ agent' = [agent EXCEPT !.turn = 0]
          /\ UNCHANGED <<turns, client, pipe, late, consumer, instances, challenges, ended>>
      BY <1>2, <2>1 DEF TurnEnds
    <3>2. Told' = Told
      BY <3>1 DEF Told
    <3>3. /\ agent' \in [turn : Nat, instance : Nat, seq : Nat, asked : Nat]
          /\ agent'.turn = 0 /\ agent'.instance = agent.instance
          /\ agent'.seq = agent.seq /\ agent'.asked = agent.asked /\ turns \in Nat
      BY <3>1 DEF LeaseInv, AgentType
    <3> HIDE DEF Told
    <3>4. AgentType' /\ ConsumerType'
      <4>1. AgentType'
        BY <3>1, <3>3 DEF LeaseInv, AgentType
      <4>2. ConsumerType'
        BY <3>1, <3>3 DEF LeaseInv, AgentType, ConsumerType
      <4> QED
        BY <4>1, <4>2
    <3>5. FactInv'
      BY <3>1, <3>2, <3>3 DEF LeaseInv, FactInv, Placed
    <3>6. EndedInv'
      BY <3>1, <3>2, <3>3 DEF LeaseInv, EndedInv, Stale
    <3> QED
      BY <3>4, <3>5, <3>6 DEF LeaseInv
  <2>2. CASE agent.instance # 0
    <3> DEFINE f == [instance |-> agent.instance, seq |-> agent.seq + 1, turn |-> agent.turn,
                     state |-> "idle", challenge |-> 0]
    <3>1. /\ agent.turn # 0 /\ Speak(f) /\ agent' = [agent EXCEPT !.turn = 0, !.seq = @ + 1]
          /\ UNCHANGED <<turns, client, late, consumer, instances, challenges, ended>>
      BY <1>2, <2>2 DEF TurnEnds
    <3>2. /\ agent \in [turn : Nat, instance : Nat, seq : Nat, asked : Nat]
          /\ agent.turn <= turns /\ challenges \in Nat
      BY DEF LeaseInv, AgentType
    <3>3. f \in Facts /\ f.challenge <= challenges
      BY <3>2 DEF Facts
    <3>4. /\ agent' \in [turn : Nat, instance : Nat, seq : Nat, asked : Nat]
          /\ agent'.turn = 0 /\ agent'.instance = agent.instance
          /\ agent'.seq = agent.seq + 1 /\ agent'.asked = agent.asked
      <4>1. agent.seq + 1 \in Nat /\ 0 \in Nat
        BY <3>2
      <4> HIDE DEF f
      <4> QED
        BY <3>1, <3>2, <4>1
    <3>5. /\ f.instance = agent.instance /\ f.seq = agent.seq + 1 /\ f.turn = agent.turn
          /\ f.state = "idle" /\ f.turn <= turns
      BY <3>2
    <3> HIDE DEF f
    <3> QED
      BY <3>1, <3>2, <3>3, <3>4, <3>5, ToldFacts
  <2> QED
    BY <2>1, <2>2
<1>3. CASE Prove
  <2> DEFINE f == [instance |-> agent.instance, seq |-> agent.seq + 1, turn |-> agent.turn,
                   state |-> IF agent.turn = 0 THEN "idle" ELSE "active",
                   challenge |-> agent.asked]
  <2>1. /\ agent.asked # 0 /\ Speak(f) /\ agent' = [agent EXCEPT !.asked = 0, !.seq = @ + 1]
        /\ UNCHANGED <<turns, client, late, consumer, instances, challenges, ended>>
    BY <1>3 DEF Prove
  <2>2. /\ agent \in [turn : Nat, instance : Nat, seq : Nat, asked : Nat]
        /\ agent.turn <= turns /\ agent.asked <= challenges
    BY DEF LeaseInv, AgentType
  <2>3. f \in Facts /\ f.challenge <= challenges
    BY <2>1, <2>2 DEF Facts
  <2>4. /\ agent' \in [turn : Nat, instance : Nat, seq : Nat, asked : Nat]
        /\ agent'.turn = agent.turn /\ agent'.instance = agent.instance
        /\ agent'.seq = agent.seq + 1 /\ agent'.asked = 0
    <3>1. agent.seq + 1 \in Nat /\ 0 \in Nat
      BY <2>2
    <3> HIDE DEF f
    <3> QED
      BY <2>1, <2>2, <3>1
  <2>5. /\ f.instance = agent.instance /\ f.seq = agent.seq + 1 /\ f.turn = agent.turn
        /\ (f.state = "idle" => f.turn = 0) /\ f.turn <= turns
    BY <2>2
  <2> HIDE DEF f
  <2> QED
    BY <2>1, <2>2, <2>3, <2>4, <2>5, ToldFacts
<1>4. CASE Ready
  <2>1. /\ client # 0 /\ agent.instance # client
        /\ agent' = [agent EXCEPT !.instance = client, !.seq = 0, !.asked = 0]
        /\ UNCHANGED <<turns, client, pipe, late, consumer, instances, challenges, ended>>
    BY <1>4 DEF Ready
  <2>2. Told' = Told
    BY <2>1 DEF Told
  <2>3. /\ agent' \in [turn : Nat, instance : Nat, seq : Nat, asked : Nat]
        /\ agent'.turn = agent.turn /\ agent'.instance = client
        /\ agent'.seq = 0 /\ agent'.asked = 0 /\ challenges \in Nat
    BY <2>1 DEF LeaseInv, AgentType
  <2> HIDE DEF Told
  <2>4. AgentType' /\ ConsumerType'
    <3>1. AgentType'
      BY <2>1, <2>3 DEF LeaseInv, AgentType
    <3>2. ConsumerType'
      BY <2>1, <2>3 DEF LeaseInv, AgentType, ConsumerType
    <3> QED
      BY <3>1, <3>2
  <2>5. FactInv'
    BY <2>1, <2>2, <2>3 DEF LeaseInv, FactInv, Placed
  <2>6. EndedInv'
    BY <2>1, <2>2, <2>3 DEF LeaseInv, EndedInv, Stale
  <2> QED
    BY <2>4, <2>5, <2>6 DEF LeaseInv
<1> QED
  BY <1>1, <1>2, <1>3, <1>4 DEF HostNext

\* The broker's side of a consumer that is not told a fact.
LEMMA ConsumerSteps ==
  ASSUME LeaseInv, Open \/ Challenge \/ TaskNext PROVE LeaseInv'
<1>1. CASE Open
  <2>1. /\ instances' = instances + 1 /\ client' = instances + 1
        /\ consumer' = [NoConsumer EXCEPT !.instance = instances + 1]
        /\ UNCHANGED <<agent, turns, pipe, late, challenges, ended>>
    BY <1>1 DEF Open
  <2>2. Told' = Told /\ \A f \in Told : f \in Facts
    BY <2>1 DEF Told, LeaseInv, AgentType
  <2> HIDE DEF Told
  <2>3. /\ consumer' \in [instance : Nat, host : Hosts, challenge : Nat, left : Nat]
        /\ consumer'.instance = instances + 1 /\ consumer'.challenge = 0
        /\ consumer'.host.state = "none" /\ instances \in Nat /\ challenges \in Nat
    BY <2>1 DEF NoConsumer, NoHost, Hosts, LeaseInv, AgentType
  <2>4. AgentType' /\ ConsumerType'
    <3>1. AgentType'
      BY <2>1, <2>3 DEF LeaseInv, AgentType
    <3>2. ConsumerType'
      BY <2>1, <2>3 DEF LeaseInv, AgentType, ConsumerType
    <3> QED
      BY <3>1, <3>2
  <2>5. \A f \in Told : Placed(f)'
    BY <2>1, <2>2, <2>3 DEF LeaseInv, FactInv, Placed, Facts
  <2>6. FactInv'
    BY <2>1, <2>2, <2>5 DEF LeaseInv, FactInv
  <2>7. EndedInv'
    BY <2>1, <2>2, <2>3 DEF LeaseInv, EndedInv, Stale, Facts
  <2> QED
    BY <2>4, <2>6, <2>7 DEF LeaseInv
<1>2. CASE Challenge
  <2>1. /\ challenges' = challenges + 1
        /\ consumer' = [consumer EXCEPT !.challenge = challenges + 1, !.left = ChallengeTTL]
        /\ agent' = [agent EXCEPT !.asked = challenges + 1]
        /\ UNCHANGED <<turns, client, pipe, late, instances, ended>>
    BY <1>2 DEF Challenge
  <2>2. Told' = Told /\ \A f \in Told : f \in Facts
    BY <2>1 DEF Told, LeaseInv, AgentType
  <2> HIDE DEF Told
  <2>3. /\ consumer' \in [instance : Nat, host : Hosts, challenge : Nat, left : Nat]
        /\ consumer'.instance = consumer.instance /\ consumer'.challenge = challenges + 1
        /\ consumer'.host = consumer.host /\ challenges \in Nat
    <3>1. /\ consumer \in [instance : Nat, host : Hosts, challenge : Nat, left : Nat]
          /\ challenges \in Nat /\ challenges + 1 \in Nat
      BY DEF LeaseInv, AgentType, ConsumerType
    <3>2. ChallengeTTL \in Nat
      BY LeaseAssumption DEF LeaseAssumption
    <3> QED
      BY <2>1, <3>1, <3>2
  <2>4. /\ agent' \in [turn : Nat, instance : Nat, seq : Nat, asked : Nat]
        /\ agent'.turn = agent.turn /\ agent'.instance = agent.instance
        /\ agent'.seq = agent.seq /\ agent'.asked = challenges + 1
    BY <2>1 DEF LeaseInv, AgentType
  <2>5. AgentType' /\ ConsumerType'
    <3>1. challenges' \in Nat /\ agent'.asked <= challenges' /\ consumer'.challenge <= challenges'
      BY <2>1, <2>3, <2>4
    <3>2. AgentType'
      BY <2>1, <2>4, <3>1 DEF LeaseInv, AgentType
    <3>3. ConsumerType'
      BY <2>1, <2>3, <3>1 DEF LeaseInv, ConsumerType
    <3> QED
      BY <3>2, <3>3
  <2>6. \A f \in Told : Placed(f)'
    BY <2>1, <2>2, <2>3, <2>4 DEF LeaseInv, FactInv, Placed, Facts
  <2>7. FactInv'
    BY <2>1, <2>2, <2>6 DEF LeaseInv, FactInv
  <2>8. \A f \in Told : Stale(f) => Stale(f)'
    BY <2>2, <2>3 DEF LeaseInv, FactInv, Placed, Stale, Facts
  <2>9. EndedInv'
    BY <2>1, <2>2, <2>3, <2>4, <2>8 DEF LeaseInv, EndedInv
  <2> QED
    BY <2>5, <2>7, <2>9 DEF LeaseInv
<1>3. CASE TaskNext
  <2>1. UNCHANGED <<agent, turns, client, pipe, late, instances, challenges, ended>>
    BY <1>3 DEF TaskNext, Grant, Refuse, Heartbeat, Move, TargetRests, Complete, Cancel,
       Maintain, StreamsChange, Tick, RecoverLease
  <2>2. Told' = Told /\ \A f \in Told : f \in Facts
    BY <2>1 DEF Told, LeaseInv, AgentType
  <2> HIDE DEF Told
  <2>3. \/ UNCHANGED consumer
        \/ consumer' = [consumer EXCEPT !.left = Less(@), !.host.left = Less(@)]
        \/ consumer' = [consumer EXCEPT !.host = NoHost, !.challenge = 0, !.left = 0]
    BY <1>3 DEF TaskNext, Grant, Refuse, Heartbeat, Move, TargetRests, Complete, Cancel,
       Maintain, StreamsChange, Tick, RecoverLease
  <2>4. /\ consumer' \in [instance : Nat, host : Hosts, challenge : Nat, left : Nat]
        /\ consumer'.instance = consumer.instance
        /\ \/ /\ consumer'.challenge = consumer.challenge
              /\ consumer'.host.state = consumer.host.state
              /\ consumer'.host.turn = consumer.host.turn
              /\ consumer'.host.seq = consumer.host.seq
           \/ consumer'.challenge = 0 /\ consumer'.host.state = "none"
    <3>1. CASE UNCHANGED consumer
      BY <3>1 DEF LeaseInv, ConsumerType
    <3>2. CASE consumer' = [consumer EXCEPT !.left = Less(@), !.host.left = Less(@)]
      <4>1. /\ consumer \in [instance : Nat, host : Hosts, challenge : Nat, left : Nat]
            /\ consumer.host \in Hosts /\ consumer.host.left \in Nat /\ consumer.left \in Nat
        BY DEF LeaseInv, ConsumerType, Hosts
      <4>2. Less(consumer.left) \in Nat /\ Less(consumer.host.left) \in Nat
        BY <4>1 DEF Less
      <4>3. /\ consumer'.instance = consumer.instance
            /\ consumer'.challenge = consumer.challenge /\ consumer'.left = Less(consumer.left)
            /\ consumer'.host = [consumer.host EXCEPT !.left = Less(consumer.host.left)]
            /\ consumer' = [instance |-> consumer.instance, challenge |-> consumer.challenge,
                            left |-> Less(consumer.left),
                            host |-> [consumer.host EXCEPT !.left = Less(consumer.host.left)]]
        BY <3>2, <4>1
      <4>4. /\ consumer'.host \in Hosts /\ consumer'.host.state = consumer.host.state
            /\ consumer'.host.turn = consumer.host.turn /\ consumer'.host.seq = consumer.host.seq
        BY <4>1, <4>2, <4>3 DEF Hosts
      <4> QED
        BY <4>1, <4>2, <4>3, <4>4
    <3>3. CASE consumer' = [consumer EXCEPT !.host = NoHost, !.challenge = 0, !.left = 0]
      BY <3>3 DEF LeaseInv, ConsumerType, Hosts, NoHost
    <3> QED
      BY <2>3, <3>1, <3>2, <3>3
  <2>5. AgentType' /\ ConsumerType' /\ FactInv'
    BY <2>1, <2>2, <2>4 DEF LeaseInv, AgentType, ConsumerType, FactInv, Placed
  <2>6. EndedInv'
    BY <2>1, <2>2, <2>4 DEF LeaseInv, EndedInv, Stale, Facts
  <2> QED
    BY <2>5, <2>6 DEF LeaseInv
<1> QED
  BY <1>1, <1>2, <1>3

LEMMA LeaseStutters == LeaseInv /\ UNCHANGED leaseVars => LeaseInv'
  BY DEF leaseVars, LeaseInv, AgentType, ConsumerType, FactInv, Placed, EndedInv, Stale, Told

LEMMA LeaseSteps == LeaseInv /\ [LeaseNext]_leaseVars => LeaseInv'
<1> SUFFICES ASSUME LeaseInv, [LeaseNext]_leaseVars PROVE LeaseInv'
  OBVIOUS
<1>1. CASE Forward
  <2>1. /\ client # 0 /\ pipe # <<>> /\ Head(pipe).instance = client /\ pipe' = Tail(pipe)
        /\ UNCHANGED <<agent, turns, client, instances, challenges>>
        /\ late' \in {late, late \union {Head(pipe)}}
    BY <1>1 DEF Forward
  <2>2. Head(pipe) \in Facts /\ Head(pipe) \in Told /\ Fewer
    BY <2>1, ForwardedFact
  <2>3. CASE Fact(Head(pipe))
    BY <2>1, <2>2, <2>3, TakenFact
  <2>4. CASE UNCHANGED <<consumer, ended>>
    <3>1. AgentType' /\ FactInv'
      BY <2>1, <2>2, <2>4, FewerFacts DEF LeaseInv, AgentType
    <3>2. ConsumerType' /\ EndedInv'
      BY <2>1, <2>2, <2>4 DEF LeaseInv, ConsumerType, EndedInv, Stale, Fewer
    <3> QED
      BY <3>1, <3>2 DEF LeaseInv
  <2> QED
    BY <1>1, <2>3, <2>4 DEF Forward
<1>2. CASE Arrive
  <2>1. PICK f \in late :
           /\ late' = late \ {f} /\ Fact(f)
           /\ UNCHANGED <<agent, turns, client, pipe, instances, challenges>>
    BY <1>2 DEF Arrive
  <2>2. f \in Facts /\ f \in Told /\ Fewer
    BY <2>1 DEF Told, Fewer, LeaseInv, AgentType, FactInv
  <2> QED
    BY <2>1, <2>2, TakenFact
<1>3. CASE Leave
  BY <1>3, HostLeaves DEF Leave, Close
<1>4. CASE ClientDies
  BY <1>4, HostLeaves DEF ClientDies
<1> QED
  BY <1>1, <1>2, <1>3, <1>4, HostSteps, ConsumerSteps, LeaseStutters DEF LeaseNext, ClientNext

\* A turn the broker has been told is over is never proved alive again, whatever was
\* delayed, reordered or sent by an earlier client, and over recoveries of the broker
\* (broker/host.go:60, host.go:75).
THEOREM EndedTurnsAreOver == LeaseSpec => []EndedTurnsStayEnded
<1>1. LeaseInv => EndedTurnsStayEnded
  BY DEF LeaseInv, EndedInv, EndedTurnsStayEnded
<1> QED
  BY <1>1, LeaseStarts, LeaseSteps, PTL DEF LeaseSpec

\* A step that takes a fact fences the scope first.
LEMMA FencedScope ==
  ASSUME LeaseInv, NEW f, Fact(f), ActiveTask(scope), ~HostTaskValid(scope, consumer)
  PROVE  ~(ActiveTask(scope') /\ HostTaskValid(scope', consumer'))
<1>1. CASE UNCHANGED <<consumer, scope>>
  BY <1>1
<1>2. CASE ~UNCHANGED <<consumer, scope>>
  <2>1. Take(f)
    BY <1>2 DEF Fact
  <2>2. CASE Owned(scope, consumer)
    <3> DEFINE t == Fenced(scope, consumer)
    <3>1. ~ActiveTask(t)
      BY <2>2 DEF Fenced, Cancelled, ActiveTask
    <3> HIDE DEF t
    <3>2. ~Owned(t, consumer)
      BY <3>1 DEF Owned
    <3>3. scope' = t
      BY <2>1, <3>2 DEF Take, t
    <3> QED
      BY <3>1, <3>3
  <2>3. CASE ~Owned(scope, consumer)
    <3>1. Fenced(scope, consumer) = scope
      BY <2>3 DEF Fenced
    <3>2. scope' = scope
      BY <2>1, <2>3, <3>1 DEF Take
    <3>3. consumer' = consumer \/ consumer' = [consumer EXCEPT !.host = Accepted(consumer, f),
                              !.challenge = IF f.challenge = 0 THEN @ ELSE 0,
                              !.left = IF f.challenge = 0 THEN @ ELSE 0]
      BY <2>1 DEF Take
    <3>4. scope.instance # 0 /\ scope.instance # consumer.instance
      BY <2>3 DEF HostTaskValid, Owned
    <3>5. consumer'.instance = consumer.instance
      BY <3>3 DEF LeaseInv, ConsumerType
    <3> QED
      BY <3>2, <3>4, <3>5 DEF HostTaskValid
  <2> QED
    BY <2>2, <2>3
<1> QED
  BY <1>1, <1>2

\* A scope whose turn is not proved alive is lost: no step, of the host, of its client,
\* of the timer, of a request that names the turn again or of the passing of time, makes
\* it valid (broker/host.go:63, coordination.go:36).
THEOREM LostScopeStaysLost == LeaseSpec => ScopeNeverRevived
<1>1. LeaseInv /\ [LeaseNext]_leaseVars => 
          [ActiveTask(scope) /\ ~HostTaskValid(scope, consumer)
             => ~(ActiveTask(scope') /\ HostTaskValid(scope', consumer'))]_leaseVars
  <2> SUFFICES ASSUME LeaseInv, LeaseNext, ActiveTask(scope), ~HostTaskValid(scope, consumer)
               PROVE  ~(ActiveTask(scope') /\ HostTaskValid(scope', consumer'))
    OBVIOUS
  <2>1. /\ scope.instance # 0
        /\ consumer \in [instance : Nat, host : Hosts, challenge : Nat, left : Nat]
    BY DEF HostTaskValid, LeaseInv, ConsumerType
  <2>2. CASE UNCHANGED scope /\ UNCHANGED consumer
    BY <2>2
  <2>3. CASE ~ActiveTask(scope')
    BY <2>3
  <2>4. CASE HostNext
    <3>1. UNCHANGED <<scope, consumer>>
      BY <2>4 DEF HostNext, TurnStarts, TurnEnds, Prove, Ready
    <3> QED
      BY <2>2, <3>1
  <2>5. CASE ClientNext
    <3>1. CASE Open
      BY <2>1, <3>1 DEF Open, HostTaskValid, NoConsumer, NoHost
    <3>2. CASE Challenge
      <4>1. /\ scope' = scope
            /\ consumer' = [consumer EXCEPT !.challenge = challenges + 1, !.left = ChallengeTTL]
        BY <3>2 DEF Challenge
      <4>2. consumer'.instance = consumer.instance /\ consumer'.host = consumer.host
        BY <2>1, <4>1
      <4> QED
        BY <4>1, <4>2 DEF HostTaskValid
    <3>3. CASE Forward
      <4>1. UNCHANGED <<scope, consumer>> \/ Fact(Head(pipe))
        BY <3>3 DEF Forward
      <4> QED
        BY <2>2, <4>1, FencedScope
    <3>4. CASE Arrive
      BY <3>4, FencedScope DEF Arrive
    <3>5. CASE Leave
      <4>1. \/ UNCHANGED <<scope, consumer>>
            \/ ~ActiveTask(scope')
            \/ scope' = scope /\ consumer' \in {consumer, NoConsumer}
        <5>1. PICK fails \in BOOLEAN : Close(fails)
          BY <3>5 DEF Leave
        <5>2. ASSUME Owned(scope, consumer), scope' = Cancelled(scope) PROVE ~ActiveTask(scope')
          BY <5>2 DEF Cancelled, ActiveTask
        <5> QED
          BY <5>1, <5>2 DEF Close
      <4>2. CASE scope' = scope /\ consumer' = NoConsumer
        BY <2>1, <4>2 DEF HostTaskValid, NoConsumer
      <4> QED
        BY <2>2, <2>3, <4>1, <4>2
    <3>6. CASE ClientDies
      BY <2>2, <3>6 DEF ClientDies
    <3> QED
      BY <2>5, <3>1, <3>2, <3>3, <3>4, <3>5, <3>6 DEF ClientNext
  <2>6. CASE TaskNext
    <3>1. CASE Grant \/ Heartbeat \/ Move \/ Complete
      BY <3>1 DEF Grant, Heartbeat, Move, Complete, TaskValid
    <3>2. CASE Refuse \/ Cancel \/ RecoverLease
      <4>1. scope' = Cancelled(scope)
        BY <3>2 DEF Refuse, Cancel, RecoverLease
      <4> QED
        BY <2>3, <4>1 DEF Cancelled, ActiveTask
    <3>3. CASE Maintain
      <4>1. scope' = Cancelled(scope)
        BY <3>3 DEF Maintain
      <4> QED
        BY <2>3, <4>1 DEF Cancelled, ActiveTask
    <3>4. CASE TargetRests \/ StreamsChange
      BY <2>2, <3>4 DEF TargetRests, StreamsChange
    <3>5. CASE Tick
      <4>1. /\ consumer' = [consumer EXCEPT !.left = Less(@), !.host.left = Less(@)]
            /\ scope' = [scope EXCEPT !.left = Less(@)]
        BY <3>5 DEF Tick
      <4>2. consumer.host \in Hosts /\ consumer.host.left \in Nat
        BY <2>1 DEF Hosts
      <4>3. /\ consumer'.instance = consumer.instance
            /\ consumer'.host = [consumer.host EXCEPT !.left = Less(consumer.host.left)]
        BY <2>1, <4>1
      <4>4. /\ consumer'.host.state = consumer.host.state
            /\ consumer'.host.turn = consumer.host.turn
            /\ consumer'.host.left = Less(consumer.host.left)
        BY <4>2, <4>3 DEF Hosts
      <4>5. Less(consumer.host.left) > 0 => consumer.host.left > 0
        BY <4>2 DEF Less
      <4>6. scope'.instance = scope.instance /\ scope'.turn = scope.turn
        BY <4>1
      <4> QED
        BY <4>3, <4>4, <4>5, <4>6 DEF HostTaskValid
    <3> QED
      BY <2>6, <3>1, <3>2, <3>3, <3>4, <3>5 DEF TaskNext
  <2> QED
    BY <2>4, <2>5, <2>6 DEF LeaseNext
<1> QED
  BY <1>1, LeaseStarts, LeaseSteps, PTL DEF LeaseSpec, ScopeNeverRevived

----------------------------------------------------------------------------
(* Commands and captures.                                                  *)

Event == [id : Nat, kind : {"other", "binding_changed", "terminated", "capture"},
          binding : Nat]
Descriptors == [cursor : Nat, events : Seq(Event), commands : SUBSET CommandIds, run : Nat,
                binding : Nat, counts : [Tracepoints -> 0 .. CaptureLimit],
                sequence : Nat, stopped : BOOLEAN]

\* The descriptor that is saved may be older than the one in memory, but not by a run's
\* command or capture that went out.
LedgerType ==
    /\ mem \in Descriptors /\ saved \in Descriptors /\ saved.run <= mem.run
    /\ dispatched \in [1 .. MaxRuns -> [CommandIds -> Nat]]
    /\ \A hit \in inspecting : hit.defs \subseteq Tracepoints /\ hit.defs # {}

Spent(id, s) == s.run = mem.run => id \in s.commands

CommandInv ==
    \A r \in 1 .. MaxRuns, id \in CommandIds :
       /\ dispatched[r][id] <= 1
       /\ r > mem.run => dispatched[r][id] = 0
       /\ r = mem.run /\ dispatched[r][id] > 0 => Spent(id, mem) /\ Spent(id, saved)

TakenOf(r, d) == {t \in taken : t.run = r /\ t.def = d}

Counted(r, d, s) == s.run = r => Cardinality(TakenOf(r, d)) <= s.counts[d]

CaptureInv ==
    /\ \A t \in taken : /\ t.run \in Nat /\ t.run <= mem.run /\ t.hit \in Nat
                         /\ t.hit <= mem.sequence /\ t.hit <= saved.sequence
    /\ \A s, t \in taken : s.hit = t.hit => s.run = t.run
    /\ \A r \in Nat, d \in Tracepoints :
          /\ IsFiniteSet(TakenOf(r, d))
          /\ Cardinality(TakenOf(r, d)) <= CaptureLimit
          /\ Counted(r, d, mem) /\ Counted(r, d, saved)

LedgerInv == LedgerType /\ CommandInv /\ CaptureInv

LEMMA LedgerStarts == LedgerInit => LedgerInv
<1> SUFFICES ASSUME LedgerInit PROVE LedgerInv
  OBVIOUS
<1>1. /\ mem = [cursor |-> 0, events |-> <<>>, commands |-> {}, run |-> 1, binding |-> 1,
                counts |-> [d \in Tracepoints |-> 0], sequence |-> 0, stopped |-> FALSE]
      /\ saved = mem /\ taken = {} /\ inspecting = {}
      /\ dispatched = [r \in 1 .. MaxRuns |-> [id \in CommandIds |-> 0]]
  BY DEF LedgerInit
<1>2. CaptureLimit \in Nat
  BY LedgerAssumption DEF LedgerAssumption
<1>3. <<>> \in Seq(Event) /\ [d \in Tracepoints |-> 0] \in [Tracepoints -> 0 .. CaptureLimit]
  BY <1>2
<1>4. mem \in Descriptors
  BY <1>1, <1>3 DEF Descriptors
<1>5. LedgerType
  BY <1>1, <1>4 DEF LedgerType, Descriptors
<1>6. CommandInv
  BY <1>1 DEF CommandInv
<1>7. \A r \in Nat, d \in Tracepoints : TakenOf(r, d) = {}
  BY <1>1 DEF TakenOf
<1>8. CaptureInv
  <2>1. \A r \in Nat, d \in Tracepoints : IsFiniteSet(TakenOf(r, d)) /\ Cardinality(TakenOf(r, d)) = 0
    BY <1>7, FS_EmptySet
  <2>2. \A d \in Tracepoints : mem.counts[d] = 0 /\ saved.counts[d] = 0
    BY <1>1
  <2>3. \A r \in Nat, d \in Tracepoints : Counted(r, d, mem) /\ Counted(r, d, saved)
    BY <2>1, <2>2 DEF Counted
  <2>4. taken = {}
    BY <1>1
  <2>5. \A r \in Nat, d \in Tracepoints : Cardinality(TakenOf(r, d)) <= CaptureLimit
    BY <1>2, <2>1
  <2> QED
    BY <2>1, <2>3, <2>4, <2>5 DEF CaptureInv
<1> QED
  BY <1>5, <1>6, <1>8 DEF LedgerInv

\* An event changes the events of a descriptor only.
LEMMA MoreEvents ==
  ASSUME NEW s \in Descriptors, NEW n \in Nat,
         NEW kind \in {"other", "binding_changed", "terminated", "capture"}
  PROVE  /\ WithEvents(s, kind, n) \in Descriptors
         /\ WithEvents(s, kind, n).run = s.run
         /\ WithEvents(s, kind, n).commands = s.commands
         /\ WithEvents(s, kind, n).counts = s.counts
         /\ WithEvents(s, kind, n).sequence = s.sequence
<1> DEFINE more == [i \in 1 .. n |-> Numbered(s, kind, i)]
           events == LastOf(s.events \o more, Ring)
<1>1. s.cursor \in Nat /\ s.binding \in Nat /\ s.events \in Seq(Event)
  BY DEF Descriptors
<1>2. \A i \in 1 .. n : Numbered(s, kind, i) \in Event
  BY <1>1 DEF Numbered, Event
<1>3. more \in Seq(Event)
  BY <1>2
<1> HIDE DEF more
<1>4. s.events \o more \in Seq(Event)
  BY <1>1, <1>3
<1>5. events \in Seq(Event)
  <2> DEFINE all == s.events \o more
  <2>1. all \in Seq(Event) /\ Ring \in Nat \ {0} /\ Len(all) \in Nat
    BY <1>4, LedgerAssumption DEF LedgerAssumption
  <2> HIDE DEF all
  <2>2. CASE Len(all) > Ring
    <3>1. SubSeq(all, Len(all) - Ring + 1, Len(all)) \in Seq(Event)
      BY <2>1, <2>2
    <3> QED
      BY <2>2, <3>1 DEF LastOf, all
  <2>3. CASE ~(Len(all) > Ring)
    BY <2>1, <2>3 DEF LastOf, all
  <2> QED
    BY <2>2, <2>3
<1>6. WithEvents(s, kind, n) = [s EXCEPT !.cursor = s.cursor + n, !.events = events]
  BY DEF WithEvents, more
<1>7. s.cursor + n \in Nat
  BY <1>1
<1> HIDE DEF events
<1> QED
  BY <1>5, <1>6, <1>7 DEF Descriptors

\* What leaves the commands, the counts and the history alone.
Same(s, t) == /\ s.run = t.run /\ s.commands = t.commands
              /\ s.counts = t.counts /\ s.sequence = t.sequence

LEMMA SameLedger ==
  ASSUME LedgerInv, mem' \in Descriptors, saved' \in Descriptors,
         Same(mem', mem) \/ (saved.run = mem.run /\ Same(mem', saved)),
         Same(saved', saved) \/ Same(saved', mem'),
         dispatched' = dispatched, taken' = taken, inspecting' \subseteq inspecting
  PROVE  LedgerInv'
<1>1. LedgerType'
  <2>1. mem'.run = mem.run /\ saved.run <= mem.run /\ saved'.run \in {saved.run, mem'.run}
    BY DEF LedgerInv, LedgerType, Same
  <2>2. mem.run \in Nat /\ saved.run \in Nat
    BY DEF LedgerInv, LedgerType, Descriptors
  <2>3. saved'.run <= mem'.run
    BY <2>1, <2>2
  <2>4. \A hit \in inspecting' : hit.defs \subseteq Tracepoints /\ hit.defs # {}
    BY DEF LedgerInv, LedgerType
  <2>5. dispatched' \in [1 .. MaxRuns -> [CommandIds -> Nat]]
    BY DEF LedgerInv, LedgerType
  <2> QED
    BY <2>3, <2>4, <2>5 DEF LedgerType
<1>2. mem'.run = mem.run
  BY DEF Same
<1>3. CommandInv'
  BY <1>2 DEF LedgerInv, CommandInv, Spent, Same
<1>4. \A r \in Nat, d \in Tracepoints : TakenOf(r, d)' = TakenOf(r, d)
  BY DEF TakenOf
<1>5. \A r \in Nat, d \in Tracepoints : Counted(r, d, mem)' /\ Counted(r, d, saved)'
  BY <1>4 DEF LedgerInv, CaptureInv, Counted, Same
<1>6. CaptureInv'
  BY <1>2, <1>4, <1>5 DEF LedgerInv, CaptureInv, Same
<1> QED
  BY <1>1, <1>3, <1>6 DEF LedgerInv

\* A command goes out once its identity is saved.
LEMMA SubmittedCommand ==
  ASSUME LedgerInv, NEW id \in CommandIds, Submit(id) PROVE LedgerInv'
<1>1. CASE UNCHANGED <<mem, dispatched, saved>>
  BY <1>1, SameLedger DEF Submit, Same, LedgerInv, LedgerType
<1>2. CASE ~UNCHANGED <<mem, dispatched, saved>>
  <2>1. /\ id \notin mem.commands
        /\ mem' = [mem EXCEPT !.commands = @ \cup {id}] /\ saved' = mem'
        /\ dispatched' \in {dispatched, [dispatched EXCEPT ![mem.run][id] = @ + 1]}
        /\ UNCHANGED <<inspecting, taken>>
    BY <1>2 DEF Submit, Persists, NotPersists, Failing
  <2>2. /\ mem' \in Descriptors /\ mem'.run = mem.run /\ mem'.counts = mem.counts
        /\ mem'.sequence = mem.sequence /\ mem'.commands = mem.commands \union {id}
        /\ mem.run \in Nat /\ saved' \in Descriptors
    BY <2>1 DEF LedgerInv, LedgerType, Descriptors
  <2>3. dispatched \in [1 .. MaxRuns -> [CommandIds -> Nat]]
    BY DEF LedgerInv, LedgerType
  <2>4. ASSUME NEW r \in 1 .. MaxRuns, NEW i \in CommandIds
        PROVE  /\ dispatched'[r][i] \in Nat
               /\ dispatched'[r][i] <= 1
               /\ r > mem.run => dispatched'[r][i] = 0
               /\ r = mem.run /\ dispatched'[r][i] > 0 => i \in mem'.commands
    <3>1. /\ dispatched[r][i] \in Nat /\ dispatched[r][i] <= 1
          /\ r > mem.run => dispatched[r][i] = 0
          /\ r = mem.run /\ dispatched[r][i] > 0 => i \in mem.commands
      BY <2>3 DEF LedgerInv, CommandInv, Spent
    <3>2. CASE dispatched' = dispatched
      BY <2>2, <3>1, <3>2
    <3>3. CASE r = mem.run /\ i = id /\ dispatched' = [dispatched EXCEPT ![mem.run][id] = @ + 1]
      <4>1. dispatched'[r][i] = dispatched[r][i] + 1
        BY <2>3, <3>3
      <4>2. dispatched[r][i] = 0
        BY <2>1, <3>1, <3>3
      <4> QED
        BY <2>2, <3>3, <4>1, <4>2
    <3>4. CASE ~(r = mem.run /\ i = id)
               /\ dispatched' = [dispatched EXCEPT ![mem.run][id] = @ + 1]
      <4>1. dispatched'[r][i] = dispatched[r][i]
        BY <2>3, <3>4
      <4> QED
        BY <2>2, <3>1, <4>1
    <3> QED
      BY <2>1, <3>2, <3>3, <3>4
  <2>5. dispatched' \in [1 .. MaxRuns -> [CommandIds -> Nat]]
    <3>1. CASE dispatched' = dispatched
      BY <2>3, <3>1
    <3>2. CASE dispatched' = [dispatched EXCEPT ![mem.run][id] = @ + 1]
      <4>1. \A r \in 1 .. MaxRuns :
               /\ dispatched[r] \in [CommandIds -> Nat]
               /\ [dispatched[r] EXCEPT ![id] = @ + 1] \in [CommandIds -> Nat]
        BY <2>3
      <4>2. dispatched' = [r \in 1 .. MaxRuns |-> IF r = mem.run
                             THEN [dispatched[r] EXCEPT ![id] = @ + 1] ELSE dispatched[r]]
        BY <2>3, <3>2
      <4> QED
        BY <4>1, <4>2
    <3> QED
      BY <2>1, <3>1, <3>2
  <2>6. LedgerType'
    BY <2>1, <2>2, <2>5 DEF LedgerInv, LedgerType
  <2>7. CommandInv'
    BY <2>1, <2>2, <2>4 DEF CommandInv, Spent
  <2>8. \A r \in Nat, d \in Tracepoints : TakenOf(r, d)' = TakenOf(r, d)
    BY <2>1 DEF TakenOf
  <2>9. CaptureInv'
    BY <2>1, <2>2, <2>8 DEF LedgerInv, CaptureInv, Counted
  <2> QED
    BY <2>6, <2>7, <2>9 DEF LedgerInv
<1> QED
  BY <1>1, <1>2

\* A hit is inspected once its place in the limits is saved.
LEMMA TakenHit ==
  ASSUME LedgerInv, NEW D \in SUBSET Tracepoints, Hit(D) PROVE LedgerInv'
<1> DEFINE n == Cardinality(D)
<1>1. n \in Nat /\ n >= 1 /\ D # {}
  <2>1. IsFiniteSet(D)
    BY LedgerAssumption, FS_Subset DEF LedgerAssumption
  <2> QED
    BY <2>1, FS_CardinalityType, FS_EmptySet DEF Hit
<1> HIDE DEF n
<1>2. /\ mem \in Descriptors /\ saved \in Descriptors /\ saved.run <= mem.run
      /\ CaptureLimit \in Nat /\ mem.run \in Nat /\ saved.run \in Nat
      /\ mem.sequence \in Nat /\ saved.sequence \in Nat
      /\ mem.counts \in [Tracepoints -> 0 .. CaptureLimit]
  BY LedgerAssumption DEF LedgerAssumption, LedgerInv, LedgerType, Descriptors
<1>3. mem' = [mem EXCEPT !.sequence = @ + n,
                !.counts = [d \in Tracepoints |->
                              IF d \in D /\ @[d] < CaptureLimit THEN @[d] + 1 ELSE @[d]]]
  BY DEF Hit, Reserved, n
<1>4. /\ mem'.run = mem.run /\ mem'.commands = mem.commands
      /\ mem'.sequence = mem.sequence + n
      /\ \A d \in Tracepoints : mem'.counts[d] =
             IF d \in D /\ mem.counts[d] < CaptureLimit THEN mem.counts[d] + 1 ELSE mem.counts[d]
      /\ mem' \in Descriptors
  <2> DEFINE c == [d \in Tracepoints |-> IF d \in D /\ mem.counts[d] < CaptureLimit
                                         THEN mem.counts[d] + 1 ELSE mem.counts[d]]
  <2>1. mem' = [mem EXCEPT !.sequence = mem.sequence + n, !.counts = c]
    BY <1>3
  <2>2. c \in [Tracepoints -> 0 .. CaptureLimit] /\ mem.sequence + n \in Nat
    BY <1>1, <1>2
  <2>3. \A d \in Tracepoints : c[d] = IF d \in D /\ mem.counts[d] < CaptureLimit
                                       THEN mem.counts[d] + 1 ELSE mem.counts[d]
    OBVIOUS
  <2> HIDE DEF c
  <2> QED
    BY <1>2, <2>1, <2>2, <2>3 DEF Descriptors
<1>5. /\ \/ /\ saved' = mem'
            /\ inspecting' = inspecting \cup {[first |-> mem.sequence + 1, defs |-> D]}
            /\ taken' = taken \cup [run : {mem.run}, def : Allowed(D), hit : {mem.sequence + 1}]
         \/ UNCHANGED <<saved, inspecting, taken>>
      /\ dispatched' = dispatched
  BY DEF Hit, Persists, NotPersists
<1>6. LedgerType'
  <2>1. \A hit \in inspecting' : hit.defs \subseteq Tracepoints /\ hit.defs # {}
    <3> SUFFICES ASSUME NEW hit \in inspecting' PROVE hit.defs \subseteq Tracepoints /\ hit.defs # {}
      OBVIOUS
    <3>1. CASE hit \in inspecting
      BY <3>1 DEF LedgerInv, LedgerType
    <3>2. CASE hit = [first |-> mem.sequence + 1, defs |-> D]
      BY <1>1, <3>2
    <3> QED
      BY <1>5, <3>1, <3>2
  <2> QED
    BY <1>2, <1>4, <1>5, <2>1 DEF LedgerInv, LedgerType
<1>7. CommandInv'
  BY <1>2, <1>4, <1>5 DEF LedgerInv, CommandInv, Spent
<1>8. CASE UNCHANGED <<saved, taken>>
  <2>1. \A r \in Nat, d \in Tracepoints : TakenOf(r, d)' = TakenOf(r, d)
    BY <1>8 DEF TakenOf
  <2>2. ASSUME NEW r \in Nat, NEW d \in Tracepoints, mem.run = r
        PROVE  Cardinality(TakenOf(r, d)) <= mem'.counts[d]
    <3>1. /\ Cardinality(TakenOf(r, d)) <= mem.counts[d]
          /\ Cardinality(TakenOf(r, d)) \in Nat /\ mem.counts[d] \in Nat
      BY <1>2, <2>2, FS_CardinalityType DEF LedgerInv, CaptureInv, Counted
    <3> QED
      BY <1>4, <3>1
  <2>3. \A r \in Nat, d \in Tracepoints : Counted(r, d, mem)' /\ Counted(r, d, saved)'
    BY <1>4, <1>8, <2>1, <2>2 DEF LedgerInv, CaptureInv, Counted
  <2>4. \A t \in taken' : /\ t.run \in Nat /\ t.run <= mem'.run /\ t.hit \in Nat
                          /\ t.hit <= mem'.sequence /\ t.hit <= saved'.sequence
    BY <1>1, <1>2, <1>4, <1>8 DEF LedgerInv, CaptureInv
  <2>5. CaptureInv'
    BY <1>8, <2>1, <2>3, <2>4 DEF LedgerInv, CaptureInv
  <2> QED
    BY <1>6, <1>7, <2>5 DEF LedgerInv
<1>9. CASE /\ saved' = mem'
           /\ taken' = taken \cup [run : {mem.run}, def : Allowed(D), hit : {mem.sequence + 1}]
  <2>1. ASSUME NEW t \in taken'
        PROVE  \/ t \in taken /\ t.hit \in Nat /\ t.run \in Nat /\ t.run <= mem.run /\ t.hit <= mem.sequence
               \/ t.run = mem.run /\ t.hit = mem.sequence + 1
    BY <1>9 DEF LedgerInv, CaptureInv
  <2>2. \A t \in taken' : /\ t.run \in Nat /\ t.run <= mem'.run /\ t.hit \in Nat
                          /\ t.hit <= mem'.sequence /\ t.hit <= saved'.sequence
    BY <1>1, <1>2, <1>4, <1>9, <2>1
  <2>3. \A s, t \in taken' : s.hit = t.hit => s.run = t.run
    BY <1>2, <2>1 DEF LedgerInv, CaptureInv
  <2>4. ASSUME NEW r \in Nat, NEW d \in Tracepoints
        PROVE  /\ IsFiniteSet(TakenOf(r, d)')
               /\ Cardinality(TakenOf(r, d)') <= CaptureLimit
               /\ mem.run = r => Cardinality(TakenOf(r, d)') <= mem'.counts[d]
    <3>1. /\ IsFiniteSet(TakenOf(r, d)) /\ Cardinality(TakenOf(r, d)) \in Nat
          /\ Cardinality(TakenOf(r, d)) <= CaptureLimit
          /\ mem.run = r => Cardinality(TakenOf(r, d)) <= mem.counts[d]
          /\ mem.counts[d] \in 0 .. CaptureLimit
      BY <1>2, FS_CardinalityType DEF LedgerInv, CaptureInv, Counted
    <3> DEFINE x == [run |-> mem.run, def |-> d, hit |-> mem.sequence + 1]
    <3>2. CASE r = mem.run /\ d \in D /\ mem.counts[d] < CaptureLimit
      <4>1. TakenOf(r, d)' = TakenOf(r, d) \union {x}
        BY <1>9, <3>2 DEF TakenOf, Allowed
      <4>2. /\ IsFiniteSet(TakenOf(r, d)')
            /\ Cardinality(TakenOf(r, d)') <= Cardinality(TakenOf(r, d)) + 1
        <5> HIDE DEF x
        <5>1. IsFiniteSet(TakenOf(r, d))
          BY <3>1
        <5>2. /\ IsFiniteSet(TakenOf(r, d) \union {x})
              /\ Cardinality(TakenOf(r, d) \union {x}) =
                    IF x \in TakenOf(r, d) THEN Cardinality(TakenOf(r, d))
                    ELSE Cardinality(TakenOf(r, d)) + 1
          BY <5>1, FS_AddElement, Zenon
        <5> QED
          BY <3>1, <4>1, <5>2
      <4>3. Cardinality(TakenOf(r, d)') \in Nat /\ mem'.counts[d] = mem.counts[d] + 1
        BY <1>4, <3>2, <4>2, FS_CardinalityType
      <4> QED
        BY <1>2, <3>1, <3>2, <4>2, <4>3
    <3>3. CASE ~(r = mem.run /\ d \in D /\ mem.counts[d] < CaptureLimit)
      <4>1. TakenOf(r, d)' = TakenOf(r, d)
        BY <1>9, <3>3 DEF TakenOf, Allowed
      <4>2. mem'.counts[d] >= mem.counts[d]
        BY <1>4, <3>1
      <4>3. mem'.counts[d] \in Nat
        BY <1>4, <3>1
      <4> QED
        BY <1>2, <3>1, <4>1, <4>2, <4>3
    <3> QED
      BY <3>2, <3>3
  <2>5. CaptureInv'
    BY <1>4, <1>9, <2>2, <2>3, <2>4 DEF CaptureInv, Counted
  <2> QED
    BY <1>6, <1>7, <2>5 DEF LedgerInv
<1> QED
  BY <1>5, <1>8, <1>9

LEMMA NextRun == LedgerInv /\ NewRun => LedgerInv'
<1> SUFFICES ASSUME LedgerInv, NewRun PROVE LedgerInv'
  OBVIOUS
<1>1. PICK started \in BOOLEAN :
         mem' = [mem EXCEPT !.run = @ + 1, !.commands = {}, !.stopped = ~started,
                            !.counts = [d \in Tracepoints |-> 0]]
  BY DEF NewRun
<1>2. (saved' = saved \/ saved' = mem') /\ UNCHANGED <<inspecting, dispatched, taken>>
  BY DEF NewRun, Persists, NotPersists
<1>3. /\ mem \in Descriptors /\ saved \in Descriptors /\ saved.run <= mem.run
      /\ CaptureLimit \in Nat /\ mem.run \in Nat /\ saved.run \in Nat /\ mem.run + 1 \in Nat
      /\ [d \in Tracepoints |-> 0] \in [Tracepoints -> 0 .. CaptureLimit]
  <2>1. /\ mem \in Descriptors /\ saved \in Descriptors /\ saved.run <= mem.run
    BY DEF LedgerInv, LedgerType
  <2>2. CaptureLimit \in Nat
    BY LedgerAssumption DEF LedgerAssumption
  <2>3. mem.run \in Nat /\ saved.run \in Nat
    BY <2>1 DEF Descriptors
  <2>4. mem.run + 1 \in Nat
    BY <2>3
  <2>5. [d \in Tracepoints |-> 0] \in [Tracepoints -> 0 .. CaptureLimit]
    BY <2>2
  <2> QED
    BY <2>1, <2>2, <2>3, <2>4, <2>5
<1>4. /\ mem' \in Descriptors /\ mem'.run = mem.run + 1 /\ mem'.sequence = mem.sequence
      /\ \A d \in Tracepoints : mem'.counts[d] = 0
  BY <1>1, <1>3 DEF Descriptors
<1>5. LedgerType'
  BY <1>2, <1>3, <1>4 DEF LedgerInv, LedgerType
<1>6. CommandInv'
  <2>1. ASSUME NEW r \in 1 .. MaxRuns, NEW id \in CommandIds
        PROVE  dispatched[r][id] <= 1 /\ (r > mem.run => dispatched[r][id] = 0)
    BY DEF LedgerInv, CommandInv
  <2>2. ASSUME NEW r \in 1 .. MaxRuns, NEW id \in CommandIds
        PROVE  r >= mem.run + 1 => ~(dispatched[r][id] > 0) /\ dispatched[r][id] = 0
    BY <1>3, <2>1
  <2> QED
    BY <1>2, <1>3, <1>4, <2>1, <2>2 DEF CommandInv
<1>7. \A r \in Nat, d \in Tracepoints : TakenOf(r, d)' = TakenOf(r, d)
  BY <1>2 DEF TakenOf
<1>8. \A d \in Tracepoints : Cardinality(TakenOf(mem.run + 1, d)) = 0
  <2>1. \A d \in Tracepoints : TakenOf(mem.run + 1, d) = {}
    BY <1>3 DEF TakenOf, LedgerInv, CaptureInv
  <2> QED
    BY <2>1, FS_EmptySet
<1>9. \A r \in Nat, d \in Tracepoints : Counted(r, d, mem)' /\ Counted(r, d, saved)'
  <2> SUFFICES ASSUME NEW r \in Nat, NEW d \in Tracepoints
               PROVE  Counted(r, d, mem)' /\ Counted(r, d, saved)'
    OBVIOUS
  <2>1. Counted(r, d, mem)'
    BY <1>4, <1>7, <1>8 DEF Counted
  <2>2. CASE saved' = mem'
    BY <2>1, <2>2 DEF Counted
  <2>3. CASE saved' = saved
    <3>1. Counted(r, d, saved)
      BY DEF LedgerInv, CaptureInv
    <3> QED
      <4>1. saved.run = r => Cardinality(TakenOf(r, d)) <= saved.counts[d]
        BY <3>1 DEF Counted
      <4>2. TakenOf(r, d)' = TakenOf(r, d)
        BY <1>7
      <4>3. saved'.run = r => Cardinality(TakenOf(r, d)') <= saved'.counts[d]
        BY <2>3, <4>1, <4>2
      <4> QED
        BY <2>1, <4>3 DEF Counted
  <2> QED
    BY <1>2, <2>1, <2>2, <2>3
<1>10. \A t \in taken' : /\ t.run \in Nat /\ t.run <= mem'.run /\ t.hit \in Nat
                        /\ t.hit <= mem'.sequence /\ t.hit <= saved'.sequence
  <2>1. ASSUME NEW t \in taken
        PROVE  t.run \in Nat /\ t.run <= mem.run + 1 /\ t.hit \in Nat /\ t.hit <= mem.sequence /\ t.hit <= saved.sequence
    BY <1>3 DEF LedgerInv, CaptureInv
  <2> QED
    BY <1>2, <1>4, <2>1
<1>11. CaptureInv'
  BY <1>2, <1>7, <1>9, <1>10 DEF LedgerInv, CaptureInv
<1> QED
  BY <1>5, <1>6, <1>11 DEF LedgerInv

\* The other steps: events, the end of an inspection, and the broker's ends and starts.
LEMMA OtherSteps ==
  ASSUME LedgerInv,
         \/ Emit \/ StopRun \/ BrokerCrash \/ BrokerExit \/ Recover
         \/ LedgerFollow \/ \E hit \in inspecting : Capture(hit)
  PROVE  LedgerInv'
<1>1. /\ mem \in Descriptors /\ saved \in Descriptors
      /\ \A s \in Descriptors : Same(s, s)
  BY DEF LedgerInv, LedgerType, Same
<1>2. ASSUME UNCHANGED <<mem, saved, dispatched, taken>>, inspecting' \subseteq inspecting
      PROVE  LedgerInv'
  BY <1>1, <1>2, SameLedger
<1>3. ASSUME NEW s \in Descriptors, Same(s, mem),
             NEW kind \in {"other", "binding_changed", "terminated", "capture"},
             EmitOn(s, kind), UNCHANGED <<inspecting, dispatched, taken>>
      PROVE  LedgerInv'
  <2>1. \/ mem' = WithEvents(s, kind, 1) /\ saved' = mem'
        \/ mem' = s /\ saved' = saved
    BY <1>3 DEF EmitOn, Persists, NotPersists
  <2>2. mem' \in Descriptors /\ Same(mem', mem)
    <3>1. /\ WithEvents(s, kind, 1) \in Descriptors
          /\ Same(WithEvents(s, kind, 1), s)
      BY <1>3, MoreEvents DEF Same
    <3> QED
      BY <1>3, <2>1, <3>1 DEF Same
  <2>3. saved' \in Descriptors /\ (Same(saved', saved) \/ Same(saved', mem'))
    BY <1>1, <2>1, <2>2
  <2> QED
    BY <1>3, <2>2, <2>3, SameLedger
<1>4. CASE Emit
  BY <1>1, <1>3, <1>4 DEF Emit
<1>5. CASE Bind
  <2>1. /\ [mem EXCEPT !.binding = @ + 1] \in Descriptors
        /\ Same([mem EXCEPT !.binding = @ + 1], mem)
    <3>1. mem.binding + 1 \in Nat
      BY <1>1 DEF Descriptors
    <3> QED
      BY <1>1, <3>1 DEF Descriptors, Same
  <2> QED
    BY <1>3, <1>5, <2>1 DEF Bind
<1>6. CASE StopRun
  <2>1. /\ [mem EXCEPT !.stopped = TRUE] \in Descriptors
        /\ Same([mem EXCEPT !.stopped = TRUE], mem)
    BY <1>1 DEF Descriptors, Same
  <2> QED
    BY <1>3, <1>6, <2>1 DEF StopRun
<1>7. CASE BrokerCrash
  BY <1>2, <1>7 DEF BrokerCrash
<1>8. CASE BrokerExit
  <2>1. /\ UNCHANGED <<mem, inspecting, dispatched, taken>>
        /\ saved' \in {mem, saved}
    BY <1>8 DEF BrokerExit, NotPersists
  <2> QED
    BY <1>1, <2>1, SameLedger
<1>9. CASE Recover
  <2>1. /\ UNCHANGED <<saved, inspecting, dispatched, taken>>
        /\ mem' = saved /\ saved.run = mem.run
    BY <1>9 DEF Recover
  <2> QED
    BY <1>1, <2>1, SameLedger
<1>10. CASE LedgerFollow /\ ~Bind
  <2>1. UNCHANGED <<mem, saved, inspecting, dispatched, taken>>
    BY <1>10 DEF LedgerFollow, Connect, Refresh, Gather, Send, Drop
  <2> QED
    BY <1>2, <2>1
<1>11. ASSUME NEW hit \in inspecting, Capture(hit) PROVE LedgerInv'
  <2>1. PICK lost \in BOOLEAN :
           LET outcomes == Cardinality(hit.defs) - (IF lost THEN 1 ELSE 0) IN
           /\ mem' = WithEvents(mem, "capture", outcomes)
           /\ IF outcomes = 0 THEN UNCHANGED saved ELSE saved' = mem'
    BY <1>11 DEF Capture
  <2> DEFINE outcomes == Cardinality(hit.defs) - (IF lost THEN 1 ELSE 0)
  <2>2. outcomes \in Nat
    <3>1. hit.defs \in SUBSET Tracepoints /\ hit.defs # {}
      BY DEF LedgerInv, LedgerType
    <3>2. IsFiniteSet(hit.defs)
      BY <3>1, LedgerAssumption, FS_Subset DEF LedgerAssumption
    <3>3. Cardinality(hit.defs) \in Nat /\ Cardinality(hit.defs) # 0
      BY <3>1, <3>2, FS_CardinalityType, FS_EmptySet
    <3> QED
      BY <3>3
  <2> HIDE DEF outcomes
  <2>3. mem' = WithEvents(mem, "capture", outcomes) /\ (saved' = saved \/ saved' = mem')
    BY <2>1 DEF outcomes
  <2>4. mem' \in Descriptors /\ Same(mem', mem)
    BY <1>1, <2>2, <2>3, MoreEvents DEF Same
  <2>5. saved' \in Descriptors /\ (Same(saved', saved) \/ Same(saved', mem'))
    BY <1>1, <2>3, <2>4
  <2>6. UNCHANGED <<dispatched, taken>> /\ inspecting' \subseteq inspecting
    BY <1>11 DEF Capture
  <2> QED
    BY <2>4, <2>5, <2>6, SameLedger
<1> QED
  BY <1>4, <1>5, <1>6, <1>7, <1>8, <1>9, <1>10, <1>11

LEMMA LedgerSteps == LedgerInv /\ [LedgerNext]_ledgerVars => LedgerInv'
<1>1. LedgerInv /\ UNCHANGED ledgerVars => LedgerInv'
  BY SameLedger DEF ledgerVars, LedgerInv, LedgerType, Same
<1> QED
  BY <1>1, OtherSteps, NextRun, SubmittedCommand, TakenHit
     DEF LedgerNext, LedgerLife, LedgerWork

\* A command is dispatched at most once in a run, whatever a client repeats and wherever
\* the broker dies (broker/actions.go:114).
THEOREM CommandsGoOutOnce == LedgerSpec => []CommandOncePerRun
<1>1. LedgerInv => CommandOncePerRun
  BY DEF LedgerInv, CommandInv, CommandOncePerRun
<1> QED
  BY <1>1, LedgerStarts, LedgerSteps, PTL DEF LedgerSpec

\* No definition captures more than its limit in a run, and no number names two hits of
\* two runs, with overlapping hits, failed writes and recoveries (broker/capture.go:52).
THEOREM LimitsHold == LedgerSpec => []CaptureLimitHolds
<1>1. LedgerInv => CaptureLimitHolds
  <2> SUFFICES ASSUME LedgerInv PROVE CaptureLimitHolds
    OBVIOUS
  <2>1. \A r \in 1 .. MaxRuns, d \in Tracepoints :
           Cardinality({t \in taken : t.run = r /\ t.def = d}) <= CaptureLimit
    <3> SUFFICES ASSUME NEW r \in 1 .. MaxRuns, NEW d \in Tracepoints
                 PROVE  Cardinality({t \in taken : t.run = r /\ t.def = d}) <= CaptureLimit
      OBVIOUS
    <3>1. Cardinality(TakenOf(r, d)) <= CaptureLimit
      BY DEF LedgerInv, CaptureInv
    <3> QED
      BY <3>1 DEF TakenOf
  <2>2. \A s, t \in taken : s.hit = t.hit => s.run = t.run
    BY DEF LedgerInv, CaptureInv
  <2> QED
    BY <2>1, <2>2 DEF CaptureLimitHolds
<1> QED
  BY <1>1, LedgerStarts, LedgerSteps, PTL DEF LedgerSpec

----------------------------------------------------------------------------
(* Events and their streams.                                               *)

\* The events that a descriptor keeps are the last of those it has numbered.
Ordered(s) == /\ Len(s.events) <= Ring
              /\ \A i \in 1 .. Len(s.events) : s.events[i].id = s.cursor - Len(s.events) + i

\* Event e was saved, and no other has its number.
Recorded(e) == /\ e.id <= saved.cursor
               /\ \A i \in 1 .. Len(saved.events) :
                     saved.events[i].id = e.id => saved.events[i] = e

TailType == tail \in [Tails -> [open : BOOLEAN, bound : Nat, cursor : Nat, batch : Seq(Event),
                                from : Nat, seen : Seq(Event)]]

\* Client x: what it has seen, and what is on its way to it, are numbered without a gap.
Following(x) ==
    /\ x.cursor = x.from + Len(x.seen)
    /\ ~x.open => x.batch = <<>>
    /\ \A i \in 1 .. Len(x.seen) : x.seen[i].id = x.from + i /\ Recorded(x.seen[i])
    /\ \A i \in 1 .. Len(x.batch) : x.batch[i].id = x.cursor + i /\ Recorded(x.batch[i])

\* What the broker has in memory of the events is what is saved.
StreamInv ==
    /\ TailType /\ mem.cursor = saved.cursor /\ mem.events = saved.events
    /\ Ordered(saved)
    /\ \A c \in Tails : Following(tail[c])

\* The events after n more: numbered on, and the old among them are the same.
LEMMA MoreOrdered ==
  ASSUME NEW s \in Descriptors, Ordered(s), NEW n \in Nat,
         NEW kind \in {"other", "binding_changed", "terminated", "capture"}
  PROVE  LET t == WithEvents(s, kind, n) IN
         /\ Ordered(t) /\ t.cursor = s.cursor + n
         /\ \A i \in 1 .. Len(t.events) : t.events[i].id <= s.cursor =>
               \E j \in 1 .. Len(s.events) : t.events[i] = s.events[j]
         /\ n = 0 => t.events = s.events
<1> DEFINE more == [i \in 1 .. n |-> Numbered(s, kind, i)]
           all == s.events \o more
           L == Len(s.events)
           t == WithEvents(s, kind, n)
<1>1. s.cursor \in Nat /\ s.events \in Seq(Event) /\ L \in Nat /\ s.binding \in Nat
  BY DEF Descriptors
<1>2. Ring \in Nat \ {0}
  BY LedgerAssumption DEF LedgerAssumption
<1>3. more \in Seq(Event) /\ Len(more) = n /\ \A i \in 1 .. n : more[i].id = s.cursor + i
  <2>1. \A i \in 1 .. n : Numbered(s, kind, i) \in Event /\ Numbered(s, kind, i).id = s.cursor + i
    BY <1>1 DEF Numbered, Event
  <2>2. more \in Seq(Event)
    BY <2>1
  <2>3. Len(more) = n
    OBVIOUS
  <2> QED
    BY <2>1, <2>2, <2>3
<1>4. t = [s EXCEPT !.cursor = s.cursor + n, !.events = LastOf(all, Ring)]
  BY DEF WithEvents
<1>5. t.cursor = s.cursor + n /\ t.events = LastOf(all, Ring)
  BY <1>4 DEF Descriptors
<1> HIDE DEF more, t
<1>6. /\ all \in Seq(Event) /\ Len(all) = L + n
      /\ \A i \in 1 .. L : all[i] = s.events[i]
      /\ \A i \in 1 .. n : all[L + i] = more[i]
  <2>1. /\ all \in Seq(Event) /\ Len(all) = L + n
        /\ \A i \in 1 .. L + n : all[i] = IF i <= L THEN s.events[i] ELSE more[i - L]
    BY <1>1, <1>3, ConcatProperties
  <2> HIDE DEF all
  <2>2. ASSUME NEW i \in 1 .. L PROVE all[i] = s.events[i]
    BY <1>1, <2>1, <2>2
  <2>3. ASSUME NEW i \in 1 .. n PROVE all[L + i] = more[i]
    <3>1. L + i \in 1 .. L + n /\ ~(L + i <= L) /\ (L + i) - L = i
      BY <1>1, <2>3
    <3> QED
      BY <2>1, <3>1
  <2> QED
    BY <2>1, <2>2, <2>3
<1>7. n = 0 => all = s.events
  BY <1>1, <1>6, SeqEqual
<1> HIDE DEF all
<1>8. \A i \in 1 .. L + n : all[i].id = s.cursor - L + i /\ (i > L => all[i].id > s.cursor)
  <2> SUFFICES ASSUME NEW i \in 1 .. L + n
               PROVE  all[i].id = s.cursor - L + i /\ (i > L => all[i].id > s.cursor)
    OBVIOUS
  <2>1. CASE i <= L
    BY SMTT(30), <1>1, <1>6, <2>1 DEF Ordered
  <2>2. CASE i > L
    <3>1. i - L \in 1 .. n /\ L + (i - L) = i
      BY <1>1, <2>2
    <3>2. all[i] = more[i - L] /\ more[i - L].id = s.cursor + (i - L)
      BY <1>3, <1>6, <3>1
    <3> QED
      BY <1>1, <2>2, <3>2
  <2> QED
    BY <1>1, <2>1, <2>2
<1>9. PICK off \in Nat : /\ Len(t.events) = L + n - off /\ off <= L + n /\ L + n - off <= Ring
                         /\ \A i \in 1 .. L + n - off : t.events[i] = all[i + off]
                         /\ off > 0 => L + n > Ring
  <2>1. CASE L + n > Ring
    <3> DEFINE b == Len(all)
               a == b - Ring + 1
    <3>1. t.events = SubSeq(all, a, b)
      BY <1>5, <1>6, <2>1 DEF LastOf
    <3>2. b = L + n /\ a \in Int /\ b \in Int /\ a <= b /\ a >= 1
      BY <1>1, <1>2, <1>6, <2>1
    <3>6. \A i \in a .. b : all[i] \in Event
      BY <1>6, <3>2, ElementOfSeq
    <3> HIDE DEF a, b
    <3>7. /\ Len(t.events) = b - a + 1
          /\ \A i \in 1 .. b - a + 1 : t.events[i] = all[a + i - 1]
      BY <3>1, <3>2, <3>6, SubSeqProperties
    <3>8. b - a + 1 = Ring /\ \A i \in 1 .. Ring : a + i - 1 = i + (L + n - Ring)
      BY <1>1, <1>2, <3>2 DEF a
    <3>9. /\ Len(t.events) = Ring
          /\ \A i \in 1 .. Ring : t.events[i] = all[i + (L + n - Ring)]
      BY <3>7, <3>8
    <3>3. L + n - Ring \in Nat /\ L + n - (L + n - Ring) = Ring
      BY <1>1, <1>2, <2>1
    <3>4. L + n - Ring > 0 /\ L + n - Ring <= L + n
      BY <1>1, <1>2, <2>1
    <3> DEFINE off == L + n - Ring
    <3>5. /\ off \in Nat /\ Len(t.events) = L + n - off /\ off <= L + n /\ L + n - off <= Ring
          /\ \A i \in 1 .. L + n - off : t.events[i] = all[i + off]
          /\ off > 0 => L + n > Ring
      BY <1>2, <2>1, <3>9, <3>3, <3>4
    <3> HIDE DEF off
    <3> QED
      BY <3>5
  <2>2. CASE ~(L + n > Ring)
    <3>1. t.events = all
      BY <1>5, <1>6, <2>2 DEF LastOf
    <3>2. L + n - 0 = L + n /\ L + n <= Ring /\ 0 \in Nat /\ \A i \in 1 .. L + n : i + 0 = i
      BY <1>1, <1>2, <2>2
    <3>3. Len(t.events) = L + n - 0 /\ \A i \in 1 .. L + n - 0 : t.events[i] = all[i + 0]
      BY <1>6, <3>1, <3>2
    <3> DEFINE off == 0
    <3>4. /\ off \in Nat /\ Len(t.events) = L + n - off /\ off <= L + n /\ L + n - off <= Ring
          /\ \A i \in 1 .. L + n - off : t.events[i] = all[i + off]
          /\ off > 0 => L + n > Ring
      BY <1>1, <3>2, <3>3
    <3> HIDE DEF off
    <3> QED
      BY <3>4
  <2> QED
    BY <2>1, <2>2
<1>10. ASSUME NEW i \in 1 .. Len(t.events)
       PROVE  /\ i + off \in 1 .. L + n /\ t.events[i] = all[i + off]
              /\ t.events[i].id = s.cursor - L + i + off
  <2>1. i + off \in 1 .. L + n /\ t.events[i] = all[i + off]
    BY <1>1, <1>9, <1>10
  <2>2. all[i + off].id = s.cursor - L + (i + off)
    BY <1>8, <2>1
  <2> QED
    BY <1>1, <2>1, <2>2
<1>11. Ordered(t)
  <2>1. Len(t.events) <= Ring
    BY <1>1, <1>9
  <2>2. ASSUME NEW i \in 1 .. Len(t.events)
        PROVE  t.events[i].id = t.cursor - Len(t.events) + i
    <3>1. t.events[i].id = s.cursor - L + i + off /\ i \in Int
      BY <1>10, <2>2
    <3>2. s.cursor \in Int /\ n \in Int /\ L \in Int /\ off \in Int
      BY <1>1, <1>9
    <3>3. \A c, m, k, o, j \in Int : (c + m) - (k + m - o) + j = c - k + j + o
      OBVIOUS
    <3>4. (s.cursor + n) - (L + n - off) + i = s.cursor - L + i + off
      BY <3>1, <3>2, <3>3
    <3> QED
      BY <1>5, <1>9, <3>1, <3>4
  <2> QED
    BY <2>1, <2>2 DEF Ordered
<1>12. ASSUME NEW i \in 1 .. Len(t.events), t.events[i].id <= s.cursor
       PROVE  \E j \in 1 .. Len(s.events) : t.events[i] = s.events[j]
  <2>1. i + off <= L
    BY <1>1, <1>8, <1>10, <1>12
  <2>2. i + off \in 1 .. L
    BY <1>1, <1>10, <2>1
  <2> QED
    BY <1>6, <1>10, <2>2
<1>13. n = 0 => t.events = s.events
  <2>1. n = 0 => ~(L + n > Ring)
    BY <1>1, <1>2 DEF Ordered
  <2> QED
    BY <1>5, <1>6, <1>7, <2>1 DEF LastOf
<1> QED
  BY <1>5, <1>11, <1>12, <1>13 DEF t

\* The events and the clients stay.
LEMMA SameStreams ==
  ASSUME StreamInv, mem'.cursor = saved'.cursor, mem'.events = saved'.events,
         saved'.cursor = saved.cursor, saved'.events = saved.events, tail' = tail
  PROVE  StreamInv'
  BY DEF StreamInv, TailType, Ordered, Following, Recorded

\* The clients are disconnected, or another batch is under way.
LEMMA SameEvents ==
  ASSUME StreamInv, UNCHANGED <<mem, saved>>, TailType', NEW c \in Tails,
         \A d \in Tails : d # c => tail'[d] = tail[d], Following(tail'[c])
  PROVE  StreamInv'
<1> QED
  <2>1. Ordered(saved)' /\ mem'.cursor = saved'.cursor /\ mem'.events = saved'.events
    BY DEF StreamInv, Ordered
  <2>2. ASSUME NEW d \in Tails PROVE Following(tail[d])'
    <3>1. CASE d = c
      BY <3>1 DEF Following, Recorded
    <3>2. CASE d # c
      BY <3>2 DEF StreamInv, Following, Recorded
    <3> QED
      BY <3>1, <3>2
  <2> QED
    BY <2>1, <2>2 DEF StreamInv

LEMMA StreamStarts == LedgerInit => StreamInv
<1> SUFFICES ASSUME LedgerInit PROVE StreamInv
  OBVIOUS
<1>1. /\ mem.cursor = 0 /\ mem.events = <<>> /\ saved = mem
      /\ tail = [c \in Tails |-> [open |-> FALSE, bound |-> 0, cursor |-> 0, batch |-> <<>>,
                                  from |-> 0, seen |-> <<>>]]
  BY DEF LedgerInit
<1>2. TailType
  BY <1>1 DEF TailType
<1>3. Ordered(saved) /\ \A c \in Tails : Following(tail[c])
  BY <1>1, LedgerAssumption DEF Ordered, Following, LedgerAssumption
<1> QED
  BY <1>1, <1>2, <1>3 DEF StreamInv

\* More events are saved: those that were are not changed.
LEMMA SavedEvents ==
  ASSUME StreamInv, NEW s \in Descriptors, s.cursor = saved.cursor, s.events = saved.events,
         NEW n \in Nat, NEW kind \in {"other", "binding_changed", "terminated", "capture"},
         mem' = WithEvents(s, kind, n), saved' = mem' \/ (n = 0 /\ saved' = saved), tail' = tail
  PROVE  StreamInv'
<1> DEFINE t == WithEvents(s, kind, n)
<1>1. Ordered(s)
  BY DEF StreamInv, Ordered
<1>2. /\ Ordered(t) /\ t.cursor = s.cursor + n
      /\ \A i \in 1 .. Len(t.events) : t.events[i].id <= s.cursor =>
            \E j \in 1 .. Len(s.events) : t.events[i] = s.events[j]
      /\ n = 0 => t.events = s.events
  BY <1>1, MoreOrdered
<1> HIDE DEF t
<1>3. CASE n = 0 /\ saved' = saved
  <2>1. mem'.cursor = saved'.cursor /\ mem'.events = saved'.events
    <3>1. s.cursor + 0 = s.cursor
      BY DEF Descriptors
    <3> QED
      BY <1>2, <1>3, <3>1 DEF t
  <2> QED
    BY <1>3, <2>1, SameStreams
<1>4. CASE saved' = mem'
  <2>1. saved' = t /\ mem' = t
    BY <1>4 DEF t
  <2>2. s.cursor \in Nat /\ t.cursor \in Nat /\ s.cursor <= t.cursor
    BY <1>2 DEF Descriptors
  <2>3. ASSUME NEW e \in Event, Recorded(e) PROVE Recorded(e)'
    <3>1. e.id \in Nat /\ e.id <= s.cursor
      BY <2>3 DEF Event, Recorded
    <3>2. e.id <= t.cursor
      BY <2>2, <3>1
    <3>3. ASSUME NEW i \in 1 .. Len(t.events), t.events[i].id = e.id PROVE t.events[i] = e
      <4>1. PICK j \in 1 .. Len(s.events) : t.events[i] = s.events[j]
        BY <1>2, <3>1, <3>3
      <4> QED
        BY <2>3, <3>3, <4>1 DEF Recorded
    <3> QED
      BY <2>1, <3>2, <3>3 DEF Recorded
  <2>4. ASSUME NEW c \in Tails PROVE Following(tail[c])'
    <3>1. tail[c].seen \in Seq(Event) /\ tail[c].batch \in Seq(Event)
      BY DEF StreamInv, TailType
    <3>2. /\ \A i \in 1 .. Len(tail[c].seen) : tail[c].seen[i] \in Event
          /\ \A i \in 1 .. Len(tail[c].batch) : tail[c].batch[i] \in Event
      BY <3>1, ElementOfSeq
    <3>3. Following(tail[c])
      BY DEF StreamInv
    <3> QED
      BY <2>3, <3>2, <3>3 DEF Following
  <2>5. Ordered(saved)'
    BY <1>2, <2>1 DEF Ordered
  <2> QED
    BY <1>4, <2>4, <2>5 DEF StreamInv, TailType
<1> QED
  BY <1>3, <1>4

\* The broker's own steps.
LEMMA EventSteps ==
  ASSUME LedgerInv, StreamInv,
         \/ Emit \/ Bind \/ StopRun \/ NewRun \/ Recover \/ LedgerWork
  PROVE  StreamInv'
<1>1. /\ mem \in Descriptors /\ saved \in Descriptors
      /\ mem.cursor = saved.cursor /\ mem.events = saved.events
  BY DEF LedgerInv, LedgerType, StreamInv
<1>2. ASSUME NEW s \in Descriptors, s.cursor = saved.cursor, s.events = saved.events,
             NEW kind \in {"other", "binding_changed", "terminated", "capture"},
             EmitOn(s, kind), tail' = tail
      PROVE  StreamInv'
  <2>1. CASE mem' = WithEvents(s, kind, 1) /\ saved' = mem'
    BY <1>2, <2>1, SavedEvents
  <2>2. CASE mem' = s /\ saved' = saved
    BY <1>1, <1>2, <2>2, SameStreams
  <2> QED
    BY <1>2, <2>1, <2>2 DEF EmitOn, Persists, NotPersists
<1>3. ASSUME mem'.cursor = mem.cursor, mem'.events = mem.events, saved' \in {saved, mem'},
             tail' = tail
      PROVE  StreamInv'
  BY <1>1, <1>3, SameStreams
<1>4. CASE Emit
  BY <1>1, <1>2, <1>4 DEF Emit
<1>5. CASE Bind
  <2>1. /\ [mem EXCEPT !.binding = @ + 1] \in Descriptors
        /\ [mem EXCEPT !.binding = @ + 1].cursor = mem.cursor
        /\ [mem EXCEPT !.binding = @ + 1].events = mem.events
    <3>1. mem.binding + 1 \in Nat
      BY <1>1 DEF Descriptors
    <3> QED
      BY <1>1, <3>1 DEF Descriptors
  <2> QED
    BY <1>1, <1>2, <1>5, <2>1 DEF Bind
<1>6. CASE StopRun
  <2>1. /\ [mem EXCEPT !.stopped = TRUE] \in Descriptors
        /\ [mem EXCEPT !.stopped = TRUE].cursor = mem.cursor
        /\ [mem EXCEPT !.stopped = TRUE].events = mem.events
    BY <1>1 DEF Descriptors
  <2> QED
    BY <1>1, <1>2, <1>6, <2>1 DEF StopRun
<1>7. CASE NewRun
  <2>1. PICK started \in BOOLEAN :
          /\ mem' = [mem EXCEPT !.run = @ + 1, !.commands = {}, !.stopped = ~started,
                                !.counts = [d \in Tracepoints |-> 0]]
          /\ IF started THEN Persists ELSE NotPersists \/ (saved' = mem' /\ Failing)
    BY <1>7 DEF NewRun
  <2>2. mem'.cursor = mem.cursor /\ mem'.events = mem.events
    BY <1>1, <2>1 DEF Descriptors
  <2>3. saved' \in {saved, mem'}
    BY <2>1 DEF Persists, NotPersists
  <2> QED
    BY <1>3, <1>7, <2>2, <2>3 DEF NewRun
<1>8. CASE Recover
  BY <1>1, <1>3, <1>8 DEF Recover
<1>9. ASSUME NEW id \in CommandIds, Submit(id) PROVE StreamInv'
  <2>1. /\ mem' \in {mem, [mem EXCEPT !.commands = @ \cup {id}]}
        /\ saved' \in {saved, mem'} /\ tail' = tail
    BY <1>9 DEF Submit, Persists, NotPersists
  <2>2. mem'.cursor = mem.cursor /\ mem'.events = mem.events
    BY <1>1, <2>1 DEF Descriptors
  <2> QED
    BY <1>3, <2>1, <2>2
<1>10. ASSUME NEW D \in SUBSET Tracepoints, Hit(D) PROVE StreamInv'
  <2>1. mem' = Reserved(D) /\ saved' \in {saved, mem'} /\ tail' = tail
    BY <1>10 DEF Hit, Persists, NotPersists
  <2>2. mem'.cursor = mem.cursor /\ mem'.events = mem.events
    BY <1>1, <2>1 DEF Descriptors, Reserved
  <2> QED
    BY <1>3, <2>1, <2>2
<1>11. ASSUME NEW hit \in inspecting, Capture(hit) PROVE StreamInv'
  <2>1. PICK lost \in BOOLEAN :
           LET outcomes == Cardinality(hit.defs) - (IF lost THEN 1 ELSE 0) IN
           /\ mem' = WithEvents(mem, "capture", outcomes)
           /\ IF outcomes = 0 THEN UNCHANGED saved ELSE saved' = mem'
    BY <1>11 DEF Capture
  <2> DEFINE outcomes == Cardinality(hit.defs) - (IF lost THEN 1 ELSE 0)
  <2>2. outcomes \in Nat
    <3>1. hit.defs \in SUBSET Tracepoints /\ hit.defs # {}
      BY DEF LedgerInv, LedgerType
    <3>2. IsFiniteSet(hit.defs)
      BY <3>1, LedgerAssumption, FS_Subset DEF LedgerAssumption
    <3>3. Cardinality(hit.defs) \in Nat /\ Cardinality(hit.defs) # 0
      BY <3>1, <3>2, FS_CardinalityType, FS_EmptySet
    <3> QED
      BY <3>3
  <2> HIDE DEF outcomes
  <2>3. /\ mem' = WithEvents(mem, "capture", outcomes)
        /\ saved' = mem' \/ (outcomes = 0 /\ saved' = saved)
    BY <2>1 DEF outcomes
  <2>4. tail' = tail
    BY <1>11 DEF Capture
  <2> QED
    BY <1>1, <2>2, <2>3, <2>4, SavedEvents
<1> QED
  BY <1>4, <1>5, <1>6, <1>7, <1>8, <1>9, <1>10, <1>11 DEF LedgerWork

\* The broker ends, and disconnects everybody.
LEMMA EventsEnd ==
  ASSUME LedgerInv, StreamInv, BrokerCrash \/ BrokerExit PROVE StreamInv'
<1>1. /\ mem' = mem /\ saved' \in {saved, mem} /\ tail' = Disconnected
  BY DEF BrokerCrash, BrokerExit, NotPersists
<1>2. /\ saved'.cursor = saved.cursor /\ saved'.events = saved.events
      /\ mem'.cursor = saved'.cursor /\ mem'.events = saved'.events
  BY <1>1 DEF StreamInv
<1>3. TailType'
  <2>1. ASSUME NEW c \in Tails
        PROVE  [tail[c] EXCEPT !.open = FALSE, !.batch = <<>>]
                  \in [open : BOOLEAN, bound : Nat, cursor : Nat, batch : Seq(Event),
                       from : Nat, seen : Seq(Event)]
    <3>1. <<>> \in Seq(Event)
      OBVIOUS
    <3> QED
      BY <3>1 DEF StreamInv, TailType
  <2> QED
    BY <1>1, <2>1 DEF Disconnected, TailType
<1>4. ASSUME NEW c \in Tails PROVE Following(tail[c])'
  <2>1. Following(tail[c]) /\ tail[c] \in [open : BOOLEAN, bound : Nat, cursor : Nat,
                                           batch : Seq(Event), from : Nat, seen : Seq(Event)]
    BY DEF StreamInv, TailType
  <2>2. /\ tail'[c].cursor = tail[c].cursor /\ tail'[c].from = tail[c].from
        /\ tail'[c].seen = tail[c].seen /\ tail'[c].batch = <<>>
    BY <1>1, <2>1 DEF Disconnected
  <2> QED
    BY <1>2, <2>1, <2>2 DEF Following, Recorded
<1> QED
  BY <1>2, <1>3, <1>4 DEF StreamInv, Ordered

\* The clients' steps.
LEMMA FollowSteps ==
  ASSUME LedgerInv, StreamInv, NEW c \in Tails,
         \/ \E bound \in 0 .. MaxBindings : Connect(c, bound)
         \/ Refresh(c) \/ Gather(c) \/ Send(c) \/ Drop(c)
  PROVE  StreamInv'
<1> DEFINE Client == [open : BOOLEAN, bound : Nat, cursor : Nat, batch : Seq(Event),
                      from : Nat, seen : Seq(Event)]
           x == tail[c]
<1>1. /\ x \in Client /\ Following(x) /\ x.cursor \in Nat /\ x.from \in Nat
      /\ x.seen \in Seq(Event) /\ x.batch \in Seq(Event)
  BY DEF StreamInv, TailType
<1>2. /\ mem.cursor \in Nat /\ mem.events \in Seq(Event) /\ Ordered(mem)
      /\ saved.cursor = mem.cursor /\ saved.events = mem.events
  BY DEF LedgerInv, LedgerType, Descriptors, StreamInv, Ordered
<1>3. ASSUME NEW y \in Client, tail' = [tail EXCEPT ![c] = y], UNCHANGED <<mem, saved>>,
             Following(y)
      PROVE  StreamInv'
  BY <1>3, SameEvents DEF StreamInv, TailType
<1>4. CASE \E bound \in 0 .. MaxBindings : Connect(c, bound)
  <2>1. PICK bound \in 0 .. MaxBindings : Connect(c, bound)
    BY <1>4
  <2> DEFINE y == [x EXCEPT !.open = TRUE, !.bound = bound]
  <2>2. tail' = [tail EXCEPT ![c] = y] /\ UNCHANGED <<mem, saved>>
    BY <2>1 DEF Connect, StreamInv, TailType
  <2>3. bound \in Nat
    BY <2>1
  <2>4. y \in Client /\ Following(y)
    BY <1>1, <2>3 DEF Following
  <2> QED
    BY <1>3, <2>2, <2>4
<1>5. CASE Refresh(c)
  <2> DEFINE y == [x EXCEPT !.open = FALSE, !.cursor = mem.cursor,
                            !.from = mem.cursor, !.seen = <<>>]
  <2>1. tail' = [tail EXCEPT ![c] = y] /\ UNCHANGED <<mem, saved>>
    BY <1>5 DEF Refresh
  <2>2. y \in Client
    <3>1. <<>> \in Seq(Event)
      OBVIOUS
    <3> QED
      BY <1>1, <1>2, <3>1
  <2>3. x.batch = <<>>
    BY <1>1, <1>5 DEF Refresh, Following
  <2>4. Following(y)
    <3>1. /\ y.cursor = mem.cursor /\ y.from = mem.cursor /\ y.seen = <<>> /\ y.batch = <<>>
      BY <1>1, <2>3
    <3> QED
      BY <1>2, <3>1 DEF Following
  <2> QED
    BY <1>3, <2>1, <2>2, <2>4
<1>6. CASE Gather(c)
  <2> DEFINE L == Len(mem.events)
  <2>1. PICK n \in 0 .. L :
          /\ \A i \in DOMAIN mem.events : mem.events[i].id > x.cursor <=> i > n
          /\ tail' = [tail EXCEPT ![c].batch = SubSeq(mem.events, n + 1, L)]
    BY <1>6 DEF Gather
  <2> DEFINE q == SubSeq(mem.events, n + 1, L)
             y == [x EXCEPT !.batch = q]
  <2>2. L \in Nat /\ n \in Nat /\ n <= L /\ DOMAIN mem.events = 1 .. L
    BY <1>2, <2>1
  <2>0. x.cursor \in Int /\ mem.cursor \in Int /\ L \in Int /\ n \in Int
    BY <1>1, <1>2, <2>2
  <2>3. /\ q \in Seq(Event) /\ Len(q) = L - n
        /\ \A i \in 1 .. L - n : q[i] = mem.events[n + i]
    <3>1. n + 1 \in Int /\ L \in Int /\ \A i \in n + 1 .. L : mem.events[i] \in Event
      BY <1>2, <2>2, ElementOfSeq
    <3>2. /\ q \in Seq(Event)
          /\ Len(q) = IF n + 1 <= L THEN L - (n + 1) + 1 ELSE 0
          /\ \A i \in 1 .. L - (n + 1) + 1 : q[i] = mem.events[n + 1 + i - 1]
      BY <1>2, <3>1, SubSeqProperties
    <3>3. L - (n + 1) + 1 = L - n /\ \A i \in 1 .. L - n : n + 1 + i - 1 = n + i
      BY <2>2
    <3> QED
      BY <2>2, <3>2, <3>3
  <2>4. tail' = [tail EXCEPT ![c] = y] /\ UNCHANGED <<mem, saved>>
    BY <1>6, <2>1 DEF Gather, StreamInv, TailType
  <2> HIDE DEF q
  <2>5. y \in Client
    BY <1>1, <2>3
  <2>6. L > n => mem.cursor - L + n = x.cursor
    <3> SUFFICES ASSUME L > n PROVE mem.cursor - L + n = x.cursor
      OBVIOUS
    <3>0. n + 1 \in 1 .. L /\ n + 1 > n
      BY <2>2
    <3>1. mem.events[n + 1].id = mem.cursor - L + (n + 1) /\ mem.events[n + 1].id > x.cursor
      BY <1>2, <2>1, <2>2, <3>0 DEF Ordered
    <3>2. CASE n = 0
      <4>1. mem.events # <<>> /\ Head(mem.events) = mem.events[1]
        BY <1>2, <2>2
      <4>2. mem.events[1].id = mem.cursor - L + 1 /\ mem.events[1].id > x.cursor
        BY <3>1, <3>2
      <4>3. ~(x.cursor + 1 < mem.events[1].id)
        BY <1>6, <4>1 DEF Gather, Overtaken
      <4> QED
        BY <2>0, <3>2, <4>2, <4>3
    <3>3. CASE n > 0
      <4>1. mem.events[n].id = mem.cursor - L + n /\ ~(mem.events[n].id > x.cursor)
        <5>1. n \in 1 .. L /\ ~(n > n)
          BY <2>2, <3>3
        <5> QED
          BY <1>2, <2>1, <2>2, <5>1 DEF Ordered
      <4>2. mem.cursor - L + n <= x.cursor /\ mem.cursor - L + (n + 1) > x.cursor
        BY SMTT(30), <1>1, <1>2, <2>2, <3>1, <4>1
      <4> QED
        BY <2>0, <4>2
    <3> QED
      BY <2>2, <3>2, <3>3
  <2>7. ASSUME NEW i \in 1 .. Len(q) PROVE q[i].id = x.cursor + i /\ Recorded(q[i])
    <3>1. n + i \in 1 .. L /\ q[i] = mem.events[n + i] /\ L > n
      BY <2>2, <2>3, <2>7
    <3>2. q[i].id = mem.cursor - L + (n + i)
      BY <1>2, <3>1 DEF Ordered
    <3>3. q[i].id = x.cursor + i /\ q[i].id <= mem.cursor
      <4>1. mem.cursor - L + n = x.cursor /\ i \in Int /\ n + i <= L
        BY <2>2, <2>6, <2>7, <3>1
      <4>2. mem.cursor - L + (n + i) = x.cursor + i
        BY <2>0, <4>1
      <4>3. x.cursor + i <= mem.cursor
        BY <2>0, <4>1
      <4> QED
        BY <3>2, <4>2, <4>3
    <3>4. ASSUME NEW j \in 1 .. L, mem.events[j].id = q[i].id PROVE mem.events[j] = q[i]
      <4>1. mem.events[j].id = mem.cursor - L + j
        BY <1>2, <3>4 DEF Ordered
      <4>2. j = n + i
        BY <1>2, <2>2, <2>7, <3>2, <3>4, <4>1
      <4> QED
        BY <3>1, <4>2
    <3> QED
      BY <1>2, <3>3, <3>4 DEF Recorded
  <2>8. Following(y)
    <3>1. /\ y.cursor = x.cursor /\ y.from = x.from /\ y.seen = x.seen /\ y.batch = q
          /\ y.open
      BY <1>1, <1>6 DEF Gather
    <3> QED
      BY <1>1, <2>7, <3>1 DEF Following
  <2> QED
    BY <1>3, <2>4, <2>5, <2>8
<1>7. CASE Send(c)
  <2> DEFINE event == Head(x.batch)
             last == event.kind = "terminated" \/ (x.bound # 0 /\ event.binding # x.bound)
             rest == IF last THEN <<>> ELSE Tail(x.batch)
             y == [x EXCEPT !.cursor = event.id, !.seen = Append(x.seen, event),
                            !.open = ~last, !.batch = rest]
  <2>1. x.batch # <<>> /\ tail' = [tail EXCEPT ![c] = y] /\ UNCHANGED <<mem, saved>>
    BY <1>7 DEF Send
  <2>2. /\ event \in Event /\ event = x.batch[1] /\ Len(x.batch) \in Nat /\ Len(x.batch) > 0
        /\ Tail(x.batch) \in Seq(Event) /\ Len(Tail(x.batch)) = Len(x.batch) - 1
        /\ \A i \in 1 .. Len(x.batch) - 1 : Tail(x.batch)[i] = x.batch[i + 1]
    BY <1>1, <2>1, HeadTailProperties
  <2>3. event.id = x.cursor + 1 /\ Recorded(event)
    BY <1>1, <2>2 DEF Following
  <2>4. /\ rest \in Seq(Event)
        /\ \A i \in 1 .. Len(rest) : rest[i].id = x.cursor + 1 + i /\ Recorded(rest[i])
    <3>1. CASE last
      BY <3>1
    <3>2. CASE ~last
      <4>1. rest = Tail(x.batch)
        BY <3>2
      <4>2. ASSUME NEW i \in 1 .. Len(rest)
            PROVE  rest[i].id = x.cursor + 1 + i /\ Recorded(rest[i])
        <5>1. i + 1 \in 1 .. Len(x.batch) /\ rest[i] = x.batch[i + 1]
          BY <2>2, <4>1, <4>2
        <5>2. x.batch[i + 1].id = x.cursor + (i + 1) /\ Recorded(x.batch[i + 1])
          BY <1>1, <5>1 DEF Following
        <5> QED
          BY <1>1, <4>2, <5>1, <5>2
      <4> QED
        BY <2>2, <4>1, <4>2
    <3> QED
      BY <3>1, <3>2
  <2>5. /\ Append(x.seen, event) \in Seq(Event)
        /\ Len(Append(x.seen, event)) = Len(x.seen) + 1
        /\ \A i \in 1 .. Len(x.seen) : Append(x.seen, event)[i] = x.seen[i]
        /\ Append(x.seen, event)[Len(x.seen) + 1] = event
    BY <1>1, <2>2, AppendProperties
  <2> HIDE DEF event, rest, last
  <2>6. event.id \in Nat /\ (~last) \in BOOLEAN
    <3>1. event.id \in Nat
      BY <2>2 DEF Event
    <3>2. (~last) \in BOOLEAN
      BY DEF last
    <3> QED
      BY <3>1, <3>2
  <2>7. y \in Client
    BY <1>1, <2>4, <2>5, <2>6
  <2>9. ~y.open => y.batch = <<>>
    BY <1>1 DEF rest
  <2>8. Following(y)
    <3>1. /\ y.cursor = event.id /\ y.from = x.from /\ y.seen = Append(x.seen, event)
          /\ y.batch = rest
      BY <1>1
    <3>2. x.cursor = x.from + Len(x.seen) /\ Len(x.seen) \in Nat
      BY <1>1 DEF Following
    <3>3. ASSUME NEW i \in 1 .. Len(x.seen) + 1
          PROVE  /\ Append(x.seen, event)[i].id = x.from + i
                 /\ Recorded(Append(x.seen, event)[i])
      <4>1. CASE i \in 1 .. Len(x.seen)
        BY <1>1, <2>5, <4>1 DEF Following
      <4>2. CASE i = Len(x.seen) + 1
        <5>1. x.cursor + 1 = x.from + i
          BY <1>1, <3>2, <4>2
        <5> QED
          BY <2>3, <2>5, <4>2, <5>1
      <4> QED
        BY <3>2, <3>3, <4>1, <4>2
    <3>4. event.id = x.from + (Len(x.seen) + 1)
      BY <1>1, <2>3, <3>2
    <3> QED
      BY ZenonT(40), <1>1, <2>3, <2>4, <2>5, <2>9, <3>1, <3>3, <3>4 DEF Following
  <2> QED
    BY <1>3, <2>1, <2>7, <2>8 DEF event, rest, last
<1>8. CASE Drop(c)
  <2> DEFINE y == [x EXCEPT !.open = FALSE, !.batch = <<>>]
  <2>1. tail' = [tail EXCEPT ![c] = y] /\ UNCHANGED <<mem, saved>>
    BY <1>8 DEF Drop, StreamInv, TailType
  <2>2. y \in Client /\ Following(y)
    <3>1. <<>> \in Seq(Event)
      OBVIOUS
    <3>2. y \in Client /\ y.batch = <<>> /\ y.cursor = x.cursor /\ y.from = x.from /\ y.seen = x.seen
      BY <1>1, <3>1
    <3> QED
      BY <1>1, <3>2 DEF Following
  <2> QED
    BY <1>3, <2>1, <2>2
<1> QED
  BY <1>4, <1>5, <1>6, <1>7, <1>8

LEMMA StreamSteps == LedgerInv /\ StreamInv /\ [LedgerNext]_ledgerVars => StreamInv'
<1>1. StreamInv /\ UNCHANGED ledgerVars => StreamInv'
  BY SameStreams DEF ledgerVars, StreamInv
<1> QED
  BY <1>1, EventSteps, EventsEnd, FollowSteps DEF LedgerNext, LedgerLife, LedgerFollow

(* A client of the stream misses no event that it is not told of and sees     *)
(* none that was not saved, for any number of clients, events, crashes and    *)
(* sizes of the ring (broker/events.go:52).                                   *)
THEOREM StreamsAreExact == LedgerSpec => []StreamsExact
<1>1. LedgerInv /\ StreamInv => StreamsExact
  <2> SUFFICES ASSUME LedgerInv, StreamInv, NEW c \in Tails, NEW i \in DOMAIN tail[c].seen
               PROVE  /\ tail[c].seen[i].id = tail[c].from + i
                      /\ tail[c].seen[i].id <= saved.cursor
                      /\ \A e \in Range(saved.events) :
                            e.id = tail[c].seen[i].id => e = tail[c].seen[i]
    BY DEF StreamsExact
  <2>1. tail[c].seen \in Seq(Event) /\ saved.events \in Seq(Event) /\ Following(tail[c])
    BY DEF StreamInv, TailType, LedgerInv, LedgerType, Descriptors
  <2>2. i \in 1 .. Len(tail[c].seen) /\ DOMAIN saved.events = 1 .. Len(saved.events)
    BY <2>1
  <2>3. /\ tail[c].seen[i].id = tail[c].from + i /\ tail[c].seen[i].id <= saved.cursor
        /\ \A j \in 1 .. Len(saved.events) :
              saved.events[j].id = tail[c].seen[i].id => saved.events[j] = tail[c].seen[i]
    BY <2>1, <2>2 DEF Following, Recorded
  <2>4. \A e \in Range(saved.events) : \E j \in 1 .. Len(saved.events) : e = saved.events[j]
    BY <2>2 DEF Range
  <2> QED
    BY <2>3, <2>4
<1> QED
  BY <1>1, LedgerStarts, LedgerSteps, StreamStarts, StreamSteps, PTL DEF LedgerSpec

----------------------------------------------------------------------------
(* Archives and their deletion.                                            *)

Kinds == {"started", "connected", "other", "ended", "failed", "disconnected"}
Lines == [seq : Nat, kind : Kinds]
JournalShape(j) ==
    /\ j = [log |-> j.log, torn |-> j.torn, meta |-> j.meta]
    /\ j.log \in Seq(Lines) /\ j.torn \in BOOLEAN
HandleShape(h) ==
    /\ h = [seq |-> h.seq, failed |-> h.failed, status |-> h.status]
    /\ h.seq \in Nat /\ h.failed \in BOOLEAN

Shaped(o) == JournalShape(o.journal) /\ HandleShape(o.handle) /\ o.told \subseteq Lines

\* Journal j can be read, and holds the records that were acknowledged.
Holds(j, told) == Readable(j) /\ \A line \in told : \E i \in 1 .. Len(j.log) : j.log[i] = line

\* A handle that may be used knows the length of its journal, which has no torn tail.
Tracks(h, j) == ~h.failed => h.seq = Len(j.log) /\ ~j.torn

Opening == {"none", "launching", "starting"}
Using == {"opened", "reopened", "serving", "stopped"}
Ongoing == {"recovering", "failing", "gone"}

\* A run that w works on, with descriptor d, journal j under handle h, of which told was
\* acknowledged. As long as its descriptor was not published, its archive does not say that
\* it has ended, unless all who worked on it have.
RunInv(w, d, j, h, lives, told) ==
    /\ w \in Opening \cup Using \cup Ongoing /\ d \in {"none", "live", "stopped"}
    /\ JournalShape(j) /\ HandleShape(h) /\ told \subseteq Lines
    /\ Holds(j, told)
    /\ w \in Using => Tracks(h, j)
    /\ h # NoHandle => w \in Using
    /\ w \in Opening => d = "none" /\ j.meta = "none" /\ j.log = <<>>
    /\ w = "opened" => d = "none" /\ j.meta # "ended"
    /\ w = "failing" => d = "live" \/ (d = "none" /\ j.meta # "ended")
    /\ w \in {"recovering", "reopened", "serving"} => d = "live"
    /\ w = "stopped" => d # "none"
    /\ lives => /\ w \notin {"none", "launching", "failing", "stopped"}
                /\ d = "live" \/ (d = "none" /\ j.meta # "ended")

ArchiveDomains ==
    /\ DOMAIN runner = Runs /\ DOMAIN descriptor = Runs /\ DOMAIN journal = Runs
    /\ DOMAIN handle = Runs /\ DOMAIN acked = Runs

AtRun(r) == RunInv(runner[r], descriptor[r], journal[r], handle[r], r \in alive, acked[r])

\* Nobody works on a run that is being deleted.
DeletedInv ==
    \A r \in deletion.runs :
       r \in Runs /\ runner[r] = "gone" /\ r \notin alive /\ descriptor[r] # "live"

ArchiveInv == ArchiveDomains /\ (\A r \in Runs : AtRun(r)) /\ DeletedInv

LEMMA EmptyJournal ==
  /\ JournalShape(NoJournal) /\ HandleShape(NoHandle) /\ Holds(NoJournal, {})
  /\ NoJournal.log = <<>> /\ NoJournal.meta = "none"
<1>1. <<>> \in Seq(Lines) /\ Len(<<>>) = 0
  OBVIOUS
<1> QED
  BY <1>1 DEF NoJournal, NoHandle, JournalShape, HandleShape, Holds, Readable

\* A record is appended to a journal without a torn tail.
LEMMA WrittenJournal ==
  ASSUME NEW j, JournalShape(j), ~j.torn, NEW told, Holds(j, told), NEW kind \in Kinds,
         NEW n, n = Len(j.log) + 1
  PROVE  /\ JournalShape(Written(j, n, kind)) /\ ~Written(j, n, kind).torn
         /\ Holds(Written(j, n, kind), told \cup {Line(n, kind)})
         /\ Len(Written(j, n, kind).log) = n
<1> DEFINE log == Append(j.log, Line(n, kind))
           k == Written(j, n, kind)
<1>1. k = [log |-> log, torn |-> FALSE, meta |-> j.meta]
  <2>1. k = [j EXCEPT !.log = Append(j.log, Line(n, kind)), !.torn = FALSE]
    BY DEF Written
  <2> QED
    BY <2>1 DEF JournalShape
<1>2. j.log \in Seq(Lines) /\ Len(j.log) \in Nat /\ Line(n, kind) \in Lines
  BY DEF JournalShape, Line, Lines
<1>3. /\ log \in Seq(Lines) /\ Len(log) = n /\ log[n] = Line(n, kind)
      /\ \A i \in 1 .. Len(j.log) : log[i] = j.log[i]
  BY <1>2, AppendProperties
<1> HIDE DEF log, k
<1>4. JournalShape(k) /\ k.log = log /\ ~k.torn /\ k.meta = j.meta
  BY <1>1, <1>3 DEF JournalShape
<1>5. Readable(k)
  <2> SUFFICES ASSUME NEW i \in 1 .. n PROVE log[i].seq = i
    BY <1>3, <1>4 DEF Readable
  <2>1. CASE i = n
    BY <1>3, <2>1 DEF Line
  <2>2. CASE i # n
    <3>1. i \in 1 .. Len(j.log) /\ i \in DOMAIN j.log
      BY <1>2, <2>2
    <3> QED
      BY <1>3, <3>1 DEF Holds, Readable
  <2> QED
    BY <2>1, <2>2
<1>6. ASSUME NEW line \in told \cup {Line(n, kind)}
      PROVE  \E i \in 1 .. Len(k.log) : k.log[i] = line
  <2>1. CASE line = Line(n, kind)
    <3>1. n \in 1 .. n
      BY <1>2
    <3> QED
      BY <1>3, <1>4, <2>1, <3>1
  <2>2. CASE line \in told
    <3>1. PICK i \in 1 .. Len(j.log) : j.log[i] = line
      BY <2>2 DEF Holds
    <3>2. i \in 1 .. n /\ log[i] = line
      BY <1>2, <1>3, <3>1
    <3> QED
      BY <1>3, <1>4, <3>2
  <2> QED
    BY <2>1, <2>2
<1> QED
  BY <1>3, <1>4, <1>5, <1>6 DEF Holds, k

\* A record is appended, and its writer told.
LEMMA CleanRecord ==
  ASSUME NEW j, JournalShape(j), NEW h, HandleShape(h), ~h.failed, Tracks(h, j),
         NEW told, Holds(j, told), NEW kind \in Kinds
  PROVE  LET o == Clean(j, h, kind) IN
         /\ Shaped(o) /\ ~o.handle.failed /\ Tracks(o.handle, o.journal)
         /\ Holds(o.journal, told \cup o.told)
         /\ o.journal.meta = Project(h.status, kind)
         /\ o = [journal |-> o.journal, handle |-> o.handle, told |-> o.told]
<1> DEFINE n == h.seq + 1
           k == Written(j, n, kind)
           o == Clean(j, h, kind)
           status == Project(h.status, kind)
<1>1. h.seq \in Nat /\ h.seq = Len(j.log) /\ ~j.torn
  BY DEF HandleShape, Tracks
<1>2. /\ JournalShape(k) /\ Holds(k, told \cup {Line(n, kind)}) /\ ~k.torn /\ Len(k.log) = n
  <2>1. n = Len(j.log) + 1 /\ ~j.torn
    BY <1>1
  <2> HIDE DEF n, o, status
  <2> QED
    BY ZenonT(40), <2>1, WrittenJournal
<1>3. /\ o.journal = [k EXCEPT !.meta = status]
      /\ o.handle = [h EXCEPT !.seq = n, !.status = status]
      /\ o.told = {Line(n, kind)}
      /\ o = [journal |-> o.journal, handle |-> o.handle, told |-> o.told]
  BY DEF Clean
<1> HIDE DEF k, o, status
<1>4. o.journal = [log |-> k.log, torn |-> FALSE, meta |-> status]
  BY <1>2, <1>3 DEF JournalShape
<1>5. o.handle = [seq |-> n, failed |-> FALSE, status |-> status]
  BY <1>3 DEF HandleShape
<1>6. JournalShape(o.journal) /\ HandleShape(o.handle)
  BY <1>1, <1>2, <1>4, <1>5 DEF JournalShape, HandleShape
<1>7. Line(n, kind) \in Lines
  BY <1>1 DEF Line, Lines
<1>8. Holds(o.journal, told \cup o.told)
  BY <1>2, <1>3, <1>4 DEF Holds, Readable
<1> QED
  BY <1>2, <1>3, <1>4, <1>5, <1>6, <1>7, <1>8 DEF Shaped, Tracks, o, status

\* With or without a failure, a handle in use keeps the journal.
LEMMA AppendedRecord ==
  ASSUME NEW j, JournalShape(j), NEW h, HandleShape(h), Tracks(h, j),
         NEW told \in SUBSET Lines, Holds(j, told), NEW kind \in Kinds, NEW faulty \in BOOLEAN,
         NEW o \in Appended(j, h, kind, faulty)
  PROVE  /\ Shaped(o) /\ Tracks(o.handle, o.journal) /\ Holds(o.journal, told \cup o.told)
<1>1. CASE h.failed
  <2>1. o = [journal |-> j, handle |-> h, told |-> {}]
    BY <1>1 DEF Appended
  <2> QED
    BY <2>1 DEF Shaped, Holds, Tracks
<1>2. CASE ~h.failed /\ ~faulty
  <2>1. o = Clean(j, h, kind)
    BY <1>2 DEF Appended
  <2> QED
    BY <1>2, <2>1, CleanRecord
<1>3. CASE ~h.failed /\ faulty
  <2> DEFINE c == Clean(j, h, kind)
  <2>0. /\ Shaped(c) /\ Tracks(c.handle, c.journal) /\ Holds(c.journal, told \cup c.told)
        /\ c = [journal |-> c.journal, handle |-> c.handle, told |-> c.told]
    BY <1>3, CleanRecord
  <2> HIDE DEF c
  <2>1. o \in Broken(j, h, kind)
    BY <1>3 DEF Appended
  <2>2. CASE o = [c EXCEPT !.journal.meta = j.meta]
    <3>1. /\ o.journal = [c.journal EXCEPT !.meta = j.meta] /\ o.handle = c.handle
          /\ o.told = c.told
      BY <2>0, <2>2
    <3>2. o.journal = [log |-> c.journal.log, torn |-> c.journal.torn, meta |-> j.meta]
      BY <2>0, <3>1 DEF Shaped, JournalShape
    <3>3. JournalShape(o.journal) /\ Holds(o.journal, told \cup o.told)
      BY <2>0, <3>1, <3>2 DEF Shaped, JournalShape, Holds, Readable
    <3> QED
      BY <2>0, <3>1, <3>2, <3>3 DEF Shaped, Tracks
  <2>3. ASSUME NEW k \in {j, [j EXCEPT !.torn = TRUE], Written(j, h.seq + 1, kind)},
               o = [journal |-> k, handle |-> [h EXCEPT !.failed = TRUE], told |-> {}]
        PROVE  /\ Shaped(o) /\ Tracks(o.handle, o.journal)
               /\ Holds(o.journal, told \cup o.told)
    <3>1. JournalShape(k) /\ Holds(k, told)
      <4>1. CASE k = [j EXCEPT !.torn = TRUE]
        <5>1. k = [log |-> j.log, torn |-> TRUE, meta |-> j.meta]
          BY <4>1 DEF JournalShape
        <5> QED
          BY <5>1 DEF JournalShape, Holds, Readable
      <4>2. CASE k = Written(j, h.seq + 1, kind)
        <5>1. h.seq = Len(j.log) /\ ~j.torn
          BY <1>3 DEF Tracks
        <5>2. JournalShape(k) /\ Holds(k, told \cup {Line(h.seq + 1, kind)})
          BY <4>2, <5>1, WrittenJournal
        <5> QED
          BY <5>2 DEF Holds
      <4> QED
        BY <2>3, <4>1, <4>2
    <3>2. o.handle = [seq |-> h.seq, failed |-> TRUE, status |-> h.status]
      BY <2>3 DEF HandleShape
    <3>3. HandleShape(o.handle) /\ o.handle.failed
      BY <3>2 DEF HandleShape
    <3> QED
      BY <2>3, <3>1, <3>3 DEF Shaped, Tracks, Holds
  <2> QED
    BY <2>1, <2>2, <2>3 DEF Broken, c
<1> QED
  BY <1>1, <1>2, <1>3

\* An archive is opened: nothing of it is lost, and nothing is torn any more.
LEMMA OpenedJournal ==
  ASSUME NEW j, JournalShape(j), NEW told, Holds(j, told)
  PROVE  LET o == Opened(j) IN
         /\ Shaped(o) /\ ~o.handle.failed /\ Tracks(o.handle, o.journal)
         /\ Holds(o.journal, told \cup o.told)
         /\ j.log = <<>> => o.journal.meta = "active"
         /\ o = [journal |-> o.journal, handle |-> o.handle, told |-> o.told]
<1> DEFINE status == FoldLeft(LAMBDA s, line : Project(s, line.kind),
                              IF j.meta = "none" THEN "active" ELSE j.meta, j.log)
           open == [journal |-> [j EXCEPT !.torn = FALSE, !.meta = status],
                    handle |-> [seq |-> Len(j.log), failed |-> FALSE, status |-> status],
                    told |-> {}]
           o == Opened(j)
<1>1. o = IF j.log = <<>> THEN Clean(open.journal, open.handle, "started") ELSE open
  BY DEF Opened
<1> HIDE DEF status, o
<1>2. open.journal = [log |-> j.log, torn |-> FALSE, meta |-> status]
  BY DEF JournalShape
<1>3. /\ JournalShape(open.journal) /\ HandleShape(open.handle) /\ Holds(open.journal, told)
      /\ ~open.handle.failed /\ Tracks(open.handle, open.journal)
  <2>1. open.handle = [seq |-> Len(j.log), failed |-> FALSE, status |-> status]
    OBVIOUS
  <2>2. Len(j.log) \in Nat /\ open.told = {}
    BY DEF JournalShape
  <2> HIDE DEF open
  <2>3. JournalShape(open.journal) /\ HandleShape(open.handle)
    BY <1>2, <2>1, <2>2 DEF JournalShape, HandleShape
  <2>4. Holds(open.journal, told)
    BY <1>2 DEF Holds, Readable
  <2> QED
    BY <1>2, <2>1, <2>3, <2>4 DEF Tracks
<1>4. CASE j.log # <<>>
  BY <1>1, <1>3, <1>4 DEF Shaped, o
<1>5. CASE j.log = <<>>
  <2>1. o = Clean(open.journal, open.handle, "started")
    BY <1>1, <1>5
  <2> HIDE DEF open
  <2>2. Project(open.handle.status, "started") = "active"
    BY DEF Project
  <2>3. "started" \in Kinds
    BY DEF Kinds
  <2> DEFINE p == open.journal
             g == open.handle
  <2> HIDE DEF p, g
  <2>4. /\ JournalShape(p) /\ HandleShape(g) /\ ~g.failed /\ Tracks(g, p) /\ Holds(p, told)
        /\ o = Clean(p, g, "started") /\ Project(g.status, "started") = "active"
    BY <1>3, <2>1, <2>2 DEF p, g
  <2>5. /\ Shaped(o) /\ ~o.handle.failed /\ Tracks(o.handle, o.journal)
        /\ Holds(o.journal, told \cup o.told)
        /\ o.journal.meta = Project(g.status, "started")
        /\ o = [journal |-> o.journal, handle |-> o.handle, told |-> o.told]
    BY <2>3, <2>4, CleanRecord
  <2> QED
    BY <2>4, <2>5 DEF o
<1> QED
  BY <1>4, <1>5

\* Each write of a launch's failure leaves a journal that holds what was acknowledged.
LEMMA FailureStage ==
  ASSUME NEW r \in Runs, JournalShape(journal[r]), NEW told \in SUBSET Lines,
         Holds(journal[r], told), NEW n \in 1 .. 3
  PROVE  LET stage == FailureStages(r)[n] IN
         JournalShape(stage.journal) /\ stage.told \subseteq Lines
         /\ Holds(stage.journal, told \cup stage.told)
<1> DEFINE o1 == IF journal[r].log = <<>>
                 THEN Opened(journal[r])
                 ELSE [Opened(journal[r]) EXCEPT !.told = {}]
           o2 == Clean(o1.journal, o1.handle, "failed")
           o3 == Clean(o2.journal, o2.handle, "ended")
<1>1. FailureStages(r) =
         << [journal |-> o1.journal, told |-> o1.told],
            [journal |-> o2.journal, told |-> o1.told \cup o2.told],
            [journal |-> o3.journal, told |-> o1.told \cup o2.told \cup o3.told] >>
  BY DEF FailureStages
<1>2. /\ Shaped(o1) /\ ~o1.handle.failed /\ Tracks(o1.handle, o1.journal)
      /\ Holds(o1.journal, told \cup o1.told)
  <2> DEFINE o == Opened(journal[r])
  <2>1. /\ Shaped(o) /\ ~o.handle.failed /\ Tracks(o.handle, o.journal)
        /\ Holds(o.journal, told \cup o.told)
        /\ o = [journal |-> o.journal, handle |-> o.handle, told |-> o.told]
    BY OpenedJournal
  <2> HIDE DEF o
  <2>2. \/ o1 = o
        \/ o1 = [journal |-> o.journal, handle |-> o.handle, told |-> {}]
    BY <2>1 DEF o
  <2> HIDE DEF o1
  <2> QED
    BY <2>1, <2>2 DEF Shaped, Holds
<1> HIDE DEF o1
<1>a. "failed" \in Kinds /\ "ended" \in Kinds
  BY DEF Kinds
<1>3. /\ Shaped(o2) /\ ~o2.handle.failed /\ Tracks(o2.handle, o2.journal)
      /\ Holds(o2.journal, (told \cup o1.told) \cup o2.told)
  BY <1>2, <1>a, CleanRecord DEF Shaped
<1> HIDE DEF o2
<1>4. Shaped(o3) /\ Holds(o3.journal, ((told \cup o1.told) \cup o2.told) \cup o3.told)
  BY <1>3, <1>a, CleanRecord DEF Shaped
<1> HIDE DEF o3
<1>5. CASE n = 1
  BY SMTT(30), <1>1, <1>2, <1>5 DEF Shaped
<1>6. CASE n = 2
  <2>1. FailureStages(r)[n] = [journal |-> o2.journal, told |-> o1.told \cup o2.told]
    BY <1>1, <1>6
  <2>2. Holds(o2.journal, told \cup (o1.told \cup o2.told))
    BY <1>3 DEF Holds
  <2> QED
    BY <1>2, <1>3, <2>1, <2>2 DEF Shaped
<1>7. CASE n = 3
  <2>1. FailureStages(r)[n] =
           [journal |-> o3.journal, told |-> o1.told \cup o2.told \cup o3.told]
    BY <1>1, <1>7
  <2>2. Holds(o3.journal, told \cup (o1.told \cup o2.told \cup o3.told))
    BY <1>4 DEF Holds
  <2> QED
    BY <1>2, <1>3, <1>4, <2>1, <2>2 DEF Shaped
<1> QED
  BY <1>5, <1>6, <1>7

\* A step of one run.
LEMMA OneRun ==
  ASSUME ArchiveInv, NEW r \in Runs, ArchiveDomains',
         \A q \in Runs : q # r =>
            /\ runner'[q] = runner[q] /\ descriptor'[q] = descriptor[q]
            /\ journal'[q] = journal[q] /\ handle'[q] = handle[q] /\ acked'[q] = acked[q]
            /\ q \in alive' <=> q \in alive,
         AtRun(r)', deletion' = deletion, r \notin deletion.runs
  PROVE  ArchiveInv'
<1>1. ASSUME NEW q \in Runs, q # r PROVE AtRun(q)'
  <2>1. AtRun(q)' <=> AtRun(q)
    BY <1>1 DEF AtRun
  <2> QED
    BY <2>1 DEF ArchiveInv
<1>2. DeletedInv'
  BY DEF ArchiveInv, DeletedInv
<1> QED
  BY <1>1, <1>2 DEF ArchiveInv

\* Nothing happens to the runs.
LEMMA SameRuns ==
  ASSUME ArchiveInv,
         UNCHANGED <<runner, alive, descriptor, journal, handle, acked, deletion>>
  PROVE  ArchiveInv'
<1>1. ASSUME NEW q \in Runs PROVE AtRun(q)'
  <2>1. AtRun(q)' <=> AtRun(q)
    BY DEF AtRun
  <2> QED
    BY <2>1 DEF ArchiveInv
<1> QED
  BY <1>1 DEF ArchiveInv, ArchiveDomains, DeletedInv

LEMMA ArchiveStart == ArchiveInit => ArchiveInv
<1> SUFFICES ASSUME ArchiveInit PROVE ArchiveInv
  OBVIOUS
<1>1. ArchiveDomains /\ DeletedInv
  BY DEF ArchiveInit, ArchiveDomains, DeletedInv, NoDeletion
<1>2. ASSUME NEW r \in Runs PROVE AtRun(r)
  <2>1. PICK old \in BOOLEAN :
           /\ journal[r] = IF old /\ r = 1
                           THEN [log |-> <<Line(1, "started"), Line(2, "ended")>>,
                                 torn |-> FALSE, meta |-> "ended"]
                           ELSE NoJournal
           /\ runner[r] = IF old /\ r = 1 THEN "gone" ELSE "none"
    BY <1>2 DEF ArchiveInit
  <2>2. /\ r \notin alive /\ descriptor[r] = "none" /\ handle[r] = NoHandle
        /\ acked[r] = Range(journal[r].log)
    BY <1>2 DEF ArchiveInit
  <2>3. CASE old /\ r = 1
    <3> DEFINE log == <<Line(1, "started"), Line(2, "ended")>>
    <3>1. log \in Seq(Lines) /\ Len(log) = 2 /\ log[1].seq = 1 /\ log[2].seq = 2
          /\ DOMAIN log = 1 .. 2
      BY DEF Line, Lines, Kinds
    <3>2. journal[r] = [log |-> log, torn |-> FALSE, meta |-> "ended"]
      BY <2>1, <2>3
    <3> HIDE DEF log
    <3>3. ASSUME NEW line \in Range(log)
          PROVE  line \in Lines /\ \E i \in 1 .. 2 : log[i] = line
      <4>1. PICK i \in 1 .. 2 : log[i] = line
        BY <3>1 DEF Range
      <4>2. log[i] \in Lines
        BY <3>1, <4>1, ElementOfSeq
      <4> QED
        BY <4>1, <4>2
    <3>4. JournalShape(journal[r]) /\ acked[r] = Range(log)
      BY <2>2, <3>1, <3>2 DEF JournalShape
    <3>5. Holds(journal[r], acked[r]) /\ acked[r] \subseteq Lines
      BY <3>1, <3>2, <3>3, <3>4 DEF Holds, Readable
    <3> QED
      BY <2>1, <2>2, <2>3, <3>4, <3>5, EmptyJournal DEF AtRun, RunInv, Ongoing, Opening, Using
  <2>4. CASE ~(old /\ r = 1)
    <3>1. Range(<<>>) = {}
      BY DEF Range
    <3> QED
      BY <2>1, <2>2, <2>4, <3>1, EmptyJournal DEF AtRun, RunInv, Ongoing, Opening, Using
  <2> QED
    BY <2>3, <2>4
<1> QED
  BY <1>1, <1>2 DEF ArchiveInv

\* A deletion has no run that somebody works on.
LEMMA NotDeleted ==
  ASSUME ArchiveInv, NEW r \in Runs,
         runner[r] # "gone" \/ r \in alive \/ descriptor[r] = "live" \/ IndexFree
  PROVE  r \notin deletion.runs /\ AtRun(r)
BY DEF ArchiveInv, DeletedInv, IndexFree, NoDeletion

\* The record of a failed launch.
LEMMA FailedRun ==
  ASSUME ArchiveInv, NEW r \in Runs, FailureRecorded(r)
  PROVE  /\ JournalShape(journal'[r]) /\ acked'[r] \subseteq Lines
         /\ Holds(journal'[r], acked'[r])
         /\ DOMAIN journal' = Runs /\ DOMAIN acked' = Runs
         /\ \A q \in Runs : q # r => journal'[q] = journal[q] /\ acked'[q] = acked[q]
<1>1. /\ JournalShape(journal[r]) /\ acked[r] \subseteq Lines /\ Holds(journal[r], acked[r])
      /\ DOMAIN journal = Runs /\ DOMAIN acked = Runs
  BY DEF ArchiveInv, ArchiveDomains, AtRun, RunInv
<1>2. CASE UNCHANGED <<journal, acked>>
  BY <1>1, <1>2
<1>3. ASSUME NEW n \in 1 .. 3,
             journal' = [journal EXCEPT ![r] = FailureStages(r)[n].journal],
             acked' = [acked EXCEPT ![r] = @ \cup FailureStages(r)[n].told]
      PROVE  /\ JournalShape(journal'[r]) /\ acked'[r] \subseteq Lines
             /\ Holds(journal'[r], acked'[r])
             /\ DOMAIN journal' = Runs /\ DOMAIN acked' = Runs
             /\ \A q \in Runs : q # r => journal'[q] = journal[q] /\ acked'[q] = acked[q]
  <2>1. /\ JournalShape(FailureStages(r)[n].journal) /\ FailureStages(r)[n].told \subseteq Lines
        /\ Holds(FailureStages(r)[n].journal, acked[r] \cup FailureStages(r)[n].told)
    BY <1>1, FailureStage
  <2> QED
    BY <1>1, <1>3, <2>1
<1> QED
  BY <1>2, <1>3 DEF FailureRecorded

\* A record by a handle in use.
LEMMA RecordedRun ==
  ASSUME ArchiveInv, NEW r \in Runs, runner[r] \in Using, NEW kind \in Kinds,
         NEW faulty \in BOOLEAN, NEW o \in Appended(journal[r], handle[r], kind, faulty)
  PROVE  /\ JournalShape(o.journal) /\ HandleShape(o.handle) /\ Tracks(o.handle, o.journal)
         /\ Holds(o.journal, acked[r] \cup o.told) /\ acked[r] \cup o.told \subseteq Lines
<1>1. AtRun(r)
  BY DEF ArchiveInv
<1>2. /\ JournalShape(journal[r]) /\ HandleShape(handle[r]) /\ Tracks(handle[r], journal[r])
      /\ acked[r] \in SUBSET Lines /\ Holds(journal[r], acked[r])
  BY <1>1 DEF AtRun, RunInv
<1>3. Shaped(o) /\ Tracks(o.handle, o.journal) /\ Holds(o.journal, acked[r] \cup o.told)
  BY <1>2, AppendedRecord
<1> QED
  BY <1>2, <1>3 DEF Shaped

\* The steps around a run that do not touch its journal.
LEMMA QuietSteps ==
  ASSUME ArchiveInv, NEW r \in Runs,
         \/ \E g \in 1 .. r : Launch(r, g)
         \/ BrokerStarts(r) \/ RecoveryStarts(r) \/ StartFails(r) \/ Dies(r)
         \/ TargetDies(r) \/ Cleanup(r)
  PROVE  ArchiveInv'
<1>0. ArchiveDomains /\ AtRun(r)
  BY DEF ArchiveInv
<1>1. CASE \E g \in 1 .. r : Launch(r, g)
  <2>1. /\ r \notin deletion.runs /\ runner[r] = "none"
        /\ \E w \in {"launching", "gone"} : runner' = [runner EXCEPT ![r] = w]
        /\ UNCHANGED <<alive, descriptor, journal, handle, deletion, acked>>
    BY <1>1, NotDeleted DEF Launch
  <2>2. AtRun(r)'
    BY <1>0, <2>1 DEF ArchiveDomains, AtRun, RunInv, Opening, Using, Ongoing
  <2> QED
    BY <1>0, <2>1, <2>2, OneRun DEF ArchiveDomains
<1>2. CASE BrokerStarts(r)
  <2>1. r \notin deletion.runs /\ AtRun(r)'
    BY <1>0, <1>2, NotDeleted
       DEF BrokerStarts, ArchiveDomains, AtRun, RunInv, Opening, Using, Ongoing
  <2> QED
    BY <1>0, <1>2, <2>1, OneRun DEF BrokerStarts, ArchiveDomains
<1>3. CASE RecoveryStarts(r)
  <2>1. r \notin deletion.runs /\ AtRun(r)'
    BY <1>0, <1>3, NotDeleted
       DEF RecoveryStarts, ArchiveDomains, AtRun, RunInv, Opening, Using, Ongoing
  <2> QED
    BY <1>0, <1>3, <2>1, OneRun DEF RecoveryStarts, ArchiveDomains
<1>4. CASE StartFails(r)
  <2>1. r \notin deletion.runs /\ AtRun(r)'
    BY <1>0, <1>4, NotDeleted, EmptyJournal
       DEF StartFails, Abandon, CloseHandle, ArchiveDomains, AtRun, RunInv, Opening, Using,
           Ongoing
  <2> QED
    BY <1>0, <1>4, <2>1, OneRun DEF StartFails, Abandon, CloseHandle, ArchiveDomains
<1>5. CASE Dies(r)
  <2>1. /\ runner' = [runner EXCEPT ![r] = "gone"] /\ handle' = [handle EXCEPT ![r] = NoHandle]
        /\ runner[r] # "gone" /\ UNCHANGED <<alive, descriptor, deletion, acked>>
    BY <1>5 DEF Dies, CloseHandle, Holding
  <2>2. r \notin deletion.runs
    BY <2>1, NotDeleted
  <2>3. /\ \A q \in Runs : q # r => journal'[q] = journal[q]
        /\ DOMAIN journal' = Runs
        /\ \/ journal'[r] = journal[r]
           \/ \E torn \in BOOLEAN :
                 journal'[r] = [log |-> journal[r].log, torn |-> torn, meta |-> journal[r].meta]
    <3>1. CASE journal' = journal
      BY <1>0, <3>1 DEF ArchiveDomains
    <3>2. CASE journal' = [journal EXCEPT ![r].torn = handle[r] # NoHandle]
      <4>1. journal'[r] = [journal[r] EXCEPT !.torn = handle[r] # NoHandle]
        BY <1>0, <3>2 DEF ArchiveDomains
      <4>2. JournalShape(journal[r])
        BY <1>0 DEF AtRun, RunInv
      <4>3. journal'[r] = [log |-> journal[r].log, torn |-> handle[r] # NoHandle,
                           meta |-> journal[r].meta]
        BY <4>1, <4>2 DEF JournalShape
      <4> QED
        BY <1>0, <3>2, <4>3 DEF ArchiveDomains
    <3> QED
      BY <1>5, <3>1, <3>2 DEF Dies
  <2>4. /\ JournalShape(journal'[r]) /\ Holds(journal'[r], acked[r])
        /\ journal'[r].meta = journal[r].meta
    <3>1. JournalShape(journal[r]) /\ Holds(journal[r], acked[r])
      BY <1>0 DEF AtRun, RunInv
    <3> QED
      BY <2>3, <3>1 DEF JournalShape, Holds, Readable
  <2>5. AtRun(r)'
    BY <1>0, <2>1, <2>4, EmptyJournal
       DEF ArchiveDomains, AtRun, RunInv, Opening, Using, Ongoing
  <2> QED
    BY <1>0, <2>1, <2>2, <2>3, <2>5, OneRun DEF ArchiveDomains
<1>6. CASE TargetDies(r)
  <2>1. r \notin deletion.runs /\ AtRun(r)'
    BY <1>0, <1>6, NotDeleted DEF TargetDies, AtRun, RunInv
  <2> QED
    BY <1>0, <1>6, <2>1, OneRun DEF TargetDies, ArchiveDomains
<1>7. CASE Cleanup(r)
  <2>1. r \notin deletion.runs /\ AtRun(r)'
    BY <1>0, <1>7, NotDeleted
       DEF Cleanup, SessionFree, Holding, ArchiveDomains, AtRun, RunInv, Opening, Using, Ongoing
  <2> QED
    BY <1>0, <1>7, <2>1, OneRun DEF Cleanup, ArchiveDomains
<1> QED
  BY <1>1, <1>2, <1>3, <1>4, <1>5, <1>6, <1>7

\* The broker opens the archive.
LEMMA OpeningStep ==
  ASSUME ArchiveInv, NEW r \in Runs, OpenArchive(r)
  PROVE  ArchiveInv'
<1> DEFINE o == Opened(journal[r])
<1>1. ArchiveDomains /\ AtRun(r) /\ runner[r] \in {"starting", "recovering"}
  BY DEF ArchiveInv, OpenArchive
<1>2. r \notin deletion.runs
  BY <1>1, NotDeleted
<1>3. /\ Shaped(o) /\ Tracks(o.handle, o.journal) /\ Holds(o.journal, acked[r] \cup o.told)
      /\ journal[r].log = <<>> => o.journal.meta = "active"
  BY <1>1, OpenedJournal DEF AtRun, RunInv
<1> HIDE DEF o
<1>4. /\ journal' = [journal EXCEPT ![r] = o.journal] /\ handle' = [handle EXCEPT ![r] = o.handle]
      /\ acked' = [acked EXCEPT ![r] = @ \cup o.told]
      /\ runner' = [runner EXCEPT ![r] = IF @ = "starting" THEN "opened" ELSE "reopened"]
      /\ UNCHANGED <<alive, descriptor, deletion>>
  BY DEF OpenArchive, Become, o
<1>5. AtRun(r)'
  BY <1>1, <1>3, <1>4
     DEF ArchiveDomains, AtRun, RunInv, Shaped, Opening, Using, Ongoing
<1> QED
  BY <1>1, <1>2, <1>4, <1>5, OneRun DEF ArchiveDomains

\* A launch that failed is recorded, by the launcher or by the broker it started.
LEMMA FailureStep ==
  ASSUME ArchiveInv, NEW r \in Runs, LaunchFails(r) \/ FailureEnds(r)
  PROVE  ArchiveInv'
<1>1. ArchiveDomains /\ AtRun(r) /\ runner[r] \in {"launching", "failing"}
  BY DEF ArchiveInv, LaunchFails, FailureEnds
<1>2. r \notin deletion.runs
  BY <1>1, NotDeleted
<1>3. /\ FailureRecorded(r) /\ runner' = [runner EXCEPT ![r] = "gone"]
      /\ UNCHANGED <<alive, descriptor, handle, deletion>>
  BY DEF LaunchFails, FailureEnds
<1>4. /\ JournalShape(journal'[r]) /\ acked'[r] \subseteq Lines
      /\ Holds(journal'[r], acked'[r])
      /\ DOMAIN journal' = Runs /\ DOMAIN acked' = Runs
      /\ \A q \in Runs : q # r => journal'[q] = journal[q] /\ acked'[q] = acked[q]
  BY <1>3, FailedRun
<1>5. AtRun(r)'
  BY <1>1, <1>3, <1>4 DEF ArchiveDomains, AtRun, RunInv, Opening, Using, Ongoing
<1> QED
  BY <1>1, <1>2, <1>3, <1>4, <1>5, OneRun DEF ArchiveDomains

\* The broker writes a record.
LEMMA RecordSteps ==
  ASSUME ArchiveInv, NEW r \in Runs,
         \/ Publish(r) \/ PublishedFails(r) \/ Stop(r) \/ ShutDown(r)
         \/ \E kind \in {"other", "ended"} : Record(r, kind)
  PROVE  ArchiveInv'
<1>1. ArchiveDomains /\ AtRun(r) /\ runner[r] \in Using
  BY DEF ArchiveInv, Publish, PublishedFails, Stop, ShutDown, Record, Using
<1>2. r \notin deletion.runs
  BY <1>1, NotDeleted DEF Using
<1>3. ASSUME NEW kind \in Kinds, Records(r, kind)
      PROVE  /\ JournalShape(journal'[r]) /\ HandleShape(handle'[r])
             /\ Tracks(handle'[r], journal'[r])
             /\ Holds(journal'[r], acked'[r]) /\ acked'[r] \subseteq Lines
             /\ DOMAIN journal' = Runs /\ DOMAIN handle' = Runs /\ DOMAIN acked' = Runs
             /\ \A q \in Runs : q # r => /\ journal'[q] = journal[q] /\ handle'[q] = handle[q]
                                         /\ acked'[q] = acked[q]
  <2>0. PICK faulty \in BOOLEAN :
           \E o \in Appended(journal[r], handle[r], kind, faulty) : Become(r, o)
    BY <1>3 DEF Records
  <2>1. PICK o \in Appended(journal[r], handle[r], kind, faulty) : Become(r, o)
    BY <2>0
  <2>2. /\ JournalShape(o.journal) /\ HandleShape(o.handle) /\ Tracks(o.handle, o.journal)
        /\ Holds(o.journal, acked[r] \cup o.told) /\ acked[r] \cup o.told \subseteq Lines
    BY <1>1, RecordedRun
  <2> QED
    BY <1>1, <2>1, <2>2 DEF Become, ArchiveDomains
<1>4. ASSUME NEW kind \in Kinds, NEW faulty \in BOOLEAN, LastRecord(r, kind, faulty)
      PROVE  /\ JournalShape(journal'[r])
             /\ Holds(journal'[r], acked'[r]) /\ acked'[r] \subseteq Lines
             /\ DOMAIN journal' = Runs /\ DOMAIN acked' = Runs
             /\ \A q \in Runs : q # r => journal'[q] = journal[q] /\ acked'[q] = acked[q]
  <2>1. PICK o \in Appended(journal[r], handle[r], kind, faulty) :
           /\ journal' = [journal EXCEPT ![r] = o.journal]
           /\ acked' = [acked EXCEPT ![r] = @ \cup o.told]
    BY <1>4 DEF LastRecord
  <2>2. /\ JournalShape(o.journal)
        /\ Holds(o.journal, acked[r] \cup o.told) /\ acked[r] \cup o.told \subseteq Lines
    BY <1>1, RecordedRun
  <2> QED
    BY <1>1, <2>1, <2>2 DEF ArchiveDomains
<1>a. {"connected", "disconnected", "ended", "other"} \subseteq Kinds
  BY DEF Kinds
<1>5. CASE Publish(r)
  <2>1. Records(r, "connected")
    BY <1>5 DEF Publish
  <2>2. AtRun(r)'
    BY <1>1, <1>3, <1>5, <1>a, <2>1
       DEF Publish, ArchiveDomains, AtRun, RunInv, Opening, Using, Ongoing
  <2> QED
    BY <1>1, <1>2, <1>3, <1>5, <1>a, <2>1, <2>2, OneRun DEF Publish, ArchiveDomains
<1>6. CASE PublishedFails(r)
  <2>1. LastRecord(r, "connected", FALSE)
    BY <1>6 DEF PublishedFails
  <2>2. AtRun(r)'
    BY <1>1, <1>4, <1>6, <1>a, <2>1, EmptyJournal
       DEF PublishedFails, Abandon, CloseHandle, ArchiveDomains, AtRun, RunInv, Opening, Using,
           Ongoing
  <2> QED
    BY <1>1, <1>2, <1>4, <1>6, <1>a, <2>1, <2>2, OneRun
       DEF PublishedFails, Abandon, CloseHandle, ArchiveDomains
<1>7. CASE Stop(r)
  <2>1. CASE Records(r, "ended") /\ descriptor' = [descriptor EXCEPT ![r] = "stopped"]
    <3>1. AtRun(r)'
      BY <1>1, <1>3, <1>7, <1>a, <2>1
         DEF Stop, ArchiveDomains, AtRun, RunInv, Opening, Using, Ongoing
    <3> QED
      BY <1>1, <1>2, <1>3, <1>7, <1>a, <2>1, <3>1, OneRun DEF Stop, ArchiveDomains
  <2>2. CASE UNCHANGED <<descriptor, journal, handle, acked>>
    <3>1. AtRun(r)'
      BY <1>1, <1>7, <2>2
         DEF Stop, ArchiveDomains, AtRun, RunInv, Opening, Using, Ongoing
    <3> QED
      BY <1>1, <1>2, <1>7, <2>2, <3>1, OneRun DEF Stop, ArchiveDomains
  <2> QED
    BY <1>7, <2>1, <2>2 DEF Stop
<1>8. CASE ShutDown(r)
  <2>1. PICK faulty \in BOOLEAN : LastRecord(r, "disconnected", faulty)
    BY <1>8 DEF ShutDown
  <2>2. AtRun(r)'
    BY <1>1, <1>4, <1>8, <1>a, <2>1, EmptyJournal
       DEF ShutDown, CloseHandle, ArchiveDomains, AtRun, RunInv, Opening, Using, Ongoing
  <2> QED
    BY <1>1, <1>2, <1>4, <1>8, <1>a, <2>1, <2>2, OneRun DEF ShutDown, CloseHandle, ArchiveDomains
<1>9. ASSUME NEW kind \in {"other", "ended"}, Record(r, kind)
      PROVE  ArchiveInv'
  <2>1. Records(r, kind) /\ runner[r] = "serving" /\ kind \in Kinds
        /\ UNCHANGED <<runner, alive, descriptor, deletion>>
    BY <1>9, <1>a DEF Record
  <2>2. AtRun(r)'
    BY <1>1, <1>3, <2>1 DEF AtRun, RunInv, Opening, Using, Ongoing
  <2> QED
    BY <1>1, <1>2, <1>3, <2>1, <2>2, OneRun DEF ArchiveDomains
<1> QED
  BY <1>5, <1>6, <1>7, <1>8, <1>9

\* A deletion begins with runs that nobody works on.
LEMMA DeleteStep ==
  ASSUME ArchiveInv, NEW S \in SUBSET Runs, NEW g, Delete(S, g)
  PROVE  ArchiveInv'
<1>1. deletion'.runs = S /\ UNCHANGED <<runner, alive, descriptor, journal, handle, acked>>
  BY DEF Delete
<1>2. ASSUME NEW r \in S
      PROVE  r \in Runs /\ runner[r] = "gone" /\ r \notin alive /\ descriptor[r] # "live"
  <2>1. AtRun(r) /\ Prepared(r)
    BY <1>2 DEF ArchiveInv, Delete
  <2> QED
    BY <1>2, <2>1
       DEF Prepared, SessionFree, ArchiveFree, Holding, AtRun, RunInv, Opening, Using, Ongoing
<1>3. ASSUME NEW q \in Runs PROVE AtRun(q)'
  BY <1>1, <1>3 DEF ArchiveInv, AtRun
<1> QED
  BY <1>1, <1>2, <1>3 DEF ArchiveInv, ArchiveDomains, DeletedInv

\* What is removed is of the runs that are being deleted.
LEMMA RemovalStep ==
  ASSUME ArchiveInv, DeletionEnds
  PROVE  ArchiveInv'
<1>1. /\ deletion' = NoDeletion /\ UNCHANGED <<runner, alive, handle>>
      /\ \E P, left : /\ \A r \in Runs : <<r, "archive">> \in P \/ <<r, "session">> \in P
                                           => r \in deletion.runs
                      /\ Removed(P, left)
  <2>1. ASSUME NEW n, NEW r, NEW s, <<r, s>> \in Staged(n)
        PROVE  r \in deletion.runs
    BY <2>1 DEF Staged
  <2>2. \A r \in Runs : <<r, "archive">> \in All \/ <<r, "session">> \in All
                           => r \in deletion.runs
    BY <2>1 DEF All
  <2>3. ASSUME NEW P \in Interrupted
        PROVE  \A r \in Runs : <<r, "archive">> \in P \/ <<r, "session">> \in P
                                  => r \in deletion.runs
    BY <2>1, <2>3 DEF Interrupted
  <2>4. deletion' = NoDeletion /\ UNCHANGED <<runner, alive, handle>>
        /\ \/ \E left : Removed(All, left) \/ Removed({}, left)
           \/ \E P \in Interrupted : \E left : Removed(P, left)
    BY DEF DeletionEnds
  <2> HIDE DEF Removed, All, Interrupted
  <2> QED
    BY <2>2, <2>3, <2>4
<1>2. PICK P, left : /\ \A r \in Runs : <<r, "archive">> \in P \/ <<r, "session">> \in P
                                           => r \in deletion.runs
                     /\ Removed(P, left)
  BY <1>1
<1>3. ASSUME NEW r \in Runs PROVE AtRun(r)'
  <2>0. AtRun(r)
    BY <1>3 DEF ArchiveInv
  <2>1. CASE r \in deletion.runs
    <3>1. runner[r] = "gone" /\ r \notin alive
      BY <2>1 DEF ArchiveInv, DeletedInv
    <3>2. /\ \/ journal'[r] = journal[r] /\ acked'[r] = acked[r]
             \/ journal'[r] = NoJournal /\ acked'[r] = {}
          /\ descriptor'[r] \in {"none", descriptor[r]}
      <4>1. /\ journal'[r] = IF <<r, "archive">> \in P THEN NoJournal ELSE journal[r]
            /\ acked'[r] = IF <<r, "archive">> \in P THEN {} ELSE acked[r]
            /\ descriptor'[r] = IF <<r, "session">> \in P THEN "none" ELSE descriptor[r]
        BY <1>2, <1>3 DEF Removed
      <4> QED
        BY <4>1
    <3> QED
      BY <1>1, <2>0, <3>1, <3>2, EmptyJournal DEF AtRun, RunInv, Opening, Using, Ongoing
  <2>2. CASE r \notin deletion.runs
    <3>1. journal'[r] = journal[r] /\ acked'[r] = acked[r] /\ descriptor'[r] = descriptor[r]
      BY <1>2, <1>3, <2>2 DEF Removed
    <3> QED
      BY <1>1, <2>0, <3>1 DEF AtRun
  <2> QED
    BY <2>1, <2>2
<1>4. ArchiveDomains'
  BY <1>1, <1>2 DEF ArchiveInv, ArchiveDomains, Removed
<1>5. DeletedInv'
  BY <1>1 DEF DeletedInv, NoDeletion
<1> QED
  BY <1>3, <1>4, <1>5 DEF ArchiveInv

LEMMA ArchiveSteps == ArchiveInv /\ [ArchiveNext]_archiveVars => ArchiveInv'
<1> SUFFICES ASSUME ArchiveInv, [ArchiveNext]_archiveVars PROVE ArchiveInv'
  OBVIOUS
<1>1. CASE Browse \/ UNCHANGED archiveVars
  BY <1>1, SameRuns DEF Browse, archiveVars
<1>2. CASE DeletionEnds
  BY <1>2, RemovalStep
<1>3. ASSUME NEW r \in Runs, DeleteRun(r) \/ DeleteInvestigation(r)
      PROVE  ArchiveInv'
  <2>1. Members(r) \subseteq Runs
    BY DEF Members
  <2> QED
    BY <1>3, <2>1, DeleteStep DEF DeleteRun, DeleteInvestigation
<1>4. ASSUME NEW r \in Runs,
             \/ \E g \in 1 .. r : Launch(r, g)
             \/ BrokerStarts(r) \/ RecoveryStarts(r) \/ StartFails(r) \/ Dies(r)
             \/ TargetDies(r) \/ Cleanup(r)
      PROVE  ArchiveInv'
  BY <1>4, QuietSteps
<1>5. ASSUME NEW r \in Runs, LaunchFails(r) \/ FailureEnds(r) PROVE ArchiveInv'
  BY <1>5, FailureStep
<1>6. ASSUME NEW r \in Runs, OpenArchive(r) PROVE ArchiveInv'
  BY <1>6, OpeningStep
<1>7. ASSUME NEW r \in Runs,
             \/ Publish(r) \/ PublishedFails(r) \/ Stop(r) \/ ShutDown(r)
             \/ \E kind \in {"other", "ended"} : Record(r, kind)
      PROVE  ArchiveInv'
  BY <1>7, RecordSteps
<1> QED
  BY <1>1, <1>2, <1>3, <1>4, <1>5, <1>6, <1>7 DEF ArchiveNext

\* Whatever failed or crashed, a journal can be read again, and it holds every record whose
\* writer was told that it was saved.
THEOREM AcknowledgedRecordsSurvive == ArchiveSpec => []AcknowledgedSurvive
<1>1. ArchiveInv => AcknowledgedSurvive
  <2> SUFFICES ASSUME ArchiveInv, NEW r \in Runs
               PROVE  Readable(journal[r]) /\ acked[r] \subseteq Range(journal[r].log)
    BY DEF AcknowledgedSurvive
  <2>1. Holds(journal[r], acked[r]) /\ journal[r].log \in Seq(Lines)
    BY DEF ArchiveInv, AtRun, RunInv, JournalShape
  <2>2. ASSUME NEW line \in acked[r] PROVE line \in Range(journal[r].log)
    <3>1. PICK i \in 1 .. Len(journal[r].log) : journal[r].log[i] = line
      BY <2>1, <2>2 DEF Holds
    <3>2. i \in DOMAIN journal[r].log
      BY <2>1
    <3> QED
      BY <3>1, <3>2 DEF Range
  <2> QED
    BY <2>1, <2>2 DEF Holds
<1> QED
  BY <1>1, ArchiveStart, ArchiveSteps, PTL DEF ArchiveSpec

\* A deletion never has in its hands a run whose launcher or broker is still at work.
THEOREM DeletionsSpare == ArchiveSpec => []DeletionSparesTheLiving
<1>1. ArchiveInv => DeletionSparesTheLiving
  BY DEF ArchiveInv, DeletedInv, DeletionSparesTheLiving
<1> QED
  BY <1>1, ArchiveStart, ArchiveSteps, PTL DEF ArchiveSpec

----------------------------------------------------------------------------
(* Sequences picked from others.                                           *)

\* The numbering of a finite set of integers in its order reaches every number.
LEMMA Ranks ==
  ASSUME NEW S \in SUBSET Int, IsFiniteSet(S)
  PROVE  /\ Cardinality(S) \in Nat
         /\ \A i \in S : Cardinality({j \in S : j <= i}) \in 1 .. Cardinality(S)
         /\ \A i, k \in S : i # k =>
               Cardinality({j \in S : j <= i}) # Cardinality({j \in S : j <= k})
         /\ \A k \in 1 .. Cardinality(S) : \E i \in S : Cardinality({j \in S : j <= i}) = k
<1> DEFINE rank == [i \in S |-> Cardinality({j \in S : j <= i})]
<1>2. Cardinality(S) \in Nat
  BY FS_CardinalityType
<1>3. ASSUME NEW i \in S
      PROVE  /\ IsFiniteSet({j \in S : j <= i})
             /\ rank[i] \in 1 .. Cardinality(S)
  <2>1. /\ IsFiniteSet({j \in S : j <= i})
        /\ Cardinality({j \in S : j <= i}) <= Cardinality(S)
    BY FS_Subset
  <2>2. Cardinality({j \in S : j <= i}) \in Nat
    BY <2>1, FS_CardinalityType
  <2>3. i \in {j \in S : j <= i}
    OBVIOUS
  <2>4. Cardinality({j \in S : j <= i}) # 0
    BY <2>1, <2>3, FS_EmptySet
  <2> QED BY <1>2, <2>1, <2>2, <2>4
<1>4. ASSUME NEW i \in S, NEW k \in S, i < k
      PROVE  rank[i] # rank[k]
  <2>1. \A j \in S : j <= i => j <= k
    BY <1>4
  <2>2. {j \in S : j <= i} \in SUBSET {j \in S : j <= k}
    BY <2>1
  <2>3. k \in {j \in S : j <= k} /\ k \notin {j \in S : j <= i}
    BY <1>4
  <2> QED BY <1>3, <2>2, <2>3, FS_Subset
<1>5. rank \in [S -> 1 .. Cardinality(S)]
  BY <1>3
<1>6. \A i, k \in S : rank[i] = rank[k] => i = k
  <2> SUFFICES ASSUME NEW i \in S, NEW k \in S, rank[i] = rank[k], i # k PROVE FALSE
    OBVIOUS
  <2>1. i \in Int /\ k \in Int
    OBVIOUS
  <2>2. i < k \/ k < i
    BY <2>1
  <2> HIDE DEF rank
  <2> QED BY <1>4, <2>2
<1>7. rank \in Injection(S, 1 .. Cardinality(S))
  <2> HIDE DEF rank
  <2> QED BY <1>5, <1>6 DEF Injection, IsInjective
<1>8. /\ IsFiniteSet(1 .. Cardinality(S))
      /\ Cardinality(1 .. Cardinality(S)) = Cardinality(S)
  BY <1>2, FS_Interval
<1>9. rank \in Surjection(S, 1 .. Cardinality(S))
  <2> HIDE DEF rank
  <2> QED BY <1>7, <1>8, FS_Injection
<1>10. \A k \in 1 .. Cardinality(S) : \E i \in S : rank[i] = k
  <2> HIDE DEF rank
  <2> QED BY <1>9 DEF Surjection
<1> QED BY <1>2, <1>3, <1>6, <1>10

LEMMA Ranked ==
  ASSUME NEW n \in Nat, NEW ix \in SUBSET (1 .. n)
  PROVE  /\ IsFiniteSet(ix) /\ Cardinality(ix) \in Nat /\ Cardinality(ix) <= n
         /\ \A k \in 1 .. Cardinality(ix) :
               \E i \in ix : Cardinality({j \in ix : j <= i}) = k
<1>1. IsFiniteSet(1 .. n) /\ Cardinality(1 .. n) = n
  BY FS_Interval
<1>2. IsFiniteSet(ix) /\ Cardinality(ix) \in Nat /\ Cardinality(ix) <= n
  BY <1>1, FS_Subset, FS_CardinalityType
<1>3. ix \in SUBSET Int
  OBVIOUS
<1> QED
  BY <1>2, <1>3, Ranks

\* What is picked from a sequence: as many items as indices, each at one of them, and
\* no index twice.
LEMMA PickedItems ==
  ASSUME NEW S, NEW items \in Seq(S), NEW ix \in SUBSET (DOMAIN items)
  PROVE  /\ Picked(items, ix) \in Seq(S)
         /\ Len(Picked(items, ix)) = Cardinality(ix)
         /\ Cardinality(ix) \in Nat /\ Cardinality(ix) <= Len(items)
         /\ ix # {} <=> Cardinality(ix) # 0
         /\ \E at \in [1 .. Cardinality(ix) -> ix] :
               /\ \A k \in 1 .. Cardinality(ix) : Picked(items, ix)[k] = items[at[k]]
               /\ \A k, l \in 1 .. Cardinality(ix) : at[k] = at[l] => k = l
               /\ \A i \in ix : \E k \in 1 .. Cardinality(ix) : at[k] = i
<1> DEFINE at == [k \in 1 .. Cardinality(ix) |->
                    CHOOSE i \in ix : Cardinality({j \in ix : j <= i}) = k]
<1>1. Len(items) \in Nat /\ DOMAIN items = 1 .. Len(items)
  BY LenProperties
<1>2. /\ IsFiniteSet(ix) /\ Cardinality(ix) \in Nat /\ Cardinality(ix) <= Len(items)
      /\ \A k \in 1 .. Cardinality(ix) :
               \E i \in ix : Cardinality({j \in ix : j <= i}) = k
  BY <1>1, Ranked
<1>3. \A k \in 1 .. Cardinality(ix) :
         at[k] \in ix /\ Cardinality({j \in ix : j <= at[k]}) = k
  BY <1>2
<1>4. at \in [1 .. Cardinality(ix) -> ix]
  BY <1>3
<1>5. \A k, l \in 1 .. Cardinality(ix) : at[k] = at[l] => k = l
  <2> HIDE DEF at
  <2> QED BY <1>3
<1>6. Picked(items, ix) = [k \in 1 .. Cardinality(ix) |-> items[at[k]]]
  BY DEF Picked
<1> HIDE DEF at
<1>7. \A k \in 1 .. Cardinality(ix) : items[at[k]] \in S
  BY <1>1, <1>4, ElementOfSeq
<1>8. Picked(items, ix) \in Seq(S) /\ Len(Picked(items, ix)) = Cardinality(ix)
  BY <1>2, <1>6, <1>7, IsASeq
<1>9. ix # {} <=> Cardinality(ix) # 0
  BY <1>2, FS_EmptySet
<1>10. \A i \in ix : \E k \in 1 .. Cardinality(ix) : at[k] = i
  <2>1. at \in Injection(1 .. Cardinality(ix), ix)
    BY <1>4, <1>5 DEF Injection, IsInjective
  <2>2. Cardinality(1 .. Cardinality(ix)) = Cardinality(ix)
    BY <1>2, FS_Interval
  <2>3. at \in Surjection(1 .. Cardinality(ix), ix)
    BY <1>2, <2>1, <2>2, FS_Injection
  <2> QED BY <2>3 DEF Surjection
<1> QED BY <1>2, <1>4, <1>5, <1>6, <1>8, <1>9, <1>10

\* A set of indices has a least one.
LEMMA LeastIndex ==
  ASSUME NEW n \in Nat, NEW ix \in SUBSET (1 .. n), ix # {}
  PROVE  \E i \in ix : \A j \in ix : i <= j
<1>1. IsFiniteSet(ix) /\ Cardinality(ix) \in Nat /\ Cardinality(ix) # 0
  BY Ranked, FS_EmptySet
<1>2. 1 \in 1 .. Cardinality(ix)
  BY <1>1
<1>3. PICK i \in ix : Cardinality({j \in ix : j <= i}) = 1
  BY <1>2, Ranked
<1>4. IsFiniteSet({j \in ix : j <= i})
  BY <1>1, FS_Subset
<1>5. \A j \in {j \in ix : j <= i} : j = i
  <2>1. PICK x : {j \in ix : j <= i} = {x}
    BY <1>3, <1>4, FS_Singleton
  <2>2. i \in {j \in ix : j <= i}
    OBVIOUS
  <2> QED BY <2>1, <2>2
<1> QED BY <1>5

----------------------------------------------------------------------------
(* Definitions and their installation.                                     *)

Conditions == {p[2] : p \in Places}
DefinitionSet == [id : Nat, owner : {"cli", "editor"}, kind : {"breakpoint", "tracepoint"},
                  spot : Spots, cond : Conditions, scope : Int]
Clients == {Own, Foreign, Nowhere}
Points == [client : Clients, cond : Conditions, ok : BOOLEAN]

\* The store holds one definition of each identity.
OneEach(items) ==
    /\ items \in Seq(DefinitionSet) /\ Len(items) <= MaxDefinitions
    /\ \A i, j \in DOMAIN items : items[i].id = items[j].id => i = j

AskedBy(items, run, s) ==
    {d.cond : d \in {e \in Range(items) : e.spot = s /\ Active(e, run)}}
OtherConds(pts, s) == {p.cond : p \in Range(OthersAt(pts, s))}

LEMMA RequestsOf ==
  ASSUME NEW items, OneEach(items), NEW run, NEW s
  PROVE  /\ Requests(items, run, s) \in Seq(AskedBy(items, run, s))
         /\ Requests(items, run, s) = <<>> <=> AskedBy(items, run, s) = {}
<1> DEFINE asking == {i \in DOMAIN items : items[i].spot = s /\ Active(items[i], run)}
           first == {i \in asking : \A j \in asking : j < i => items[j].cond # items[i].cond}
           asked == Picked(items, first)
           Asking == {items[i] : i \in asking}
<1>1. items \in Seq(DefinitionSet) /\ DOMAIN items = 1 .. Len(items) /\ Len(items) \in Nat
  BY LenProperties DEF OneEach
<1>2. Asking = {e \in Range(items) : e.spot = s /\ Active(e, run)}
  BY DEF Range
<1>3. first \in SUBSET DOMAIN items
  OBVIOUS
<1>4. /\ asked \in Seq(DefinitionSet) /\ Len(asked) = Cardinality(first)
      /\ Cardinality(first) \in Nat
      /\ first # {} <=> Cardinality(first) # 0
      /\ \E at \in [1 .. Cardinality(first) -> first] :
            \A k \in 1 .. Cardinality(first) : asked[k] = items[at[k]]
  <2> HIDE DEF first
  <2> QED BY <1>1, <1>3, PickedItems
<1>5. DOMAIN asked = 1 .. Cardinality(first)
  <2> HIDE DEF asked, first
  <2> QED BY <1>4, LenProperties
<1>6. Requests(items, run, s) = [k \in 1 .. Cardinality(first) |-> asked[k].cond]
  BY <1>5 DEF Requests
<1>7. \A k \in 1 .. Cardinality(first) : asked[k].cond \in AskedBy(items, run, s)
  <2>1. PICK at \in [1 .. Cardinality(first) -> first] :
            \A k \in 1 .. Cardinality(first) : asked[k] = items[at[k]]
    BY <1>4
  <2>2. \A i \in first : items[i] \in Asking
    OBVIOUS
  <2>3. \A k \in 1 .. Cardinality(first) : asked[k] \in Asking
    <3> HIDE DEF asked, first, Asking
    <3> QED BY <2>1, <2>2
  <2> HIDE DEF asked, first, Asking
  <2> QED BY <1>2, <2>3 DEF AskedBy
<1>8. Requests(items, run, s) \in Seq(AskedBy(items, run, s))
  <2> HIDE DEF asked, first
  <2> QED BY <1>4, <1>6, <1>7, IsASeq
<1>9. Len(Requests(items, run, s)) = Cardinality(first)
  <2> HIDE DEF asked, first
  <2> QED BY <1>4, <1>6, <1>7, IsASeq
<1>10. asking # {} => first # {}
  <2> SUFFICES ASSUME asking # {} PROVE first # {}
    OBVIOUS
  <2>1. asking \in SUBSET (1 .. Len(items))
    BY <1>1
  <2>2. PICK i \in asking : \A j \in asking : i <= j
    <3> HIDE DEF asking
    <3> QED BY <1>1, <2>1, LeastIndex
  <2>3. \A j \in asking : ~(j < i)
    BY <2>1, <2>2
  <2> QED BY <2>2, <2>3
<1>11. asking # {} <=> AskedBy(items, run, s) # {}
  BY <1>2 DEF AskedBy
<1>12. first # {} => asking # {}
  OBVIOUS
<1>13. Requests(items, run, s) = <<>> <=> Cardinality(first) = 0
  <2> HIDE DEF asked, first
  <2> QED BY <1>4, <1>8, <1>9, EmptySeq
<1> QED BY <1>4, <1>8, <1>10, <1>11, <1>12, <1>13

LEMMA OthersOf ==
  ASSUME NEW pts \in [Spots -> Seq(Points)], NEW s \in Spots
  PROVE  /\ OthersAt(pts, s) \in Seq(Points)
         /\ Range(OthersAt(pts, s)) = {p \in Range(pts[s]) : p.client # Own}
<1> DEFINE ix == {i \in DOMAIN pts[s] : pts[s][i].client # Own}
<1>1. pts[s] \in Seq(Points) /\ ix \in SUBSET DOMAIN pts[s]
  OBVIOUS
<1>2. OthersAt(pts, s) = Picked(pts[s], ix)
  BY DEF OthersAt
<1>3. /\ OthersAt(pts, s) \in Seq(Points)
      /\ Len(OthersAt(pts, s)) = Cardinality(ix) /\ Cardinality(ix) \in Nat
      /\ \E at \in [1 .. Cardinality(ix) -> ix] :
            /\ \A k \in 1 .. Cardinality(ix) : OthersAt(pts, s)[k] = pts[s][at[k]]
            /\ \A i \in ix : \E k \in 1 .. Cardinality(ix) : at[k] = i
  <2> HIDE DEF ix
  <2> QED BY <1>1, <1>2, PickedItems
<1>4. DOMAIN OthersAt(pts, s) = 1 .. Cardinality(ix)
  <2> HIDE DEF ix
  <2> QED BY <1>3, LenProperties
<1>5. PICK at \in [1 .. Cardinality(ix) -> ix] :
            /\ \A k \in 1 .. Cardinality(ix) : OthersAt(pts, s)[k] = pts[s][at[k]]
            /\ \A i \in ix : \E k \in 1 .. Cardinality(ix) : at[k] = i
  BY <1>3
<1>6. {p \in Range(pts[s]) : p.client # Own} = {pts[s][i] : i \in ix}
  BY DEF Range
<1>7. Range(OthersAt(pts, s)) = {pts[s][i] : i \in ix}
  <2> HIDE DEF ix
  <2> QED BY <1>4, <1>5 DEF Range
<1> QED BY <1>3, <1>6, <1>7

LEMMA FirstOf ==
  ASSUME NEW seq \in Seq(Points)
  PROVE  \/ seq = <<>> /\ FirstCond(seq) = Nowhere /\ Range(seq) = {}
         \/ seq # <<>> /\ \E p \in Range(seq) : FirstCond(seq) = p.cond
<1>1. CASE seq = <<>>
  BY <1>1 DEF FirstCond, Range
<1>2. CASE seq # <<>>
  <2>1. Head(seq) = seq[1] /\ 1 \in DOMAIN seq
    BY <1>2
  <2> QED BY <1>2, <2>1 DEF FirstCond, Range
<1> QED BY <1>1, <1>2

LEMMA MergedOf ==
  ASSUME NEW pts \in [Spots -> Seq(Points)], NEW s \in Spots,
         NEW C \in SUBSET Conditions, NEW conds \in Seq(C)
  PROVE  /\ Merged(pts, s, conds) \in Seq(Points)
         /\ \A p \in Range(Merged(pts, s, conds)) : p.client = Own => p.cond \in C
         /\ conds # <<>> => Merged(pts, s, conds) # <<>>
<1> DEFINE others == OthersAt(pts, s)
           n == Len(others) + Len(conds)
           m == Merged(pts, s, conds)
<1>1. others \in Seq(Points) /\ \A p \in Range(others) : p.client # Own
  BY OthersOf
<1>2. Len(others) \in Nat /\ Len(conds) \in Nat /\ n \in Nat
  BY <1>1, LenProperties
<1>3. m = [i \in 1 .. n |->
        IF i <= Len(others) THEN [others[i] EXCEPT !.ok = (i = 1)]
        ELSE [client |-> Own, cond |-> conds[i - Len(others)], ok |-> (i = 1)]]
  BY DEF Merged
<1> HIDE DEF others, m
<1>4. ASSUME NEW i \in 1 .. n
      PROVE  m[i] \in Points /\ (m[i].client = Own => m[i].cond \in C)
  <2>1. CASE i <= Len(others)
    <3>1. i \in DOMAIN others /\ others[i] \in Points
      BY <1>1, <1>2, <2>1, LenProperties, ElementOfSeq
    <3>2. others[i].client # Own
      BY <1>1, <3>1 DEF Range
    <3>3. m[i] = [others[i] EXCEPT !.ok = (i = 1)]
      BY <1>3, <2>1
    <3> QED BY <3>1, <3>2, <3>3 DEF Points
  <2>2. CASE ~(i <= Len(others))
    <3>1. i - Len(others) \in 1 .. Len(conds)
      BY <1>2, <2>2
    <3>2. conds[i - Len(others)] \in C
      BY <3>1, ElementOfSeq
    <3>3. m[i] = [client |-> Own, cond |-> conds[i - Len(others)], ok |-> (i = 1)]
      BY <1>3, <2>2
    <3>4. [client |-> Own, cond |-> conds[i - Len(others)], ok |-> (i = 1)] \in Points
      <4>1. conds[i - Len(others)] \in Conditions
        BY <3>2
      <4>2. \A c \in Conditions, b \in BOOLEAN :
                [client |-> Own, cond |-> c, ok |-> b] \in Points
        BY DEF Points, Clients
      <4>3. (i = 1) \in BOOLEAN
        OBVIOUS
      <4> QED BY <4>1, <4>2, <4>3, Zenon
    <3> QED BY <3>2, <3>3, <3>4
  <2> QED BY <2>1, <2>2
<1>5. DOMAIN m = 1 .. n
  BY <1>3
<1>6. m \in Seq(Points)
  <2>1. m = [i \in 1 .. n |-> m[i]]
    BY <1>3, Zenon
  <2> QED BY <1>2, <1>4, <2>1, IsASeq
<1>7. \A p \in Range(m) : p.client = Own => p.cond \in C
  BY <1>4, <1>5 DEF Range
<1>8. conds # <<>> => m # <<>>
  <2> SUFFICES ASSUME conds # <<>> PROVE m # <<>>
    OBVIOUS
  <2>1. Len(conds) # 0
    BY EmptySeq
  <2>2. 1 \in DOMAIN m
    BY <1>2, <1>5, <2>1
  <2> QED BY <2>2
<1> QED BY <1>6, <1>7, <1>8 DEF m

\* What the adapter has of a spot that the last reconciliation took care of: its own
\* points are asked for, and where something is asked for it has a point.
Followed(items, run, pts, inst, s) ==
    /\ \A p \in Range(pts[s]) : p.client = Own => p.cond \in AskedBy(items, run, s)
    /\ AskedBy(items, run, s) # {} => pts[s] # <<>> /\ inst[s] = FirstCond(pts[s])

InstallType ==
    /\ OneEach(store) /\ OneEach(storeSaved)
    /\ ownersSaved \in [Spots -> Clients]
    /\ points \in [Spots -> Seq(Points)]
    /\ installed \in [Spots -> Conditions \union {Nowhere}]
    /\ targetRun \in Nat /\ connected \in BOOLEAN
    /\ settled \in BOOLEAN /\ answerLost \in BOOLEAN

\* The attribution is that of the installation, of which nothing is unknown unless an
\* answer was lost.
InstallInv ==
    /\ InstallType
    /\ answerLost \/ \A s \in Spots : installed[s] = FirstCond(points[s])
    /\ \/ resolutions = {}
       \/ settled /\ resolutions = Resolved(store, targetRun, points)
    /\ settled => \A s \in Spots : Followed(store, targetRun, points, installed, s)

LEMMA RequestedOf ==
  ASSUME NEW items, OneEach(items), NEW run, NEW s
  PROVE  AskedBy(items, run, s) \in SUBSET Conditions
<1>1. Range(items) \subseteq DefinitionSet
  BY LenProperties, ElementOfSeq DEF OneEach, Range
<1> QED BY <1>1 DEF AskedBy, DefinitionSet

\* What a reconciliation leaves, whether it is completed or not.
LEMMA Reconciled ==
  ASSUME DefinitionsAssumption, NEW items, OneEach(items), NEW run,
         NEW pts \in [Spots -> Seq(Points)],
         installed \in [Spots -> Conditions \union {Nowhere}],
         answerLost \in BOOLEAN,
         answerLost \/ \A s \in Spots : installed[s] = FirstCond(pts[s]),
         NEW cost, Reconcile(items, run, pts, cost)
  PROVE  /\ points' \in [Spots -> Seq(Points)]
         /\ installed' \in [Spots -> Conditions \union {Nowhere}]
         /\ settled' \in BOOLEAN /\ answerLost' \in BOOLEAN
         /\ answerLost' \/ \A s \in Spots : installed'[s] = FirstCond(points'[s])
         /\ \/ resolutions' = {}
            \/ settled' /\ resolutions' = Resolved(items, run, points')
         /\ settled' => \A s \in Spots : Followed(items, run, points', installed', s)
<1> DEFINE new == [s \in Spots |-> Merged(pts, s, Requests(items, run, s))]
<1>1. PICK failed \in Files(items, pts) \cup {-1}, applied \in BOOLEAN :
          LET done == {s \in Files(items, pts) : failed = -1 \/ s < failed}
          IN  /\ applied => failed # -1
              /\ points' = [s \in Spots |-> IF s \in done THEN new[s] ELSE pts[s]]
              /\ installed' = [s \in Spots |->
                    IF s \in done \/ (applied /\ s = failed) THEN FirstCond(new[s])
                    ELSE installed[s]]
              /\ resolutions' = IF failed = -1 THEN Resolved(items, run, points')
                                ELSE Unresolved
              /\ settled' = (failed = -1)
              /\ answerLost' = (answerLost \/ applied)
  BY Zenon DEF Reconcile
<1> DEFINE done == {s \in Files(items, pts) : failed = -1 \/ s < failed}
<1>2. ASSUME NEW s \in Spots
      PROVE  /\ new[s] \in Seq(Points)
             /\ \A p \in Range(new[s]) : p.client = Own => p.cond \in AskedBy(items, run, s)
             /\ AskedBy(items, run, s) # {} => new[s] # <<>>
             /\ FirstCond(new[s]) \in Conditions \union {Nowhere}
  <2>1. new[s] = Merged(pts, s, Requests(items, run, s))
    OBVIOUS
  <2>2. /\ Requests(items, run, s) \in Seq(AskedBy(items, run, s))
        /\ Requests(items, run, s) = <<>> <=> AskedBy(items, run, s) = {}
    BY RequestsOf
  <2>3. AskedBy(items, run, s) \in SUBSET Conditions
    BY RequestedOf
  <2> HIDE DEF new
  <2>4. /\ new[s] \in Seq(Points)
        /\ \A p \in Range(new[s]) : p.client = Own => p.cond \in AskedBy(items, run, s)
        /\ Requests(items, run, s) # <<>> => new[s] # <<>>
    BY <2>1, <2>2, <2>3, MergedOf
  <2>5. FirstCond(new[s]) \in Conditions \union {Nowhere}
    <3>1. \A p \in Range(new[s]) : p.cond \in Conditions
      <4>1. Range(new[s]) \in SUBSET Points
        BY <2>4, RangeOfSeq
      <4> QED BY <4>1 DEF Points
    <3> QED BY <2>4, <3>1, FirstOf
  <2> QED BY <2>2, <2>4, <2>5
<1>3. /\ points' = [s \in Spots |-> IF s \in done THEN new[s] ELSE pts[s]]
      /\ installed' = [s \in Spots |->
            IF s \in done \/ (applied /\ s = failed) THEN FirstCond(new[s])
            ELSE installed[s]]
  BY <1>1
<1> HIDE DEF new
<1>4. failed = -1 => done = Files(items, pts)
  OBVIOUS
<1>5. ~applied => \A s \in Spots : s \in done \/ (applied /\ s = failed) <=> s \in done
  OBVIOUS
<1> HIDE DEF done
<1>6. points' \in [Spots -> Seq(Points)]
  BY <1>2, <1>3
<1>7. installed' \in [Spots -> Conditions \union {Nowhere}]
  BY <1>2, <1>3
<1>8. answerLost' \/ \A s \in Spots : installed'[s] = FirstCond(points'[s])
  BY <1>1, <1>3, <1>5
<1>9. ASSUME failed = -1, NEW s \in Spots
      PROVE  Followed(items, run, points', installed', s)
  <2>1. CASE s \in Files(items, pts)
    <3>1. points'[s] = new[s] /\ installed'[s] = FirstCond(new[s])
      BY <1>3, <1>4, <1>9, <2>1
    <3> QED BY <1>2, <3>1 DEF Followed
  <2>2. CASE s \notin Files(items, pts)
    <3>1. points'[s] = pts[s]
      BY <1>3, <1>4, <1>9, <2>2
    <3>2. ~\E p \in Range(pts[s]) : p.client = Own
      BY <2>2 DEF Files
    <3>3. AskedBy(items, run, s) = {}
      BY <2>2 DEF Files, AskedBy
    <3> QED BY <3>1, <3>2, <3>3 DEF Followed
  <2> QED BY <2>1, <2>2
<1> QED BY <1>1, <1>6, <1>7, <1>8, <1>9 DEF Unresolved

LEMMA InstallStarts == DefinitionsInit => InstallInv
<1> SUFFICES ASSUME DefinitionsInit PROVE InstallInv
  OBVIOUS
<1>1. DefinitionsAssumption
  BY DefinitionsAssumption
<1>2. OneEach(<<>>)
  BY <1>1 DEF OneEach, DefinitionsAssumption
<1>3. InstallType
  <2>1. /\ ownersSaved \in [Spots -> Clients]
        /\ installed \in [Spots -> Conditions \union {Nowhere}]
    BY DEF DefinitionsInit, Clients
  <2>2. points \in [Spots -> Seq(Points)]
    BY DEF DefinitionsInit
  <2>3. OneEach(store) /\ OneEach(storeSaved)
    BY <1>2 DEF DefinitionsInit
  <2>4. /\ targetRun \in Nat /\ connected \in BOOLEAN
        /\ settled \in BOOLEAN /\ answerLost \in BOOLEAN
    BY DEF DefinitionsInit
  <2> QED BY <2>1, <2>2, <2>3, <2>4 DEF InstallType
<1>4. \A s \in Spots : installed[s] = FirstCond(points[s])
  BY DEF DefinitionsInit, FirstCond
<1>5. Range(<<>>) = {}
  BY DEF Range
<1>6. \A s \in Spots : Followed(store, targetRun, points, installed, s)
  BY <1>5 DEF DefinitionsInit, Followed, AskedBy
<1> QED BY <1>3, <1>4, <1>6 DEF InstallInv, DefinitionsInit

LEMMA OwnersOf ==
  ASSUME NEW pts \in [Spots -> Seq(Points)]
  PROVE  Owners(pts) \in [Spots -> Clients]
<1> SUFFICES ASSUME NEW s \in Spots, pts[s] # <<>> PROVE Head(pts[s]).client \in Clients
  BY DEF Owners, Clients
<1>1. Head(pts[s]) \in Points
  <2>1. pts[s] \in Seq(Points)
    OBVIOUS
  <2> QED BY <2>1
<1> QED BY <1>1 DEF Points

LEMMA PickedStore ==
  ASSUME NEW items, OneEach(items), NEW ix \in SUBSET DOMAIN items
  PROVE  /\ OneEach(Picked(items, ix))
         /\ \A i \in DOMAIN Picked(items, ix) : \E j \in ix : Picked(items, ix)[i] = items[j]
<1>1. /\ items \in Seq(DefinitionSet) /\ Len(items) <= MaxDefinitions /\ Len(items) \in Nat
      /\ \A i, j \in DOMAIN items : items[i].id = items[j].id => i = j
  BY LenProperties DEF OneEach
<1>2. /\ Picked(items, ix) \in Seq(DefinitionSet)
      /\ Len(Picked(items, ix)) = Cardinality(ix)
      /\ Cardinality(ix) \in Nat /\ Cardinality(ix) <= Len(items)
  BY <1>1, PickedItems
<1>3. PICK at \in [1 .. Cardinality(ix) -> ix] :
         /\ \A k \in 1 .. Cardinality(ix) : Picked(items, ix)[k] = items[at[k]]
         /\ \A k, l \in 1 .. Cardinality(ix) : at[k] = at[l] => k = l
  BY SMTT(30), <1>1, PickedItems
<1>4. DOMAIN Picked(items, ix) = 1 .. Cardinality(ix)
  BY <1>2, LenProperties
<1>5. \A i \in DOMAIN Picked(items, ix) : at[i] \in ix /\ Picked(items, ix)[i] = items[at[i]]
  BY <1>3, <1>4
<1>6. \A i, j \in DOMAIN Picked(items, ix) :
         Picked(items, ix)[i].id = Picked(items, ix)[j].id => i = j
  BY <1>1, <1>3, <1>4, <1>5
<1>7. Len(Picked(items, ix)) <= MaxDefinitions
  BY <1>1, <1>2, DefinitionsAssumption DEF DefinitionsAssumption
<1> QED BY <1>2, <1>5, <1>6, <1>7 DEF OneEach

LEMMA AppendedStore ==
  ASSUME NEW items, OneEach(items), Len(items) < MaxDefinitions, NEW d \in DefinitionSet,
         \A i \in DOMAIN items : items[i].id # d.id
  PROVE  OneEach(Append(items, d))
<1>1. /\ items \in Seq(DefinitionSet) /\ Len(items) \in Nat /\ DOMAIN items = 1 .. Len(items)
      /\ \A i, j \in DOMAIN items : items[i].id = items[j].id => i = j
  BY LenProperties DEF OneEach
<1> DEFINE more == Append(items, d)
<1>2. /\ more \in Seq(DefinitionSet) /\ Len(more) = Len(items) + 1
      /\ \A i \in 1 .. Len(items) : more[i] = items[i]
      /\ more[Len(items) + 1] = d
  BY <1>1, AppendProperties
<1>3. DOMAIN more = 1 .. Len(items) + 1
  BY <1>1, <1>2, LenProperties
<1> HIDE DEF more
<1>4. \A i \in DOMAIN more : \/ i \in DOMAIN items /\ more[i] = items[i]
                             \/ i = Len(items) + 1
  BY <1>1, <1>2, <1>3
<1>5. \A i, j \in DOMAIN more : more[i].id = more[j].id => i = j
  BY <1>1, <1>2, <1>4
<1>6. Len(more) <= MaxDefinitions
  BY <1>1, <1>2, DefinitionsAssumption DEF DefinitionsAssumption
<1> QED BY <1>2, <1>5, <1>6 DEF OneEach, more

LEMMA FreshIdentity ==
  ASSUME OneEach(store)
  PROVE  Fresh \in Nat /\ \A e \in Range(store) : e.id # Fresh
<1>1. /\ store \in Seq(DefinitionSet) /\ Len(store) \in Nat /\ DOMAIN store = 1 .. Len(store)
      /\ MaxDefinitions \in Nat /\ Len(store) <= MaxDefinitions
  BY LenProperties, DefinitionsAssumption DEF OneEach, DefinitionsAssumption
<1>2. \E id \in 1 .. MaxDefinitions + 1 : \A e \in Range(store) : e.id # id
  <2> SUFFICES ASSUME \A id \in 1 .. MaxDefinitions + 1 : \E e \in Range(store) : e.id = id
               PROVE  FALSE
    OBVIOUS
  <2>1. \A id \in 1 .. MaxDefinitions + 1 : \E i \in 1 .. Len(store) : store[i].id = id
    BY <1>1 DEF Range
  <2> DEFINE at == [id \in 1 .. MaxDefinitions + 1 |->
                      CHOOSE i \in 1 .. Len(store) : store[i].id = id]
  <2>2. \A id \in 1 .. MaxDefinitions + 1 : at[id] \in 1 .. Len(store) /\ store[at[id]].id = id
    BY <2>1
  <2>3. at \in [1 .. MaxDefinitions + 1 -> 1 .. Len(store)]
    BY <2>2
  <2>4. \A n \in Nat : IsFiniteSet(1 .. n) /\ Cardinality(1 .. n) = n
    <3> TAKE n \in Nat
    <3>1. 1 \in Int /\ n \in Int
      OBVIOUS
    <3>2. IsFiniteSet(1 .. n) /\ Cardinality(1 .. n) = IF 1 > n THEN 0 ELSE n - 1 + 1
      BY <3>1, FS_Interval
    <3> QED BY <3>2
  <2> DEFINE Wanted == 1 .. MaxDefinitions + 1
             Held == 1 .. Len(store)
  <2>5. /\ IsFiniteSet(Wanted) /\ IsFiniteSet(Held)
        /\ Cardinality(Held) < Cardinality(Wanted)
    <3>1. MaxDefinitions + 1 \in Nat
      BY <1>1
    <3>2. Cardinality(Wanted) = MaxDefinitions + 1 /\ Cardinality(Held) = Len(store)
      BY <1>1, <2>4, <3>1
    <3>3. IsFiniteSet(Wanted) /\ IsFiniteSet(Held)
      BY <1>1, <2>4, <3>1
    <3> QED BY <1>1, <3>2, <3>3
  <2> HIDE DEF at
  <2>6. \E x, y \in Wanted : x # y /\ at[x] = at[y]
    <3>1. at \in [Wanted -> Held]
      BY <2>3
    <3> HIDE DEF Wanted, Held
    <3> QED BY <2>5, <3>1, FS_PigeonHole
  <2> QED BY <2>2, <2>6
<1>3. Fresh \in 1 .. MaxDefinitions + 1 /\ \A e \in Range(store) : e.id # Fresh
  BY <1>2 DEF Fresh
<1> QED BY <1>1, <1>3

LEMMA EditSteps ==
  ASSUME InstallInv, NEW items, OneEach(items), Edit(items)
  PROVE  InstallInv'
<1>1. /\ store' = items /\ storeSaved' = items
      /\ targetRun' = targetRun /\ connected' = connected
      /\ \E cost \in {0, 1} : Reconcile(items, targetRun, points, cost)
      /\ \/ ownersSaved' = Owners(points')
         \/ ownersSaved' = Owners(points)
  BY DEF Edit
<1>2. PICK cost \in {0, 1} : Reconcile(items, targetRun, points, cost)
  BY <1>1
<1>3. /\ points' \in [Spots -> Seq(Points)]
      /\ installed' \in [Spots -> Conditions \union {Nowhere}]
      /\ settled' \in BOOLEAN /\ answerLost' \in BOOLEAN
      /\ answerLost' \/ \A s \in Spots : installed'[s] = FirstCond(points'[s])
      /\ \/ resolutions' = {}
         \/ settled' /\ resolutions' = Resolved(items, targetRun, points')
      /\ settled' => \A s \in Spots : Followed(items, targetRun, points', installed', s)
  BY <1>2, Reconciled, DefinitionsAssumption DEF InstallInv, InstallType
<1>4. ownersSaved' \in [Spots -> Clients]
  BY <1>1, <1>3, OwnersOf DEF InstallInv, InstallType
<1>5. InstallType'
  BY <1>1, <1>3, <1>4 DEF InstallInv, InstallType, OneEach
<1>6. \/ resolutions' = {}
      \/ settled' /\ resolutions' = Resolved(store, targetRun, points)'
  <2>1. Resolved(items, targetRun, points') = Resolved(store', targetRun', points')
    BY <1>1
  <2>2. Resolved(store, targetRun, points)' = Resolved(store', targetRun', points')
    BY Zenon DEF Resolved
  <2> QED BY <1>3, <2>1, <2>2
<1>7. settled' => \A s \in Spots : Followed(store, targetRun, points, installed, s)'
  BY <1>1, <1>3 DEF Followed, AskedBy
<1>8. (answerLost \/ \A s \in Spots : installed[s] = FirstCond(points[s]))'
  BY <1>3 DEF FirstCond
<1> QED BY <1>5, <1>6, <1>7, <1>8 DEF InstallInv

LEMMA PutSteps ==
  ASSUME InstallInv, NEW d \in DefinitionSet, Put(d)
  PROVE  InstallInv'
<1>1. OneEach(store) /\ store \in Seq(DefinitionSet) /\ DOMAIN store = 1 .. Len(store)
  BY LenProperties DEF InstallInv, InstallType, OneEach
<1>2. CASE \E e \in Range(store) : e.id = d.id
  <2> DEFINE items == [i \in DOMAIN store |-> IF store[i].id = d.id THEN d ELSE store[i]]
  <2>1. Edit(items)
    BY <1>2 DEF Put
  <2>2. /\ items \in Seq(DefinitionSet) /\ Len(items) = Len(store)
        /\ DOMAIN items = DOMAIN store
    <3>1. \A i \in 1 .. Len(store) : items[i] \in DefinitionSet
      BY <1>1, ElementOfSeq
    <3>2. items = [i \in 1 .. Len(store) |-> items[i]]
      BY <1>1, Zenon
    <3>3. Len(store) \in Nat
      BY <1>1, LenProperties
    <3>4. items \in Seq(DefinitionSet)
      <4> HIDE DEF items
      <4> QED BY <3>1, <3>2, <3>3, IsASeq
    <3>5. DOMAIN items = 1 .. Len(store)
      BY <1>1
    <3>6. Len(items) = Len(store)
      <4> HIDE DEF items
      <4> QED BY <3>3, <3>4, <3>5, LenProperties
    <3> QED BY <1>1, <3>4, <3>5, <3>6
  <2>3. \A i \in DOMAIN items : items[i].id = store[i].id
    OBVIOUS
  <2> HIDE DEF items
  <2>4. OneEach(items)
    BY <1>1, <2>2, <2>3 DEF OneEach
  <2> QED BY <2>1, <2>4, EditSteps
<1>3. CASE ~\E e \in Range(store) : e.id = d.id
  <2>1. Len(store) < MaxDefinitions /\ Edit(Append(store, d))
    BY <1>3 DEF Put
  <2>2. \A i \in DOMAIN store : store[i].id # d.id
    BY <1>3 DEF Range
  <2>3. OneEach(Append(store, d))
    BY <1>1, <2>1, <2>2, AppendedStore
  <2> QED BY <2>1, <2>3, EditSteps
<1> QED BY <1>2, <1>3

LEMMA DeleteSteps ==
  ASSUME InstallInv, NEW id, DeleteDefinition(id)
  PROVE  InstallInv'
<1> DEFINE ix == {i \in DOMAIN store : store[i].id # id}
<1>1. OneEach(store)
  BY DEF InstallInv, InstallType
<1>2. Edit(Picked(store, ix)) /\ ix \in SUBSET DOMAIN store
  BY DEF DeleteDefinition
<1> HIDE DEF ix
<1> QED BY <1>1, <1>2, PickedStore, EditSteps

LEMMA EditorSteps ==
  ASSUME InstallInv, NEW s \in Spots, NEW cond \in Conditions \union {Nowhere},
         EditorReplaces(s, cond)
  PROVE  InstallInv'
<1> DEFINE old(e) == e.owner = "editor" /\ e.spot = s
           ix == {i \in DOMAIN store : ~old(store[i])}
           kept == Picked(store, ix)
           id == IF \E e \in Range(store) : old(e)
                 THEN (CHOOSE e \in Range(store) : old(e)).id ELSE Fresh
           d == [id |-> id, owner |-> "editor", kind |-> "breakpoint",
                 spot |-> s, cond |-> cond, scope |-> 0]
<1>1. /\ cond # Nowhere => Len(kept) < MaxDefinitions
      /\ Edit(IF cond = Nowhere THEN kept ELSE Append(kept, d))
  BY DEF EditorReplaces
<1>2. /\ OneEach(store) /\ store \in Seq(DefinitionSet) /\ ix \in SUBSET DOMAIN store
      /\ \A i, j \in DOMAIN store : store[i].id = store[j].id => i = j
  BY DEF InstallInv, InstallType, OneEach
<1>3. /\ OneEach(kept)
      /\ \A i \in DOMAIN kept : \E j \in ix : kept[i] = store[j]
  <2> HIDE DEF ix
  <2> QED BY <1>2, PickedStore
<1>4. CASE cond = Nowhere
  <2> HIDE DEF kept
  <2> QED BY <1>1, <1>3, <1>4, EditSteps
<1>5. CASE cond # Nowhere
  <2>1. id \in Nat /\ \A j \in ix : store[j].id # id
    <3>1. CASE \E e \in Range(store) : old(e)
      <4>1. PICK i \in DOMAIN store : id = store[i].id /\ old(store[i])
        <5>1. (CHOOSE e \in Range(store) : old(e)) \in Range(store)
              /\ old(CHOOSE e \in Range(store) : old(e))
          BY <3>1, Zenon
        <5> QED BY <3>1, <5>1 DEF Range
      <4>2. store[i] \in DefinitionSet
        BY <1>2, LenProperties, ElementOfSeq
      <4>3. \A j \in ix : store[j].id # store[i].id
        BY <1>2, <4>1
      <4>4. store[i].id \in Nat
        BY <4>2 DEF DefinitionSet
      <4> HIDE DEF id, ix
      <4> QED BY <4>1, <4>3, <4>4
    <3>2. CASE ~\E e \in Range(store) : old(e)
      <4>1. id = Fresh
        BY <3>2
      <4>2. Fresh \in Nat /\ \A e \in Range(store) : e.id # Fresh
        BY <1>2, FreshIdentity
      <4>3. \A j \in ix : store[j] \in Range(store)
        BY DEF Range
      <4> HIDE DEF id, ix
      <4> QED BY <4>1, <4>2, <4>3
    <3> QED BY <3>1, <3>2
  <2>2. d \in DefinitionSet
    <3> HIDE DEF id
    <3> QED BY <1>5, <2>1 DEF DefinitionSet
  <2>3. d.id = id
    OBVIOUS
  <2>4. Edit(Append(kept, d)) /\ Len(kept) < MaxDefinitions
    BY <1>1, <1>5
  <2> HIDE DEF id, d, kept, ix
  <2>5. \A i \in DOMAIN kept : kept[i].id # d.id
    BY <1>3, <2>1, <2>3
  <2>6. OneEach(Append(kept, d))
    BY <1>3, <2>2, <2>4, <2>5, AppendedStore
  <2> QED BY <2>4, <2>6, EditSteps
<1> QED BY <1>4, <1>5

LEMMA LifetimeSteps ==
  ASSUME InstallInv, RestartTarget \/ BrokerLost \/ RecoverBroker
  PROVE  InstallInv'
<1>1. CASE RestartTarget
  <2> DEFINE ix == {i \in DOMAIN store : store[i].scope \in {Disabled, 0, targetRun + 1}}
             items == ForRun(store, targetRun + 1)
             run == targetRun + 1
  <2>1. /\ store' = items /\ connected' = connected
        /\ Reconcile(items, run, points, 0)
        /\ \/ /\ settled' /\ targetRun' = run /\ storeSaved' = items
              /\ ownersSaved' = Owners(points')
           \/ ~settled' /\ targetRun' = 0 /\ UNCHANGED <<storeSaved, ownersSaved>>
    BY <1>1 DEF RestartTarget
  <2>2. items = Picked(store, ix) /\ ix \in SUBSET DOMAIN store
    BY DEF ForRun
  <2>3. OneEach(items)
    <3> HIDE DEF ix, items
    <3> QED BY <2>2, PickedStore DEF InstallInv, InstallType
  <2>4. run \in Nat
    BY DEF InstallInv, InstallType
  <2> HIDE DEF items, run, ix
  <2>5. /\ points' \in [Spots -> Seq(Points)]
        /\ installed' \in [Spots -> Conditions \union {Nowhere}]
        /\ settled' \in BOOLEAN /\ answerLost' \in BOOLEAN
        /\ answerLost' \/ \A s \in Spots : installed'[s] = FirstCond(points'[s])
        /\ \/ resolutions' = {}
           \/ settled' /\ resolutions' = Resolved(items, run, points')
        /\ settled' => \A s \in Spots : Followed(items, run, points', installed', s)
    BY <2>1, <2>3, Reconciled, DefinitionsAssumption DEF InstallInv, InstallType
  <2>6. ownersSaved' \in [Spots -> Clients] /\ OneEach(storeSaved') /\ targetRun' \in Nat
    BY <2>1, <2>3, <2>4, <2>5, OwnersOf DEF InstallInv, InstallType
  <2>7. InstallType'
    BY <2>1, <2>3, <2>5, <2>6 DEF InstallInv, InstallType, OneEach
  <2>8. \/ resolutions' = {}
        \/ settled' /\ resolutions' = Resolved(store, targetRun, points)'
    <3>1. settled' => Resolved(items, run, points') = Resolved(store', targetRun', points')
      BY <2>1
    <3>2. Resolved(store, targetRun, points)' = Resolved(store', targetRun', points')
      BY Zenon DEF Resolved
    <3> QED BY <2>5, <3>1, <3>2
  <2>9. settled' => \A s \in Spots : Followed(store, targetRun, points, installed, s)'
    BY <2>1, <2>5 DEF Followed, AskedBy
  <2>10. (answerLost \/ \A s \in Spots : installed[s] = FirstCond(points[s]))'
    BY <2>5 DEF FirstCond
  <2> QED BY <2>7, <2>8, <2>9, <2>10 DEF InstallInv
<1>2. CASE BrokerLost
  <2>1. /\ connected' = FALSE
        /\ UNCHANGED <<store, storeSaved, ownersSaved, points, installed, resolutions,
                       targetRun, settled, answerLost>>
    BY <1>2 DEF BrokerLost
  <2>2. InstallType'
    BY <2>1 DEF InstallInv, InstallType, OneEach
  <2>3. Resolved(store, targetRun, points)' = Resolved(store, targetRun, points)
    BY <2>1 DEF Resolved
  <2>4. \A s \in Spots :
           Followed(store, targetRun, points, installed, s)
             <=> Followed(store, targetRun, points, installed, s)'
    BY <2>1 DEF Followed, AskedBy
  <2>5. answerLost' \/ \A s \in Spots : installed'[s] = FirstCond(points'[s])
    BY <2>1 DEF InstallInv
  <2>6. (answerLost \/ \A s \in Spots : installed[s] = FirstCond(points[s]))'
    BY <2>5 DEF FirstCond
  <2> QED BY <2>1, <2>2, <2>3, <2>4, <2>6 DEF InstallInv
<1>3. CASE RecoverBroker
  <2> DEFINE run == targetRun
             items == storeSaved
  <2>1. /\ store' = items /\ connected' = settled' /\ targetRun' = run
        /\ storeSaved' = storeSaved
        /\ Reconcile(items, run, Relisted, 0)
        /\ ownersSaved' \in {Owners(points'), ownersSaved}
    BY <1>3 DEF RecoverBroker
  <2>2. OneEach(items) /\ run \in Nat
    BY DEF InstallInv, InstallType
  <2>3. ASSUME NEW s \in Spots
        PROVE  Relisted[s] \in Seq(Points) /\ FirstCond(Relisted[s]) = installed[s]
    <3>1. CASE installed[s] = Nowhere
      <4>1. Relisted[s] = <<>>
        BY <3>1 DEF Relisted
      <4> QED BY <3>1, <4>1 DEF FirstCond
    <3>2. CASE installed[s] # Nowhere
      <4> DEFINE p == [client |-> IF ownersSaved[s] = Nowhere THEN Foreign
                                  ELSE ownersSaved[s],
                       cond |-> installed[s], ok |-> TRUE]
      <4>1. Relisted[s] = <<p>>
        BY <3>2 DEF Relisted
      <4>2. ownersSaved[s] \in Clients /\ installed[s] \in Conditions
        BY <3>2 DEF InstallInv, InstallType
      <4>3. p \in Points
        BY <4>2 DEF Points, Clients
      <4>4. p.cond = installed[s]
        OBVIOUS
      <4> HIDE DEF p
      <4>5. <<p>> \in Seq(Points) /\ <<p>> # <<>> /\ Head(<<p>>) = p
        BY <4>3
      <4> QED BY <4>1, <4>4, <4>5 DEF FirstCond
    <3> QED BY <3>1, <3>2
  <2>4. Relisted \in [Spots -> Seq(Points)]
    <3>1. Relisted = [s \in Spots |-> Relisted[s]]
      BY Zenon DEF Relisted
    <3> QED BY <2>3, <3>1
  <2> HIDE DEF items, run
  <2>5. /\ points' \in [Spots -> Seq(Points)]
        /\ installed' \in [Spots -> Conditions \union {Nowhere}]
        /\ settled' \in BOOLEAN /\ answerLost' \in BOOLEAN
        /\ answerLost' \/ \A s \in Spots : installed'[s] = FirstCond(points'[s])
        /\ \/ resolutions' = {}
           \/ settled' /\ resolutions' = Resolved(items, run, points')
        /\ settled' => \A s \in Spots : Followed(items, run, points', installed', s)
    BY <2>1, <2>2, <2>3, <2>4, Reconciled, DefinitionsAssumption DEF InstallInv, InstallType
  <2>6. ownersSaved' \in [Spots -> Clients]
    BY <2>1, <2>5, OwnersOf DEF InstallInv, InstallType
  <2>7. InstallType'
    BY <2>1, <2>2, <2>5, <2>6 DEF InstallInv, InstallType, OneEach
  <2>8. \/ resolutions' = {}
        \/ settled' /\ resolutions' = Resolved(store, targetRun, points)'
    <3>1. Resolved(items, run, points') = Resolved(store', targetRun', points')
      BY <2>1
    <3>2. Resolved(store, targetRun, points)' = Resolved(store', targetRun', points')
      BY Zenon DEF Resolved
    <3> QED BY <2>5, <3>1, <3>2
  <2>9. settled' => \A s \in Spots : Followed(store, targetRun, points, installed, s)'
    BY <2>1, <2>5 DEF Followed, AskedBy
  <2>10. (answerLost \/ \A s \in Spots : installed[s] = FirstCond(points[s]))'
    BY <2>5 DEF FirstCond
  <2> QED BY <2>7, <2>8, <2>9, <2>10 DEF InstallInv
<1> QED BY <1>1, <1>2, <1>3

LEMMA InstallSteps == InstallInv /\ [DefinitionsNext]_definitionVars => InstallInv'
<1> SUFFICES ASSUME InstallInv, [DefinitionsNext]_definitionVars PROVE InstallInv'
  OBVIOUS
<1>1. CASE UNCHANGED definitionVars
  BY <1>1 DEF InstallInv, InstallType, OneEach, Followed, AskedBy, FirstCond, Resolved,
              definitionVars
<1>2. ASSUME NEW id \in 1 .. MaxDefinitions, NEW p \in Places,
             NEW use \in {<<"breakpoint", 0>>, <<"breakpoint", Disabled>>,
                          <<"tracepoint", 0>>, <<"tracepoint", targetRun>>},
             Put([id |-> id, owner |-> "cli", kind |-> use[1], spot |-> p[1],
                  cond |-> p[2], scope |-> use[2]])
      PROVE  InstallInv'
  <2>1. use[1] \in {"breakpoint", "tracepoint"} /\ use[2] \in Int
    BY DEF InstallInv, InstallType, Disabled
  <2>2. id \in Nat /\ p[1] \in Spots /\ p[2] \in Conditions
    BY DefinitionsAssumption DEF DefinitionsAssumption, Spots, Conditions
  <2>3. [id |-> id, owner |-> "cli", kind |-> use[1], spot |-> p[1],
         cond |-> p[2], scope |-> use[2]] \in DefinitionSet
    BY <2>1, <2>2 DEF DefinitionSet
  <2> QED BY <1>2, <2>3, PutSteps
<1>3. ASSUME NEW p \in Places, EditorReplaces(p[1], p[2]) \/ EditorReplaces(p[1], Nowhere)
      PROVE  InstallInv'
  <2>1. p[1] \in Spots /\ p[2] \in Conditions
    BY DEF Spots, Conditions
  <2> QED BY <1>3, <2>1, EditorSteps
<1> QED BY <1>1, <1>2, <1>3, DeleteSteps, LifetimeSteps DEF DefinitionsNext

(* The invariant of the installation, in every state of every behaviour.    *)
LEMMA InstallHolds == DefinitionsSpec => []InstallInv
  BY InstallStarts, InstallSteps, PTL DEF DefinitionsSpec

(* Whatever failed halfway, a stop that attribution takes for one of          *)
(* tracepoints is at a point the adapter has, and no breakpoint of the store  *)
(* that the adapter did not refuse is there.                                  *)
THEOREM StopsAreKept == DefinitionsSpec => []OrdinaryStopsKept
<1>1. ASSUME InstallInv PROVE OrdinaryStopsKept
  <2> SUFFICES ASSUME NEW s \in Spots, Eligible(s)
               PROVE  /\ installed[s] # Nowhere
                      /\ \A d \in Range(store) :
                            d.spot = s /\ d.kind = "breakpoint" /\ Active(d, targetRun)
                              => \E r \in resolutions : r.def = d.id /\ ~r.ok
    BY DEF OrdinaryStopsKept
  <2> DEFINE claims == {r \in resolutions : r.spot = s /\ r.ok}
  <2>1. /\ claims # {}
        /\ \A r \in claims : \E d \in Range(store) : d.id = r.def /\ d.kind = "tracepoint"
    BY DEF Eligible
  <2>2. settled /\ resolutions = Resolved(store, targetRun, points)
    BY <1>1, <2>1 DEF InstallInv
  <2>3. ASSUME NEW d \in Range(store)
        PROVE  \E r \in resolutions :
                  /\ r.def = d.id /\ r.spot = d.spot /\ r.ok \in BOOLEAN
                  /\ r.ok => Active(d, targetRun)
    <3> DEFINE ok == /\ Active(d, targetRun)
                     /\ points[d.spot][1].client = Own /\ points[d.spot][1].cond = d.cond
               r == [def |-> d.id, spot |-> d.spot, ok |-> ok]
    <3>1. r \in resolutions
      BY <2>2 DEF Resolved
    <3>2. ok \in BOOLEAN /\ (ok => Active(d, targetRun))
      OBVIOUS
    <3>3. r.def = d.id /\ r.spot = d.spot /\ r.ok = ok
      OBVIOUS
    <3> HIDE DEF ok, r
    <3> QED BY <3>1, <3>2, <3>3
  <2>4. \A r \in resolutions : \E d \in Range(store) :
            r.spot = d.spot /\ (r.ok => Active(d, targetRun))
    BY <2>2 DEF Resolved
  <2>5. AskedBy(store, targetRun, s) # {}
    BY <2>1, <2>4 DEF AskedBy
  <2>6. installed[s] # Nowhere
    <3>1. points[s] # <<>> /\ installed[s] = FirstCond(points[s]) /\ points[s] \in Seq(Points)
      BY <1>1, <2>2, <2>5 DEF InstallInv, InstallType, Followed
    <3>2. PICK p \in Range(points[s]) : installed[s] = p.cond
      BY <3>1, FirstOf
    <3>3. p.cond \in Conditions
      <4>1. p \in Points
        BY <3>1, RangeOfSeq
      <4> QED BY <4>1 DEF Points
    <3>4. Nowhere \notin Conditions
      BY DefinitionsAssumption DEF DefinitionsAssumption, Conditions, Nowhere
    <3> QED BY <3>2, <3>3, <3>4
  <2>7. ASSUME NEW d \in Range(store), d.spot = s, d.kind = "breakpoint"
        PROVE  \E r \in resolutions : r.def = d.id /\ ~r.ok
    <3>1. PICK r \in resolutions : r.def = d.id /\ r.spot = d.spot /\ r.ok \in BOOLEAN
      BY <2>3
    <3>2. ASSUME r.ok PROVE FALSE
      <4>1. PICK e \in Range(store) : e.id = d.id /\ e.kind = "tracepoint"
        BY <2>1, <2>7, <3>1, <3>2
      <4>2. e = d
        BY <1>1, <4>1 DEF InstallInv, InstallType, OneEach, Range
      <4> QED BY <2>7, <4>1, <4>2
    <3> QED BY <3>1, <3>2
  <2> QED BY <2>6, <2>7
<1> QED BY <1>1, InstallHolds, PTL

(* After a completed reconciliation the adapter stops only where a definition *)
(* or another client asks for it, and wherever a definition does.             *)
THEOREM NoPointIsAGhost == DefinitionsSpec => []NoGhostPoints
<1>1. ASSUME InstallInv PROVE NoGhostPoints
  <2> SUFFICES ASSUME settled, ~answerLost, NEW s \in Spots
               PROVE  LET asked == AskedBy(store, targetRun, s) \union OtherConds(points, s)
                      IN  IF asked = {} THEN installed[s] = Nowhere
                          ELSE installed[s] \in asked
    BY DEF NoGhostPoints, AskedBy, OtherConds
  <2>1. /\ points \in [Spots -> Seq(Points)] /\ installed[s] = FirstCond(points[s])
        /\ Followed(store, targetRun, points, installed, s)
    BY <1>1 DEF InstallInv, InstallType
  <2>2. OtherConds(points, s) = {p.cond : p \in {q \in Range(points[s]) : q.client # Own}}
    BY <2>1, OthersOf DEF OtherConds
  <2>3. points[s] \in Seq(Points)
    BY <2>1
  <2>4. CASE points[s] = <<>>
    <3>1. FirstCond(points[s]) = Nowhere /\ Range(points[s]) = {}
      BY <2>4 DEF FirstCond, Range
    <3>2. AskedBy(store, targetRun, s) = {}
      BY <2>1, <2>4 DEF Followed
    <3>3. OtherConds(points, s) = {}
      BY <2>2, <3>1
    <3> QED BY <2>1, <3>1, <3>2, <3>3
  <2>5. CASE points[s] # <<>>
    <3>1. PICK p \in Range(points[s]) : installed[s] = p.cond
      BY <2>1, <2>3, <2>5, FirstOf
    <3>2. p.cond \in AskedBy(store, targetRun, s) \union OtherConds(points, s)
      BY <2>1, <2>2 DEF Followed
    <3> QED BY <3>1, <3>2
  <2> QED BY <2>4, <2>5
<1> QED BY <1>1, InstallHolds, PTL

----------------------------------------------------------------------------
(* The investigations of the runs.                                         *)

\* A finite set of numbers has a greatest.
LEMMA Greatest ==
  ASSUME NEW S \in SUBSET Int, IsFiniteSet(S), S # {}
  PROVE  Max(S) \in S /\ \A y \in S : y <= Max(S)
<1>1. Cardinality(S) \in Nat /\ Cardinality(S) # 0
  BY FS_CardinalityType, FS_EmptySet
<1>2. PICK x \in S : Cardinality({j \in S : j <= x}) = Cardinality(S)
  BY <1>1, Ranks
<1>3. {j \in S : j <= x} = S
  BY <1>2, FS_Subset
<1>4. \A y \in S : y \in {j \in S : j <= x}
  BY <1>3
<1>5. \A y \in S : x >= y
  BY <1>4
<1>6. \E z \in S : \A y \in S : z >= y
  BY <1>5
<1> QED
  BY <1>6 DEF Max

\* The greatest ordinal of a file.
LEMMA LastOrdinals ==
  ASSUME NEW o \in [Runs -> Nat], NEW file, file.ordinal = o, Runs # {}
  PROVE  LastOrdinal(file) \in Nat /\ \A q \in Runs : o[q] <= LastOrdinal(file)
<1> DEFINE S == {file.ordinal[q] : q \in Runs}
           f == [q \in Runs |-> o[q]]
<1>1. IsFiniteSet(Runs)
  BY FS_Interval, ArchiveAssumption DEF Runs, ArchiveAssumption
<1>2. f \in Surjection(Runs, S)
  BY DEF Surjection
<1>3. IsFiniteSet(S)
  BY <1>1, <1>2, FS_Surjection
<1>4. S \in SUBSET Int /\ S # {} /\ \A q \in Runs : o[q] \in S
  OBVIOUS
<1>5. LastOrdinal(file) = Max(S)
  BY DEF LastOrdinal
<1> HIDE DEF S
<1>6. Max(S) \in S /\ \A y \in S : y <= Max(S)
  BY <1>3, <1>4, Greatest
<1>7. \A y \in S : y \in Nat
  BY DEF S
<1> QED
  BY <1>4, <1>5, <1>6, <1>7

\* The file of an investigation: no two of its runs have one number.
FileShape(file) ==
    /\ file = [file |-> file.file, ordinal |-> file.ordinal]
    /\ file.file \in BOOLEAN /\ file.ordinal \in [Runs -> Nat]
    /\ \A q, r \in Runs : q # r /\ file.ordinal[q] # 0 => file.ordinal[q] # file.ordinal[r]

\* What becomes of a file that is not deleted.
Extends(old, new) ==
    /\ old.file => new.file
    /\ \A r \in Runs : old.ordinal[r] # 0 => new.ordinal[r] = old.ordinal[r]

LEMMA ExtendsTwice ==
  ASSUME NEW f, NEW g, NEW h, Extends(f, g), Extends(g, h)
  PROVE  Extends(f, h)
BY DEF Extends

LEMMA EmptyFile ==
  /\ FileShape(NoFile) /\ ~NoFile.file /\ \A r \in Runs : NoFile.ordinal[r] = 0
<1>1. \A r \in Runs : r \in Nat
  BY DEF Runs
<1> QED
  BY <1>1 DEF FileShape, NoFile

LEMMA ReservedFile ==
  ASSUME NEW file, FileShape(file), NEW r \in Runs
  PROVE  FileShape(Reserve(file, r)) /\ Extends(file, Reserve(file, r))
<1>1. CASE file.ordinal[r] # 0
  BY <1>1 DEF Reserve, Extends
<1>2. CASE file.ordinal[r] = 0
  <2> DEFINE o == file.ordinal
             n == LastOrdinal(file) + 1
             p == [o EXCEPT ![r] = n]
  <2>1. LastOrdinal(file) \in Nat /\ \A q \in Runs : o[q] <= LastOrdinal(file)
    BY LastOrdinals DEF FileShape
  <2>2. n \in Nat /\ n # 0 /\ \A q \in Runs : o[q] # n
    BY <2>1 DEF FileShape
  <2>3. Reserve(file, r) = [file |-> file.file, ordinal |-> p]
    BY <1>2 DEF Reserve, FileShape
  <2> HIDE DEF n
  <2>4. /\ o \in [Runs -> Nat]
        /\ \A q, s \in Runs : q # s /\ o[q] # 0 => o[q] # o[s]
    BY DEF FileShape
  <2> HIDE DEF o
  <2>5. p \in [Runs -> Nat] /\ p[r] = n /\ \A q \in Runs : q # r => p[q] = o[q]
    BY <2>2, <2>4
  <2> HIDE DEF p
  <2>6. \A q, s \in Runs : q # s /\ p[q] # 0 => p[q] # p[s]
    BY <2>2, <2>4, <2>5
  <2>7. \A q \in Runs : o[q] # 0 => p[q] = o[q]
    BY <1>2, <2>5 DEF o
  <2> QED
    BY <2>3, <2>5, <2>6, <2>7 DEF FileShape, Extends, o
<1> QED
  BY <1>1, <1>2

LEMMA NumberedFile ==
  ASSUME NEW file, FileShape(file), NEW S \in SUBSET Runs
  PROVE  FileShape(NumberedRuns(file, S)) /\ Extends(file, NumberedRuns(file, S))
<1> DEFINE o == file.ordinal
           new == {r \in S : o[r] = 0}
           last == LastOrdinal(file)
           rank(r) == Cardinality({q \in new : q <= r})
           p == [r \in Runs |-> IF r \in new THEN last + rank(r) ELSE o[r]]
<1>0. NumberedRuns(file, S) = [file |-> file.file, ordinal |-> p]
  <2>1. NumberedRuns(file, S) = [file EXCEPT !.ordinal = p]
    BY DEF NumberedRuns
  <2> HIDE DEF p
  <2> QED
    BY <2>1 DEF FileShape
<1>1. CASE Runs = {}
  <2>1. NumberedRuns(file, S) = [file |-> file.file, ordinal |-> p]
    BY <1>0
  <2>2. p \in [Runs -> Nat]
    BY <1>1
  <2> HIDE DEF p
  <2> QED
    BY <1>1, <2>1, <2>2 DEF FileShape, Extends
<1>2. CASE Runs # {}
  <2>0. NumberedRuns(file, S) = [file |-> file.file, ordinal |-> p]
    BY <1>0
  <2>1. last \in Nat /\ \A q \in Runs : o[q] <= last
    BY <1>2, LastOrdinals DEF FileShape
  <2>2. IsFiniteSet(Runs) /\ Runs \in SUBSET Int
    BY FS_Interval, ArchiveAssumption DEF Runs, ArchiveAssumption
  <2>3. IsFiniteSet(new) /\ new \in SUBSET Int
    <3>1. new \in SUBSET Runs
      OBVIOUS
    <3> HIDE DEF new
    <3> QED
      BY <2>2, <3>1, FS_Subset
  <2>4. /\ \A r \in new : rank(r) \in Nat /\ rank(r) # 0
        /\ \A q, r \in new : q # r => rank(q) # rank(r)
    <3> HIDE DEF new
    <3>1. /\ Cardinality(new) \in Nat
          /\ \A i \in new : rank(i) \in 1 .. Cardinality(new)
          /\ \A i, k \in new : i # k => rank(i) # rank(k)
      BY <2>3, Ranks
    <3> HIDE DEF rank
    <3> QED
      BY <3>1
  <2>5. /\ o \in [Runs -> Nat]
        /\ \A q, s \in Runs : q # s /\ o[q] # 0 => o[q] # o[s]
        /\ \A r \in new : o[r] = 0 /\ r \in Runs
    BY DEF FileShape
  <2> HIDE DEF o, new, last, rank
  <2>6. ASSUME NEW r \in Runs PROVE p[r] \in Nat
    <3>1. CASE r \in new
      BY <2>1, <2>4, <3>1
    <3>2. CASE r \notin new
      BY <2>5, <3>2
    <3> QED
      BY <3>1, <3>2
  <2>7. p \in [Runs -> Nat]
    BY <2>6
  <2>8. /\ \A r \in new : p[r] = last + rank(r)
        /\ \A r \in Runs : r \notin new => p[r] = o[r]
    BY <2>5
  <2> HIDE DEF p
  <2>9. ASSUME NEW q \in Runs, NEW s \in Runs, q # s, p[q] # 0 PROVE p[q] # p[s]
    <3>1. CASE q \in new /\ s \in new
      <4>1. rank(q) # rank(s) /\ rank(q) \in Nat /\ rank(s) \in Nat
        BY <2>4, <2>9, <3>1
      <4> QED
        BY <2>1, <2>8, <3>1, <4>1
    <3>2. CASE q \in new /\ s \notin new
      <4>1. rank(q) \in Nat /\ rank(q) # 0 /\ o[s] <= last /\ o[s] \in Nat
        BY <2>1, <2>4, <2>5, <3>2
      <4> QED
        BY <2>1, <2>8, <3>2, <4>1
    <3>3. CASE q \notin new /\ s \in new
      <4>1. rank(s) \in Nat /\ rank(s) # 0 /\ o[q] <= last /\ o[q] \in Nat
        BY <2>1, <2>4, <2>5, <3>3
      <4> QED
        BY <2>1, <2>8, <3>3, <4>1
    <3>4. CASE q \notin new /\ s \notin new
      BY <2>5, <2>8, <2>9, <3>4
    <3> QED
      BY <3>1, <3>2, <3>3, <3>4
  <2>10. \A r \in Runs : o[r] # 0 => p[r] = o[r]
    BY <2>5, <2>8
  <2> QED
    BY <2>0, <2>7, <2>9, <2>10 DEF FileShape, Extends, o
<1> QED
  BY <1>1, <1>2

\* The index of investigations.
IndexShape(ix) == DOMAIN ix = Groups /\ \A g \in Groups : FileShape(ix[g])
IndexExtends(old, new) == \A g \in Groups : Extends(old[g], new[g])

LEMMA WrittenFile ==
  ASSUME NEW file, FileShape(file)
  PROVE  /\ FileShape([file EXCEPT !.file = TRUE])
         /\ Extends(file, [file EXCEPT !.file = TRUE])
<1>0. file = [file |-> file.file, ordinal |-> file.ordinal]
  BY DEF FileShape
<1>1. \A t : [file EXCEPT !.file = t] = [file |-> t, ordinal |-> file.ordinal]
  <2> TAKE t
  <2> QED
    BY <1>0
<1>2. [file EXCEPT !.file = TRUE] = [file |-> TRUE, ordinal |-> file.ordinal]
  BY <1>1, Zenon
<1> QED
  BY <1>2 DEF FileShape, Extends

LEMMA BackfilledIndex ==
  ASSUME NEW ix, IndexShape(ix)
  PROVE  IndexShape(Backfilled(ix)) /\ IndexExtends(ix, Backfilled(ix))
<1>1. DOMAIN Backfilled(ix) = Groups
  BY DEF Backfilled
<1>2. ASSUME NEW g \in Groups
      PROVE  FileShape(Backfilled(ix)[g]) /\ Extends(ix[g], Backfilled(ix)[g])
  <2> DEFINE listed == {r \in Runs : Known(r) /\ GroupOf(r) = g}
             opened == [ix[g] EXCEPT !.file = TRUE]
  <2>1. Backfilled(ix)[g] = IF listed = {} THEN ix[g] ELSE NumberedRuns(opened, listed)
    BY DEF Backfilled
  <2>2. FileShape(ix[g])
    BY DEF IndexShape
  <2>3. listed \in SUBSET Runs
    OBVIOUS
  <2>4. FileShape(opened) /\ Extends(ix[g], opened)
    BY <2>2, WrittenFile
  <2> HIDE DEF listed, opened
  <2>5. /\ FileShape(NumberedRuns(opened, listed))
        /\ Extends(opened, NumberedRuns(opened, listed))
    BY <2>3, <2>4, NumberedFile
  <2>6. Extends(ix[g], NumberedRuns(opened, listed))
    BY <2>4, <2>5, ExtendsTwice
  <2> QED
    BY <2>1, <2>2, <2>5, <2>6 DEF Extends
<1> QED
  BY <1>1, <1>2 DEF IndexShape, IndexExtends

LEMMA FoundedIndex ==
  ASSUME NEW ix, IndexShape(ix), NEW g \in Groups
  PROVE  IndexShape(Founded(ix, g)) /\ IndexExtends(ix, Founded(ix, g))
<1> DEFINE opened == [ix[g] EXCEPT !.file = TRUE]
<1>1. FileShape(ix[g]) /\ g \in Runs /\ DOMAIN ix = Groups
  BY DEF IndexShape, Groups
<1>3. Founded(ix, g) = [ix EXCEPT ![g] = Reserve(opened, g)]
  BY DEF Founded
<1>4. FileShape(opened) /\ Extends(ix[g], opened)
  BY <1>1, WrittenFile
<1> HIDE DEF opened
<1>5. FileShape(Reserve(opened, g)) /\ Extends(opened, Reserve(opened, g))
  BY <1>1, <1>4, ReservedFile
<1>6. Extends(ix[g], Reserve(opened, g))
  BY <1>4, <1>5, ExtendsTwice
<1>7. ASSUME NEW h \in Groups
      PROVE  FileShape(Founded(ix, g)[h]) /\ Extends(ix[h], Founded(ix, g)[h])
  <2>1. CASE h = g
    BY <1>1, <1>3, <1>5, <1>6, <2>1
  <2>2. CASE h # g
    <3>1. Founded(ix, g)[h] = ix[h] /\ FileShape(ix[h])
      BY <1>3, <2>2 DEF IndexShape
    <3> QED
      BY <3>1 DEF Extends
  <2> QED
    BY <2>1, <2>2
<1>8. DOMAIN Founded(ix, g) = Groups
  BY <1>1, <1>3
<1> QED
  BY <1>7, <1>8 DEF IndexShape, IndexExtends

LEMMA JoinedIndex ==
  ASSUME NEW ix, IndexShape(ix), NEW r \in Runs, NEW g \in Groups
  PROVE  IndexShape(Joined(ix, r, g)) /\ IndexExtends(ix, Joined(ix, r, g))
<1> DEFINE n == IF Unnumbered(ix[g]) THEN Backfilled(ix) ELSE ix
<1>1. Joined(ix, r, g) = [n EXCEPT ![g] = Reserve(n[g], r)]
  BY DEF Joined
<1>2. IndexShape(n) /\ IndexExtends(ix, n)
  BY BackfilledIndex DEF IndexExtends, Extends
<1> HIDE DEF n
<1>3. FileShape(Reserve(n[g], r)) /\ Extends(n[g], Reserve(n[g], r)) /\ DOMAIN n = Groups
  BY <1>2, ReservedFile DEF IndexShape
<1>4. ASSUME NEW h \in Groups
      PROVE  FileShape(Joined(ix, r, g)[h]) /\ Extends(ix[h], Joined(ix, r, g)[h])
  <2>1. FileShape(n[h]) /\ Extends(ix[h], n[h])
    BY <1>2 DEF IndexShape, IndexExtends
  <2>2. CASE h = g
    <3>1. Joined(ix, r, g)[h] = Reserve(n[g], r)
      BY <1>1, <1>3, <2>2
    <3> QED
      BY <1>3, <2>1, <2>2, <3>1, ExtendsTwice
  <2>3. CASE h # g
    <3>1. Joined(ix, r, g)[h] = n[h]
      BY <1>1, <1>3, <2>3
    <3> QED
      BY <2>1, <3>1
  <2> QED
    BY <2>2, <2>3
<1>5. DOMAIN Joined(ix, r, g) = Groups
  BY <1>1, <1>3
<1> QED
  BY <1>4, <1>5 DEF IndexShape, IndexExtends

\* The files and associations.
IndexInv == IndexShape(index) /\ DOMAIN member = Runs

LEMMA IndexStart == ArchiveInit => IndexInv
<1> SUFFICES ASSUME ArchiveInit PROVE IndexInv
  OBVIOUS
<1>1. PICK grouped \in BOOLEAN : index = [g \in Groups |-> [NoFile EXCEPT !.file = grouped /\ g = 1]]
  BY DEF ArchiveInit
<1>2. ASSUME NEW g \in Groups PROVE FileShape(index[g])
  <2>1. index[g] = [NoFile EXCEPT !.file = grouped /\ g = 1] /\ (grouped /\ g = 1) \in BOOLEAN
    BY <1>1
  <2>2. FileShape(NoFile) /\ \A r \in Runs : NoFile.ordinal[r] = 0
    BY EmptyFile
  <2>3. index[g] = [file |-> (grouped /\ g = 1), ordinal |-> NoFile.ordinal]
    BY <2>1, <2>2 DEF FileShape
  <2> HIDE DEF NoFile
  <2> QED
    BY <2>1, <2>2, <2>3 DEF FileShape
<1> QED
  BY <1>1, <1>2 DEF ArchiveInit, IndexInv, IndexShape

\* What a step may do to the investigations.
Regrouped ==
    \A r \in Runs : Kept(r) /\ Kept(r)' => GroupOf(r)' = GroupOf(r) \/ member'[r] = r
FilesKept ==
    \A g \in Groups : (index[g].file /\ index'[g].file) => Extends(index[g], index'[g])

LEMMA SameGroups ==
  ASSUME member' = member
  PROVE  Regrouped
BY DEF Regrouped, GroupOf

LEMMA LaunchIndex ==
  ASSUME ArchiveInv, IndexInv, NEW r \in Runs, NEW g \in 1 .. r, Launch(r, g)
  PROVE  IndexInv' /\ FilesKept /\ Regrouped
<1>0. g \in Groups
  BY ArchiveAssumption DEF ArchiveAssumption, Groups, Runs
<1> DEFINE founder == IF g = r \/ index[g].file THEN {} ELSE {g}
           ix == IF g # r /\ index[g].file THEN index ELSE Founded(index, g)
<1>1. /\ index' = IF g = r THEN ix ELSE Joined(ix, r, g)
      /\ \E done \in BOOLEAN :
            member' = [q \in Runs |-> IF q \in founder \/ (done /\ q = r) THEN g ELSE member[q]]
      /\ UNCHANGED <<descriptor, journal>> /\ runner[r] = "none"
  BY DEF Launch
<1>2. IndexShape(ix) /\ IndexExtends(index, ix)
  BY <1>0, FoundedIndex DEF IndexInv, IndexExtends, Extends
<1> HIDE DEF ix
<1>3. IndexShape(index') /\ IndexExtends(index, index')
  <2>1. CASE g = r
    BY <1>1, <1>2, <2>1
  <2>2. CASE g # r
    <3>1. /\ index' = Joined(ix, r, g)
          /\ IndexShape(Joined(ix, r, g)) /\ IndexExtends(ix, Joined(ix, r, g))
      BY <1>0, <1>1, <1>2, <2>2, JoinedIndex
    <3> QED
      BY <1>2, <3>1, ExtendsTwice DEF IndexExtends
  <2> QED
    BY <2>1, <2>2
<1>4. IndexInv' /\ FilesKept
  <2>1. DOMAIN member' = Runs
    BY <1>1
  <2>2. IndexShape(index)' = IndexShape(index')
    BY Zenon DEF IndexShape
  <2> QED
    BY <1>3, <2>1 DEF IndexInv, IndexShape, IndexExtends, FilesKept, FileShape
<1>5. ~Kept(r)
  <2>1. AtRun(r)
    BY DEF ArchiveInv
  <2> QED
    BY <1>1, <2>1 DEF AtRun, RunInv, Opening, Kept
<1>6. Regrouped
  <2> SUFFICES ASSUME NEW q \in Runs, Kept(q)
               PROVE  GroupOf(q)' = GroupOf(q) \/ member'[q] = q
    BY DEF Regrouped
  <2>1. q # r
    BY <1>5
  <2>2. CASE q \in founder
    <3>1. q = g /\ member'[q] = g
      BY <1>1, <2>2
    <3> QED
      BY <3>1
  <2>3. CASE q \notin founder
    <3>1. member'[q] = member[q]
      BY <1>1, <2>1, <2>3
    <3> QED
      BY <3>1 DEF GroupOf
  <2> QED
    BY <2>2, <2>3
<1> QED
  BY <1>4, <1>6

\* Whoever lists the runs.
LEMMA ListedIndex ==
  ASSUME IndexInv, index' = Backfilled(index), member' = member
  PROVE  IndexInv' /\ FilesKept /\ Regrouped
<1>1. IndexShape(Backfilled(index)) /\ IndexExtends(index, Backfilled(index))
  BY BackfilledIndex DEF IndexInv
<1>2. IndexInv'
  BY <1>1 DEF IndexInv, IndexShape, FileShape
<1> QED
  BY <1>1, <1>2, SameGroups DEF IndexExtends, FilesKept

\* An association is removed after the run that has it.
LEMMA RemovedIndex ==
  ASSUME ArchiveInv, IndexInv, DeletionEnds
  PROVE  IndexInv' /\ FilesKept /\ Regrouped
<1> DEFINE MemberLast(P) == \A r \in Runs : <<r, "member">> \in P =>
                            <<r, "archive">> \in P /\ <<r, "session">> \in P
<1>0. Stages[1] = "archive" /\ Stages[2] = "session" /\ Stages[3] = "member"
  BY DEF Stages
<1>1. ASSUME NEW n \in [Runs -> 0 .. 3], NEW r, <<r, "member">> \in Staged(n)
      PROVE  <<r, "archive">> \in Staged(n) /\ <<r, "session">> \in Staged(n)
  <2>1. r \in deletion.runs /\ r \in Runs
    BY <1>1 DEF Staged, ArchiveInv, DeletedInv
  <2>2. PICK q \in deletion.runs : <<r, "member">> \in {<<q, Stages[i]>> : i \in 1 .. n[q]}
    BY <1>1 DEF Staged
  <2>3. PICK i \in 1 .. n[q] : <<r, "member">> = <<q, Stages[i]>>
    BY <2>2
  <2>4. q = r /\ Stages[i] = "member" /\ n[q] \in 0 .. 3
    BY <2>1, <2>3
  <2>5. n[r] = 3
    <3>1. i \in {1, 2, 3}
      BY <2>3, <2>4
    <3>2. i # 1 /\ i # 2
      BY <1>0, <2>4
    <3> QED
      BY <2>3, <2>4, <3>1, <3>2
  <2>6. ASSUME NEW i_1 \in 1 .. 3 PROVE <<r, Stages[i_1]>> \in Staged(n)
    <3>1. <<r, Stages[i_1]>> \in {<<r, Stages[i_2]>> : i_2 \in 1 .. n[r]}
      BY <2>5, <2>6
    <3> HIDE DEF Stages
    <3> QED
      BY <2>1, <2>6, <3>1 DEF Staged
  <2> QED
    BY <1>0, <2>6
<1>2. \E P, left : MemberLast(P) /\ Removed(P, left)
  <2>1. MemberLast({})
    OBVIOUS
  <2>2. MemberLast(All)
    <3> DEFINE n == [r \in Runs |-> 3]
    <3> SUFFICES ASSUME NEW r \in Runs, <<r, "member">> \in All
                 PROVE  <<r, "archive">> \in All /\ <<r, "session">> \in All
      OBVIOUS
    <3>1. <<r, "member">> \in Staged(n)
      BY DEF All
    <3>2. r \in deletion.runs
      BY <3>1 DEF Staged
    <3>3. ASSUME NEW i \in 1 .. 3 PROVE <<r, Stages[i]>> \in Staged(n)
      <4>1. n[r] = 3
        OBVIOUS
      <4>2. <<r, Stages[i]>> \in {<<r, Stages[i_2]>> : i_2 \in 1 .. n[r]}
        BY <3>3, <4>1
      <4> HIDE DEF n
      <4> QED
        BY <3>2, <3>3, <4>2 DEF Staged
    <3> HIDE DEF n
    <3>4. <<r, "archive">> \in Staged(n) /\ <<r, "session">> \in Staged(n)
      BY <1>0, <3>3
    <3> QED
      BY <3>4 DEF All, n
  <2>3. ASSUME NEW P \in Interrupted PROVE MemberLast(P)
    <3>1. PICK n \in [Runs -> 0 .. 3] : P = Staged(n)
      <4> DEFINE N == {m \in [Runs -> 0 .. 3] :
                       \A q, r \in deletion.runs : q # r => {m[q], m[r]} \cap {0, 3} # {}}
      <4>1. Interrupted = {Staged(n) : n \in N}
        BY DEF Interrupted
      <4> HIDE DEF Staged, N
      <4>2. \E n \in N : P = Staged(n)
        BY <2>3, <4>1
      <4> QED
        BY <4>2 DEF N
    <3> QED
      BY <1>1, <3>1
  <2>4. \/ \E left : Removed(All, left) \/ Removed({}, left)
        \/ \E P \in Interrupted : \E left : Removed(P, left)
    BY DEF DeletionEnds
  <2> HIDE DEF Removed, All, Interrupted, MemberLast
  <2> QED
    BY <2>1, <2>2, <2>3, <2>4
<1>3. PICK P, left : MemberLast(P) /\ Removed(P, left)
  BY <1>2
<1>4. IndexInv' /\ FilesKept
  <2>1. DOMAIN index' = Groups /\ DOMAIN member' = Runs
    BY <1>3 DEF Removed
  <2>2. ASSUME NEW g \in Groups
        PROVE  index'[g] = NoFile \/ index'[g] = index[g]
    BY <1>3 DEF Removed
  <2>3. \A g \in Groups : FileShape(index'[g])
    BY <2>2, EmptyFile DEF IndexInv, IndexShape
  <2>4. FilesKept
    BY <2>2, EmptyFile DEF FilesKept, Extends
  <2>5. IndexInv'
    BY <2>1, <2>3 DEF IndexInv, IndexShape, FileShape
  <2> QED
    BY <2>4, <2>5
<1>5. Regrouped
  <2> SUFFICES ASSUME NEW r \in Runs, Kept(r)'
               PROVE  GroupOf(r)' = GroupOf(r)
    BY DEF Regrouped
  <2>1. <<r, "member">> \notin P
    <3> SUFFICES ASSUME <<r, "member">> \in P PROVE FALSE
      OBVIOUS
    <3>1. <<r, "archive">> \in P /\ <<r, "session">> \in P
      BY <1>3
    <3>2. journal'[r] = NoJournal /\ descriptor'[r] = "none"
      BY <1>3, <3>1 DEF Removed
    <3> QED
      BY <3>2 DEF Kept, NoJournal
  <2>2. member'[r] = member[r]
    BY <1>3, <2>1 DEF Removed
  <2> QED
    BY <2>2 DEF GroupOf
<1> QED
  BY <1>4, <1>5

LEMMA InvestigationSteps ==
  ArchiveInv /\ IndexInv /\ [ArchiveNext]_archiveVars => IndexInv' /\ FilesKept /\ Regrouped
<1> SUFFICES ASSUME ArchiveInv, IndexInv, [ArchiveNext]_archiveVars
             PROVE  IndexInv' /\ FilesKept /\ Regrouped
  OBVIOUS
<1>1. CASE UNCHANGED <<member, index>>
  <2>1. IndexInv' /\ Regrouped
    BY <1>1, SameGroups DEF IndexInv, IndexShape, FileShape
  <2> QED
    BY <1>1, <2>1 DEF FilesKept, Extends
<1>2. ASSUME NEW r \in Runs, NEW g \in 1 .. r, Launch(r, g)
      PROVE  IndexInv' /\ FilesKept /\ Regrouped
  BY <1>2, LaunchIndex
<1>3. CASE Browse
  BY <1>3, ListedIndex DEF Browse
<1>4. ASSUME NEW S, NEW g, Delete(S, g) PROVE IndexInv' /\ FilesKept /\ Regrouped
  BY <1>4, ListedIndex DEF Delete
<1>5. CASE DeletionEnds
  BY <1>5, RemovedIndex
<1>6. \/ UNCHANGED <<member, index>>
      \/ \E r \in Runs : \E g \in 1 .. r : Launch(r, g)
      \/ Browse \/ DeletionEnds
      \/ \E S, g : Delete(S, g)
  <2>1. ASSUME NEW r \in Runs,
               \/ LaunchFails(r) \/ BrokerStarts(r) \/ RecoveryStarts(r)
               \/ OpenArchive(r) \/ StartFails(r) \/ Publish(r) \/ PublishedFails(r)
               \/ FailureEnds(r) \/ Stop(r) \/ ShutDown(r) \/ Dies(r) \/ TargetDies(r)
               \/ Cleanup(r)
               \/ \E kind \in {"other", "ended"} : Record(r, kind)
        PROVE  UNCHANGED <<member, index>>
    BY <2>1 DEF LaunchFails, BrokerStarts, RecoveryStarts, OpenArchive, StartFails, Publish,
                PublishedFails, FailureEnds, Stop, ShutDown, Dies, TargetDies, Cleanup, Record
  <2>2. ASSUME NEW r \in Runs, DeleteRun(r) \/ DeleteInvestigation(r)
        PROVE  \E S, g : Delete(S, g)
    BY <2>2 DEF DeleteRun, DeleteInvestigation
  <2> HIDE DEF Delete
  <2> QED
    BY <2>1, <2>2 DEF ArchiveNext, archiveVars
<1> QED
  BY <1>1, <1>2, <1>3, <1>4, <1>5, <1>6

\* A run whose records are kept keeps its investigation, unless it founds one of its own, and
\* its number, which no other run of the investigation has, nor what an interrupted deletion
\* leaves of one: however many runs there are, and wherever deletions were interrupted, if a
\* failed rename could be taken back (session/investigation.go:163, delete.go:87).
THEOREM InvestigationsAreStable == ArchiveSpec => InvestigationsStable
<1> DEFINE Stable ==
      /\ \A g \in Groups, r \in Runs :
            index[g].file /\ index'[g].file /\ index[g].ordinal[r] # 0
              => index'[g].ordinal[r] = index[g].ordinal[r]
      /\ \A g \in Groups, q, r \in Runs :
            q # r /\ index'[g].ordinal[q] # 0 => index'[g].ordinal[q] # index'[g].ordinal[r]
      /\ \A r \in Runs : Kept(r) /\ Kept(r)' =>
            GroupOf(r)' = GroupOf(r) \/ member'[r] = r
<1>1. IndexInv' /\ FilesKept /\ Regrouped => Stable
  <2> SUFFICES ASSUME IndexInv', FilesKept, Regrouped PROVE Stable
    OBVIOUS
  <2>1. \A g \in Groups, r \in Runs :
            index[g].file /\ index'[g].file /\ index[g].ordinal[r] # 0
              => index'[g].ordinal[r] = index[g].ordinal[r]
    BY DEF FilesKept, Extends
  <2>2. \A g \in Groups, q, r \in Runs :
            q # r /\ index'[g].ordinal[q] # 0 => index'[g].ordinal[q] # index'[g].ordinal[r]
    BY DEF IndexInv, IndexShape, FileShape
  <2> QED
    BY <2>1, <2>2 DEF Regrouped
<1>2. ArchiveInv /\ IndexInv /\ [ArchiveNext]_archiveVars => [Stable]_archiveVars
  BY <1>1, InvestigationSteps
<1>3. InvestigationsStable <=> [][Stable]_archiveVars
  BY DEF InvestigationsStable
<1> HIDE DEF Stable
<1> QED
  BY <1>2, <1>3, IndexStart, InvestigationSteps, ArchiveStart, ArchiveSteps, PTL DEF ArchiveSpec
=============================================================================
