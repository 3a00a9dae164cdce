---------------------------- MODULE TracesProofs ---------------------------
(***************************************************************************)
(* Proofs about the embedded trace store, the export of spans and of       *)
(* notes, the discussion's files, inspection, the editor's connection and  *)
(* the capture of a session, for every value of their constants.           *)
(***************************************************************************)
EXTENDS TraceExport, TraceMetadata, StoreRuntime, DiscussionFiles, Inspection,
        EditorSession, TraceCapture,
        FiniteSetTheorems, SequenceTheorems, TLAPS

----------------------------------------------------------------------------
(* The embedded trace store.                                               *)

RuntimeType ==
    /\ flock \subseteq Runtimes /\ exited \subseteq Runtimes
    /\ stopAsked \subseteq Runtimes /\ stopping \subseteq Runtimes
    /\ modules \in [Runtimes -> {"none", "up", "down"}]
    /\ serving \in [Runtimes -> {"waits", "ready", "serves", "drains", "returned", "ended"}]
    /\ consumers \in [Runtimes -> Nat] /\ pushes \in [Runtimes -> Nat]

Admitted(p) == serving[p] \in {"serves", "drains", "returned"}

\* The lock has one holder, and a process that has ended holds nothing.
LockInv == /\ \A p, q \in flock : p = q
           /\ \A p \in flock : p \notin exited

\* The service of a process that is not over stands in its process, between the start
\* and the stop of the modules.
ServiceInv ==
    \A p \in Runtimes :
       /\ serving[p] \in {"ready", "serves", "drains", "returned"}
             => p \in flock /\ modules[p] # "none"
       /\ Admitted(p) => modules[p] = "up"
       /\ pushes[p] > 0 => serving[p] \in {"serves", "drains"}

\* The modules stop after the admission, which counts who was admitted.
AdmissionInv ==
    \A p \in Runtimes :
       /\ modules[p] = "down" => p \in stopping
       /\ p \notin exited => consumers[p] = IF Admitted(p) THEN 1 ELSE 0

RuntimeInv == RuntimeType /\ LockInv /\ ServiceInv /\ AdmissionInv

USE DEF Running

LEMMA RuntimeStarts == RuntimeInit => RuntimeInv
  BY DEF RuntimeInit, RuntimeInv, RuntimeType, LockInv, ServiceInv, AdmissionInv, Admitted

\* The steps of the service.
LEMMA ServiceSteps ==
  ASSUME RuntimeInv, NEW p \in Runtimes, Consumer(p) PROVE RuntimeInv'
<1> USE DEF RuntimeInv, RuntimeType, LockInv, ServiceInv, AdmissionInv, Admitted
<1>1. CASE FindReady(p)
  BY <1>1 DEF FindReady
<1>2. CASE BeginServing(p)
  BY <1>2 DEF BeginServing, Admits
<1>3. CASE BeginPush(p)
  BY <1>3 DEF BeginPush
<1>4. CASE EndPush(p)
  BY <1>4 DEF EndPush
<1>5. CASE LeaveLoop(p)
  BY <1>5 DEF LeaveLoop
<1>6. CASE Drained(p)
  BY <1>6 DEF Drained
<1>7. CASE StopTempo(p)
  BY <1>7 DEF StopTempo
<1> QED
  BY <1>1, <1>2, <1>3, <1>4, <1>5, <1>6, <1>7 DEF Consumer

\* The steps of Tempo and of the process.
LEMMA TempoSteps ==
  ASSUME RuntimeInv, NEW p \in Runtimes, Tempo(p) PROVE RuntimeInv'
<1> USE DEF RuntimeInv, RuntimeType, LockInv, ServiceInv, AdmissionInv, Admitted
<1>1. CASE LockDirectory(p)
  BY <1>1 DEF LockDirectory
<1>2. CASE StartModules(p)
  BY <1>2 DEF StartModules
<1>3. CASE Signal(p)
  BY <1>3 DEF Signal
<1>4. CASE ModuleFails(p)
  BY <1>4 DEF ModuleFails
<1>5. CASE StopAdmission(p)
  BY <1>5 DEF StopAdmission
<1>6. CASE TearDown(p)
  BY <1>6 DEF TearDown
<1>7. CASE Exit(p)
  BY <1>7 DEF Exit
<1> QED
  BY <1>1, <1>2, <1>3, <1>4, <1>5, <1>6, <1>7 DEF Tempo

LEMMA RuntimeStutters == RuntimeInv /\ UNCHANGED runtimeVars => RuntimeInv'
  BY DEF RuntimeInv, RuntimeType, LockInv, ServiceInv, AdmissionInv, Admitted, runtimeVars

\* Nothing is pushed into modules that are not up, however many processes are started
\* over the directory and whatever comes first of a signal, the admission and the stop
\* (embeddedtempo/server.go:45, runtime.go:120).
THEOREM ModulesLiveWhilePushed == RuntimeSpec => []PushesIntoLiveModules
<1>1. RuntimeInv /\ [RuntimeNext]_runtimeVars => RuntimeInv'
  BY ServiceSteps, TempoSteps, RuntimeStutters DEF RuntimeNext
<1>2. RuntimeInv => PushesIntoLiveModules
  <2> SUFFICES ASSUME RuntimeInv, NEW p \in Runtimes,
                      serving[p] \in {"serves", "drains"} \/ pushes[p] > 0
               PROVE  modules[p] = "up" /\ flock = {p}
    BY DEF PushesIntoLiveModules
  <2>1. serving[p] \in {"serves", "drains"}
    BY DEF RuntimeInv, ServiceInv
  <2>2. modules[p] = "up" /\ p \in flock
    BY <2>1 DEF RuntimeInv, ServiceInv, Admitted
  <2> QED
    BY <2>2 DEF RuntimeInv, LockInv
<1> QED
  BY <1>1, <1>2, RuntimeStarts, PTL DEF RuntimeSpec

----------------------------------------------------------------------------
(* The export queue and the stores.                                        *)

Span == Nat \ {0}
Status == {"none", "queued", "sent", "failed"}
Stage == {"none", "new", "sent", "refused", "local", "local passing", "remote",
          "remote passing", "done", "failing"}
Posts == [kind : {"none", "batch", "beat", "close"}, spans : SUBSET Span, stage : Stage,
          incomplete : BOOLEAN]
Records == [known : BOOLEAN, closed : BOOLEAN, interrupted : BOOLEAN,
            status : [Stores -> {"none", "accepted", "failed"}]]

QueueType ==
    /\ made \in 0 .. MaxCaptures
    /\ spanQueue \in Seq(Span) /\ batch \subseteq Span
    /\ queueClosed \in BOOLEAN /\ queueDone \in BOOLEAN /\ traceClosed \in BOOLEAN
    /\ spanStates \in [Captures -> Status]

PostType ==
    /\ exporter \in [endpoint : BOOLEAN, incomplete : BOOLEAN]
    /\ post \in Posts /\ latePost \in Posts
    /\ post.spans # {} => post.kind = "batch"

ServiceType ==
    /\ traced \in Records /\ tracedFile \in Records
    /\ destinations \subseteq Stores /\ "local" \in destinations
    /\ toStore \in [Stores -> Seq(SUBSET Nat)] /\ stored \in [Stores -> SUBSET Nat]

\* What the queue has ended with, is nothing; nothing comes after its end.
QueueInv == /\ queueDone => queueClosed
            /\ QueuedIsHeld

QueueIInv == QueueType /\ QueueInv

USE DEF brokerSide, serviceSide

LEMMA QueueStarts == ExportInit => QueueIInv
<1> SUFFICES ASSUME ExportInit PROVE QueueIInv
  OBVIOUS
<1>1. spanStates = [s \in Captures |-> "none"]
  BY DEF ExportInit
<1>2. spanStates \in [Captures -> Status]
  BY <1>1 DEF Status
<1>3. spanQueue \in Seq(Span) /\ batch \subseteq Span
  BY DEF ExportInit
<1>4. made \in 0 .. MaxCaptures
  BY ExportAssumption DEF ExportInit, ExportAssumption
<1>5. queueClosed \in BOOLEAN /\ queueDone \in BOOLEAN /\ traceClosed \in BOOLEAN /\ ~queueDone
  BY DEF ExportInit
<1>6. QueuedIsHeld
  BY <1>1 DEF QueuedIsHeld
<1> QED
  BY <1>2, <1>3, <1>4, <1>5, <1>6 DEF QueueIInv, QueueType, QueueInv

\* A span that ends is queued or failed.
LEMMA EndedSpan ==
  ASSUME QueueIInv, NEW s \in Span, OnEnd(s), UNCHANGED <<batch, queueDone>>
  PROVE  /\ spanQueue' \in Seq(Span) /\ spanStates' \in [Captures -> Status]
         /\ QueuedIsHeld'
<1>1. CASE queueClosed \/ Len(spanQueue) >= QueueLimit
  BY <1>1 DEF QueueIInv, QueueType, QueueInv, QueuedIsHeld, OnEnd, WithStates, Status
<1>2. CASE ~(queueClosed \/ Len(spanQueue) >= QueueLimit)
  <2>1. /\ spanQueue' = Append(spanQueue, s) /\ spanQueue' \in Seq(Span)
        /\ spanStates' = WithStates({s}, "queued")
    BY <1>2 DEF QueueIInv, QueueType, OnEnd
  <2>2. ToSet(spanQueue') = ToSet(spanQueue) \union {s}
    BY <2>1 DEF ToSet, QueueIInv, QueueType
  <2>3. spanStates' \in [Captures -> Status]
    BY <2>1 DEF WithStates, QueueIInv, QueueType, Status
  <2>4. ~queueDone'
    BY <1>2 DEF QueueIInv, QueueInv
  <2>5. QueuedIsHeld'
    BY <2>1, <2>2, <2>4 DEF QueuedIsHeld, WithStates, QueueIInv, QueueInv, QueueType
  <2> QED
    BY <2>1, <2>3, <2>5
<1> QED
  BY <1>1, <1>2

\* The outcome of a request settles its spans.
LEMMA AccountedSpans ==
  ASSUME QueueIInv, NEW ok \in BOOLEAN, Account(ok) PROVE QueueIInv'
<1>1. spanStates' \in [Captures -> Status]
  BY DEF Account, WithStates, QueueIInv, QueueType, Status
<1>2. QueueType'
  BY <1>1 DEF Account, QueueIInv, QueueType
<1>3. QueuedIsHeld'
  BY DEF Account, WithStates, QueueIInv, QueueInv, QueuedIsHeld
<1> QED
  BY <1>2, <1>3 DEF QueueIInv, QueueInv, Account

LEMMA QueueSteps == QueueIInv /\ [ExportNext]_exportVars => QueueIInv'
<1> SUFFICES ASSUME QueueIInv, [ExportNext]_exportVars PROVE QueueIInv'
  OBVIOUS
<1>1. CASE Capture
  <2>1. made + 1 \in Span /\ made' \in 0 .. MaxCaptures
    BY <1>1, ExportAssumption DEF Capture, QueueIInv, QueueType, Span, ExportAssumption
  <2>2. CASE traceClosed
    BY <1>1, <2>1, <2>2 DEF Capture, WithStates, QueueIInv, QueueType, QueueInv, QueuedIsHeld, Status
  <2>3. CASE ~traceClosed
    BY <1>1, <2>1, <2>3, EndedSpan DEF Capture, QueueIInv, QueueType, QueueInv
  <2> QED
    BY <2>2, <2>3
<1>2. CASE CloseTrace
  <2>1. LastSpan \in Span
    BY ExportAssumption DEF LastSpan, Span, ExportAssumption
  <2> QED
    BY <1>2, <2>1, EndedSpan DEF CloseTrace, QueueIInv, QueueType, QueueInv
<1>3. CASE ShutQueue
  BY <1>3 DEF ShutQueue, QueueIInv, QueueType, QueueInv, QueuedIsHeld
<1>4. CASE Drain
  <2>1. PICK n \in 1 .. BatchLimit :
            /\ n <= Len(spanQueue)
            /\ batch' = ToSet(SubSeq(spanQueue, 1, n))
            /\ spanQueue' = SubSeq(spanQueue, n + 1, Len(spanQueue))
    BY <1>4 DEF Drain
  <2>2. /\ n \in Nat /\ n >= 1 /\ Len(spanQueue) \in Nat /\ spanQueue \in Seq(Span)
    BY ExportAssumption DEF ExportAssumption, QueueIInv, QueueType
  <2>3. /\ SubSeq(spanQueue, 1, n) \in Seq(Span) /\ Len(SubSeq(spanQueue, 1, n)) = n
        /\ \A i \in 1 .. n : SubSeq(spanQueue, 1, n)[i] = spanQueue[i]
    BY <2>1, <2>2
  <2>4. /\ spanQueue' \in Seq(Span) /\ Len(spanQueue') = Len(spanQueue) - n
        /\ \A i \in 1 .. Len(spanQueue) - n : spanQueue'[i] = spanQueue[n + i]
    BY <2>1, <2>2
  <2>5. batch' \subseteq Span
    BY <2>1, <2>2, <2>3 DEF ToSet
  <2>6. ToSet(spanQueue) \subseteq ToSet(spanQueue') \union batch'
    <3> SUFFICES ASSUME NEW i \in 1 .. Len(spanQueue)
                 PROVE  spanQueue[i] \in ToSet(spanQueue') \union batch'
      BY <2>2 DEF ToSet
    <3>1. CASE i <= n
      <4>1. i \in 1 .. n
        BY <2>1, <2>2, <3>1
      <4>2. spanQueue[i] = SubSeq(spanQueue, 1, n)[i] /\ i \in DOMAIN SubSeq(spanQueue, 1, n)
        BY <2>1, <2>2, <2>3, <4>1
      <4> QED
        BY <2>1, <4>2 DEF ToSet
    <3>2. CASE i > n
      <4>1. i - n \in 1 .. Len(spanQueue) - n /\ n + (i - n) = i
        BY <2>1, <2>2, <3>2
      <4>2. spanQueue[i] = spanQueue'[i - n] /\ i - n \in DOMAIN spanQueue'
        BY <2>4, <4>1
      <4> QED
        BY <4>2 DEF ToSet
    <3> QED
      BY <2>2, <3>1, <3>2
  <2>7. UNCHANGED <<made, traceClosed, queueClosed, queueDone, spanStates>> /\ batch = {}
    BY <1>4 DEF Drain
  <2>8. QueuedIsHeld'
    BY <2>6, <2>7 DEF QueuedIsHeld, QueueIInv, QueueInv
  <2> QED
    BY <2>4, <2>5, <2>7, <2>8 DEF QueueIInv, QueueType, QueueInv
<1>5. CASE QueueEnds
  <2>1. \A s \in Captures : spanStates[s] # "queued"
    BY <1>5 DEF QueueEnds, QueueIInv, QueueInv, QueuedIsHeld, ToSet
  <2> QED
    BY <1>5, <2>1 DEF QueueEnds, QueueIInv, QueueType, QueueInv, QueuedIsHeld
<1>6. CASE GiveUp
  BY <1>6, AccountedSpans DEF GiveUp
<1>7. CASE Answer
  <2>1. PICK ok \in BOOLEAN : Account(ok)
    BY <1>7 DEF Answer
  <2> QED
    BY <2>1, AccountedSpans
<1>8. CASE UNCHANGED brokerSide
  BY <1>8 DEF QueueIInv, QueueType, QueueInv, QueuedIsHeld
<1>9. ExportSpans \/ Beat \/ Send \/ ServiceNext \/ UNCHANGED exportVars => UNCHANGED brokerSide
  BY DEF ExportSpans, Beat, Send, ServiceNext, Serve, ServeLate, PutBarrier, Passed, Push,
         InterruptCapture, StopService, ServiceGone, StartService, exportVars
<1> QED
  BY <1>1, <1>2, <1>3, <1>4, <1>5, <1>6, <1>7, <1>8, <1>9 DEF ExportNext, QueueNext,
     ExporterNext

\* A capture that is called queued is held, and its status will change: neither a full
\* queue, nor a request that fails, nor a shutdown that races either leaves one behind
\* (telemetry/queue.go:54, queue.go:92).
THEOREM QueuedSpansHeld == ExportSpec => []QueuedIsHeld
<1>1. QueueIInv => QueuedIsHeld
  BY DEF QueueIInv, QueueInv
<1> QED
  BY <1>1, QueueStarts, QueueSteps, PTL DEF ExportSpec

----------------------------------------------------------------------------
(* What the stores hold of the request the exporter waits for.             *)

Settled(d) == post.spans \subseteq stored[d] \/ traced.status[d] = "failed"
Waiting(d) == Settled(d) \/ \E i \in 1 .. Len(toStore[d]) : toStore[d][i] = post.spans
Behind(d) == Settled(d) \/ \E i, j \in 1 .. Len(toStore[d]) :
                              /\ i < j /\ toStore[d][i] = post.spans
                              /\ toStore[d][j] = Barrier

\* A flush goes from one store to the next: a batch is in the queue of a store, then in
\* front of its barrier, then stored, or the record says that the store failed.
FlushInv ==
    post.spans # {} =>
       /\ post.stage \in {"local", "local passing"} => \A d \in destinations : Waiting(d)
       /\ post.stage = "local passing" => Behind("local")
       /\ post.stage \in {"remote", "remote passing"} => Settled("local") /\ Waiting("remote")
       /\ post.stage = "remote passing" => Behind("remote")
       /\ post.stage \in {"local", "local passing", "remote", "remote passing"}
             => traced.known
       /\ post.stage = "done" => \A d \in destinations : post.spans \subseteq stored[d]

StoreIInv == PostType /\ ServiceType /\ FlushInv /\ SentIsStored

LEMMA FlushGoesOn ==
  ASSUME StoreIInv, UNCHANGED <<post, destinations>>, traced.known => traced'.known,
         \A d \in Stores : Settled(d) => Settled(d)',
         \A d \in Stores : Waiting(d) => Waiting(d)',
         \A d \in Stores : Behind(d) => Behind(d)',
         \A d \in Stores : stored[d] \subseteq stored'[d]
  PROVE  FlushInv'
<1> destinations \subseteq Stores /\ "local" \in Stores /\ "remote" \in Stores
  BY DEF StoreIInv, ServiceType, Stores
<1> HIDE DEF Settled, Waiting, Behind
<1> QED
  BY DEF StoreIInv, FlushInv

LEMMA FlushOver ==
  ASSUME StoreIInv,
         post'.spans = {} \/ post'.stage \in {"none", "new", "sent", "refused", "failing"}
  PROVE  FlushInv'
  BY DEF FlushInv

\* What marks a record, leaves no failure out.
LEMMA MarkedRecord ==
  ASSUME NEW c \in Records, NEW ds
  PROVE  /\ Marked(c, ds) \in Records
         /\ Marked(c, ds).known = c.known
         /\ \A d \in Stores : d \in ds => Marked(c, ds).status[d] = "failed"
         /\ \A d \in Stores : c.status[d] = "failed" => Marked(c, ds).status[d] = "failed"
  BY DEF Marked, Records

LEMMA OpenedRecord ==
  ASSUME NEW c \in Records, NEW p \in Posts
  PROVE  /\ Opened(c, p) \in Records
         /\ Opened(c, p).known
         /\ \A d \in Stores : d \in Full /\ p.spans # {} => Opened(c, p).status[d] = "failed"
         /\ \A d \in Stores : c.status[d] = "failed" => Opened(c, p).status[d] = "failed"
<1> DEFINE opened == [c EXCEPT !.known = TRUE, !.closed = (p.kind = "close"),
                               !.interrupted = FALSE]
           marked == IF p.incomplete THEN MarkIncomplete(opened) ELSE opened
<1>1. opened \in Records /\ opened.known /\ opened.status = c.status
  BY DEF Records
<1>2. /\ marked \in Records /\ marked.known
      /\ \A d \in Stores : c.status[d] = "failed" => marked.status[d] = "failed"
  <2> HIDE DEF opened
  <2> QED
    BY <1>1, MarkedRecord DEF MarkIncomplete
<1>3. Opened(c, p) = Marked(marked, IF p.spans = {} THEN {} ELSE Full)
  BY DEF Opened
<1> HIDE DEF marked
<1> QED
  BY <1>2, <1>3, MarkedRecord

LEMMA InterruptedRecord ==
  ASSUME NEW c \in Records
  PROVE  /\ Interrupted(c) \in Records
         /\ Interrupted(c).known = c.known
         /\ \A d \in Stores : c.status[d] = "failed" => Interrupted(c).status[d] = "failed"
<1> DEFINE m == MarkIncomplete(c)
<1>1. /\ m \in Records /\ m.known = c.known
      /\ \A d \in Stores : c.status[d] = "failed" => m.status[d] = "failed"
  BY MarkedRecord DEF MarkIncomplete
<1>2. Interrupted(c) = IF c.known /\ ~c.closed
                       THEN [m EXCEPT !.closed = TRUE, !.interrupted = TRUE] ELSE c
  BY DEF Interrupted
<1> HIDE DEF m
<1> QED
  BY <1>1, <1>2 DEF Records

\* A batch is put into the queue of every store, or its record says that it was not.
LEMMA SubmittedBatch ==
  ASSUME StoreIInv, NEW p \in Posts, NEW saved \in BOOLEAN, SpanBatch(p, saved)
  PROVE  /\ toStore' \in [Stores -> Seq(SUBSET Nat)]
         /\ traced' \in Records /\ tracedFile' \in Records /\ traced'.known
         /\ \A d \in destinations :
               p.spans # {} => \/ traced'.status[d] = "failed"
                               \/ \E i \in 1 .. Len(toStore'[d]) : toStore'[d][i] = p.spans
         /\ \A d \in Stores : /\ Len(toStore[d]) \in Nat /\ Len(toStore'[d]) \in Nat
                              /\ Len(toStore'[d]) >= Len(toStore[d])
                              /\ \A i \in 1 .. Len(toStore[d]) : toStore'[d][i] = toStore[d][i]
         /\ traced.known => \A d \in Stores : traced.status[d] = "failed"
                                                 => traced'.status[d] = "failed"
<1>1. Loaded \in Records /\ (traced.known => Loaded = traced)
  BY DEF Loaded, StoreIInv, ServiceType
<1>2. p.spans \in SUBSET Nat
  BY DEF Posts, Span
<1>3. /\ traced' = Opened(Loaded, p) /\ toStore' = Submitted(p.spans)
      /\ tracedFile' = IF saved THEN Opened(Loaded, p) ELSE tracedFile
  BY DEF SpanBatch
<1>4. destinations \subseteq Stores /\ tracedFile \in Records
      /\ toStore \in [Stores -> Seq(SUBSET Nat)]
  BY DEF StoreIInv, ServiceType
<1>5. /\ traced' \in Records /\ tracedFile' \in Records /\ traced'.known
      /\ \A d \in Stores : d \in Full /\ p.spans # {} => traced'.status[d] = "failed"
      /\ \A d \in Stores : Loaded.status[d] = "failed" => traced'.status[d] = "failed"
  BY <1>1, <1>3, <1>4, OpenedRecord
<1>6. ASSUME NEW d \in Stores
      PROVE  /\ toStore'[d] \in Seq(SUBSET Nat)
             /\ toStore[d] \in Seq(SUBSET Nat)
             /\ Len(toStore[d]) \in Nat /\ Len(toStore'[d]) \in Nat
             /\ Len(toStore'[d]) >= Len(toStore[d])
             /\ \A i \in 1 .. Len(toStore[d]) : toStore'[d][i] = toStore[d][i]
             /\ p.spans # {} /\ d \in destinations \ Full
                   => \E i \in 1 .. Len(toStore'[d]) : toStore'[d][i] = p.spans
  <2>1. toStore[d] \in Seq(SUBSET Nat)
    BY <1>4
  <2>2. CASE p.spans # {} /\ d \in destinations \ Full
    <3>1. toStore'[d] = Append(toStore[d], p.spans)
      BY <1>3, <2>2 DEF Submitted
    <3>2. /\ toStore'[d] \in Seq(SUBSET Nat) /\ Len(toStore'[d]) = Len(toStore[d]) + 1
          /\ \A i \in 1 .. Len(toStore[d]) : toStore'[d][i] = toStore[d][i]
          /\ toStore'[d][Len(toStore[d]) + 1] = p.spans
      BY <1>2, <2>1, <3>1
    <3> QED
      BY <2>1, <3>2
  <2>3. CASE ~(p.spans # {} /\ d \in destinations \ Full)
    <3>1. toStore'[d] = toStore[d]
      BY <1>3, <2>3 DEF Submitted
    <3> QED
      BY <2>1, <2>3, <3>1
  <2> QED
    BY <2>2, <2>3
<1>7. toStore' \in [Stores -> Seq(SUBSET Nat)]
  <2>1. toStore' = [d \in Stores |-> toStore'[d]]
    BY <1>3 DEF Submitted
  <2> QED
    BY <1>6, <2>1
<1> QED
  BY <1>1, <1>4, <1>5, <1>6, <1>7

\* A worker takes the head of a store's queue: what it takes is stored, or has failed.
LEMMA PushedBatch == StoreIInv /\ Push => StoreIInv'
<1> SUFFICES ASSUME StoreIInv, Push PROVE StoreIInv'
  OBVIOUS
<1>0. PICK d \in destinations :
         /\ service # "down" /\ toStore[d] # <<>>
         /\ toStore' = [toStore EXCEPT ![d] = Tail(@)]
         /\ IF Head(toStore[d]) = Barrier
            THEN UNCHANGED <<stored, traced, tracedFile, exportFaults>>
            ELSE \E ok, taken, saved \in BOOLEAN :
                 /\ ok => taken
                 /\ ExportFault(~ok \/ ~saved)
                 /\ stored' = IF taken THEN [stored EXCEPT ![d] = @ \union Head(toStore[d])]
                              ELSE stored
                 /\ LET c == [traced EXCEPT !.status[d] =
                                 IF ok /\ @ # "failed" THEN "accepted" ELSE "failed"]
                    IN  /\ traced' = IF saved THEN c ELSE Marked(c, {"local"})
                        /\ tracedFile' = IF saved THEN c ELSE tracedFile
         /\ UNCHANGED <<brokerSide, exporter, post, latePost, service, destinations>>
  BY Zenon DEF Push
<1>1. /\ toStore[d] # <<>>
      /\ toStore' = [toStore EXCEPT ![d] = Tail(@)]
      /\ \/ Head(toStore[d]) = Barrier /\ UNCHANGED <<stored, traced, tracedFile>>
         \/ /\ Head(toStore[d]) # Barrier
            /\ \E ok, taken, saved \in BOOLEAN :
                 /\ ok => taken
                 /\ stored' = IF taken
                              THEN [stored EXCEPT ![d] = @ \union Head(toStore[d])]
                              ELSE stored
                 /\ LET c == [traced EXCEPT !.status[d] =
                                 IF ok /\ @ # "failed" THEN "accepted" ELSE "failed"]
                    IN  /\ traced' = IF saved THEN c ELSE Marked(c, {"local"})
                        /\ tracedFile' = IF saved THEN c ELSE tracedFile
      /\ UNCHANGED <<spanStates, exporter, post, latePost, destinations>>
  BY <1>0
<1>2. /\ destinations \subseteq Stores /\ d \in Stores
      /\ toStore \in [Stores -> Seq(SUBSET Nat)] /\ stored \in [Stores -> SUBSET Nat]
      /\ traced \in Records /\ tracedFile \in Records /\ post \in Posts /\ "local" \in destinations
  BY <1>1 DEF StoreIInv, ServiceType, PostType
<1>3. /\ toStore[d] \in Seq(SUBSET Nat) /\ Len(toStore[d]) \in Nat /\ Len(toStore[d]) >= 1
      /\ Head(toStore[d]) = toStore[d][1] /\ Head(toStore[d]) \in SUBSET Nat
      /\ toStore'[d] = Tail(toStore[d])
      /\ \A e \in Stores \ {d} : toStore'[e] = toStore[e]
  BY <1>1, <1>2
<1>4. /\ toStore'[d] \in Seq(SUBSET Nat) /\ Len(toStore'[d]) = Len(toStore[d]) - 1
      /\ \A i \in 2 .. Len(toStore[d]) : toStore'[d][i - 1] = toStore[d][i]
  BY <1>3
<1>5. toStore' \in [Stores -> Seq(SUBSET Nat)]
  BY <1>1, <1>2, <1>4
<1>6. /\ traced' \in Records /\ tracedFile' \in Records /\ traced'.known = traced.known
      /\ \A e \in Stores : traced.status[e] = "failed" => traced'.status[e] = "failed"
      /\ stored' \in [Stores -> SUBSET Nat] /\ \A e \in Stores : stored[e] \subseteq stored'[e]
      /\ Head(toStore[d]) # Barrier
           => Head(toStore[d]) \subseteq stored'[d] \/ traced'.status[d] = "failed"
  <2>1. CASE Head(toStore[d]) = Barrier /\ UNCHANGED <<stored, traced, tracedFile>>
    BY <1>2, <2>1
  <2>2. ASSUME NEW ok \in BOOLEAN, NEW taken \in BOOLEAN, NEW saved \in BOOLEAN, ok => taken,
               stored' = IF taken THEN [stored EXCEPT ![d] = @ \union Head(toStore[d])]
                         ELSE stored,
               LET c == [traced EXCEPT !.status[d] =
                             IF ok /\ @ # "failed" THEN "accepted" ELSE "failed"]
               IN  /\ traced' = IF saved THEN c ELSE Marked(c, {"local"})
                   /\ tracedFile' = IF saved THEN c ELSE tracedFile
        PROVE  /\ traced' \in Records /\ tracedFile' \in Records /\ traced'.known = traced.known
               /\ \A e \in Stores : traced.status[e] = "failed" => traced'.status[e] = "failed"
               /\ stored' \in [Stores -> SUBSET Nat] /\ \A e \in Stores : stored[e] \subseteq stored'[e]
               /\ Head(toStore[d]) # Barrier
                    => Head(toStore[d]) \subseteq stored'[d] \/ traced'.status[d] = "failed"
    <3> DEFINE c == [traced EXCEPT !.status[d] =
                        IF ok /\ @ # "failed" THEN "accepted" ELSE "failed"]
    <3>1. /\ c \in Records /\ c.known = traced.known
          /\ \A e \in Stores : traced.status[e] = "failed" => c.status[e] = "failed"
          /\ ~ok => c.status[d] = "failed"
      BY <1>2 DEF Records
    <3>2. /\ traced' = IF saved THEN c ELSE Marked(c, {"local"})
          /\ tracedFile' = IF saved THEN c ELSE tracedFile
      BY <2>2
    <3> HIDE DEF c
    <3>3. /\ traced' \in Records /\ tracedFile' \in Records /\ traced'.known = traced.known
          /\ \A e \in Stores : c.status[e] = "failed" => traced'.status[e] = "failed"
      BY <1>2, <3>1, <3>2, MarkedRecord
    <3>4. /\ stored' \in [Stores -> SUBSET Nat] /\ \A e \in Stores : stored[e] \subseteq stored'[e]
          /\ taken => Head(toStore[d]) \subseteq stored'[d]
      BY <1>2, <1>3, <2>2
    <3> QED
      BY <1>2, <2>2, <3>1, <3>3, <3>4
  <2> QED
    BY <1>1, <2>1, <2>2
<1>7. post.spans # Barrier /\ UNCHANGED <<post, destinations>>
  BY <1>1, <1>2 DEF Posts, Span, Barrier
<1>8. ASSUME NEW e \in Stores PROVE Settled(e) => Settled(e)'
  BY <1>6, <1>7 DEF Settled
<1>9. ASSUME NEW e \in Stores PROVE Waiting(e) => Waiting(e)'
  <2> SUFFICES ASSUME ~Settled(e), NEW i \in 1 .. Len(toStore[e]), toStore[e][i] = post.spans
               PROVE  Waiting(e)'
    BY <1>8 DEF Waiting
  <2>1. CASE e # d
    BY <1>3, <1>7, <2>1 DEF Waiting
  <2>2. CASE e = d /\ i = 1
    BY <1>3, <1>6, <1>7, <2>2 DEF Waiting, Settled
  <2>3. CASE e = d /\ i # 1
    <3>1. i \in 2 .. Len(toStore[d]) /\ i - 1 \in 1 .. Len(toStore'[d])
      BY <1>3, <1>4, <2>3
    <3>2. toStore'[d][i - 1] = post'.spans
      BY <1>4, <1>7, <2>3, <3>1
    <3> QED
      BY <2>3, <3>1, <3>2 DEF Waiting
  <2> QED
    BY <2>1, <2>2, <2>3
<1>10. ASSUME NEW e \in Stores PROVE Behind(e) => Behind(e)'
  <2> SUFFICES ASSUME ~Settled(e), NEW i \in 1 .. Len(toStore[e]), NEW j \in 1 .. Len(toStore[e]),
                      i < j, toStore[e][i] = post.spans, toStore[e][j] = Barrier
               PROVE  Behind(e)'
    BY <1>8 DEF Behind
  <2>1. CASE e # d
    BY <1>3, <1>7, <2>1 DEF Behind
  <2>2. CASE e = d /\ i = 1
    BY <1>3, <1>6, <1>7, <2>2 DEF Behind, Settled
  <2>3. CASE e = d /\ i # 1
    <3>1. /\ i \in 2 .. Len(toStore[d]) /\ i - 1 \in 1 .. Len(toStore'[d])
          /\ j \in 2 .. Len(toStore[d]) /\ j - 1 \in 1 .. Len(toStore'[d]) /\ i - 1 < j - 1
      BY <1>3, <1>4, <2>3
    <3>2. toStore'[d][i - 1] = post'.spans /\ toStore'[d][j - 1] = Barrier
      BY <1>4, <1>7, <2>3, <3>1
    <3> QED
      BY <2>3, <3>1, <3>2 DEF Behind
  <2> QED
    BY <2>1, <2>2, <2>3
<1>11. FlushInv'
  BY <1>6, <1>7, <1>8, <1>9, <1>10, FlushGoesOn
<1>12. SentIsStored'
  BY <1>1, <1>2, <1>6 DEF StoreIInv, SentIsStored
<1> QED
  BY <1>1, <1>2, <1>5, <1>6, <1>11, <1>12 DEF StoreIInv, PostType, ServiceType

\* A request that is served.
LEMMA ServedRequest == StoreIInv /\ Serve => StoreIInv'
<1> SUFFICES ASSUME StoreIInv, Serve PROVE StoreIInv'
  OBVIOUS
<1>1. /\ UNCHANGED <<spanStates, exporter, latePost, stored, destinations>>
      /\ post.stage = "sent" /\ post \in Posts
  BY DEF Serve, brokerSide, StoreIInv, PostType
<1>2. SentIsStored'
  BY <1>1 DEF StoreIInv, SentIsStored
<1>3. CASE Over(Loaded)
  <2>1. /\ post' = [post EXCEPT !.stage = IF post.kind = "close" THEN "local" ELSE "refused"]
        /\ traced' = Loaded /\ UNCHANGED <<toStore, tracedFile>>
    BY <1>3 DEF Serve
  <2>2. post' \in Posts /\ (post'.spans = {} \/ post'.stage = "refused")
    BY <1>1, <2>1 DEF Posts, Stage, StoreIInv, PostType
  <2>3. FlushInv'
    BY <2>2, FlushOver
  <2> QED
    BY <1>1, <1>2, <2>1, <2>2, <2>3 DEF StoreIInv, PostType, ServiceType, Loaded
<1>4. CASE ~Over(Loaded)
  <2>1. PICK saved \in BOOLEAN :
           /\ SpanBatch(post, saved)
           /\ post' = [post EXCEPT !.stage = IF ~saved THEN "refused"
                                             ELSE IF post.kind = "beat" THEN Verdict(traced')
                                             ELSE "local"]
    BY <1>4 DEF Serve
  <2>2. post' \in Posts /\ post'.spans = post.spans
    BY <1>1, <2>1 DEF Posts, Stage, Verdict
  <2>3. /\ toStore' \in [Stores -> Seq(SUBSET Nat)]
        /\ traced' \in Records /\ tracedFile' \in Records /\ traced'.known
        /\ \A d \in destinations :
              post.spans # {} => \/ traced'.status[d] = "failed"
                                 \/ \E i \in 1 .. Len(toStore'[d]) : toStore'[d][i] = post.spans
    BY <1>1, <2>1, SubmittedBatch
  <2>4. FlushInv'
    <3>1. CASE post.spans = {} \/ ~saved
      <4>1. post'.spans = {} \/ post'.stage = "refused"
        BY <1>1, <2>1, <2>2, <3>1 DEF Posts
      <4> QED
        BY <4>1, FlushOver
    <3>2. CASE post.spans # {} /\ saved
      <4>1. post'.stage = "local"
        BY <1>1, <2>1, <3>2 DEF Posts, StoreIInv, PostType
      <4>2. \A d \in destinations : Waiting(d)'
        BY <2>2, <2>3, <3>2 DEF Waiting, Settled
      <4> HIDE DEF Waiting, Settled, Behind
      <4> QED
        BY <1>1, <2>3, <4>1, <4>2 DEF FlushInv
    <3> QED
      BY <3>1, <3>2
  <2>5. post'.spans # {} => post'.kind = "batch"
    BY <1>1, <2>1 DEF Posts, StoreIInv, PostType
  <2>6. PostType'
    BY <1>1, <2>2, <2>5 DEF StoreIInv, PostType
  <2>7. ServiceType'
    BY <1>1, <2>3 DEF StoreIInv, ServiceType
  <2> QED
    BY <1>2, <2>4, <2>6, <2>7 DEF StoreIInv
<1> QED
  BY <1>3, <1>4

LEMMA ServedLate == StoreIInv /\ ServeLate => StoreIInv'
<1> SUFFICES ASSUME StoreIInv, ServeLate PROVE StoreIInv'
  OBVIOUS
<1>1. /\ UNCHANGED <<spanStates, exporter, post, stored, destinations>>
      /\ latePost' = NoPost /\ latePost \in Posts /\ latePost' \in Posts
  BY DEF ServeLate, brokerSide, StoreIInv, PostType, Posts, Stage, NoPost
<1>2. SentIsStored'
  BY <1>1 DEF StoreIInv, SentIsStored
<1>3. CASE Over(Loaded)
  <2>1. UNCHANGED <<traced, toStore, tracedFile>>
    BY <1>3 DEF ServeLate
  <2>2. FlushInv'
    BY <1>1, <2>1 DEF StoreIInv, FlushInv, Settled, Waiting, Behind
  <2> QED
    BY <1>1, <1>2, <2>1, <2>2 DEF StoreIInv, PostType, ServiceType
<1>4. CASE ~Over(Loaded)
  <2>1. PICK saved \in BOOLEAN : SpanBatch(latePost, saved)
    BY <1>4 DEF ServeLate
  <2>2. /\ toStore' \in [Stores -> Seq(SUBSET Nat)]
        /\ traced' \in Records /\ tracedFile' \in Records /\ traced'.known
        /\ \A d \in Stores : /\ Len(toStore[d]) \in Nat /\ Len(toStore'[d]) \in Nat
                             /\ Len(toStore'[d]) >= Len(toStore[d])
                             /\ \A i \in 1 .. Len(toStore[d]) : toStore'[d][i] = toStore[d][i]
        /\ traced.known => \A d \in Stores : traced.status[d] = "failed"
                                                => traced'.status[d] = "failed"
    BY <1>1, <2>1, SubmittedBatch
  <2>3. CASE ~traced.known
    <3>1. FlushInv'
      BY <1>1, <2>3 DEF StoreIInv, FlushInv
    <3> QED
      BY <1>1, <1>2, <2>2, <3>1 DEF StoreIInv, PostType, ServiceType
  <2>4. CASE traced.known
    <3>1. ASSUME NEW d \in Stores PROVE Settled(d) => Settled(d)'
      BY <1>1, <2>2, <2>4 DEF Settled
    <3>2. ASSUME NEW d \in Stores PROVE Waiting(d) => Waiting(d)'
      BY <1>1, <2>2, <3>1 DEF Waiting
    <3>3. ASSUME NEW d \in Stores PROVE Behind(d) => Behind(d)'
      BY <1>1, <2>2, <3>1 DEF Behind
    <3>4. FlushInv'
      BY <1>1, <2>2, <3>1, <3>2, <3>3, FlushGoesOn
    <3> QED
      BY <1>1, <1>2, <2>2, <3>4 DEF StoreIInv, PostType, ServiceType
  <2> QED
    BY <2>3, <2>4
<1> QED
  BY <1>3, <1>4

\* The barrier of a flush, and its return.
LEMMA BarrierPut == StoreIInv /\ PutBarrier => StoreIInv'
<1> SUFFICES ASSUME StoreIInv, PutBarrier PROVE StoreIInv'
  OBVIOUS
<1>1. PICK d \in destinations :
         /\ post.stage = d
         /\ toStore' = [toStore EXCEPT ![d] = Append(@, Barrier)]
         /\ post' = [post EXCEPT !.stage = Passing(d)]
         /\ UNCHANGED <<spanStates, exporter, latePost, traced, tracedFile, stored, destinations>>
  BY DEF PutBarrier, brokerSide
<1>2. /\ d \in Stores /\ destinations \subseteq Stores /\ post \in Posts
      /\ toStore \in [Stores -> Seq(SUBSET Nat)] /\ Barrier \in SUBSET Nat
  BY <1>1 DEF StoreIInv, ServiceType, PostType, Barrier
<1>3. d = "local" \/ d = "remote"
  BY <1>2 DEF Stores
<1>4. post' \in Posts /\ post'.spans = post.spans /\ post'.stage = Passing(d)
  BY <1>1, <1>2, <1>3 DEF Posts, Stage, Passing
<1>5. ASSUME NEW e \in Stores
      PROVE  /\ Len(toStore[e]) \in Nat /\ Len(toStore'[e]) \in Nat
             /\ Len(toStore'[e]) >= Len(toStore[e]) /\ toStore'[e] \in Seq(SUBSET Nat)
             /\ \A i \in 1 .. Len(toStore[e]) : toStore'[e][i] = toStore[e][i]
             /\ e = d => /\ Len(toStore'[e]) = Len(toStore[e]) + 1
                         /\ toStore'[e][Len(toStore[e]) + 1] = Barrier
  <2>1. toStore[e] \in Seq(SUBSET Nat)
    BY <1>2
  <2>2. toStore'[e] = IF e = d THEN Append(toStore[e], Barrier) ELSE toStore[e]
    BY <1>1, <1>2
  <2>3. CASE e = d
    BY <1>2, <2>1, <2>2, <2>3
  <2>4. CASE e # d
    <3>1. toStore'[e] = toStore[e]
      BY <2>2, <2>4
    <3> QED
      BY <2>1, <2>4, <3>1
  <2> QED
    BY <2>3, <2>4
<1>6. toStore' \in [Stores -> Seq(SUBSET Nat)]
  BY <1>1, <1>2, <1>5
<1>7. ASSUME NEW e \in Stores
      PROVE  (Settled(e) => Settled(e)') /\ (Waiting(e) => Waiting(e)')
  BY <1>1, <1>4, <1>5 DEF Waiting, Settled
<1>8. Waiting(d) => Behind(d)'
  <2> SUFFICES ASSUME ~Settled(d), NEW i \in 1 .. Len(toStore[d]), toStore[d][i] = post.spans
               PROVE  Behind(d)'
    BY <1>2, <1>7 DEF Waiting, Behind
  <2>1. /\ i \in 1 .. Len(toStore'[d]) /\ Len(toStore[d]) + 1 \in 1 .. Len(toStore'[d])
        /\ i < Len(toStore[d]) + 1 /\ toStore'[d][i] = post'.spans
        /\ toStore'[d][Len(toStore[d]) + 1] = Barrier
    BY <1>2, <1>4, <1>5
  <2> QED
    BY <2>1 DEF Behind
<1>9. FlushInv'
  <2> HIDE DEF Settled, Waiting, Behind
  <2> SUFFICES ASSUME post.spans # {} PROVE FlushInv'
    BY <1>4 DEF FlushInv
  <2>1. CASE d = "local"
    <3>1. post'.stage = "local passing"
      BY <1>4, <2>1 DEF Passing
    <3>2. (\A e \in destinations : Waiting(e)) /\ traced.known
      BY <1>1, <2>1 DEF StoreIInv, FlushInv
    <3>3. (\A e \in destinations' : Waiting(e)') /\ traced'.known /\ Behind("local")'
      BY <1>1, <1>2, <1>7, <1>8, <2>1, <3>2
    <3> QED
      BY <3>1, <3>3 DEF FlushInv
  <2>2. CASE d = "remote"
    <3>1. post'.stage = "remote passing"
      BY <1>4, <2>2 DEF Passing
    <3>2. Settled("local") /\ Waiting("remote") /\ traced.known
      BY <1>1, <2>2 DEF StoreIInv, FlushInv
    <3>3. "local" \in Stores /\ "remote" \in Stores
      BY DEF Stores
    <3>4. Settled("local")' /\ Waiting("remote")' /\ traced'.known /\ Behind("remote")'
      BY <1>1, <1>2, <1>7, <1>8, <2>2, <3>2, <3>3
    <3> QED
      BY <3>1, <3>4 DEF FlushInv
  <2> QED
    BY <1>3, <2>1, <2>2
<1>10. SentIsStored'
  BY <1>1 DEF StoreIInv, SentIsStored
<1> QED
  BY <1>1, <1>4, <1>6, <1>9, <1>10 DEF StoreIInv, PostType, ServiceType

LEMMA BarrierPassed == StoreIInv /\ Passed => StoreIInv'
<1> SUFFICES ASSUME StoreIInv, Passed PROVE StoreIInv'
  OBVIOUS
<1>1. PICK d \in destinations :
         /\ post.stage = Passing(d) /\ ~Contains(toStore[d], Barrier)
         /\ post' = [post EXCEPT !.stage = NextStage(post.stage)]
         /\ UNCHANGED <<spanStates, exporter, latePost, traced, tracedFile, toStore, stored,
                        destinations>>
  BY DEF Passed, brokerSide, serviceSide
<1>2. destinations \subseteq Stores /\ post \in Posts /\ "local" \in destinations
  BY DEF StoreIInv, ServiceType, PostType
<1>3. d = "local" \/ d = "remote"
  BY <1>1, <1>2 DEF Stores
<1>4. NextStage(post.stage) \in {"remote", "failing", "done"}
  BY DEF NextStage, Verdict
<1>5. post' \in Posts /\ post'.spans = post.spans /\ post'.stage = NextStage(post.stage)
  BY <1>1, <1>2, <1>4 DEF Posts, Stage
<1>6. Behind(d) => Settled(d)
  BY <1>1 DEF Behind, Contains
<1>7. /\ \A e \in Stores : Settled(e)' <=> Settled(e)
      /\ \A e \in Stores : Waiting(e)' <=> Waiting(e)
  BY <1>1, <1>5 DEF Settled, Waiting
<1>8. ASSUME post.spans # {} PROVE FlushInv'
  <2>1. Settled(d) /\ (d = "remote" => Settled("local"))
    BY <1>1, <1>3, <1>6, <1>8 DEF StoreIInv, FlushInv, Passing
  <2>2. CASE NextStage(post.stage) = "remote"
    <3>1. d = "local" /\ "remote" \in destinations
      BY <1>1, <1>3, <2>2 DEF NextStage, Passing, Verdict
    <3>2. Waiting("remote") /\ traced.known
      BY <1>1, <1>8, <3>1 DEF StoreIInv, FlushInv, Passing
    <3>3. Settled("local")' /\ Waiting("remote")' /\ traced'.known
      BY <1>1, <1>2, <1>7, <2>1, <3>1, <3>2
    <3>4. post'.stage = "remote"
      BY <1>5, <2>2
    <3> HIDE DEF Settled, Waiting, Behind
    <3> QED
      BY <3>3, <3>4 DEF FlushInv
  <2>3. CASE NextStage(post.stage) = "failing"
    <3>1. post'.stage = "failing"
      BY <1>5, <2>3
    <3> QED
      BY <3>1, FlushOver
  <2>4. CASE NextStage(post.stage) = "done"
    <3>1. \A e \in Stores : traced.status[e] # "failed"
      BY <2>4 DEF NextStage, Verdict
    <3>2. d = "remote" \/ destinations = {"local"}
      BY <1>1, <1>2, <1>3, <2>4 DEF NextStage, Passing, Stores
    <3>3. \A e \in destinations : Settled(e)
      BY <1>1, <1>2, <1>3, <2>1, <3>2 DEF Stores
    <3>4. \A e \in destinations : post.spans \subseteq stored[e]
      BY <1>2, <3>1, <3>3 DEF Settled
    <3>5. post'.stage = "done" /\ \A e \in destinations' : post'.spans \subseteq stored'[e]
      BY <1>1, <1>5, <2>4, <3>4
    <3> QED
      BY <3>5 DEF FlushInv
  <2> QED
    BY <1>4, <2>2, <2>3, <2>4
<1>9. ASSUME post.spans = {} PROVE FlushInv'
  <2>1. post'.spans = {}
    BY <1>5, <1>9
  <2> QED
    BY <2>1, FlushOver
<1>10. FlushInv'
  BY <1>8, <1>9
<1>11. SentIsStored'
  BY <1>1 DEF StoreIInv, SentIsStored
<1> QED
  BY <1>1, <1>5, <1>10, <1>11 DEF StoreIInv, PostType, ServiceType

\* The steps that change no store, queue of a store or record.
LEMMA BrokerSteps ==
  ASSUME QueueIInv, StoreIInv, UNCHANGED <<serviceSide, destinations>>,
         QueueNext \/ ExporterNext
  PROVE  StoreIInv'
<1> USE DEF serviceSide, brokerSide
<1>1. ServiceType'
  BY DEF StoreIInv, ServiceType
<1>2. /\ post \in Posts /\ latePost \in Posts /\ batch \subseteq Span
      /\ exporter \in [endpoint : BOOLEAN, incomplete : BOOLEAN]
      /\ post.spans # {} => post.kind = "batch"
      /\ SentIsStored
  BY DEF StoreIInv, PostType, QueueIInv, QueueType
<1>3. NoPost \in Posts /\ NoPost.spans = {}
  BY DEF Posts, NoPost, Stage
<1>4. CASE UNCHANGED <<post, latePost, exporter>> /\ \A s \in Captures :
                spanStates'[s] = "sent" => spanStates[s] = "sent"
  <2>1. FlushInv'
    BY <1>4 DEF StoreIInv, FlushInv, Settled, Waiting, Behind
  <2>2. SentIsStored'
    BY <1>2, <1>4 DEF SentIsStored
  <2> QED
    BY <1>1, <1>2, <1>4, <2>1, <2>2 DEF StoreIInv, PostType
<1>5. ASSUME UNCHANGED <<latePost, spanStates>>, post' \in Posts,
             exporter' \in [endpoint : BOOLEAN, incomplete : BOOLEAN],
             post'.spans # {} => post'.kind = "batch",
             post'.spans = {} \/ post'.stage \in {"none", "new", "sent", "refused", "failing"}
      PROVE  StoreIInv'
  <2>1. FlushInv'
    BY <1>5, FlushOver
  <2>2. SentIsStored'
    BY <1>2, <1>5 DEF SentIsStored
  <2> QED
    BY <1>1, <1>2, <1>5, <2>1, <2>2 DEF StoreIInv, PostType
<1>6. ASSUME NEW ok \in BOOLEAN, Account(ok), latePost' \in {latePost, post},
             exporter' \in [endpoint : BOOLEAN, incomplete : BOOLEAN],
             ok => post.stage = "done"
      PROVE  StoreIInv'
  <2>1. post' = NoPost /\ spanStates' = WithStates(post.spans, IF ok THEN "sent" ELSE "failed")
    BY <1>6 DEF Account
  <2>2. post'.spans = {}
    BY <1>3, <2>1
  <2>3. FlushInv'
    BY <2>2, FlushOver
  <2>4. SentIsStored'
    <3> SUFFICES ASSUME NEW s \in Captures, spanStates'[s] = "sent", NEW d \in destinations
                 PROVE  s \in stored[d]
      BY DEF SentIsStored
    <3>1. CASE s \in post.spans
      <4>1. ok /\ post.stage = "done" /\ post.spans # {}
        BY <1>6, <2>1, <3>1 DEF WithStates
      <4> QED
        BY <3>1, <4>1 DEF StoreIInv, FlushInv
    <3>2. CASE s \notin post.spans
      <4>1. spanStates[s] = "sent"
        BY <2>1, <3>2 DEF WithStates
      <4> QED
        BY <1>2, <4>1 DEF SentIsStored
    <3> QED
      BY <3>1, <3>2
  <2> QED
    BY <1>1, <1>2, <1>3, <1>6, <2>1, <2>2, <2>3, <2>4 DEF StoreIInv, PostType
<1>7. CASE Capture \/ CloseTrace \/ ShutQueue \/ Drain
  <2>1. UNCHANGED <<post, latePost, exporter>>
    BY <1>7 DEF Capture, CloseTrace, ShutQueue, Drain
  <2>2. \A s \in Captures : spanStates'[s] = "sent" => spanStates[s] = "sent"
    BY <1>7 DEF Capture, CloseTrace, ShutQueue, Drain, OnEnd, WithStates
  <2> QED
    BY <1>4, <2>1, <2>2
<1>8. CASE QueueEnds
  <2>1. UNCHANGED <<latePost, spanStates, exporter>>
    BY <1>8 DEF QueueEnds
  <2>2. post' \in Posts /\ post'.spans = {}
    BY ZenonT(40), <1>2, <1>3, <1>8 DEF QueueEnds, NoPost, Posts, Stage
  <2> QED
    BY <1>2, <1>5, <2>1, <2>2
<1>9. CASE ExportSpans
  BY <1>2, <1>5, <1>9 DEF ExportSpans, NoPost, Posts, Stage
<1>10. CASE Beat
  BY <1>2, <1>5, <1>10 DEF Beat, NoPost, Posts, Stage
<1>11. CASE Send
  BY <1>2, <1>5, <1>11 DEF Send, Posts, Stage
<1>12. CASE GiveUp
  BY <1>6, <1>12 DEF GiveUp
<1>13. CASE Answer
  BY <1>2, <1>6, <1>13 DEF Answer
<1> QED
  BY <1>7, <1>8, <1>9, <1>10, <1>11, <1>12, <1>13 DEF QueueNext, ExporterNext

\* The end of a producer, of the service, and its next start.
LEMMA ServiceEnds ==
  ASSUME StoreIInv, InterruptCapture \/ StopService \/ ServiceGone \/ StartService
  PROVE  StoreIInv'
<1>1. /\ UNCHANGED <<spanStates, stored, destinations, exporter>>
      /\ post \in Posts /\ latePost \in Posts /\ NoPost \in Posts
      /\ traced \in Records /\ tracedFile \in Records /\ Loaded \in Records
      /\ NoRecord \in Records /\ toStore \in [Stores -> Seq(SUBSET Nat)]
      /\ [d \in Stores |-> <<>>] \in [Stores -> Seq(SUBSET Nat)]
  <2>1. UNCHANGED <<spanStates, stored, destinations, exporter>>
    BY DEF InterruptCapture, StopService, ServiceGone, StartService, brokerSide
  <2>2. /\ post \in Posts /\ latePost \in Posts
        /\ traced \in Records /\ tracedFile \in Records /\ Loaded \in Records
        /\ toStore \in [Stores -> Seq(SUBSET Nat)]
    BY DEF StoreIInv, PostType, ServiceType, Loaded
  <2>3. NoPost \in Posts /\ NoRecord \in Records
    BY DEF Posts, Stage, NoPost, NoRecord, Records
  <2>4. [d \in Stores |-> <<>>] \in [Stores -> Seq(SUBSET Nat)]
    OBVIOUS
  <2> QED
    BY <2>1, <2>2, <2>3, <2>4
<1>2. latePost' \in {latePost, NoPost}
  BY DEF InterruptCapture, StopService, ServiceGone, StartService
<1>3. SentIsStored'
  BY <1>1 DEF StoreIInv, SentIsStored
<1>4. CASE InterruptCapture \/ StopService \/ StartService
  <2>1. /\ UNCHANGED <<post, toStore>>
        /\ traced' \in {traced, Interrupted(traced)}
        /\ tracedFile' \in {Interrupted(traced), Interrupted(Loaded), Interrupted(tracedFile)}
    BY <1>4 DEF InterruptCapture, StopService, StartService
  <2>2. /\ traced' \in Records /\ tracedFile' \in Records /\ traced'.known = traced.known
        /\ \A d \in Stores : traced.status[d] = "failed" => traced'.status[d] = "failed"
    BY <1>1, <2>1, InterruptedRecord
  <2>3. ASSUME NEW d \in Stores
        PROVE  /\ Settled(d) => Settled(d)'
               /\ Waiting(d) => Waiting(d)'
               /\ Behind(d) => Behind(d)'
               /\ stored[d] \subseteq stored'[d]
    BY <1>1, <2>1, <2>2 DEF Settled, Waiting, Behind
  <2>4. FlushInv'
    BY <1>1, <2>1, <2>2, <2>3, FlushGoesOn
  <2> QED
    BY <1>1, <1>2, <1>3, <2>1, <2>2, <2>4 DEF StoreIInv, PostType, ServiceType
<1>5. CASE ServiceGone
  <2>1. /\ traced' = NoRecord /\ toStore' = [d \in Stores |-> <<>>] /\ UNCHANGED tracedFile
        /\ post' = IF post.stage \in {"none", "new"} THEN post
                   ELSE [post EXCEPT !.stage = "refused"]
    BY <1>5 DEF ServiceGone
  <2>2. post' \in Posts /\ post'.stage \in {"none", "new", "refused"}
        /\ post'.spans = post.spans /\ post'.kind = post.kind
    BY <1>1, <2>1 DEF Posts, Stage
  <2>3. FlushInv'
    BY <2>2, FlushOver
  <2> QED
    BY <1>1, <1>2, <1>3, <2>1, <2>2, <2>3 DEF StoreIInv, PostType, ServiceType
<1> QED
  BY <1>4, <1>5

LEMMA StoreStarts == ExportInit => StoreIInv
<1> SUFFICES ASSUME ExportInit PROVE StoreIInv
  OBVIOUS
<1>1. NoPost \in Posts /\ NoPost.spans = {} /\ NoRecord \in Records
  BY DEF Posts, NoPost, Stage, NoRecord, Records
<1>2. PostType
  BY <1>1 DEF ExportInit, PostType
<1>3. ServiceType
  BY <1>1 DEF ExportInit, ServiceType, Stores
<1>4. FlushInv
  BY <1>1 DEF ExportInit, FlushInv
<1>5. SentIsStored
  BY DEF ExportInit, SentIsStored
<1> QED
  BY <1>2, <1>3, <1>4, <1>5 DEF StoreIInv

LEMMA StoreStutters == StoreIInv /\ UNCHANGED exportVars => StoreIInv'
<1> SUFFICES ASSUME StoreIInv, UNCHANGED exportVars PROVE StoreIInv'
  OBVIOUS
<1>1. UNCHANGED <<spanStates, exporter, post, latePost, traced, tracedFile, destinations,
                  toStore, stored>>
  BY DEF exportVars, brokerSide, serviceSide
<1>2. PostType' /\ ServiceType'
  BY <1>1 DEF StoreIInv, PostType, ServiceType
<1>3. FlushInv'
  BY <1>1 DEF StoreIInv, FlushInv, Settled, Waiting, Behind
<1>4. SentIsStored'
  BY <1>1 DEF StoreIInv, SentIsStored
<1> QED
  BY <1>2, <1>3, <1>4 DEF StoreIInv

LEMMA StoreSteps == QueueIInv /\ StoreIInv /\ [ExportNext]_exportVars => StoreIInv'
<1>1. QueueNext \/ ExporterNext => UNCHANGED <<serviceSide, destinations>>
  BY DEF QueueNext, ExporterNext, Capture, CloseTrace, ShutQueue, Drain, QueueEnds,
         ExportSpans, Beat, Send, GiveUp, Answer
<1> QED
  BY <1>1, BrokerSteps, ServedRequest, ServedLate, BarrierPut, BarrierPassed, PushedBatch,
     ServiceEnds, StoreStutters DEF ExportNext, ServiceNext

\* A capture that is called sent is in every store, though batches fail, answers are lost
\* or late and the service dies in between: the flush answers for what its barrier has
\* passed (tracing/service.go:363, tracing/spans.go:204).
THEOREM SentSpansStored == ExportSpec => []SentIsStored
<1>1. QueueIInv /\ StoreIInv /\ [ExportNext]_exportVars => (QueueIInv /\ StoreIInv)'
  BY QueueSteps, StoreSteps
<1>2. StoreIInv => SentIsStored
  BY DEF StoreIInv
<1> QED
  BY <1>1, <1>2, QueueStarts, StoreStarts, PTL DEF ExportSpec

----------------------------------------------------------------------------
(* The discussion document.                                                *)

Threads == Natives \X Contents
Documents == [revision : Nat, threads : Seq(Threads), posts : SUBSET Nat]

FilesType ==
    /\ liveDocument \in Documents
    /\ archived = <<>> \/ \E d \in Documents : archived = <<d>>
    /\ drafts \in [Authors -> Documents]
    /\ postCount \in Nat /\ posted \subseteq Nat
    /\ importer \in [stage : {"away", "read", "commit"}, todo : Seq(Threads),
                    draft : Documents, attempts : Nat,
                    index : SUBSET (Natives \union LinkedThreads)]
    /\ index \subseteq Natives \union LinkedThreads

\* What was read at the revision of today, is the document of today.
Fresh(d) == ~Stale(d) => d = Document

Distinct(threads) ==
    \A j, k \in 1 .. Len(threads) : threads[j][1] = threads[k][1] => j = k

DraftInv ==
    /\ \A a \in Authors : drafts[a] # NoDraft
          => drafts[a].revision <= Document.revision /\ Fresh(drafts[a])
    /\ importer.stage = "commit" =>
          /\ importer.draft.revision <= Document.revision /\ Fresh(importer.draft)
          /\ importer.todo # <<>> /\ ~Found(importer.draft, Head(importer.todo)[1])

\* What the import will write into the index, holds what is in it.
IndexInv ==
    /\ index = imported \union linkedThreads
    /\ importer # Away => index \subseteq importer.index
    /\ \A n \in importer.index \ index : Found(Document, n)
    /\ \A n \in imported : Found(Document, n)

FilesInv == /\ FilesType /\ DraftInv /\ IndexInv
            /\ posted \subseteq Document.posts /\ Distinct(Document.threads)

LEMMA DocumentType == FilesType => Document \in Documents
  BY DEF FilesType, Document

\* A write replaces the document, wherever it is.
LEMMA WrittenDocument ==
  ASSUME FilesType, NEW d \in Documents, WriteDocument(d)
  PROVE  /\ Document' = d /\ liveDocument' \in Documents
         /\ archived' = <<>> \/ \E e \in Documents : archived' = <<e>>
<1>1. CASE archived = <<>>
  BY <1>1 DEF WriteDocument, Document, FilesType
<1>2. CASE archived # <<>>
  <2>1. archived' = <<d>> /\ UNCHANGED liveDocument
    BY <1>2 DEF WriteDocument
  <2> QED
    BY <2>1 DEF Document, FilesType
<1> QED
  BY <1>1, <1>2

LEMMA FilesStart == FilesInit => FilesInv
<1> SUFFICES ASSUME FilesInit PROVE FilesInv
  OBVIOUS
<1>1. NoDraft \in Documents /\ [revision |-> 0, threads |-> <<>>, posts |-> {}] \in Documents
  BY DEF NoDraft, Documents
<1>2. Away.index = {} /\ Away.stage = "away" /\ Away.todo = <<>> /\ Away.draft = NoDraft
      /\ Away.attempts = 0
  BY DEF Away
<1>3. FilesType
  BY <1>1 DEF FilesInit, FilesType, Away
<1>4. Document = [revision |-> 0, threads |-> <<>>, posts |-> {}]
  BY DEF FilesInit, Document
<1>5. DraftInv
  BY <1>2 DEF FilesInit, DraftInv
<1>6. IndexInv
  BY <1>2 DEF FilesInit, IndexInv
<1>7. posted \subseteq Document.posts /\ Distinct(Document.threads)
  BY <1>4 DEF FilesInit, Distinct
<1> QED
  BY <1>3, <1>5, <1>6, <1>7 DEF FilesInv

\* Nothing that was read before is fresh, once the document has its next revision.
LEMMA NextRevision ==
  ASSUME FilesInv, Document' \in Documents, Document'.revision = Document.revision + 1,
         NEW x \in Documents, x.revision <= Document.revision
  PROVE  x.revision <= Document'.revision /\ Fresh(x)'
<1>1. x.revision \in Nat /\ Document.revision \in Nat
  BY DocumentType DEF FilesInv, FilesType, Documents
<1>2. x.revision <= Document'.revision /\ x.revision # Document'.revision
  BY <1>1
<1> QED
  BY <1>2 DEF Fresh, Stale

Importers == [stage : {"away", "read", "commit"}, todo : Seq(Threads), draft : Documents,
              attempts : Nat, index : SUBSET (Natives \union LinkedThreads)]

\* An import that does not hold a draft, and whose index the document bears out.
LEMMA ImporterMoves ==
  ASSUME FilesInv, importer' \in Importers, importer'.stage # "commit",
         importer' = Away \/ index \subseteq importer'.index,
         \A n \in importer'.index \ index : Found(Document, n),
         UNCHANGED <<liveDocument, archived, drafts, postCount, posted, index, imported,
                     linkedThreads>>
  PROVE  FilesInv'
<1>1. Document' = Document /\ \A d : Fresh(d)' <=> Fresh(d)
  BY DEF Document, Fresh, Stale
<1>2. FilesType'
  BY DEF FilesInv, FilesType, Importers
<1>3. DraftInv'
  BY <1>1 DEF FilesInv, DraftInv
<1>4. IndexInv'
  BY <1>1 DEF FilesInv, IndexInv
<1> QED
  BY <1>1, <1>2, <1>3, <1>4 DEF FilesInv

LEMMA AwayImporter == Away \in Importers /\ Away.stage = "away" /\ Away.index = {}
  BY DEF Away, Importers, NoDraft, Documents

LEMMA LinkedImporter ==
  ASSUME FilesType, importer.todo # <<>>
  PROVE  /\ Linked \in Importers /\ Linked.stage = "read"
         /\ Linked.index = importer.index \union {Head(importer.todo)[1]}
         /\ Head(importer.todo) \in Threads
<1>1. importer \in Importers /\ importer.todo \in Seq(Threads)
      /\ importer.index \subseteq Natives \union LinkedThreads
  BY DEF FilesType, Importers
<1>2. Head(importer.todo) \in Threads /\ Tail(importer.todo) \in Seq(Threads)
  BY <1>1
<1>3. Head(importer.todo)[1] \in Natives
  BY <1>2 DEF Threads
<1>4. NoDraft \in Documents
  BY DEF NoDraft, Documents
<1> DEFINE i == importer.index \union {Head(importer.todo)[1]}
           t == Tail(importer.todo)
<1>5. i \in SUBSET (Natives \union LinkedThreads) /\ t \in Seq(Threads)
  BY <1>1, <1>2, <1>3
<1>6. Linked = [importer EXCEPT !.index = i, !.todo = t, !.draft = NoDraft, !.attempts = 0,
                                !.stage = "read"]
  BY DEF Linked
<1>7. i = importer.index \union {Head(importer.todo)[1]}
  OBVIOUS
<1> HIDE DEF i, t
<1>8. Linked \in Importers /\ Linked.stage = "read" /\ Linked.index = i
  BY <1>1, <1>4, <1>5, <1>6 DEF Importers
<1> QED
  BY <1>2, <1>7, <1>8

\* An author reads the document, and writes it with one more post.
LEMMA AuthorReads ==
  ASSUME FilesInv, NEW a \in Authors, ReadDiscussion(a) PROVE FilesInv'
<1>1. /\ drafts' = [drafts EXCEPT ![a] = Document]
      /\ UNCHANGED <<liveDocument, archived, postCount, posted, index, importer, imported,
                     linkedThreads>>
  BY DEF ReadDiscussion
<1>2. Document' = Document /\ Document \in Documents /\ \A d : Fresh(d)' <=> Fresh(d)
  BY <1>1, DocumentType DEF Document, Fresh, Stale, FilesInv
<1> HIDE DEF Document
<1>3. FilesType'
  BY <1>1, <1>2 DEF FilesInv, FilesType
<1>4. Document.revision <= Document.revision /\ Fresh(Document)
  BY <1>2 DEF Documents, Fresh
<1>5. DraftInv'
  <2>1. \A b \in Authors : drafts'[b] = IF b = a THEN Document ELSE drafts[b]
    BY <1>1 DEF FilesInv, FilesType
  <2> QED
    BY <1>1, <1>2, <1>4, <2>1 DEF FilesInv, DraftInv
<1>6. IndexInv'
  BY <1>1, <1>2 DEF FilesInv, IndexInv, Found
<1> QED
  BY <1>1, <1>2, <1>3, <1>5, <1>6 DEF FilesInv

LEMMA AuthorPosts ==
  ASSUME FilesInv, NEW a \in Authors, Post(a) PROVE FilesInv'
<1>1. /\ drafts' = [drafts EXCEPT ![a] = NoDraft] /\ drafts[a] # NoDraft
      /\ UNCHANGED <<index, importer, imported, linkedThreads>>
  BY DEF Post
<1>2. /\ NoDraft \in Documents /\ Document \in Documents
      /\ drafts \in [Authors -> Documents] /\ drafts' \in [Authors -> Documents]
      /\ \A b \in Authors : drafts'[b] = IF b = a THEN NoDraft ELSE drafts[b]
  BY <1>1, DocumentType DEF NoDraft, Documents, FilesInv, FilesType
<1>3. CASE Stale(drafts[a])
  <2>1. UNCHANGED <<liveDocument, archived, postCount, posted>>
    BY <1>3 DEF Post
  <2>2. Document' = Document /\ \A d : Fresh(d)' <=> Fresh(d)
    BY <2>1 DEF Document, Fresh, Stale
  <2> HIDE DEF Document
  <2>3. FilesType' /\ DraftInv' /\ IndexInv'
    BY <1>1, <1>2, <2>1, <2>2 DEF FilesInv, FilesType, DraftInv, IndexInv, Found
  <2> QED
    BY <2>1, <2>2, <2>3 DEF FilesInv
<1>4. CASE ~Stale(drafts[a])
  <2> DEFINE next == [drafts[a] EXCEPT !.posts = @ \union {postCount + 1}]
             new == [next EXCEPT !.revision = @ + 1]
  <2>1. /\ WriteDocument(new) /\ postCount' = postCount + 1
        /\ posted' = posted \union {postCount + 1}
    BY <1>4 DEF Post, CommitDiscussion
  <2>2. drafts[a] = Document
    BY <1>1, <1>4 DEF FilesInv, DraftInv, Fresh
  <2>3. postCount \in Nat /\ postCount + 1 \in Nat
    BY DEF FilesInv, FilesType
  <2>4. /\ new \in Documents /\ new.revision = Document.revision + 1
        /\ new.threads = Document.threads /\ new.posts = Document.posts \union {postCount + 1}
    <3>1. /\ Document.revision + 1 \in Nat /\ Document.posts \union {postCount + 1} \in SUBSET Nat
          /\ Document.threads \in Seq(Threads)
      BY <1>2, <2>3 DEF Documents
    <3>2. new = [Document EXCEPT !.posts = Document.posts \union {postCount + 1},
                                 !.revision = Document.revision + 1]
      BY <1>2, <2>2 DEF Documents
    <3> HIDE DEF new, Document
    <3> QED
      BY <1>2, <3>1, <3>2 DEF Documents
  <2> HIDE DEF new
  <2>5. /\ Document' = new /\ liveDocument' \in Documents
        /\ archived' = <<>> \/ \E e \in Documents : archived' = <<e>>
    BY <2>1, <2>4, WrittenDocument DEF FilesInv
  <2>6. FilesType'
    BY <1>1, <1>2, <2>1, <2>3, <2>5 DEF FilesInv, FilesType
  <2>7. ASSUME NEW x \in Documents, x.revision <= Document.revision
        PROVE  x.revision <= Document'.revision /\ Fresh(x)'
    BY <2>4, <2>5, <2>7, NextRevision
  <2>8. DraftInv'
    <3>1. \A b \in Authors : drafts'[b] # NoDraft
             => drafts'[b] = drafts[b] /\ drafts[b] \in Documents
                /\ drafts[b].revision <= Document.revision
      BY <1>2 DEF FilesInv, DraftInv
    <3>2. importer.stage = "commit"
             => importer.draft \in Documents /\ importer.draft.revision <= Document.revision
      BY DEF FilesInv, FilesType, DraftInv
    <3> QED
      BY <1>1, <2>7, <3>1, <3>2 DEF FilesInv, DraftInv
  <2>9. IndexInv'
    BY <1>1, <2>4, <2>5 DEF FilesInv, IndexInv, Found
  <2>10. posted' \subseteq Document'.posts /\ Distinct(Document'.threads)
    BY <2>1, <2>4, <2>5 DEF FilesInv
  <2> QED
    BY <2>6, <2>8, <2>9, <2>10 DEF FilesInv
<1> QED
  BY <1>3, <1>4

\* An import takes a thread, and commits it.
LEMMA ImportSteps ==
  ASSUME FilesInv, BeginImport \/ ImportReads \/ ImportCommits \/ ImportEnds \/ ImportFails
  PROVE  FilesInv'
<1>1. /\ importer \in Importers /\ Away \in Importers /\ Document \in Documents
      /\ \A n \in importer.index \ index : Found(Document, n)
      /\ importer # Away => index \subseteq importer.index
      /\ index \subseteq Natives \union LinkedThreads
  BY AwayImporter, DocumentType DEF FilesInv, FilesType, Importers, IndexInv
<1>2. CASE BeginImport
  <2>1. PICK natives \in SUBSET Natives \ {{}}, content \in Contents :
        \E todo \in SetToSeqs(natives) :
           importer' = [Away EXCEPT !.stage = "read", !.index = index,
                          !.todo = [k \in 1 .. Len(todo) |-> <<todo[k], content>>]]
    BY <1>2 DEF BeginImport
  <2>2. PICK todo \in SetToSeqs(natives) :
           importer' = [Away EXCEPT !.stage = "read", !.index = index,
                          !.todo = [k \in 1 .. Len(todo) |-> <<todo[k], content>>]]
    BY <2>1
  <2>3. natives \subseteq Natives /\ IsFiniteSet(natives)
    BY FilesAssumption, FS_Subset DEF FilesAssumption
  <2>4. Cardinality(natives) \in Nat /\ todo \in [1 .. Cardinality(natives) -> natives]
    BY <2>3, FS_CardinalityType DEF SetToSeqs
  <2>5. todo \in Seq(Natives) /\ Len(todo) \in Nat
    BY <2>3, <2>4
  <2> DEFINE t == [k \in 1 .. Len(todo) |-> <<todo[k], content>>]
  <2>6. t \in Seq(Threads)
    <3>1. \A k \in 1 .. Len(todo) : <<todo[k], content>> \in Threads
      BY <2>5 DEF Threads
    <3> QED
      BY <2>5, <3>1
  <2>7. importer' = [Away EXCEPT !.stage = "read", !.index = index, !.todo = t]
    BY <2>2
  <2> HIDE DEF t
  <2>8. importer' \in Importers /\ importer'.stage = "read" /\ importer'.index = index
    BY <1>1, <2>6, <2>7 DEF Importers
  <2> QED
    BY <1>2, <2>8, ImporterMoves DEF BeginImport
<1>3. CASE ImportReads
  <2> DEFINE native == Head(importer.todo)
  <2>1. /\ importer.stage = "read" /\ importer.todo # <<>>
        /\ UNCHANGED <<liveDocument, archived, drafts, postCount, posted, index, imported,
                       linkedThreads>>
    BY <1>3 DEF ImportReads
  <2>2. importer # Away
    BY <2>1, AwayImporter
  <2>3. CASE importer' = Away
    BY <1>1, <2>1, <2>3, AwayImporter, ImporterMoves
  <2>4. CASE importer' = Linked /\ Contains(Document.threads, native)
    <3>1. /\ Linked \in Importers /\ Linked.stage = "read"
          /\ Linked.index = importer.index \union {native[1]}
      BY <2>1, LinkedImporter DEF FilesInv
    <3>2. Found(Document, native[1])
      BY <2>4 DEF Found, Contains
    <3>3. \A n \in Linked.index \ index : Found(Document, n)
      BY <1>1, <3>1, <3>2
    <3> HIDE DEF native
    <3> QED
      BY <1>1, <2>1, <2>2, <2>4, <3>1, <3>3, ImporterMoves
  <2>5. CASE /\ importer' = [importer EXCEPT !.draft = Document, !.stage = "commit"]
             /\ ~Found(Document, native[1])
    <3>1. /\ importer' \in Importers /\ importer'.draft = Document
          /\ importer'.stage = "commit" /\ importer'.index = importer.index
          /\ importer'.todo = importer.todo
      BY <1>1, <2>5 DEF Importers
    <3>2. Document' = Document /\ \A d : Fresh(d)' <=> Fresh(d)
      BY <2>1 DEF Document, Fresh, Stale
    <3>3. Document.revision <= Document.revision /\ Fresh(Document)
      BY <1>1 DEF Documents, Fresh
    <3> HIDE DEF Document
    <3>4. FilesType'
      BY <2>1, <3>1 DEF FilesInv, FilesType, Importers
    <3>5. DraftInv'
      BY <2>1, <2>5, <3>1, <3>2, <3>3 DEF FilesInv, DraftInv, Found
    <3>6. IndexInv'
      BY <1>1, <2>1, <2>2, <3>1, <3>2 DEF FilesInv, IndexInv, Found
    <3> QED
      BY <2>1, <3>2, <3>4, <3>5, <3>6 DEF FilesInv
  <2> QED
    BY <1>3, <2>3, <2>4, <2>5 DEF ImportReads
<1>4. CASE ImportCommits
  <2>1. /\ importer.stage = "commit" /\ importer # Away
        /\ UNCHANGED <<drafts, postCount, posted, index, imported, linkedThreads>>
    BY <1>4, AwayImporter DEF ImportCommits
  <2>2. CASE Stale(importer.draft)
    <3>1. /\ importer' \in {Away, [importer EXCEPT !.attempts = @ + 1, !.stage = "read"]}
          /\ UNCHANGED <<liveDocument, archived>>
      BY <1>4, <2>2 DEF ImportCommits
    <3>2. CASE importer' = Away
      BY <1>1, <2>1, <3>1, <3>2, AwayImporter, ImporterMoves
    <3>3. CASE importer' = [importer EXCEPT !.attempts = @ + 1, !.stage = "read"]
      <4>1. importer.attempts + 1 \in Nat
        BY <1>1 DEF Importers
      <4>2. importer' \in Importers /\ importer'.stage = "read" /\ importer'.index = importer.index
        BY <1>1, <3>3, <4>1 DEF Importers
      <4> QED
        BY <1>1, <2>1, <3>1, <4>2, ImporterMoves
    <3> QED
      BY <3>1, <3>2, <3>3
  <2>3. CASE ~Stale(importer.draft)
    <3> DEFINE native == Head(importer.todo)
               threads == Append(Document.threads, native)
               new == [Document EXCEPT !.threads = threads, !.revision = Document.revision + 1]
    <3>1. importer.draft = Document /\ importer.todo # <<>> /\ ~Found(Document, native[1])
      BY <2>1, <2>3 DEF FilesInv, DraftInv, Fresh
    <3>2. /\ Linked \in Importers /\ Linked.stage = "read" /\ native \in Threads
          /\ Linked.index = importer.index \union {native[1]}
      BY <3>1, LinkedImporter DEF FilesInv
    <3>3. /\ WriteDocument([[importer.draft EXCEPT !.threads = Append(@, native)]
                               EXCEPT !.revision = @ + 1])
          /\ importer' = Linked
      BY <1>4, <2>3 DEF ImportCommits, CommitDiscussion
    <3>4. [[importer.draft EXCEPT !.threads = Append(@, native)] EXCEPT !.revision = @ + 1] = new
      BY <1>1, <3>1 DEF Documents
    <3>5. WriteDocument(new)
      BY <3>3, <3>4
    <3> HIDE DEF native
    <3>6. /\ Document.threads \in Seq(Threads) /\ threads \in Seq(Threads)
          /\ Len(Document.threads) \in Nat /\ Len(threads) = Len(Document.threads) + 1
          /\ threads[Len(Document.threads) + 1] = native
          /\ \A k \in 1 .. Len(Document.threads) : threads[k] = Document.threads[k]
          /\ Document.revision \in Nat
      BY <1>1, <3>2 DEF Documents
    <3> HIDE DEF threads
    <3>7. /\ new \in Documents /\ new.threads = threads /\ new.posts = Document.posts
          /\ new.revision = Document.revision + 1
      <4>1. Document.revision + 1 \in Nat /\ threads \in Seq(Threads)
        BY <3>6
      <4>2. new = [Document EXCEPT !.threads = threads, !.revision = Document.revision + 1]
        OBVIOUS
      <4> HIDE DEF new
      <4> QED
        BY <1>1, <4>1, <4>2 DEF Documents
    <3> HIDE DEF new
    <3>8. /\ Document' = new /\ liveDocument' \in Documents
          /\ archived' = <<>> \/ \E e \in Documents : archived' = <<e>>
      BY <3>5, <3>7, WrittenDocument DEF FilesInv
    <3>9. FilesType'
      BY <2>1, <3>2, <3>3, <3>8 DEF FilesInv, FilesType, Importers
    <3>10. DraftInv'
      <4>1. \A b \in Authors : drafts[b] # NoDraft
               => drafts[b] \in Documents /\ drafts[b].revision <= Document.revision
        BY DEF FilesInv, FilesType, DraftInv
      <4>2. \A x \in Documents : x.revision <= Document.revision
               => x.revision <= Document'.revision /\ Fresh(x)'
        BY <3>7, <3>8, NextRevision
      <4> QED
        BY <2>1, <3>2, <3>3, <4>1, <4>2 DEF DraftInv
    <3>11. ASSUME NEW n, Found(Document, n) PROVE Found(new, n)
      <4>1. PICK k \in 1 .. Len(Document.threads) : Document.threads[k][1] = n
        BY <3>11 DEF Found
      <4>2. k \in 1 .. Len(threads) /\ threads[k][1] = n
        BY <3>6, <4>1
      <4> QED
        BY <3>7, <4>2 DEF Found
    <3>12. Found(new, native[1])
      <4>1. Len(Document.threads) + 1 \in 1 .. Len(threads)
        BY <3>6
      <4> QED
        BY <3>6, <3>7, <4>1 DEF Found
    <3>13. IndexInv'
      <4>1. \A n \in imported : Found(new, n)
        BY <3>11 DEF FilesInv, IndexInv
      <4>2. \A n \in Linked.index \ index : Found(new, n)
        BY <1>1, <3>2, <3>11, <3>12
      <4>3. index \subseteq Linked.index
        BY <1>1, <2>1, <3>2
      <4> QED
        BY <2>1, <3>3, <3>8, <4>1, <4>2, <4>3 DEF FilesInv, IndexInv, Found
    <3>14. Distinct(threads)
      <4> SUFFICES ASSUME NEW j \in 1 .. Len(threads), NEW k \in 1 .. Len(threads),
                          threads[j][1] = threads[k][1]
                   PROVE  j = k
        BY DEF Distinct
      <4>1. \A i \in 1 .. Len(threads) :
               i = Len(Document.threads) + 1 \/ i \in 1 .. Len(Document.threads)
        BY <3>6
      <4>2. \A i \in 1 .. Len(Document.threads) : threads[i][1] # native[1]
        BY <3>1, <3>6 DEF Found
      <4>3. CASE j \in 1 .. Len(Document.threads) /\ k \in 1 .. Len(Document.threads)
        BY <3>6, <4>3 DEF FilesInv, Distinct
      <4>4. CASE ~(j \in 1 .. Len(Document.threads) /\ k \in 1 .. Len(Document.threads))
        BY <3>6, <4>1, <4>2, <4>4
      <4> QED
        BY <4>3, <4>4
    <3> QED
      BY <2>1, <3>7, <3>8, <3>9, <3>10, <3>13, <3>14 DEF FilesInv
  <2> QED
    BY <2>2, <2>3
<1>5. CASE ImportEnds
  <2>1. /\ importer.stage = "read" /\ importer # Away
        /\ index' = importer.index /\ imported' = imported \union (importer.index \ linkedThreads)
        /\ importer' = Away
        /\ UNCHANGED <<liveDocument, archived, drafts, postCount, posted, linkedThreads>>
    BY <1>5, AwayImporter DEF ImportEnds
  <2>2. Document' = Document /\ \A d : Fresh(d)' <=> Fresh(d)
    BY <2>1 DEF Document, Fresh, Stale
  <2> HIDE DEF Document
  <2>3. importer.index \subseteq Natives \union LinkedThreads /\ index \subseteq importer.index
    BY <1>1, <2>1 DEF Importers
  <2>4. FilesType'
    BY <1>1, <2>1, <2>3 DEF FilesInv, FilesType, Importers
  <2>5. DraftInv'
    BY <2>1, <2>2, AwayImporter DEF FilesInv, DraftInv
  <2>6. IndexInv'
    <3>1. index = imported \union linkedThreads /\ \A n \in imported : Found(Document, n)
      BY DEF FilesInv, IndexInv
    <3>2. index' = imported' \union linkedThreads
      BY <2>1, <2>3, <3>1
    <3>3. \A n \in imported' : Found(Document, n)
      BY <1>1, <2>1, <3>1
    <3>4. \A n : Found(Document, n)' <=> Found(Document, n)
      BY <2>2 DEF Found
    <3> HIDE DEF Found
    <3> QED
      BY <2>1, <3>2, <3>3, <3>4, AwayImporter DEF IndexInv
  <2> QED
    BY <2>1, <2>2, <2>4, <2>5, <2>6 DEF FilesInv
<1>6. CASE ImportFails
  BY <1>1, <1>6, AwayImporter, ImporterMoves DEF ImportFails
<1> QED
  BY <1>2, <1>3, <1>4, <1>5, <1>6

LEMMA FilesSteps == FilesInv /\ [FilesNext]_fileVars => FilesInv'
<1> SUFFICES ASSUME FilesInv, [FilesNext]_fileVars PROVE FilesInv'
  OBVIOUS
<1>1. CASE ArchiveDiscussion
  <2>1. /\ archived' = <<Document>> /\ Document \in Documents
        /\ UNCHANGED <<liveDocument, drafts, postCount, posted, index, importer, imported,
                       linkedThreads>>
    BY <1>1, DocumentType DEF ArchiveDiscussion, FilesInv
  <2>2. Document' = Document /\ \A d : Fresh(d)' <=> Fresh(d)
    BY <1>1 DEF ArchiveDiscussion, Document, Fresh, Stale
  <2> HIDE DEF Document
  <2>3. FilesType'
    BY <2>1 DEF FilesInv, FilesType
  <2>4. DraftInv' /\ IndexInv'
    BY <2>1, <2>2 DEF FilesInv, DraftInv, IndexInv, Found
  <2> QED
    BY <2>1, <2>2, <2>3, <2>4 DEF FilesInv
<1>2. CASE LinkDiscussion
  <2>1. PICK t \in LinkedThreads :
           /\ importer = Away /\ index' = index \union {t}
           /\ linkedThreads' = linkedThreads \union {t}
           /\ UNCHANGED <<liveDocument, archived, drafts, postCount, posted, importer, imported>>
    BY <1>2 DEF LinkDiscussion
  <2>2. Document' = Document /\ \A d : Fresh(d)' <=> Fresh(d)
    BY <2>1 DEF Document, Fresh, Stale
  <2> HIDE DEF Document
  <2>3. FilesType'
    BY <2>1 DEF FilesInv, FilesType
  <2>4. DraftInv' /\ IndexInv'
    BY <2>1, <2>2, AwayImporter DEF FilesInv, DraftInv, IndexInv, Found
  <2> QED
    BY <2>1, <2>2, <2>3, <2>4 DEF FilesInv
<1>3. CASE UNCHANGED fileVars
  <2>1. Document' = Document /\ \A d : Fresh(d)' <=> Fresh(d)
    BY <1>3 DEF Document, Fresh, Stale, fileVars
  <2> HIDE DEF Document
  <2>2. FilesType' /\ DraftInv' /\ IndexInv'
    BY <1>3, <2>1 DEF fileVars, FilesInv, FilesType, DraftInv, IndexInv, Found
  <2> QED
    BY <1>3, <2>1, <2>2 DEF fileVars, FilesInv
<1> QED
  BY <1>1, <1>2, <1>3, AuthorReads, AuthorPosts, ImportSteps DEF FilesNext

\* What was reported as written stays written, exactly once: posts in the document,
\* imported discussions in the document and the index, links in the index, whoever writes
\* from a snapshot, promotes the document in between, or repeats what failed
\* (session/discussion.go:171, discussion_import.go:177).
THEOREM NothingIsOverwritten == FilesSpec => []NothingOverwritten
<1>1. FilesInv => NothingOverwritten
  BY DEF FilesInv, IndexInv, Distinct, NothingOverwritten
<1> QED
  BY <1>1, FilesStart, FilesSteps, PTL DEF FilesSpec

-----------------------------------------------------------------------------
(* Inspection. *)

ReadFences == [backend : Nat, handle : Nat, adapter : Nat]
ReadRecords == [kind : {"none", "service", "editor"}, peer : Nat, fence : ReadFences,
                named : Nat, got : SUBSET Nat, left : Nat]
StopEvent == [kind |-> "stopped", stop |-> lastStop]
ContinuedEvent == [kind |-> "continued", stop |-> 0]

InspectionType ==
    /\ target \in Nat /\ lastStop \in Nat \ {0} /\ shown \in Nat
    /\ backend \in Nat \ {0} /\ backendEpoch \in Nat /\ handleEpoch \in Nat
    /\ running \in BOOLEAN /\ moving \in BOOLEAN /\ interrupting \in BOOLEAN
    /\ peer \in Nat /\ peersSeen \in Nat /\ nextHandle \in Nat
    /\ handles \subseteq [id : Nat, generation : Nat, origin : Nat]
    /\ held \subseteq [id : Nat \ {0}, origin : Nat]
    /\ reads \in [Reads -> ReadRecords]

\* What is between the target and the broker: the events of the present movement, in
\* one queue or the other. The backend believes that the target runs when it has
\* received that, and nothing after it.
InTransit(a, d) == arriving = a /\ received = d
Transit ==
    \/ InTransit(<<>>, <<>>) /\ (running => target = 0)
    \/ InTransit(<<ContinuedEvent>>, <<>>) /\ target = 0 /\ ~running
    \/ InTransit(<<>>, <<ContinuedEvent>>) /\ target = 0 /\ running
    \/ InTransit(<<StopEvent>>, <<>>) /\ target # 0
    \/ InTransit(<<>>, <<StopEvent>>) /\ target # 0 /\ ~running
    \/ InTransit(<<ContinuedEvent, StopEvent>>, <<>>) /\ target # 0 /\ ~running
    \/ InTransit(<<StopEvent>>, <<ContinuedEvent>>) /\ target # 0 /\ running
    \/ InTransit(<<>>, <<ContinuedEvent, StopEvent>>) /\ target # 0 /\ ~running

\* A movement is under way from its dispatch until the event of its stop is handled, or
\* it is rejected. Before the target has taken it, and after, what is shown is where
\* the target is.
Standing == target = shown /\ InTransit(<<>>, <<>>) /\ ~running
MovementInv ==
    /\ target # 0 => target = lastStop
    /\ Transit
    /\ target # 0 /\ InTransit(<<>>, <<>>) => shown = target
    /\ ~moving => orders = {} /\ target # 0 /\ Standing
    /\ orders # {} => target # 0 /\ Standing

\* A read whose fence is that of the broker has seen what is shown, or sees a movement
\* that cannot end without a new epoch.
Fenced(f) == f.backend = backend /\ f.handle = handleEpoch
ReadInv ==
    \A r \in Reads :
        /\ reads[r].fence.handle <= handleEpoch
        /\ Fenced(reads[r].fence) =>
              /\ reads[r].got \subseteq {shown} \/ (moving /\ orders = {})
              /\ reads[r].named # 0 => reads[r].named = shown

\* The references of the present generation are to what is shown; the numbers given out
\* are those up to the last.
ReferenceInv ==
    /\ \A h \in held : h.id <= nextHandle
    /\ \A h, k \in held : h.id = k.id => h = k
    /\ \A t \in handles :
          /\ [id |-> t.id, origin |-> t.origin] \in held
          /\ t.generation <= handleEpoch
          /\ t.generation = handleEpoch => t.origin = shown

ReplyInv ==
    /\ reply.got \subseteq {reply.shown}
    /\ reply.named # 0 => reply.named = reply.shown

InspectionInv ==
    InspectionType /\ MovementInv /\ ReadInv /\ ReferenceInv /\ ReplyInv

LEMMA NoReadType == NoRead \in ReadRecords
  BY DEF NoRead, NoFence, ReadRecords, ReadFences

\* The queues of an event or two.
LEMMA ShortQueues ==
  ASSUME NEW c, NEW e
  PROVE  /\ Append(<<>>, e) = <<e>> /\ Append(<<c>>, e) = <<c, e>>
         /\ Head(<<e>>) = e /\ Tail(<<e>>) = <<>>
         /\ Head(<<c, e>>) = c /\ Tail(<<c, e>>) = <<e>>
         /\ <<e>> # <<>> /\ <<c, e>> # <<>>
<1>0. <<>> \in Seq({c, e}) /\ <<c>> \in Seq({c, e})
  OBVIOUS
<1>1. Append(<<>>, e) = <<e>>
  BY <1>0
<1>5. Append(<<c>>, e) = <<c, e>>
  <2> DEFINE q == Append(<<c>>, e)
  <2>1. q \in Seq({c, e}) /\ Len(q) = 2 /\ q[1] = c /\ q[2] = e
    BY <1>0, AppendProperties
  <2>2. <<c, e>> \in Seq({c, e}) /\ Len(<<c, e>>) = 2
    OBVIOUS
  <2> HIDE DEF q
  <2>3. \A i \in 1 .. 2 : q[i] = <<c, e>>[i]
    BY <2>1
  <2> QED
    BY <2>1, <2>2, <2>3, SeqEqual DEF q
<1>2. Head(<<e>>) = e /\ Tail(<<e>>) = <<>>
  OBVIOUS
<1>3. Head(<<c, e>>) = c /\ Tail(<<c, e>>) = <<e>>
  OBVIOUS
<1>4. <<e>> # <<>> /\ <<c, e>> # <<>>
  OBVIOUS
<1> QED
  BY <1>1, <1>2, <1>3, <1>4, <1>5

LEMMA InspectionStarts == InspectionInit => InspectionInv
<1> SUFFICES ASSUME InspectionInit PROVE InspectionInv
  OBVIOUS
<1> USE DEF InspectionInit, NoReply
<1>1. InspectionType
  <2>1. reads \in [Reads -> ReadRecords]
    BY NoReadType
  <2>2. /\ target \in Nat /\ lastStop \in Nat \ {0} /\ shown \in Nat
        /\ backend \in Nat \ {0} /\ backendEpoch \in Nat /\ handleEpoch \in Nat
        /\ peer \in Nat /\ peersSeen \in Nat /\ nextHandle \in Nat
    OBVIOUS
  <2>3. handles = {} /\ held = {} /\ running = FALSE /\ moving = FALSE /\ interrupting = FALSE
    OBVIOUS
  <2> QED
    BY <2>1, <2>2, <2>3 DEF InspectionType
<1>2. MovementInv
  BY DEF MovementInv, Transit, Standing, InTransit
<1>3. ReadInv /\ ReferenceInv /\ ReplyInv
  BY DEF ReadInv, Fenced, ReferenceInv, ReplyInv, NoRead, NoFence
<1> QED
  BY <1>1, <1>2, <1>3 DEF InspectionInv

\* The editor, the reads and the reply stay, and no new epoch begins.
LEMMA SameEpoch ==
  ASSUME InspectionInv, UNCHANGED <<backend, handleEpoch, shown, editor, reads, reply>>,
         moving /\ orders = {} => moving' /\ orders' = {}
  PROVE  ReadInv' /\ ReferenceInv' /\ ReplyInv'
<1>1. ReplyInv' /\ ReferenceInv'
  BY DEF InspectionInv, ReplyInv, ReferenceInv, editor
<1>2. ReadInv'
  BY DEF InspectionInv, ReadInv, Fenced
<1> QED
  BY <1>1, <1>2

\* A new epoch makes every fence and every generation an old one.
LEMMA NewEpoch ==
  ASSUME InspectionInv, UNCHANGED <<editor, reads, reply>>, handleEpoch' = handleEpoch + 1
  PROVE  ReadInv' /\ ReferenceInv' /\ ReplyInv'
<1>1. ReplyInv'
  BY DEF InspectionInv, ReplyInv
<1>2. ReferenceInv'
  <2>1. ASSUME NEW t \in handles
        PROVE  t.generation <= handleEpoch + 1 /\ t.generation # handleEpoch + 1
    <3>1. t.generation \in Nat /\ handleEpoch \in Nat /\ t.generation <= handleEpoch
      BY <2>1 DEF InspectionInv, ReferenceInv, InspectionType
    <3> QED
      BY <3>1
  <2> QED
    BY <2>1 DEF InspectionInv, ReferenceInv, editor
<1>3. ReadInv'
  <2>1. ASSUME NEW r \in Reads
        PROVE  /\ reads[r].fence.handle <= handleEpoch + 1
               /\ reads[r].fence.handle # handleEpoch + 1
    BY <2>1 DEF InspectionInv, ReadInv, InspectionType, ReadRecords, ReadFences
  <2> QED
    BY <2>1 DEF ReadInv, Fenced
<1> QED
  BY <1>1, <1>2, <1>3

LEMMA MovementSteps == InspectionInv /\ Movement => InspectionInv'
<1> SUFFICES ASSUME InspectionInv, Movement PROVE InspectionInv'
  OBVIOUS
<1> USE DEF InspectionInv, targetSide, epochs
<1> DEFINE Event == {ContinuedEvent, StopEvent}
<1>1. CASE Dispatch
  <2>1. InspectionType'
    BY <1>1 DEF Dispatch, InspectionType, editor
  <2>2. MovementInv'
    BY <1>1 DEF Dispatch, InspectionType, MovementInv, Transit, Standing, InTransit, StopEvent
  <2> QED
    BY <1>1, <2>1, <2>2, NewEpoch DEF Dispatch
<1>2. CASE TargetRuns
  <2>1. InspectionType'
    BY <1>2 DEF TargetRuns, InspectionType, editor
  <2>2. MovementInv'
    <3>1. /\ target # 0 /\ Standing /\ arriving' \in {<<>>, <<ContinuedEvent>>}
          /\ received' = <<>> /\ ~running' /\ moving' /\ target' = 0 /\ orders' = {}
      BY <1>2, ShortQueues DEF TargetRuns, MovementInv, Standing, InTransit, ContinuedEvent
    <3> QED
      BY <3>1 DEF MovementInv, Transit, InTransit
  <2> QED
    BY <1>2, <2>1, <2>2, SameEpoch DEF TargetRuns
<1>3. CASE TargetRefuses
  <2>1. InspectionType'
    BY <1>3 DEF TargetRefuses, InspectionType, editor
  <2>2. MovementInv'
    BY <1>3 DEF TargetRefuses, InspectionType, MovementInv, Transit, Standing, InTransit,
       StopEvent
  <2> QED
    BY <1>3, <2>1, <2>2, SameEpoch DEF TargetRefuses
<1>4. CASE TargetStops
  <2>1. InspectionType'
    BY <1>4 DEF TargetStops, InspectionType, editor
  <2>2. MovementInv'
    <3>1. /\ arriving' = Append(arriving, StopEvent') /\ received' = received
          /\ target' = lastStop' /\ target' # 0 /\ running' = running /\ moving' /\ orders' = {}
      BY <1>4 DEF TargetStops, MovementInv, StopEvent, InspectionType
    <3>2. \/ InTransit(<<>>, <<>>)
          \/ InTransit(<<ContinuedEvent>>, <<>>) /\ ~running
          \/ InTransit(<<>>, <<ContinuedEvent>>) /\ running
      BY <1>4 DEF TargetStops, MovementInv, Transit
    <3>3. \/ InTransit(<<StopEvent>>, <<>>)'
          \/ InTransit(<<ContinuedEvent, StopEvent>>, <<>>)' /\ ~running'
          \/ InTransit(<<StopEvent>>, <<ContinuedEvent>>)' /\ running'
      BY ZenonT(40), <3>1, <3>2, ShortQueues DEF InTransit, ContinuedEvent
    <3>4. ~InTransit(<<>>, <<>>)'
      BY <3>3, ShortQueues DEF InTransit
    <3> QED
      BY <3>1, <3>3, <3>4 DEF MovementInv, Transit
  <2> QED
    BY <1>4, <2>1, <2>2, SameEpoch DEF TargetStops
<1>5. CASE Receive
  <2>1. InspectionType'
    BY <1>5 DEF Receive, InspectionType, editor
  <2>2. MovementInv'
    <3> USE ShortQueues
    <3>1. /\ arriving # <<>> /\ received' = Append(received, Head(arriving))
          /\ arriving' = Tail(arriving) /\ running' = (Head(arriving).kind = "continued")
          /\ UNCHANGED <<target, lastStop, shown, moving, orders>>
          /\ StopEvent' = StopEvent /\ ContinuedEvent' = ContinuedEvent
      BY <1>5 DEF Receive, StopEvent, ContinuedEvent
    <3>2. ContinuedEvent.kind = "continued" /\ StopEvent.kind # "continued"
      BY DEF StopEvent, ContinuedEvent
    <3>3. moving /\ orders = {}
      BY <3>1 DEF MovementInv, Standing, InTransit
    <3> HIDE DEF StopEvent, ContinuedEvent
    <3>4. \/ InTransit(<<ContinuedEvent>>, <<>>) /\ target = 0
          \/ InTransit(<<StopEvent>>, <<>>) /\ target # 0
          \/ InTransit(<<ContinuedEvent, StopEvent>>, <<>>) /\ target # 0
          \/ InTransit(<<StopEvent>>, <<ContinuedEvent>>) /\ target # 0
      BY <3>1 DEF MovementInv, Transit, InTransit
    <3>5. \/ InTransit(<<>>, <<ContinuedEvent>>)' /\ target' = 0 /\ running'
          \/ InTransit(<<>>, <<StopEvent>>)' /\ target' # 0 /\ ~running'
          \/ InTransit(<<StopEvent>>, <<ContinuedEvent>>)' /\ target' # 0 /\ running'
          \/ InTransit(<<>>, <<ContinuedEvent, StopEvent>>)' /\ target' # 0 /\ ~running'
      <4>1. CASE InTransit(<<ContinuedEvent>>, <<>>) /\ target = 0
        BY <3>1, <3>2, <4>1 DEF InTransit
      <4>2. CASE InTransit(<<StopEvent>>, <<>>) /\ target # 0
        BY <3>1, <3>2, <4>2 DEF InTransit
      <4>3. CASE InTransit(<<ContinuedEvent, StopEvent>>, <<>>) /\ target # 0
        BY <3>1, <3>2, <4>3 DEF InTransit
      <4>4. CASE InTransit(<<StopEvent>>, <<ContinuedEvent>>) /\ target # 0
        BY <3>1, <3>2, <4>4 DEF InTransit
      <4> QED
        BY <3>4, <4>1, <4>2, <4>3, <4>4
    <3>6. ~InTransit(<<>>, <<>>)'
      BY <3>5 DEF InTransit
    <3> QED
      BY <3>1, <3>3, <3>5, <3>6 DEF MovementInv, Transit
  <2> QED
    BY <1>5, <2>1, <2>2, SameEpoch DEF Receive
<1>6. CASE HandleBackendEvent
  <2>1. received # <<>> /\ Head(received) \in Event
    BY <1>6 DEF HandleBackendEvent, MovementInv, Transit, InTransit, Standing
  <2>2. InspectionType'
    BY <1>6, <2>1 DEF HandleBackendEvent, InspectionType, editor, StopEvent, ContinuedEvent
  <2>3. MovementInv'
    <3> USE ShortQueues
    <3> DEFINE e == Head(received)
    <3>1. /\ received # <<>> /\ received' = Tail(received) /\ moving' = (e.kind = "continued")
          /\ shown' = IF e.kind = "stopped" THEN e.stop ELSE shown
          /\ UNCHANGED <<target, lastStop, arriving, running, orders>>
          /\ StopEvent' = StopEvent /\ ContinuedEvent' = ContinuedEvent
      BY <1>6 DEF HandleBackendEvent, StopEvent, ContinuedEvent
    <3>2. /\ ContinuedEvent.kind = "continued"
          /\ StopEvent.kind = "stopped" /\ StopEvent.stop = lastStop
      BY DEF StopEvent, ContinuedEvent
    <3>3. orders = {}
      BY <3>1 DEF MovementInv, Standing, InTransit
    <3> HIDE DEF StopEvent, ContinuedEvent
    <3>4. \/ InTransit(<<>>, <<ContinuedEvent>>) /\ target = 0 /\ running
          \/ InTransit(<<>>, <<StopEvent>>) /\ target # 0 /\ ~running
          \/ InTransit(<<StopEvent>>, <<ContinuedEvent>>) /\ target # 0 /\ running
          \/ InTransit(<<>>, <<ContinuedEvent, StopEvent>>) /\ target # 0 /\ ~running
      BY <3>1 DEF MovementInv, Transit, InTransit
    <3>5. \/ InTransit(<<>>, <<>>)' /\ target' = 0 /\ moving'
          \/ InTransit(<<>>, <<>>)' /\ target' # 0 /\ ~running' /\ ~moving' /\ shown' = lastStop
          \/ InTransit(<<StopEvent>>, <<>>)' /\ target' # 0 /\ moving'
          \/ InTransit(<<>>, <<StopEvent>>)' /\ target' # 0 /\ ~running' /\ moving'
      BY ZenonT(40), <3>1, <3>2, <3>4 DEF InTransit
    <3>6. target' # 0 => target' = lastStop'
      BY <3>1 DEF MovementInv
    <3>7. \/ ~InTransit(<<>>, <<>>)' \/ target' = 0 \/ shown' = lastStop
      BY <3>5 DEF InTransit
    <3>8. Transit'
      BY <3>5 DEF Transit
    <3> QED
      BY <3>1, <3>3, <3>5, <3>6, <3>7, <3>8 DEF MovementInv, Standing
  <2> QED
    BY <1>6, <2>2, <2>3, NewEpoch DEF HandleBackendEvent
<1>7. CASE Interrupt
  <2>1. InspectionType' /\ MovementInv'
    BY <1>7 DEF Interrupt, InspectionType, editor, MovementInv, Transit, Standing, InTransit,
       StopEvent
  <2> QED
    BY <1>7, <2>1, NewEpoch DEF Interrupt
<1>8. CASE InterruptSettles
  <2>1. InspectionType' /\ MovementInv'
    BY <1>8 DEF InterruptSettles, InspectionType, editor, MovementInv, Transit, Standing,
       InTransit, StopEvent
  <2> QED
    BY <1>8, <2>1, SameEpoch DEF InterruptSettles
<1>9. CASE Restart
  <2>1. InspectionType'
    <3>1. /\ lastStop' \in Nat \ {0} /\ target' \in Nat /\ shown' \in Nat
          /\ backend' \in Nat \ {0} /\ backendEpoch' \in Nat /\ handleEpoch' \in Nat
          /\ running' = FALSE /\ moving' = FALSE /\ interrupting' = FALSE
      BY <1>9 DEF Restart, InspectionType
    <3>2. UNCHANGED <<peer, peersSeen, nextHandle, handles, held, reads>>
      BY <1>9 DEF Restart
    <3> QED
      BY <3>1, <3>2 DEF InspectionType
  <2>2. MovementInv'
    BY <1>9 DEF Restart, InspectionType, MovementInv, Transit, Standing, InTransit
  <2> QED
    BY <1>9, <2>1, <2>2, NewEpoch DEF Restart, editor
<1> QED
  BY <1>1, <1>2, <1>3, <1>4, <1>5, <1>6, <1>7, <1>8, <1>9 DEF Movement

LEMMA PeerSteps == InspectionInv /\ Connection => InspectionInv'
<1> SUFFICES ASSUME InspectionInv, Connection PROVE InspectionInv'
  OBVIOUS
<1> USE DEF InspectionInv, targetSide, epochs, Connection, ConnectPeer, DisconnectPeer
<1>1. InspectionType'
  <2>1. peersSeen \in Nat
    BY DEF InspectionType
  <2> QED
    BY <2>1 DEF InspectionType
<1>2. MovementInv'
  BY DEF MovementInv, Transit, Standing, InTransit, StopEvent
<1>3. ReadInv' /\ ReferenceInv' /\ ReplyInv'
  BY DEF ReadInv, Fenced, ReferenceInv, ReplyInv
<1> QED
  BY <1>1, <1>2, <1>3

\* A reading step moves nothing.
LEMMA SameMovement == ASSUME MovementInv, UNCHANGED <<targetSide, epochs>> PROVE MovementInv'
  BY DEF MovementInv, Transit, Standing, InTransit, StopEvent, targetSide, epochs

LEMMA ReadingSteps ==
  ASSUME InspectionInv, NEW r \in Reads,
         \/ BeginServiceRead(r) \/ BeginEditorRead(r) \/ AdapterAnswers(r)
         \/ EndServiceRead(r) \/ EndEditorRead(r)
  PROVE  InspectionInv'
<1> USE DEF InspectionInv
<1>0. MovementInv'
  BY SameMovement DEF BeginServiceRead, BeginEditorRead, AdapterAnswers, EndServiceRead,
     EndEditorRead
<1>a. Fence \in ReadFences /\ Fenced(Fence) /\ Fence.handle <= handleEpoch
  BY DEF Fence, Fenced, InspectionType, ReadFences
<1>b. /\ NoRead \in ReadRecords /\ NoRead.fence.handle <= handleEpoch
      /\ ~Fenced(NoRead.fence)
  BY NoReadType DEF NoRead, NoFence, Fenced, InspectionType
<1>c. /\ reads[r] \in ReadRecords /\ reads[r].fence \in ReadFences
      /\ reads[r].got \subseteq Nat /\ reads[r].left \in Nat /\ reads[r].named \in Nat
  BY DEF InspectionType, ReadRecords
<1>1. CASE BeginServiceRead(r)
  <2> USE <1>1 DEF BeginServiceRead, targetSide, epochs, editor
  <2>1. PICK n \in 1 .. 2 :
           reads' = [reads EXCEPT ![r] =
                       [NoRead EXCEPT !.kind = "service", !.fence = Fence, !.left = n]]
    OBVIOUS
  <2>2. [NoRead EXCEPT !.kind = "service", !.fence = Fence, !.left = n] \in ReadRecords
    <3>1. n \in Nat
      BY <2>1
    <3> QED
      BY <1>a, <3>1, NoReadType DEF ReadRecords
  <2>3. InspectionType'
    BY <2>1, <2>2 DEF InspectionType
  <2>4. ReadInv'
    BY <2>1, <1>a DEF ReadInv, Fenced, NoRead, InspectionType
  <2>5. ReferenceInv' /\ ReplyInv'
    BY DEF ReferenceInv, ReplyInv
  <2> QED
    BY <1>0, <2>3, <2>4, <2>5
<1>2. CASE BeginEditorRead(r)
  <2> USE <1>2 DEF BeginEditorRead, targetSide, epochs, editor
  <2>1. PICK h \in held \union {[id |-> 0, origin |-> 0]} :
          /\ h.id # 0 => Translated(h.id) # {}
          /\ reads' = [reads EXCEPT ![r] =
                [NoRead EXCEPT !.kind = "editor", !.peer = peer, !.fence = Fence,
                               !.named = h.origin, !.left = 1]]
    OBVIOUS
  <2>2. h.origin \in Nat /\ (h.origin # 0 => h \in held /\ h.id # 0)
    <3>1. CASE h \in held
      BY <3>1 DEF InspectionType
    <3>2. CASE h = [id |-> 0, origin |-> 0]
      BY <3>2
    <3> QED
      BY <2>1, <3>1, <3>2
  <2>3. h.origin # 0 => h.origin = shown
    <3> SUFFICES ASSUME h.origin # 0 PROVE h.origin = shown
      OBVIOUS
    <3>1. PICK t \in handles : t.id = h.id /\ t.generation = handleEpoch
      BY <2>1, <2>2 DEF Translated
    <3>2. t.origin = shown /\ [id |-> t.id, origin |-> t.origin] \in held
      BY <3>1 DEF ReferenceInv
    <3>3. h = [id |-> t.id, origin |-> t.origin]
      BY <2>2, <3>1, <3>2 DEF ReferenceInv
    <3> QED
      BY <3>2, <3>3
  <2>4. [NoRead EXCEPT !.kind = "editor", !.peer = peer, !.fence = Fence,
                       !.named = h.origin, !.left = 1] \in ReadRecords
    BY <1>a, <2>2, NoReadType DEF ReadRecords, InspectionType
  <2>5. InspectionType'
    BY <2>1, <2>4 DEF InspectionType
  <2>6. ReadInv'
    BY <2>1, <2>3, <1>a DEF ReadInv, Fenced, NoRead, InspectionType
  <2>7. ReferenceInv' /\ ReplyInv'
    BY DEF ReferenceInv, ReplyInv
  <2> QED
    BY <1>0, <2>5, <2>6, <2>7
<1>3. CASE AdapterAnswers(r)
  <2> USE <1>3 DEF AdapterAnswers, targetSide, epochs, editor
  <2> DEFINE got == IF target # 0 /\ reads[r].fence.backend = backend
                    THEN reads[r].got \union {target} ELSE reads[r].got
  <2> DEFINE after == [reads[r] EXCEPT !.left = @ - 1, !.got = got]
  <2>1. reads' = [reads EXCEPT ![r] = after]
    BY <1>c DEF InspectionType, ReadRecords
  <2>2. /\ after \in ReadRecords /\ after.fence = reads[r].fence
        /\ after.named = reads[r].named /\ after.got = got
    <3>1. got \subseteq Nat /\ reads[r].left - 1 \in Nat
      BY <1>c DEF InspectionType
    <3> QED
      BY <1>c, <3>1 DEF ReadRecords
  <2> HIDE DEF after
  <2>3. InspectionType'
    BY <2>1, <2>2 DEF InspectionType
  <2>4. Fenced(reads[r].fence) => got \subseteq {shown} \/ (moving /\ orders = {})
    BY DEF ReadInv, MovementInv, Standing
  <2>5. ReadInv'
    BY <2>1, <2>2, <2>4 DEF ReadInv, Fenced, InspectionType
  <2>6. ReferenceInv' /\ ReplyInv'
    BY DEF ReferenceInv, ReplyInv
  <2> QED
    BY <1>0, <2>3, <2>5, <2>6
<1>4. Valid(reads[r].fence) =>
        /\ Fenced(reads[r].fence) /\ ~moving /\ reads[r].fence.handle = handleEpoch
        /\ reads[r].got \subseteq {shown}
        /\ reads[r].named # 0 => reads[r].named = shown
  BY DEF Valid, Fenced, ReadInv
<1>5. ASSUME reads' = [reads EXCEPT ![r] = NoRead], UNCHANGED <<backend, handleEpoch, shown, moving, orders>>
      PROVE  ReadInv' /\ reads' \in [Reads -> ReadRecords]
  BY <1>5, <1>b DEF ReadInv, Fenced, InspectionType
<1>6. CASE EndServiceRead(r)
  <2> USE <1>6 DEF EndServiceRead, targetSide, epochs, editor
  <2>1. ReadInv' /\ InspectionType'
    BY <1>5 DEF InspectionType
  <2>2. ReplyInv'
    BY <1>4 DEF ReplyInv, NoReply
  <2>3. ReferenceInv'
    BY DEF ReferenceInv
  <2> QED
    BY <1>0, <2>1, <2>2, <2>3
<1>7. CASE EndEditorRead(r)
  <2> USE <1>7 DEF EndEditorRead, targetSide, epochs
  <2>1. ReadInv' /\ reads' \in [Reads -> ReadRecords]
    BY <1>5
  <2>2. CASE ~(reads[r].peer = peer /\ Valid(reads[r].fence) /\ reads[r].got # {})
    <3>1. InspectionType' /\ ReferenceInv' /\ ReplyInv'
      BY <2>1, <2>2 DEF InspectionType, ReferenceInv, ReplyInv, NoReply
    <3> QED
      BY <1>0, <2>1, <3>1
  <2>3. CASE reads[r].peer = peer /\ Valid(reads[r].fence) /\ reads[r].got # {}
    <3> DEFINE kept == {h \in handles : h.generation = reads[r].fence.handle}
               stop == CHOOSE s \in reads[r].got : TRUE
               id   == nextHandle + 1
    <3>1. stop = shown /\ reads[r].fence.handle = handleEpoch /\ stop \in Nat
      BY <1>4, <2>3 DEF InspectionType
    <3>2. /\ nextHandle' = id
          /\ handles' = kept \union {[id |-> id, generation |-> handleEpoch, origin |-> stop]}
          /\ held' = held \union {[id |-> id, origin |-> stop]}
          /\ reply' = [got |-> reads[r].got, shown |-> shown, named |-> reads[r].named]
      BY <2>3, <3>1 DEF NextHandle
    <3>3. handleEpoch \in Nat /\ id \in Nat \ {0} /\ nextHandle \in Nat
      BY DEF InspectionType
    <3> HIDE DEF stop
    <3>4. InspectionType'
      <4>1. handles' \subseteq [id : Nat, generation : Nat, origin : Nat]
        BY <3>1, <3>2, <3>3 DEF InspectionType
      <4>2. held' \subseteq [id : Nat \ {0}, origin : Nat]
        BY <3>1, <3>2, <3>3 DEF InspectionType
      <4> QED
        BY <2>1, <3>2, <3>3, <4>1, <4>2 DEF InspectionType
    <3>5. ReferenceInv'
      <4>1. ASSUME NEW h \in held PROVE h.id \in Nat /\ h.id <= nextHandle
        BY <4>1 DEF InspectionType, ReferenceInv
      <4>2. \A h \in held' : h.id <= nextHandle'
        BY <3>2, <3>3, <4>1
      <4>3. ASSUME NEW h \in held', NEW k \in held', h.id = k.id PROVE h = k
        BY <3>2, <3>3, <4>1, <4>3 DEF ReferenceInv
      <4>4. ASSUME NEW t \in handles'
            PROVE  /\ [id |-> t.id, origin |-> t.origin] \in held'
                   /\ t.generation <= handleEpoch
                   /\ t.generation = handleEpoch => t.origin = shown
        BY <3>1, <3>2, <3>3, <4>4 DEF ReferenceInv
      <4> QED
        BY <4>2, <4>3, <4>4 DEF ReferenceInv
    <3>6. ReplyInv'
      BY <1>4, <2>3, <3>2 DEF ReplyInv
    <3> QED
      BY <1>0, <2>1, <3>4, <3>5, <3>6
  <2> QED
    BY <2>2, <2>3
<1> QED
  BY <1>1, <1>2, <1>3, <1>6, <1>7

LEMMA InspectionSteps == InspectionInv /\ [InspectionNext]_inspectionVars => InspectionInv'
<1>1. InspectionInv /\ UNCHANGED inspectionVars => InspectionInv'
  <2> SUFFICES ASSUME InspectionInv, UNCHANGED inspectionVars PROVE InspectionInv'
    OBVIOUS
  <2> USE DEF InspectionInv, inspectionVars
  <2>1. MovementInv'
    BY SameMovement
  <2>2. InspectionType'
    BY DEF InspectionType, targetSide, epochs, editor
  <2>3. ReadInv' /\ ReferenceInv' /\ ReplyInv'
    BY DEF ReadInv, Fenced, ReferenceInv, ReplyInv, targetSide, epochs, editor
  <2> QED
    BY <2>1, <2>2, <2>3
<1> QED
  BY <1>1, MovementSteps, PeerSteps, ReadingSteps DEF InspectionNext, Reading

LEMMA InspectionInvariant == InspectionSpec => []InspectionInv
  BY InspectionStarts, InspectionSteps, PTL DEF InspectionSpec

(* However many reads, connections, movements and restarts there are, a       *)
(* successful reply shows what was read at the one stop the broker was        *)
(* showing (inspection_service.go, the fences of snapshot.go).                *)
THEOREM RepliesAreOfOnePause == InspectionSpec => []RepliesOfOnePause
<1>1. InspectionInv => RepliesOfOnePause
  BY DEF InspectionInv, ReplyInv, RepliesOfOnePause
<1> QED
  BY <1>1, InspectionInvariant, PTL

(* No reference given to an editor is ever taken for another, for any number  *)
(* of stops, of replies and of connections (dap_handles.go).                  *)
THEOREM ReferencesStayTrue == InspectionSpec => []ReferencesKeepTheirMeaning
<1>1. ASSUME InspectionInv PROVE ReferencesKeepTheirMeaning
  <2> USE <1>1 DEF InspectionInv
  <2>1. \A h, k \in held : h.id = k.id => h = k
    BY DEF ReferenceInv
  <2>2. ASSUME NEW h \in held, NEW t \in Translated(h.id) PROVE t.origin = h.origin
    <3>1. h = [id |-> t.id, origin |-> t.origin]
      BY <2>2 DEF Translated, ReferenceInv
    <3> QED
      BY <3>1
  <2>3. reply.named # 0 => reply.got \subseteq {reply.named}
    BY DEF ReplyInv
  <2> QED
    BY <2>1, <2>2, <2>3 DEF ReferencesKeepTheirMeaning
<1> QED
  BY <1>1, InspectionInvariant, PTL

----------------------------------------------------------------------------
(* Notes on their way to the stores.                                       *)

Notes == [name : NoteNames, rev : 1 .. MaxNotes, body : Bodies, runs : SUBSET TracedRuns]
NoteBatches == [run : TracedRuns, id : Identities, body : Bodies]
NoteReceipts == [known : BOOLEAN, body : Bodies \cup {"none"},
                 status : [NoteStores -> {"none", "pending", "accepted", "failed"}]]
Receipts == [TracedRuns -> [Identities -> NoteReceipts]]

AuthorType ==
    /\ listed \subseteq Notes /\ messages \subseteq Notes /\ records \subseteq TracedRuns
    /\ submitted \subseteq NoteBatches
    /\ IsFiniteSet(listed) /\ IsFiniteSet(messages)
EngineType ==
    /\ receipts \in Receipts /\ receiptsFile \in Receipts
    /\ noteFlight \subseteq TracedRuns \X Identities \X NoteStores
    /\ noteQueue \in [NoteStores -> Seq(NoteBatches)]
    /\ DOMAIN pushing = NoteStores
    /\ \A d \in NoteStores :
          \/ pushing[d] = <<>>
          \/ \E b \in NoteBatches, ok \in BOOLEAN : pushing[d] = <<[batch |-> b, ok |-> ok]>>
    /\ ingested \in [NoteStores -> SUBSET NoteBatches]

\* The revisions of a name are numbered from one without a gap.
RevisionInv ==
    \A name \in NoteNames : \E k \in Nat :
       /\ \A n \in listed : n.name = name => n.rev \in 1 .. k
       /\ \A j \in 1 .. k : \E n \in listed : n.name = name /\ n.rev = j

\* Somebody wrote this content for run r under identity i, or submitted it.
Written(r, i, body) ==
    \/ [run |-> r, id |-> i, body |-> body] \in submitted
    \/ \E n \in listed \cup messages : Identity(n) = i /\ n.body = body /\ r \in n.runs

\* A receipt has the content of its record, and is on disk whenever it is in memory.
ReceiptInv ==
    \A r \in TracedRuns, i \in Identities :
       /\ receipts[r][i].known => Written(r, i, receipts[r][i].body)
       /\ receiptsFile[r][i].known = receipts[r][i].known
       /\ receiptsFile[r][i].body = receipts[r][i].body

\* What is on its way is what a receipt says; what was accepted has arrived.
Receipted(b) == receipts[b.run][b.id].known /\ receipts[b.run][b.id].body = b.body
BatchInv ==
    \A d \in NoteStores :
       /\ \A k \in 1 .. Len(noteQueue[d]) : Receipted(noteQueue[d][k])
       /\ \A k \in 1 .. Len(pushing[d]) :
             /\ Receipted(pushing[d][k].batch)
             /\ pushing[d][k].ok => pushing[d][k].batch \in ingested[d]
Accepted(rs, r, i, d) ==
    rs[r][i].status[d] = "accepted"
       => rs[r][i].known /\ [run |-> r, id |-> i, body |-> rs[r][i].body] \in ingested[d]
AcceptedInv ==
    \A r \in TracedRuns, i \in Identities, d \in NoteStores :
       Accepted(receipts, r, i, d) /\ Accepted(receiptsFile, r, i, d)

FlightInv == \A t \in noteFlight : OnItsWay(t[1], t[2], t[3])
WrittenInv == \A d \in NoteStores : \A x \in ingested[d] :
                 Receipted(x) /\ Written(x.run, x.id, x.body)

NotesInv == /\ AuthorType /\ EngineType /\ RevisionInv /\ ReceiptInv /\ BatchInv
            /\ AcceptedInv /\ FlightInv /\ WrittenInv

LEMMA NotesStart == NotesInit => NotesInv
<1> SUFFICES ASSUME NotesInit PROVE NotesInv
  OBVIOUS
<1> USE DEF NotesInit
<1>1. Missing \in NoteReceipts /\ NoReceipts \in Receipts
  BY DEF Missing, NoReceipts, NoteReceipts, Receipts
<1>2. \A r \in TracedRuns, i \in Identities : NoReceipts[r][i] = Missing
  BY DEF NoReceipts
<1>3. AuthorType /\ RevisionInv
  <2>1. AuthorType
    BY FS_EmptySet DEF AuthorType
  <2>2. RevisionInv
    <3> SUFFICES ASSUME NEW name \in NoteNames
                 PROVE  \E k \in Nat : /\ \A n \in {} : n.name = name => n.rev \in 1 .. k
                                       /\ \A j \in 1 .. k : \E n \in {} : n.name = name /\ n.rev = j
      BY DEF RevisionInv
    <3>1. 0 \in Nat /\ 1 .. 0 = {}
      OBVIOUS
    <3> QED
      BY <3>1
  <2> QED
    BY <2>1, <2>2
<1>4. EngineType
  <2>1. \A d \in NoteStores : noteQueue[d] = <<>> /\ <<>> \in Seq(NoteBatches)
    OBVIOUS
  <2> QED
    BY <1>1, <2>1 DEF EngineType
<1>5. ReceiptInv /\ AcceptedInv
  BY <1>2 DEF ReceiptInv, AcceptedInv, Accepted, Missing
<1>6. BatchInv
  <2>1. \A d \in NoteStores : 1 .. Len(noteQueue[d]) = {} /\ 1 .. Len(pushing[d]) = {}
    OBVIOUS
  <2> QED
    BY <2>1 DEF BatchInv
<1>7. FlightInv /\ WrittenInv
  BY DEF FlightInv, WrittenInv
<1> QED
  BY <1>3, <1>4, <1>5, <1>6, <1>7 DEF NotesInv

\* There are not more revisions of a name than notes.
LEMMA NextAnnotation ==
  ASSUME AuthorType, RevisionInv, NEW name \in NoteNames,
         Cardinality(listed \cup messages) < MaxNotes
  PROVE  \E k \in Nat : /\ Latest(name) = k /\ k + 1 \in 1 .. MaxNotes
                        /\ \A n \in listed : n.name = name => n.rev \in 1 .. k
                        /\ \A j \in 1 .. k : \E n \in listed : n.name = name /\ n.rev = j
<1>1. PICK k \in Nat : /\ \A n \in listed : n.name = name => n.rev \in 1 .. k
                       /\ \A j \in 1 .. k : \E n \in listed : n.name = name /\ n.rev = j
  BY DEF RevisionInv
<1>2. Latest(name) = k
  <2> DEFINE S == {n.rev : n \in {n \in listed : n.name = name}} \cup {0}
  <2>1. k \in S
    <3>1. CASE k = 0
      BY <3>1
    <3>2. CASE k # 0
      <4>1. k \in 1 .. k
        BY <1>1, <3>2
      <4> QED
        BY <1>1, <4>1
    <3> QED
      BY <3>1, <3>2
  <2>2. \A x \in S : x \in 0 .. k
    BY <1>1
  <2> HIDE DEF S
  <2>3. \A y \in S : k >= y /\ (y >= k => y = k)
    BY <2>2
  <2>4. Max(S) = k
    <3>1. Max(S) = CHOOSE x \in S : \A y \in S : x >= y
      BY DEF Max
    <3>2. Max(S) \in S /\ \A y \in S : Max(S) >= y
      BY <2>1, <2>3, <3>1
    <3> QED
      BY <2>1, <2>3, <3>2
  <2> QED
    BY <2>4 DEF Latest, S
<1>3. k < MaxNotes
  <2> DEFINE f == [j \in 1 .. k |-> CHOOSE n \in listed : n.name = name /\ n.rev = j]
  <2>1. \A j \in 1 .. k : f[j] \in listed /\ f[j].rev = j
    BY <1>1
  <2> HIDE DEF f
  <2>2. f \in Injection(1 .. k, listed)
    <3>1. DOMAIN f = 1 .. k /\ f = [j \in 1 .. k |-> f[j]]
      BY DEF f
    <3> QED
      BY <2>1, <3>1 DEF Injection, IsInjective
  <2>3. k <= Cardinality(listed)
    <3>1. Cardinality(1 .. k) = k
      BY FS_Interval
    <3>2. Cardinality(1 .. k) <= Cardinality(listed)
      BY <2>2, FS_Injection DEF AuthorType
    <3> QED
      BY <3>1, <3>2
  <2>4. /\ IsFiniteSet(listed \cup messages)
        /\ Cardinality(listed) <= Cardinality(listed \cup messages)
    <3>1. IsFiniteSet(listed \cup messages)
      BY FS_Union DEF AuthorType
    <3> QED
      BY <3>1, FS_Subset
  <2>5. Cardinality(listed) \in Nat /\ Cardinality(listed \cup messages) \in Nat
    BY <2>4, FS_CardinalityType DEF AuthorType
  <2> QED
    BY <2>3, <2>4, <2>5, NotesAssumption DEF NotesAssumption
<1> QED
  BY <1>1, <1>2, <1>3, NotesAssumption DEF NotesAssumption

\* A note is added: nothing that was written is undone.
LEMMA AuthorSteps ==
  ASSUME NotesInv, RunTraced \/ Annotate \/ RegisterSource \/ CommitMessage
  PROVE  NotesInv'
<1> USE DEF NotesInv
<1>1. /\ listed \subseteq listed' /\ messages \subseteq messages' /\ UNCHANGED engineSide
      /\ AuthorType' /\ RevisionInv' /\ submitted' = submitted
  <2>1. CASE RunTraced \/ RegisterSource
    BY <2>1 DEF RunTraced, RegisterSource, AuthorType, RevisionInv
  <2>2. CASE Annotate
    <3>1. PICK name \in NoteNames, body \in Bodies, runs \in SUBSET records :
             listed' = listed \cup
                {[name |-> name, rev |-> Latest(name) + 1, body |-> body, runs |-> runs]}
      BY <2>2 DEF Annotate
    <3>2. PICK k \in Nat : /\ Latest(name) = k /\ k + 1 \in 1 .. MaxNotes
                           /\ \A n \in listed : n.name = name => n.rev \in 1 .. k
                           /\ \A j \in 1 .. k : \E n \in listed : n.name = name /\ n.rev = j
      BY <2>2, NextAnnotation DEF Annotate
    <3> DEFINE new == [name |-> name, rev |-> k + 1, body |-> body, runs |-> runs]
    <3>3. listed' = listed \cup {new} /\ new \in Notes
      BY <3>1, <3>2 DEF AuthorType, Notes
    <3>4. new.name = name /\ new.rev = k + 1
      OBVIOUS
    <3> HIDE DEF new
    <3>5. AuthorType'
      BY <2>2, <3>3, FS_AddElement DEF Annotate, AuthorType
    <3>6. ASSUME NEW other \in NoteNames
          PROVE  \E l \in Nat :
                    /\ \A n \in listed' : n.name = other => n.rev \in 1 .. l
                    /\ \A j \in 1 .. l : \E n \in listed' : n.name = other /\ n.rev = j
      <4>1. CASE other = name
        <5>1. \A n \in listed' : n.name = name => n.rev \in 1 .. k + 1
          BY <3>2, <3>3, <3>4
        <5>2. \A j \in 1 .. k + 1 : \E n \in listed' : n.name = name /\ n.rev = j
          <6> SUFFICES ASSUME NEW j \in 1 .. k + 1
                       PROVE  \E n \in listed' : n.name = name /\ n.rev = j
            OBVIOUS
          <6>1. CASE j = k + 1
            BY <3>3, <3>4, <6>1
          <6>2. CASE j # k + 1
            <7>1. j \in 1 .. k
              BY <6>2
            <7> QED
              BY <3>2, <3>3, <7>1
          <6> QED
            BY <6>1, <6>2
        <5> QED
          BY <4>1, <5>1, <5>2, k + 1 \in Nat
      <4>2. CASE other # name
        BY <3>3, <3>4, <4>2 DEF RevisionInv
      <4> QED
        BY <4>1, <4>2
    <3> QED
      BY <2>2, <3>3, <3>5, <3>6 DEF Annotate, RevisionInv
  <2>3. CASE CommitMessage
    <3>1. PICK name \in NoteNames, body \in Bodies, r \in records :
             messages' = messages \cup {[name |-> name, rev |-> 1, body |-> body, runs |-> {r}]}
      BY <2>3 DEF CommitMessage
    <3>2. 1 \in 1 .. MaxNotes
      <4>1. IsFiniteSet(listed \cup messages) /\ Cardinality(listed \cup messages) < MaxNotes
        BY <2>3, FS_Union DEF CommitMessage, AuthorType
      <4>2. Cardinality(listed \cup messages) \in Nat
        BY <4>1, FS_CardinalityType
      <4> QED
        BY <4>1, <4>2, NotesAssumption DEF NotesAssumption
    <3> DEFINE new == [name |-> name, rev |-> 1, body |-> body, runs |-> {r}]
    <3>3. new \in Notes
      BY <3>2 DEF AuthorType, Notes
    <3> HIDE DEF new
    <3>4. messages' = messages \cup {new}
      BY <3>1 DEF new
    <3>5. IsFiniteSet(messages')
      BY <3>4, FS_AddElement DEF AuthorType
    <3> QED
      BY <2>3, <3>3, <3>4, <3>5 DEF CommitMessage, AuthorType, RevisionInv
  <2> QED
    BY <2>1, <2>2, <2>3 DEF Annotate, CommitMessage, RunTraced, RegisterSource
<1>2. \A r, i, body : Written(r, i, body) => Written(r, i, body)'
  BY <1>1 DEF Written
<1>3. EngineType' /\ BatchInv' /\ AcceptedInv' /\ FlightInv'
  BY ZenonT(40), <1>1 DEF engineSide, EngineType, BatchInv, Receipted, AcceptedInv, Accepted, FlightInv,
     OnItsWay
<1>4. ReceiptInv' /\ WrittenInv'
  BY <1>1, <1>2 DEF engineSide, ReceiptInv, WrittenInv, Receipted
<1> QED
  BY <1>1, <1>3, <1>4

\* A batch that a receipt stands for is put into the queues.
LEMMA Enqueued ==
  ASSUME EngineType, FlightInv, NEW b \in NoteBatches, NEW ds \in SUBSET NoteStores,
         noteQueue' = [d \in NoteStores |-> IF d \in ds THEN Append(noteQueue[d], b)
                                            ELSE noteQueue[d]],
         noteFlight' = noteFlight \cup {<<b.run, b.id, d>> : d \in ds},
         pushing' = pushing
  PROVE  /\ noteQueue' \in [NoteStores -> Seq(NoteBatches)]
         /\ noteFlight' \subseteq TracedRuns \X Identities \X NoteStores
         /\ FlightInv'
         /\ \A d \in NoteStores : \A k \in 1 .. Len(noteQueue'[d]) :
               \/ k \in 1 .. Len(noteQueue[d]) /\ noteQueue'[d][k] = noteQueue[d][k]
               \/ noteQueue'[d][k] = b
<1>1. b.run \in TracedRuns /\ b.id \in Identities /\ noteQueue \in [NoteStores -> Seq(NoteBatches)]
  BY DEF NoteBatches, EngineType
<1>3. ASSUME NEW d \in NoteStores
      PROVE  /\ noteQueue'[d] \in Seq(NoteBatches)
             /\ \A k \in 1 .. Len(noteQueue[d]) :
                   k \in 1 .. Len(noteQueue'[d]) /\ noteQueue'[d][k] = noteQueue[d][k]
             /\ \A k \in 1 .. Len(noteQueue'[d]) :
                   \/ k \in 1 .. Len(noteQueue[d]) /\ noteQueue'[d][k] = noteQueue[d][k]
                   \/ noteQueue'[d][k] = b
             /\ d \in ds => \E k \in 1 .. Len(noteQueue'[d]) : noteQueue'[d][k] = b
  <2> DEFINE q == noteQueue[d]
  <2>1. q \in Seq(NoteBatches) /\ Len(q) \in Nat
    BY <1>1
  <2>2. CASE d \notin ds
    BY <2>1, <2>2
  <2>3. CASE d \in ds
    <3>1. noteQueue'[d] = Append(q, b)
      BY <2>3
    <3> HIDE DEF q
    <3>2. /\ Append(q, b) \in Seq(NoteBatches) /\ Len(Append(q, b)) = Len(q) + 1
          /\ \A k \in 1 .. Len(q) : Append(q, b)[k] = q[k]
          /\ Append(q, b)[Len(q) + 1] = b
      BY <1>1, <2>1, AppendProperties
    <3>3. /\ Len(q) + 1 \in 1 .. Len(q) + 1
          /\ \A k \in 1 .. Len(q) : k \in 1 .. Len(q) + 1
          /\ \A k \in 1 .. Len(q) + 1 : k \in 1 .. Len(q) \/ k = Len(q) + 1
      BY <2>1
    <3> QED
      BY <3>1, <3>2, <3>3 DEF q
  <2> QED
    BY <2>2, <2>3
<1>4. noteQueue' \in [NoteStores -> Seq(NoteBatches)]
  BY <1>3
<1>5. noteFlight' \subseteq TracedRuns \X Identities \X NoteStores
  BY <1>1 DEF EngineType
<1>6. FlightInv'
  <2> SUFFICES ASSUME NEW t \in noteFlight' PROVE OnItsWay(t[1], t[2], t[3])'
    BY DEF FlightInv
  <2>1. CASE t \in noteFlight
    <3>1. t[3] \in NoteStores /\ OnItsWay(t[1], t[2], t[3])
      BY <2>1 DEF EngineType, FlightInv
    <3> QED
      BY <1>3, <3>1 DEF OnItsWay
  <2>2. CASE t \notin noteFlight
    <3>1. PICK d \in ds : t = <<b.run, b.id, d>>
      BY <2>2
    <3> QED
      BY <1>1, <1>3, <3>1 DEF OnItsWay
  <2> QED
    BY <2>1, <2>2
<1> QED
  BY <1>3, <1>4, <1>5, <1>6

\* A receipt that is known has some content.
LEMMA KnownReceipt ==
  ASSUME NotesInv, NEW r \in TracedRuns, NEW i \in Identities, receipts[r][i].known
  PROVE  receipts[r][i].body \in Bodies
BY DEF NotesInv, ReceiptInv, Written, AuthorType, Notes, NoteBatches

\* More of what is known goes on its way.
LEMMA Republished ==
  ASSUME NotesInv, NEW r \in TracedRuns, NEW i \in Identities, receipts[r][i].known,
         Enqueue(receipts, r, i),
         UNCHANGED <<listed, messages, records, receipts, receiptsFile, pushing, ingested>>,
         submitted \subseteq submitted', submitted' \subseteq NoteBatches
  PROVE  NotesInv'
<1> USE DEF NotesInv
<1>1. /\ noteQueue' \in [NoteStores -> Seq(NoteBatches)]
      /\ noteFlight' \subseteq TracedRuns \X Identities \X NoteStores
      /\ FlightInv'
      /\ \A d \in NoteStores : \A k \in 1 .. Len(noteQueue'[d]) :
            \/ k \in 1 .. Len(noteQueue[d]) /\ noteQueue'[d][k] = noteQueue[d][k]
            \/ noteQueue'[d][k] = [run |-> r, id |-> i, body |-> receipts[r][i].body]
  <2> DEFINE b == [run |-> r, id |-> i, body |-> receipts[r][i].body]
             ds == Wanting(receipts, r, i)
  <2>1. b \in NoteBatches /\ b.run = r /\ b.id = i /\ ds \in SUBSET NoteStores
    BY KnownReceipt DEF NoteBatches, Wanting
  <2>2. /\ noteQueue' = [d \in NoteStores |-> IF d \in ds THEN Append(noteQueue[d], b)
                                              ELSE noteQueue[d]]
        /\ noteFlight' = noteFlight \cup {<<b.run, b.id, d>> : d \in ds}
    BY DEF Enqueue
  <2> HIDE DEF b, ds
  <2>3. /\ noteQueue' \in [NoteStores -> Seq(NoteBatches)]
        /\ noteFlight' \subseteq TracedRuns \X Identities \X NoteStores
        /\ FlightInv'
        /\ \A d \in NoteStores : \A k \in 1 .. Len(noteQueue'[d]) :
              \/ k \in 1 .. Len(noteQueue[d]) /\ noteQueue'[d][k] = noteQueue[d][k]
              \/ noteQueue'[d][k] = b
    BY <2>1, <2>2, Enqueued
  <2> QED
    BY <2>3 DEF b
<1>2. AuthorType' /\ RevisionInv' /\ EngineType'
  BY <1>1 DEF AuthorType, RevisionInv, EngineType
<1>3. ReceiptInv' /\ AcceptedInv' /\ WrittenInv'
  <2>1. \A q, j, body : Written(q, j, body) => Written(q, j, body)'
    BY DEF Written
  <2> QED
    BY <2>1 DEF ReceiptInv, AcceptedInv, Accepted, WrittenInv, Receipted
<1>4. BatchInv'
  <2>1. \A b : Receipted(b)' <=> Receipted(b)
    BY DEF Receipted
  <2>2. Receipted([run |-> r, id |-> i, body |-> receipts[r][i].body])
    BY DEF Receipted
  <2>3. \A d \in NoteStores : \A k \in 1 .. Len(noteQueue'[d]) : Receipted(noteQueue'[d][k])
    BY <1>1, <2>2 DEF BatchInv
  <2> QED
    BY <2>1, <2>3 DEF BatchInv
<1> QED
  BY <1>1, <1>2, <1>3, <1>4

LEMMA PublishStep ==
  ASSUME NotesInv, NEW r \in TracedRuns, NEW i \in Identities, NEW text \in Bodies,
         Publishes(r, i, text), Written(r, i, text)',
         UNCHANGED <<listed, messages, records, pushing, ingested>>,
         submitted \subseteq submitted', submitted' \subseteq NoteBatches
  PROVE  NotesInv'
<1> USE DEF NotesInv
<1>4. CASE receipts[r][i].known
  BY <1>4, Republished DEF Publishes, Again
<1>5. CASE ~receipts[r][i].known
  <2> DEFINE new == Receipt(text)
             b == [run |-> r, id |-> i, body |-> text]
  <2>1. /\ new \in NoteReceipts /\ new.known /\ new.body = text
        /\ \A d \in NoteStores : new.status[d] = "pending"
    BY DEF Receipt, NoteReceipts
  <2> HIDE DEF new
  <2>0. /\ receipts' = [receipts EXCEPT ![r][i] = new]
        /\ receiptsFile' = [receiptsFile EXCEPT ![r] = receipts'[r]]
        /\ Enqueue(receipts', r, i)
        /\ UNCHANGED <<listed, messages, records, pushing, ingested>>
    BY <1>5 DEF Publishes, First, new
  <2>2. /\ receipts' \in Receipts /\ receipts'[r][i] = new
        /\ \A q \in TracedRuns, j \in Identities :
              q # r \/ j # i => receipts'[q][j] = receipts[q][j]
    BY <2>0, <2>1 DEF EngineType, Receipts
  <2>3. /\ receiptsFile' \in Receipts
        /\ \A q \in TracedRuns : q # r => receiptsFile'[q] = receiptsFile[q]
        /\ receiptsFile'[r] = receipts'[r]
    BY <2>0, <2>2 DEF EngineType, Receipts
  <2>4. /\ noteQueue' \in [NoteStores -> Seq(NoteBatches)]
        /\ noteFlight' \subseteq TracedRuns \X Identities \X NoteStores
        /\ FlightInv'
        /\ \A d \in NoteStores : \A k \in 1 .. Len(noteQueue'[d]) :
              \/ k \in 1 .. Len(noteQueue[d]) /\ noteQueue'[d][k] = noteQueue[d][k]
              \/ noteQueue'[d][k] = b
    <3> DEFINE ds == Wanting(receipts', r, i)
    <3>1. receipts'[r][i].body = text
      BY <2>1, <2>2
    <3>2. b \in NoteBatches /\ b.run = r /\ b.id = i /\ ds \in SUBSET NoteStores
      BY DEF NoteBatches, Wanting
    <3>3. /\ noteQueue' = [d \in NoteStores |-> IF d \in ds THEN Append(noteQueue[d], b)
                                                ELSE noteQueue[d]]
          /\ noteFlight' = noteFlight \cup {<<b.run, b.id, d>> : d \in ds}
      BY <2>0, <3>1 DEF Enqueue
    <3> HIDE DEF b, ds
    <3> QED
      BY <2>0, <3>2, <3>3, Enqueued
  <2>5. AuthorType' /\ RevisionInv' /\ EngineType'
    BY <2>0, <2>2, <2>3, <2>4 DEF AuthorType, RevisionInv, EngineType
  <2>6. \A q, j, body : Written(q, j, body) => Written(q, j, body)'
    BY <2>0 DEF Written
  <2>7. ReceiptInv'
    <3>0. ASSUME NEW q \in TracedRuns, NEW j \in Identities
          PROVE  /\ receipts'[q][j].known => Written(q, j, receipts[q][j].body)'
                 /\ receiptsFile'[q][j].known = receipts'[q][j].known
                 /\ receiptsFile'[q][j].body = receipts'[q][j].body
      <4>1. CASE q = r /\ j = i
        BY <2>1, <2>2, <2>3, <4>1 DEF Written
      <4>2. CASE q # r \/ j # i
        <5>1. /\ receipts'[q][j] = receipts[q][j]
              /\ receiptsFile'[q][j] \in {receipts[q][j], receiptsFile[q][j]}
          BY <2>2, <2>3, <4>2
        <5>2. receipts[q][j].known => Written(q, j, receipts[q][j].body)
          BY DEF ReceiptInv
        <5>3. receipts'[q][j].known => Written(q, j, receipts[q][j].body)'
          BY <2>0, <5>1, <5>2 DEF Written
        <5> QED
          BY <5>1, <5>3 DEF ReceiptInv
      <4> QED
        BY <4>1, <4>2
    <3> QED
      BY <3>0 DEF ReceiptInv
  <2>8. BatchInv'
    <3>1. ASSUME NEW c \in NoteBatches, Receipted(c) PROVE Receipted(c)'
      <4>1. (c.run # r \/ c.id # i) /\ c.run \in TracedRuns /\ c.id \in Identities
        BY <1>5, <3>1 DEF Receipted, NoteBatches
      <4> QED
        BY <2>2, <3>1, <4>1 DEF Receipted
    <3>2. Receipted(b)'
      BY <2>1, <2>2 DEF Receipted
    <3>3. ASSUME NEW d \in NoteStores, NEW k \in 1 .. Len(noteQueue[d])
          PROVE  noteQueue[d][k] \in NoteBatches /\ Receipted(noteQueue[d][k])
      BY <3>3, ElementOfSeq DEF EngineType, BatchInv
    <3>4. ASSUME NEW d \in NoteStores, NEW k \in 1 .. Len(pushing[d])
          PROVE  pushing[d][k].batch \in NoteBatches /\ Receipted(pushing[d][k].batch)
      <4>1. PICK c \in NoteBatches, ok \in BOOLEAN : pushing[d] = <<[batch |-> c, ok |-> ok]>>
        BY <3>4 DEF EngineType
      <4>2. k = 1 /\ pushing[d][k].batch = c
        BY <3>4, <4>1
      <4> QED
        BY <4>2 DEF BatchInv
    <3> DEFINE Now(c) == receipts'[c.run][c.id].known /\ receipts'[c.run][c.id].body = c.body
    <3>a. \A c \in NoteBatches : Receipted(c) => Now(c)
      BY <3>1 DEF Receipted
    <3>b. Now(b)
      BY <3>2 DEF Receipted
    <3> HIDE DEF Now
    <3>5. \A d \in NoteStores : \A k \in 1 .. Len(noteQueue'[d]) : Now(noteQueue'[d][k])
      BY <2>4, <3>a, <3>b, <3>3
    <3>6. \A d \in NoteStores : \A k \in 1 .. Len(pushing[d]) : Now(pushing[d][k].batch)
      BY <3>a, <3>4
    <3>7. \A d \in NoteStores : pushing'[d] = pushing[d] /\ ingested'[d] = ingested[d]
      BY <2>0
    <3>8. \A c : Receipted(c)' <=> Now(c)
      BY DEF Receipted, Now
    <3> QED
      BY <3>5, <3>6, <3>7, <3>8 DEF BatchInv
  <2>9. AcceptedInv' /\ WrittenInv'
    <3>1. ASSUME NEW q \in TracedRuns, NEW j \in Identities, NEW d \in NoteStores
          PROVE  Accepted(receipts, q, j, d)' /\ Accepted(receiptsFile, q, j, d)'
      <4>1. CASE q = r /\ j = i
        <5>1. receipts'[q][j] = new /\ receiptsFile'[q][j] = new /\ new.status[d] = "pending"
          BY <2>1, <2>2, <2>3, <4>1
        <5> QED
          BY <5>1 DEF Accepted
      <4>2. CASE q # r \/ j # i
        <5>1. /\ receipts'[q][j] = receipts[q][j] /\ ingested' = ingested
              /\ receiptsFile'[q][j] \in {receipts[q][j], receiptsFile[q][j]}
          BY <2>0, <2>2, <2>3, <4>2
        <5> QED
          BY <5>1 DEF AcceptedInv, Accepted
      <4> QED
        BY <4>1, <4>2
    <3>2. WrittenInv'
      <4>1. ASSUME NEW d \in NoteStores, NEW x \in ingested[d]
            PROVE  /\ receipts'[x.run][x.id].known /\ receipts'[x.run][x.id].body = x.body
                   /\ Written(x.run, x.id, x.body)'
        <5>1. /\ Receipted(x) /\ Written(x.run, x.id, x.body)
              /\ x.run \in TracedRuns /\ x.id \in Identities
          BY <4>1 DEF WrittenInv, EngineType, NoteBatches
        <5>2. receipts'[x.run][x.id] = receipts[x.run][x.id]
          BY <1>5, <2>2, <5>1 DEF Receipted
        <5> QED
          BY <2>6, <5>1, <5>2 DEF Receipted
      <4> QED
        BY <2>0, <4>1 DEF WrittenInv, Receipted
    <3> QED
      BY <3>1, <3>2 DEF AcceptedInv
  <2> QED
    BY <2>4, <2>5, <2>7, <2>8, <2>9
<1> QED
  BY <1>4, <1>5

LEMMA MetadataStep ==
  ASSUME NotesInv, NEW n \in listed \cup messages, Metadata(n)
  PROVE  NotesInv'
<1> DEFINE i == Identity(n)
<1>1. n \in Notes /\ i \in Identities /\ n.body \in Bodies
  BY DEF NotesInv, AuthorType, Notes, Identity, Identities
<1>2. PICK r \in n.runs : Publishes(r, i, n.body)
  BY DEF Metadata
<1>3. UNCHANGED <<listed, messages, submitted, records, pushing, ingested>>
  BY DEF Metadata
<1>4. r \in TracedRuns /\ Written(r, i, n.body)'
  BY <1>1, <1>2, <1>3 DEF Notes, Written
<1>5. submitted \subseteq submitted' /\ submitted' \subseteq NoteBatches
  BY <1>3 DEF NotesInv, AuthorType
<1> HIDE DEF i
<1> QED
  BY <1>1, <1>2, <1>3, <1>4, <1>5, PublishStep

LEMMA SubmitStep ==
  ASSUME NotesInv, Submit
  PROVE  NotesInv'
<1>1. PICK r \in records, i \in Identities, text \in Bodies :
         /\ Publishes(r, i, text)
         /\ submitted' = submitted \cup {[run |-> r, id |-> i, body |-> text]}
  BY DEF Submit
<1>2. UNCHANGED <<listed, messages, records, pushing, ingested>>
  BY DEF Submit
<1>3. r \in TracedRuns /\ submitted \subseteq submitted' /\ submitted' \subseteq NoteBatches
  BY <1>1 DEF NotesInv, AuthorType, NoteBatches
<1>4. Written(r, i, text)'
  BY <1>1 DEF Written
<1> QED
  BY <1>1, <1>2, <1>3, <1>4, PublishStep

\* A worker takes the first batch of its queue.
LEMMA TakeStep ==
  ASSUME NotesInv, TakeBatch
  PROVE  NotesInv'
<1> USE DEF NotesInv
<1>1. PICK d \in NoteStores, ok \in BOOLEAN, taken \in BOOLEAN :
         /\ pushing[d] = <<>> /\ noteQueue[d] # <<>>
         /\ ok => taken
         /\ pushing' = [pushing EXCEPT ![d] = <<[batch |-> Head(noteQueue[d]), ok |-> ok]>>]
         /\ noteQueue' = [noteQueue EXCEPT ![d] = Tail(@)]
         /\ ingested' = IF taken THEN [ingested EXCEPT ![d] = @ \cup {Head(noteQueue[d])}]
                        ELSE ingested
         /\ UNCHANGED <<listed, messages, submitted, records, receipts, receiptsFile, noteFlight>>
  BY DEF TakeBatch
<1> DEFINE b == Head(noteQueue[d])
           p == <<[batch |-> b, ok |-> ok]>>
           q == noteQueue[d]
<1>2. q \in Seq(NoteBatches) /\ q # <<>> /\ Len(q) \in Nat /\ b = q[1] /\ 1 \in 1 .. Len(q)
  BY <1>1 DEF EngineType
<1>3. /\ b \in NoteBatches /\ Tail(q) \in Seq(NoteBatches) /\ Len(Tail(q)) = Len(q) - 1
      /\ \A k \in 1 .. Len(Tail(q)) : k + 1 \in 1 .. Len(q) /\ Tail(q)[k] = q[k + 1]
  BY <1>2, HeadTailProperties
<1>4. /\ pushing'[d] = p /\ Len(p) = 1 /\ p[1].batch = b /\ p[1].ok = ok /\ DOMAIN pushing' = NoteStores
      /\ noteQueue'[d] = Tail(q)
      /\ b \in NoteBatches /\ (ok => b \in ingested'[d])
      /\ \A e \in NoteStores : /\ e # d => pushing'[e] = pushing[e] /\ noteQueue'[e] = noteQueue[e]
                               /\ ingested[e] \subseteq ingested'[e]
                               /\ \A x \in ingested'[e] : x \in ingested[e] \/ x = b
  BY <1>1, <1>3 DEF EngineType
<1>5. Receipted(b)
  BY <1>2 DEF BatchInv
<1>6. AuthorType' /\ RevisionInv' /\ ReceiptInv'
  BY <1>1 DEF AuthorType, RevisionInv, ReceiptInv, Written
<1>7. EngineType'
  <2>1. noteQueue' \in [NoteStores -> Seq(NoteBatches)]
    BY <1>1, <1>3 DEF EngineType
  <2>2. ingested' \in [NoteStores -> SUBSET NoteBatches]
    BY <1>1, <1>3 DEF EngineType
  <2> HIDE DEF b
  <2>3. \A e \in NoteStores :
           \/ pushing'[e] = <<>>
           \/ \E c \in NoteBatches, s \in BOOLEAN : pushing'[e] = <<[batch |-> c, ok |-> s]>>
    BY <1>4 DEF EngineType
  <2> QED
    BY <1>1, <1>4, <2>1, <2>2, <2>3 DEF EngineType
<1> HIDE DEF b, p, q
<1>8. BatchInv'
  <2>1. \A c : Receipted(c)' <=> Receipted(c)
    BY <1>1 DEF Receipted
  <2>2. ASSUME NEW e \in NoteStores
        PROVE  /\ \A k \in 1 .. Len(noteQueue'[e]) : Receipted(noteQueue'[e][k])
               /\ \A k \in 1 .. Len(pushing'[e]) :
                     /\ Receipted(pushing'[e][k].batch)
                     /\ pushing'[e][k].ok => pushing'[e][k].batch \in ingested'[e]
    <3>1. CASE e = d
      <4>1. \A k \in 1 .. Len(Tail(q)) : Receipted(Tail(q)[k])
        BY <1>3 DEF BatchInv, q
      <4>2. \A k \in 1 .. Len(p) : k = 1
        BY <1>4
      <4> QED
        BY <1>4, <1>5, <3>1, <4>1, <4>2
    <3>2. CASE e # d
      BY <1>4, <3>2 DEF BatchInv
    <3> QED
      BY <3>1, <3>2
  <2> QED
    BY <2>1, <2>2 DEF BatchInv
<1>9. AcceptedInv'
  BY <1>1, <1>4 DEF AcceptedInv, Accepted
<1>10. FlightInv'
  <2> SUFFICES ASSUME NEW t \in noteFlight PROVE OnItsWay(t[1], t[2], t[3])'
    BY <1>1 DEF FlightInv
  <2>1. OnItsWay(t[1], t[2], t[3]) /\ t[3] \in NoteStores
    BY DEF FlightInv, EngineType
  <2>2. CASE t[3] # d
    BY <1>4, <2>1, <2>2 DEF OnItsWay
  <2>3. CASE t[3] = d
    <3>0. Len(pushing[d]) = 0
      BY <1>1
    <3>1. PICK k \in 1 .. Len(q) : q[k].run = t[1] /\ q[k].id = t[2]
      BY <2>1, <2>3, <3>0 DEF OnItsWay, q
    <3>2. CASE k = 1
      <4>1. 1 \in 1 .. Len(pushing'[d]) /\ pushing'[d][1].batch = q[1]
        BY <1>2, <1>4
      <4> QED
        BY <2>3, <3>1, <3>2, <4>1 DEF OnItsWay
    <3>3. CASE k # 1
      <4>1. k - 1 \in 1 .. Len(Tail(q)) /\ (k - 1) + 1 = k
        BY <1>2, <1>3, <3>3
      <4>2. Tail(q)[k - 1] = q[k]
        BY <1>3, <4>1
      <4>3. /\ k - 1 \in 1 .. Len(noteQueue'[t[3]])
            /\ noteQueue'[t[3]][k - 1].run = t[1] /\ noteQueue'[t[3]][k - 1].id = t[2]
        BY <1>4, <2>3, <3>1, <4>1, <4>2
      <4> QED
        BY <4>3 DEF OnItsWay
    <3> QED
      BY <3>2, <3>3
  <2> QED
    BY <2>2, <2>3
<1>11. WrittenInv'
  <2>1. \A r, i, body : Written(r, i, body)' <=> Written(r, i, body)
    BY <1>1 DEF Written
  <2>2. Receipted(b) /\ Written(b.run, b.id, b.body)
    BY <1>4, <1>5 DEF Receipted, ReceiptInv, NoteBatches
  <2>3. \A e \in NoteStores : \A x \in ingested'[e] :
           Receipted(x) /\ Written(x.run, x.id, x.body)
    BY <1>4, <2>2 DEF WrittenInv
  <2>4. \A x : Receipted(x)' <=> Receipted(x)
    BY <1>1 DEF Receipted
  <2> QED
    BY <2>1, <2>3, <2>4 DEF WrittenInv
<1> QED
  BY <1>6, <1>7, <1>8, <1>9, <1>10, <1>11

\* The outcome of a push is recorded, for the batch that was pushed and no other.
LEMMA OutcomeStep ==
  ASSUME NotesInv, Outcome
  PROVE  NotesInv'
<1> DEFINE at(d) == pushing[d][1].batch
           result(d, saved) == IF pushing[d][1].ok /\ saved THEN "accepted" ELSE "failed"
<1>0. PICK d \in NoteStores, saved \in BOOLEAN :
         /\ pushing[d] # <<>>
         /\ receipts' = [receipts EXCEPT ![at(d).run][at(d).id].status[d] = result(d, saved)]
         /\ receiptsFile' = IF saved THEN [receiptsFile EXCEPT ![at(d).run] = receipts'[at(d).run]]
                            ELSE receiptsFile
         /\ noteFlight' = noteFlight \ {<<at(d).run, at(d).id, d>>}
         /\ pushing' = [pushing EXCEPT ![d] = <<>>]
  BY Zenon DEF Outcome, Landed
<1>a. UNCHANGED <<listed, messages, submitted, records, noteQueue, ingested>>
  BY Zenon DEF Outcome
<1> USE DEF NotesInv
<1>2. PICK b \in NoteBatches, ok \in BOOLEAN : pushing[d] = <<[batch |-> b, ok |-> ok]>>
  <2>1. pushing[d] # <<>>
    BY Zenon, <1>0
  <2> QED
    BY <2>1 DEF EngineType
<1> DEFINE r == b.run
           i == b.id
           outcome == IF ok /\ saved THEN "accepted" ELSE "failed"
<1>3. /\ receipts' = [receipts EXCEPT ![r][i].status[d] = outcome]
      /\ receiptsFile' = IF saved THEN [receiptsFile EXCEPT ![r] = receipts'[r]]
                         ELSE receiptsFile
      /\ noteFlight' = noteFlight \ {<<r, i, d>>}
      /\ pushing' = [pushing EXCEPT ![d] = <<>>]
      /\ UNCHANGED <<listed, messages, submitted, records, noteQueue, ingested>>
  <2>1. at(d).run = r /\ at(d).id = i /\ result(d, saved) = outcome
    BY <1>2
  <2> HIDE DEF r, i, at, result, outcome
  <2> QED
    BY <1>0, <1>a, <2>1
<1> HIDE DEF at, result
<1>4. r \in TracedRuns /\ i \in Identities /\ outcome \in {"accepted", "failed"}
  BY DEF NoteBatches
<1>5. Receipted(b) /\ (ok => b \in ingested[d])
  <2>1. 1 \in 1 .. Len(pushing[d]) /\ pushing[d][1].batch = b /\ pushing[d][1].ok = ok
    BY <1>2
  <2> QED
    BY <2>1 DEF BatchInv
<1> HIDE DEF r, i, outcome
<1>6. /\ receipts' \in Receipts
      /\ \A s \in TracedRuns, j \in Identities :
            /\ receipts'[s][j].known = receipts[s][j].known
            /\ receipts'[s][j].body = receipts[s][j].body
            /\ \A e \in NoteStores :
                  receipts'[s][j].status[e] = IF s = r /\ j = i /\ e = d THEN outcome
                                              ELSE receipts[s][j].status[e]
  <2>1. receipts \in Receipts
    BY DEF EngineType
  <2> DEFINE old == receipts[r][i]
             new == [old EXCEPT !.status[d] = outcome]
  <2>2. old \in NoteReceipts
    BY <1>4, <2>1 DEF Receipts
  <2>3. /\ new \in NoteReceipts /\ new.known = old.known /\ new.body = old.body
        /\ \A e \in NoteStores : new.status[e] = IF e = d THEN outcome ELSE old.status[e]
    BY <1>4, <2>2 DEF NoteReceipts
  <2>4. receipts' = [receipts EXCEPT ![r][i] = new]
    BY <1>3, <1>4, <2>1 DEF Receipts
  <2> HIDE DEF new
  <2>5. /\ receipts' \in Receipts /\ receipts'[r][i] = new
        /\ \A s \in TracedRuns, j \in Identities :
              s # r \/ j # i => receipts'[s][j] = receipts[s][j]
    BY <1>4, <2>1, <2>3, <2>4 DEF Receipts
  <2>6. ASSUME NEW s \in TracedRuns, NEW j \in Identities
        PROVE  /\ receipts'[s][j].known = receipts[s][j].known
               /\ receipts'[s][j].body = receipts[s][j].body
               /\ \A e \in NoteStores :
                     receipts'[s][j].status[e] = IF s = r /\ j = i /\ e = d THEN outcome
                                                 ELSE receipts[s][j].status[e]
    <3>1. CASE s = r /\ j = i
      BY <2>3, <2>5, <3>1
    <3>2. CASE s # r \/ j # i
      BY <2>5, <3>2
    <3> QED
      BY <3>1, <3>2
  <2> QED
    BY <2>5, <2>6
<1>7. /\ receiptsFile' \in Receipts
      /\ \A s \in TracedRuns :
            receiptsFile'[s] = receiptsFile[s] \/ receiptsFile'[s] = receipts'[s]
  <2>1. CASE saved
    BY <1>3, <1>4, <1>6, <2>1 DEF EngineType, Receipts
  <2>2. CASE ~saved
    BY <1>3, <2>2 DEF EngineType
  <2> QED
    BY <2>1, <2>2
<1>8. AuthorType' /\ RevisionInv' /\ WrittenInv'
  <2>1. AuthorType' /\ RevisionInv'
    BY <1>3 DEF AuthorType, RevisionInv
  <2>2. ASSUME NEW e \in NoteStores, NEW x \in ingested[e]
        PROVE  Receipted(x)' /\ Written(x.run, x.id, x.body)'
    <3>1. /\ Receipted(x) /\ Written(x.run, x.id, x.body)
          /\ x.run \in TracedRuns /\ x.id \in Identities
      BY <2>2 DEF WrittenInv, EngineType, NoteBatches
    <3> QED
      BY <1>3, <1>6, <3>1 DEF Receipted, Written
  <2> QED
    BY <1>3, <2>1, <2>2 DEF WrittenInv
<1>9. EngineType'
  BY <1>3, <1>6, <1>7 DEF EngineType
<1>10. ReceiptInv'
  <2>1. \A s, j, body : Written(s, j, body)' <=> Written(s, j, body)
    BY <1>3 DEF Written
  <2>2. ASSUME NEW s \in TracedRuns, NEW j \in Identities
        PROVE  /\ receipts'[s][j].known => Written(s, j, receipts'[s][j].body)
               /\ receiptsFile'[s][j].known = receipts'[s][j].known
               /\ receiptsFile'[s][j].body = receipts'[s][j].body
    BY <1>6, <1>7 DEF ReceiptInv
  <2> QED
    BY <2>1, <2>2 DEF ReceiptInv
<1>11. BatchInv'
  <2>1. \A c \in NoteBatches : Receipted(c)' <=> Receipted(c)
    BY <1>6 DEF Receipted, NoteBatches
  <2>2. \A e \in NoteStores :
           /\ noteQueue'[e] = noteQueue[e] /\ ingested'[e] = ingested[e]
           /\ pushing'[e] = pushing[e] \/ Len(pushing'[e]) = 0
    BY <1>3 DEF EngineType
  <2>3. ASSUME NEW e \in NoteStores, NEW k \in 1 .. Len(noteQueue[e])
        PROVE  noteQueue[e][k] \in NoteBatches /\ Receipted(noteQueue[e][k])
    BY <2>3, ElementOfSeq DEF EngineType, BatchInv
  <2>4. ASSUME NEW e \in NoteStores, NEW k \in 1 .. Len(pushing[e])
        PROVE  /\ pushing[e][k].batch \in NoteBatches /\ Receipted(pushing[e][k].batch)
               /\ pushing[e][k].ok => pushing[e][k].batch \in ingested[e]
    <3>1. PICK c \in NoteBatches, yes \in BOOLEAN : pushing[e] = <<[batch |-> c, ok |-> yes]>>
      BY <2>4 DEF EngineType
    <3>2. k = 1 /\ pushing[e][k].batch = c
      BY <2>4, <3>1
    <3> QED
      BY <3>2 DEF BatchInv
  <2> DEFINE Now(c) == receipts'[c.run][c.id].known /\ receipts'[c.run][c.id].body = c.body
  <2>5. \A c : Receipted(c)' <=> Now(c)
    BY DEF Receipted
  <2>6. \A c \in NoteBatches : Receipted(c) => Now(c)
    BY <2>1, <2>5
  <2> HIDE DEF Now
  <2>7. ASSUME NEW e \in NoteStores
        PROVE  /\ \A k \in 1 .. Len(noteQueue'[e]) : Now(noteQueue'[e][k])
               /\ \A k \in 1 .. Len(pushing'[e]) :
                     /\ Now(pushing'[e][k].batch)
                     /\ pushing'[e][k].ok => pushing'[e][k].batch \in ingested'[e]
    BY <2>2, <2>3, <2>4, <2>6
  <2> QED
    BY <2>5, <2>7 DEF BatchInv
<1>12. AcceptedInv'
  <2>1. ASSUME NEW s \in TracedRuns, NEW j \in Identities, NEW e \in NoteStores,
               receipts'[s][j].status[e] = "accepted"
        PROVE  /\ receipts'[s][j].known
               /\ [run |-> s, id |-> j, body |-> receipts'[s][j].body] \in ingested[e]
    <3>1. CASE s = r /\ j = i /\ e = d
      <4>1. ok /\ b = [run |-> s, id |-> j, body |-> receipts[s][j].body]
        BY <1>5, <1>6, <2>1, <3>1 DEF outcome, Receipted, r, i, NoteBatches
      <4> QED
        BY <1>5, <1>6, <3>1, <4>1 DEF Receipted, r, i
    <3>2. CASE ~(s = r /\ j = i /\ e = d)
      <4>1. receipts[s][j].status[e] = "accepted"
        BY <1>6, <2>1, <3>2
      <4>2. /\ receipts[s][j].known
            /\ [run |-> s, id |-> j, body |-> receipts[s][j].body] \in ingested[e]
        BY <4>1 DEF AcceptedInv, Accepted
      <4> QED
        BY <1>6, <4>2
    <3> QED
      BY <3>1, <3>2
  <2>2. ASSUME NEW s \in TracedRuns, NEW j \in Identities, NEW e \in NoteStores,
               receiptsFile'[s][j].status[e] = "accepted"
        PROVE  /\ receiptsFile'[s][j].known
               /\ [run |-> s, id |-> j, body |-> receiptsFile'[s][j].body] \in ingested[e]
    BY <1>7, <2>1, <2>2 DEF AcceptedInv, Accepted
  <2> QED
    BY <1>3, <2>1, <2>2 DEF AcceptedInv, Accepted
<1>13. FlightInv'
  <2> SUFFICES ASSUME NEW t \in noteFlight, t # <<r, i, d>> PROVE OnItsWay(t[1], t[2], t[3])'
    BY <1>3 DEF FlightInv
  <2>1. OnItsWay(t[1], t[2], t[3]) /\ t[3] \in NoteStores /\ t = <<t[1], t[2], t[3]>>
    BY DEF FlightInv, EngineType
  <2>2. CASE t[3] # d
    <3>1. pushing'[t[3]] = pushing[t[3]] /\ noteQueue' = noteQueue
      BY <1>3, <2>1, <2>2 DEF EngineType
    <3> QED
      BY <2>1, <3>1 DEF OnItsWay
  <2>3. CASE t[3] = d
    <3>1. \A k \in 1 .. Len(pushing[d]) : pushing[d][k].batch = b
      BY <1>2
    <3>2. t[1] # r \/ t[2] # i
      BY <2>1, <2>3
    <3> QED
      BY <1>3, <2>1, <2>3, <3>1, <3>2 DEF OnItsWay, r, i
  <2> QED
    BY <2>2, <2>3
<1> QED
  BY <1>8, <1>9, <1>10, <1>11, <1>12, <1>13

\* Another service starts with what the disk says, and nothing on its way.
LEMMA RestartStep ==
  ASSUME NotesInv, ServiceRestarts
  PROVE  NotesInv'
<1> USE DEF NotesInv
<1>1. /\ receipts' = receiptsFile /\ noteFlight' = {}
      /\ noteQueue' = [d \in NoteStores |-> <<>>] /\ pushing' = [d \in NoteStores |-> <<>>]
      /\ UNCHANGED <<listed, messages, submitted, records, receiptsFile, ingested>>
  BY DEF ServiceRestarts
<1>2. AuthorType' /\ RevisionInv' /\ WrittenInv'
  <2>1. AuthorType' /\ RevisionInv'
    BY <1>1 DEF AuthorType, RevisionInv
  <2>2. ASSUME NEW d \in NoteStores, NEW x \in ingested[d]
        PROVE  Receipted(x)' /\ Written(x.run, x.id, x.body)'
    <3>1. /\ Receipted(x) /\ Written(x.run, x.id, x.body)
          /\ x.run \in TracedRuns /\ x.id \in Identities
      BY <2>2 DEF WrittenInv, EngineType, NoteBatches
    <3> QED
      BY <1>1, <3>1 DEF ReceiptInv, Receipted, Written
  <2> QED
    BY <1>1, <2>1, <2>2 DEF WrittenInv
<1>3. EngineType'
  BY <1>1 DEF EngineType
<1>4. ReceiptInv'
  BY <1>1 DEF ReceiptInv, Written
<1>5. BatchInv'
  <2>1. \A d \in NoteStores : 1 .. Len(noteQueue'[d]) = {} /\ 1 .. Len(pushing'[d]) = {}
    BY <1>1
  <2> QED
    BY <2>1 DEF BatchInv
<1>6. AcceptedInv' /\ FlightInv'
  BY <1>1 DEF AcceptedInv, Accepted, FlightInv
<1> QED
  BY <1>2, <1>3, <1>4, <1>5, <1>6

LEMMA NotesSteps == NotesInv /\ [NotesNext]_noteVars => NotesInv'
<1> SUFFICES ASSUME NotesInv, [NotesNext]_noteVars PROVE NotesInv'
  OBVIOUS
<1>1. CASE RunTraced \/ Annotate \/ RegisterSource \/ CommitMessage
  BY <1>1, AuthorSteps
<1>2. CASE PublishAnnotation \/ SyncSource
  BY <1>2, MetadataStep DEF PublishAnnotation, SyncSource
<1>3. CASE Retry
  <2>1. PICK r \in records, i \in Identities :
           /\ receipts[r][i].known /\ Enqueue(receipts, r, i)
           /\ UNCHANGED <<listed, messages, submitted, records, receipts, receiptsFile, pushing,
                          ingested>>
    BY <1>3 DEF Retry, Again
  <2>2. /\ r \in TracedRuns
        /\ submitted \subseteq submitted' /\ submitted' \subseteq NoteBatches
    BY <2>1 DEF NotesInv, AuthorType
  <2> QED
    BY <2>1, <2>2, Republished
<1>4. CASE TakeBatch
  BY <1>4, TakeStep
<1>5. CASE Outcome
  BY <1>5, OutcomeStep
<1>6. CASE ServiceRestarts
  BY <1>6, RestartStep
<1>7. CASE UNCHANGED noteVars
  <2>0. /\ UNCHANGED <<listed, messages, submitted, records>>
        /\ UNCHANGED <<receipts, receiptsFile, noteFlight, noteQueue, pushing, ingested>>
    BY <1>7 DEF noteVars
  <2> USE <2>0 DEF NotesInv
  <2>1. AuthorType' /\ EngineType' /\ RevisionInv'
    BY DEF AuthorType, EngineType, RevisionInv
  <2>5. \A r, i, body : Written(r, i, body)' <=> Written(r, i, body)
    BY DEF Written
  <2>2. ReceiptInv' /\ WrittenInv'
    BY <2>5 DEF ReceiptInv, WrittenInv, Receipted
  <2>3. BatchInv' /\ FlightInv'
    BY DEF BatchInv, Receipted, FlightInv, OnItsWay
  <2>4. AcceptedInv'
    BY DEF AcceptedInv, Accepted
  <2> QED
    BY <2>1, <2>2, <2>3, <2>4
<1>8. CASE Submit
  BY <1>8, SubmitStep
<1> QED
  BY <1>1, <1>2, <1>3, <1>4, <1>5, <1>6, <1>7, <1>8 DEF NotesNext

\* No note is stranded: an export that is believed under way is; a store that is said to have
\* accepted a record has it; and what a store has under an identity is the content of its
\* receipt on disk, which an author saved or a client submitted.
THEOREM NoNoteIsStranded == NotesSpec => []NothingStranded
<1>1. NotesInv => NothingStranded
  <2> SUFFICES ASSUME NotesInv PROVE NothingStranded
    OBVIOUS
  <2>1. ASSUME NEW r \in TracedRuns, NEW i \in Identities, NEW d \in NoteStores,
               "accepted" \in {receipts[r][i].status[d], receiptsFile[r][i].status[d]}
        PROVE  [run |-> r, id |-> i, body |-> receipts[r][i].body] \in ingested[d]
    BY <2>1 DEF NotesInv, AcceptedInv, Accepted, ReceiptInv
  <2>2. \A t \in noteFlight : OnItsWay(t[1], t[2], t[3])
    BY DEF NotesInv, FlightInv
  <2>3. ASSUME NEW d \in NoteStores, NEW x \in ingested[d]
        PROVE  /\ receiptsFile[x.run][x.id].known /\ receiptsFile[x.run][x.id].body = x.body
               /\ \/ x \in submitted
                  \/ \E n \in listed \cup messages :
                        Identity(n) = x.id /\ n.body = x.body /\ x.run \in n.runs
    <3>1. x \in NoteBatches /\ Receipted(x) /\ Written(x.run, x.id, x.body)
      BY <2>3 DEF NotesInv, WrittenInv, EngineType
    <3>2. x = [run |-> x.run, id |-> x.id, body |-> x.body]
      BY <3>1 DEF NoteBatches
    <3>3. receiptsFile[x.run][x.id].known /\ receiptsFile[x.run][x.id].body = x.body
      BY <3>1 DEF NotesInv, ReceiptInv, Receipted, NoteBatches
    <3> QED
      BY <3>1, <3>2, <3>3 DEF Written
  <2> QED
    BY <2>1, <2>2, <2>3 DEF NothingStranded
<1> QED
  BY <1>1, NotesStart, NotesSteps, PTL DEF NotesSpec

----------------------------------------------------------------------------
(* The connection of an editor.                                            *)

Events == {"entry", "continued", "stopped", "exited"}
Carries(e, sequence) == \E i \in 1 .. Len(sequence) : sequence[i] = e

Connections == [on : BOOLEAN, setup : BOOLEAN, starts : BOOLEAN, ready : BOOLEAN,
                due : BOOLEAN, untouched : BOOLEAN]

SessionType ==
    /\ program \in {"paused", "running", "exited", "none"}
    /\ onWire \in Seq(Events) /\ unhandled \in Seq(Events)
    /\ moves \in BOOLEAN /\ lastOrder \in Nat /\ ownOrder \in {0, lastOrder}
    /\ outstanding \subseteq [n : 1 .. lastOrder, start : BOOLEAN]
    /\ connection \in Connections
    /\ connection.ready \/ connection.setup => connection.on
    /\ told \in {"nothing", "running", "paused", "exited", "refused"}

\* The backend knows what the last event it read says.
KnownInv == unhandled # <<>> => known = StateAfter(unhandled[Len(unhandled)])

\* A program that has exited stays so until another run replaces it.
ExitInv ==
    /\ \/ told = "exited" \/ known = "exited"
       \/ Carries("exited", onWire) \/ Carries("exited", unhandled)
       => program \in {"exited", "none"}
    /\ program = "none" => sessionEnded

\* The order dispatched last is the editor's own.
StartOwed == moves /\ \A o \in outstanding : o.n = lastOrder => o.start

\* An editor that was not told of a pause will be told of what comes: the program runs, an
\* event waits to be handled, or the editor's start will be answered.
ToldInv ==
    /\ told = "running" => connection.ready
    /\ Serving /\ told = "running" => known = "running" \/ unhandled # <<>>
    /\ Serving /\ connection.ready /\ ~connection.due /\ told = "nothing" =>
          known = "running" \/ unhandled # <<>> \/ StartOwed

EditorInv == SessionType /\ KnownInv /\ ExitInv /\ ToldInv

\* What a sequence carries when its head is taken or an event follows.
LEMMA CarriedTail ==
  ASSUME NEW s \in Seq(Events), s # <<>>
  PROVE  /\ Head(s) \in Events /\ Tail(s) \in Seq(Events)
         /\ \A e : Carries(e, s) <=> e = Head(s) \/ Carries(e, Tail(s))
         /\ Tail(s) # <<>> => Tail(s)[Len(Tail(s))] = s[Len(s)]
         /\ Tail(s) = <<>> => Head(s) = s[Len(s)]
<1>1. /\ Head(s) = s[1] /\ Head(s) \in Events /\ Tail(s) \in Seq(Events)
      /\ Len(Tail(s)) = Len(s) - 1 /\ Len(s) \in Nat /\ Len(s) >= 1
      /\ \A i \in 1 .. Len(Tail(s)) : Tail(s)[i] = s[i + 1]
  BY EmptySeq, HeadTailProperties
<1>2. ASSUME NEW e, Carries(e, s) PROVE e = Head(s) \/ Carries(e, Tail(s))
  <2>1. PICK i \in 1 .. Len(s) : s[i] = e
    BY <1>2 DEF Carries
  <2>2. CASE i = 1
    BY <1>1, <2>1, <2>2
  <2>3. CASE i # 1
    <3>1. i - 1 \in 1 .. Len(Tail(s)) /\ (i - 1) + 1 = i
      BY <1>1, <2>1, <2>3
    <3> QED
      BY <1>1, <2>1, <3>1 DEF Carries
  <2> QED
    BY <2>2, <2>3
<1>3. ASSUME NEW e, e = Head(s) \/ Carries(e, Tail(s)) PROVE Carries(e, s)
  <2>1. CASE e = Head(s)
    BY <1>1, <2>1 DEF Carries
  <2>2. CASE Carries(e, Tail(s))
    <3>1. PICK i \in 1 .. Len(Tail(s)) : Tail(s)[i] = e
      BY <2>2 DEF Carries
    <3>2. i + 1 \in 1 .. Len(s) /\ s[i + 1] = e
      BY <1>1, <3>1
    <3> QED
      BY <3>2 DEF Carries
  <2> QED
    BY <1>3, <2>1, <2>2
<1>4. Tail(s) # <<>> => Len(Tail(s)) # 0
  BY <1>1, EmptySeq
<1>5. Tail(s) = <<>> => Len(s) = 1
  BY <1>1
<1>6. Tail(s) # <<>> => Tail(s)[Len(Tail(s))] = s[Len(s)]
  BY <1>1, <1>4
<1> QED
  BY <1>1, <1>2, <1>3, <1>5, <1>6

LEMMA CarriedAppend ==
  ASSUME NEW s \in Seq(Events), NEW x \in Events
  PROVE  /\ Append(s, x) \in Seq(Events) /\ Append(s, x) # <<>>
         /\ Append(s, x)[Len(Append(s, x))] = x
         /\ \A e : Carries(e, Append(s, x)) <=> Carries(e, s) \/ e = x
<1>1. /\ Append(s, x) \in Seq(Events) /\ Len(Append(s, x)) = Len(s) + 1 /\ Len(s) \in Nat
      /\ \A i \in 1 .. Len(s) : Append(s, x)[i] = s[i]
      /\ Append(s, x)[Len(s) + 1] = x
  BY AppendProperties
<1>2. ASSUME NEW e, Carries(e, Append(s, x)) PROVE Carries(e, s) \/ e = x
  <2>1. PICK i \in 1 .. Len(s) + 1 : Append(s, x)[i] = e
    BY <1>1, <1>2 DEF Carries
  <2>2. CASE i = Len(s) + 1
    BY <1>1, <2>1, <2>2
  <2>3. CASE i # Len(s) + 1
    <3>1. i \in 1 .. Len(s)
      BY <1>1, <2>1, <2>3
    <3> QED
      BY <1>1, <2>1, <3>1 DEF Carries
  <2> QED
    BY <2>2, <2>3
<1>3. ASSUME NEW e, Carries(e, s) \/ e = x PROVE Carries(e, Append(s, x))
  <2>1. CASE Carries(e, s)
    <3>1. PICK i \in 1 .. Len(s) : s[i] = e
      BY <2>1 DEF Carries
    <3>2. i \in 1 .. Len(s) + 1
      BY <1>1, <3>1
    <3> QED
      BY <1>1, <3>1, <3>2 DEF Carries
  <2>2. CASE e = x
    <3>1. Len(s) + 1 \in 1 .. Len(Append(s, x))
      BY <1>1
    <3> QED
      BY <1>1, <2>2, <3>1 DEF Carries
  <2> QED
    BY <1>3, <2>1, <2>2
<1>4. Append(s, x) # <<>>
  BY <1>1
<1> QED
  BY <1>1, <1>2, <1>3, <1>4

LEMMA CarriedNothing ==
  /\ <<>> \in Seq(Events) /\ \A e : ~Carries(e, <<>>)
  /\ <<"entry">> \in Seq(Events) /\ ~Carries("exited", <<"entry">>)
BY DEF Carries, Events

LEMMA EditorStart == EditorInit => EditorInv
<1> SUFFICES ASSUME EditorInit PROVE EditorInv
  OBVIOUS
<1>1. SessionType
  BY CarriedNothing DEF EditorInit, SessionType, Disconnected, Connections
<1>2. KnownInv /\ ExitInv /\ ToldInv
  BY CarriedNothing DEF EditorInit, KnownInv, ExitInv, ToldInv, Disconnected
<1> QED
  BY <1>1, <1>2 DEF EditorInv

\* The steps that concern neither the program nor what the editor was told.
LEMMA AsideSteps ==
  ASSUME EditorInv,
         UNCHANGED <<program, known, onWire, unhandled, moves, outstanding, lastOrder, told,
                     sessionEnded>>,
         ownOrder' \in {0, ownOrder},
         UNCHANGED connection \/ Touched
  PROVE  EditorInv'
<1>1. /\ connection' \in Connections
      /\ connection'.ready = connection.ready /\ connection'.on = connection.on
      /\ connection'.setup = connection.setup
      /\ connection'.due = connection.due
  BY DEF EditorInv, SessionType, Touched, Connections
<1>2. SessionType'
  BY <1>1 DEF EditorInv, SessionType
<1>3. KnownInv' /\ ExitInv' /\ ToldInv'
  BY <1>1 DEF EditorInv, KnownInv, ExitInv, ToldInv, Serving, StartOwed, StateAfter, Carries
<1> QED
  BY <1>2, <1>3 DEF EditorInv

\* A movement is dispatched.
LEMMA OrderSteps ==
  ASSUME EditorInv, NEW start \in BOOLEAN, Order(start),
         connection' \in Connections,
         connection'.ready = connection.ready, connection'.on = connection.on,
         connection'.setup = connection.setup,
         start \/ connection'.due = connection.due,
         UNCHANGED <<told, sessionEnded>>
  PROVE  EditorInv'
<1>1. /\ ~moves /\ known # "running"
      /\ moves' = TRUE /\ lastOrder' = lastOrder + 1 /\ ownOrder' = lastOrder + 1
      /\ outstanding' = outstanding \union {[n |-> lastOrder + 1, start |-> start]}
      /\ UNCHANGED <<program, known, onWire, unhandled, told, sessionEnded>>
  BY DEF Order, Engaged
<1>2. lastOrder \in Nat
  BY DEF EditorInv, SessionType
<1>3. /\ outstanding' \subseteq [n : 1 .. lastOrder', start : BOOLEAN]
      /\ \A o \in outstanding' : o.n = lastOrder' => o.start = start
  <2>1. \A o \in outstanding : o \in [n : 1 .. lastOrder, start : BOOLEAN]
    BY DEF EditorInv, SessionType
  <2>2. ASSUME NEW o \in outstanding'
        PROVE  o \in [n : 1 .. lastOrder', start : BOOLEAN] /\ (o.n = lastOrder' => o.start = start)
    BY <1>1, <1>2, <2>1
  <2> QED
    BY <2>2
<1>4. SessionType'
  BY <1>1, <1>2, <1>3 DEF EditorInv, SessionType
<1>5. KnownInv' /\ ExitInv'
  BY <1>1 DEF EditorInv, KnownInv, ExitInv, StateAfter, Carries
<1>6. ToldInv'
  <2>1. start => StartOwed'
    BY <1>1, <1>3 DEF StartOwed
  <2>2. /\ told = "running" => connection.ready
        /\ Serving /\ told = "running" => unhandled # <<>>
        /\ Serving /\ connection.ready /\ ~connection.due /\ told = "nothing" => unhandled # <<>>
    BY <1>1 DEF EditorInv, ToldInv, StartOwed
  <2>3. Serving' <=> Serving
    BY <1>1 DEF Serving
  <2>4. ~start => connection'.due = connection.due
    OBVIOUS
  <2> QED
    BY <1>1, <2>1, <2>2, <2>3, <2>4 DEF ToldInv
<1> QED
  BY <1>4, <1>5, <1>6 DEF EditorInv

\* The program runs, or halts.
LEMMA ProgramSteps ==
  ASSUME EditorInv, ProgramObeys \/ ProgramHalts
  PROVE  EditorInv'
<1>1. /\ UNCHANGED <<known, unhandled, moves, outstanding, lastOrder, ownOrder, connection, told,
                     sessionEnded>>
      /\ \/ program = "paused" /\ program' = "running"
            /\ onWire' \in {onWire, Append(onWire, "continued")}
         \/ UNCHANGED <<program, onWire>>
         \/ program = "running" /\ program' = "paused" /\ onWire' = Append(onWire, "stopped")
         \/ program = "running" /\ program' = "exited" /\ onWire' = Append(onWire, "exited")
  <2>1. CASE ProgramObeys
    <3>1. \/ program = "paused" /\ program' = "running"
             /\ onWire' \in {onWire, Append(onWire, "continued")}
          \/ UNCHANGED <<program, onWire>>
      BY <2>1, Zenon DEF ProgramObeys
    <3> QED
      BY <2>1, <3>1 DEF ProgramObeys, session
  <2>2. CASE ProgramHalts
    <3>1. PICK kind \in {"stopped", "exited"} :
             /\ program' = IF kind = "stopped" THEN "paused" ELSE "exited"
             /\ onWire' = Append(onWire, kind)
      BY <2>2 DEF ProgramHalts
    <3>2. \/ program' = "paused" /\ onWire' = Append(onWire, "stopped")
          \/ program' = "exited" /\ onWire' = Append(onWire, "exited")
      BY <3>1
    <3> QED
      BY <2>2, <3>2 DEF ProgramHalts, session
  <2> QED
    BY <2>1, <2>2
<1>2. onWire \in Seq(Events)
  BY DEF EditorInv, SessionType
<1>3. \A x \in Events : /\ Append(onWire, x) \in Seq(Events)
                        /\ Carries("exited", Append(onWire, x)) <=>
                              Carries("exited", onWire) \/ "exited" = x
  BY <1>2, CarriedAppend
<1>4. /\ onWire' \in Seq(Events)
      /\ Carries("exited", onWire') => Carries("exited", onWire) \/ program' = "exited"
      /\ program' # program => program \in {"paused", "running"}
      /\ program' \in {"paused", "running", "exited", program}
  BY <1>1, <1>2, <1>3 DEF Events
<1>5. SessionType'
  BY <1>1, <1>4 DEF EditorInv, SessionType
<1>6. KnownInv' /\ ToldInv'
  BY <1>1, <1>4 DEF EditorInv, KnownInv, StateAfter, ToldInv, Serving, StartOwed
<1>7. ExitInv'
  <2>1. Carries("exited", unhandled)' <=> Carries("exited", unhandled)
    BY <1>1 DEF Carries
  <2>2. Carries("exited", onWire)' <=> Carries("exited", onWire')
    BY DEF Carries
  <2> QED
    BY <1>1, <1>4, <2>1, <2>2 DEF EditorInv, ExitInv
<1> QED
  BY <1>5, <1>6, <1>7 DEF EditorInv

LEMMA ReadSteps ==
  ASSUME EditorInv, BackendReads
  PROVE  EditorInv'
<1> DEFINE e == Head(onWire)
<1>1. /\ onWire \in Seq(Events) /\ onWire # <<>> /\ unhandled \in Seq(Events)
      /\ onWire' = Tail(onWire)
      /\ UNCHANGED <<program, moves, outstanding, lastOrder, ownOrder, connection, told,
                     sessionEnded>>
      /\ \/ UNCHANGED <<known, unhandled>>
         \/ known' = StateAfter(e) /\ unhandled' = Append(unhandled, e)
  <2>1. onWire \in Seq(Events) /\ unhandled \in Seq(Events)
    BY DEF EditorInv, SessionType
  <2>2. \/ UNCHANGED <<known, unhandled>>
        \/ known' = StateAfter(e) /\ unhandled' = Append(unhandled, e)
    BY DEF BackendReads
  <2>3. /\ onWire # <<>> /\ onWire' = Tail(onWire)
        /\ UNCHANGED <<program, moves, outstanding, lastOrder, ownOrder, connection, told,
                       sessionEnded>>
    BY DEF BackendReads, session
  <2> QED
    BY <2>1, <2>2, <2>3
<1>2. /\ e \in Events /\ Tail(onWire) \in Seq(Events)
      /\ Carries("exited", onWire) <=> e = "exited" \/ Carries("exited", Tail(onWire))
  <2>1. \A x : Carries(x, onWire) <=> x = Head(onWire) \/ Carries(x, Tail(onWire))
    BY <1>1, CarriedTail
  <2> QED
    BY <1>1, <2>1, CarriedTail
<1> HIDE DEF e
<1>3. /\ Append(unhandled, e) \in Seq(Events) /\ Append(unhandled, e) # <<>>
      /\ Append(unhandled, e)[Len(Append(unhandled, e))] = e
      /\ Carries("exited", Append(unhandled, e)) <=> Carries("exited", unhandled) \/ e = "exited"
  BY <1>1, <1>2, CarriedAppend
<1>4. SessionType'
  BY <1>1, <1>2, <1>3 DEF EditorInv, SessionType
<1>5. KnownInv'
  BY <1>1, <1>3 DEF EditorInv, KnownInv, StateAfter
<1>6. ExitInv'
  <2>1. /\ Carries("exited", unhandled)' <=> Carries("exited", unhandled')
        /\ Carries("exited", onWire)' <=> Carries("exited", onWire')
    BY DEF Carries
  <2>2. StateAfter(e) = "exited" => e = "exited"
    BY DEF StateAfter
  <2> QED
    BY <1>1, <1>2, <1>3, <2>1, <2>2 DEF EditorInv, ExitInv
<1>7. ToldInv'
  BY <1>1, <1>3 DEF EditorInv, ToldInv, Serving, StartOwed
<1> QED
  BY <1>4, <1>5, <1>6, <1>7 DEF EditorInv

LEMMA HandleSteps ==
  ASSUME EditorInv, BrokerHandles
  PROVE  EditorInv'
<1> DEFINE e == Head(unhandled)
<1>1. /\ unhandled \in Seq(Events) /\ unhandled # <<>> /\ unhandled' = Tail(unhandled)
      /\ moves' = (e = "continued") /\ ownOrder' = 0
      /\ told' = IF Forwarded(e) THEN StateAfter(e) ELSE told
      /\ UNCHANGED <<program, known, onWire, outstanding, lastOrder, connection, sessionEnded>>
  <2>1. unhandled \in Seq(Events)
    BY DEF EditorInv, SessionType
  <2>2. /\ moves' = (e = "continued")
        /\ told' = IF Forwarded(e) THEN StateAfter(e) ELSE told
    BY DEF BrokerHandles
  <2>3. /\ unhandled # <<>> /\ unhandled' = Tail(unhandled) /\ ownOrder' = 0
        /\ UNCHANGED <<program, known, onWire, outstanding, lastOrder, connection, sessionEnded>>
    BY DEF BrokerHandles, session
  <2> QED
    BY <2>1, <2>2, <2>3
<1>2. /\ e \in Events /\ Tail(unhandled) \in Seq(Events)
      /\ Carries("exited", unhandled) <=> e = "exited" \/ Carries("exited", Tail(unhandled))
      /\ Tail(unhandled) # <<>> => Tail(unhandled)[Len(Tail(unhandled))] = unhandled[Len(unhandled)]
      /\ Tail(unhandled) = <<>> => e = unhandled[Len(unhandled)]
  <2>1. \A x : Carries(x, unhandled) <=> x = Head(unhandled) \/ Carries(x, Tail(unhandled))
    BY <1>1, CarriedTail
  <2> QED
    BY <1>1, <2>1, CarriedTail
<1> HIDE DEF e
<1>3. StateAfter(e) \in {"running", "paused", "exited"} /\ (StateAfter(e) = "exited" => e = "exited")
  BY DEF StateAfter
<1>4. SessionType'
  BY <1>1, <1>2, <1>3 DEF EditorInv, SessionType
<1>5. KnownInv'
  BY <1>1, <1>2 DEF EditorInv, KnownInv, StateAfter
<1>6. ExitInv'
  <2>1. /\ Carries("exited", unhandled)' <=> Carries("exited", unhandled')
        /\ Carries("exited", onWire)' <=> Carries("exited", onWire)
    BY <1>1 DEF Carries
  <2> QED
    BY <1>1, <1>2, <1>3, <2>1 DEF EditorInv, ExitInv
<1>7. ToldInv'
  <2>1. connection.ready => connection.on
    BY DEF EditorInv, SessionType
  <2>2. connection.ready => told' = StateAfter(e)
    BY <1>1, <2>1 DEF Forwarded
  <2>3. Tail(unhandled) = <<>> => known = StateAfter(e)
    BY <1>1, <1>2 DEF EditorInv, KnownInv
  <2>4. told' # told => told' = "exited" \/ connection.ready
    BY <1>1 DEF Forwarded, StateAfter
  <2>5. told = "running" => connection.ready
    BY DEF EditorInv, ToldInv
  <2>6. /\ told' = "running" => connection.ready
        /\ connection.ready => told' # "nothing"
    BY <1>3, <2>2, <2>4, <2>5
  <2>7. told' = "running" => known = "running" \/ Tail(unhandled) # <<>>
    BY <2>2, <2>3, <2>6
  <2> QED
    BY <1>1, <2>6, <2>7 DEF ToldInv
<1> QED
  BY <1>4, <1>5, <1>6, <1>7 DEF EditorInv

\* An order is answered or given up.
LEMMA SettleSteps ==
  ASSUME EditorInv, OrderSettles
  PROVE  EditorInv'
<1>1. PICK o \in outstanding :
        /\ outstanding' = outstanding \ {o}
        /\ LET rejected == ordered[o.n] = "rejected"
               back == rejected /\ (o.n = ownOrder \/ (o.n = lastOrder /\ known # "running"))
           IN \/ /\ ordered[o.n] # "sent"
                 /\ moves' = (moves /\ ~back)
                 /\ told' = IF rejected /\ o.start /\ told = "nothing" THEN "refused" ELSE told
                 /\ UNCHANGED <<fenced, ownOrder>>
              \/ /\ IF o.n = ownOrder THEN fenced' = TRUE /\ ownOrder' = 0
                    ELSE UNCHANGED <<fenced, ownOrder>>
                 /\ UNCHANGED <<moves, told>>
        /\ UNCHANGED <<program, known, onWire, unhandled, lastOrder, agentWorks, connection,
                       session, renewals>>
  BY Zenon DEF OrderSettles
<1>2. o.n \in 1 .. lastOrder /\ ownOrder \in {0, lastOrder} /\ o.start \in BOOLEAN
      /\ moves \in BOOLEAN /\ lastOrder \in Nat
  BY DEF EditorInv, SessionType
<1> DEFINE rejected == ordered[o.n] = "rejected"
<1>3. /\ moves' \in BOOLEAN /\ ownOrder' \in {0, ownOrder}
      /\ told' = told \/ (rejected /\ told = "nothing" /\ told' = "refused")
      /\ \/ moves' = moves
         \/ o.n = lastOrder /\ rejected /\ (o.start /\ told = "nothing" => told' = "refused")
      /\ UNCHANGED <<program, known, onWire, unhandled, lastOrder, connection, sessionEnded>>
  <2>1. CASE /\ moves' = (moves /\ ~(rejected /\ (o.n = ownOrder
                                        \/ (o.n = lastOrder /\ known # "running"))))
             /\ told' = IF rejected /\ o.start /\ told = "nothing" THEN "refused" ELSE told
             /\ UNCHANGED <<fenced, ownOrder>>
    <3>1. moves' \in BOOLEAN /\ (moves' = moves \/ (rejected /\ o.n \in {ownOrder, lastOrder}))
      BY <1>2, <2>1
    <3>2. o.n = ownOrder => o.n = lastOrder
      BY <1>2
    <3>3. told' = told \/ (rejected /\ told = "nothing" /\ told' = "refused")
      BY <2>1
    <3>4. rejected => (o.start /\ told = "nothing" => told' = "refused")
      BY <2>1
    <3> QED
      BY <1>1, <2>1, <3>1, <3>2, <3>3, <3>4 DEF session
  <2>2. CASE /\ IF o.n = ownOrder THEN fenced' = TRUE /\ ownOrder' = 0
                ELSE UNCHANGED <<fenced, ownOrder>>
             /\ UNCHANGED <<moves, told>>
    BY <1>1, <1>2, <2>2 DEF session
  <2> QED
    BY <1>1, <2>1, <2>2
<1>4. SessionType'
  BY <1>1, <1>2, <1>3 DEF EditorInv, SessionType
<1>5. KnownInv' /\ ExitInv'
  BY <1>1, <1>3 DEF EditorInv, KnownInv, ExitInv, StateAfter, Carries
<1>6. ToldInv'
  <2>1. Serving' <=> Serving
    BY <1>3 DEF Serving
  <2>2. ASSUME StartOwed, told' = told, told = "nothing" PROVE StartOwed'
    <3>1. moves /\ \A q \in outstanding : q.n = lastOrder => q.start
      BY <2>2 DEF StartOwed
    <3>2. moves'
      BY <1>3, <2>2, <3>1
    <3> QED
      BY <1>1, <1>3, <3>1, <3>2 DEF StartOwed
  <2> QED
    BY <1>3, <2>1, <2>2 DEF EditorInv, ToldInv
<1> QED
  BY <1>4, <1>5, <1>6 DEF EditorInv

\* Nothing is told to an editor that is not configured.
LEMMA ConnectionSteps ==
  ASSUME EditorInv,
         ConnectEditor \/ SetUp \/ ConfigurationDone \/ DisconnectEditor \/ FollowNothing
         \/ BrokerLeaves
  PROVE  EditorInv'
<1>1. /\ UNCHANGED <<program, known, onWire, unhandled, moves, lastOrder, ownOrder, sessionEnded>>
      /\ told' \in {told, "nothing"}
      /\ outstanding' \subseteq [n : 1 .. lastOrder, start : BOOLEAN]
  <2>1. CASE DisconnectEditor
    <3>1. outstanding' = {[o EXCEPT !.start = FALSE] : o \in outstanding}
      BY <2>1 DEF DisconnectEditor
    <3>2. outstanding \subseteq [n : 1 .. lastOrder, start : BOOLEAN]
      BY DEF EditorInv, SessionType
    <3>3. outstanding' \subseteq [n : 1 .. lastOrder, start : BOOLEAN]
      BY <3>1, <3>2
    <3> QED
      BY <2>1, <3>3 DEF DisconnectEditor, session
  <2>2. CASE ConnectEditor \/ SetUp \/ ConfigurationDone \/ FollowNothing \/ BrokerLeaves
    <3>1. outstanding \subseteq [n : 1 .. lastOrder, start : BOOLEAN]
      BY DEF EditorInv, SessionType
    <3>2. told' \in {told, "nothing"} /\ UNCHANGED <<movement, sessionEnded>>
      BY <2>2 DEF ConnectEditor, SetUp, ConfigurationDone, FollowNothing, BrokerLeaves, session
    <3> QED
      BY <3>1, <3>2 DEF movement
  <2> QED
    BY <2>1, <2>2
<1>2. /\ connection' \in Connections
      /\ connection'.ready \/ connection'.setup => connection'.on
      /\ told' = "running" => told = "running" /\ connection.ready /\ connection'.ready
      /\ \/ ~connection'.ready \/ connection'.due \/ ~Serving
         \/ UNCHANGED <<told, outstanding>> /\ connection.ready /\ ~connection.due
  <2>1. connection \in Connections /\ (connection.ready \/ connection.setup => connection.on)
        /\ (told = "running" => connection.ready)
    BY DEF EditorInv, SessionType, ToldInv
  <2>2. CASE ConnectEditor \/ DisconnectEditor \/ BrokerLeaves
    <3>1. told' = "nothing"
          /\ (connection' = Disconnected \/ connection' = [Disconnected EXCEPT !.on = TRUE])
      BY <2>2 DEF ConnectEditor, DisconnectEditor, BrokerLeaves
    <3>2. Disconnected \in Connections /\ ~Disconnected.ready /\ ~Disconnected.setup
      BY DEF Disconnected, Connections
    <3>3. connection' \in Connections /\ ~connection'.ready /\ ~connection'.setup
      BY <3>1, <3>2 DEF Connections
    <3> QED
      BY <3>1, <3>3
  <2>3. CASE SetUp
    <3>1. PICK starts \in BOOLEAN :
             connection' = [connection EXCEPT !.setup = TRUE, !.starts = starts]
      BY <2>3 DEF SetUp
    <3>2. connection' \in Connections /\ connection'.ready = connection.ready
          /\ connection'.due = connection.due /\ connection'.on = connection.on
      BY <2>1, <3>1 DEF Connections
    <3>3. UNCHANGED <<told, outstanding>> /\ connection.on
      BY <2>3 DEF SetUp, movement
    <3> QED
      BY <2>1, <3>2, <3>3
  <2>4. CASE ConfigurationDone
    <3>1. connection' = [connection EXCEPT !.ready = TRUE, !.due = TRUE, !.untouched = TRUE]
          /\ told' = told /\ connection.setup /\ ~connection.ready
      BY <2>4 DEF ConfigurationDone
    <3>2. connection' \in Connections /\ connection'.due /\ connection'.on = connection.on
      BY <2>1, <3>1 DEF Connections
    <3> QED
      BY <2>1, <3>1, <3>2
  <2>5. CASE FollowNothing
    BY <2>1, <2>5 DEF FollowNothing, Connections
  <2> QED
    BY <2>2, <2>3, <2>4, <2>5
<1>3. SessionType'
  BY <1>1, <1>2 DEF EditorInv, SessionType
<1>4. KnownInv' /\ ExitInv'
  BY <1>1 DEF EditorInv, KnownInv, ExitInv, StateAfter, Carries
<1>5. ToldInv'
  <2>1. /\ Serving' <=> Serving
        /\ UNCHANGED outstanding => (StartOwed' <=> StartOwed)
    BY <1>1 DEF Serving, StartOwed
  <2> QED
    BY <1>1, <1>2, <2>1 DEF EditorInv, ToldInv
<1> QED
  BY <1>3, <1>4, <1>5 DEF EditorInv

\* What follows the response to the configuration.
LEMMA FollowSteps ==
  ASSUME EditorInv, FollowConfiguration
  PROVE  EditorInv'
<1>1. /\ connection' \in Connections
      /\ connection'.ready = connection.ready /\ connection'.on = connection.on
      /\ connection'.setup = connection.setup
      /\ UNCHANGED sessionEnded
  BY DEF EditorInv, SessionType, FollowConfiguration, session, Connections
<1>2. CASE Order(TRUE) /\ UNCHANGED told
  BY <1>1, <1>2, OrderSteps
<1>3. CASE /\ UNCHANGED <<program, known, onWire, unhandled, moves, outstanding, lastOrder>>
           /\ ownOrder' \in {0, ownOrder} /\ told' \in {Refused, Announced}
  <2>1. /\ told' \in {"nothing", "running", "paused", "exited", "refused"}
        /\ told' = "nothing" => known = "running"
        /\ told' = "running" => told = "running"
        /\ told' = "exited" => told = "exited"
    BY <1>3 DEF Refused, Announced, EditorInv, SessionType
  <2>2. SessionType'
    BY <1>1, <1>3, <2>1 DEF EditorInv, SessionType
  <2>3. KnownInv' /\ ExitInv'
    BY <1>1, <1>3, <2>1 DEF EditorInv, KnownInv, ExitInv, StateAfter, Carries
  <2>4. ToldInv'
    BY <1>1, <1>3, <2>1 DEF EditorInv, ToldInv, Serving
  <2> QED
    BY <2>2, <2>3, <2>4 DEF EditorInv
<1> QED
  BY <1>2, <1>3 DEF FollowConfiguration, InterruptMovement, movement

\* Another run: the editor has nothing to be told of until it is configured again, or the
\* session has ended.
LEMMA RenewalSteps ==
  ASSUME EditorInv, EditorRestarts \/ OthersRestart
  PROVE  EditorInv'
<1>1. PICK opened \in BOOLEAN :
         /\ Replaced(opened)
         /\ connection' = [connection EXCEPT !.ready = ~opened] \/ connection' = Disconnected
  BY DEF EditorRestarts, OthersRestart
<1>2. told' = "nothing"
  BY DEF EditorRestarts, OthersRestart
<1>3. /\ program' = IF opened THEN "paused" ELSE "none"
      /\ known' = IF opened THEN "paused" ELSE "exited"
      /\ onWire' = IF opened THEN <<"entry">> ELSE <<>>
      /\ unhandled' = <<>> /\ moves' = FALSE /\ outstanding' = {} /\ ownOrder' = 0
      /\ sessionEnded' = ~opened /\ lastOrder' = lastOrder
  BY <1>1 DEF Replaced
<1>4. /\ connection' \in Connections
      /\ connection'.ready \/ connection'.setup => connection'.on
      /\ opened => ~connection'.ready
  <2>1. CASE connection' = Disconnected
    BY <2>1 DEF Disconnected, Connections
  <2>2. CASE connection' = [connection EXCEPT !.ready = ~opened]
    <3>1. /\ connection \in Connections
          /\ connection.ready \/ connection.setup => connection.on
      BY DEF EditorInv, SessionType
    <3>2. CASE EditorRestarts
      BY <2>2, <3>1, <3>2 DEF EditorRestarts, Connections
    <3>3. CASE OthersRestart
      BY <3>3 DEF OthersRestart, Disconnected, Connections
    <3> QED
      BY <3>2, <3>3
  <2> QED
    BY <1>1, <2>1, <2>2
<1>5. SessionType'
  BY <1>2, <1>3, <1>4, CarriedNothing DEF EditorInv, SessionType
<1>6. KnownInv'
  BY <1>3 DEF KnownInv
<1>7. ExitInv'
  <2>1. ~Carries("exited", unhandled') /\ ~Carries("exited", onWire')
    BY <1>3, CarriedNothing
  <2>2. /\ Carries("exited", unhandled)' <=> Carries("exited", unhandled')
        /\ Carries("exited", onWire)' <=> Carries("exited", onWire')
    BY DEF Carries
  <2> QED
    BY <1>2, <1>3, <2>1, <2>2 DEF ExitInv
<1>8. ToldInv'
  BY <1>2, <1>3, <1>4 DEF ToldInv, Serving
<1> QED
  BY <1>5, <1>6, <1>7, <1>8 DEF EditorInv

\* The target is ended, or nothing but the intent changes.
LEMMA EndSteps ==
  ASSUME EditorInv, EndTarget,
         UNCHANGED <<known, unhandled, moves, outstanding, lastOrder, ownOrder, told>>,
         Touched
  PROVE  EditorInv'
<1>1. CASE UNCHANGED <<sessionEnded, program, onWire>>
  BY <1>1, AsideSteps
<1>2. CASE sessionEnded' = TRUE /\ program' = "exited" /\ onWire' = Append(onWire, "exited")
  <2>1. /\ onWire \in Seq(Events) /\ connection \in Connections
        /\ connection.ready \/ connection.setup => connection.on
    BY DEF EditorInv, SessionType
  <2>2. /\ connection' \in Connections
        /\ connection'.ready \/ connection'.setup => connection'.on
        /\ connection'.ready = connection.ready
    BY <2>1 DEF Touched, Connections
  <2>3. onWire' \in Seq(Events)
    BY <1>2, <2>1, CarriedAppend DEF Events
  <2>4. SessionType'
    BY <1>2, <2>2, <2>3 DEF EditorInv, SessionType
  <2>5. KnownInv'
    BY DEF EditorInv, KnownInv, StateAfter
  <2>6. ExitInv'
    BY <1>2 DEF ExitInv
  <2>7. ToldInv'
    BY <1>2, <2>2 DEF EditorInv, ToldInv, Serving
  <2> QED
    BY <2>4, <2>5, <2>6, <2>7 DEF EditorInv
<1> QED
  BY <1>1, <1>2 DEF EndTarget

LEMMA EditorSteps ==
  ASSUME EditorInv, [EditorNext]_editorVars
  PROVE  EditorInv'
<1>1. CASE MoveProgram
  <2>1. /\ connection' \in Connections /\ connection'.ready = connection.ready
        /\ connection'.on = connection.on /\ connection'.setup = connection.setup
        /\ connection'.due = connection.due
    BY <1>1 DEF MoveProgram, Touched, EditorInv, SessionType, Connections
  <2>2. Order(FALSE) /\ UNCHANGED <<told, sessionEnded>>
    BY <1>1 DEF MoveProgram, session
  <2> QED
    BY <2>1, <2>2, OrderSteps
<1>2. CASE InterruptProgram
  <2>1. ownOrder' \in {0, ownOrder}
    BY <1>2 DEF InterruptProgram, InterruptMovement
  <2> QED
    BY <1>2, <2>1, AsideSteps DEF InterruptProgram, session
<1>3. CASE AgentBegins \/ FenceFalls
  BY <1>3, AsideSteps DEF AgentBegins, FenceFalls, session
<1>4. CASE ProgramObeys \/ ProgramHalts
  BY <1>4, ProgramSteps
<1>5. CASE BackendReads
  BY <1>5, ReadSteps
<1>6. CASE BrokerHandles
  BY <1>6, HandleSteps
<1>7. CASE OrderSettles
  BY <1>7, SettleSteps
<1>8. CASE \/ ConnectEditor \/ SetUp \/ ConfigurationDone \/ DisconnectEditor \/ FollowNothing
           \/ BrokerLeaves
  BY <1>8, ConnectionSteps
<1>9. CASE FollowConfiguration
  BY <1>9, FollowSteps
<1>10. CASE EditorRestarts \/ OthersRestart
  BY <1>10, RenewalSteps
<1>11. CASE RestartRefused
  BY <1>11, AsideSteps DEF RestartRefused, session
<1>12. CASE StopSession
  BY <1>12, EndSteps DEF StopSession
<1>13. CASE StartupExpires
  <2>1. UNCHANGED <<known, unhandled, moves, outstanding, lastOrder, ownOrder, told>>
    BY <1>13 DEF StartupExpires
  <2>2. CASE sessionEnded
    BY <1>13, <2>1, <2>2, AsideSteps DEF StartupExpires
  <2>3. CASE ~sessionEnded
    BY <1>13, <2>1, <2>3, EndSteps DEF StartupExpires
  <2> QED
    BY <2>2, <2>3
<1>14. CASE UNCHANGED editorVars
  BY <1>14, AsideSteps DEF editorVars, movement, session
<1> QED
  BY <1>1, <1>2, <1>3, <1>4, <1>5, <1>6, <1>7, <1>8, <1>9, <1>10, <1>11, <1>12, <1>13, <1>14
  DEF EditorNext, Moving, Editing, Ending

\* A configured editor was told that the program stands where it stands, however its stop,
\* the editor's configuration and a restart fell together.
THEOREM EditorHearsOfPause == EditorSpec => []EditorToldOfPause
<1>1. EditorInv => EditorToldOfPause
  <2> SUFFICES ASSUME EditorInv, Quiet, connection.ready, ~connection.due
               PROVE  told \in {"paused", "refused"}
    BY DEF EditorToldOfPause
  <2>1. told # "exited"
    BY DEF EditorInv, ExitInv, Quiet
  <2>2. told \notin {"nothing", "running"}
    BY DEF EditorInv, ToldInv, Quiet, AtRest, StartOwed
  <2> QED
    BY <2>1, <2>2 DEF EditorInv, SessionType
<1> QED
  BY <1>1, EditorStart, EditorSteps, PTL DEF EditorSpec

--------------------------------------------------------------------------------
(* The capture of a session. *)

Stages == {"idle", "sent", "searching", "done", "refused"}
EventKinds == {"none", "start", "heartbeat", "request", "response", "record", "stopped",
               "close"}
RecorderEvents == [kind : EventKinds, n : Nat, yes : BOOLEAN]
Shipments == [event : RecorderEvents, incomplete : BOOLEAN, stage : Stages]
CaptureRecords == [known : BOOLEAN, closed : BOOLEAN, interrupted : BOOLEAN,
                   failed : BOOLEAN, count : Nat]
OpenRequests == [n : 1 .. items, execution : BOOLEAN, ack : BOOLEAN, stop : BOOLEAN]
OfItem(e) == e.kind \in {"request", "record"}
AllSpans == 1 .. items \union {RootSpan}

CaptureType ==
    /\ items \in 0 .. MaxItems /\ responding \subseteq 1 .. items
    /\ recorderClosed \in BOOLEAN /\ failure \in BOOLEAN
    /\ events \in Seq(RecorderEvents) /\ sending \in Shipments /\ overdue \in Shipments
    /\ tracer \in {"up", "down"}
    /\ observed \in CaptureRecords /\ observedFile \in CaptureRecords
    /\ open \subseteq OpenRequests
    /\ spanBatches \in Seq(SUBSET AllSpans) /\ blocks \subseteq AllSpans
    /\ query.spans \subseteq AllSpans /\ query = [spans |-> query.spans, whole |-> FALSE]

\* Nothing comes after the end of the recording, and only items of the trace are sent.
EventInv ==
    /\ \A i \in 1 .. Len(events) :
          /\ OfItem(events[i]) => events[i].n \in 1 .. items
          /\ events[i].kind = "close" => recorderClosed /\ i = Len(events)
    /\ OfItem(sending.event) => sending.event.n \in 1 .. items
    /\ OfItem(overdue.event) => overdue.event.n \in 1 .. items
    /\ "close" \in {sending.event.kind, overdue.event.kind} => recorderClosed /\ events = <<>>
    /\ overdue.event.kind = "close" => sending.stage # "sent"

\* What was given up, refused or dropped is remembered.
MarkInv ==
    /\ overdue # Idle \/ sending.incomplete \/ sending.stage = "searching" => failure
    /\ sending.stage = "sent" /\ ~sending.incomplete => overdue = Idle
    /\ overdue # Idle => overdue.stage = "sent"

\* A record that says that all went well has counted a span for every item and one for
\* the session.
SoundRecord(c) ==
    /\ c.interrupted => c.failed
    /\ c.closed => c.known
    /\ c.closed /\ ~c.failed => recorderClosed /\ c.count >= items + 1

RecordInv ==
    /\ SoundRecord(observed) /\ SoundRecord(observedFile)
    /\ tracer = "up" /\ ~observed.known /\ observedFile.known => observedFile.closed
    /\ spanBatches # <<>> => observed.known
    /\ tracer = "down" => ~observed.known

\* The items whose event has not reached the service, or whose span is to come.
Awaiting ==
    {n \in 1 .. items :
        \/ \E i \in 1 .. Len(events) : OfItem(events[i]) /\ events[i].n = n
        \/ sending.stage = "sent" /\ OfItem(sending.event) /\ sending.event.n = n}
OpenItems == {p.n : p \in open}
Outstanding == Awaiting \union OpenItems

\* Nothing has been lost that the recorder will not tell of, and the capture goes on.
Unbroken == ~failure /\ sending.stage # "refused"
Alive == observed.known /\ ~observed.failed /\ ~observed.closed

\* An end of the recording that will not be told as incomplete finds every item counted
\* or open.
Closes(p) == p.event.kind = "close" /\ p.stage = "sent" /\ ~p.incomplete

CountInv ==
    /\ Unbroken /\ observed.known => observedFile.known
    /\ Unbroken /\ ~observed.known /\ ~observedFile.known => 1 .. items \subseteq Awaiting
    /\ Unbroken /\ Alive => observed.count + Cardinality(Outstanding) >= items
    /\ (Closes(sending) \/ Closes(overdue)) /\ Alive =>
          observed.count + Cardinality(OpenItems) >= items

AnswerInv == answer.whole => recorderClosed /\ AllSpans \subseteq answer.spans

WholeInv == CaptureType /\ EventInv /\ MarkInv /\ RecordInv /\ CountInv /\ AnswerInv

LEMMA SomeItems ==
  ASSUME NEW k \in Nat, NEW S, S \subseteq 1 .. k
  PROVE  IsFiniteSet(S) /\ Cardinality(S) \in Nat /\ Cardinality(S) <= k
<1>1. IsFiniteSet(1 .. k) /\ Cardinality(1 .. k) = k
  BY FS_Interval
<1> QED
  BY <1>1, FS_Subset, FS_CardinalityType

\* What is missing less is counted.
LEMMA CountedItems ==
  ASSUME NEW A, NEW B, NEW S, IsFiniteSet(B), IsFiniteSet(S), A \subseteq B \union S
  PROVE  /\ IsFiniteSet(A) /\ Cardinality(A) \in Nat /\ Cardinality(B) \in Nat
         /\ Cardinality(S) \in Nat /\ Cardinality(A) <= Cardinality(B) + Cardinality(S)
<1>1. IsFiniteSet(B \union S)
      /\ Cardinality(B \union S) = Cardinality(B) + Cardinality(S) - Cardinality(B \intersect S)
  BY FS_Union
<1>2. IsFiniteSet(B \intersect S)
  BY FS_Intersection
<1>3. /\ Cardinality(B) \in Nat /\ Cardinality(S) \in Nat
      /\ Cardinality(B \intersect S) \in Nat /\ Cardinality(B \union S) \in Nat
  BY <1>1, <1>2, FS_CardinalityType
<1>4. IsFiniteSet(A) /\ Cardinality(A) <= Cardinality(B \union S)
  BY <1>1, FS_Subset
<1>5. Cardinality(A) \in Nat
  BY <1>4, FS_CardinalityType
<1> QED
  BY <1>1, <1>3, <1>4, <1>5

LEMMA ResumedRecord ==
  ASSUME NEW c \in CaptureRecords, NEW e
  PROVE  /\ Resumed(c, e) \in CaptureRecords
         /\ Resumed(c, e).known /\ Resumed(c, e).failed = c.failed
         /\ Resumed(c, e).count = c.count
         /\ Resumed(c, e).closed => c.closed
         /\ Resumed(c, e).interrupted => c.interrupted
         /\ e.kind = "close" => Resumed(c, e).closed = c.closed
BY DEF Resumed, CaptureRecords

LEMMA SubmittedRecord ==
  ASSUME NEW c \in CaptureRecords, NEW spans, Cardinality(spans) \in Nat
  PROVE  /\ Submits(c, spans) \in CaptureRecords
         /\ Submits(c, spans).known = c.known /\ Submits(c, spans).closed = c.closed
         /\ Submits(c, spans).interrupted = c.interrupted
         /\ Submits(c, spans).count = c.count + Cardinality(spans)
         /\ c.failed => Submits(c, spans).failed
<1> DEFINE over == c.failed \/ (spans # {} /\ Len(spanBatches) >= ObservedLimit)
           d == Submits(c, spans)
<1>1. c.count + Cardinality(spans) \in Nat /\ over \in BOOLEAN /\ (c.failed => over)
  BY DEF CaptureRecords
<1>2. d = [c EXCEPT !.count = c.count + Cardinality(spans), !.failed = over]
  BY DEF Submits
<1> HIDE DEF over, d
<1>3. /\ d \in CaptureRecords /\ d.known = c.known /\ d.closed = c.closed
      /\ d.interrupted = c.interrupted /\ d.count = c.count + Cardinality(spans)
      /\ d.failed = over
  BY <1>1, <1>2 DEF CaptureRecords
<1> QED
  BY <1>1, <1>3 DEF d

\* What an event ends or leaves open.
LEMMA OpenedOrEnded ==
  ASSUME CaptureType, NEW c \in CaptureRecords, NEW e \in RecorderEvents, OfItem(e) => e.n \in 1 .. items
  PROVE  /\ Opening(c, e) \subseteq OpenRequests
         /\ Spans(c, e) \subseteq AllSpans
         /\ OpenItems \subseteq {p.n : p \in Opening(c, e)} \union Spans(c, e)
         /\ ~c.closed /\ OfItem(e) => e.n \in {p.n : p \in Opening(c, e)} \union Spans(c, e)
         /\ ~c.closed /\ e.kind = "close" => Spans(c, e) = OpenItems \union {RootSpan}
         /\ c.closed => Opening(c, e) = open /\ Spans(c, e) = {}
         /\ e.kind = "start" => Opening(c, e) = open
<1>1. open \subseteq OpenRequests /\ items \in Nat /\ c.closed \in BOOLEAN
  BY DEF CaptureType, CaptureRecords
<1>2. Opening(c, e) \subseteq OpenRequests
  <2>1. ASSUME NEW p \in open
        PROVE  [p EXCEPT !.ack = TRUE] \in OpenRequests /\ [p EXCEPT !.stop = TRUE] \in OpenRequests
    BY <1>1, <2>1 DEF OpenRequests
  <2>2. OfItem(e) => [n |-> e.n, execution |-> e.yes, ack |-> FALSE, stop |-> FALSE]
                       \in OpenRequests
    BY DEF OpenRequests, RecorderEvents
  <2>3. CASE c.closed
    <3>1. Opening(c, e) = open
      BY <2>3, Zenon DEF Opening
    <3> QED
      BY <1>1, <3>1
  <2>4. CASE ~c.closed /\ e.kind = "request"
    BY <1>1, <2>2, <2>4 DEF Opening, OfItem
  <2>5. CASE ~c.closed /\ e.kind = "response"
    <3>1. Opening(c, e) = {p \in open : p.n # e.n}
              \union {[p EXCEPT !.ack = TRUE] :
                         p \in {p \in OpenOf(e.n) : e.yes /\ p.execution /\ ~p.stop}}
      BY <2>5 DEF Opening
    <3> QED
      BY <1>1, <2>1, <3>1 DEF OpenOf
  <2>6. CASE ~c.closed /\ e.kind = "stopped"
    <3>1. Opening(c, e) = {p \in open : ~p.execution}
              \union {[p EXCEPT !.stop = TRUE] : p \in {p \in open : p.execution /\ ~p.ack}}
      BY <2>6 DEF Opening
    <3> QED
      BY <1>1, <2>1, <3>1
  <2>7. CASE ~c.closed /\ e.kind \notin {"request", "response", "stopped"}
    BY <1>1, <2>7 DEF Opening
  <2> QED
    BY <2>3, <2>4, <2>5, <2>6, <2>7
<1>3. OpenItems \subseteq 1 .. items
  BY <1>1 DEF OpenItems, OpenRequests
<1>4. Spans(c, e) \subseteq AllSpans
  <2>1. Spans(c, e) \subseteq OpenItems \union {RootSpan}
                              \union (IF e.kind = "record" THEN {e.n} ELSE {})
    BY DEF Spans, OpenItems
  <2> QED
    BY <1>3, <2>1 DEF AllSpans, OfItem
<1>5. OpenItems \subseteq {p.n : p \in Opening(c, e)} \union Spans(c, e)
  BY DEF OpenItems, Spans
<1>6. ~c.closed /\ OfItem(e) => e.n \in {p.n : p \in Opening(c, e)} \union Spans(c, e)
  <2>1. CASE ~c.closed /\ e.kind = "record"
    BY <2>1 DEF Spans
  <2>2. CASE ~c.closed /\ e.kind = "request"
    <3>1. CASE OpenOf(e.n) = {}
      <4>1. [n |-> e.n, execution |-> e.yes, ack |-> FALSE, stop |-> FALSE] \in Opening(c, e)
        BY <2>2, <3>1 DEF Opening
      <4> QED
        BY <4>1
    <3>2. CASE OpenOf(e.n) # {}
      <4>1. PICK p \in open : p.n = e.n
        BY <3>2 DEF OpenOf
      <4>2. p \in Opening(c, e)
        BY <2>2, <4>1 DEF Opening
      <4> QED
        BY <4>1, <4>2
    <3> QED
      BY <3>1, <3>2
  <2> QED
    BY <2>1, <2>2 DEF OfItem
<1>7. ~c.closed /\ e.kind = "close" => Spans(c, e) = OpenItems \union {RootSpan}
  <2> SUFFICES ASSUME ~c.closed, e.kind = "close" PROVE Spans(c, e) = OpenItems \union {RootSpan}
    OBVIOUS
  <2>1. Opening(c, e) = {}
    BY DEF Opening
  <2>2. Spans(c, e) = {RootSpan} \union ({p.n : p \in open} \ {p.n : p \in Opening(c, e)})
    BY DEF Spans
  <2> QED
    BY <2>1, <2>2 DEF OpenItems
<1>8. c.closed => Opening(c, e) = open /\ Spans(c, e) = {}
  <2> SUFFICES ASSUME c.closed PROVE Opening(c, e) = open /\ Spans(c, e) = {}
    OBVIOUS
  <2>1. Opening(c, e) = open
    BY <1>1, Zenon DEF Opening
  <2> QED
    BY <2>1 DEF Spans
<1>9. e.kind = "start" => Opening(c, e) = open
  BY DEF Opening
<1> QED
  BY <1>2, <1>4, <1>5, <1>6, <1>7, <1>8, <1>9


LEMMA CaptureStart == CaptureInit => WholeInv
<1> SUFFICES ASSUME CaptureInit PROVE WholeInv
  OBVIOUS
<1>1. /\ Idle \in Shipments /\ Idle.event.kind = "none" /\ ~Idle.incomplete
      /\ Idle.stage = "idle"
  BY DEF Idle, Plain, Shipments, RecorderEvents, EventKinds, Stages
<1>2. Unknown \in CaptureRecords /\ ~Unknown.known /\ ~Unknown.closed /\ ~Unknown.interrupted
  BY DEF Unknown, CaptureRecords
<1>3. /\ Plain("start") \in RecorderEvents /\ Plain("start").kind = "start"
  BY DEF Plain, RecorderEvents, EventKinds
<1>4. /\ events \in Seq(RecorderEvents) /\ Len(events) = 1 /\ events[1] = Plain("start")
  BY <1>3 DEF CaptureInit
<1>5. CaptureType
  <2>1. query.spans = {} /\ query = [spans |-> query.spans, whole |-> FALSE]
    BY DEF CaptureInit, NoAnswer
  <2>2. spanBatches \in Seq(SUBSET AllSpans)
    BY DEF CaptureInit
  <2>3. items \in 0 .. MaxItems /\ responding \subseteq 1 .. items
    BY CaptureAssumption DEF CaptureInit, CaptureAssumption
  <2>4. open \subseteq OpenRequests /\ blocks \subseteq AllSpans /\ query.spans \subseteq AllSpans
    BY <2>1 DEF CaptureInit
  <2>5. /\ sending \in Shipments /\ overdue \in Shipments
        /\ observed \in CaptureRecords /\ observedFile \in CaptureRecords
        /\ tracer = "up" /\ recorderClosed = FALSE /\ failure = FALSE
    BY <1>1, <1>2 DEF CaptureInit
  <2> QED
    BY <1>4, <2>1, <2>2, <2>3, <2>4, <2>5 DEF CaptureType
<1>6. EventInv
  BY <1>1, <1>3, <1>4 DEF CaptureInit, EventInv, OfItem
<1>7. MarkInv /\ RecordInv /\ AnswerInv
  BY <1>1, <1>2 DEF CaptureInit, MarkInv, RecordInv, SoundRecord, AnswerInv, NoAnswer
<1>8. CountInv
  BY <1>1, <1>2 DEF CaptureInit, CountInv, Alive, Closes
<1> QED
  BY <1>5, <1>6, <1>7, <1>8 DEF WholeInv

LEMMA OutstandingItems ==
  ASSUME CaptureType
  PROVE  /\ Awaiting \subseteq 1 .. items /\ OpenItems \subseteq 1 .. items
         /\ Outstanding \subseteq 1 .. items /\ items \in Nat /\ items <= MaxItems
         /\ IsFiniteSet(Outstanding) /\ Cardinality(Outstanding) \in Nat
         /\ IsFiniteSet(OpenItems) /\ Cardinality(OpenItems) \in Nat
<1>1. Awaiting \subseteq 1 .. items
  BY DEF Awaiting
<1>2. OpenItems \subseteq 1 .. items
  BY DEF OpenItems, CaptureType, OpenRequests
<1>3. items \in Nat /\ items <= MaxItems
  BY CaptureAssumption DEF CaptureType, CaptureAssumption
<1> QED
  BY <1>1, <1>2, <1>3, SomeItems DEF Outstanding

\* The broker records an event, of a new item or of none.
LEMMA RecordSteps ==
  ASSUME WholeInv, NEW event \in RecorderEvents, Record(event), event.kind # "close",
         \/ items' = items /\ ~OfItem(event)
         \/ items' = items + 1 /\ items < MaxItems /\ OfItem(event) /\ event.n = items + 1,
         responding' \subseteq 1 .. items'
  PROVE  WholeInv'
<1>1. /\ ~recorderClosed /\ events \in Seq(RecorderEvents) /\ failure \in BOOLEAN
      /\ items \in Nat /\ items' \in Nat /\ items' \in 0 .. MaxItems /\ items <= items'
  BY CaptureAssumption DEF WholeInv, CaptureType, Record, CaptureAssumption
<1>2. UNCHANGED <<recorderClosed, endpoint, sending, overdue, tracer, observed, observedFile, open,
                  spanBatches, blocks, query, answer>>
  BY DEF Record, tracerEnd, querier
<1>3. /\ Append(events, event) \in Seq(RecorderEvents)
      /\ Len(Append(events, event)) = Len(events) + 1 /\ Len(events) \in Nat
      /\ \A i \in 1 .. Len(events) : Append(events, event)[i] = events[i]
      /\ Append(events, event)[Len(events) + 1] = event
  BY <1>1, AppendProperties
<1>4. \/ events' = Append(events, event) /\ failure' = failure
      \/ events' = events /\ failure' = TRUE
  BY DEF Record
<1>5. 1 .. items \subseteq 1 .. items'
  BY <1>1
<1>6. CaptureType'
  <2>1. AllSpans \subseteq AllSpans' /\ OpenRequests \subseteq OpenRequests'
    BY <1>5 DEF AllSpans, RootSpan, OpenRequests
  <2>2. spanBatches \in Seq(SUBSET (AllSpans'))
    <3>1. spanBatches \in Seq(SUBSET AllSpans)
      BY DEF WholeInv, CaptureType
    <3>2. Seq(SUBSET AllSpans) \subseteq Seq(SUBSET (AllSpans'))
      BY <2>1
    <3> QED
      BY <3>1, <3>2
  <2> QED
    BY <1>1, <1>2, <1>3, <1>4, <2>1, <2>2 DEF WholeInv, CaptureType
<1>7. EventInv'
  <2>1. OfItem(event) => event.n \in 1 .. items'
    BY <1>1
  <2>2. \A i \in 1 .. Len(events) : events[i].kind # "close"
    BY <1>1 DEF WholeInv, EventInv
  <2>3. sending.event.kind # "close" /\ overdue.event.kind # "close"
    BY <1>1 DEF WholeInv, EventInv
  <2>4. \A i \in 1 .. Len(events) : OfItem(events[i]) => events[i].n \in 1 .. items'
    BY <1>5 DEF WholeInv, EventInv
  <2>5. \A i \in 1 .. Len(events') :
           /\ OfItem(events'[i]) => events'[i].n \in 1 .. items'
           /\ events'[i].kind # "close"
    BY <1>3, <1>4, <2>1, <2>2, <2>4
  <2>6. /\ OfItem(sending.event) => sending.event.n \in 1 .. items'
        /\ OfItem(overdue.event) => overdue.event.n \in 1 .. items'
    BY <1>5 DEF WholeInv, EventInv
  <2> QED
    BY <1>2, <2>3, <2>5, <2>6 DEF EventInv, OfItem
<1>8. MarkInv'
  BY <1>2, <1>4 DEF WholeInv, MarkInv
<1>9. RecordInv' /\ AnswerInv'
  BY <1>1, <1>2 DEF WholeInv, RecordInv, SoundRecord, AnswerInv
<1>10. CountInv'
  <2>1. ~Closes(sending)' /\ ~Closes(overdue)'
    BY <1>1, <1>2 DEF WholeInv, EventInv, Closes
  <2>2. CASE events' = events /\ failure' = TRUE
    BY <2>1, <2>2 DEF CountInv, Unbroken
  <2>3. CASE events' = Append(events, event) /\ failure' = failure
    <3>1. Awaiting \subseteq Awaiting'
      <4> SUFFICES ASSUME NEW n \in Awaiting PROVE n \in Awaiting'
        OBVIOUS
      <4>1. n \in 1 .. items'
        BY <1>5 DEF Awaiting
      <4>2. ASSUME NEW i \in 1 .. Len(events), OfItem(events[i]), events[i].n = n
            PROVE  \E j \in 1 .. Len(events') : OfItem(events'[j]) /\ events'[j].n = n
        <5>1. i \in 1 .. Len(events') /\ events'[i] = events[i]
          BY <1>3, <2>3
        <5> QED
          BY <4>2, <5>1
      <4> QED
        BY <1>2, <4>1, <4>2 DEF Awaiting, OfItem
    <3>2. 1 .. items' \subseteq 1 .. items \union Awaiting'
      <4>1. CASE items' = items
        BY <4>1
      <4>2. CASE items' = items + 1 /\ event.n = items + 1 /\ OfItem(event)
        <5>1. items + 1 \in Awaiting'
          <6>1. Len(events) + 1 \in 1 .. Len(events') /\ events'[Len(events) + 1] = event
            BY <1>3, <2>3
          <6>2. items + 1 \in 1 .. items'
            BY <1>1, <4>2
          <6> QED
            BY <4>2, <6>1, <6>2 DEF Awaiting, OfItem
        <5>2. 1 .. items' \subseteq 1 .. items \union {items + 1}
          BY <1>1, <4>2
        <5> QED
          BY <5>1, <5>2
      <4> QED
        BY <4>1, <4>2
    <3>3. OpenItems' = OpenItems /\ (Unbroken' <=> Unbroken) /\ (Alive' <=> Alive)
      BY <1>2, <2>3 DEF OpenItems, Unbroken, Alive
    <3>4. Cardinality(Outstanding) + (items' - items) <= Cardinality(Outstanding') /\ Cardinality(Outstanding') \in Nat
      <4>1. /\ Outstanding \subseteq 1 .. items /\ IsFiniteSet(Outstanding)
            /\ Cardinality(Outstanding) \in Nat /\ OpenItems \subseteq 1 .. items
        BY OutstandingItems DEF WholeInv
      <4>2. Outstanding' = Awaiting' \union OpenItems
        BY <3>3 DEF Outstanding
      <4>3. Awaiting' \subseteq 1 .. items'
        BY DEF Awaiting
      <4>4. Outstanding' \subseteq 1 .. items'
        BY <1>5, <4>1, <4>2, <4>3
      <4>5. IsFiniteSet(Outstanding') /\ Cardinality(Outstanding') \in Nat
        BY <1>1, <4>4, SomeItems
      <4>6. Outstanding \subseteq Outstanding'
        BY <3>1, <4>2 DEF Outstanding
      <4>7. CASE items' = items
        <5>1. Cardinality(Outstanding) <= Cardinality(Outstanding')
          BY <4>5, <4>6, FS_Subset
        <5>2. items' - items = 0
          BY <1>1, <4>7
        <5> QED
          BY <4>1, <4>5, <5>1, <5>2
      <4>8. CASE items' = items + 1
        <5>1. items + 1 \in 1 .. items' /\ items + 1 \notin 1 .. items
          BY <1>1, <4>8
        <5>2. items + 1 \in Outstanding' /\ items + 1 \notin Outstanding
          BY <3>2, <4>1, <4>2, <5>1
        <5>3. Outstanding \union {items + 1} \subseteq Outstanding'
          BY <4>6, <5>2
        <5>4. Cardinality(Outstanding \union {items + 1}) = Cardinality(Outstanding) + 1
          BY <4>1, <5>2, FS_AddElement
        <5>5. Cardinality(Outstanding \union {items + 1}) <= Cardinality(Outstanding')
          BY <4>5, <5>3, FS_Subset
        <5>6. items' - items = 1
          BY <1>1, <4>8
        <5> QED
          BY <4>1, <4>5, <5>4, <5>5, <5>6
      <4> QED
        BY <4>7, <4>8
    <3>5. Unbroken' /\ ~observed'.known /\ ~observedFile'.known => 1 .. items' \subseteq Awaiting'
      <4>1. Unbroken /\ ~observed.known /\ ~observedFile.known => 1 .. items \subseteq Awaiting
        BY DEF WholeInv, CountInv
      <4> QED
        BY <1>2, <3>1, <3>2, <3>3, <4>1
    <3>6. Unbroken' /\ Alive' => observed'.count + Cardinality(Outstanding') >= items'
      <4>1. Unbroken /\ Alive => observed.count + Cardinality(Outstanding) >= items
        BY DEF WholeInv, CountInv
      <4>2. observed.count \in Nat /\ observed' = observed /\ Cardinality(Outstanding) \in Nat
        BY <1>2, OutstandingItems DEF WholeInv, CaptureType, CaptureRecords
      <4> QED
        BY <1>1, <3>3, <3>4, <4>1, <4>2
    <3>7. Unbroken' /\ observed'.known => observedFile'.known
      BY <1>2, <3>3 DEF WholeInv, CountInv
    <3> QED
      BY <2>1, <3>5, <3>6, <3>7 DEF CountInv
  <2> QED
    BY <1>4, <2>2, <2>3
<1> QED
  BY <1>6, <1>7, <1>8, <1>9, <1>10 DEF WholeInv


\* Nothing is counted, and nothing that is missing is forgotten.
LEMMA CountKept ==
  ASSUME CaptureType, CountInv, UNCHANGED <<items, observed, observedFile, open>>,
         Awaiting \subseteq Awaiting', Unbroken' => Unbroken,
         (Closes(sending)' \/ Closes(overdue)') /\ Alive =>
            observed.count + Cardinality(OpenItems) >= items
  PROVE  CountInv'
<1>1. OpenItems' = OpenItems /\ (Alive' <=> Alive)
  BY DEF OpenItems, Alive
<1>2. Cardinality(Outstanding') \in Nat /\ Cardinality(Outstanding) <= Cardinality(Outstanding')
  <2>1. Outstanding \subseteq Outstanding'
    BY <1>1 DEF Outstanding
  <2>2. Outstanding' \subseteq 1 .. items /\ items \in Nat
    <3>1. Awaiting' \subseteq 1 .. items
      BY DEF Awaiting
    <3> QED
      BY <1>1, <3>1, OutstandingItems DEF Outstanding
  <2>3. IsFiniteSet(Outstanding') /\ Cardinality(Outstanding') \in Nat
    BY <2>2, SomeItems
  <2> QED
    BY <2>1, <2>3, FS_Subset
<1>3. Unbroken' /\ Alive' => observed'.count + Cardinality(Outstanding') >= items'
  <2>1. Unbroken /\ Alive => observed.count + Cardinality(Outstanding) >= items
    BY DEF CountInv
  <2>2. observed.count \in Nat /\ items \in Nat /\ Cardinality(Outstanding) \in Nat
    BY OutstandingItems DEF CaptureType, CaptureRecords
  <2> QED
    BY <1>1, <1>2, <2>1, <2>2
<1>4. (Closes(sending)' \/ Closes(overdue)') /\ Alive' =>
         observed'.count + Cardinality(OpenItems') >= items'
  BY <1>1
<1>5. /\ Unbroken' /\ observed'.known => observedFile'.known
      /\ Unbroken' /\ ~observed'.known /\ ~observedFile'.known => 1 .. items' \subseteq Awaiting'
  BY DEF CountInv
<1> QED
  BY <1>3, <1>4, <1>5 DEF CountInv

LEMMA CloseSteps ==
  ASSUME WholeInv, CloseRecorder
  PROVE  WholeInv'
<1> DEFINE last == Plain("close")
<1>1. /\ last \in RecorderEvents /\ last.kind = "close" /\ ~OfItem(last)
  BY DEF Plain, RecorderEvents, EventKinds, OfItem
<1> HIDE DEF last
<1>2. /\ ~recorderClosed /\ recorderClosed' = TRUE
      /\ events' = Append(events, last) \/ events' = events
      /\ UNCHANGED <<items, responding, failure, sending, overdue, tracer, observed, observedFile,
                     open, spanBatches, blocks, query, answer>>
  <2>1. events' = Append(events, last) \/ events' = events
    BY DEF CloseRecorder, last
  <2> QED
    BY <2>1 DEF CloseRecorder, recorder, tracerEnd, querier
<1>3. /\ events \in Seq(RecorderEvents)
      /\ Append(events, last) \in Seq(RecorderEvents)
      /\ Len(Append(events, last)) = Len(events) + 1 /\ Len(events) \in Nat
      /\ \A i \in 1 .. Len(events) : Append(events, last)[i] = events[i]
      /\ Append(events, last)[Len(events) + 1] = last
  <2>1. events \in Seq(RecorderEvents)
    BY DEF WholeInv, CaptureType
  <2> QED
    BY <1>1, <2>1, AppendProperties
<1>4. CaptureType'
  BY <1>2, <1>3 DEF WholeInv, CaptureType, AllSpans, OpenRequests
<1>5. EventInv'
  <2>1. \A i \in 1 .. Len(events) :
           events[i].kind # "close" /\ (OfItem(events[i]) => events[i].n \in 1 .. items)
    BY <1>2 DEF WholeInv, EventInv
  <2>2. sending.event.kind # "close" /\ overdue.event.kind # "close"
    BY <1>2 DEF WholeInv, EventInv
  <2>3. \A i \in 1 .. Len(events') :
           /\ OfItem(events'[i]) => events'[i].n \in 1 .. items
           /\ events'[i].kind = "close" => i = Len(events')
    BY <1>1, <1>2, <1>3, <2>1
  <2>4. /\ OfItem(sending.event) => sending.event.n \in 1 .. items
        /\ OfItem(overdue.event) => overdue.event.n \in 1 .. items
    BY DEF WholeInv, EventInv
  <2> QED
    BY <1>2, <2>2, <2>3, <2>4 DEF EventInv, OfItem
<1>6. MarkInv'
  BY <1>2 DEF WholeInv, MarkInv
<1>7. RecordInv' /\ AnswerInv'
  BY <1>2 DEF WholeInv, RecordInv, SoundRecord, AnswerInv, AllSpans
<1>8. CountInv'
  <2>1. ~Closes(sending)' /\ ~Closes(overdue)'
    BY <1>2 DEF WholeInv, EventInv, Closes
  <2>2. Awaiting \subseteq Awaiting'
    <3> SUFFICES ASSUME NEW n \in Awaiting PROVE n \in Awaiting'
      OBVIOUS
    <3>1. ASSUME NEW i \in 1 .. Len(events), OfItem(events[i]), events[i].n = n
          PROVE  \E j \in 1 .. Len(events') : OfItem(events'[j]) /\ events'[j].n = n
      <4>1. i \in 1 .. Len(events') /\ events'[i] = events[i]
        BY <1>2, <1>3
      <4> QED
        BY <3>1, <4>1
    <3> QED
      BY <1>2, <3>1 DEF Awaiting, OfItem
  <2>3. Unbroken' => Unbroken
    BY <1>2 DEF Unbroken
  <2> QED
    BY <1>2, <2>1, <2>2, <2>3, CountKept DEF WholeInv
<1> QED
  BY <1>4, <1>5, <1>6, <1>7, <1>8 DEF WholeInv

LEMMA TakeSteps ==
  ASSUME WholeInv, TakeEvent
  PROVE  WholeInv'
<1>1. /\ sending = Idle /\ sending.stage = "idle" /\ ~sending.incomplete
      /\ events \in Seq(RecorderEvents)
      /\ UNCHANGED <<items, responding, recorderClosed, failure, overdue, tracer, observed,
                     observedFile, open, spanBatches, blocks, query, answer>>
  <2>1. sending = Idle
    BY DEF TakeEvent
  <2> QED
    BY <2>1 DEF TakeEvent, tracerEnd, querier, Idle, WholeInv, CaptureType
<1>2. failure \in BOOLEAN /\ (overdue # Idle => failure)
  BY DEF WholeInv, CaptureType, MarkInv
<1>3. ~(recorderClosed /\ events = <<>>)
  BY DEF TakeEvent
<1>4. overdue.event.kind # "close"
  BY <1>3 DEF WholeInv, EventInv
<1>5. PICK e : /\ sending' = [event |-> e, incomplete |-> failure, stage |-> "sent"]
               /\ \/ events # <<>> /\ e = Head(events) /\ events' = Tail(events)
                  \/ e = Plain("heartbeat") /\ events' = events
  BY DEF TakeEvent
<1>6. sending'.event = e /\ sending'.incomplete = failure /\ sending'.stage = "sent"
  BY <1>5
<1>7. CASE events # <<>> /\ e = Head(events) /\ events' = Tail(events)
  <2>1. /\ e = events[1] /\ e \in RecorderEvents /\ events' \in Seq(RecorderEvents)
        /\ Len(events') = Len(events) - 1 /\ Len(events) \in Nat /\ Len(events) >= 1
        /\ \A i \in 1 .. Len(events') : events'[i] = events[i + 1]
    BY <1>1, <1>7, EmptySeq, HeadTailProperties
  <2>2. sending' \in Shipments
    BY <1>2, <1>5, <2>1 DEF Shipments, Stages
  <2>3. CaptureType'
    BY <1>1, <2>1, <2>2 DEF WholeInv, CaptureType, AllSpans, OpenRequests
  <2>4. /\ OfItem(e) => e.n \in 1 .. items
        /\ e.kind = "close" => recorderClosed /\ Len(events) = 1
    <3>1. 1 \in 1 .. Len(events)
      BY <2>1
    <3> QED
      BY <2>1, <3>1 DEF WholeInv, EventInv
  <2>5. e.kind = "close" => events' = <<>>
    <3>1. ASSUME Len(events) = 1 PROVE Len(events') = 0
      BY <2>1, <3>1
    <3> QED
      BY <2>1, <2>4, <3>1, EmptySeq
  <2>6. EventInv'
    <3>1. ASSUME NEW i \in 1 .. Len(events')
          PROVE  /\ OfItem(events'[i]) => events'[i].n \in 1 .. items
                 /\ events'[i].kind = "close" => recorderClosed /\ i = Len(events')
      <4>1. i + 1 \in 1 .. Len(events) /\ events'[i] = events[i + 1]
        BY <2>1
      <4>2. /\ OfItem(events[i + 1]) => events[i + 1].n \in 1 .. items
            /\ events[i + 1].kind = "close" => recorderClosed /\ i + 1 = Len(events)
        BY <4>1 DEF WholeInv, EventInv
      <4>3. i + 1 = Len(events) => i = Len(events')
        BY <2>1
      <4> QED
        BY <4>1, <4>2, <4>3
    <3>2. OfItem(overdue.event) => overdue.event.n \in 1 .. items
      BY DEF WholeInv, EventInv
    <3> QED
      BY <1>1, <1>4, <1>6, <2>4, <2>5, <3>1, <3>2 DEF EventInv, OfItem
  <2>7. Awaiting \subseteq Awaiting'
    <3> SUFFICES ASSUME NEW n \in Awaiting PROVE n \in Awaiting'
      OBVIOUS
    <3>1. PICK i \in 1 .. Len(events) : OfItem(events[i]) /\ events[i].n = n
      BY <1>1 DEF Awaiting
    <3>2. CASE i = 1
      BY <1>1, <1>6, <2>1, <3>1, <3>2 DEF Awaiting, OfItem
    <3>3. CASE i # 1
      <4>1. i - 1 \in 1 .. Len(events') /\ events'[i - 1] = events[i]
        BY <2>1, <3>3
      <4> QED
        BY <1>1, <3>1, <4>1 DEF Awaiting, OfItem
    <3> QED
      BY <3>2, <3>3
  <2>8. Unbroken' => Unbroken
    BY <1>1 DEF Unbroken
  <2>9. Closes(sending)' /\ Alive => observed.count + Cardinality(OpenItems) >= items
    <3> SUFFICES ASSUME Closes(sending)', Alive
                 PROVE  observed.count + Cardinality(OpenItems) >= items
      OBVIOUS
    <3>1. e.kind = "close" /\ ~failure
      BY <1>6 DEF Closes
    <3>2. Unbroken
      BY <1>1, <3>1 DEF Unbroken
    <3>3. Awaiting = {}
      <4>1. \A i \in 1 .. Len(events) : ~OfItem(events[i])
        <5>1. Len(events) = 1 /\ events[1].kind = "close"
          BY <2>1, <2>4, <3>1
        <5> QED
          BY <5>1 DEF OfItem
      <4> QED
        BY <1>1, <4>1 DEF Awaiting
    <3>4. Outstanding = OpenItems
      BY <3>3 DEF Outstanding
    <3> QED
      BY <3>2, <3>4 DEF WholeInv, CountInv
  <2>10. ~Closes(overdue)'
    BY <1>1, <1>4 DEF Closes
  <2>11. CountInv'
    BY <1>1, <2>7, <2>8, <2>9, <2>10, CountKept DEF WholeInv
  <2>12. MarkInv'
    BY <1>1, <1>2, <1>6 DEF WholeInv, MarkInv
  <2>13. RecordInv' /\ AnswerInv'
    BY <1>1 DEF WholeInv, RecordInv, SoundRecord, AnswerInv, AllSpans
  <2> QED
    BY <2>3, <2>6, <2>11, <2>12, <2>13 DEF WholeInv
<1>8. CASE e = Plain("heartbeat") /\ events' = events
  <2>1. e \in RecorderEvents /\ e.kind = "heartbeat" /\ ~OfItem(e)
    BY <1>8 DEF Plain, RecorderEvents, EventKinds, OfItem
  <2>2. sending' \in Shipments
    BY <1>2, <1>5, <2>1 DEF Shipments, Stages
  <2>3. CaptureType'
    BY <1>1, <1>8, <2>2 DEF WholeInv, CaptureType, AllSpans, OpenRequests
  <2>4. EventInv'
    BY <1>1, <1>4, <1>6, <1>8, <2>1 DEF WholeInv, EventInv, OfItem
  <2>5. Awaiting \subseteq Awaiting'
    BY <1>1, <1>8 DEF Awaiting, OfItem
  <2>6. Unbroken' => Unbroken
    BY <1>1 DEF Unbroken
  <2>7. ~Closes(sending)' /\ ~Closes(overdue)'
    BY <1>1, <1>4, <1>6, <2>1 DEF Closes
  <2>8. CountInv'
    BY <1>1, <2>5, <2>6, <2>7, CountKept DEF WholeInv
  <2>9. MarkInv'
    BY <1>1, <1>2, <1>6 DEF WholeInv, MarkInv
  <2>10. RecordInv' /\ AnswerInv'
    BY <1>1 DEF WholeInv, RecordInv, SoundRecord, AnswerInv, AllSpans
  <2> QED
    BY <2>3, <2>4, <2>8, <2>9, <2>10 DEF WholeInv
<1> QED
  BY <1>5, <1>7, <1>8


\* The service is found, or answers.
LEMMA AnsweredSteps ==
  ASSUME WholeInv, FindService \/ EventAnswered
  PROVE  WholeInv'
<1>1. /\ sending' = Idle /\ sending.stage \in {"idle", "searching", "done"}
      /\ UNCHANGED <<items, responding, events, recorderClosed, failure, overdue, tracer, observed,
                     observedFile, open, spanBatches, blocks, query, answer>>
  <2>1. CASE FindService
    BY <2>1 DEF FindService, brokerEnd, tracerEnd, querier
  <2>2. CASE EventAnswered
    <3>1. failure' = failure
      BY <2>2 DEF EventAnswered, Noted, WholeInv, CaptureType
    <3> QED
      BY <2>2, <3>1 DEF EventAnswered, brokerEnd, tracerEnd, querier
  <2> QED
    BY <2>1, <2>2
<1>2. /\ Idle \in Shipments /\ Idle.event.kind = "none" /\ ~Idle.incomplete
      /\ Idle.stage = "idle"
  BY DEF Idle, Plain, Shipments, RecorderEvents, EventKinds, Stages
<1>3. CaptureType'
  BY <1>1, <1>2 DEF WholeInv, CaptureType, AllSpans, OpenRequests
<1>4. EventInv'
  BY <1>1, <1>2 DEF WholeInv, EventInv, OfItem
<1>5. MarkInv'
  BY <1>1, <1>2 DEF WholeInv, MarkInv
<1>6. RecordInv' /\ AnswerInv'
  BY <1>1 DEF WholeInv, RecordInv, SoundRecord, AnswerInv, AllSpans
<1>7. CountInv'
  <2>1. Awaiting \subseteq Awaiting'
    BY <1>1 DEF Awaiting, OfItem
  <2>2. Unbroken' => Unbroken
    BY <1>1 DEF Unbroken
  <2>3. ~Closes(sending)' /\ (Closes(overdue)' => Closes(overdue))
    BY <1>1, <1>2 DEF Closes
  <2>4. Closes(overdue) /\ Alive => observed.count + Cardinality(OpenItems) >= items
    BY DEF WholeInv, CountInv
  <2> QED
    BY <1>1, <2>1, <2>2, <2>3, <2>4, CountKept DEF WholeInv
<1> QED
  BY <1>3, <1>4, <1>5, <1>6, <1>7 DEF WholeInv

\* An event fails, and perhaps stays on its way.
LEMMA FailSteps ==
  ASSUME WholeInv, EventFails
  PROVE  WholeInv'
<1>1. /\ failure' = TRUE
      /\ overdue' = overdue \/ (overdue' = sending /\ sending.stage = "sent")
      /\ sending' = Idle \/ sending' = [sending EXCEPT !.stage = "searching"]
      /\ UNCHANGED <<items, responding, events, recorderClosed, tracer, observed,
                     observedFile, open, spanBatches, blocks, query, answer>>
  <2>1. failure' = TRUE
    BY DEF EventFails, Noted, WholeInv, CaptureType
  <2>2. overdue' = overdue \/ (overdue' = sending /\ sending.stage = "sent")
    BY DEF EventFails
  <2>3. sending' = Idle \/ sending' = [sending EXCEPT !.stage = "searching"]
    BY DEF EventFails
  <2> QED
    BY <2>1, <2>2, <2>3 DEF EventFails, brokerEnd, tracerEnd, querier
<1>2. /\ sending' \in Shipments /\ sending'.stage \in {"idle", "searching"}
      /\ sending'.event = sending.event \/ sending'.event = Plain("none")
      /\ sending \in Shipments
  <2>1. /\ Idle \in Shipments /\ Idle.stage = "idle" /\ Idle.event = Plain("none")
    BY DEF Idle, Plain, Shipments, RecorderEvents, EventKinds, Stages
  <2>2. sending \in Shipments
    BY DEF WholeInv, CaptureType
  <2>3. CASE sending' = [sending EXCEPT !.stage = "searching"]
    BY <2>2, <2>3 DEF Shipments, Stages
  <2> QED
    BY <1>1, <2>1, <2>2, <2>3
<1>3. Plain("none").kind = "none"
  BY DEF Plain
<1>4. CaptureType'
  BY <1>1, <1>2 DEF WholeInv, CaptureType, AllSpans, OpenRequests
<1>5. EventInv'
  BY <1>1, <1>2, <1>3 DEF WholeInv, EventInv, OfItem
<1>6. MarkInv'
  BY <1>1, <1>2 DEF WholeInv, MarkInv
<1>7. RecordInv' /\ AnswerInv'
  BY <1>1 DEF WholeInv, RecordInv, SoundRecord, AnswerInv, AllSpans
<1>8. CountInv'
  <2>1. ~Unbroken' /\ ~Closes(sending)'
    BY <1>1, <1>2 DEF Unbroken, Closes
  <2>2. Closes(overdue)' => Closes(sending) \/ Closes(overdue)
    BY <1>1 DEF Closes
  <2>3. (Closes(sending) \/ Closes(overdue)) /\ Alive =>
           observed.count + Cardinality(OpenItems) >= items
    BY DEF WholeInv, CountInv
  <2>4. OpenItems' = OpenItems /\ (Alive' <=> Alive)
    BY <1>1 DEF OpenItems, Alive
  <2> QED
    BY <1>1, <2>1, <2>2, <2>3, <2>4 DEF CountInv
<1> QED
  BY <1>4, <1>5, <1>6, <1>7, <1>8 DEF WholeInv

\* The service takes an event: what the record says then, and what it has counted.
LEMMA Handled ==
  ASSUME WholeInv, NEW p, NEW saved \in BOOLEAN, Handle(p, saved),
         \/ p = sending /\ sending.stage = "sent"
         \/ p = overdue /\ overdue # Idle,
         tracer = "up",
         UNCHANGED <<items, recorderClosed, tracer>>
  PROVE  /\ observed' \in CaptureRecords /\ observedFile' \in CaptureRecords
         /\ open' \subseteq OpenRequests /\ spanBatches' \in Seq(SUBSET AllSpans)
         /\ SoundRecord(observed)' /\ SoundRecord(observedFile)'
         /\ \/ /\ UNCHANGED <<observed, observedFile, open, spanBatches>>
               /\ ~observed.known /\ ~observedFile.known /\ p.event.kind # "start"
            \/ observed'.known /\ (saved => observedFile'.known)
         /\ Alive' => \/ observed'.count >= items
                      \/ /\ p.event.kind # "close" /\ ~p.incomplete /\ observed.known /\ Alive
                         /\ \E spans \in SUBSET AllSpans :
                              /\ observed'.count = observed.count + Cardinality(spans)
                              /\ OpenItems \subseteq OpenItems' \union spans
                              /\ OfItem(p.event) => p.event.n \in OpenItems' \union spans
                      \/ /\ ~observed.known /\ ~observedFile.known /\ p.event.kind = "start"
                         /\ observed'.count \in Nat
<1> DEFINE found  == IF observed.known THEN observed ELSE observedFile
           e      == p.event
           c      == Resumed(found, e)
           marked == [c EXCEPT !.failed = c.failed \/ p.incomplete]
           spans  == IF e.kind = "start" THEN {} ELSE Spans(c, e)
           sub    == Submits(marked, spans)
           after  == [sub EXCEPT !.closed = c.closed \/ e.kind = "close"]
<1>1. /\ p \in Shipments /\ e \in RecorderEvents /\ p.incomplete \in BOOLEAN
      /\ OfItem(e) => e.n \in 1 .. items
      /\ e.kind = "close" => recorderClosed
  <2>1. p \in Shipments
    BY DEF WholeInv, CaptureType
  <2>2. e \in RecorderEvents /\ p.incomplete \in BOOLEAN
    BY <2>1 DEF Shipments
  <2> QED
    BY <2>1, <2>2 DEF WholeInv, EventInv
<1>2. found \in CaptureRecords /\ SoundRecord(found) /\ items \in Nat /\ found.count \in Nat
  <2>1. found \in CaptureRecords /\ SoundRecord(found)
    BY DEF WholeInv, CaptureType, RecordInv
  <2> QED
    BY <2>1, OutstandingItems DEF CaptureRecords, WholeInv
<1>3. CASE ~found.known /\ e.kind # "start"
  <2>1. UNCHANGED <<observed, observedFile, open, spanBatches>>
    BY <1>3 DEF Handle
  <2>2. ~observed.known /\ ~observedFile.known
    BY <1>3
  <2>3. ~Alive'
    BY <2>1, <2>2 DEF Alive
  <2> QED
    BY <1>3, <2>1, <2>2, <2>3 DEF WholeInv, CaptureType, RecordInv, SoundRecord
<1>4. CASE found.known \/ e.kind = "start"
  <2>1. /\ observed' = after
        /\ observedFile' = IF saved THEN after ELSE observedFile
        /\ open' = Opening(c, e)
        /\ spanBatches' = Queued(spans)
    BY <1>4 DEF Handle
  <2>2. /\ c \in CaptureRecords /\ c.known /\ c.failed = found.failed /\ c.count = found.count
        /\ c.closed => found.closed
        /\ c.interrupted => found.interrupted
        /\ e.kind = "close" => c.closed = found.closed
    BY <1>2, ResumedRecord
  <2> HIDE DEF c
  <2>3. /\ marked \in CaptureRecords /\ marked.known /\ marked.count = c.count
        /\ marked.interrupted = c.interrupted
        /\ ~marked.failed => ~c.failed /\ ~p.incomplete
    BY <1>1, <2>2 DEF CaptureRecords
  <2>4. /\ Opening(c, e) \subseteq OpenRequests
        /\ Spans(c, e) \subseteq AllSpans
        /\ OpenItems \subseteq {q.n : q \in Opening(c, e)} \union Spans(c, e)
        /\ ~c.closed /\ OfItem(e) => e.n \in {q.n : q \in Opening(c, e)} \union Spans(c, e)
        /\ ~c.closed /\ e.kind = "close" => Spans(c, e) = OpenItems \union {RootSpan}
        /\ c.closed => Opening(c, e) = open /\ Spans(c, e) = {}
        /\ e.kind = "start" => Opening(c, e) = open
    BY <1>1, <2>2, OpenedOrEnded DEF WholeInv
  <2> HIDE DEF marked
  <2>5. spans \subseteq AllSpans /\ Cardinality(spans) \in Nat
        /\ (c.closed => spans = {})
        /\ (e.kind # "start" => spans = Spans(c, e)) /\ (e.kind = "start" => spans = {})
    <3>1. spans \subseteq AllSpans /\ (c.closed => spans = {})
      BY <2>4
    <3>2. IsFiniteSet(AllSpans)
      BY <1>2, SomeItems, FS_AddElement DEF AllSpans
    <3> QED
      BY <3>1, <3>2, FS_Subset, FS_CardinalityType
  <2> HIDE DEF spans
  <2>6. /\ sub \in CaptureRecords /\ sub.known /\ sub.interrupted = c.interrupted
        /\ sub.count = c.count + Cardinality(spans)
        /\ ~sub.failed => ~c.failed /\ ~p.incomplete
    BY <2>3, <2>5, SubmittedRecord
  <2> HIDE DEF sub
  <2>7. /\ after \in CaptureRecords /\ after.known /\ after.interrupted = c.interrupted
        /\ after.count = c.count + Cardinality(spans)
        /\ ~after.failed => ~c.failed /\ ~p.incomplete
        /\ after.closed <=> c.closed \/ e.kind = "close"
    <3> DEFINE t == c.closed \/ e.kind = "close"
    <3>1. t \in BOOLEAN
      BY <2>2 DEF CaptureRecords
    <3>2. after = [sub EXCEPT !.closed = t]
      OBVIOUS
    <3> HIDE DEF t, after
    <3>3. /\ after \in CaptureRecords /\ after.known = sub.known
          /\ after.interrupted = sub.interrupted /\ after.count = sub.count
          /\ after.failed = sub.failed /\ after.closed = t
      BY <2>6, <3>1, <3>2 DEF CaptureRecords
    <3> QED
      BY <2>6, <3>3 DEF t
  <2> HIDE DEF after
  <2>8. spanBatches' \in Seq(SUBSET AllSpans)
    <3>1. spanBatches \in Seq(SUBSET AllSpans)
      BY DEF WholeInv, CaptureType
    <3>2. Append(spanBatches, spans) \in Seq(SUBSET AllSpans)
      BY <2>5, <3>1, AppendProperties
    <3> QED
      BY <2>1, <3>1, <3>2 DEF Queued
  <2>9. c.interrupted => found.failed
    BY <1>2, <2>2 DEF SoundRecord
  <2>10. found.closed /\ ~found.failed => recorderClosed /\ found.count >= items + 1
    BY <1>2 DEF SoundRecord
  <2>11. after.closed /\ ~after.failed => recorderClosed /\ after.count >= items + 1
    <3> SUFFICES ASSUME after.closed, ~after.failed
                 PROVE  recorderClosed /\ after.count >= items + 1
      OBVIOUS
    <3>1. ~found.failed /\ ~p.incomplete
      BY <2>2, <2>7
    <3>2. CASE c.closed
      <4>1. Cardinality(spans) = 0
        BY <2>5, <3>2, FS_EmptySet
      <4> QED
        BY <1>2, <2>2, <2>7, <2>10, <3>1, <3>2, <4>1
    <3>3. CASE ~c.closed
      <4>1. e.kind = "close" /\ ~found.closed
        BY <2>2, <2>7, <3>3
      <4>2. found.known
        BY <1>4, <4>1
      <4>3. observed.known /\ found = observed
        BY <4>1, <4>2 DEF WholeInv, RecordInv, CaptureType
      <4>4. Alive
        BY <3>1, <4>1, <4>3 DEF Alive
      <4>5. Closes(p)
        <5>1. p.stage = "sent"
          BY DEF WholeInv, MarkInv
        <5> QED
          BY <3>1, <4>1, <5>1 DEF Closes
      <4>6. observed.count + Cardinality(OpenItems) >= items
        BY <4>4, <4>5 DEF WholeInv, CountInv
      <4>7. Cardinality(spans) = Cardinality(OpenItems) + 1
        <5>1. /\ OpenItems \subseteq 1 .. items /\ IsFiniteSet(OpenItems) /\ items <= MaxItems
              /\ MaxItems \in Nat
          BY OutstandingItems, CaptureAssumption DEF WholeInv, CaptureAssumption
        <5>2. RootSpan \notin OpenItems
          BY <1>2, <5>1 DEF RootSpan
        <5>3. spans = OpenItems \union {RootSpan}
          BY <2>4, <2>5, <3>3, <4>1
        <5> QED
          BY <5>1, <5>2, <5>3, FS_AddElement
      <4>8. Cardinality(OpenItems) \in Nat
        BY OutstandingItems DEF WholeInv
      <4>9. after.count = observed.count + (Cardinality(OpenItems) + 1)
        BY <2>2, <2>7, <4>3, <4>7
      <4> QED
        BY <1>1, <1>2, <4>1, <4>3, <4>6, <4>8, <4>9
    <3> QED
      BY <3>2, <3>3
  <2>12. SoundRecord(observed)' /\ SoundRecord(observedFile)'
    <3>1. /\ after.interrupted => after.failed
          /\ after.closed => after.known
      BY <2>2, <2>7, <2>9
    <3>2. observed' = after /\ (observedFile' = after \/ observedFile' = observedFile)
      BY <2>1
    <3> QED
      BY <2>11, <3>1, <3>2 DEF WholeInv, RecordInv, SoundRecord
  <2>13. /\ observed' \in CaptureRecords /\ observedFile' \in CaptureRecords
         /\ observed'.known /\ (saved => observedFile'.known)
         /\ open' \subseteq OpenRequests
    BY <2>1, <2>4, <2>7 DEF WholeInv, CaptureType
  <2>14. ASSUME Alive'
         PROVE  \/ observed'.count >= items
                \/ /\ p.event.kind # "close" /\ ~p.incomplete /\ observed.known /\ Alive
                   /\ \E x \in SUBSET AllSpans :
                        /\ observed'.count = observed.count + Cardinality(x)
                        /\ OpenItems \subseteq OpenItems' \union x
                        /\ OfItem(p.event) => p.event.n \in OpenItems' \union x
                \/ /\ ~observed.known /\ ~observedFile.known /\ p.event.kind = "start"
                   /\ observed'.count \in Nat
    <3>1. ~after.failed /\ ~after.closed
      BY <2>1, <2>14 DEF Alive
    <3>2. ~c.closed /\ e.kind # "close" /\ ~p.incomplete /\ ~found.failed
      BY <2>2, <2>7, <3>1
    <3>3. observed'.count = found.count + Cardinality(spans)
      BY <2>1, <2>2, <2>7
    <3>4. CASE found.closed
      BY <1>2, <2>5, <2>10, <3>2, <3>3, <3>4
    <3>5. CASE ~found.closed /\ observed.known
      <4>1. found = observed
        BY <3>5
      <4>2. Alive
        BY <3>2, <3>5, <4>1 DEF Alive
      <4>3. OpenItems' = {q.n : q \in Opening(c, e)}
        BY <2>1 DEF OpenItems
      <4>4. OpenItems \subseteq OpenItems' \union spans
        <5>1. CASE e.kind = "start"
          BY <2>4, <4>3, <5>1 DEF OpenItems
        <5>2. CASE e.kind # "start"
          BY <2>4, <2>5, <4>3, <5>2
        <5> QED
          BY <5>1, <5>2
      <4>5. OfItem(e) => e.n \in OpenItems' \union spans
        <5>1. OfItem(e) => e.kind # "start"
          BY DEF OfItem
        <5> QED
          BY <2>4, <2>5, <3>2, <4>3, <5>1
      <4> QED
        BY <2>5, <3>2, <3>3, <3>5, <4>1, <4>2, <4>4, <4>5
    <3>6. CASE ~found.closed /\ ~observed.known
      <4>1. ~observedFile.known
        BY <3>6 DEF WholeInv, RecordInv
      <4>2. e.kind = "start"
        BY <1>4, <3>6, <4>1
      <4> QED
        BY <2>13, <3>6, <4>1, <4>2 DEF CaptureRecords
    <3> QED
      BY <3>4, <3>5, <3>6
  <2> QED
    BY <2>8, <2>12, <2>13, <2>14
<1> QED
  BY <1>3, <1>4


LEMMA EventSteps ==
  ASSUME WholeInv, HandleEvent
  PROVE  WholeInv'
<1>1. PICK saved \in BOOLEAN :
         /\ Handle(sending, saved)
         /\ sending' = [sending EXCEPT !.stage =
               IF saved /\ (observed.known \/ observedFile.known
                            \/ sending.event.kind = "start")
               THEN "done" ELSE "refused"]
  BY Zenon DEF HandleEvent
<1>2. /\ tracer = "up" /\ sending.stage = "sent"
      /\ UNCHANGED <<items, responding, events, recorderClosed, failure, overdue, tracer, blocks,
                     query, answer>>
  BY DEF HandleEvent, brokerEnd, querier
<1>3. /\ observed' \in CaptureRecords /\ observedFile' \in CaptureRecords
      /\ open' \subseteq OpenRequests /\ spanBatches' \in Seq(SUBSET AllSpans)
      /\ SoundRecord(observed)' /\ SoundRecord(observedFile)'
      /\ \/ /\ UNCHANGED <<observed, observedFile, open, spanBatches>>
            /\ ~observed.known /\ ~observedFile.known /\ sending.event.kind # "start"
         \/ observed'.known /\ (saved => observedFile'.known)
      /\ Alive' => \/ observed'.count >= items
                   \/ /\ sending.event.kind # "close" /\ ~sending.incomplete
                      /\ observed.known /\ Alive
                      /\ \E spans \in SUBSET AllSpans :
                           /\ observed'.count = observed.count + Cardinality(spans)
                           /\ OpenItems \subseteq OpenItems' \union spans
                           /\ OfItem(sending.event) => sending.event.n \in OpenItems' \union spans
                   \/ /\ ~observed.known /\ ~observedFile.known /\ sending.event.kind = "start"
                      /\ observed'.count \in Nat
  BY <1>1, <1>2, Handled
<1>4. /\ sending' \in Shipments /\ sending'.event = sending.event
      /\ sending'.incomplete = sending.incomplete
      /\ sending'.stage \in {"done", "refused"}
      /\ sending'.stage = "done" =>
            saved /\ (observed.known \/ observedFile.known \/ sending.event.kind = "start")
  <2>1. sending \in Shipments
    BY DEF WholeInv, CaptureType
  <2> DEFINE s == IF saved /\ (observed.known \/ observedFile.known
                               \/ sending.event.kind = "start")
                  THEN "done" ELSE "refused"
  <2>2. s \in {"done", "refused"}
        /\ (s = "done" => saved /\ (observed.known \/ observedFile.known
                                    \/ sending.event.kind = "start"))
    OBVIOUS
  <2>3. sending' = [sending EXCEPT !.stage = s]
    BY <1>1
  <2> HIDE DEF s
  <2>4. /\ sending' \in Shipments /\ sending'.event = sending.event
        /\ sending'.incomplete = sending.incomplete /\ sending'.stage = s
    BY <2>1, <2>2, <2>3 DEF Shipments, Stages
  <2> QED
    BY <2>2, <2>4
<1>5. CaptureType'
  <2>1. OpenRequests' = OpenRequests /\ AllSpans' = AllSpans
    BY <1>2 DEF OpenRequests, AllSpans
  <2> QED
    BY <1>2, <1>3, <1>4, <2>1 DEF WholeInv, CaptureType
<1>6. EventInv'
  BY <1>2, <1>4 DEF WholeInv, EventInv, OfItem
<1>7. MarkInv'
  BY <1>2, <1>4 DEF WholeInv, MarkInv
<1>8. RecordInv' /\ AnswerInv'
  <2>1. RecordInv'
    BY <1>2, <1>3 DEF WholeInv, RecordInv
  <2> QED
    BY <1>2, <2>1 DEF WholeInv, AnswerInv, AllSpans
<1>9. CountInv'
  <2>1. ~Closes(sending)' /\ ~Closes(overdue)'
    BY <1>2, <1>4 DEF WholeInv, EventInv, Closes
  <2>2. SUFFICES ASSUME Unbroken'
                 PROVE  /\ observed'.known /\ observedFile'.known
                        /\ Alive' => observed'.count + Cardinality(Outstanding') >= items
    BY <1>2, <2>1 DEF CountInv
  <2>3. Unbroken /\ sending'.stage = "done"
    BY <1>2, <1>4, <2>2 DEF Unbroken
  <2>4. observed'.known /\ observedFile'.known
    BY <1>3, <1>4, <2>3
  <2>5. /\ Awaiting' \subseteq 1 .. items /\ OpenItems' \subseteq 1 .. items /\ items \in Nat
        /\ Outstanding' = Awaiting' \union OpenItems'
    <3>1. OpenItems' \subseteq 1 .. items /\ items \in Nat
      BY <1>3, OutstandingItems DEF OpenItems, OpenRequests, WholeInv
    <3> QED
      BY <1>2, <3>1 DEF Awaiting, Outstanding
  <2>6. IsFiniteSet(Outstanding') /\ Cardinality(Outstanding') \in Nat
    <3>1. Outstanding' \subseteq 1 .. items
      BY <2>5
    <3> QED
      BY <2>5, <3>1, SomeItems
  <2>7. observed'.count \in Nat /\ observed.count \in Nat
    BY <1>3 DEF CaptureRecords, WholeInv, CaptureType
  <2>8. ASSUME NEW n \in Awaiting
        PROVE  n \in Awaiting' \/ (OfItem(sending.event) /\ sending.event.n = n)
    BY <1>2 DEF Awaiting, OfItem
  <2>9. ASSUME Alive' PROVE observed'.count + Cardinality(Outstanding') >= items
    <3>1. CASE observed'.count >= items
      BY <2>5, <2>6, <2>7, <3>1
    <3>2. CASE /\ Alive
               /\ \E spans \in SUBSET AllSpans :
                    /\ observed'.count = observed.count + Cardinality(spans)
                    /\ OpenItems \subseteq OpenItems' \union spans
                    /\ OfItem(sending.event) => sending.event.n \in OpenItems' \union spans
      <4>1. PICK spans \in SUBSET AllSpans :
                    /\ observed'.count = observed.count + Cardinality(spans)
                    /\ OpenItems \subseteq OpenItems' \union spans
                    /\ OfItem(sending.event) => sending.event.n \in OpenItems' \union spans
        BY <3>2
      <4>2. Outstanding \subseteq Outstanding' \union spans
        BY <2>5, <2>8, <4>1 DEF Outstanding
      <4>3. IsFiniteSet(spans)
        <5>1. IsFiniteSet(AllSpans)
          BY <2>5, SomeItems, FS_AddElement DEF AllSpans
        <5> QED
          BY <5>1, FS_Subset
      <4>4. /\ Cardinality(Outstanding) \in Nat /\ Cardinality(spans) \in Nat
            /\ Cardinality(Outstanding) <= Cardinality(Outstanding') + Cardinality(spans)
        BY <2>6, <4>2, <4>3, CountedItems
      <4>5. observed.count + Cardinality(Outstanding) >= items
        BY <2>3, <3>2 DEF WholeInv, CountInv
      <4> QED
        BY <2>5, <2>6, <2>7, <4>1, <4>4, <4>5
    <3>3. CASE ~observed.known /\ ~observedFile.known /\ sending.event.kind = "start"
      <4>1. 1 .. items \subseteq Outstanding'
        <5>1. 1 .. items \subseteq Awaiting
          BY <2>3, <3>3 DEF WholeInv, CountInv
        <5> QED
          BY <2>5, <2>8, <3>3, <5>1 DEF OfItem
      <4>2. Cardinality(1 .. items) = items
        BY <2>5, FS_Interval
      <4>3. items <= Cardinality(Outstanding')
        BY <2>6, <4>1, <4>2, FS_Subset
      <4> QED
        BY <2>5, <2>6, <2>7, <4>3
    <3> QED
      BY <1>3, <2>9, <3>1, <3>2, <3>3
  <2> QED
    BY <2>4, <2>9
<1> QED
  BY <1>5, <1>6, <1>7, <1>8, <1>9 DEF WholeInv

LEMMA OverdueSteps ==
  ASSUME WholeInv, HandleOverdue
  PROVE  WholeInv'
<1>1. /\ tracer = "up" /\ overdue # Idle /\ overdue' = Idle /\ Handle(overdue, TRUE)
      /\ UNCHANGED <<items, responding, events, recorderClosed, failure, sending, tracer, blocks,
                     query, answer>>
  BY DEF HandleOverdue, brokerEnd, querier
<1>2. /\ observed' \in CaptureRecords /\ observedFile' \in CaptureRecords
      /\ open' \subseteq OpenRequests /\ spanBatches' \in Seq(SUBSET AllSpans)
      /\ SoundRecord(observed)' /\ SoundRecord(observedFile)'
      /\ \/ /\ UNCHANGED <<observed, observedFile, open, spanBatches>>
            /\ ~observed.known /\ ~observedFile.known /\ overdue.event.kind # "start"
         \/ observed'.known /\ (TRUE => observedFile'.known)
  BY <1>1, Handled
<1>3. /\ Idle \in Shipments /\ Idle.event.kind = "none"
  BY DEF Idle, Plain, Shipments, RecorderEvents, EventKinds, Stages
<1>4. CaptureType'
  <2>1. OpenRequests' = OpenRequests /\ AllSpans' = AllSpans
    BY <1>1 DEF OpenRequests, AllSpans
  <2> QED
    BY <1>1, <1>2, <1>3, <2>1 DEF WholeInv, CaptureType
<1>5. EventInv'
  BY <1>1, <1>3 DEF WholeInv, EventInv, OfItem
<1>6. MarkInv'
  BY <1>1 DEF WholeInv, MarkInv
<1>7. RecordInv'
  BY <1>1, <1>2 DEF WholeInv, RecordInv
<1>8. AnswerInv'
  BY <1>1 DEF WholeInv, AnswerInv, AllSpans
<1>9. CountInv'
  <2>1. ~Unbroken'
    BY <1>1 DEF WholeInv, MarkInv, Unbroken
  <2>2. ~Closes(sending)' /\ ~Closes(overdue)'
    BY <1>1, <1>3 DEF WholeInv, MarkInv, Closes
  <2> QED
    BY <2>1, <2>2 DEF CountInv
<1> QED
  BY <1>4, <1>5, <1>6, <1>7, <1>8, <1>9 DEF WholeInv


\* The worker stores a batch, or does not.
LEMMA PushSteps ==
  ASSUME WholeInv, PushSpans
  PROVE  WholeInv'
<1>1. PICK ok \in BOOLEAN, saved \in BOOLEAN :
         /\ observed' = [observed EXCEPT !.failed = @ \/ ~ok \/ ~saved]
         /\ observedFile' = IF saved THEN observed' ELSE observedFile
         /\ blocks' = IF ok THEN blocks \union Head(spanBatches) ELSE blocks
  BY DEF PushSpans
<1>2. /\ tracer = "up" /\ spanBatches # <<>> /\ spanBatches' = Tail(spanBatches)
      /\ UNCHANGED <<items, responding, events, recorderClosed, failure, sending, overdue, tracer,
                     open, query, answer>>
  BY DEF PushSpans, brokerEnd, recorder, querier
<1>3. /\ observed \in CaptureRecords /\ observed.known /\ SoundRecord(observed)
      /\ observedFile \in CaptureRecords /\ SoundRecord(observedFile)
      /\ spanBatches \in Seq(SUBSET AllSpans)
  BY <1>2 DEF WholeInv, CaptureType, RecordInv
<1>4. /\ observed' \in CaptureRecords /\ observed'.known /\ observed'.count = observed.count
      /\ observed'.closed = observed.closed /\ observed'.interrupted = observed.interrupted
      /\ observed.failed => observed'.failed
  <2> DEFINE t == observed.failed \/ ~ok \/ ~saved
  <2>1. t \in BOOLEAN /\ (observed.failed => t)
    BY <1>3 DEF CaptureRecords
  <2>2. observed' = [observed EXCEPT !.failed = t]
    BY <1>1
  <2> HIDE DEF t
  <2> QED
    BY <1>3, <2>1, <2>2 DEF CaptureRecords
<1>5. Head(spanBatches) \in SUBSET AllSpans /\ Tail(spanBatches) \in Seq(SUBSET AllSpans)
  BY <1>2, <1>3, EmptySeq, HeadTailProperties
<1>6. CaptureType'
  <2>1. OpenRequests' = OpenRequests /\ AllSpans' = AllSpans
    BY <1>2 DEF OpenRequests, AllSpans
  <2>2. blocks' \subseteq AllSpans /\ observedFile' \in CaptureRecords
    BY <1>1, <1>3, <1>4, <1>5 DEF WholeInv, CaptureType
  <2> QED
    BY <1>2, <1>4, <1>5, <2>1, <2>2 DEF WholeInv, CaptureType
<1>7. EventInv' /\ MarkInv' /\ AnswerInv'
  BY <1>2 DEF WholeInv, EventInv, OfItem, MarkInv, AnswerInv, AllSpans
<1>8. RecordInv'
  <2>1. SoundRecord(observed)'
    BY <1>2, <1>3, <1>4 DEF SoundRecord
  <2>2. SoundRecord(observedFile)'
    <3>1. CASE observedFile' = observed'
      BY <2>1, <3>1 DEF SoundRecord
    <3>2. CASE observedFile' = observedFile
      BY <1>2, <1>3, <3>2 DEF SoundRecord
    <3> QED
      BY <1>1, <3>1, <3>2
  <2> QED
    BY <1>2, <1>4, <2>1, <2>2 DEF RecordInv
<1>9. CountInv'
  <2>1. /\ OpenItems' = OpenItems /\ Outstanding' = Outstanding /\ (Unbroken' <=> Unbroken)
        /\ (Closes(sending)' <=> Closes(sending)) /\ (Closes(overdue)' <=> Closes(overdue))
        /\ Alive' => Alive
    BY <1>2, <1>3, <1>4 DEF OpenItems, Outstanding, Awaiting, OfItem, Unbroken, Closes, Alive
  <2>2. observed.known /\ observed'.known /\ (Unbroken => observedFile.known)
    BY <1>3, <1>4 DEF WholeInv, CountInv
  <2>3. observedFile.known => observedFile'.known
    BY <1>1, <1>4
  <2>4. Unbroken /\ Alive => observed.count + Cardinality(Outstanding) >= items
    BY DEF WholeInv, CountInv
  <2>5. (Closes(sending) \/ Closes(overdue)) /\ Alive =>
           observed.count + Cardinality(OpenItems) >= items
    BY DEF WholeInv, CountInv
  <2>6. Unbroken' /\ Alive' => observed'.count + Cardinality(Outstanding') >= items'
    BY <1>2, <1>4, <2>1, <2>4
  <2>7. (Closes(sending)' \/ Closes(overdue)') /\ Alive' =>
           observed'.count + Cardinality(OpenItems') >= items'
    BY <1>2, <1>4, <2>1, <2>5
  <2>8. Unbroken' => observedFile'.known
    BY <2>1, <2>2, <2>3
  <2> QED
    BY <2>2, <2>6, <2>7, <2>8 DEF CountInv
<1> QED
  BY <1>6, <1>7, <1>8, <1>9 DEF WholeInv

LEMMA SilenceSteps ==
  ASSUME WholeInv, Silence
  PROVE  WholeInv'
<1> DEFINE last  == Plain("close")
           spans == Spans(observed, last)
           sub   == Submits(observed, spans)
<1>1. /\ observed.known /\ observedFile' = observed' /\ open' = {}
      /\ observed' = [sub EXCEPT !.failed = TRUE, !.closed = TRUE, !.interrupted = TRUE]
      /\ spanBatches' = Queued(spans) /\ tracer = "up"
      /\ UNCHANGED <<items, responding, events, recorderClosed, failure, sending, overdue, tracer,
                     blocks, query, answer>>
  BY DEF Silence, brokerEnd, recorder, querier
<1>2. last \in RecorderEvents /\ ~OfItem(last)
  BY DEF Plain, RecorderEvents, EventKinds, OfItem
<1>3. observed \in CaptureRecords /\ spanBatches \in Seq(SUBSET AllSpans)
  BY DEF WholeInv, CaptureType
<1> HIDE DEF last
<1>4. spans \subseteq AllSpans
  BY <1>2, <1>3, OpenedOrEnded DEF WholeInv
<1>5. Cardinality(spans) \in Nat
  <2>1. IsFiniteSet(AllSpans)
    BY OutstandingItems, SomeItems, FS_AddElement DEF AllSpans, WholeInv
  <2> QED
    BY <1>4, <2>1, FS_Subset, FS_CardinalityType
<1> HIDE DEF spans
<1>6. sub \in CaptureRecords /\ sub.known
  BY <1>1, <1>3, <1>5, SubmittedRecord
<1> HIDE DEF sub
<1>7. observed' \in CaptureRecords /\ observed'.known /\ observed'.failed
  BY <1>1, <1>6 DEF CaptureRecords
<1>8. spanBatches' \in Seq(SUBSET AllSpans)
  <2>1. Append(spanBatches, spans) \in Seq(SUBSET AllSpans)
    BY <1>3, <1>4, AppendProperties
  <2> QED
    BY <1>1, <1>3, <2>1 DEF Queued
<1>9. CaptureType'
  <2>1. OpenRequests' = OpenRequests /\ AllSpans' = AllSpans
    BY <1>1 DEF OpenRequests, AllSpans
  <2> QED
    BY <1>1, <1>7, <1>8, <2>1 DEF WholeInv, CaptureType
<1>10. EventInv' /\ MarkInv' /\ AnswerInv'
  BY <1>1 DEF WholeInv, EventInv, OfItem, MarkInv, AnswerInv, AllSpans
<1>11. RecordInv'
  BY <1>1, <1>7 DEF RecordInv, SoundRecord
<1>12. CountInv'
  BY <1>1, <1>7 DEF CountInv, Alive
<1> QED
  BY <1>9, <1>10, <1>11, <1>12 DEF WholeInv

\* The service dies, and another finds the records.
LEMMA DieSteps ==
  ASSUME WholeInv, TracerDies
  PROVE  WholeInv'
<1>1. /\ tracer' = "down" /\ observed' = Unknown /\ open' = {} /\ spanBatches' = <<>>
      /\ overdue' = Idle /\ query' = NoAnswer
      /\ sending' = IF sending.stage = "sent" THEN [sending EXCEPT !.stage = "refused"]
                    ELSE sending
      /\ UNCHANGED <<items, responding, events, recorderClosed, failure, observedFile, blocks,
                     answer>>
  BY DEF TracerDies, brokerEnd
<1>2. /\ Idle \in Shipments /\ Idle.event.kind = "none" /\ ~OfItem(Idle.event)
      /\ Unknown \in CaptureRecords /\ ~Unknown.known /\ ~Unknown.closed /\ ~Unknown.interrupted
      /\ NoAnswer.spans = {} /\ NoAnswer = [spans |-> NoAnswer.spans, whole |-> FALSE]
  BY DEF Idle, Plain, Shipments, RecorderEvents, EventKinds, Stages, OfItem, Unknown,
         CaptureRecords, NoAnswer
<1>3. /\ sending' \in Shipments /\ sending'.event = sending.event
      /\ sending'.incomplete = sending.incomplete
      /\ sending'.stage # "sent"
      /\ sending'.stage = sending.stage \/ (sending.stage = "sent" /\ sending'.stage = "refused")
  <2>1. sending \in Shipments
    BY DEF WholeInv, CaptureType
  <2>2. CASE sending.stage = "sent"
    BY <1>1, <2>1, <2>2 DEF Shipments, Stages
  <2>3. CASE sending.stage # "sent"
    BY <1>1, <2>1, <2>3
  <2> QED
    BY <2>2, <2>3
<1>4. CaptureType'
  <2>1. AllSpans' = AllSpans
    BY <1>1 DEF AllSpans
  <2>2. <<>> \in Seq(SUBSET AllSpans)
    OBVIOUS
  <2> QED
    BY <1>1, <1>2, <1>3, <2>1, <2>2 DEF WholeInv, CaptureType
<1>5. EventInv' /\ MarkInv' /\ AnswerInv'
  BY <1>1, <1>2, <1>3 DEF WholeInv, EventInv, OfItem, MarkInv, AnswerInv, AllSpans
<1>6. RecordInv'
  BY <1>1, <1>2 DEF WholeInv, RecordInv, SoundRecord
<1>7. CountInv'
  <2>1. ~Alive' /\ ~observed'.known
    BY <1>1, <1>2 DEF Alive
  <2>2. Unbroken' => Unbroken /\ sending' = sending
    BY <1>1, <1>3 DEF Unbroken
  <2>3. ASSUME Unbroken', ~observedFile'.known PROVE 1 .. items' \subseteq Awaiting'
    <3>1. 1 .. items \subseteq Awaiting
      BY <1>1, <2>2, <2>3 DEF WholeInv, CountInv
    <3>2. Awaiting' = Awaiting
      BY <1>1, <2>2, <2>3 DEF Awaiting, OfItem
    <3> QED
      BY <1>1, <3>1, <3>2
  <2> QED
    BY <2>1, <2>3 DEF CountInv
<1> QED
  BY <1>4, <1>5, <1>6, <1>7 DEF WholeInv

LEMMA StartSteps ==
  ASSUME WholeInv, TracerStarts
  PROVE  WholeInv'
<1>1. /\ tracer = "down" /\ tracer' = "up" /\ ~observed.known
      /\ observedFile' = IF observedFile.known /\ ~observedFile.closed
                         THEN [observedFile EXCEPT !.failed = TRUE, !.closed = TRUE,
                                                   !.interrupted = TRUE]
                         ELSE observedFile
      /\ UNCHANGED <<items, responding, events, recorderClosed, failure, sending, overdue,
                     observed, open, spanBatches, blocks, query, answer>>
  BY DEF TracerStarts, brokerEnd, recorder, querier, WholeInv, RecordInv
<1>2. observedFile \in CaptureRecords /\ SoundRecord(observedFile)
  BY DEF WholeInv, CaptureType, RecordInv
<1>3. /\ observedFile' \in CaptureRecords /\ SoundRecord(observedFile)'
      /\ observedFile'.known = observedFile.known
      /\ observedFile'.known => observedFile'.closed
  <2>1. CASE observedFile.known /\ ~observedFile.closed
    <3>1. /\ observedFile' \in CaptureRecords /\ observedFile'.known /\ observedFile'.failed
          /\ observedFile'.closed
      BY <1>1, <1>2, <2>1 DEF CaptureRecords
    <3> QED
      BY <2>1, <3>1 DEF SoundRecord
  <2>2. CASE ~(observedFile.known /\ ~observedFile.closed)
    BY <1>1, <1>2, <2>2 DEF SoundRecord
  <2> QED
    BY <2>1, <2>2
<1>4. CaptureType'
  BY <1>1, <1>3 DEF WholeInv, CaptureType, AllSpans, OpenRequests
<1>5. EventInv' /\ MarkInv' /\ AnswerInv'
  BY <1>1 DEF WholeInv, EventInv, OfItem, MarkInv, AnswerInv, AllSpans
<1>6. RecordInv'
  <2>1. SoundRecord(observed)'
    BY <1>1 DEF WholeInv, RecordInv, SoundRecord
  <2> QED
    BY <1>1, <1>3, <2>1 DEF WholeInv, RecordInv
<1>7. CountInv'
  <2>1. ~Alive' /\ (Unbroken' <=> Unbroken) /\ Awaiting' = Awaiting
    BY <1>1 DEF Alive, Unbroken, Awaiting, OfItem
  <2> QED
    BY <1>1, <1>3, <2>1 DEF WholeInv, CountInv
<1> QED
  BY <1>4, <1>5, <1>6, <1>7 DEF WholeInv

\* A query reads the store, then the record.
LEMMA QuerySteps ==
  ASSUME WholeInv, ReadStore \/ AnswerQuery
  PROVE  WholeInv'
<1>1. UNCHANGED <<items, responding, events, recorderClosed, failure, sending, overdue, tracer,
                  observed, observedFile, open, spanBatches, blocks>>
  BY DEF ReadStore, AnswerQuery, brokerEnd, recorder, tracerEnd
<1>2. /\ query \in [spans : SUBSET AllSpans, whole : {FALSE}] /\ blocks \subseteq AllSpans
      /\ NoAnswer = [spans |-> {}, whole |-> FALSE]
  <2>1. /\ query = [spans |-> query.spans, whole |-> FALSE] /\ query.spans \in SUBSET AllSpans
        /\ blocks \subseteq AllSpans
    BY DEF WholeInv, CaptureType
  <2>2. ASSUME NEW x \in SUBSET AllSpans
        PROVE  [spans |-> x, whole |-> FALSE] \in [spans : SUBSET AllSpans, whole : {FALSE}]
    OBVIOUS
  <2> QED
    BY <2>1, <2>2, Zenon DEF NoAnswer
<1>3. query' \in [spans : SUBSET AllSpans, whole : {FALSE}]
  <2>1. CASE ReadStore
    <3>1. query' = [NoAnswer EXCEPT !.spans = blocks]
      BY <2>1 DEF ReadStore
    <3> QED
      BY <1>2, <3>1
  <2>2. CASE AnswerQuery
    BY <1>2, <2>2 DEF AnswerQuery
  <2> QED
    BY <2>1, <2>2
<1>4. CaptureType'
  <2>1. OpenRequests' = OpenRequests /\ AllSpans' = AllSpans
    BY <1>1 DEF OpenRequests, AllSpans
  <2>2. query'.spans \subseteq AllSpans /\ query' = [spans |-> query'.spans, whole |-> FALSE]
    BY <1>3
  <2> QED
    BY <1>1, <2>1, <2>2 DEF WholeInv, CaptureType
<1>5. EventInv' /\ MarkInv' /\ RecordInv'
  BY <1>1 DEF WholeInv, EventInv, OfItem, MarkInv, RecordInv, SoundRecord
<1>6. CountInv'
  BY <1>1 DEF WholeInv, CountInv, Alive, Unbroken, Outstanding, Awaiting, OpenItems, Closes, OfItem
<1>7. AnswerInv'
  <2>1. CASE answer' = answer
    BY <1>1, <2>1 DEF WholeInv, AnswerInv, AllSpans
  <2>2. CASE AnswerQuery
    <3> DEFINE c == IF observed.known THEN observed ELSE observedFile
    <3>1. answer' = IF Cardinality(query.spans) < c.count THEN NoAnswer
                    ELSE [query EXCEPT !.whole = c.closed /\ ~c.interrupted /\ ~c.failed]
      BY <2>2 DEF AnswerQuery
    <3>2. c \in CaptureRecords /\ SoundRecord(c)
      BY DEF WholeInv, CaptureType, RecordInv
    <3> HIDE DEF c
    <3>3. CASE Cardinality(query.spans) < c.count
      BY <1>2, <3>1, <3>3 DEF AnswerInv
    <3>4. CASE ~(Cardinality(query.spans) < c.count)
      <4> DEFINE w == c.closed /\ ~c.interrupted /\ ~c.failed
      <4>1. w \in BOOLEAN /\ answer' = [query EXCEPT !.whole = w]
        BY <3>1, <3>2, <3>4 DEF CaptureRecords
      <4>2. w => recorderClosed /\ c.count >= items + 1
        BY <3>2 DEF SoundRecord
      <4> HIDE DEF w
      <4>3. answer'.whole = w /\ answer'.spans = query.spans
        BY <1>2, <4>1
      <4>4. ASSUME w PROVE AllSpans \subseteq query.spans
        <5>1. /\ IsFiniteSet(1 .. items) /\ Cardinality(1 .. items) = items
              /\ items \in Nat /\ items <= MaxItems /\ MaxItems \in Nat
          BY OutstandingItems, FS_Interval, CaptureAssumption DEF WholeInv, CaptureAssumption
        <5>2. RootSpan \notin 1 .. items
          BY <5>1 DEF RootSpan
        <5>3. IsFiniteSet(AllSpans) /\ Cardinality(AllSpans) = items + 1
          BY <5>1, <5>2, FS_AddElement DEF AllSpans
        <5>4. /\ query.spans \in SUBSET AllSpans /\ c.count \in Nat
          BY <1>2, <3>2 DEF CaptureRecords
        <5>5. /\ Cardinality(query.spans) \in Nat
              /\ Cardinality(query.spans) <= Cardinality(AllSpans)
              /\ Cardinality(AllSpans) = Cardinality(query.spans) => AllSpans = query.spans
          BY <5>3, <5>4, FS_Subset, FS_CardinalityType
        <5>6. Cardinality(query.spans) = items + 1
          BY <3>4, <4>2, <4>4, <5>1, <5>3, <5>4, <5>5
        <5> QED
          BY <5>3, <5>5, <5>6
      <4> QED
        BY <1>1, <4>2, <4>3, <4>4 DEF AnswerInv, AllSpans
    <3> QED
      BY <3>3, <3>4
  <2>3. ReadStore => answer' = answer
    BY DEF ReadStore
  <2> QED
    BY <2>1, <2>2, <2>3
<1> QED
  BY <1>4, <1>5, <1>6, <1>7 DEF WholeInv

LEMMA ObserveSteps ==
  ASSUME WholeInv, Observe
  PROVE  WholeInv'
<1>1. items \in Nat /\ responding \subseteq 1 .. items /\ items <= MaxItems /\ MaxItems \in Nat
  BY CaptureAssumption DEF WholeInv, CaptureType, CaptureAssumption
<1>2. CASE ObserveRequest
  <2>1. PICK execution \in BOOLEAN :
           Record([kind |-> "request", n |-> items + 1, yes |-> execution])
    BY <1>2 DEF ObserveRequest
  <2> DEFINE event == [kind |-> "request", n |-> items + 1, yes |-> execution]
  <2>2. event \in RecorderEvents /\ event.kind = "request" /\ event.n = items + 1
    BY <1>1 DEF RecorderEvents, EventKinds
  <2>3. items < MaxItems /\ items' = items + 1 /\ responding' = responding \union {items + 1}
    BY <1>2 DEF ObserveRequest
  <2>4. responding' \subseteq 1 .. items'
    BY <1>1, <2>3
  <2>5. OfItem(event) /\ event.kind # "close" /\ Record(event)
    BY <2>1, <2>2 DEF OfItem
  <2> HIDE DEF event
  <2> QED
    BY <2>2, <2>3, <2>4, <2>5, RecordSteps
<1>3. CASE ObserveResponse
  <2>1. PICK n \in responding : \E success \in BOOLEAN :
           /\ responding' = responding \ {n}
           /\ Record([kind |-> "response", n |-> n, yes |-> success])
    BY <1>3 DEF ObserveResponse
  <2>2. PICK success \in BOOLEAN :
           /\ responding' = responding \ {n}
           /\ Record([kind |-> "response", n |-> n, yes |-> success])
    BY <2>1
  <2> DEFINE event == [kind |-> "response", n |-> n, yes |-> success]
  <2>3. event \in RecorderEvents /\ event.kind = "response"
    BY <1>1 DEF RecorderEvents, EventKinds
  <2>4. items' = items /\ responding' \subseteq 1 .. items'
    BY <1>1, <1>3, <2>2 DEF ObserveResponse
  <2>5. ~OfItem(event) /\ event.kind # "close" /\ Record(event)
    BY <2>2, <2>3 DEF OfItem
  <2> HIDE DEF event
  <2> QED
    BY <2>3, <2>4, <2>5, RecordSteps
<1>4. CASE ObserveRecord
  <2> DEFINE event == [kind |-> "record", n |-> items + 1, yes |-> FALSE]
  <2>1. event \in RecorderEvents /\ event.kind = "record" /\ event.n = items + 1
    BY <1>1 DEF RecorderEvents, EventKinds
  <2>2. items < MaxItems /\ items' = items + 1 /\ responding' = responding /\ Record(event)
    BY <1>4 DEF ObserveRecord
  <2>3. responding' \subseteq 1 .. items'
    BY <1>1, <2>2
  <2>4. OfItem(event) /\ event.kind # "close"
    BY <2>1 DEF OfItem
  <2> HIDE DEF event
  <2> QED
    BY <2>1, <2>2, <2>3, <2>4, RecordSteps
<1>5. CASE ObserveStop
  <2> DEFINE event == Plain("stopped")
  <2>1. event \in RecorderEvents /\ event.kind = "stopped"
    BY DEF Plain, RecorderEvents, EventKinds
  <2>2. items' = items /\ responding' = responding /\ Record(event)
    BY <1>5 DEF ObserveStop
  <2>3. responding' \subseteq 1 .. items'
    BY <1>1, <2>2
  <2>4. ~OfItem(event) /\ event.kind # "close"
    BY <2>1 DEF OfItem
  <2> HIDE DEF event
  <2> QED
    BY <2>1, <2>2, <2>3, <2>4, RecordSteps
<1>6. CASE CloseRecorder
  BY <1>6, CloseSteps
<1> QED
  BY <1>2, <1>3, <1>4, <1>5, <1>6 DEF Observe

LEMMA CaptureSteps ==
  ASSUME WholeInv, [CaptureNext]_captureVars
  PROVE  WholeInv'
<1>1. CASE UNCHANGED captureVars
  BY <1>1 DEF captureVars, WholeInv, CaptureType, EventInv, MarkInv, RecordInv, SoundRecord,
              CountInv, AnswerInv, AllSpans, OpenRequests, OfItem, Alive, Unbroken, Outstanding,
              Awaiting, OpenItems, Closes
<1> QED
  BY <1>1, ObserveSteps, TakeSteps, AnsweredSteps, FailSteps, EventSteps, OverdueSteps,
     PushSteps, SilenceSteps, DieSteps, StartSteps, QuerySteps DEF CaptureNext

\* A trace whose record says that it is finished and has not failed is given out whole,
\* whatever was dropped, given up or restarted between the broker and the store.
THEOREM FinishedTraceIsWhole == CaptureSpec => []FinishedIsWhole
<1>1. WholeInv => FinishedIsWhole
  BY DEF WholeInv, AnswerInv, AllSpans, FinishedIsWhole
<1> QED
  BY <1>1, CaptureStart, CaptureSteps, PTL DEF CaptureSpec

================================================================================
