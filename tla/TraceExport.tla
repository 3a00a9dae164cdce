---------------------------- MODULE TraceExport ---------------------------
(***************************************************************************)
(* The way of a capture's span to the trace stores: the broker's bounded   *)
(* queue (telemetry/queue.go, telemetry/trace.go, broker/telemetry.go),    *)
(* the exporter that posts its batches (tracing/spans.go), and the service *)
(* all sessions share, which hands them to the local store and to a remote *)
(* one (tracing/service.go). The stores are external.                      *)
(*                                                                         *)
(* One run is traced. Its captures are numbered in the order in which they *)
(* are made; the span after the last stands for those of the session and   *)
(* of the threads, which end when the session is closed and have no        *)
(* status. The spans of the program's and of the debugger's trace take the *)
(* same way, and are one trace here.                                       *)
(***************************************************************************)
EXTENDS Naturals, SequencesExt, FiniteSetsExt

CONSTANTS
    MaxCaptures,
    QueueLimit,     \* spans in the queue: 256
    BatchLimit,     \* spans in a batch: 64
    ServiceLimit,   \* batches in the service's queue of a store: 64
    MaxExportFaults \* bound: failed writes and pushes, lost answers, deaths of the service

ExportAssumption ==
    /\ MaxCaptures \in Nat /\ QueueLimit \in Nat \ {0} /\ BatchLimit \in Nat \ {0}
    /\ ServiceLimit \in Nat \ {0} /\ MaxExportFaults \in Nat
ASSUME ExportAssumption

VARIABLES
    made,           \* captures made so far
    traceClosed,    \* telemetry.Session.closed
    spanQueue,      \* queue.items
    queueClosed, queueDone,
    batch,          \* what queue.run has taken out and not yet accounted for
    spanStates,     \* queue.states
    exporter,       \* SpanExporter: [endpoint: known, incomplete]
    post,           \* the request it waits for, under its mutex
    latePost,       \* a request it has given up, not yet served
    service,        \* "up", "stopping" or "down"
    traced,         \* the service's record of the run in memory
    tracedFile,     \* the record on disk
    destinations,   \* configured stores
    toStore,        \* batches, and barriers, in the queue of each store
    stored,
    exportFaults

exportVars == <<made, traceClosed, spanQueue, queueClosed, queueDone, batch, spanStates,
                exporter, post, latePost, service, traced, tracedFile, destinations,
                toStore, stored, exportFaults>>
brokerSide == <<made, traceClosed, spanQueue, queueClosed, queueDone, batch, spanStates>>
serviceSide == <<service, traced, tracedFile, toStore, stored>>

Captures == 1 .. MaxCaptures
LastSpan == MaxCaptures + 1
Stores == {"local", "remote"}
Barrier == {0}
Passing(d) == IF d = "local" THEN "local passing" ELSE "remote passing"
NoPost == [kind |-> "none", spans |-> {}, stage |-> "none", incomplete |-> FALSE]
NoRecord == [known |-> FALSE, closed |-> FALSE, interrupted |-> FALSE,
             status |-> [d \in Stores |-> "none"]]

ExportInit ==
    /\ made = 0 /\ traceClosed = FALSE
    /\ spanQueue = <<>> /\ queueClosed = FALSE /\ queueDone = FALSE /\ batch = {}
    /\ spanStates = [s \in Captures |-> "none"]
    /\ exporter = [endpoint |-> TRUE, incomplete |-> FALSE]
    /\ post = NoPost /\ latePost = NoPost
    /\ service = "up" /\ traced = NoRecord /\ tracedFile = NoRecord
    /\ destinations \in {{"local"}, Stores}
    /\ toStore = [d \in Stores |-> <<>>] /\ stored = [d \in Stores |-> {}]
    /\ exportFaults = 0

ExportFault(happens) ==
    /\ happens => exportFaults < MaxExportFaults
    /\ exportFaults' = IF happens THEN exportFaults + 1 ELSE exportFaults

-----------------------------------------------------------------------------
(* The queue. *)

WithStates(spans, status) ==
    [s \in Captures |-> IF s \in spans THEN status ELSE spanStates[s]]

\* OnEnd, under the queue's mutex. The queue of a closed session takes nothing.
OnEnd(s) ==
    IF queueClosed \/ Len(spanQueue) >= QueueLimit
    THEN /\ spanStates' = WithStates({s}, "failed")
         /\ UNCHANGED spanQueue
    ELSE /\ spanQueue' = Append(spanQueue, s)
         /\ spanStates' = WithStates({s}, "queued")

\* A capture of a session that is not closed ends its span at once.
Capture ==
    /\ made < MaxCaptures
    /\ made' = made + 1
    /\ IF traceClosed
       THEN /\ spanStates' = WithStates({made + 1}, "failed")
            /\ UNCHANGED spanQueue
       ELSE OnEnd(made + 1)
    /\ UNCHANGED <<traceClosed, queueClosed, queueDone, batch, exporter, post, latePost,
                   serviceSide, destinations, exportFaults>>

\* Session.Close ends the remaining spans, then shuts the queue down.
CloseTrace ==
    /\ ~traceClosed
    /\ traceClosed' = TRUE
    /\ OnEnd(LastSpan)
    /\ UNCHANGED <<made, queueClosed, queueDone, batch, exporter, post, latePost,
                   serviceSide, destinations, exportFaults>>

ShutQueue ==
    /\ traceClosed /\ ~queueClosed
    /\ queueClosed' = TRUE
    /\ UNCHANGED <<made, traceClosed, spanQueue, queueDone, batch, spanStates, exporter,
                   post, latePost, serviceSide, destinations, exportFaults>>

\* queue.run: a batch is what there is, at most a batch's worth.
Drain ==
    /\ spanQueue # <<>> /\ batch = {}
    /\ \E n \in 1 .. BatchLimit :
          /\ n <= Len(spanQueue)
          /\ batch' = ToSet(SubSeq(spanQueue, 1, n))
          /\ spanQueue' = SubSeq(spanQueue, n + 1, Len(spanQueue))
    /\ UNCHANGED <<made, traceClosed, queueClosed, queueDone, spanStates, exporter, post,
                   latePost, serviceSide, destinations, exportFaults>>

\* run ends with the closed queue; Shutdown then closes the exporter, unless its three
\* seconds are over.
QueueEnds ==
    /\ queueClosed /\ ~queueDone /\ spanQueue = <<>> /\ batch = {} /\ post = NoPost
    /\ queueDone' = TRUE
    /\ \E inTime \in BOOLEAN :
          post' = IF inTime THEN [NoPost EXCEPT !.kind = "close", !.stage = "new"] ELSE post
    /\ UNCHANGED <<made, traceClosed, spanQueue, queueClosed, batch, spanStates, exporter,
                   latePost, serviceSide, destinations, exportFaults>>

-----------------------------------------------------------------------------
(* The exporter. *)

\* ExportSpans; a batch and a heartbeat wait for each other.
ExportSpans ==
    /\ post = NoPost /\ batch # {}
    /\ post' = [NoPost EXCEPT !.kind = "batch", !.spans = batch, !.stage = "new"]
    /\ UNCHANGED <<brokerSide, exporter, latePost, serviceSide, destinations, exportFaults>>

\* The heartbeat of Start, for as long as the exporter is not shut down.
Beat ==
    /\ post = NoPost /\ ~queueDone
    /\ post' = [NoPost EXCEPT !.kind = "beat", !.stage = "new"]
    /\ UNCHANGED <<brokerSide, exporter, latePost, serviceSide, destinations, exportFaults>>

\* MUTANT of Account: a batch that failed is dropped before its spans are marked.
AccountSuccess(ok) ==
    /\ batch' = batch \ post.spans
    /\ spanStates' = IF ok THEN WithStates(post.spans, "sent") ELSE spanStates
    /\ post' = NoPost
    /\ UNCHANGED <<made, traceClosed, spanQueue, queueClosed, queueDone>>

\* What the outcome of a request means for its spans.
Account(ok) ==
    /\ batch' = batch \ post.spans
    /\ spanStates' = WithStates(post.spans, IF ok THEN "sent" ELSE "failed")
    /\ post' = NoPost
    /\ UNCHANGED <<made, traceClosed, spanQueue, queueClosed, queueDone>>

\* An unknown endpoint is that of the running service, or of one that is started.
Send ==
    /\ post.stage = "new"
    /\ exporter.endpoint \/ service = "up"
    /\ exporter' = [exporter EXCEPT !.endpoint = TRUE]
    /\ post' = [post EXCEPT !.stage = "sent", !.incomplete = exporter.incomplete]
    /\ UNCHANGED <<brokerSide, latePost, serviceSide, destinations, exportFaults>>

\* There is no answer, in time or at all. Once given up, a request whose service lives
\* may still be served.
GiveUp ==
    /\ post.stage \notin {"none", "refused"}
    /\ ExportFault(TRUE)
    /\ exporter' = [endpoint |-> FALSE, incomplete |-> TRUE]
    /\ latePost' = IF post.stage = "sent" /\ service = "up" THEN post ELSE latePost
    /\ Account(FALSE)
    /\ UNCHANGED <<serviceSide, destinations>>

\* An answer that tells of a failure is an error as well, a refusal is like no answer.
Answer ==
    /\ post.stage \in {"done", "failing", "refused"}
    /\ exporter' = IF post.stage = "refused"
                   THEN [endpoint |-> FALSE, incomplete |-> TRUE] ELSE exporter
    /\ Account(post.stage = "done")
    /\ UNCHANGED <<latePost, serviceSide, destinations, exportFaults>>

-----------------------------------------------------------------------------
(* The service. *)

\* load: what is in memory, else what is on disk.
Loaded == IF traced.known THEN traced ELSE tracedFile

Marked(c, ds) == [c EXCEPT !.status = [d \in Stores |-> IF d \in ds THEN "failed" ELSE @[d]]]
MarkIncomplete(c) == Marked(c, destinations \union {d \in Stores : c.status[d] # "none"})

\* The stores whose queue has no room.
Full == {d \in destinations : Len(toStore[d]) >= ServiceLimit}

\* submit puts a batch into the queue of every store, or marks the record.
Submitted(spans) ==
    [d \in Stores |-> IF spans # {} /\ d \in destinations \ Full
                      THEN Append(toStore[d], spans) ELSE toStore[d]]

Over(c) == c.closed /\ ~c.interrupted

\* spanBatch, under the engine's mutex: the record as it is after p.
Opened(c, p) ==
    LET opened == [c EXCEPT !.known = TRUE, !.closed = (p.kind = "close"),
                            !.interrupted = FALSE]
        marked == IF p.incomplete THEN MarkIncomplete(opened) ELSE opened
    IN  Marked(marked, IF p.spans = {} THEN {} ELSE Full)

\* The record is the answer.
Verdict(c) == IF \E d \in Stores : c.status[d] = "failed" THEN "failing" ELSE "done"

SpanBatch(p, saved) ==
    /\ traced' = Opened(Loaded, p)
    /\ toStore' = Submitted(p.spans)
    /\ tracedFile' = IF saved THEN Opened(Loaded, p) ELSE tracedFile

\* A request of the exporter is admitted. Batches and the close are then flushed.
Serve ==
    /\ post.stage = "sent" /\ service = "up"
    /\ IF Over(Loaded)
       THEN /\ post' = [post EXCEPT !.stage =
                          IF post.kind = "close" THEN "local" ELSE "refused"]
            /\ traced' = Loaded
            /\ UNCHANGED <<toStore, tracedFile, exportFaults>>
       ELSE \E saved \in BOOLEAN :
            /\ ExportFault(~saved)
            /\ SpanBatch(post, saved)
            /\ post' = [post EXCEPT !.stage = IF ~saved THEN "refused"
                                              ELSE IF post.kind = "beat" THEN Verdict(traced')
                                              ELSE "local"]
    /\ UNCHANGED <<brokerSide, exporter, latePost, service, stored, destinations>>

ServeLate ==
    /\ latePost # NoPost /\ service = "up"
    /\ latePost' = NoPost
    /\ IF Over(Loaded)
       THEN UNCHANGED <<traced, toStore, tracedFile, exportFaults>>
       ELSE \E saved \in BOOLEAN : ExportFault(~saved) /\ SpanBatch(latePost, saved)
    /\ UNCHANGED <<brokerSide, exporter, post, service, stored, destinations>>

\* MUTANT of NextStage: the flush is over when the local store has it.
NextStageLocal(stage) == Verdict(traced)

NextStage(stage) ==
    IF stage = "local passing" /\ "remote" \in destinations
    THEN "remote" ELSE Verdict(traced)

\* flush: a barrier is put behind what is queued for a store, and waited for.
PutBarrier ==
    /\ service # "down"
    /\ \E d \in destinations \ Full :
          /\ post.stage = d
          /\ toStore' = [toStore EXCEPT ![d] = Append(@, Barrier)]
          /\ post' = [post EXCEPT !.stage = Passing(d)]
    /\ UNCHANGED <<brokerSide, exporter, latePost, service, traced, tracedFile, stored,
                   destinations, exportFaults>>

\* Barriers of requests that were given up are in front of the last one.
Passed ==
    /\ service # "down"
    /\ \E d \in destinations :
          /\ post.stage = Passing(d)
          /\ ~Contains(toStore[d], Barrier)
          /\ post' = [post EXCEPT !.stage = NextStage(post.stage)]
    /\ UNCHANGED <<brokerSide, exporter, latePost, serviceSide, destinations, exportFaults>>

\* A worker pushes a batch. A store that reports a failure may have taken it. Once a
\* batch has failed, or its outcome could not be saved, the record says so for good.
Push ==
    \E d \in destinations :
       /\ service # "down" /\ toStore[d] # <<>>
       /\ toStore' = [toStore EXCEPT ![d] = Tail(@)]
       /\ IF Head(toStore[d]) = Barrier
          THEN UNCHANGED <<stored, traced, tracedFile, exportFaults>>
          ELSE \E ok, taken, saved \in BOOLEAN :
               /\ ok => taken
               /\ ExportFault(~ok \/ ~saved)
               /\ stored' = IF taken THEN [stored EXCEPT ![d] = @ \union Head(toStore[d])]
                            ELSE stored
               /\ LET c == [traced EXCEPT !.status[d] =
                               IF ok /\ @ # "failed" THEN "accepted" ELSE "failed"]
                  IN  /\ traced' = IF saved THEN c ELSE Marked(c, {"local"})
                      /\ tracedFile' = IF saved THEN c ELSE tracedFile
       /\ UNCHANGED <<brokerSide, exporter, post, latePost, service, destinations>>

\* interruptCapture of a shared session: its producer was silent for 90 seconds.
Interrupted(c) ==
    IF c.known /\ ~c.closed
    THEN [MarkIncomplete(c) EXCEPT !.closed = TRUE, !.interrupted = TRUE] ELSE c

InterruptCapture ==
    /\ service = "up" /\ traced.known /\ ~traced.closed
    /\ ExportFault(TRUE)
    /\ traced' = Interrupted(traced) /\ tracedFile' = Interrupted(traced)
    /\ UNCHANGED <<brokerSide, exporter, post, latePost, service, toStore, stored,
                   destinations>>

\* The service is told to end, or has had nothing to do: no request is admitted, what
\* is open is interrupted, the queues are emptied.
StopService ==
    /\ service = "up" /\ ExportFault(TRUE)
    /\ service' = "stopping"
    /\ traced' = Interrupted(traced) /\ tracedFile' = Interrupted(Loaded)
    /\ latePost' = NoPost
    /\ UNCHANGED <<brokerSide, exporter, post, toStore, stored, destinations>>

\* Its connections are cut.
ServiceGone ==
    /\ \/ service = "stopping" /\ (\A d \in Stores : toStore[d] = <<>>)
          /\ UNCHANGED exportFaults
       \/ service # "down" /\ ExportFault(TRUE)
    /\ service' = "down"
    /\ traced' = NoRecord /\ latePost' = NoPost
    /\ toStore' = [d \in Stores |-> <<>>]
    /\ post' = IF post.stage \in {"none", "new"} THEN post
               ELSE [post EXCEPT !.stage = "refused"]
    /\ UNCHANGED <<brokerSide, exporter, tracedFile, stored, destinations>>

\* Ensure starts a service, which normalizes the records it finds.
StartService ==
    /\ service = "down"
    /\ service' = "up"
    /\ tracedFile' = Interrupted(tracedFile)
    /\ UNCHANGED <<brokerSide, exporter, post, latePost, traced, toStore, stored,
                   destinations, exportFaults>>

-----------------------------------------------------------------------------
QueueNext == Capture \/ CloseTrace \/ ShutQueue \/ Drain \/ QueueEnds
ExporterNext == ExportSpans \/ Beat \/ Send \/ GiveUp \/ Answer
ServiceNext == \/ Serve \/ ServeLate \/ PutBarrier \/ Passed \/ Push
               \/ InterruptCapture \/ StopService \/ ServiceGone \/ StartService

ExportNext == QueueNext \/ ExporterNext \/ ServiceNext
ExportSpec == ExportInit /\ [][ExportNext]_exportVars

-----------------------------------------------------------------------------
(* Correctness. *)

\* A capture whose status is "sent" is in every store, whatever failed, was given up
\* or was restarted on the way (tracing/spans.go:204, telemetry/queue.go:100).
SentIsStored ==
    \A s \in Captures : spanStates[s] = "sent" => \A d \in destinations : s \in stored[d]

\* A capture whose status is "queued" is on its way, so that its status will change: a
\* full queue, a failed batch and a shutdown leave none behind (telemetry/queue.go:63).
QueuedIsHeld ==
    \A s \in Captures :
       spanStates[s] = "queued"
           => ~queueDone /\ s \in ToSet(spanQueue) \union batch
=============================================================================
