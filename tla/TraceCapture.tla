---------------------------- MODULE TraceCapture ---------------------------
(***************************************************************************)
(* The trace of a session without the shared service (tracing/client.go    *)
(* Recorder, tracing/model.go, and the events and queries of               *)
(* tracing/service.go): the broker records its requests and what happens   *)
(* in a bounded channel, never waiting; the recorder sends one event after *)
(* another; the service turns them into spans, counts them, and gives a    *)
(* trace out when the store has as many.                                   *)
(*                                                                         *)
(* The items of a trace are numbered as the broker records them: requests, *)
(* which get their span with the response or with the stop that follows    *)
(* it, and records, which are spans by themselves. Spans of threads and    *)
(* snapshots take the same way as records. One broker life is modelled.    *)
(***************************************************************************)
EXTENDS Naturals, SequencesExt, FiniteSetsExt

CONSTANTS
    RecorderLimit,  \* events in the channel: 256
    ObservedLimit,  \* batches in the store's queue: 64
    MaxItems, MaxStops, MaxRecorderFaults      \* bounds

CaptureAssumption ==
    /\ RecorderLimit \in Nat \ {0} /\ ObservedLimit \in Nat \ {0}
    /\ MaxItems \in Nat /\ MaxStops \in Nat /\ MaxRecorderFaults \in Nat
ASSUME CaptureAssumption

VARIABLES
    items,          \* recorded by the broker so far
    responding,     \* requests whose action has not returned
    stopsSeen,
    events,         \* Recorder.events
    recorderClosed,
    failure,        \* Recorder.failure
    endpoint,       \* what the recorder has: "good", "bad", or "none", for good
    sending,        \* the event it sends: [event, incomplete, stage]
    overdue,        \* an event whose request was given up
    tracer,         \* the service: "up" or "down"
    observed,       \* the capture's record in memory
    observedFile,   \* on disk
    open,           \* capture.requests: [n, execution, ack, stop]
    spanBatches,    \* engine.local
    blocks,         \* spans in the store
    query,          \* spans a query has read from the store
    answer,         \* the last answer to a query, and whether the record said it is whole
    recorderFaults

captureVars == <<items, responding, stopsSeen, events, recorderClosed, failure, endpoint,
                 sending, overdue, tracer, observed, observedFile, open, spanBatches, blocks,
                 query, answer, recorderFaults>>
brokerEnd  == <<items, responding, stopsSeen, events, recorderClosed>>
recorder   == <<failure, endpoint, sending, overdue>>
tracerEnd  == <<tracer, observed, observedFile, open, spanBatches, blocks>>
querier    == <<query, answer>>

RootSpan == MaxItems + 1
Plain(kind) == [kind |-> kind, n |-> 0, yes |-> FALSE]
Idle == [event |-> Plain("none"), incomplete |-> FALSE, stage |-> "idle"]
Unknown == [known |-> FALSE, closed |-> FALSE, interrupted |-> FALSE, failed |-> FALSE,
            count |-> 0]
NoAnswer == [spans |-> {}, whole |-> FALSE]

CaptureInit ==
    /\ items = 0 /\ responding = {} /\ stopsSeen = 0
    /\ events = <<Plain("start")>> /\ recorderClosed = FALSE
    /\ failure = FALSE /\ endpoint = "bad" /\ sending = Idle /\ overdue = Idle
    /\ tracer = "up" /\ observed = Unknown /\ observedFile = Unknown /\ open = {}
    /\ spanBatches = <<>> /\ blocks = {}
    /\ query = NoAnswer /\ answer = NoAnswer /\ recorderFaults = 0

RecorderFault(happens) ==
    /\ happens => recorderFaults < MaxRecorderFaults
    /\ recorderFaults' = IF happens THEN recorderFaults + 1 ELSE recorderFaults

-----------------------------------------------------------------------------
(* The broker records. *)

\* Recorder.Event: what finds no room is dropped, and the capture incomplete.
Record(event) ==
    /\ ~recorderClosed
    /\ IF Len(events) < RecorderLimit
       THEN events' = Append(events, event) /\ UNCHANGED failure
       ELSE failure' = TRUE /\ UNCHANGED events
    /\ UNCHANGED <<recorderClosed, endpoint, sending, overdue, tracerEnd, querier,
                   recorderFaults>>

ObserveRequest ==
    /\ items < MaxItems
    /\ items' = items + 1 /\ responding' = responding \union {items + 1}
    /\ \E execution \in BOOLEAN :
          Record([kind |-> "request", n |-> items + 1, yes |-> execution])
    /\ UNCHANGED stopsSeen

ObserveResponse ==
    /\ \E n \in responding, success \in BOOLEAN :
          /\ responding' = responding \ {n}
          /\ Record([kind |-> "response", n |-> n, yes |-> success])
    /\ UNCHANGED <<items, stopsSeen>>

ObserveRecord ==
    /\ items < MaxItems
    /\ items' = items + 1
    /\ Record([kind |-> "record", n |-> items + 1, yes |-> FALSE])
    /\ UNCHANGED <<responding, stopsSeen>>

\* "stopped" and "exited", of all threads.
ObserveStop ==
    /\ stopsSeen < MaxStops
    /\ stopsSeen' = stopsSeen + 1
    /\ Record(Plain("stopped"))
    /\ UNCHANGED <<items, responding>>

\* Close waits for room for its event, until its fifty seconds are over.
CloseRecorder ==
    /\ ~recorderClosed /\ responding = {}
    /\ recorderClosed' = TRUE
    /\ \/ /\ Len(events) < RecorderLimit
          /\ events' = Append(events, Plain("close"))
          /\ UNCHANGED recorderFaults
       \/ RecorderFault(TRUE) /\ UNCHANGED events
    /\ UNCHANGED <<items, responding, stopsSeen, recorder, tracerEnd, querier>>

-----------------------------------------------------------------------------
(* The recorder. *)

\* run: the next event, or a heartbeat.
TakeEvent ==
    /\ sending = Idle
    /\ \/ /\ events # <<>>
          /\ sending' = [event |-> Head(events), incomplete |-> failure, stage |-> "sent"]
          /\ events' = Tail(events)
       \/ /\ ~(recorderClosed /\ events = <<>>) /\ endpoint # "none"
          /\ sending' = [event |-> Plain("heartbeat"), incomplete |-> failure,
                         stage |-> "sent"]
          /\ UNCHANGED events
    /\ UNCHANGED <<items, responding, stopsSeen, recorderClosed, failure, endpoint, overdue,
                   tracerEnd, querier, recorderFaults>>

\* Ensure: the endpoint of a running service is found or one is started, within thirty
\* seconds; a recorder that has failed to find one does not try again.
FindService ==
    /\ endpoint = "bad" /\ sending.stage \in {"idle", "searching"}
    /\ \/ endpoint' = "good" /\ tracer = "up" /\ UNCHANGED recorderFaults
       \/ endpoint' = "none" /\ RecorderFault(TRUE)
    /\ sending' = Idle
    /\ UNCHANGED <<brokerEnd, failure, overdue, tracerEnd, querier>>

\* MUTANT of Noted: the failure is that of the last event.
NotedLast(ok) == ~ok

Noted(ok) == failure \/ ~ok

\* The service has answered. A failure, of whatever kind, is remembered; the next event
\* will tell of it.
EventAnswered ==
    /\ sending.stage = "done"
    /\ failure' = Noted(TRUE)
    /\ sending' = Idle
    /\ UNCHANGED <<brokerEnd, endpoint, overdue, tracerEnd, querier, recorderFaults>>

\* It has refused the event, is not there, or has not answered in fifteen seconds; then
\* the event may still be handled.
EventFails ==
    /\ \/ sending.stage = "refused" /\ UNCHANGED <<overdue, recorderFaults>>
       \/ /\ sending.stage = "sent" /\ endpoint # "good"
          /\ UNCHANGED <<overdue, recorderFaults>>
       \/ /\ sending.stage = "sent" /\ endpoint = "good"
          /\ RecorderFault(TRUE)
          /\ overdue' = sending
       \/ /\ sending.stage = "done"
          /\ RecorderFault(TRUE) /\ UNCHANGED overdue
    /\ failure' = Noted(FALSE)
    /\ endpoint' = IF endpoint = "none" THEN "none" ELSE "bad"
    /\ sending' = IF endpoint = "none" THEN Idle ELSE [sending EXCEPT !.stage = "searching"]
    /\ UNCHANGED <<brokerEnd, tracerEnd, querier>>

-----------------------------------------------------------------------------
(* The service. *)

OpenOf(n) == {p \in open : p.n = n}

\* capture.event: the requests that are open after an event ...
Opening(c, e) ==
    IF c.closed THEN open ELSE
    CASE e.kind = "request" ->
            open \union (IF OpenOf(e.n) # {} THEN {}
                         ELSE {[n |-> e.n, execution |-> e.yes, ack |-> FALSE, stop |-> FALSE]})
      [] e.kind = "response" ->
            {p \in open : p.n # e.n}
              \union {[p EXCEPT !.ack = TRUE] :
                         p \in {p \in OpenOf(e.n) : e.yes /\ p.execution /\ ~p.stop}}
      [] e.kind = "stopped" ->
            {p \in open : ~p.execution}
              \union {[p EXCEPT !.stop = TRUE] : p \in {p \in open : p.execution /\ ~p.ack}}
      [] e.kind = "close" -> {}
      [] OTHER -> open

\* ... and the spans it ends.
Spans(c, e) ==
    (IF c.closed THEN {} ELSE
     CASE e.kind = "record" -> {e.n}
       [] e.kind = "close" -> {RootSpan}
       [] OTHER -> {})
    \union ({p.n : p \in open} \ {p.n : p \in Opening(c, e)})

\* A capture that was interrupted goes on with the next event of its producer; one that
\* has been finished only with a start.
Resumed(c, e) ==
    LET resumes == c.closed /\ (e.kind = "start" \/ (c.interrupted /\ e.kind # "close"))
    IN  [c EXCEPT !.known = TRUE,
                  !.closed = c.closed /\ ~resumes,
                  !.interrupted = c.interrupted /\ ~resumes /\ e.kind # "close"]

\* submit: spans are counted, then queued, or the capture has failed.
Submits(c, spans) ==
    [c EXCEPT !.count = c.count + Cardinality(spans),
              !.failed = c.failed \/ (spans # {} /\ Len(spanBatches) >= ObservedLimit)]

Queued(spans) == IF spans # {} /\ Len(spanBatches) < ObservedLimit
                 THEN Append(spanBatches, spans) ELSE spanBatches

\* engine.event, under its mutex. "start" makes no span. A closed capture has no open
\* requests.
Handle(p, saved) ==
    LET found  == IF observed.known THEN observed ELSE observedFile
        c      == Resumed(found, p.event)
        marked == [c EXCEPT !.failed = c.failed \/ p.incomplete]
        spans  == IF p.event.kind = "start" THEN {} ELSE Spans(c, p.event)
        after  == [Submits(marked, spans) EXCEPT !.closed = c.closed \/ p.event.kind = "close"]
    IN  IF ~found.known /\ p.event.kind # "start"
        THEN UNCHANGED <<observed, observedFile, open, spanBatches>>
        ELSE /\ observed' = after
             /\ observedFile' = IF saved THEN after ELSE observedFile
             /\ open' = Opening(c, p.event)
             /\ spanBatches' = Queued(spans)

HandleEvent ==
    /\ sending.stage = "sent" /\ tracer = "up" /\ endpoint = "good"
    /\ \E saved \in BOOLEAN :
          /\ RecorderFault(~saved)
          /\ Handle(sending, saved)
          /\ sending' = [sending EXCEPT !.stage =
                IF saved /\ (observed.known \/ observedFile.known \/ sending.event.kind = "start")
                THEN "done" ELSE "refused"]
    /\ UNCHANGED <<brokerEnd, failure, endpoint, overdue, tracer, blocks, querier>>

HandleOverdue ==
    /\ overdue # Idle /\ tracer = "up"
    /\ overdue' = Idle
    /\ Handle(overdue, TRUE)
    /\ UNCHANGED <<brokerEnd, failure, endpoint, sending, tracer, blocks, querier,
                   recorderFaults>>

\* The worker: a failed push, or outcome that is not saved, marks the capture.
PushSpans ==
    /\ tracer = "up" /\ spanBatches # <<>>
    /\ \E ok, saved \in BOOLEAN :
          /\ RecorderFault(~ok \/ ~saved)
          /\ observed' = [observed EXCEPT !.failed = @ \/ ~ok \/ ~saved]
          /\ observedFile' = IF saved THEN observed' ELSE observedFile
          /\ blocks' = IF ok THEN blocks \union Head(spanBatches) ELSE blocks
    /\ spanBatches' = Tail(spanBatches)
    /\ UNCHANGED <<brokerEnd, recorder, tracer, open, querier>>

\* interruptCapture, after ninety seconds without an event.
Silence ==
    /\ tracer = "up" /\ observed.known /\ ~observed.closed
    /\ RecorderFault(TRUE)
    /\ LET spans == Spans(observed, Plain("close")) IN
       /\ observed' = [Submits(observed, spans) EXCEPT
                          !.failed = TRUE, !.closed = TRUE, !.interrupted = TRUE]
       /\ spanBatches' = Queued(spans)
    /\ observedFile' = observed'
    /\ open' = {}
    /\ UNCHANGED <<brokerEnd, recorder, tracer, blocks, querier>>

\* The service dies; the next one normalizes the records it finds.
TracerDies ==
    /\ tracer = "up" /\ RecorderFault(TRUE)
    /\ tracer' = "down"
    /\ observed' = Unknown /\ open' = {} /\ spanBatches' = <<>>
    /\ overdue' = Idle /\ query' = NoAnswer
    /\ endpoint' = IF endpoint = "none" THEN "none" ELSE "bad"
    /\ sending' = IF sending.stage = "sent" THEN [sending EXCEPT !.stage = "refused"]
                  ELSE sending
    /\ UNCHANGED <<brokerEnd, failure, observedFile, blocks, answer>>

TracerStarts ==
    /\ tracer = "down" /\ tracer' = "up"
    /\ observedFile' = IF observedFile.known /\ ~observedFile.closed
                       THEN [observedFile EXCEPT !.failed = TRUE, !.closed = TRUE,
                                                 !.interrupted = TRUE]
                       ELSE observedFile
    /\ UNCHANGED <<brokerEnd, recorder, observed, open, spanBatches, blocks, querier,
                   recorderFaults>>

\* query reads the store without the mutex, then compares with the count in the record.
ReadStore ==
    /\ tracer = "up" /\ query = NoAnswer /\ blocks # {}
    /\ query' = [NoAnswer EXCEPT !.spans = blocks]
    /\ UNCHANGED <<brokerEnd, recorder, tracerEnd, answer, recorderFaults>>

AnswerQuery ==
    /\ query # NoAnswer
    /\ query' = NoAnswer
    /\ LET c == IF observed.known THEN observed ELSE observedFile IN
       answer' = IF Cardinality(query.spans) < c.count THEN NoAnswer
                 ELSE [query EXCEPT !.whole = c.closed /\ ~c.interrupted /\ ~c.failed]
    /\ UNCHANGED <<brokerEnd, recorder, tracerEnd, recorderFaults>>

-----------------------------------------------------------------------------
Observe == \/ ObserveRequest \/ ObserveResponse \/ ObserveRecord \/ ObserveStop
           \/ CloseRecorder
CaptureNext == \/ Observe
               \/ TakeEvent \/ FindService \/ EventAnswered \/ EventFails
               \/ HandleEvent \/ HandleOverdue \/ PushSpans \/ Silence
               \/ TracerDies \/ TracerStarts \/ ReadStore \/ AnswerQuery
CaptureSpec == CaptureInit /\ [][CaptureNext]_captureVars

-----------------------------------------------------------------------------
(* Correctness. *)

\* A trace that is given out while its record says it is finished and has not failed has
\* a span for everything the broker recorded, however full the channels were and whatever
\* was lost, given up or restarted on the way (tracing/client.go:217, service.go:401).
FinishedIsWhole == answer.whole => 1 .. items \union {RootSpan} \subseteq answer.spans
=============================================================================
