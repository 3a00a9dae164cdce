# Brote: a verification development

Brote is a debugging broker: one process per session owns a connection to Delve and
lets a browser, an editor and an AI agent share one debugged program. This directory
holds TLA+ models of its core, TLC configurations that check them on small instances,
and TLAPS proofs of the safety properties for every size of instance.

    tlc -config ExecutionSharing.cfg MCExecution.tla     a model checking run
    tlapm ExecutionSafety.tla                            the proofs of one module

`PROJECT.json` maps every definition to the lines of the source it models, and lists the
runs, the mutants that each property detects, the hazards and the theorems.

## 1. Inventory

| Component | State it keeps | Operations | Interacts with | What is hard |
|---|---|---|---|---|
| Execution control (`broker/execution.go`, `coordination.go`, `actions.go`, `capture.go`, `backend_events.go`) | `moving`, `interrupting`, `handleEpoch`, `generation`, `executionIntent/Mode/Actor/Task`, `dispatchSequence`, `pendingExecution` | movement, pause, interruption, response, event, capture resume | Delve by requests and two event queues; every client by HTTP or DAP | goroutines that finish late; flags that lag the target; precedence of humans over the agent |
| Agent tasks and leases (`coordination.go`, `host.go`) | `s.Task`, `s.Binding`, `s.Consumers` with host proofs | start, authorize, heartbeat, complete, cancel, challenge, fact | execution control, delivery | expiry between check and use; facts out of order |
| DAP client and backend (`dap/client.go`, `backend/delve.go`) | pending responses, `state`, `epoch`, event channels | begin, request, events | the adapter | ambiguous outcomes; state ahead of the broker |
| Delivery (`delivery/state.go`, `broker/delivery.go`, `notifications.go`) | status and attempt of a handback, a task and each question; consumers | open, next, status, close, retry | descriptor file, discussion file, host programs | a message shown twice or never; receipts out of order; crash during a send |
| Capture accounting (`capture.go`, `attribution.go`) | `CaptureCounts`, `CaptureSequence`, pending captures | reserve, inspect, append | definitions, telemetry | limits across overlapping hits and recovery |
| Event stream (`events.go`) | 256 events and a cursor | subscribe, replay, reset | every client | a slow reader; reconnection |
| Discussion (`session/discussion*.go`, `broker/comments.go`) | one JSON document per session with a revision | ask, reply, claim, retry, resolve, import | broker and offline writers, by a file lock | lost updates; immutable evidence |
| History (`session/history.go`, `delete.go`) | append-only journal, projected status | open, append, replay, delete | broker, command line | torn tail, partial deletion |
| Definitions and breakpoints (`definitions/store.go`, `broker/definitions.go`, `backend/breakpoints.go`) | versioned breakpoints and tracepoints, their resolutions, adapter breakpoints by owner | put, delete, replace, reconcile, restore | the adapter, the editor | partial installation; two owners of one line |
| Lifecycle (`broker/lifecycle.go`, `restart.go`, `session/store.go`, `cli/recovery.go`) | descriptor, process identities, `ExecutionCommands` | serve, recover, restart, shut down | everything | crash between two writes; commands executed twice |
| Editor connection (`dap_shared.go`, `dap_handles.go`, `inspection_service.go`) | the peer, its configuration, handles, inspections in flight | configure, move, inspect, restart, disconnect | execution control | results for a stop that is gone |
| Telemetry queue (`telemetry/queue.go`) | 256 spans, status per capture | end, export, flush, shutdown | an exporter | full queue, shutdown race |
| Trace service (`tracing/*.go`) | a record per session, receipts, two queues | event, submit, worker, recover | local and remote stores | receipts against queues against disk |
| Embedded trace store (`embeddedtempo/*.go`) | admission flag and count | begin, end, drain | Tempo | drain against admission |
| Managed event client (`cli/managed_events.go`) | consumer instance, one attempt in flight | connect, next, receipt, fact | broker, host program | reconnection during a send |
| Command line, editor configuration, user interfaces | files, presentation | parsing, editing | broker | sequential |

What makes each component correct:

- *Execution control.* One movement at a time; the fence of an interruption stays until the
  target rests and is never forgotten; a late response disturbs nothing newer; the agent moves
  only under its own live task; a tracepoint resumes only the stop it inspected, and never over
  a human's interruption.
- *Tasks and leases.* A scope that has lapsed is never revived; facts of a replaced host change
  nothing.
- *Delivery.* Between two exposures of a message there is an explicit retry; an answer is
  never undone by a receipt; an interrupted send is visible as uncertain.
- *Event stream.* A reader sees every event in order or is told to reset.
- *Captures.* A tracepoint is charged before it is inspected, never more often than its limit allows in
  a run, whatever is lost in between.
- *Discussion.* No committed message is lost; a question has at most one answer per key.
- *History.* An acknowledged record survives torn lines and crashes; nothing that lives is deleted;
  a run keeps its investigation and its ordinal.
- *Definitions.* A stop at a breakpoint somebody wants is never charged to a tracepoint alone, and the
  adapter keeps no breakpoint nobody wants.
- *Lifecycle.* A command identity is executed at most once, whatever crashes.
- *Inspection.* A reply is of one pause, the one shown; a reference keeps its meaning.
- *Queues.* What is said to be sent is stored, what is said to be queued is held; a trace said to be
  whole is whole; a note is not stranded.
- *Embedded store.* Nothing is pushed into modules that have stopped.

## 2. Modules

| Module | Models | Abstract specification | Runs | Theorems |
|---|---|---|---|---|
| `Execution` | broker, goroutines, adapter, target | - | section 4 | section 10 |
| `Delivery` | consumers, legacy listeners, handback, task, questions, crash | `Question`: what a person who asks is promised | section 6 | section 10 |
| `HostLease` | tasks, leases, challenges and proofs of a host, its client | - | `records` | section 10 |
| `Ledger` | events and their streams, command identities, charges of captures | - | `records` | section 10 |
| `Definitions` | store, reconciliation with the adapter, attribution | - | `records` | section 10 |
| `Archive` | journal, investigations, launch, deletion | - | `records`, `regrouped` | section 10 |
| `TraceExport` | a broker's spans on their way to the stores | - | `traces` | section 10 |
| `TraceMetadata` | annotations and messages on their way to the stores | - | `traces` | section 10 |
| `TraceCapture` | a session recorded without the shared service, and queries | - | `traces` | section 10 |
| `DiscussionFiles` | the document and the index as files of several processes | - | `traces` | section 10 |
| `Inspection` | reading a paused target without the mutex, an editor's references | - | `traces` | section 10 |
| `StoreRuntime` | the process around the trace store | - | `traces` | section 10 |
| `EditorSession` | an editor's configuration, its start of the program, restarts | - | `traces` | section 10 |

The modules of the two last groups share nothing but the broker's mutex, under which their
actions are atomic, so each is a specification of its own. What could still be added, in the order of its use: the
continuation of an earlier run's thread; a liveness property of the trace queues, which needs fairness of the stores the code
does not control.

## 3. Execution: model and code

Every handler of the broker holds `b.mu` from beginning to end, so a handler is one action. The
actions that interleave are what runs without it:

| Model | Code |
|---|---|
| `HumanMove`, `HumanMoveRefused`, `HumanMoveFenced`, `HumanPreemptsAgent` | `action` with a movement by a human: `humanIntent`, the paused check, `setExecutionIntent`, `beginExecution`, `dispatchDAP` |
| `EditorMove`, `EditorPause` | the same requests from the connected editor, which checks neither generation nor status |
| `AgentMove`, `AgentMoveFenced`, `AgentMoveRefused`, `AgentPause` | `action` by the agent, after `taskValid` |
| `GrantTask`, `CancelTaskAction`, `CompleteTask`, `Bind`, `LeaseLapses`, `MaintainTask` | `coordinate`, `bind`, the passing of time, `maintainTask` and a failed `taskValid` |
| `StopTarget`, `StopRefused`, `Restart`, `Shutdown`, `Touch` | `stop`, `restartLocked`, the end of `Serve`, other accepted edits |
| `Settle` | the goroutine of `dispatchDAP`: acknowledged, rejected, or ambiguous |
| `WorkerCheck`, `WorkerSend`, `WorkerGivesUp` | the goroutine of `interruptDAP`: its test, its pause request without the mutex, its deadline |
| `ReadEvent` | `Delve.events`: `Running`, `exited` and `epoch` change here, before the broker knows |
| `WatchEvent` | `watchBackend`, with `captureStop` for a tracepoint hit |
| `CaptureResumes`, `CaptureLapses`, `CaptureEnds` | the end of the goroutine of `captureStop` |
| `AdapterAccepts`, `AdapterRejects`, `AdapterPauses`, `TargetHalts`, `LinkLost` | external: Delve's DAP server and the program |

`moving`, `interrupting`, `handleEpoch`, `generation`, `dispatchSequence` and the intent are the
broker's fields. `pending` is `pendingExecution` (a restart leaves the entries of the old backend
in it, as in the code). `dap` and `dapEpoch` are the state of `backend.Delve`; `wire` and `events`
are the two channels between the adapter and the broker; `inbox` and `replies` are what travels the
other way. `target` is what the program really does, which no handler reads.

Abstractions. The four movement commands are two (`continue` can be resumed by a capture, the
others cannot). A generation in a request is current or stale. A lease is open or lapsed.
What a capture inspects is only whether it was complete; one whose definitions were
changed meanwhile (`capture.go:119`) ends as an incomplete one does. A pending response may be ambiguous when it is
late, when the run has been replaced or when the connection is gone. `hold`, `early`, `gaveUp` and
the field `after` of a capture are history: no action reads them in a guard, the properties do.
`early` marks a movement dispatched while the entry stop was still queued; the code then takes that stop for
the movement's own (section 9), and the properties about the target exclude exactly that case, which
has its own run.

## 4. Execution: runs

Bounds are constants of the module: requests by anybody, runs, unread pauses, the number of
dispatches after which no tracepoint is hit, captures in flight, and the set of events a run
explores. Three requests suffice for the longest conflict the properties name (a movement,
an interruption, another movement), four for those that need a refused one in between; two captures for
one that outlives another; two runs for a goroutine that outlives its run. Epochs and generations
are not bounded: `View` of `MCExecution` compares states by which of the stored values still equal the
current ones. Those numbers only grow and are only compared for equality with earlier values, so states with the
same view have the same futures up to renumbering. The run `settles` uses no view.

| Run | Question | Answer |
|---|---|---|
| `sharing` | Browser, editor, agent, two captures and late responses: one movement at a time, one interruption at a time, no harm by an old response, no resume over a human? | yes |
| `lifetimes` | Lapsing grants, other agents, restarts, stops, a lost connection, the deadline, shutdown: does a movement leave without its own grant, a capture resume another run's stop, the fence fall over a running target or stay without an owner? | no |
| `settles` | Does every interruption end? And is the invariant of the proofs right without the view? | yes, under the fairness below |
| `early_stop`, `refused_move`, `quit` | section 9 | |

A run stops in states where no request is left and everything has settled, so deadlock is not an error.

Fairness (`FairSpec`): the adapter reads its requests, and the goroutines of the broker (event reader,
event consumer, responses, worker) are scheduled; the Go scheduler and the mutex justify weak
fairness. Nobody has to ask for anything and no program has to stop by itself. `InterruptionSettles`
is checked without responses later than eight seconds: with them it fails, because a rejected
movement whose rejection was lost leaves `moving` set and no event to come. The code
chooses that ("execution remains fenced; inspect or restart the session") and gives up after thirty seconds.

## 5. Delivery: model and code

Three kinds of message wait for a recipient. The handback and the task are in the broker's descriptor
(`s`, saved as `disk`), which only the broker writes. The current question of each thread is in the discussion
document (`threads`), which other processes write too when a session is offline: they read a snapshot and
commit by compare-and-swap on its revision.

| Model | Code |
|---|---|
| `Transition`, `Check` | `delivery/state.go`: the table of statuses, the proof of an attempt |
| `Shown`, `Subject`, `Status`, `AttemptOf`, `Recipient` | `deliverySubjects` and the fields of a subject; `SavedIn`, `SavedThreads` and the `Claimed...` ones are its `save` |
| `OpenConsumer`, `OpenConsumerPartly`, `CloseConsumer`, `NextDelivery`, `Receipt` | `deliveryAction` and `consumer-close`: each saves the interrupted subjects one by one, so a failed save leaves a prefix |
| `Reclaim`, `RetryNotification`, `Handover`, `EventStatus` | the handback: `emit("control_returned")`, `event-status` of a listener without a consumer record |
| `TaskStart`, `TaskAuthorize`, `TaskDelivery`, `TaskHeartbeat`, `TaskEnds` | the task as a message |
| `Bind`, `RunAgain` | the agent is replaced; the run is |
| `LiveComment` | `commentsLocked`, with `ApplyDiscussion` for everything but a new thread |
| `OfflineRead`, `OfflineCommit`, `OfflineConflict` | `MutateDiscussion`: read and apply without a lock, then `CommitDiscussion` |
| `BrokerStops`, `RecoverDescriptor`, `RecoverDiscussion` | a crash, or a shutdown (which saves); recovery writes the two documents one after the other |

Every broker handler holds `b.mu` and is one action. A crash may come between any two of them, and between
the two writes of a recovery.

`due`, `sent` and `reported` are history: the subjects somebody asked for and that have not left since, every
message that left, what was said of an attempt. A client is not a process of the model: whoever has seen a
message may report anything about it, in any order and any number of times. That covers delayed, repeated and
lost receipts, and a host that goes on after it was replaced. A message in `sent` that nobody acts on is a
response that was lost.

Abstractions. A recipient is `Provider` or the revision of the agent's binding, which is never reused. Identities
(subjects, attempts, instances, bindings) are numbers in the order of their creation; the code draws
them at random. The model begins after the first binding, which recovery creates if need be. Which host works
on a task, and whether its lease has lapsed, is a choice at the place where the code asks (`CloseConsumer`,
`NextDelivery`); the pause that starting a task requires belongs to `Execution`. Texts, evidence,
size limits and the cursor are left out. A draft is fresh or stale, which is the comparison of revisions.

`Question` is the abstract specification: a question waits, is away, was heard, is uncertain or is
answered; between two departures lies an explicit retry, and nothing undoes an answer. `ImplementsQuestion` says
that the discussion, with every writer, crash and interruption, behaves like that.

## 6. Delivery: runs

| Run | Question | Answer |
|---|---|---|
| `messages` | Handback and task, two consumers and a legacy listener, rebinding, a new run, a failed save or a crash: does a message leave twice on one request, or leave without being saved as claimed? And a handback and a question, with two consumers that are replaced and closed: is a send left with nobody to report it, a receipt counted for another attempt, an acknowledgement undone? | no |
| `discussion` | One thread, the broker and an offline writer, every request, a crash; or a handback and a task with a listener that has no consumer: one answer, kept for ever, and `Question` implemented? Does a message leave without having been asked for? | yes; no |
| `stuck_question` | section 9 | |

Bounds: two identities of each kind (a third instance, copy or subject only repeats the relation of the second to the first,
since the code compares identities for equality alone), one crash or failed save, two reply keys. The limit of
consumers is the number of consumers (`discussion` has none, and its constraint `OneKind` keeps the question apart from the other messages): at the limit a new one is refused and an old one may be reopened.
Consumers, keys and writers are symmetric. `MCMessages` puts the two questions of the first run one after the other, as two parts of which a
behaviour has one: the first has every event but no thread, the second a thread and no task. `View` of `MCDelivery` drops `reported`, which no
action reads and only `StatusBelongsToAttempt` does; the second part of `messages` keeps it. `SendingHasHost` is checked, and proved, without the request `reopen`: see 4 of section 9.
A consumer opened for an earlier binding can neither be used nor closed and counts towards the limit (`delivery.go:152`); nothing in
the repository says that its record is reclaimed, so no property asks for room.
The runs stop when the bounds are reached, so deadlock is not an error. There is no liveness property:
no process of the code has to take a message.

## 7. Records: `HostLease`, `Ledger`, `Definitions`, `Archive`

| Model | Code |
|---|---|
| `HostLease`: `Challenge`, `Take`, `Close` | `hostAction`; `Fenced` is the lapse of the old proof before the new one counts |
| `Grant`, `Refuse`, `Heartbeat`, `Move`, `Complete`, `Cancel`, `Maintain` | `coordinate`, `taskValid`, `maintainTask` |
| `Ready`, `Forward`, `Arrive`, `Leave`; `TurnStarts`, `TurnEnds`, `Prove` | the managed client, and the host (Pi's adapter) behind its pipe |
| `Ledger`: `Emit`, `Bind`, `StopRun`, `NewRun` | `emit` and the handlers that call it, with a save that fails |
| `Connect`, `Gather`, `Send`, `Drop`, `Refresh` | a stream: it gathers under the mutex, sends without it, and is reset when the ring has passed it |
| `Submit`, `Hit`, `Capture` | a command's identity, the charge of a tracepoint, and the record of its capture |
| `Definitions`: `Put`, `DeleteDefinition`, `EditorReplaces`, `Reconcile` | the store and the reconciliation, one file after the other, each request accepted, refused or lost |
| `Merged`, `Owners`, `Eligible` | what the adapter gets for a line that several definitions want, and who is charged for a stop |
| `RestartTarget`, `RecoverBroker` | breakpoints carried to another target, or found in a target that lived on |
| `Archive`: `Launch` .. `OpenArchive`, `Publish`, `Record`, `Stop`, `ShutDown`, `Dies` | the life of a session as its archive sees it; every append may be torn |
| `Cleanup`, `Delete`, `Browse` | the commands that work on other sessions |
| `DeletionEnds`: `Interrupted`, `Removed`, `StagedArchives`; `leftovers` | the renames and erasures of a deletion: it completes, restores, is killed between two renames, or leaves archives it could not erase, which `ListHistory` goes on to list |

The run `records` checks all four. They have no variable in common and no property speaks of two of them, so
a behaviour of the run moves one part and leaves the others at their start: every state of every part is
visited, without their product.

| Property | Says |
|---|---|
| `EndedTurnsStayEnded` | no fact, however late, makes a turn alive that the broker was told is over |
| `ScopeNeverRevived` | a task whose host was not proved for a moment never becomes valid again |
| `StreamsExact` | what a stream has shown is what happened, without a gap that it was not told of |
| `CommandOncePerRun` | a command is dispatched once in a run, after any crash and failed save |
| `CaptureLimitHolds` | the captures taken of a definition in a run never exceed its limit |
| `OrdinaryStopsKept` | a stop at a line where an ordinary breakpoint is installed is not treated as a tracepoint's |
| `NoGhostPoints` | unless an answer was lost, the adapter stops nowhere that nobody asked for |
| `AcknowledgedSurvive` | an acknowledged record is in the journal for as long as the archive is |
| `DeletionSparesTheLiving` | a deletion takes nothing of a session that runs |
| `InvestigationsStable` | a run whose records are kept stays in its investigation, unless it founds one of its own, and keeps its ordinal, which it shares with no other run, nor with what an interrupted deletion left of one |

Bounds: two runs, two investigations, four records, one torn write or crash for `Archive` (each run's archive is used by one
process at a time, so two are enough for one that is deleted under another); a ring of two with one late reader, two tracepoints with a limit of one,
two faults for `Ledger`; two spots in one file and one in another, two definitions, one fault for `Definitions`; one turn, two
instances, two challenges, and deadlines of one step for `HostLease`, where `Tick` may come between any two steps.
A lease or proof of one step lapses at the next tick, which gives every order of lapses.
The bounds stop the runs, so deadlock is not an error.

What the models leave out. `Archive`: a rename that failed and cannot be taken back. Two things of the code show in it and contradict
nothing that is written: `cleanup` reads the descriptor before it has the session's lock, and a launcher that dies after it has
reserved an ordinal leaves an investigation that can be browsed but not deleted. `Definitions`: a request whose answer is lost may
leave a breakpoint at the adapter until the next reconciliation of the file, and a crash between an installation and the save of its
owner leaves one that recovery takes for a foreign one (`NoGhostPoints` excludes the lost answer and counts foreign ones as asked
for); two definitions of one line with different conditions are refused by the adapter (external). `HostLease`: an answer to a
challenge is one step of the host, and the text of a fact is its turn and state. `Ledger`: what an event says.

## 8. Traces: `TraceExport`, `TraceMetadata`, `TraceCapture`, `DiscussionFiles`, `Inspection`, `StoreRuntime`, `EditorSession`

| Model | Code |
|---|---|
| `TraceExport`: `Capture`, `CloseTrace`, `ShutQueue`, `Drain`, `QueueEnds` | `telemetry`: the session, its bounded queue, its shutdown |
| `ExportSpans`, `Beat`, `Send`, `GiveUp`, `Answer` | `SpanExporter`: one request at a time, with a deadline |
| `Serve`, `ServeLate`, `PutBarrier`, `Passed`, `Push` | the service: the record, a queue and a worker for each store, the flush behind a batch |
| `InterruptCapture`, `StopService`, `ServiceGone`, `StartService` | silence of a producer, the end and the start of the service |
| `TraceMetadata`: `Annotate`, `RegisterSource`, `CommitMessage` | notes, durable before they are exported |
| `PublishAnnotation`, `SyncSource`, `Submit`, `Retry` | receipts of annotations, messages and posted records (`POST /api/trace-metadata`); one whose identity has another content is refused |
| `TakeBatch`, `Outcome`, `ServiceRestarts` | queues and workers, with saves that fail |
| `TraceCapture`: `Observe...`, `TakeEvent`, `EventAnswered`, `EventFails` | the recorder of a session: a channel that drops, one request at a time |
| `HandleEvent`, `PushSpans`, `ReadStore`, `AnswerQuery` | the service's capture, its worker, and a query that compares the store with the count |
| `DiscussionFiles`: `ReadDiscussion`, `Post`, `ArchiveDiscussion`, `Import...`, `LinkDiscussion` | authors with a snapshot, the promotion into the archive, an editor's import under the workspace's lock |
| `Inspection`: `BeginServiceRead`, `BeginEditorRead`, `AdapterAnswers`, `End...Read` | a read: fence, requests without the mutex, fence again |
| `StoreRuntime`: `LockDirectory` .. `Exit` | the process of the store: lock, modules, admission, drain |
| `EditorSession`: `ConnectEditor`, `SetUp`, `ConfigurationDone`, `FollowConfiguration`, `DisconnectEditor` | `connectSharedDAP`: the requests until the editor is configured, the response, and what follows it under a second lock |
| `MoveProgram`, `InterruptProgram`, `OrderSettles`, `FenceFalls`, `BackendReads`, `BrokerHandles` | movement by anybody, as in `Execution`, without commands, generations and tasks' identities |
| `EditorRestarts`, `OthersRestart`, `RestartRefused`, `StopSession`, `StartupExpires`, `BrokerLeaves` | the run replaced, with or without the editor, or not at all; the session ended, also by the thirty seconds of a launch |

| Property | Says |
|---|---|
| `SentIsStored` | a capture whose status is "sent" is in every configured store |
| `QueuedIsHeld` | one whose status is "queued" is in the queue or the batch, and the queue has not ended |
| `NothingStranded` | an export believed under way is; an accepted record is in its store; what a store has under an identity is the content of its receipt on disk, saved by an author or submitted by a client |
| `FinishedIsWhole` | a trace given out as finished and not failed has every span |
| `NothingOverwritten` | acknowledged posts, imports and links stay; an import is not doubled |
| `RepliesOfOnePause` | a reply shows values of one stop only, the one the broker showed |
| `ReferencesKeepTheirMeaning` | a reference leads to what it was given out for, or is refused |
| `PushesIntoLiveModules` | the service works only while the modules are up, in the one process that holds the lock |
| `EditorToldOfPause` | when the program stands and nothing about it is on its way, a configured editor was told so, or its start was refused |

The run `traces` checks the seven, one part in a behaviour, as in section 7. Bounds: three captures, a queue of two, one batch
in a store's queue, one fault (a failed push or save, a lost answer, a death); two notes or submitted records, together, of two names and contents, two stores;
two recorded items with a channel of one; two authors, two posts, two native discussions of two contents; three stops, one
restart, two connections and two references; two processes with two workers; two movements (the editor's own and one that overtakes it), and
two connections or restarts together. Each limit is reached
by one element more than it holds, and a fault can come at every step.

What the models leave out. `TraceCapture`: only sessions without the shared service have a recorder; one life of a broker; the
limit of 1,024 open requests; the limits of 1,000 snapshots, 256 threads and 32 KiB, beyond which the service drops a snapshot without
counting it or telling (`model.go:242`, `248`, `289`), so that `FinishedIsWhole` speaks of what the service accepts; the roots of a program's and a client's trace are one span.
`Inspection`: the target moves only when the broker makes it; values are the number of the stop they were read at; the epoch
that the backend itself compares for an editor is left out, since it only refuses more. `StoreRuntime`: only the service that drains (`RunService`) is modelled, not
the process that reads pushes from its parent's pipe (`Run`, `drain=false`, `runtime.go:31`, `120`), whose shutdown does not wait for them; Tempo is external (it tells the
server before it stops its modules, which is what `server.go` says of it); queries may outlive the service by the ten seconds of the HTTP
shutdown and are not counted as consumers; after fifteen seconds without draining the process kills itself (`Exit`).
`DiscussionFiles`: the decoding of the editor's format; with the one thread of the run no two threads of an editor meet in a document.
`TraceMetadata`: the owner, the kind and the targets of a record, which the service checks against the run it belongs to. A posted record may take the
identity of an annotation that has not been published; the annotation is then saved and listed, and its publication refused
at every synchronization. `TraceExport`: `ForceFlush`, which only waits.
`EditorSession`: the responses to the editor's own movements, which the goroutine of the dispatch sends without the mutex, so that one may
follow the stop it led to; the proxy of earlier versions. `told` is history: what the connected editor was told last. The model shows two things that
contradict nothing written: an automatic start that is refused, because the agent moves, because others do, or because a fence is still up
whose stop has been handled, is recorded as the broker's last error and the editor hears nothing until the next event; and after an editor's
restart that failed the editor counts as configured although there is no backend (`dap_shared.go:108`), so that using it ends the
process, which was to end 150 milliseconds later anyway (`BrokerLeaves`).

## 9. Where the code disagrees with what is written about it

1. `FenceKeptUntilStopSettles` (run `early_stop`). The entry stop is queued when the broker starts.
   A movement dispatched before it is consumed is accepted, the entry stop clears `moving`, and an
   interruption then settles while the program runs.
2. `PauseKeepsTargetStopped` (run `refused_move`). The handover guide says a human pause keeps the target stopped.
   A continue that the editor sends while the fence is up is refused, but has already armed the intent; a
   tracepoint hit at the end of the interrupted movement is captured under it and resumes.
   `ResumeYieldsToHuman` is the weaker statement that holds, and is proved.
3. `ShutdownLeavesPaused` (run `quit`). Shutdown halts a target that Delve knows to run, not one whose
   movement is still on its way.
4. `InterruptedSendCanBeRetried` (run `stuck_question`). The handover guide asks for an explicit retry of an
   uncertain send. A question that is being sent when the agent is rebound is no longer a subject, so nobody marks
   it; it stays `sending`, and a retry is refused until the thread is resolved and asked again, or the broker
   restarts. A thread that is resolved during the send and reopened after its host was replaced ends in the same state.
5. `AssociationsImmutable` (run `regrouped`, three runs). The comment of `Investigation` says that each run has its own immutable association.
   `start --investigation` with the ID of a live session founds an investigation of that name if there is none, even when the session
   has joined another one: its association is then rewritten, and it is listed in the new one. `InvestigationsStable` has this
   as its only exception.

Two more, without a run of their own:

- A deletion that cannot erase what it has renamed says that the records are "removed from the workspace" and leaves "hidden staged
  files" (`delete.go:86`, `114`); one that is killed says nothing. A staged archive lies in the directory of its day, where `ListHistory` finds it by
  its metadata (`history.go:290`). The run goes on to be listed and, since its association is gone, in an investigation of its own whose file is
  written anew (`investigation.go:240`). Neither can be deleted any more: the run has "no verified ended record" (`delete.go:65`). In the model
  `leftovers` are these runs, and `Known` counts them.
- The comment of `dispatchDAP` is narrower than its code: a rejection also rolls back the latest dispatch when its
  epoch has changed and Delve is not running. Without that a fence would never settle; `StaleReplyHarmless` is what
  holds, and is proved.

## 10. Proofs

Everything in this section holds for every value of the constants, from the modules' assumptions alone
(`ExecutionAssumption`, `DeliveryAssumption`, `LeaseAssumption`, `LedgerAssumption`, `ExportAssumption`, `NotesAssumption`,
`CaptureAssumption`, `RuntimeAssumption`, `FilesAssumption`, `DefinitionsAssumption`, `ArchiveAssumption`): bounds and limits are naturals (lifetimes and the sizes of queues positive),
the receipts are statuses, the names of handback and task are not names of threads or consumers, and the
tracepoints, and the threads an editor has, are finitely many.

**Execution.** `ExecutionProofs` proves type correctness and that a step keeps the flow of movements;
`ExecutionSafety` the rest of the invariant and the theorems.

The safety properties are not inductive. That the adapter never reads a movement while the target
runs, for instance, depends on where every earlier movement is. `IInv` adds:

- `FlowInv`: while a target lives, at most one movement is anywhere on its way (dispatched, in the inbox,
  running, or stopped with its stop still queued), and `moving` is true from the dispatch until the
  consumption of that stop;
- `QueueInv`: no movement waits behind another and nothing follows a stop in the two queues;
- `ReplyInv`: a rejected movement left the target where it was, so a rollback is sound;
- `DispatchInv`: a dispatch that still owns the epoch is the latest and no fence is up;
- `WorkerInv`, `OneInterrupter`, `FenceHasOwner`: a worker of this run exists only under a fence;
- `GrantInv`: task identities are fresh, so a new grant is not the one that armed the movement;
- `HoldInv`: nothing is armed after a human interruption; `CaptureInv`: a capture that still owns
  the epoch follows the latest dispatch.

The argument runs per action: `TypeStep`, `FlowStep`, `FenceStep` and `GrantStep` have one step per action and
are combined in `NextIInv`. The action properties follow from `IInv` and the shape of the steps that
dispatch (`Dispatchers`) or resume (`Resumers`).

**Delivery.** `DeliveryProofs` proves type correctness, one lemma per action. The three other modules do not repeat
the case split over the actions for each property; they classify the steps once.

- `DeliverySafety` shows that a step changes the document in one of five ways (`MoveStep`): not at all, an
  interruption, a claim, a receipt, or one request that was applicable to the present document. For an offline writer
  the last is what compare-and-swap is for, and needs `DraftInv`: a draft that no commit has outdated is one
  applicable request away from the document, and the number of its new question is still unused there. `Orderly`
  (no answer is to a later question; an answer to the current one shows in the status; no two are to the same one) is
  kept by each of the five, which gives `AtMostOneAnswer` and `AnswersStay`; each of them is also a step of `Question`
  or a stutter, which gives `DiscussionImplementsQuestion`.
- `DeliveryExposure` classifies the steps by what they offer (`KindStep`): nothing new, a new handback or task, one
  departure, one request, a draft. `DueInv` (what is pending was asked for and has not left since) is not inductive alone:
  a departure removes its subject from what is due, and must not remove another message's. `IdInv` says
  that an identity belongs to one message, counting the descriptor on disk, which a crash may bring back, and the drafts.
  `DurableInv` says that what has left is pending neither in memory nor on disk. They give `LeavesOnRequest` and
  `ClaimSavedFirst`. These parts and `Orderly` were also model-checked on the instances of the runs `messages` and `discussion`.
- `DeliveryAttempts` relates a status to the attempt behind it. Three invariants, each of the disk as well, because a crash
  brings back what it holds. `SaidInv`: a status that only a holder of an attempt may report was reported under the
  attempt the message has; it gives `StatusBelongsToAttempt`. `HostInv`: while the broker serves, what is shown as being sent has a
  present instance, and a binding is never used again, so that a thread of a former one is not shown again; it gives
  `SendingHasHost` under the assumption that no resolved thread is reopened (4 of section 9 is what happens otherwise).
  `KeptInv`: of an attempt in memory the disk says the same, so that a recovery, which replaces the first by the
  second, undoes no acknowledgement; it gives `AcknowledgementKept`.

**Records.** `RecordsProofs` proves ten properties of section 7.

- `EndedTurnsStayEnded` is about what the broker believes, but what it will believe is still in the pipe of the
  client, or in a request the client has given up and the broker may yet get. `LeaseInv` therefore speaks of every fact told so far:
  `FactInv` says that facts were told in the order of their sequence, the end of a turn after all that tells of it
  as active; `EndedInv` that each fact which calls an ended turn active is `Stale`: of another
  instance, below the sequence the broker has seen, or with a challenge it no longer waits for. Those are the three
  conditions under which `Current` refuses it.
- `ScopeNeverRevived` is an action property and follows from the shape of each step: one that renews a proof fences the task
  first if the old proof had lapsed.
- `CommandOncePerRun` needs the saved descriptor as well as the one in memory, because a crash replaces the second by the first: an
  identity that was dispatched in this run is in both (`CommandInv`).
- `CaptureLimitHolds` likewise: the captures taken of a definition in a run are never more than the count in memory, nor, if
  it is of the same run, the count that is saved (`CaptureInv`). Each taken capture has a hit of its own, below both sequences, so that a
  hit adds one to the number taken and not an old one again.
- `StreamsExact` needs that memory and disk agree on the events (`StreamInv`), that the ring holds the last of those
  numbered so far without a gap (`Ordered`), and, for each client, that what it has seen and what has been gathered for it
  continue its cursor and were saved (`Following`, `Recorded`).
- `AcknowledgedSurvive`: a journal whose handle may still be used has no torn tail and the length the handle believes (`Tracks`); it is
  readable and holds what was acknowledged (`Holds`), and each way to write to it keeps this (`AppendedRecord`, `OpenedJournal`,
  `FailureStage`).
- `DeletionSparesTheLiving`: a launch is invisible to a deletion until its descriptor is published. `RunInv` says what holds
  the deletion back meanwhile: either there is nothing of the run yet, or its archive does not say that it has ended.
- `OrdinaryStopsKept` and `NoGhostPoints`: `InstallInv` says what an installation has done so far to the file it works on: which
  points the backend has, which of those are still the editor's, and that whatever was removed is still remembered. A sequence
  picked from another keeps its order and loses only what was not wanted (`Picked`), so no induction over the points is needed.
- `InvestigationsStable`: `IndexShape` says that no two runs of a file have the same ordinal and that ordinals are positive, `FileShape`
  the same of what a writer is about to install. Every writer extends the file it read, and holds the lock since, or removes the association of
  a run whose archive and session have both been moved away, which is then not `Kept`. What a deletion leaves behind only adds to the runs
  that are numbered, so the argument does not depend on which archives are left. The ordinal a run without one is given is its rank among such runs of its file,
  counted from the last ordinal used (`Ranks`, `LastOrdinals`), so that it is new.

**Traces.** `TracesProofs` proves the nine properties of section 8.

- `QueuedIsHeld` is nearly inductive: it needs that a queue ends only after it was closed, and empty.
- `SentIsStored` depends on where a batch is on its way: in the queue of a store, in front of the barrier of the flush, then stored, or else
  the record says that the store failed. `FlushInv` says so for each stage of the request; the batch being in front of its
  barrier (`Behind`) is why a passed barrier means that the batch was pushed.
- `NothingStranded`: a receipt in memory is one on disk with the same content, which was saved by an author or submitted by a client
  (`ReceiptInv`; the choice of the next revision, `RevisionInv`, makes the author's unambiguous), and publication refuses any other content, so a
  receipt on disk keeps its own; what is in a queue or with a worker is what its receipt says, and what is with a worker that
  will report success has arrived (`BatchInv`). An acceptance, which is recorded from the batch alone, is therefore one of the receipt's content.
- `NothingOverwritten`: `DraftInv` says that a draft whose revision is that of the present document, is of that document, in
  whichever file the document now is; a writer that passes the test of revisions therefore loses nothing. `IndexInv`
  relates the index of imports to the document, and to what an import under way will write there.
- `PushesIntoLiveModules`: the lock has one holder (`LockInv`), the service lives within its process (`ServiceInv`), and modules stop only
  after the admission, which counts who was admitted (`AdmissionInv`).
- `RepliesOfOnePause`: `MovementInv` relates the target to the events still on their way (`Transit`); as long as nothing moves,
  the target stands where it is shown (`Standing`). `ReadInv`: a read whose fence still holds has read nothing but what is shown, unless
  a movement runs that cannot end without a new epoch.
- `ReferencesKeepTheirMeaning`: `ReferenceInv` says that the numbers given out are those up to the last, each once, and that a
  translation of the present generation was given out for what it translates to.
- `FinishedIsWhole` compares a count with a set, so `CountInv` keeps an account: as long as nothing was lost that the recorder will not tell of
  (`Unbroken`) and the capture goes on, what the record has counted and what is still on its way (in the channel, in the request,
  or open) are together at least the items. The end of the recording is the last event taken, so by then nothing is in the channel, and what
  is open is ended and counted: a record that is closed and not failed has counted one span for each item and one for the session
  (`SoundRecord`). `MarkInv` says that what was dropped, refused or given up is remembered, so that an end taken after it is told as
  incomplete. The spans a query reads are among those of the items and the session; as many as were counted are therefore all of them.
- `EditorToldOfPause`: `ToldInv` says that an editor which has not been told of a pause is owed something: the program is known to run, an
  event waits to be handled, or the editor's own start has not been answered. `KnownInv` says that the state the backend knows is that
  of the last event it has read, and `ExitInv` that a program which has exited stays so until another run replaces it.

Only model-checked: `InterruptionSettles`, a liveness property under fairness, which is out of the prover's reach.

## 11. Not modelled

The legacy RPC backend of `beginExecution` and `interruptExecution`, which a session without a DAP adapter
uses; the editor's `terminate`, which ends the target as `StopTarget` does; function breakpoints; the launch of Delve and of the target; the continuation of an earlier run's thread;
formatting and bounding of inspected values; the shape of spans; Tempo's queries and configuration; HTTP routes and
authentication; argument parsing, installation and editor configuration files; the user interfaces. The first are sequential
handlers under the mutex or at the start of a session, the others transform data without concurrent state.
