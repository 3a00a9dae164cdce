----------------------------- MODULE Inspection ----------------------------
(***************************************************************************)
(* Reading a paused target without the broker's mutex                      *)
(* (broker/inspection_service.go, dap_handles.go, snapshot.go,             *)
(* dap_shared.go, backend/inspection.go, and the movement of               *)
(* broker/execution.go, backend_events.go and restart.go they race with):  *)
(* snapshots and evaluations of the service, and the requests of the       *)
(* connected editor, whose references to frames and values stand for the   *)
(* adapter's own, which are given out anew at every stop.                  *)
(*                                                                         *)
(* The target moves only when the broker makes it. Its stops are numbered, *)
(* and what is read at a stop is that number.                              *)
(***************************************************************************)
EXTENDS Naturals, Sequences, FiniteSetsExt

CONSTANTS
    Reads,          \* requests under way at a time
    PeerReads,      \* inspections of an editor: 8
    MaxStopsRead, MaxEpochs, MaxHandles, MaxPeers, MaxRestarts  \* bounds

InspectionAssumption ==
    /\ Reads \in SUBSET Nat /\ PeerReads \in Nat
    /\ MaxStopsRead \in Nat /\ MaxEpochs \in Nat /\ MaxHandles \in Nat /\ MaxPeers \in Nat /\ MaxRestarts \in Nat
ASSUME InspectionAssumption

VARIABLES
    target,         \* the adapter: the number of its stop, 0 while it runs
    lastStop,       \* stops so far
    backend,        \* the number of the broker's backend, that is of its run
    arriving,       \* events of the adapter, not yet received by the backend
    received,       \* Delve.Events: received, not yet handled by the broker
    backendEpoch, running,          \* Delve.epoch, Delve.state
    handleEpoch, moving, interrupting, orders,  \* orders: dispatched, and not decided
    shown,          \* the stop whose event the broker has handled last
    peer,           \* the number of the editor's connection; 0: none
    peersSeen,
    handles, nextHandle,            \* dapPeer.handles: [id, generation, origin]
    held,           \* what the editor holds: [id, origin]
    reads,          \* [kind, peer, fence, handle, got, stage]
    reply           \* the last reply, if it was successful: [got, shown, named]

targetSide == <<target, lastStop, arriving>>
epochs == <<backend, received, backendEpoch, running, handleEpoch, moving, interrupting,
            orders, shown>>
editor == <<peer, peersSeen, handles, nextHandle, held>>
inspectionVars == <<targetSide, epochs, editor, reads, reply>>

NoFence == [backend |-> 0, handle |-> 0, adapter |-> 0]
NoRead == [kind |-> "none", peer |-> 0, fence |-> NoFence, named |-> 0, got |-> {},
           left |-> 0]
NoReply == [got |-> {}, shown |-> 0, named |-> 0]

InspectionInit ==
    /\ target = 1 /\ lastStop = 1 /\ arriving = <<>>
    /\ backend = 1 /\ received = <<>> /\ backendEpoch = 0 /\ running = FALSE
    /\ handleEpoch = 0 /\ moving = FALSE /\ interrupting = FALSE /\ orders = {}
    /\ shown = 1
    /\ peer = 0 /\ peersSeen = 0
    /\ handles = {} /\ nextHandle = 0 /\ held = {}
    /\ reads = [r \in Reads |-> NoRead] /\ reply = NoReply

-----------------------------------------------------------------------------
(* Movement. *)

\* dispatchDAP, for whoever is allowed to move the target.
Dispatch ==
    /\ ~moving /\ ~interrupting /\ ~running /\ handleEpoch < MaxEpochs
    /\ moving' = TRUE /\ handleEpoch' = handleEpoch + 1
    /\ orders' = orders \union {handleEpoch + 1}
    /\ UNCHANGED <<targetSide, backend, received, backendEpoch, running, interrupting,
                   shown, editor, reads, reply>>

\* The adapter runs what was ordered, or rejects it; the rejection rolls the movement
\* back, unless the epoch has changed since.
TargetRuns ==
    /\ orders # {} /\ target # 0 /\ lastStop < MaxStopsRead
    /\ target' = 0 /\ orders' = {}
    /\ \E told \in BOOLEAN :
          arriving' = IF told THEN Append(arriving, [kind |-> "continued", stop |-> 0])
                      ELSE arriving
    /\ UNCHANGED <<lastStop, backend, received, backendEpoch, running, handleEpoch, moving,
                   interrupting, shown, editor, reads, reply>>

TargetRefuses ==
    /\ orders # {} /\ target # 0
    /\ orders' = {}
    /\ moving' = (moving /\ handleEpoch \notin orders /\ running)
    /\ UNCHANGED <<targetSide, backend, received, backendEpoch, running, handleEpoch,
                   interrupting, shown, editor, reads, reply>>

\* It stops, by itself or because it is interrupted.
TargetStops ==
    /\ target = 0
    /\ target' = lastStop + 1 /\ lastStop' = lastStop + 1
    /\ arriving' = Append(arriving, [kind |-> "stopped", stop |-> lastStop + 1])
    /\ UNCHANGED <<epochs, editor, reads, reply>>

\* Delve.events: the backend notes an event before the broker can handle it.
Receive ==
    /\ arriving # <<>>
    /\ backendEpoch' = backendEpoch + 1
    /\ running' = (Head(arriving).kind = "continued")
    /\ received' = Append(received, Head(arriving))
    /\ arriving' = Tail(arriving)
    /\ UNCHANGED <<target, lastStop, backend, handleEpoch, moving, interrupting, orders,
                   shown, editor, reads, reply>>

\* watchBackend.
HandleBackendEvent ==
    /\ received # <<>>
    /\ LET e == Head(received) IN
       /\ moving' = (e.kind = "continued")
       /\ shown' = IF e.kind = "stopped" THEN e.stop ELSE shown
    /\ handleEpoch' = handleEpoch + 1
    /\ received' = Tail(received)
    /\ UNCHANGED <<targetSide, backend, backendEpoch, running, interrupting, orders, editor,
                   reads, reply>>

\* interruptDAP, and its worker when the stop has been handled and nothing is pending.
Interrupt ==
    /\ ~interrupting /\ (moving \/ running \/ orders # {})
    /\ handleEpoch < MaxEpochs
    /\ interrupting' = TRUE /\ handleEpoch' = handleEpoch + 1
    /\ UNCHANGED <<targetSide, backend, received, backendEpoch, running, moving, orders,
                   shown, editor, reads, reply>>

InterruptSettles ==
    /\ interrupting /\ ~moving /\ ~running /\ orders = {}
    /\ interrupting' = FALSE
    /\ UNCHANGED <<targetSide, backend, received, backendEpoch, running, handleEpoch, moving,
                   orders, shown, editor, reads, reply>>

\* restartLocked: another target behind another backend, stopped at its entry. The
\* events of the old one are dropped.
Restart ==
    /\ backend <= MaxRestarts /\ lastStop < MaxStopsRead
    /\ backend' = backend + 1
    /\ target' = lastStop + 1 /\ lastStop' = lastStop + 1 /\ shown' = lastStop + 1
    /\ arriving' = <<>> /\ received' = <<>> /\ orders' = {}
    /\ backendEpoch' = 0 /\ running' = FALSE
    /\ moving' = FALSE /\ interrupting' = FALSE /\ handleEpoch' = handleEpoch + 1
    /\ UNCHANGED <<peer, peersSeen, handles, nextHandle, held, reads, reply>>

-----------------------------------------------------------------------------
(* The editor's connection. *)

ConnectPeer ==
    /\ peer = 0 /\ peersSeen < MaxPeers
    /\ peer' = peersSeen + 1 /\ peersSeen' = peersSeen + 1
    /\ handles' = {} /\ nextHandle' = 0 /\ held' = {}
    /\ UNCHANGED <<targetSide, epochs, reads, reply>>

\* Its reads go on; their answers have nowhere to go.
DisconnectPeer ==
    /\ peer # 0
    /\ peer' = 0
    /\ handles' = {} /\ held' = {}
    /\ UNCHANGED <<targetSide, epochs, peersSeen, nextHandle, reads, reply>>

-----------------------------------------------------------------------------
(* Reading. *)

Fence == [backend |-> backend, handle |-> handleEpoch, adapter |-> backendEpoch]

\* inspectSnapshot reads a stack and then its values, evaluateService one value, at
\* whatever state the broker is in.
BeginServiceRead(r) ==
    /\ reads[r] = NoRead
    /\ \E n \in 1 .. 2 :
          reads' = [reads EXCEPT ![r] =
             [NoRead EXCEPT !.kind = "service", !.fence = Fence, !.left = n]]
    /\ UNCHANGED <<targetSide, epochs, editor, reply>>

\* translateArguments: a reference is known for its generation only.
Translated(id) == {h \in handles : h.id = id /\ h.generation = handleEpoch}

\* inspectEditor, with a reference the editor holds or (0) without one.
BeginEditorRead(r) ==
    /\ reads[r] = NoRead /\ peer # 0
    /\ ~moving /\ ~interrupting
    /\ Cardinality({s \in Reads : reads[s].kind = "editor" /\ reads[s].peer = peer}) < PeerReads
    /\ \E h \in held \union {[id |-> 0, origin |-> 0]} :
          /\ h.id # 0 => Translated(h.id) # {}
          /\ reads' = [reads EXCEPT ![r] =
                [NoRead EXCEPT !.kind = "editor", !.peer = peer, !.fence = Fence,
                               !.named = h.origin, !.left = 1]]
    /\ UNCHANGED <<targetSide, epochs, editor, reply>>

\* The adapter answers one request of a read, at whatever stop it is; a running or a
\* replaced target answers with an error, which the result of a snapshot tells of.
AdapterAnswers(r) ==
    /\ reads[r].left > 0
    /\ reads' = [reads EXCEPT ![r].left = @ - 1,
                              ![r].got = IF target # 0 /\ reads[r].fence.backend = backend
                                         THEN @ \union {target} ELSE @]
    /\ UNCHANGED <<targetSide, epochs, editor, reply>>

\* MUTANT of Valid: any pause of the same target will do.
ValidPaused(f) == f.backend = backend /\ ~moving

\* The fence, checked under the mutex again; the service's also has the adapter's epoch.
\* For an editor the backend compares that itself, before the mutex is taken, which is
\* left out: it only refuses more.
Valid(f) ==
    /\ f.backend = backend /\ f.handle = handleEpoch
    /\ ~moving

EndServiceRead(r) ==
    /\ reads[r].kind = "service" /\ reads[r].left = 0
    /\ reads' = [reads EXCEPT ![r] = NoRead]
    /\ reply' = IF Valid(reads[r].fence) /\ reads[r].fence.adapter = backendEpoch
                THEN [got |-> reads[r].got, shown |-> shown, named |-> 0] ELSE NoReply
    /\ UNCHANGED <<targetSide, epochs, editor>>

\* MUTANT of NextHandle: what is stale is free again.
NextHandleAnew(kept) == Cardinality(kept) + 1

NextHandle(kept) == nextHandle + 1

\* The reply to an editor gives out references to what it shows, and drops those of
\* other generations.
EndEditorRead(r) ==
    /\ reads[r].kind = "editor" /\ reads[r].left = 0
    /\ reads' = [reads EXCEPT ![r] = NoRead]
    /\ IF reads[r].peer = peer /\ Valid(reads[r].fence) /\ reads[r].got # {}
       THEN LET kept == {h \in handles : h.generation = reads[r].fence.handle}
                id   == NextHandle(kept)
                stop == CHOOSE s \in reads[r].got : TRUE
            IN  /\ nextHandle < MaxHandles
                /\ nextHandle' = id
                /\ handles' = kept \union
                      {[id |-> id, generation |-> reads[r].fence.handle, origin |-> stop]}
                /\ held' = held \union {[id |-> id, origin |-> stop]}
                /\ reply' = [got |-> reads[r].got, shown |-> shown, named |-> reads[r].named]
       ELSE /\ reply' = NoReply
            /\ UNCHANGED <<handles, nextHandle, held>>
    /\ UNCHANGED <<targetSide, epochs, peer, peersSeen>>

-----------------------------------------------------------------------------
Movement == \/ Dispatch \/ TargetRuns \/ TargetRefuses \/ TargetStops \/ Receive
            \/ HandleBackendEvent \/ Interrupt \/ InterruptSettles \/ Restart
Connection == ConnectPeer \/ DisconnectPeer
Reading == \E r \in Reads :
              \/ BeginServiceRead(r) \/ BeginEditorRead(r) \/ AdapterAnswers(r)
              \/ EndServiceRead(r) \/ EndEditorRead(r)
InspectionNext == Movement \/ Connection \/ Reading
InspectionSpec == InspectionInit /\ [][InspectionNext]_inspectionVars

-----------------------------------------------------------------------------
(* Correctness. *)

\* What a successful reply shows was read at the one stop the broker was showing, however
\* the target was moved, interrupted or restarted while it was read
\* (inspection_service.go:24, :96).
RepliesOfOnePause == reply.got \subseteq {reply.shown}

\* A reference an editor has been given never leads to another frame or value than the
\* one it was given for: no number is used twice on a connection, and one of an earlier
\* stop is refused, although the adapter uses its numbers again (dap_handles.go:7).
ReferencesKeepTheirMeaning ==
    /\ \A h, k \in held : h.id = k.id => h = k
    /\ \A h \in held : \A t \in Translated(h.id) : t.origin = h.origin
    /\ reply.named # 0 => reply.got \subseteq {reply.named}
=============================================================================
