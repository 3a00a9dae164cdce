---------------------------- MODULE EditorSession ---------------------------
(***************************************************************************)
(* The connection of an editor through its configuration and the start of  *)
(* the program (broker/dap_shared.go, backend_events.go, editor_start.go,  *)
(* with the dispatch of execution.go and the replacement of restart.go).   *)
(*                                                                         *)
(* The editor is told where the program is in two ways: by the events of   *)
(* the adapter, which the broker forwards only once the editor has         *)
(* finished its configuration, and by what follows the response to         *)
(* configurationDone, for which the reader of the connection takes the     *)
(* mutex a second time. In between anybody may move the program, and an    *)
(* event may be in either of its two queues. Movement is that of           *)
(* Execution, reduced to what decides about this; the other debugger       *)
(* clients are "others", humans and an agent.                              *)
(***************************************************************************)
EXTENDS Naturals, Sequences

CONSTANTS
    MaxOrders,      \* bound: movements dispatched
    MaxRenewals     \* bound: connections of an editor and restarts, together

EditorAssumption == MaxOrders \in Nat /\ MaxRenewals \in Nat
ASSUME EditorAssumption

VARIABLES
    program,        \* the target: "paused", "running", "exited", "none" without a backend
    known,          \* Delve.state
    onWire,         \* events the backend has not read
    unhandled,      \* Delve.Events: events the broker has not handled
    moves, fenced,  \* b.moving, b.interrupting
    outstanding,    \* pendingExecution: [n, start], start: of the editor now connected
    lastOrder,      \* b.dispatchSequence
    ownOrder,       \* the order after which handleEpoch has not changed; 0: none
    ordered,        \* what the adapter has not read, what it has answered: n -> answer
    agentWorks,     \* a task is active
    connection,     \* dapPeer
    told,           \* what the connected editor was told last
    startupWaits,   \* awaitEditorConfiguration waits, and no editor is configured yet
    sessionEnded, brokerOver,
    renewals        \* bound counter

movement == <<program, known, onWire, unhandled, moves, fenced, outstanding, lastOrder,
              ownOrder, ordered, agentWorks>>
session  == <<startupWaits, sessionEnded, brokerOver>>
editorVars == <<movement, connection, told, session, renewals>>

Disconnected == [on |-> FALSE, setup |-> FALSE, starts |-> FALSE, ready |-> FALSE,
                 due |-> FALSE, untouched |-> FALSE]

EditorInit ==
    /\ program = "paused" /\ known = "paused" /\ onWire = <<"entry">> /\ unhandled = <<>>
    /\ moves = FALSE /\ fenced = FALSE /\ outstanding = {} /\ lastOrder = 0 /\ ownOrder = 0
    /\ ordered = <<>> /\ agentWorks = FALSE
    /\ connection = Disconnected /\ told = "nothing"
    /\ startupWaits \in BOOLEAN
    /\ sessionEnded = FALSE /\ brokerOver = FALSE /\ renewals = 0

-----------------------------------------------------------------------------
(* Movement. *)

AtRest == ~moves /\ known # "running" /\ outstanding = {}
Engaged == moves \/ fenced \/ known = "running"

\* interruptExecution.
InterruptMovement ==
    IF fenced \/ AtRest THEN UNCHANGED <<fenced, ownOrder>> ELSE fenced' = TRUE /\ ownOrder' = 0

\* dispatchDAP, for the editor's automatic start or for whoever else moves the program.
Order(start) ==
    /\ ~Engaged /\ lastOrder < MaxOrders
    /\ moves' = TRUE /\ lastOrder' = lastOrder + 1 /\ ownOrder' = lastOrder + 1
    /\ outstanding' = outstanding \union {[n |-> lastOrder + 1, start |-> start]}
    /\ ordered' = Append(ordered, "sent")
    /\ UNCHANGED <<program, known, onWire, unhandled, fenced>>

\* setExecutionIntent and interruptExecution: the number of the intent has changed.
Touched == connection' = [connection EXCEPT !.untouched = FALSE]

Serving == ~sessionEnded /\ program # "none"

\* A movement of another client, or of the editor once it is configured (for which it
\* waits for its own start): a human's ends the agent's task. A capture that resumes the
\* program does so under the intent that was there.
MoveProgram ==
    /\ Serving
    /\ Order(FALSE)
    /\ agentWorks' \in {agentWorks, FALSE}
    /\ Touched \/ UNCHANGED connection
    /\ UNCHANGED <<told, session, renewals>>

\* A pause, a cancelled task, or a human movement that preempts the agent's.
InterruptProgram ==
    /\ Serving
    /\ InterruptMovement
    /\ agentWorks' \in {agentWorks, FALSE}
    /\ Touched
    /\ UNCHANGED <<program, known, onWire, unhandled, moves, outstanding, lastOrder, ordered,
                   told, session, renewals>>

AgentBegins ==
    /\ Serving /\ ~agentWorks /\ ~moves /\ known = "paused"
    /\ agentWorks' = TRUE
    /\ UNCHANGED <<program, known, onWire, unhandled, moves, fenced, outstanding, lastOrder,
                   ownOrder, ordered, connection, told, session, renewals>>

\* Nobody waits any more for the answer to an order that was given up.
Awaited(n, answer) == IF \E o \in outstanding : o.n = n THEN answer ELSE "gone"

\* The adapter runs an order, and tells of it if it is a step; or it rejects it.
ProgramObeys ==
    \E n \in DOMAIN ordered :
        /\ ordered[n] = "sent" /\ \A m \in 1 .. n - 1 : ordered[m] # "sent"
        /\ \/ /\ program = "paused"
              /\ program' = "running" /\ ordered' = [ordered EXCEPT ![n] = Awaited(n, "done")]
              /\ onWire' \in {onWire, Append(onWire, "continued")}
           \/ /\ ordered' = [ordered EXCEPT ![n] = Awaited(n, "rejected")]
              /\ UNCHANGED <<program, onWire>>
    /\ UNCHANGED <<known, unhandled, moves, fenced, outstanding, lastOrder, ownOrder,
                   agentWorks, connection, told, session, renewals>>

\* It stops at a breakpoint, by a pause, or for good.
ProgramHalts ==
    /\ program = "running"
    /\ \E kind \in {"stopped", "exited"} :
          /\ program' = IF kind = "stopped" THEN "paused" ELSE "exited"
          /\ onWire' = Append(onWire, kind)
    /\ UNCHANGED <<known, unhandled, moves, fenced, outstanding, lastOrder, ownOrder,
                   ordered, agentWorks, connection, told, session, renewals>>

StateAfter(e) == CASE e = "continued" -> "running" [] e = "exited" -> "exited"
                   [] OTHER -> "paused"

\* Delve.events: an entry stop that a movement has overtaken is dropped.
BackendReads ==
    /\ onWire # <<>>
    /\ LET e == Head(onWire) IN
       IF e = "entry" /\ known = "running" THEN UNCHANGED <<known, unhandled>>
       ELSE known' = StateAfter(e) /\ unhandled' = Append(unhandled, e)
    /\ onWire' = Tail(onWire)
    /\ UNCHANGED <<program, moves, fenced, outstanding, lastOrder, ownOrder, ordered,
                   agentWorks, connection, told, session, renewals>>

Forwarded(e) == connection.on /\ (connection.ready \/ e = "exited")

\* watchBackend.
BrokerHandles ==
    /\ unhandled # <<>>
    /\ LET e == Head(unhandled) IN
       /\ moves' = (e = "continued")
       /\ told' = IF Forwarded(e) THEN StateAfter(e) ELSE told
       /\ agentWorks' = (agentWorks /\ e # "exited")
    /\ unhandled' = Tail(unhandled) /\ ownOrder' = 0
    /\ UNCHANGED <<program, known, onWire, fenced, outstanding, lastOrder, ordered,
                   connection, session, renewals>>

\* The goroutine of a dispatch: answered, or not within its eight seconds.
OrderSettles ==
    \E o \in outstanding :
        /\ outstanding' = outstanding \ {o}
        /\ ordered' = [ordered EXCEPT ![o.n] = IF @ = "sent" THEN @ ELSE "gone"]
        /\ LET rejected == ordered[o.n] = "rejected"
               back == rejected /\ (o.n = ownOrder \/ (o.n = lastOrder /\ known # "running"))
           IN \/ /\ ordered[o.n] # "sent"
                 /\ moves' = (moves /\ ~back)
                 /\ told' = IF rejected /\ o.start /\ told = "nothing" THEN "refused" ELSE told
                 /\ UNCHANGED <<fenced, ownOrder>>
              \/ /\ IF o.n = ownOrder THEN fenced' = TRUE /\ ownOrder' = 0
                    ELSE UNCHANGED <<fenced, ownOrder>>
                 /\ UNCHANGED <<moves, told>>
        /\ UNCHANGED <<program, known, onWire, unhandled, lastOrder, agentWorks, connection,
                       session, renewals>>

\* The worker of an interruption finds the program at rest.
FenceFalls ==
    /\ fenced /\ AtRest
    /\ fenced' = FALSE
    /\ UNCHANGED <<program, known, onWire, unhandled, moves, outstanding, lastOrder, ownOrder,
                   ordered, agentWorks, connection, told, session, renewals>>

-----------------------------------------------------------------------------
(* The editor's connection. *)

\* One editor at a time, authenticated for the present run.
ConnectEditor ==
    /\ Serving /\ ~connection.on /\ renewals < MaxRenewals
    /\ connection' = [Disconnected EXCEPT !.on = TRUE]
    /\ told' = "nothing" /\ renewals' = renewals + 1
    /\ UNCHANGED <<movement, session>>

\* attach, or launch with or without stopOnEntry.
SetUp ==
    /\ connection.on /\ ~connection.setup
    /\ \E starts \in BOOLEAN :
          connection' = [connection EXCEPT !.setup = TRUE, !.starts = starts]
    /\ UNCHANGED <<movement, told, session, renewals>>

ConfigurationDone ==
    /\ connection.setup /\ ~connection.ready
    /\ connection' = [connection EXCEPT !.ready = TRUE, !.due = TRUE, !.untouched = TRUE]
    /\ startupWaits' = FALSE
    /\ UNCHANGED <<movement, told, sessionEnded, brokerOver, renewals>>

Refused == IF told = "nothing" THEN "refused" ELSE told

\* MUTANT of Announced: an editor that starts the program hears of its stop anyway.
AnnouncedLater == IF connection.starts \/ known = "running" THEN told ELSE "paused"

Announced == IF known = "running" THEN told ELSE "paused"

\* After the response: the editor's own start, unless somebody has acted since; or what
\* it missed of the program's state. The start is refused, and the editor not told,
\* while the agent moves the program, while somebody else does, and under a fence.
FollowConfiguration ==
    /\ connection.due /\ Serving
    /\ connection' = [connection EXCEPT !.due = FALSE, !.untouched = FALSE]
    /\ IF connection.starts /\ connection.untouched
       THEN /\ agentWorks' = FALSE
            /\ IF agentWorks /\ (Engaged \/ outstanding # {})
               THEN /\ InterruptMovement /\ told' = Refused
                    /\ UNCHANGED <<program, known, onWire, unhandled, moves, outstanding,
                                   lastOrder, ordered>>
               ELSE IF Engaged
               THEN /\ told' = Refused
                    /\ UNCHANGED <<program, known, onWire, unhandled, moves, fenced,
                                   outstanding, lastOrder, ownOrder, ordered>>
               ELSE Order(TRUE) /\ UNCHANGED told
       ELSE told' = Announced /\ UNCHANGED movement
    /\ UNCHANGED <<session, renewals>>

\* The session has ended meanwhile: nothing follows.
FollowNothing ==
    /\ connection.due /\ ~Serving
    /\ connection' = [connection EXCEPT !.due = FALSE, !.untouched = FALSE]
    /\ UNCHANGED <<movement, told, session, renewals>>

\* By the editor, or because its connection broke; also before what follows the
\* configuration.
DisconnectEditor ==
    /\ connection.on
    /\ connection' = Disconnected /\ told' = "nothing"
    /\ outstanding' = {[o EXCEPT !.start = FALSE] : o \in outstanding}
    /\ UNCHANGED <<program, known, onWire, unhandled, moves, fenced, lastOrder, ownOrder,
                   ordered, agentWorks, session, renewals>>

-----------------------------------------------------------------------------
(* Another run, and the end. *)

\* restartLocked: another program behind another backend, or none and the session's end.
\* What waited for the old one finds another backend.
Replaced(opened) ==
    /\ program' = IF opened THEN "paused" ELSE "none"
    /\ known' = IF opened THEN "paused" ELSE "exited"
    /\ onWire' = IF opened THEN <<"entry">> ELSE <<>>
    /\ unhandled' = <<>> /\ moves' = FALSE /\ fenced' = FALSE
    /\ outstanding' = {} /\ ownOrder' = 0 /\ agentWorks' = FALSE
    /\ ordered' = [n \in DOMAIN ordered |-> "gone"]
    /\ sessionEnded' = ~opened
    /\ renewals' = renewals + 1
    /\ UNCHANGED <<lastOrder, startupWaits, brokerOver>>

\* The editor's own restart keeps its connection, which has to be configured again.
EditorRestarts ==
    /\ connection.ready /\ ~connection.due /\ Serving /\ renewals < MaxRenewals
    /\ \E opened \in BOOLEAN :
          /\ Replaced(opened)
          /\ connection' = [connection EXCEPT !.ready = ~opened]
    /\ told' = "nothing"

\* Anybody else's disconnects the editor.
OthersRestart ==
    /\ Serving /\ renewals < MaxRenewals
    /\ \E opened \in BOOLEAN : Replaced(opened)
    /\ connection' = Disconnected /\ told' = "nothing"

\* It is refused before anything is replaced; the task is cancelled all the same.
RestartRefused ==
    /\ Serving /\ (agentWorks \/ connection.untouched)
    /\ agentWorks' = FALSE /\ Touched
    /\ UNCHANGED <<program, known, onWire, unhandled, moves, fenced, outstanding, lastOrder,
                   ownOrder, ordered, told, session, renewals>>

\* endTargetLocked: Delve kills the target, or nothing but the intent changes.
EndTarget ==
    \/ /\ sessionEnded' = TRUE /\ program' = "exited" /\ onWire' = Append(onWire, "exited")
    \/ UNCHANGED <<sessionEnded, program, onWire>>

StopSession ==
    /\ Serving
    /\ EndTarget /\ agentWorks' = FALSE /\ Touched
    /\ UNCHANGED <<known, unhandled, moves, fenced, outstanding, lastOrder, ownOrder, ordered,
                   told, startupWaits, brokerOver, renewals>>

\* The thirty seconds of a launch by an editor are over.
StartupExpires ==
    /\ startupWaits
    /\ startupWaits' = FALSE
    /\ IF sessionEnded
       THEN UNCHANGED <<sessionEnded, program, onWire, agentWorks, connection>>
       ELSE EndTarget /\ agentWorks' = FALSE /\ Touched
    /\ UNCHANGED <<known, unhandled, moves, fenced, outstanding, lastOrder, ownOrder, ordered,
                   told, brokerOver, renewals>>

\* An ended session leaves after 150 milliseconds; at once, when the editor first uses
\* the backend that a failed restart left missing.
BrokerLeaves ==
    /\ sessionEnded
    /\ brokerOver' = TRUE /\ connection' = Disconnected /\ told' = "nothing"
    /\ UNCHANGED <<movement, startupWaits, sessionEnded, renewals>>

-----------------------------------------------------------------------------
Moving == \/ MoveProgram \/ InterruptProgram \/ AgentBegins \/ ProgramObeys \/ ProgramHalts
          \/ BackendReads \/ BrokerHandles \/ OrderSettles \/ FenceFalls
Editing == \/ ConnectEditor \/ SetUp \/ ConfigurationDone \/ FollowConfiguration
           \/ FollowNothing \/ DisconnectEditor
Ending == \/ EditorRestarts \/ OthersRestart \/ RestartRefused \/ StopSession \/ StartupExpires
          \/ BrokerLeaves
EditorNext == ~brokerOver /\ (Moving \/ Editing \/ Ending)
EditorSpec == EditorInit /\ [][EditorNext]_editorVars

-----------------------------------------------------------------------------
(* Correctness. *)

\* The program stands, and everything about it has reached the broker.
Quiet == /\ Serving /\ program = "paused" /\ AtRest /\ ~fenced
         /\ onWire = <<>> /\ unhandled = <<>>

\* An editor that has finished its configuration has been told that the program stands
\* when it does, whoever moved it, whichever way it stopped, and however that fell into
\* the configuration, the gap behind it, or a restart. The one exception is an editor
\* whose automatic start was refused: that is recorded and not told (dap_shared.go:181).
EditorToldOfPause ==
    Quiet /\ connection.ready /\ ~connection.due => told \in {"paused", "refused"}
=============================================================================
