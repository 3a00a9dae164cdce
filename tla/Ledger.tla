------------------------------- MODULE Ledger -------------------------------
(***************************************************************************)
(* What the broker promises by writing its descriptor first: the events it *)
(* streams (broker/events.go, emit in notifications.go), the identities of *)
(* the commands it dispatches (actions.go), and the captures it takes      *)
(* (capture.go), over crashes with recovery (lifecycle.go) and new runs    *)
(* (restart.go).                                                           *)
(*                                                                         *)
(* The broker works under one mutex on a descriptor in memory; a write     *)
(* replaces the saved one or leaves it. Streams and inspections run        *)
(* outside the mutex. Whether a capture is stale and resumes the target is *)
(* the business of Execution.                                              *)
(***************************************************************************)
EXTENDS Naturals, SequencesExt, FiniteSetsExt

CONSTANTS
    Tails,          \* clients that follow the events
    CommandIds,     \* commandId of requests, chosen by clients
    Tracepoints,    \* definitions that capture
    CaptureLimit,   \* captureLimit of each
    Ring,           \* events the descriptor keeps: 256
    MaxPending,     \* captures at work at once: 8
    MaxCursor, MaxSequence, MaxRuns, MaxBindings, MaxLedgerFaults   \* bounds

VARIABLES
    mem,            \* b.s
    saved,          \* session.json
    up,             \* a broker serves the session
    tail,           \* the clients: [open, bound, cursor, batch], and from, seen
    inspecting,     \* the captures whose goroutine is at work
    dispatched,     \* history: how often a command went to the target in a run
    taken,          \* history: captures that were inspected: [run, def, seq]
    ledgerFaults

ledgerVars == <<mem, saved, up, tail, inspecting, dispatched, taken, ledgerFaults>>

LedgerAssumption ==
    /\ CaptureLimit \in Nat /\ Ring \in Nat \ {0} /\ MaxPending \in Nat \ {0}
    /\ MaxCursor \in Nat /\ MaxSequence \in Nat /\ MaxRuns \in Nat
    /\ MaxBindings \in Nat /\ MaxLedgerFaults \in Nat
    /\ IsFiniteSet(Tracepoints)
ASSUME LedgerAssumption

LedgerInit ==
    /\ mem = [cursor |-> 0, events |-> <<>>, commands |-> {}, run |-> 1, binding |-> 1,
              counts |-> [d \in Tracepoints |-> 0], sequence |-> 0, stopped |-> FALSE]
    /\ saved = mem
    /\ up = TRUE
    /\ tail = [c \in Tails |-> [open |-> FALSE, bound |-> 0, cursor |-> 0, batch |-> <<>>,
                                from |-> 0, seen |-> <<>>]]
    /\ inspecting = {}
    /\ dispatched = [r \in 1 .. MaxRuns |-> [id \in CommandIds |-> 0]]
    /\ taken = {}
    /\ ledgerFaults = 0

Failing == ledgerFaults < MaxLedgerFaults /\ ledgerFaults' = ledgerFaults + 1
Persists == saved' = mem' /\ UNCHANGED ledgerFaults
NotPersists == UNCHANGED saved /\ Failing
Serving == up /\ ~mem.stopped

-----------------------------------------------------------------------------
(* Events. *)

Numbered(s, kind, i) == [id |-> s.cursor + i, kind |-> kind, binding |-> s.binding]
LastOf(seq, n) == IF Len(seq) > n THEN SubSeq(seq, Len(seq) - n + 1, Len(seq)) ELSE seq
WithEvents(s, kind, n) ==
    [s EXCEPT !.cursor = @ + n,
              !.events = LastOf(@ \o [i \in 1 .. n |-> Numbered(s, kind, i)], Ring)]

\* emit on the descriptor s: an event that is not saved is taken back, and nothing else.
EmitOn(s, kind) ==
    /\ s.cursor < MaxCursor
    /\ \/ mem' = WithEvents(s, kind, 1) /\ Persists
       \/ mem' = s /\ NotPersists

Emit ==
    /\ Serving
    /\ EmitOn(mem, "other")
    /\ UNCHANGED <<up, tail, inspecting, dispatched, taken>>

\* bind: the new binding stays in memory when its event is not saved.
Bind ==
    /\ Serving /\ mem.binding < MaxBindings
    /\ EmitOn([mem EXCEPT !.binding = @ + 1], "binding_changed")
    /\ UNCHANGED <<up, tail, inspecting, dispatched, taken>>

\* stop: the descriptor says so whether or not its event is saved.
StopRun ==
    /\ Serving
    /\ EmitOn([mem EXCEPT !.stopped = TRUE], "terminated")
    /\ UNCHANGED <<up, tail, inspecting, dispatched, taken>>

-----------------------------------------------------------------------------
(* Streams. *)

\* Mutant of Overtaken: one event too late.
OvertakenLate(cursor) == mem.events # <<>> /\ cursor + 2 < Head(mem.events).id

Overtaken(cursor) == mem.events # <<>> /\ cursor + 1 < Head(mem.events).id

Connect(c, bound) ==
    /\ up /\ ~tail[c].open
    /\ tail[c].cursor <= mem.cursor /\ ~Overtaken(tail[c].cursor)
    /\ bound \in {0, mem.binding}
    /\ tail' = [tail EXCEPT ![c].open = TRUE, ![c].bound = bound]
    /\ UNCHANGED <<mem, saved, up, inspecting, dispatched, taken, ledgerFaults>>

\* 409, or a reset on the stream: the client reads the state and uses its cursor.
Refresh(c) ==
    /\ up
    /\ IF tail[c].open
       THEN tail[c].batch = <<>> /\ Overtaken(tail[c].cursor)
       ELSE tail[c].cursor > mem.cursor \/ Overtaken(tail[c].cursor)
    /\ tail' = [tail EXCEPT ![c] = [@ EXCEPT !.open = FALSE, !.cursor = mem.cursor,
                                             !.from = mem.cursor, !.seen = <<>>]]
    /\ UNCHANGED <<mem, saved, up, inspecting, dispatched, taken, ledgerFaults>>

\* Under the mutex: what the stream has not sent, which are the events after the first n.
Gather(c) ==
    /\ up /\ tail[c].open /\ tail[c].batch = <<>> /\ ~Overtaken(tail[c].cursor)
    /\ tail[c].cursor < mem.cursor
    /\ \E n \in 0 .. Len(mem.events) :
          /\ \A i \in DOMAIN mem.events : mem.events[i].id > tail[c].cursor <=> i > n
          /\ tail' = [tail EXCEPT ![c].batch = SubSeq(mem.events, n + 1, Len(mem.events))]
    /\ UNCHANGED <<mem, saved, up, inspecting, dispatched, taken, ledgerFaults>>

\* After it; the last event of the run, or one of another binding, ends the stream.
Send(c) ==
    LET client == tail[c]
        event == Head(client.batch)
        last == event.kind = "terminated"
                \/ (client.bound # 0 /\ event.binding # client.bound)
    IN  /\ up /\ client.open /\ client.batch # <<>>
        /\ tail' = [tail EXCEPT ![c] =
              [client EXCEPT !.cursor = event.id, !.seen = Append(client.seen, event),
                             !.open = ~last,
                             !.batch = IF last THEN <<>> ELSE Tail(client.batch)]]
        /\ UNCHANGED <<mem, saved, up, inspecting, dispatched, taken, ledgerFaults>>

Drop(c) ==
    /\ tail[c].open
    /\ tail' = [tail EXCEPT ![c].open = FALSE, ![c].batch = <<>>]
    /\ UNCHANGED <<mem, saved, up, inspecting, dispatched, taken, ledgerFaults>>

-----------------------------------------------------------------------------
(* Commands. *)

\* Mutant of Submit: the identity is saved after the dispatch.
SubmitLate(id) ==
    /\ Serving /\ id \notin mem.commands
    /\ \/ mem' = [mem EXCEPT !.commands = @ \cup {id}] /\ Persists
       \/ UNCHANGED mem /\ NotPersists
    /\ dispatched' = [dispatched EXCEPT ![mem.run][id] = @ + 1]
    /\ UNCHANGED <<up, tail, inspecting, taken>>

\* A request that fails after its identity was saved, or whose broker dies, is used up.
Submit(id) ==
    /\ Serving /\ id \notin mem.commands
    /\ \/ /\ mem' = [mem EXCEPT !.commands = @ \cup {id}] /\ Persists
          /\ dispatched' \in {dispatched, [dispatched EXCEPT ![mem.run][id] = @ + 1]}
       \/ UNCHANGED <<mem, dispatched>> /\ NotPersists
    /\ UNCHANGED <<up, tail, inspecting, taken>>

-----------------------------------------------------------------------------
(* Captures. *)

\* A hit of the definitions D: a number for each, and a place in its limit if one is left.
Reserved(D) ==
    [mem EXCEPT !.sequence = @ + Cardinality(D),
                !.counts = [d \in Tracepoints |->
                              IF d \in D /\ @[d] < CaptureLimit THEN @[d] + 1 ELSE @[d]]]

Allowed(D) == {d \in D : mem.counts[d] < CaptureLimit}

\* Mutant of Hit: the inspection does not wait for the reservation.
HitUnsaved(D) ==
    /\ Serving /\ D # {} /\ Cardinality(inspecting) < MaxPending
    /\ mem.sequence + Cardinality(D) <= MaxSequence
    /\ mem' = Reserved(D)
    /\ \/ Persists \/ NotPersists
    /\ inspecting' = inspecting \cup {[first |-> mem.sequence + 1, defs |-> D]}
    /\ taken' = taken \cup [run : {mem.run}, def : Allowed(D), hit : {mem.sequence + 1}]
    /\ UNCHANGED <<up, tail, dispatched>>

\* A reservation that is not saved still counts in memory.
Hit(D) ==
    /\ Serving /\ D # {} /\ Cardinality(inspecting) < MaxPending
    /\ mem.sequence + Cardinality(D) <= MaxSequence
    /\ mem' = Reserved(D)
    /\ \/ /\ Persists
          /\ inspecting' = inspecting \cup {[first |-> mem.sequence + 1, defs |-> D]}
          /\ taken' = taken \cup [run : {mem.run}, def : Allowed(D), hit : {mem.sequence + 1}]
       \/ NotPersists /\ UNCHANGED <<inspecting, taken>>
    /\ UNCHANGED <<up, tail, dispatched>>

\* The outcome of each is an event; the failure of one to be saved is ignored.
Capture(hit) ==
    /\ up /\ hit \in inspecting /\ mem.cursor + Cardinality(hit.defs) <= MaxCursor
    /\ inspecting' = inspecting \ {hit}
    /\ \E lost \in BOOLEAN :
          LET outcomes == Cardinality(hit.defs) - (IF lost THEN 1 ELSE 0) IN
          /\ mem' = WithEvents(mem, "capture", outcomes)
          /\ IF outcomes = 0 THEN UNCHANGED saved ELSE saved' = mem'
          /\ IF lost THEN Failing ELSE UNCHANGED ledgerFaults
    /\ UNCHANGED <<up, tail, dispatched, taken>>

-----------------------------------------------------------------------------
(* Lifetimes. *)

\* A new run forgets the commands and the counts, not the numbers; without it the
\* session ends.
NewRun ==
    /\ Serving /\ mem.run < MaxRuns
    /\ \E started \in BOOLEAN :
          /\ mem' = [mem EXCEPT !.run = @ + 1, !.commands = {}, !.stopped = ~started,
                                !.counts = [d \in Tracepoints |-> 0]]
          /\ IF started THEN Persists ELSE NotPersists \/ (saved' = mem' /\ Failing)
    /\ UNCHANGED <<up, tail, inspecting, dispatched, taken>>

Disconnected == [c \in Tails |-> [tail[c] EXCEPT !.open = FALSE, !.batch = <<>>]]

BrokerCrash ==
    /\ up /\ Failing
    /\ up' = FALSE
    /\ tail' = Disconnected
    /\ inspecting' = {}
    /\ UNCHANGED <<mem, saved, dispatched, taken>>

\* At its end, the broker saves what it has, and waits for the captures.
BrokerExit ==
    /\ up /\ inspecting = {}
    /\ up' = FALSE
    /\ tail' = Disconnected
    /\ \/ saved' = mem /\ UNCHANGED ledgerFaults
       \/ NotPersists
    /\ UNCHANGED <<mem, inspecting, dispatched, taken>>

\* A session whose target was killed, by a stop or for a new run, is not recovered.
Recover ==
    /\ ~up /\ ~saved.stopped /\ ~mem.stopped /\ saved.run = mem.run
    /\ up' = TRUE
    /\ mem' = saved
    /\ UNCHANGED <<saved, tail, inspecting, dispatched, taken, ledgerFaults>>

LedgerLife == Emit \/ StopRun \/ NewRun \/ BrokerCrash \/ BrokerExit \/ Recover

LedgerFollow ==
    \/ Bind
    \/ \E c \in Tails :
          \/ \E bound \in 0 .. MaxBindings : Connect(c, bound)
          \/ Refresh(c) \/ Gather(c) \/ Send(c) \/ Drop(c)

LedgerWork ==
    \/ \E id \in CommandIds : Submit(id)
    \/ \E D \in SUBSET Tracepoints : Hit(D)
    \/ \E hit \in inspecting : Capture(hit)

LedgerNext == LedgerLife \/ LedgerFollow \/ LedgerWork

LedgerSpec == LedgerInit /\ [][LedgerNext]_ledgerVars

-----------------------------------------------------------------------------
(* Properties. *)

(* A client that reads the stream misses no event that it is not told of and  *)
(* sees none that was not saved, so that after a crash, under the same        *)
(* number, there is no other.                                                 *)
StreamsExact ==
    \A c \in Tails : \A i \in DOMAIN tail[c].seen :
        LET event == tail[c].seen[i] IN
        /\ event.id = tail[c].from + i
        /\ event.id <= saved.cursor
        /\ \A e \in Range(saved.events) : e.id = event.id => e = event

(* Whatever a client repeats after an error or a crash, a command is          *)
(* dispatched at most once in a run.                                          *)
CommandOncePerRun ==
    \A r \in 1 .. MaxRuns, id \in CommandIds : dispatched[r][id] <= 1

(* The limit of a definition holds in each run, with overlapping hits, failed *)
(* reservations and recoveries in it; no two hits have the same number.       *)
CaptureLimitHolds ==
    /\ \A r \in 1 .. MaxRuns, d \in Tracepoints :
          Cardinality({t \in taken : t.run = r /\ t.def = d}) <= CaptureLimit
    /\ \A s, t \in taken : s.hit = t.hit => s.run = t.run
=============================================================================
