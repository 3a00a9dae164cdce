---------------------------- MODULE Definitions ----------------------------
(***************************************************************************)
(* Breakpoint and tracepoint definitions, their installation in the debug  *)
(* adapter, and the attribution of stops to them (definitions/store.go,    *)
(* broker/definitions.go, broker/attribution.go, broker/service.go,        *)
(* backend/breakpoints.go, and the recovery of the backend's points in     *)
(* backend/delve.go).                                                      *)
(*                                                                         *)
(* The broker's store is durable; what the adapter has installed is        *)
(* replaced file by file. A file has one location here, its spot, and the  *)
(* adapter installs the first request for a spot and refuses the others.   *)
(* The number it gives a point stands for the spot. All of this happens in *)
(* a pause of the target, under the broker's mutex. Requests with a stale  *)
(* revision or another owner, and those whose definitions cannot be saved, *)
(* change nothing and are no steps.                                        *)
(***************************************************************************)
EXTENDS Integers, SequencesExt, FiniteSetsExt

CONSTANTS
    Places,         \* what is asked for: <<spot, condition>>; a spot is a natural, in
                    \* the order of the names of the files
    MaxDefinitions, \* definitions.Limit: 512
    MaxTargetRuns, MaxDefinitionFaults      \* bounds

DefinitionsAssumption ==
    /\ \A p \in Places : p[1] \in Nat /\ p[2] # "none"
    /\ MaxDefinitions \in Nat
    /\ MaxTargetRuns \in Nat /\ MaxDefinitionFaults \in Nat
ASSUME DefinitionsAssumption

VARIABLES
    store,          \* b.s.Definitions.Items
    storeSaved,     \* the same on disk
    ownersSaved,    \* BreakpointOwners on disk: the client of the point of each spot
    points,         \* the backend's breakpoints: for each spot [client, cond, ok]
    installed,      \* what the adapter stops at: a condition for each spot
    resolutions,    \* b.resolutions: [def, spot, ok]; ok is verified, with a number
    targetRun,      \* 0: the session has ended
    connected,      \* a broker serves the session
    settled,        \* history: the last reconciliation was completed
    answerLost,     \* history: the adapter did what its client saw fail
    definitionFaults

definitionVars == <<store, storeSaved, ownersSaved, points, installed, resolutions,
                    targetRun, connected, settled, answerLost, definitionFaults>>

Spots == {p[1] : p \in Places}
Nowhere == "none"
Own == "brote-definitions"
Foreign == "restored"
Disabled == -1

DefinitionsInit ==
    /\ store = <<>> /\ storeSaved = <<>>
    /\ ownersSaved = [s \in Spots |-> Nowhere]
    /\ points = [s \in Spots |-> <<>>]
    /\ installed = [s \in Spots |-> Nowhere]
    /\ resolutions = {}
    /\ targetRun = 1 /\ connected = TRUE /\ settled = TRUE /\ answerLost = FALSE
    /\ definitionFaults = 0

\* The items at the indices ix, in their order.
Picked(items, ix) ==
    [k \in 1 .. Cardinality(ix) |->
        items[CHOOSE i \in ix : Cardinality({j \in ix : j <= i}) = k]]

Faulty(n) == /\ definitionFaults + n <= MaxDefinitionFaults
             /\ definitionFaults' = definitionFaults + n

-----------------------------------------------------------------------------
(* ReplaceBreakpoints. *)

\* The scope of a disabled definition is no run.
Active(d, run) == d.scope \in {0, run}

\* The distinct requests for a spot, in the order of the store.
Requests(items, run, s) ==
    LET asking == {i \in DOMAIN items : items[i].spot = s /\ Active(items[i], run)}
        first == {i \in asking : \A j \in asking : j < i => items[j].cond # items[i].cond}
        asked == Picked(items, first)
    IN  [k \in DOMAIN asked |-> asked[k].cond]

OthersAt(pts, s) == Picked(pts[s], {i \in DOMAIN pts[s] : pts[s][i].client # Own})

\* The points of other clients stay in front; the adapter takes the first of a spot.
Merged(pts, s, conds) ==
    LET others == OthersAt(pts, s) IN
    [i \in 1 .. Len(others) + Len(conds) |->
        IF i <= Len(others) THEN [others[i] EXCEPT !.ok = (i = 1)]
        ELSE [client |-> Own, cond |-> conds[i - Len(others)], ok |-> (i = 1)]]

FirstCond(seq) == IF seq = <<>> THEN Nowhere ELSE Head(seq).cond
Owners(pts) ==
    [s \in Spots |-> IF pts[s] = <<>> THEN Nowhere ELSE Head(pts[s]).client]

-----------------------------------------------------------------------------
(* reconcileDefinitions. *)

\* Mutant of Files: the points that are installed are not looked at.
FilesUnlisted(items, pts) ==
    {r.spot : r \in resolutions} \cup {d.spot : d \in Range(items)}

\* What is or was installed, and what should be.
Files(items, pts) ==
    {s \in Spots : \E p \in Range(pts[s]) : p.client = Own}
    \cup {r.spot : r \in resolutions} \cup {d.spot : d \in Range(items)}

Resolved(items, run, pts) ==
    {[def |-> d.id, spot |-> d.spot,
      ok |-> /\ Active(d, run)
             /\ pts[d.spot][1].client = Own /\ pts[d.spot][1].cond = d.cond]
        : d \in Range(items)}

\* Mutant of Unresolved: the attribution outlives a failure.
UnresolvedKept == resolutions

Unresolved == {}

\* The files are replaced one after the other; with a failure at one of them, whose
\* answer may just be lost, the others after it are left. The cost is in faults.
Reconcile(items, run, pts, cost) ==
    \E failed \in Files(items, pts) \cup {-1}, applied \in BOOLEAN :
        LET new == [s \in Spots |-> Merged(pts, s, Requests(items, run, s))]
            done == {s \in Files(items, pts) : failed = -1 \/ s < failed}
        IN  /\ applied => failed # -1
            /\ Faulty(cost + IF failed = -1 THEN 0 ELSE 1)
            /\ points' = [s \in Spots |-> IF s \in done THEN new[s] ELSE pts[s]]
            /\ installed' = [s \in Spots |->
                  IF s \in done \/ (applied /\ s = failed) THEN FirstCond(new[s])
                  ELSE installed[s]]
            /\ resolutions' = IF failed = -1 THEN Resolved(items, run, points')
                              ELSE Unresolved
            /\ settled' = (failed = -1)
            /\ answerLost' = (answerLost \/ applied)

-----------------------------------------------------------------------------
(* Edits. *)

Editing == connected /\ targetRun # 0

\* The store is saved, or restored; the adapter is made to follow. After a complete
\* reconciliation the descriptor is saved again, with the owners of the points.
Edit(items) ==
    /\ store' = items /\ storeSaved' = items
    /\ \E again \in BOOLEAN :
          /\ Reconcile(items, targetRun, points, IF again THEN 0 ELSE 1)
          /\ again \/ settled'
          /\ ownersSaved' = Owners(IF settled' /\ again THEN points' ELSE points)
    /\ UNCHANGED <<targetRun, connected>>

\* definition.put: a new definition, or another one under its identity.
Put(d) ==
    LET same(e) == e.id = d.id IN
    /\ Editing
    /\ \A e \in Range(store) : same(e) => e.owner = d.owner
    /\ IF \E e \in Range(store) : same(e)
       THEN Edit([i \in DOMAIN store |-> IF same(store[i]) THEN d ELSE store[i]])
       ELSE Len(store) < MaxDefinitions /\ Edit(Append(store, d))

\* definition.delete, and clear, which finds the definition by the number of its point.
DeleteDefinition(id) ==
    /\ Editing /\ \E e \in Range(store) : e.id = id /\ e.owner = "cli"
    /\ Edit(Picked(store, {i \in DOMAIN store : store[i].id # id}))

Fresh == CHOOSE id \in 1 .. MaxDefinitions + 1 : \A e \in Range(store) : e.id # id

\* setBreakpoints of the editor replaces its definitions of the file; at the same
\* location a definition keeps its identity.
EditorReplaces(s, cond) ==
    LET old(e) == e.owner = "editor" /\ e.spot = s
        kept == Picked(store, {i \in DOMAIN store : ~old(store[i])})
        id == IF \E e \in Range(store) : old(e)
              THEN (CHOOSE e \in Range(store) : old(e)).id ELSE Fresh
    IN  /\ Editing
        /\ cond # Nowhere => Len(kept) < MaxDefinitions
        /\ Edit(IF cond = Nowhere THEN kept
                ELSE Append(kept, [id |-> id, owner |-> "editor", kind |-> "breakpoint",
                                   spot |-> s, cond |-> cond, scope |-> 0]))

-----------------------------------------------------------------------------
(* Lifetimes. *)

ForRun(items, run) ==
    Picked(items, {i \in DOMAIN items : items[i].scope \in {Disabled, 0, run}})

\* A new target gets every point of the old one back before its definitions; with
\* any failure on the way the session has ended.
RestartTarget ==
    /\ Editing /\ targetRun < MaxTargetRuns
    /\ LET items == ForRun(store, targetRun + 1) IN
       /\ store' = items
       /\ Reconcile(items, targetRun + 1, points, 0)
       /\ IF settled'
          THEN targetRun' = targetRun + 1 /\ storeSaved' = items /\ ownersSaved' = Owners(points')
          ELSE targetRun' = 0 /\ UNCHANGED <<storeSaved, ownersSaved>>
    /\ UNCHANGED connected

BrokerLost ==
    /\ connected
    /\ connected' = FALSE
    /\ UNCHANGED <<store, storeSaved, ownersSaved, points, installed, resolutions,
                   targetRun, settled, answerLost, definitionFaults>>

\* The points of the adapter get the owners that were saved.
Relisted ==
    [s \in Spots |->
        IF installed[s] = Nowhere THEN <<>>
        ELSE <<[client |-> IF ownersSaved[s] = Nowhere THEN Foreign ELSE ownersSaved[s],
                cond |-> installed[s], ok |-> TRUE]>>]

\* A broker that cannot restore the definitions does not serve.
RecoverBroker ==
    /\ ~connected /\ targetRun # 0
    /\ store' = storeSaved
    /\ Reconcile(storeSaved, targetRun, Relisted, 0)
    /\ connected' = settled'
    /\ ownersSaved' = IF settled' THEN Owners(points') ELSE ownersSaved
    /\ UNCHANGED <<storeSaved, targetRun>>

DefinitionsNext ==
    \/ \E id \in 1 .. MaxDefinitions, p \in Places,
          use \in {<<"breakpoint", 0>>, <<"breakpoint", Disabled>>,
                   <<"tracepoint", 0>>, <<"tracepoint", targetRun>>} :
          Put([id |-> id, owner |-> "cli", kind |-> use[1], spot |-> p[1], cond |-> p[2],
               scope |-> use[2]])
    \/ \E id \in 1 .. MaxDefinitions : DeleteDefinition(id)
    \/ \E p \in Places : EditorReplaces(p[1], p[2]) \/ EditorReplaces(p[1], Nowhere)
    \/ RestartTarget \/ BrokerLost \/ RecoverBroker

DefinitionsSpec == DefinitionsInit /\ [][DefinitionsNext]_definitionVars

-----------------------------------------------------------------------------
(* attributeStop. *)

\* A stop at a spot is one of tracepoints only: all that claim its point, and no other.
Eligible(s) ==
    LET claims == {r \in resolutions : r.spot = s /\ r.ok} IN
    /\ claims # {}
    /\ \A p \in Range(points[s]) : p.client = Own
    /\ \A r \in claims : \E d \in Range(store) :
          d.id = r.def /\ d.kind = "tracepoint" /\ Active(d, targetRun)

-----------------------------------------------------------------------------
(* Properties. *)

(* Whatever failed halfway, a stop that is taken for one of tracepoints, so   *)
(* that the target may be resumed, is never one of a breakpoint in the store, *)
(* unless the adapter refused that one, nor of a point nobody owns any more.  *)
OrdinaryStopsKept ==
    \A s \in Spots : Eligible(s) /\ connected =>
        /\ installed[s] # Nowhere
        /\ \A d \in Range(store) :
              d.spot = s /\ d.kind = "breakpoint" /\ Active(d, targetRun)
                => \E r \in resolutions : r.def = d.id /\ ~r.ok

(* After a reconciliation that was completed, whichever failed before it, the *)
(* adapter stops only where a definition or a point of another client asks    *)
(* for it, and at every location of an active definition.                     *)
NoGhostPoints ==
    settled /\ ~answerLost /\ connected =>
        \A s \in Spots :
            LET asked == {d.cond : d \in {e \in Range(store) : e.spot = s /\ Active(e, targetRun)}}
                         \cup {p.cond : p \in Range(OthersAt(points, s))}
            IN  IF asked = {} THEN installed[s] = Nowhere ELSE installed[s] \in asked
=============================================================================
