--------------------------- MODULE TraceMetadata --------------------------
(***************************************************************************)
(* Annotations and discussion messages on their way to the trace stores    *)
(* (tracing/annotations.go, metadata.go, sources.go, session/              *)
(* trace_metadata.go, and the engine's worker in tracing/service.go).      *)
(*                                                                         *)
(* A note is durable before any export of it. The service then keeps, with *)
(* the record of each run the note belongs to, a receipt for its identity, *)
(* and exports it until the stores have taken it: at every publication of  *)
(* the note, and every two seconds. A message is a note of one run whose   *)
(* document is registered with the service before it is written. A client  *)
(* may also submit a record that no author saved: it has a receipt, and is *)
(* exported, like that of a note. Notes of different authors are requested *)
(* at any time, in any order.                                              *)
(***************************************************************************)
EXTENDS Naturals, SequencesExt, FiniteSetsExt

CONSTANTS
    NoteNames, Bodies, TracedRuns,
    NoteStores,         \* "local", and "remote" when it is configured
    StoreQueueLimit,    \* 64 batches
    MaxReceipts,        \* 4096 for a run
    MaxNotes, MaxSubmissions, MaxNoteFaults     \* bounds

NotesAssumption ==
    /\ NoteStores \subseteq {"local", "remote"} /\ StoreQueueLimit \in Nat \ {0}
    /\ MaxReceipts \in Nat /\ MaxNotes \in Nat /\ MaxSubmissions \in Nat
    /\ MaxNoteFaults \in Nat
ASSUME NotesAssumption

VARIABLES
    listed,         \* the annotation files: notes [name, rev, body, runs]
    messages,       \* messages in a discussion document, notes as well
    sources,        \* the document is registered in trace-sources
    submitted,      \* history: the records clients submitted, [run, id, body]
    records,        \* runs the service has a record of
    receipts,       \* capture.Metadata: a receipt for an identity, or a run without it
    receiptsFile,   \* the same on disk
    noteFlight,     \* engine.metadataFlight: <<run, identity, store>>
    noteQueue,      \* metadata batches in the queue of each store
    pushing,        \* what a worker has taken from its queue: [batch, ok]
    ingested,       \* what each store has: [run, id, body]
    noteFaults

noteVars == <<listed, messages, sources, submitted, records, receipts, receiptsFile,
              noteFlight, noteQueue, pushing, ingested, noteFaults>>

Identity(n) == <<n.name, n.rev>>
Missing == [known |-> FALSE, body |-> "none", status |-> [d \in NoteStores |-> "none"]]
Identities == NoteNames \X (1 .. MaxNotes)
NoReceipts == [r \in TracedRuns |-> [i \in Identities |-> Missing]]

NotesInit ==
    /\ listed = {} /\ messages = {} /\ sources = FALSE /\ submitted = {}
    /\ records = {}
    /\ receipts = NoReceipts /\ receiptsFile = NoReceipts
    /\ noteFlight = {}
    /\ noteQueue = [d \in NoteStores |-> <<>>] /\ pushing = [d \in NoteStores |-> <<>>]
    /\ ingested = [d \in NoteStores |-> {}]
    /\ noteFaults = 0

NoteFault(happens) ==
    /\ happens => noteFaults < MaxNoteFaults
    /\ noteFaults' = IF happens THEN noteFaults + 1 ELSE noteFaults

engineSide == <<receipts, receiptsFile, noteFlight, noteQueue, pushing, ingested>>

-----------------------------------------------------------------------------
(* Notes are written. *)

\* The exporter of a run has reached the service.
RunTraced ==
    /\ \E r \in TracedRuns \ records : records' = records \union {r}
    /\ UNCHANGED <<listed, messages, sources, submitted, engineSide, noteFaults>>

Latest(name) == Max({n.rev : n \in {n \in listed : n.name = name}} \union {0})

\* prepareAnnotation: the next revision of its identity, all of whose targets are runs
\* of the investigation that the service knows. A repeated request writes nothing, one
\* for a revision that exists with another content is refused, and so is one whose file
\* cannot be written.
Annotate ==
    /\ Cardinality(listed \union messages) < MaxNotes
    /\ \E name \in NoteNames, body \in Bodies, runs \in SUBSET records \ {{}} :
          /\ \A m \in messages : m.name # name
          /\ \A r \in runs :
                Cardinality({i \in Identities : receipts[r][i].known}) < MaxReceipts
          /\ listed' = listed \union
                {[name |-> name, rev |-> Latest(name) + 1, body |-> body, runs |-> runs]}
    /\ UNCHANGED <<messages, sources, submitted, records, engineSide, noteFaults>>

\* CommitDiscussion with a trace owner registers the document, then writes it; the
\* writer may die in between. A message that was exported is immutable.
RegisterSource ==
    /\ ~sources /\ sources' = TRUE
    /\ UNCHANGED <<listed, messages, submitted, records, engineSide, noteFaults>>

CommitMessage ==
    /\ sources
    /\ Cardinality(listed \union messages) < MaxNotes
    /\ \E name \in NoteNames, body \in Bodies, r \in records :
          /\ \A n \in listed \union messages : n.name # name
          /\ messages' = messages \union
                {[name |-> name, rev |-> 1, body |-> body, runs |-> {r}]}
    /\ UNCHANGED <<listed, sources, submitted, records, engineSide, noteFaults>>

-----------------------------------------------------------------------------
(* Publication. *)

\* enqueueMetadata: what a store has not accepted, and is not on its way to it.
Wanting(rs, r, i) ==
    {d \in NoteStores : /\ rs[r][i].status[d] # "accepted"
                        /\ <<r, i, d>> \notin noteFlight
                        /\ Len(noteQueue[d]) < StoreQueueLimit}

Enqueue(rs, r, i) ==
    LET ds == Wanting(rs, r, i) IN
    /\ noteQueue' = [d \in NoteStores |->
          IF d \in ds THEN Append(noteQueue[d], [run |-> r, id |-> i, body |-> rs[r][i].body])
          ELSE noteQueue[d]]
    /\ noteFlight' = noteFlight \union {<<r, i, d>> : d \in ds}

Receipt(body) ==
    [known |-> TRUE, body |-> body, status |-> [d \in NoteStores |-> "pending"]]

\* A record that has a receipt is put on its way again.
Again(r, i) ==
    /\ Wanting(receipts, r, i) # {}
    /\ Enqueue(receipts, r, i)
    /\ UNCHANGED <<receipts, receiptsFile>>

\* The receipt is saved before its record is enqueued; one that cannot be saved is
\* forgotten, and the record published again later.
First(r, i, body) ==
    /\ Cardinality({j \in Identities : receipts[r][j].known}) < MaxReceipts
    /\ receipts' = [receipts EXCEPT ![r][i] = Receipt(body)]
    /\ receiptsFile' = [receiptsFile EXCEPT ![r] = receipts'[r]]
    /\ Enqueue(receipts', r, i)

\* MUTANT of Publishes: a record that differs from that of the receipt replaces it.
PublishesAnyway(r, i, body) ==
    IF receipts[r][i].known /\ receipts[r][i].body = body THEN Again(r, i)
    ELSE First(r, i, body)

\* metadata: an identity keeps its first content, and any other is refused.
Publishes(r, i, body) ==
    IF receipts[r][i].known THEN receipts[r][i].body = body /\ Again(r, i)
    ELSE First(r, i, body)

Metadata(n) ==
    /\ \E r \in n.runs : Publishes(r, Identity(n), n.body)
    /\ UNCHANGED <<listed, messages, sources, submitted, records, pushing, ingested,
                   noteFaults>>

\* Whoever has read an annotation publishes it: its author's request, a list, the
\* synchronization, one run after another.
PublishAnnotation == \E n \in listed : Metadata(n)

\* The messages of a registered document are published whenever it is synchronized.
SyncSource == sources /\ \E n \in messages : Metadata(n)

\* metadataRequest: a record of a client, of any content and identity, for a run the
\* service knows. It need not be that of a note.
Submit ==
    /\ \E r \in records, i \in Identities, body \in Bodies :
          LET x == [run |-> r, id |-> i, body |-> body] IN
          /\ x \in submitted \/ Cardinality(submitted) < MaxSubmissions
          /\ Publishes(r, i, body)
          /\ submitted' = submitted \union {x}
    /\ UNCHANGED <<listed, messages, sources, records, pushing, ingested, noteFaults>>

\* retryMetadata: of all receipts, whether their notes can still be read or not.
Retry ==
    /\ \E r \in records, i \in Identities :
          receipts[r][i].known /\ Again(r, i)
    /\ UNCHANGED <<listed, messages, sources, submitted, records, pushing, ingested,
                   noteFaults>>

-----------------------------------------------------------------------------
(* The workers. *)

\* The push, without the engine's mutex. A store that reports a failure may have taken
\* the batch.
TakeBatch ==
    \E d \in NoteStores, ok, taken \in BOOLEAN :
       /\ pushing[d] = <<>> /\ noteQueue[d] # <<>>
       /\ ok => taken
       /\ NoteFault(~ok)
       /\ pushing' = [pushing EXCEPT ![d] = <<[batch |-> Head(noteQueue[d]), ok |-> ok]>>]
       /\ noteQueue' = [noteQueue EXCEPT ![d] = Tail(@)]
       /\ ingested' = IF taken THEN [ingested EXCEPT ![d] = @ \union {Head(noteQueue[d])}]
                      ELSE ingested
       /\ UNCHANGED <<listed, messages, sources, submitted, records, receipts, receiptsFile,
                      noteFlight>>

\* MUTANT of Landed: the flight of a batch that failed is not ended.
LandedAccepted(token, ok) == IF ok THEN noteFlight \ {token} ELSE noteFlight

Landed(token, ok) == noteFlight \ {token}

\* The outcome is recorded; one that cannot be saved counts as a failure.
Outcome ==
    \E d \in NoteStores, saved \in BOOLEAN :
       /\ pushing[d] # <<>>
       /\ NoteFault(~saved)
       /\ LET r == pushing[d][1].batch.run
              i == pushing[d][1].batch.id
              ok == pushing[d][1].ok
          IN  /\ receipts' = [receipts EXCEPT ![r][i].status[d] =
                                 IF ok /\ saved THEN "accepted" ELSE "failed"]
              /\ receiptsFile' = IF saved THEN [receiptsFile EXCEPT ![r] = receipts'[r]]
                                 ELSE receiptsFile
              /\ noteFlight' = Landed(<<r, i, d>>, ok)
       /\ pushing' = [pushing EXCEPT ![d] = <<>>]
       /\ UNCHANGED <<listed, messages, sources, submitted, records, noteQueue, ingested>>

\* The service dies or is stopped, and another one is started; what a worker was
\* pushing may have arrived.
ServiceRestarts ==
    /\ NoteFault(TRUE)
    /\ receipts' = receiptsFile
    /\ noteFlight' = {}
    /\ noteQueue' = [d \in NoteStores |-> <<>>] /\ pushing' = [d \in NoteStores |-> <<>>]
    /\ UNCHANGED <<listed, messages, sources, submitted, records, receiptsFile, ingested>>

-----------------------------------------------------------------------------
NotesNext == \/ RunTraced \/ Annotate \/ RegisterSource \/ CommitMessage
             \/ PublishAnnotation \/ SyncSource \/ Submit \/ Retry
             \/ TakeBatch \/ Outcome \/ ServiceRestarts
NotesSpec == NotesInit /\ [][NotesNext]_noteVars

-----------------------------------------------------------------------------
(* Correctness. *)

OnItsWay(r, i, d) ==
    \/ \E k \in 1 .. Len(noteQueue[d]) : noteQueue[d][k].run = r /\ noteQueue[d][k].id = i
    \/ \E k \in 1 .. Len(pushing[d]) : pushing[d][k].batch.run = r /\ pushing[d][k].batch.id = i

\* No note is stranded, and none is exported twice with different contents: an export
\* that is believed under way is; a store that is said to have accepted a record has it;
\* and what a store has under an identity, in this life of the service or an earlier one,
\* is the content of its receipt on disk, which an author saved or a client submitted
\* (tracing/service.go:172, metadata.go:75, 83, 226).
NothingStranded ==
    /\ \A t \in noteFlight : OnItsWay(t[1], t[2], t[3])
    /\ \A r \in TracedRuns, i \in Identities, d \in NoteStores :
          "accepted" \in {receipts[r][i].status[d], receiptsFile[r][i].status[d]}
              => [run |-> r, id |-> i, body |-> receipts[r][i].body] \in ingested[d]
    /\ \A d \in NoteStores : \A x \in ingested[d] :
          /\ receiptsFile[x.run][x.id].known /\ receiptsFile[x.run][x.id].body = x.body
          /\ \/ x \in submitted
             \/ \E n \in listed \union messages :
                   Identity(n) = x.id /\ n.body = x.body /\ x.run \in n.runs
=============================================================================
