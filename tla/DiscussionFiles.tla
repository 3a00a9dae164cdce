-------------------------- MODULE DiscussionFiles --------------------------
(***************************************************************************)
(* A discussion document and the index of a workspace's discussions, as    *)
(* processes share them (session/discussion.go, discussion_import.go): the *)
(* broker and commands that write from a snapshot they have read, the      *)
(* broker that promotes the document into the session's archive, an        *)
(* editor's import of the discussions it kept itself, and commands that    *)
(* link a new discussion. What the messages of a document mean is modelled *)
(* by Delivery; here a message is an identity.                             *)
(***************************************************************************)
EXTENDS Naturals, SequencesExt, FiniteSetsExt

CONSTANTS
    Authors,        \* processes that write the document
    Natives,        \* discussions an editor has kept
    Contents,       \* what it has kept of one
    LinkedThreads,  \* discussions that are linked by a command
    ThreadLimit,    \* 200
    CommitAttempts, \* 8
    MaxPosts, MaxImportFaults       \* bounds

FilesAssumption ==
    /\ IsFiniteSet(Natives)
    /\ ThreadLimit \in Nat /\ CommitAttempts \in Nat \ {0}
    /\ MaxPosts \in Nat /\ MaxImportFaults \in Nat
ASSUME FilesAssumption

VARIABLES
    liveDocument,   \* [revision, threads, posts]
    archived,       \* <<>>, or the document in the archive
    drafts,         \* what an author has read, and will write its post into
    postCount,
    posted,         \* posts whose authors have been told of success
    index,          \* index.json: threads
    importer,       \* the holder of the workspace's import lock
    imported,       \* natives whose import was reported as done
    linkedThreads,  \* links that were reported as done
    importFaults

fileVars == <<liveDocument, archived, drafts, postCount, posted, index, importer, imported,
              linkedThreads, importFaults>>

NoDraft == [revision |-> 0, threads |-> <<>>, posts |-> {0}]
Away == [stage |-> "away", todo |-> <<>>, draft |-> NoDraft, attempts |-> 0, index |-> {}]

FilesInit ==
    /\ liveDocument = [revision |-> 0, threads |-> <<>>, posts |-> {}] /\ archived = <<>>
    /\ drafts = [a \in Authors |-> NoDraft]
    /\ postCount = 0 /\ posted = {}
    /\ index = {} /\ importer = Away
    /\ imported = {} /\ linkedThreads = {} /\ importFaults = 0

\* discussionPath: the archive, once the document is there.
Document == IF archived = <<>> THEN liveDocument ELSE archived[1]

WriteDocument(d) ==
    IF archived = <<>> THEN liveDocument' = d /\ UNCHANGED archived
                       ELSE archived' = <<d>> /\ UNCHANGED liveDocument

\* MUTANT of Stale: the revision is not compared.
StaleNever(d) == FALSE

Stale(d) == d.revision # Document.revision

\* CommitDiscussion, under the document's lock; next is the draft with its change.
CommitDiscussion(next) ==
    /\ ~Stale(next)
    /\ WriteDocument([next EXCEPT !.revision = @ + 1])

-----------------------------------------------------------------------------
(* Authors. *)

ReadDiscussion(a) ==
    /\ drafts[a] = NoDraft /\ postCount < MaxPosts
    /\ drafts' = [drafts EXCEPT ![a] = Document]
    /\ UNCHANGED <<liveDocument, archived, postCount, posted, index, importer, imported,
                   linkedThreads, importFaults>>

\* A conflict is reported, or the document read again.
Post(a) ==
    /\ drafts[a] # NoDraft
    /\ drafts' = [drafts EXCEPT ![a] = NoDraft]
    /\ postCount < MaxPosts
    /\ IF Stale(drafts[a])
       THEN UNCHANGED <<liveDocument, archived, postCount, posted>>
       ELSE /\ CommitDiscussion([drafts[a] EXCEPT !.posts = @ \union {postCount + 1}])
            /\ postCount' = postCount + 1
            /\ posted' = posted \union {postCount + 1}
    /\ UNCHANGED <<index, importer, imported, linkedThreads, importFaults>>

\* ArchiveDiscussion, under the document's lock.
ArchiveDiscussion ==
    /\ archived = <<>>
    /\ archived' = <<Document>>
    /\ UNCHANGED <<liveDocument, drafts, postCount, posted, index, importer, imported,
                   linkedThreads, importFaults>>

-----------------------------------------------------------------------------
(* Imports and links, under the workspace's lock. *)

BeginImport ==
    /\ importer = Away
    /\ \E natives \in SUBSET Natives \ {{}}, content \in Contents :
       \E todo \in SetToSeqs(natives) :
          importer' = [Away EXCEPT !.stage = "read", !.index = index,
                          !.todo = [k \in 1 .. Len(todo) |-> <<todo[k], content>>]]
    /\ UNCHANGED <<liveDocument, archived, drafts, postCount, posted, index, imported,
                   linkedThreads, importFaults>>

Found(d, native) == \E k \in 1 .. Len(d.threads) : d.threads[k][1] = native

\* The thread is in the document: on to the next.
Linked ==
    [importer EXCEPT !.index = @ \union {Head(importer.todo)[1]}, !.todo = Tail(@),
                     !.draft = NoDraft, !.attempts = 0, !.stage = "read"]

\* What was imported before is not imported again; what has changed since is refused.
ImportReads ==
    /\ importer.stage = "read" /\ importer.todo # <<>>
    /\ LET native == Head(importer.todo) IN
       importer' =
          IF Found(Document, native[1])
          THEN IF Contains(Document.threads, native) THEN Linked ELSE Away
          ELSE IF Len(Document.threads) >= ThreadLimit THEN Away
          ELSE [importer EXCEPT !.draft = Document, !.stage = "commit"]
    /\ UNCHANGED <<liveDocument, archived, drafts, postCount, posted, index, imported,
                   linkedThreads, importFaults>>

ImportCommits ==
    /\ importer.stage = "commit"
    /\ IF Stale(importer.draft)
       THEN /\ importer' = IF importer.attempts + 1 = CommitAttempts THEN Away
                           ELSE [importer EXCEPT !.attempts = @ + 1, !.stage = "read"]
            /\ UNCHANGED <<liveDocument, archived>>
       ELSE /\ CommitDiscussion([importer.draft EXCEPT !.threads =
                                    Append(@, Head(importer.todo))])
            /\ importer' = Linked
    /\ UNCHANGED <<drafts, postCount, posted, index, imported, linkedThreads, importFaults>>

\* The index is written last, from what was read first.
ImportEnds ==
    /\ importer.stage = "read" /\ importer.todo = <<>>
    /\ index' = importer.index
    /\ imported' = imported \union (importer.index \ linkedThreads)
    /\ importer' = Away
    /\ UNCHANGED <<liveDocument, archived, drafts, postCount, posted, linkedThreads,
                   importFaults>>

\* A write fails, or the process dies.
ImportFails ==
    /\ importer # Away /\ importFaults < MaxImportFaults
    /\ importFaults' = importFaults + 1
    /\ importer' = Away
    /\ UNCHANGED <<liveDocument, archived, drafts, postCount, posted, index, imported,
                   linkedThreads>>

LinkDiscussion ==
    /\ importer = Away
    /\ \E t \in LinkedThreads \ linkedThreads :
          /\ index' = index \union {t}
          /\ linkedThreads' = linkedThreads \union {t}
    /\ UNCHANGED <<liveDocument, archived, drafts, postCount, posted, importer, imported,
                   importFaults>>

-----------------------------------------------------------------------------
FilesNext == \/ \E a \in Authors : ReadDiscussion(a) \/ Post(a)
             \/ ArchiveDiscussion
             \/ BeginImport \/ ImportReads \/ ImportCommits \/ ImportEnds \/ ImportFails
             \/ LinkDiscussion
FilesSpec == FilesInit /\ [][FilesNext]_fileVars

-----------------------------------------------------------------------------
(* Correctness. *)

\* Whoever was told of success is not undone by others: every post is in the document,
\* every imported discussion is in it exactly once and in the index, and so are the
\* links; whatever was written from a stale snapshot, promoted to the archive in
\* between, or repeated after a failure (session/discussion.go:171,
\* discussion_import.go:177).
NothingOverwritten ==
    /\ posted \subseteq Document.posts
    /\ imported \union linkedThreads \subseteq index
    /\ \A n \in imported : Found(Document, n)
    /\ \A j, k \in 1 .. Len(Document.threads) :
          Document.threads[j][1] = Document.threads[k][1] => j = k
=============================================================================
