------------------------------ MODULE Archive ------------------------------
(***************************************************************************)
(* What the disk keeps of the runs (session/history.go, investigation.go,  *)
(* delete.go, cli/start.go, cli/recovery.go and the startup and the end of *)
(* broker/lifecycle.go).                                                   *)
(*                                                                         *)
(* A run is a directory of the live session (its descriptor), an archive   *)
(* (a journal and its projected metadata), and an association with an      *)
(* investigation, which numbers its runs. A launcher, the run's broker,    *)
(* the recovery commands, the workspace and a deletion work on these       *)
(* without a common mutex: there is one file lock for the investigations,  *)
(* one per session directory and one per archive. All of them are tried,   *)
(* never waited for.                                                       *)
(*                                                                         *)
(* Runs are numbered in the order of their creation, which is the order in *)
(* which the workspace sorts them. An investigation has the name of its    *)
(* first run.                                                              *)
(***************************************************************************)
EXTENDS Naturals, SequencesExt, FiniteSetsExt

CONSTANTS
    NumRuns,
    MaxRecords,         \* length of a journal after which nothing is recovered or recorded
    MaxArchiveFaults    \* failed writes and crashes

ArchiveAssumption == NumRuns \in Nat /\ MaxRecords \in Nat /\ MaxArchiveFaults \in Nat
ASSUME ArchiveAssumption

Runs == 1 .. NumRuns
Groups == Runs

VARIABLES
    runner,         \* the process that launches, serves or recovers a run
    alive,          \* runs whose debugger and target live
    descriptor,     \* session.json of the session directory
    journal,        \* events.jsonl and session.json of the archive
    handle,         \* the broker's History: its sequence, its first failure
    member,         \* investigations/runs/<run>.json
    index,          \* investigations/<group>.json: [file, ordinal of each run]
    deletion,       \* the runs a deletion has prepared and locked
    leftovers,      \* runs whose archive lies renamed in the directory of its day
    acked,          \* history: the records whose writer was told of success
    archiveFaults

archiveVars == <<runner, alive, descriptor, journal, handle, member, index,
                 deletion, leftovers, acked, archiveFaults>>

None == 0
NoJournal == [log |-> <<>>, torn |-> FALSE, meta |-> "none"]
NoHandle == [seq |-> 0, failed |-> FALSE, status |-> "none"]
NoFile == [file |-> FALSE, ordinal |-> [r \in Runs |-> 0]]
NoDeletion == [runs |-> {}, group |-> None]
Line(n, kind) == [seq |-> n, kind |-> kind]

\* A run of an older release may be there from the start: without an investigation,
\* or in one that does not number its runs.
ArchiveInit ==
    /\ \E old \in BOOLEAN : \E grouped \in {FALSE, old} :
          /\ journal = [r \in Runs |->
                IF old /\ r = 1
                THEN [log |-> <<Line(1, "started"), Line(2, "ended")>>,
                      torn |-> FALSE, meta |-> "ended"]
                ELSE NoJournal]
          /\ runner = [r \in Runs |-> IF old /\ r = 1 THEN "gone" ELSE "none"]
          /\ member = [r \in Runs |-> IF grouped /\ r = 1 THEN 1 ELSE None]
          /\ index = [g \in Groups |-> [NoFile EXCEPT !.file = grouped /\ g = 1]]
    /\ alive = {}
    /\ descriptor = [r \in Runs |-> "none"]
    /\ handle = [r \in Runs |-> NoHandle]
    /\ deletion = NoDeletion
    /\ leftovers = {}
    /\ acked = [r \in Runs |-> Range(journal[r].log)]
    /\ archiveFaults = 0

-----------------------------------------------------------------------------
(* The locks. *)

Holding == {"starting", "recovering", "opened", "reopened", "serving", "stopped",
            "failing"}
Locked(r) == r \in deletion.runs /\ descriptor[r] # "none"
SessionFree(r) == runner[r] \notin Holding /\ ~Locked(r)
ArchiveFree(r) == handle[r] = NoHandle /\ r \notin deletion.runs
IndexFree == deletion = NoDeletion

Fault == archiveFaults < MaxArchiveFaults /\ archiveFaults' = archiveFaults + 1

-----------------------------------------------------------------------------
(* The journal. *)

Project(status, kind) ==
    CASE kind = "ended" -> "ended"
      [] kind = "disconnected" -> IF status = "ended" THEN status ELSE "detached"
      [] kind \in {"started", "connected"} -> "active"
      [] OTHER -> status

\* A line that follows an unterminated one is unreadable.
Written(j, n, kind) ==
    [j EXCEPT !.log = Append(@, Line(IF j.torn THEN 0 ELSE n, kind)), !.torn = FALSE]

\* What Append makes of a journal and its handle: [journal, handle, told].
Clean(j, h, kind) ==
    LET status == Project(h.status, kind) IN
    [journal |-> [Written(j, h.seq + 1, kind) EXCEPT !.meta = status],
     handle |-> [h EXCEPT !.seq = @ + 1, !.status = status],
     told |-> {Line(h.seq + 1, kind)}]

\* A failed write, a partial one, a failed sync; a failed write of the projection.
Broken(j, h, kind) ==
    {[journal |-> k, handle |-> [h EXCEPT !.failed = TRUE], told |-> {}] :
        k \in {j, [j EXCEPT !.torn = TRUE], Written(j, h.seq + 1, kind)}}
    \cup {[Clean(j, h, kind) EXCEPT !.journal.meta = j.meta]}

\* Mutant of Appended: a failure does not end the use of the handle.
AppendedAgain(j, h, kind, faulty) ==
    IF faulty
    THEN {[o EXCEPT !.handle.failed = FALSE] : o \in Broken(j, h, kind)}
    ELSE {Clean(j, h, kind)}

Appended(j, h, kind, faulty) ==
    IF h.failed THEN {[journal |-> j, handle |-> h, told |-> {}]}
    ELSE IF faulty THEN Broken(j, h, kind)
    ELSE {Clean(j, h, kind)}

Readable(j) == \A i \in DOMAIN j.log : j.log[i].seq = i

\* OpenHistory: an unterminated tail is dropped, the projection replayed.
Opened(j) ==
    LET status == FoldLeft(LAMBDA s, line : Project(s, line.kind),
                           IF j.meta = "none" THEN "active" ELSE j.meta, j.log)
        open == [journal |-> [j EXCEPT !.torn = FALSE, !.meta = status],
                 handle |-> [seq |-> Len(j.log), failed |-> FALSE, status |-> status],
                 told |-> {}]
    IN IF j.log = <<>> THEN Clean(open.journal, open.handle, "started") ELSE open

Become(r, o) ==
    /\ journal' = [journal EXCEPT ![r] = o.journal]
    /\ handle' = [handle EXCEPT ![r] = o.handle]
    /\ acked' = [acked EXCEPT ![r] = @ \cup o.told]

\* One record by the broker, under its mutex; an error of the journal is only shown.
Records(r, kind) ==
    \E faulty \in BOOLEAN :
        /\ \E o \in Appended(journal[r], handle[r], kind, faulty) : Become(r, o)
        /\ IF faulty /\ ~handle[r].failed THEN Fault ELSE UNCHANGED archiveFaults

CloseHandle(r) == handle' = [handle EXCEPT ![r] = NoHandle]

\* RecordFailedLaunch: the archive of a run that was never published, in three writes.
\* The last of its stages is the whole.
FailureStages(r) ==
    LET o1 == IF journal[r].log = <<>>
              THEN Opened(journal[r])
              ELSE [Opened(journal[r]) EXCEPT !.told = {}]
        o2 == Clean(o1.journal, o1.handle, "failed")
        o3 == Clean(o2.journal, o2.handle, "ended")
    IN << [journal |-> o1.journal, told |-> o1.told],
          [journal |-> o2.journal, told |-> o1.told \cup o2.told],
          [journal |-> o3.journal, told |-> o1.told \cup o2.told \cup o3.told] >>

FailureRecorded(r) ==
    IF IndexFree /\ descriptor[r] = "none" /\ ArchiveFree(r) /\ Readable(journal[r])
    THEN \E n \in 1 .. 3 :
            LET stage == FailureStages(r)[n] IN
            /\ journal' = [journal EXCEPT ![r] = stage.journal]
            /\ acked' = [acked EXCEPT ![r] = @ \cup stage.told]
            /\ IF n = 3 THEN UNCHANGED archiveFaults ELSE Fault
    ELSE UNCHANGED <<journal, acked, archiveFaults>>

-----------------------------------------------------------------------------
(* The investigations. *)

\* A run whose records are where they belong. Whoever lists the runs finds an archive by
\* the metadata in it, whatever its directory is called: one that is being deleted too.
Kept(r) == descriptor[r] # "none" \/ journal[r].meta # "none"
Known(r) == Kept(r) \/ r \in leftovers
GroupOf(r) == IF member[r] = None THEN r ELSE member[r]
Unnumbered(file) == \A r \in Runs : file.ordinal[r] = 0

LastOrdinal(file) == Max({file.ordinal[q] : q \in Runs})

Reserve(file, r) ==
    IF file.ordinal[r] # 0 THEN file
    ELSE [file EXCEPT !.ordinal[r] = LastOrdinal(file) + 1]

\* Ordinals for the runs S that have none: the next ones, in the order of the runs.
NumberedRuns(file, S) ==
    LET new == {r \in S : file.ordinal[r] = 0} IN
    [file EXCEPT !.ordinal = [r \in Runs |->
        IF r \in new THEN LastOrdinal(file) + Cardinality({q \in new : q <= r})
        ELSE file.ordinal[r]]]

\* workspaceLocked: every run that is listed gets an ordinal.
Backfilled(ix) ==
    [g \in Groups |->
        LET listed == {r \in Runs : Known(r) /\ GroupOf(r) = g} IN
        IF listed = {} THEN ix[g] ELSE NumberedRuns([ix[g] EXCEPT !.file = TRUE], listed)]

\* AssignInvestigation of the first run of a group that has no file.
Founded(ix, g) == [ix EXCEPT ![g] = Reserve([@ EXCEPT !.file = TRUE], g)]

\* AssignInvestigation of run r to a group that has one.
Joined(ix, r, g) ==
    LET numbered == IF Unnumbered(ix[g]) THEN Backfilled(ix) ELSE ix
    IN  [numbered EXCEPT ![g] = Reserve(@, r)]

\* The launcher associates the run; a failure leaves the ordinal reserved.
Launch(r, g) ==
    /\ IndexFree
    /\ runner[r] = "none" /\ \A q \in 1 .. (r - 1) : runner[q] # "none"
    /\ g # r => index[g].file \/ descriptor[g] # "none"
    /\ LET founder == IF g = r \/ index[g].file THEN {} ELSE {g}
           ix == IF g # r /\ index[g].file THEN index ELSE Founded(index, g)
       IN  /\ index' = IF g = r THEN ix ELSE Joined(ix, r, g)
           /\ \E done \in BOOLEAN :
                 /\ member' = [q \in Runs |-> IF q \in founder \/ (done /\ q = r)
                                              THEN g ELSE member[q]]
                 /\ runner' = [runner EXCEPT ![r] = IF done THEN "launching" ELSE "gone"]
                 /\ IF done THEN UNCHANGED archiveFaults ELSE Fault
    /\ UNCHANGED <<alive, descriptor, journal, handle, deletion, leftovers, acked>>

\* Workspace: whoever lists the runs numbers them.
Browse ==
    /\ IndexFree
    /\ index' = Backfilled(index) /\ index' # index
    /\ UNCHANGED <<runner, alive, descriptor, journal, handle, member, deletion, leftovers,
                   acked, archiveFaults>>

-----------------------------------------------------------------------------
(* Launcher and broker. *)

\* Build errors, a missing binary: no broker was started.
LaunchFails(r) ==
    /\ runner[r] = "launching"
    /\ runner' = [runner EXCEPT ![r] = "gone"]
    /\ FailureRecorded(r)
    /\ UNCHANGED <<alive, descriptor, handle, member, index, deletion, leftovers>>

BrokerStarts(r) ==
    /\ runner[r] = "launching" /\ SessionFree(r)
    /\ runner' = [runner EXCEPT ![r] = "starting"]
    /\ alive' = alive \cup {r}
    /\ UNCHANGED <<descriptor, journal, handle, member, index, deletion, leftovers,
                   acked, archiveFaults>>

\* serve --recover, after the lock: an ended session stays ended.
RecoveryStarts(r) ==
    /\ runner[r] = "gone" /\ SessionFree(r) /\ descriptor[r] = "live"
    /\ Len(journal[r].log) < MaxRecords
    /\ runner' = [runner EXCEPT ![r] = "recovering"]
    /\ UNCHANGED <<alive, descriptor, journal, handle, member, index, deletion, leftovers,
                   acked, archiveFaults>>

OpenArchive(r) ==
    /\ runner[r] \in {"starting", "recovering"}
    /\ runner[r] = "recovering" => r \in alive
    /\ ArchiveFree(r) /\ Readable(journal[r])
    /\ runner' = [runner EXCEPT ![r] = IF @ = "starting" THEN "opened" ELSE "reopened"]
    /\ Become(r, Opened(journal[r]))
    /\ UNCHANGED <<alive, descriptor, member, index, deletion, leftovers, archiveFaults>>

\* A new target is killed, a recovered one is left; the failure of a new run is recorded
\* once the archive is closed.
Abandon(r) ==
    LET new == runner[r] \in {"starting", "opened"} IN
    /\ runner' = [runner EXCEPT ![r] = IF new THEN "failing" ELSE "gone"]
    /\ alive' = IF new THEN alive \ {r} ELSE alive
    /\ CloseHandle(r)

StartFails(r) ==
    /\ runner[r] \in {"starting", "recovering", "opened", "reopened"}
    /\ Abandon(r)
    /\ UNCHANGED <<descriptor, journal, member, index, deletion, leftovers, acked,
                   archiveFaults>>

\* The descriptor is published, then the connection recorded.
Publish(r) ==
    /\ runner[r] \in {"opened", "reopened"}
    /\ descriptor' = [descriptor EXCEPT ![r] = "live"]
    /\ runner' = [runner EXCEPT ![r] = "serving"]
    /\ Records(r, "connected")
    /\ UNCHANGED <<alive, member, index, deletion, leftovers>>

\* A record of a broker that then closes the archive.
LastRecord(r, kind, faulty) ==
    \E o \in Appended(journal[r], handle[r], kind, faulty) :
        /\ journal' = [journal EXCEPT ![r] = o.journal]
        /\ acked' = [acked EXCEPT ![r] = @ \cup o.told]

\* The connection is recorded, and the discussion cannot be read.
PublishedFails(r) ==
    /\ runner[r] \in {"opened", "reopened"}
    /\ descriptor' = [descriptor EXCEPT ![r] = "live"]
    /\ LastRecord(r, "connected", FALSE)
    /\ Abandon(r)
    /\ Fault
    /\ UNCHANGED <<member, index, deletion, leftovers>>

FailureEnds(r) ==
    /\ runner[r] = "failing"
    /\ runner' = [runner EXCEPT ![r] = "gone"]
    /\ FailureRecorded(r)
    /\ UNCHANGED <<alive, descriptor, handle, member, index, deletion, leftovers>>

\* Any other record, the end of the program among them.
Record(r, kind) ==
    /\ runner[r] = "serving" /\ Len(journal[r].log) < MaxRecords
    /\ Records(r, kind)
    /\ UNCHANGED <<runner, alive, descriptor, member, index, deletion, leftovers>>

\* stop: emit saves the descriptor before it records; without the one not the other.
Stop(r) ==
    /\ runner[r] = "serving"
    /\ runner' = [runner EXCEPT ![r] = "stopped"]
    /\ alive' = alive \ {r}
    /\ \/ /\ descriptor' = [descriptor EXCEPT ![r] = "stopped"]
          /\ Records(r, "ended")
       \/ Fault /\ UNCHANGED <<descriptor, journal, handle, acked>>
    /\ UNCHANGED <<member, index, deletion, leftovers>>

\* The end of Serve: the disconnection is recorded, the descriptor saved, then the
\* archive and the session are unlocked.
ShutDown(r) ==
    /\ runner[r] \in {"serving", "stopped"}
    /\ runner' = [runner EXCEPT ![r] = "gone"]
    /\ \E faulty \in BOOLEAN :
          /\ LastRecord(r, "disconnected", faulty)
          /\ IF faulty /\ ~handle[r].failed THEN Fault ELSE UNCHANGED archiveFaults
    /\ CloseHandle(r)
    /\ descriptor' = [descriptor EXCEPT ![r] = IF runner[r] = "stopped" THEN "stopped" ELSE @]
    /\ UNCHANGED <<alive, member, index, deletion, leftovers>>

\* A process is killed, perhaps while it writes; a launcher that waited too long kills
\* the broker it started.
Dies(r) ==
    /\ runner[r] \in Holding \cup {"launching"}
    /\ Fault
    /\ runner' = [runner EXCEPT ![r] = "gone"]
    /\ CloseHandle(r)
    /\ journal' \in {journal, [journal EXCEPT ![r].torn = handle[r] # NoHandle]}
    /\ UNCHANGED <<alive, descriptor, member, index, deletion, leftovers, acked>>

TargetDies(r) ==
    /\ r \in alive /\ Fault
    /\ alive' = alive \ {r}
    /\ UNCHANGED <<runner, descriptor, journal, handle, member, index, deletion, leftovers,
                   acked>>

\* session cleanup: no process of the session is left.
Cleanup(r) ==
    /\ descriptor[r] = "live" /\ SessionFree(r) /\ r \notin alive
    /\ descriptor' = [descriptor EXCEPT ![r] = "stopped"]
    /\ UNCHANGED <<runner, alive, journal, handle, member, index, deletion, leftovers,
                   acked, archiveFaults>>

-----------------------------------------------------------------------------
(* Deletion. *)

\* Mutant of Prepared: no record of the end is asked for.
PreparedUnended(r) ==
    /\ descriptor[r] # "live"
    /\ descriptor[r] = "stopped" => SessionFree(r)
    /\ journal[r].meta # "none" => ArchiveFree(r)

Prepared(r) ==
    /\ descriptor[r] # "live"
    /\ descriptor[r] = "stopped" => SessionFree(r)
    /\ journal[r].meta # "none" => ArchiveFree(r)
    /\ descriptor[r] = "none" => journal[r].meta = "ended"

Members(g) == {r \in Runs : member[r] = g \/ (Known(r) /\ GroupOf(r) = g)}

Delete(S, g) ==
    /\ IndexFree /\ S # {} /\ \A r \in S : Prepared(r)
    /\ deletion' = [runs |-> S, group |-> g]
    /\ index' = Backfilled(index)
    /\ UNCHANGED <<runner, alive, descriptor, journal, handle, member, leftovers, acked,
                   archiveFaults>>

DeleteRun(r) == Delete({r}, None)
DeleteInvestigation(g) == Delete(Members(g), g)

\* The records of a run in the order in which they are staged; the investigation's
\* file is the last of all. Each is renamed where it lies, and erased once all have been:
\* no reader finds a renamed file but an archive, of which left is not erased.
Stages == <<"archive", "session", "member">>
Removed(P, left) ==
    /\ leftovers' = leftovers \cup left
    /\ journal' = [r \in Runs |-> IF <<r, "archive">> \in P THEN NoJournal ELSE journal[r]]
    /\ acked' = [r \in Runs |-> IF <<r, "archive">> \in P THEN {} ELSE acked[r]]
    /\ descriptor' = [r \in Runs |->
                        IF <<r, "session">> \in P THEN "none" ELSE descriptor[r]]
    /\ member' = [r \in Runs |-> IF <<r, "member">> \in P THEN None ELSE member[r]]
    /\ index' = [g \in Groups |-> IF <<g, "index">> \in P THEN NoFile ELSE index[g]]

\* What has been staged when n paths of each run have been: n is 3 for some runs, 0 for
\* others and anything for the one at work.
Staged(n) == {<<r, Stages[i]>> : r \in deletion.runs, i \in 1 .. 3} \cap
             UNION {{<<r, Stages[i]>> : i \in 1 .. n[r]} : r \in deletion.runs}
All == Staged([r \in Runs |-> 3]) \cup
       (IF deletion.group = None THEN {} ELSE {<<deletion.group, "index">>})

\* Mutant of Interrupted: the association goes first.
InterruptedMemberFirst == {{<<r, "member">>} : r \in deletion.runs}

\* What a deletion that is killed has moved away.
Interrupted ==
    {Staged(n) : n \in {m \in [Runs -> 0 .. 3] :
                          \A q, r \in deletion.runs : q # r => {m[q], m[r]} \cap {0, 3} # {}}}

StagedArchives(P) == {r \in Runs : <<r, "archive">> \in P /\ journal[r].meta # "none"}

\* A rename that fails restores what was staged, and the restoring does not fail. Who is
\* killed before it erases leaves every archive it staged; who is killed while it erases,
\* or cannot erase one, leaves those that remain.
DeletionEnds ==
    /\ deletion # NoDeletion
    /\ \/ Removed(All, {}) /\ UNCHANGED archiveFaults
       \/ Removed({}, {}) /\ Fault
       \/ (\E P \in Interrupted : Removed(P, StagedArchives(P))) /\ Fault
       \/ (\E left \in SUBSET StagedArchives(All) : left # {} /\ Removed(All, left)) /\ Fault
    /\ deletion' = NoDeletion
    /\ UNCHANGED <<runner, alive, handle>>

ArchiveNext ==
    \/ \E r \in Runs :
          \/ \E g \in 1 .. r : Launch(r, g)
          \/ LaunchFails(r) \/ BrokerStarts(r) \/ RecoveryStarts(r)
          \/ OpenArchive(r) \/ StartFails(r) \/ Publish(r) \/ PublishedFails(r)
          \/ FailureEnds(r) \/ Stop(r) \/ ShutDown(r) \/ Dies(r) \/ TargetDies(r)
          \/ Cleanup(r) \/ DeleteRun(r) \/ DeleteInvestigation(r)
          \/ \E kind \in {"other", "ended"} : Record(r, kind)
    \/ Browse \/ DeletionEnds

ArchiveSpec == ArchiveInit /\ [][ArchiveNext]_archiveVars

-----------------------------------------------------------------------------
(* Properties. *)

(* Whatever failed or crashed, a journal can be read again, and it holds      *)
(* every record whose writer was told that it was saved.                      *)
AcknowledgedSurvive ==
    \A r \in Runs : Readable(journal[r]) /\ acked[r] \subseteq Range(journal[r].log)

(* A deletion never has in its hands a run whose launcher or broker is still  *)
(* at work, although a launch is invisible until its descriptor is published. *)
DeletionSparesTheLiving ==
    \A r \in deletion.runs : runner[r] \in {"none", "gone"} /\ r \notin alive

(* A run whose records are kept stays in its investigation under its number,  *)
(* unless it founds one of its own; and no two runs of an investigation share *)
(* a number: not with runs of releases that had none, nor with what an        *)
(* interrupted deletion leaves of a run, which is numbered as any other, but  *)
(* in an investigation of its own once its association is gone.               *)
InvestigationsStable ==
    [][/\ \A g \in Groups, r \in Runs :
            index[g].file /\ index'[g].file /\ index[g].ordinal[r] # 0
              => index'[g].ordinal[r] = index[g].ordinal[r]
       /\ \A g \in Groups, q, r \in Runs :
            q # r /\ index'[g].ordinal[q] # 0 => index'[g].ordinal[q] # index'[g].ordinal[r]
       /\ \A r \in Runs : Kept(r) /\ Kept(r)' =>
            GroupOf(r)' = GroupOf(r) \/ member'[r] = r]_archiveVars

(* The comment of the type has each run in its investigation for good; it is  *)
(* not so when another run is started under the name of a run that has        *)
(* joined one.                                                                *)
AssociationsImmutable ==
    [][\A r \in Runs : Kept(r) /\ Kept(r)' => GroupOf(r)' = GroupOf(r)]_archiveVars
=============================================================================
