---------------------------- MODULE BackupVerify ----------------------------
(***************************************************************************)
(* Backups, restore drills, and what is concluded from their records:      *)
(* src/finance_app/ops/backup.py, deploy/scripts/restore-verify.sh and     *)
(* restore.sh, status.backup_status, and the gate of `finops deploy`.      *)
(*                                                                         *)
(* Every command is a process of its own; their shared state is            *)
(* ops.backup_runs, the backup directory and the staging directories that  *)
(* hold a dump in plain text.  A dump is reduced to the version of the     *)
(* data it was taken of, a checksum to the contents it is of.              *)
(***************************************************************************)
EXTENDS Naturals, Sequences, FiniteSets

CONSTANTS
    Procs,               \* processes that may run a command
    MaxRuns,             \* bound: rows of ops.backup_runs
    MaxTime,             \* bound: ticks of the clock
    MaxData,             \* bound: versions of the data
    MaxBackupAge,        \* _MAX_BACKUP_AGE_HOURS, in ticks
    MaxVerificationAge,  \* _STALE_BACKUP_VERIFICATION_DAYS, in ticks
    MaxStagingAge,       \* _STALE_STAGING_MAX_AGE_SECONDS, in ticks
    Faults               \* what may go wrong, a subset of AllFaults

\* "tool":  pg_dump, gpg or pg_restore fails, or SIGTERM while they run
\* "raise": any other exception (database, file system)
\* "kill":  the process dies, and SIGTERM outside of the tools
\* "mixup": an operator verifies a backup that has not succeeded
AllFaults == {"tool", "raise", "kill", "mixup"}

ASSUME BackupAssumption ==
    /\ MaxRuns \in Nat /\ MaxTime \in Nat \ {0} /\ MaxData \in Nat \ {0}
    /\ MaxBackupAge \in Nat /\ MaxVerificationAge \in Nat /\ MaxStagingAge \in Nat
    /\ Faults \subseteq AllFaults

VARIABLES
    now,      \* the clock; an artifact is named by the tick it was begun in
    data,     \* version of the application's data
    rows,     \* ops.backup_runs, by id
    files,    \* the backup directory
    staging,  \* the staging directories of the commands at work
    op        \* the command each process runs

vars == <<now, data, rows, files, staging, op>>

None == 0

Time == 1..MaxTime
Version == 1..MaxData
Id == 1..MaxRuns

\* What a file holds: the dump of a version (None: truncated) that run by
\* encrypted.  No two runs of gpg give the same bytes.
Artifact == [data : Version \cup {None}, by : Id \cup {None}]
NoFile == [data |-> None, by |-> None]

Run == [run_type : {"backup", "restore_verification"},
        status : {"running", "success", "failed"},
        started_at : Time, finished_at : Time \cup {None},
        artifact_path : Time \cup {None}, sha256 : Artifact,
        row_counts : Version \cup {None}, verifies : Id \cup {None}]

NewRun(type, source) ==
    [run_type |-> type, status |-> "running",
     started_at |-> now, finished_at |-> None,
     artifact_path |-> None, sha256 |-> NoFile,
     row_counts |-> None, verifies |-> source]

Backing == {"staged", "dump", "encrypt", "measure", "record", "fail"}
Restoring == {"check", "decrypt", "verify", "compare"}

\* path: the artifact worked on; row: the run's own row; source: the backup
\* being verified; counts: of the dump, or of the scratch database;
\* expected: of the source; sha256: as measured.
Command == [pc : {"idle"} \cup Backing \cup Restoring,
            path : Time \cup {None}, row : Id \cup {None}, source : Id \cup {None},
            counts : Version \cup {None}, expected : Version \cup {None},
            sha256 : Artifact]

Idle == [pc |-> "idle", path |-> None, row |-> None, source |-> None,
         counts |-> None, expected |-> None, sha256 |-> NoFile]

\* plain: the version in plain text that it holds.  What the dead leave is in
\* nobody's way, and not represented.
Dir == [by : Procs, mtime : Time, plain : Version \cup {None}]

Init ==
    /\ now = 1 /\ data = 1
    /\ rows = <<>>
    /\ files = [t \in Time |-> NoFile]
    /\ staging = {}
    /\ op = [p \in Procs |-> Idle]
-----------------------------------------------------------------------------
(* What is concluded from the rows.                                        *)

Backups == {i \in DOMAIN rows : rows[i].run_type = "backup"}

Successful == {i \in Backups : rows[i].status = "success"}

VerificationsOf(b) ==
    {i \in DOMAIN rows : rows[i].run_type = "restore_verification" /\ rows[i].verifies = b}

\* order_by(started_at.desc(), id.desc()): rows are numbered in that order.
IsLatest(i, ids) == i \in ids /\ \A j \in ids : j <= i

LastBackup == {i \in Backups : IsLatest(i, Backups)}

IsVerified(b) ==
    \E v \in VerificationsOf(b) :
        /\ IsLatest(v, VerificationsOf(b))
        /\ rows[v].status = "success"
        /\ now <= rows[v].finished_at + MaxVerificationAge

BackupStatus ==
    IF Backups = {} THEN "never_run"
    ELSE IF \E b \in LastBackup : IsVerified(b) THEN "verified"
    ELSE "unverified"

\* `finops deploy` goes on only if the last backup succeeded, and lately.
GateOpen ==
    \E b \in LastBackup :
        rows[b].status = "success" /\ now <= rows[b].started_at + MaxBackupAge
-----------------------------------------------------------------------------
(* Building blocks of the commands.                                        *)

Goto(p, pc) == op' = [op EXCEPT ![p].pc = pc]

End(p) == op' = [op EXCEPT ![p] = Idle]

\* _new_staging_dir: sweeps what is old, whoever it belongs to, where it sees
\* it and can: a timer's unit and a container have a /tmp of their own, two
\* commands on the host share one, and the errors of rmtree are ignored.
Stage(p) ==
    \E swept \in SUBSET {d \in staging : now > d.mtime + MaxStagingAge} :
        staging' = (staging \ swept) \cup {[by |-> p, mtime |-> now, plain |-> None]}

DirOf(p) == {d \in staging : d.by = p}

\* Creating a file in a directory touches the directory.
Fill(p, version) ==
    staging' = (staging \ DirOf(p)) \cup {[by |-> p, mtime |-> now, plain |-> version]}

Unstage(p) == staging' = staging \ DirOf(p)

Insert(run) == Len(rows) < MaxRuns /\ rows' = Append(rows, run)
-----------------------------------------------------------------------------
(* create_backup.                                                          *)

BeginBackup(p) ==
    /\ op[p].pc = "idle"
    /\ Stage(p)
    /\ op' = [op EXCEPT ![p] = [Idle EXCEPT !.pc = "staged", !.path = now]]
    /\ UNCHANGED <<now, data, rows, files>>

InsertRun(p) ==
    /\ op[p].pc = "staged"
    /\ Insert(NewRun("backup", None))
    /\ op' = [op EXCEPT ![p].pc = "dump", ![p].row = Len(rows) + 1]
    /\ UNCHANGED <<now, data, files, staging>>

\* Faulty: the counts are of an earlier moment than the dump (QA-9).
DumpAfterCounting(p) ==
    /\ op[p].pc = "dump"
    /\ DirOf(p) # {} /\ Fill(p, data)
    /\ \E counts \in 1..data :
            op' = [op EXCEPT ![p].pc = "encrypt", ![p].counts = counts]
    /\ UNCHANGED <<now, data, rows, files>>

\* pg_dump, under the snapshot that the counts are taken in.
Dump(p) ==
    /\ op[p].pc = "dump"
    /\ \/ /\ DirOf(p) # {} /\ Fill(p, data)
          /\ op' = [op EXCEPT ![p].pc = "encrypt", ![p].counts = data]
       \/ /\ DirOf(p) = {} \/ "tool" \in Faults
          /\ Goto(p, "fail")
          /\ UNCHANGED staging
    /\ UNCHANGED <<now, data, rows, files>>

Encrypted(p) == [data |-> (CHOOSE d \in DirOf(p) : TRUE).plain, by |-> op[p].row]

Truncated(p) == [data |-> None, by |-> op[p].row]

\* Faulty: the exit status of gpg is not looked at.
EncryptUnchecked(p) ==
    /\ op[p].pc = "encrypt"
    /\ \/ DirOf(p) # {} /\ files' = [files EXCEPT ![op[p].path] = Encrypted(p)]
       \/ "tool" \in Faults /\ files' = [files EXCEPT ![op[p].path] = Truncated(p)]
    /\ Goto(p, "measure")
    /\ UNCHANGED <<now, data, rows, staging>>

\* gpg --yes replaces what is there; when it fails it may have truncated it.
Encrypt(p) ==
    /\ op[p].pc = "encrypt"
    /\ \/ /\ DirOf(p) # {}
          /\ files' = [files EXCEPT ![op[p].path] = Encrypted(p)]
          /\ Goto(p, "measure")
       \/ /\ DirOf(p) = {} \/ "tool" \in Faults
          /\ files' \in {files, [files EXCEPT ![op[p].path] = Truncated(p)]}
          /\ Goto(p, "fail")
    /\ UNCHANGED <<now, data, rows, staging>>

\* chmod, stat, sha256: SIGTERM is no longer caught.
Measure(p) ==
    /\ op[p].pc = "measure"
    /\ op' = [op EXCEPT ![p].pc = "record", ![p].sha256 = files[op[p].path]]
    /\ UNCHANGED <<now, data, rows, files, staging>>

RecordSuccess(p) ==
    /\ op[p].pc = "record"
    /\ rows' = [rows EXCEPT ![op[p].row] = [@ EXCEPT
                  !.status = "success", !.finished_at = now,
                  !.artifact_path = op[p].path, !.sha256 = op[p].sha256,
                  !.row_counts = op[p].counts]]
    /\ Unstage(p) /\ End(p)
    /\ UNCHANGED <<now, data, files>>

\* Only after a BackupError.
RecordFailure(p) ==
    /\ op[p].pc = "fail"
    /\ rows' = [rows EXCEPT ![op[p].row] = [@ EXCEPT
                  !.status = "failed", !.finished_at = now]]
    /\ Unstage(p) /\ End(p)
    /\ UNCHANGED <<now, data, files>>
-----------------------------------------------------------------------------
(* The weekly drill, and a restore by hand.                                *)

\* latest_successful_backup; without one the drill ends here.
BeginDrill(p, b) ==
    /\ op[p].pc = "idle"
    /\ IsLatest(b, Successful)
    /\ op' = [op EXCEPT ![p] = [Idle EXCEPT
                !.pc = "check", !.source = b, !.path = rows[b].artifact_path]]
    /\ UNCHANGED <<now, data, rows, files, staging>>

\* restore.sh without a run id, to be verified as any backup the operator
\* names (docs/runbooks/restore-backup.md: from `latest` or backup-status).
BeginByHand(p, path, b) ==
    /\ op[p].pc = "idle"
    /\ files[path] # NoFile
    /\ b \in LastBackup \/ IsLatest(b, Successful)
    /\ b \in Successful \/ "mixup" \in Faults
    /\ Stage(p)
    /\ op' = [op EXCEPT ![p] = [Idle EXCEPT
                !.pc = "decrypt", !.source = b, !.path = path]]
    /\ UNCHANGED <<now, data, rows, files>>

\* The recorded checksum against the file.
Check(p) ==
    /\ op[p].pc = "check"
    /\ IF files[op[p].path] = rows[op[p].source].sha256
       THEN Stage(p) /\ Goto(p, "decrypt")
       ELSE UNCHANGED staging /\ End(p)
    /\ UNCHANGED <<now, data, rows, files>>

\* gpg and pg_restore into the scratch database.  A failure leaves no row.
Restore(p) ==
    /\ op[p].pc = "decrypt"
    /\ \/ /\ files[op[p].path].data # None /\ DirOf(p) # {}
          /\ op' = [op EXCEPT ![p].pc = "verify", ![p].counts = files[op[p].path].data]
       \/ /\ files[op[p].path].data = None \/ DirOf(p) = {} \/ "tool" \in Faults
          /\ End(p)
    /\ Unstage(p)
    /\ UNCHANGED <<now, data, rows, files>>

BeginVerify(p) ==
    /\ op[p].pc = "verify"
    /\ Insert(NewRun("restore_verification", op[p].source))
    /\ op' = [op EXCEPT ![p].pc = "compare", ![p].row = Len(rows) + 1,
                        ![p].expected = rows[op[p].source].row_counts]
    /\ UNCHANGED <<now, data, files, staging>>

\* Faulty: mismatches are noted and not judged.
MatchesAnyway(p) == TRUE

\* A backup without counts matches whatever was restored.
Matches(p) == op[p].expected \in {None, op[p].counts}

EndVerify(p) ==
    /\ op[p].pc = "compare"
    /\ \E verdict \in {"success", "failed"} :
         /\ verdict = "success" => Matches(p)
         /\ verdict = "failed" => ~Matches(p) \/ "tool" \in Faults
         /\ rows' = [rows EXCEPT ![op[p].row] = [@ EXCEPT
                       !.status = verdict, !.finished_at = now,
                       !.row_counts = op[p].counts]]
    /\ End(p)
    /\ UNCHANGED <<now, data, files, staging>>
-----------------------------------------------------------------------------
(* Faults and the environment.                                             *)

\* An exception that is no BackupError: no row is updated.
Raise(p) ==
    /\ "raise" \in Faults
    /\ op[p].pc # "idle"
    /\ Unstage(p) /\ End(p)
    /\ UNCHANGED <<now, data, rows, files>>

Kill(p) ==
    /\ "kill" \in Faults
    /\ op[p].pc # "idle"
    /\ Unstage(p) /\ End(p)
    /\ UNCHANGED <<now, data, rows, files>>

Tick ==
    /\ now < MaxTime
    /\ now' = now + 1
    /\ UNCHANGED <<data, rows, files, staging, op>>

WriteData ==
    /\ data < MaxData
    /\ data' = data + 1
    /\ UNCHANGED <<now, rows, files, staging, op>>
-----------------------------------------------------------------------------
Backup(p) == BeginBackup(p) \/ InsertRun(p) \/ Dump(p) \/ Encrypt(p) \/ Measure(p)
             \/ RecordSuccess(p) \/ RecordFailure(p)

Drill(p) == \/ \E b \in DOMAIN rows : BeginDrill(p, b)
            \/ \E path \in Time, b \in DOMAIN rows : BeginByHand(p, path, b)
            \/ Check(p) \/ Restore(p) \/ BeginVerify(p) \/ EndVerify(p)

Next == \/ \E p \in Procs : Backup(p) \/ Drill(p) \/ Raise(p) \/ Kill(p)
        \/ Tick \/ WriteData

Spec == Init /\ [][Next]_vars
-----------------------------------------------------------------------------
TypeOK ==
    /\ now \in Time /\ data \in Version
    /\ rows \in Seq(Run) /\ Len(rows) <= MaxRuns
    /\ files \in [Time -> Artifact]
    /\ staging \subseteq Dir
    /\ op \in [Procs -> Command]

\* Two backups begun within the resolution of the names share one artifact.
SharesArtifact(b) ==
    \/ \E c \in Backups \ {b} : files[rows[b].artifact_path].by = c
    \/ \E p \in Procs : op[p].pc \in Backing /\ op[p].row # b
                        /\ op[p].path = rows[b].artifact_path

\* A backup on record as a success has an artifact that passes the check of
\* its checksum and holds what its counts were taken of, whatever else ran,
\* failed or was killed.
SuccessHasArtifact ==
    \A b \in Successful : ~SharesArtifact(b) =>
        /\ files[rows[b].artifact_path] = rows[b].sha256
        /\ files[rows[b].artifact_path].data = rows[b].row_counts

\* What backup-status calls verified is a success and can be restored: the
\* data that the drill, or a person, found in the scratch database are in its
\* artifact.
VerifiedIsRestorable ==
    /\ BackupStatus = "verified" => LastBackup \subseteq Successful
    /\ \A b \in Successful : IsVerified(b) /\ ~SharesArtifact(b) =>
        \E v \in VerificationsOf(b) :
            /\ rows[v].status = "success"
            /\ rows[v].row_counts = files[rows[b].artifact_path].data
            /\ rows[v].row_counts # None

\* A deploy that passes the gate could lose no more than the limit says:
\* there is an artifact that can be restored, of data not older than that.
GateSound ==
    GateOpen => \E b \in Successful :
        /\ now <= rows[b].started_at + MaxBackupAge
        /\ ~SharesArtifact(b) => /\ files[rows[b].artifact_path].data # None
                                 /\ files[rows[b].artifact_path].by = b
=============================================================================
