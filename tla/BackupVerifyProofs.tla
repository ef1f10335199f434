------------------------- MODULE BackupVerifyProofs -------------------------
(***************************************************************************)
(* Proofs about BackupVerify, for any processes, bounds, limits and        *)
(* faults; what is about verifications assumes that nobody verifies a      *)
(* backup that has not succeeded.                                          *)
(***************************************************************************)
EXTENDS BackupVerify, SequenceTheorems, TLAPS

\* Where a process has a row of its own that is still to be finished.
HasRow(p) == op[p].pc \in {"dump", "encrypt", "measure", "record", "fail", "compare"}

\* The file at path is from a backup on record and, if from run r, the dump
\* that counts were taken of.
Holds(path, r, counts) ==
    /\ files[path].by \in Backups
    /\ files[path].by = r => files[path].data = counts

Mine(p) ==
    /\ op[p].pc # "idle" => op[p].path \in Time
    /\ HasRow(p) => /\ op[p].row \in DOMAIN rows
                    /\ rows[op[p].row].status = "running"
    /\ HasRow(p) /\ op[p].pc # "compare" => op[p].row \in Backups
    /\ op[p].pc = "encrypt" => /\ op[p].counts \in Version
                               /\ \A d \in DirOf(p) : d.plain = op[p].counts
    /\ op[p].pc \in {"measure", "record"}
         => op[p].counts \in Version /\ Holds(op[p].path, op[p].row, op[p].counts)
    /\ op[p].pc = "record" /\ files[op[p].path].by = op[p].row
         => files[op[p].path] = op[p].sha256
    /\ op[p].pc \in Restoring => op[p].source \in DOMAIN rows
    /\ op[p].pc = "compare" => op[p].row \in VerificationsOf(op[p].source)

\* No two processes finish the same row.
OwnRows == \A p, q \in Procs : HasRow(p) /\ HasRow(q) /\ op[p].row = op[q].row => p = q

FilesAreOnRecord ==
    \A t \in Time : files[t].by \in Backups \/ files[t] = NoFile

\* A success names the file it wrote.
Good(b) ==
    /\ rows[b].artifact_path \in Time /\ rows[b].row_counts \in Version
    /\ Holds(rows[b].artifact_path, b, rows[b].row_counts)
    /\ files[rows[b].artifact_path].by = b
         => files[rows[b].artifact_path] = rows[b].sha256

RecordInv == /\ TypeOK /\ OwnRows /\ FilesAreOnRecord
             /\ \A p \in Procs : Mine(p)
             /\ \A b \in Successful : Good(b)

\* What a step of p leaves to the others: their commands and directories, the
\* rows that are not its own, and the files it does not write.
LeavesTheRest(p) ==
    /\ \A q \in Procs : q # p => op'[q] = op[q]
    /\ \A d \in staging' : d.by = p \/ d \in staging
    /\ DOMAIN rows \subseteq DOMAIN rows'
    /\ \A i \in DOMAIN rows :
          /\ rows'[i].run_type = rows[i].run_type
          /\ rows'[i].verifies = rows[i].verifies
          /\ rows'[i] = rows[i] \/ (HasRow(p) /\ i = op[p].row)
    /\ \A t \in Time : \/ files'[t] = files[t]
                       \/ op[p].pc = "encrypt" /\ files'[t].by = op[p].row
-----------------------------------------------------------------------------
(* Data.                                                                   *)

\* A row inserted at the end.
LEMMA InsertIs ==
    ASSUME TypeOK, NEW run \in Run, Insert(run)
    PROVE  /\ rows' \in Seq(Run) /\ Len(rows') <= MaxRuns
           /\ Len(rows) + 1 \in Id /\ Len(rows) + 1 \notin DOMAIN rows
           /\ DOMAIN rows' = DOMAIN rows \cup {Len(rows) + 1}
           /\ rows'[Len(rows) + 1] = run
           /\ \A i \in DOMAIN rows : rows'[i] = rows[i]
  BY BackupAssumption DEF TypeOK, Insert, Id

\* A row replaced.
LEMMA ReplaceIs ==
    ASSUME TypeOK, NEW i \in DOMAIN rows, NEW run \in Run,
           rows' = [rows EXCEPT ![i] = run]
    PROVE  /\ rows' \in Seq(Run) /\ Len(rows') <= MaxRuns
           /\ DOMAIN rows' = DOMAIN rows
           /\ rows'[i] = run
           /\ \A j \in DOMAIN rows : j # i => rows'[j] = rows[j]
  BY DEF TypeOK

\* Rows are numbered from one, as their processes know them.
LEMMA RowsAre ==
    ASSUME TypeOK
    PROVE  /\ DOMAIN rows \subseteq Id /\ None \notin DOMAIN rows
           /\ \A i \in DOMAIN rows : rows[i] \in Run
           /\ Backups \subseteq Id
  BY BackupAssumption DEF TypeOK, Id, None, Backups

\* A row as it is inserted.
LEMMA NewRunIs ==
    ASSUME TypeOK, NEW type \in {"backup", "restore_verification"},
           NEW source \in Id \cup {None}
    PROVE  /\ NewRun(type, source) \in Run
           /\ NewRun(type, source).run_type = type
           /\ NewRun(type, source).verifies = source
           /\ NewRun(type, source).status = "running"
  <1>1. NoFile \in Artifact
    BY DEF NoFile, Artifact
  <1> QED
    BY <1>1 DEF NewRun, Run, TypeOK

\* Steps on directories make directories; p's are p's, and no one else gets one.
LEMMA Dirs ==
    ASSUME TypeOK, NEW p \in Procs
    PROVE  /\ Stage(p) \/ Unstage(p) \/ (\E v \in Version : Fill(p, v))
                => /\ staging' \subseteq Dir
                   /\ \A d \in staging' : d.by = p \/ d \in staging
           /\ \A v \in Version : Fill(p, v) => \A d \in staging' : d.by = p => d.plain = v
  <1>1. now \in Time /\ staging \subseteq Dir
    BY DEF TypeOK
  <1> DEFINE Well == /\ staging' \subseteq Dir
                     /\ \A d \in staging' : d.by = p \/ d \in staging
  <1>2. ASSUME Stage(p) PROVE Well
    <2> DEFINE new == [by |-> p, mtime |-> now, plain |-> None]
    <2>1. new \in Dir /\ new.by = p
      BY <1>1 DEF Dir
    <2> QED
      BY <1>1, <1>2, <2>1 DEF Stage
  <1>3. ASSUME Unstage(p) PROVE Well
    BY <1>1, <1>3 DEF Unstage
  <1>5. ASSUME NEW v \in Version, Fill(p, v)
        PROVE  /\ staging' \subseteq Dir
               /\ \A d \in staging' : d.by = p \/ d \in staging
               /\ \A d \in staging' : d.by = p => d.plain = v
    <2> DEFINE new == [by |-> p, mtime |-> now, plain |-> v]
    <2>1. new \in Dir /\ new.by = p /\ new.plain = v
      BY <1>1 DEF Dir
    <2> HIDE DEF new
    <2>2. staging' = (staging \ DirOf(p)) \cup {new}
      BY <1>5 DEF Fill, new
    <2> QED
      BY <1>1, <2>1, <2>2 DEF DirOf
  <1> QED
    BY <1>2, <1>3, <1>5
-----------------------------------------------------------------------------
(* What a step leaves alone.                                               *)

\* Rows keep their kind, so files stay on record.
LEMMA BackupsStay ==
    ASSUME NEW p \in Procs, LeavesTheRest(p)
    PROVE  Backups \subseteq Backups'
           /\ \A b : VerificationsOf(b) \subseteq VerificationsOf(b)'
  BY DEF LeavesTheRest, Backups, VerificationsOf

\* The commands of the others go on undisturbed.
LEMMA OthersStep ==
    ASSUME RecordInv, NEW p \in Procs, LeavesTheRest(p), NEW q \in Procs, q # p
    PROVE  Mine(q)' /\ (HasRow(q)' <=> HasRow(q))
  <1>1. op'[q] = op[q] /\ Mine(q) /\ (HasRow(q) /\ HasRow(p) => op[q].row # op[p].row)
    BY DEF RecordInv, OwnRows, LeavesTheRest
  <1>2. HasRow(q)' <=> HasRow(q)
    BY <1>1 DEF HasRow
  <1>3. HasRow(q) => /\ op[q].row \in DOMAIN rows'
                     /\ rows'[op[q].row].status = "running"
    BY <1>1 DEF Mine, LeavesTheRest
  <1>4. \A d \in DirOf(q)' : d \in DirOf(q)
    BY DEF DirOf, LeavesTheRest
  <1>5. op[q].pc \in {"measure", "record"} =>
           /\ Holds(op[q].path, op[q].row, op[q].counts)'
           /\ files'[op[q].path] = files[op[q].path]
              \/ files'[op[q].path].by # op[q].row
    <2> SUFFICES ASSUME op[q].pc \in {"measure", "record"}
                 PROVE  /\ Holds(op[q].path, op[q].row, op[q].counts)'
                        /\ files'[op[q].path] = files[op[q].path]
                           \/ files'[op[q].path].by # op[q].row
      OBVIOUS
    <2>1. HasRow(q) /\ op[q].path \in Time
          /\ Holds(op[q].path, op[q].row, op[q].counts)
      BY <1>1 DEF HasRow, Mine
    <2>2. CASE files'[op[q].path] = files[op[q].path]
      BY <1>1, <2>1, <2>2, BackupsStay DEF Holds
    <2>3. CASE op[p].pc = "encrypt" /\ files'[op[q].path].by = op[p].row
      <3>1. op[p].row \in Backups /\ op[p].row # op[q].row
        BY <1>1, <2>1, <2>3 DEF RecordInv, Mine, HasRow
      <3> QED
        BY <1>1, <2>3, <3>1, BackupsStay DEF Holds
    <2> QED
      BY <2>1, <2>2, <2>3 DEF LeavesTheRest
  <1> QED
    BY <1>1, <1>2, <1>3, <1>4, <1>5, BackupsStay DEF Mine, LeavesTheRest

\* A success on record stays one, and so does its file.
LEMMA GoodStays ==
    ASSUME RecordInv, NEW p \in Procs, LeavesTheRest(p), NEW b \in Successful
    PROVE  b \in Successful' /\ rows'[b] = rows[b] /\ Good(b)'
  <1>1. b \in DOMAIN rows /\ rows[b].status = "success" /\ Good(b)
    BY DEF Successful, Backups, RecordInv
  <1>2. ~(HasRow(p) /\ b = op[p].row)
    BY <1>1 DEF RecordInv, Mine
  <1>3. rows'[b] = rows[b] /\ b \in Backups'
    BY <1>1, <1>2, BackupsStay DEF LeavesTheRest, Successful
  <1> DEFINE t == rows[b].artifact_path
  <1>4. \/ files'[t] = files[t]
        \/ files'[t].by \in Backups /\ files'[t].by # b
    BY <1>1, <1>2 DEF LeavesTheRest, Good, HasRow, RecordInv, Mine
  <1>5. Good(b)'
    BY <1>1, <1>3, <1>4, BackupsStay DEF Good, Holds
  <1> QED
    BY <1>1, <1>3, <1>5 DEF Successful

\* A step of p keeps the invariant if it keeps what p's own part of it says.
LEMMA ProcStep ==
    ASSUME RecordInv, NEW p \in Procs, LeavesTheRest(p), TypeOK', Mine(p)',
           HasRow(p)' => \/ HasRow(p) /\ op'[p].row = op[p].row
                         \/ op'[p].row \notin DOMAIN rows,
           \A b \in Successful' : b \in Successful \/ Good(b)'
    PROVE  RecordInv'
  <1>1. OwnRows'
    <2>1. \A q \in Procs : q # p /\ HasRow(q)' =>
             op'[q] = op[q] /\ HasRow(q) /\ op[q].row \in DOMAIN rows
      BY OthersStep DEF LeavesTheRest, RecordInv, Mine
    <2> QED
      BY <2>1 DEF OwnRows, RecordInv
  <1>2. FilesAreOnRecord'
    <2>1. op[p].pc = "encrypt" => op[p].row \in Backups
      BY DEF RecordInv, Mine, HasRow
    <2> QED
      BY <2>1, BackupsStay DEF FilesAreOnRecord, RecordInv, LeavesTheRest
  <1>3. \A q \in Procs : Mine(q)'
    BY OthersStep
  <1>4. \A b \in Successful' : Good(b)'
    BY GoodStays
  <1> QED
    BY <1>1, <1>2, <1>3, <1>4 DEF RecordInv

\* A step that changes neither rows nor files.
LEMMA QuietStep ==
    ASSUME RecordInv, NEW p \in Procs, NEW c \in Command,
           op' = [op EXCEPT ![p] = c],
           UNCHANGED <<now, data, rows, files>>,
           staging' \subseteq Dir,
           \A d \in staging' : d.by = p \/ d \in staging,
           Mine(p)',
           c.pc \in {"idle", "staged", "check", "decrypt", "verify"}
             \/ (HasRow(p) /\ c.row = op[p].row)
    PROVE  RecordInv'
  <1>1. op \in [Procs -> Command] /\ op'[p] = c /\ op' \in [Procs -> Command]
        /\ \A q \in Procs : q # p => op'[q] = op[q]
    BY DEF RecordInv, TypeOK
  <1>2. LeavesTheRest(p)
    BY <1>1 DEF LeavesTheRest
  <1>3. TypeOK'
    BY <1>1 DEF TypeOK, RecordInv
  <1>4. HasRow(p)' => HasRow(p) /\ op'[p].row = op[p].row
    BY <1>1 DEF HasRow
  <1>5. Successful' = Successful
    BY DEF Successful, Backups
  <1> QED
    BY <1>1, <1>2, <1>3, <1>4, <1>5, ProcStep

\* Ending a command is such a step, whatever becomes of its directories.
LEMMA EndQuietly ==
    ASSUME RecordInv, NEW p \in Procs, End(p),
           UNCHANGED <<now, data, rows, files>>,
           Unstage(p) \/ UNCHANGED staging
    PROVE  RecordInv'
  <1>1. Idle \in Command /\ Idle.pc = "idle"
    BY DEF Idle, Command, NoFile, Artifact
  <1>2. op' = [op EXCEPT ![p] = Idle] /\ op'[p] = Idle
    BY DEF End, RecordInv, TypeOK
  <1>3. Mine(p)'
    BY <1>1, <1>2 DEF Mine, HasRow, Restoring
  <1>4. /\ staging' \subseteq Dir
        /\ \A d \in staging' : d.by = p \/ d \in staging
    BY Dirs DEF RecordInv, TypeOK
  <1> QED
    BY <1>1, <1>2, <1>3, <1>4, QuietStep
-----------------------------------------------------------------------------
(* create_backup.                                                          *)

\* create_backup makes its staging directory.
LEMMA BeginBackupStep ==
    ASSUME RecordInv, NEW p \in Procs, BeginBackup(p)
    PROVE  RecordInv'
  <1> DEFINE c == [Idle EXCEPT !.pc = "staged", !.path = now]
  <1>1. now \in Time /\ op \in [Procs -> Command]
    BY DEF RecordInv, TypeOK
  <1>2. c \in Command /\ c.pc = "staged" /\ c.path = now
    BY <1>1 DEF Idle, Command, NoFile, Artifact, Backing
  <1>3. op' = [op EXCEPT ![p] = c] /\ UNCHANGED <<now, data, rows, files>>
    BY DEF BeginBackup
  <1> HIDE DEF c
  <1>4. op'[p] = c
    BY <1>1, <1>3
  <1>5. Mine(p)'
    BY <1>1, <1>2, <1>3, <1>4 DEF Mine, HasRow, Restoring
  <1> QED
    BY <1>2, <1>3, <1>5, Dirs, QuietStep DEF BeginBackup, RecordInv

\* create_backup inserts its running row.
LEMMA InsertRunStep ==
    ASSUME RecordInv, NEW p \in Procs, InsertRun(p)
    PROVE  RecordInv'
  <1> DEFINE n == Len(rows) + 1
             run == NewRun("backup", None)
             c == [op[p] EXCEPT !.pc = "dump", !.row = n]
  <1>1. /\ run \in Run /\ run.run_type = "backup" /\ run.status = "running"
        /\ run.verifies = None
    BY NewRunIs DEF RecordInv
  <1>2. Insert(run) /\ op[p].pc = "staged" /\ UNCHANGED <<now, data, files, staging>>
    BY DEF InsertRun
  <1>3. /\ rows' \in Seq(Run) /\ Len(rows') <= MaxRuns
        /\ n \in Id /\ n \notin DOMAIN rows
        /\ DOMAIN rows' = DOMAIN rows \cup {n} /\ rows'[n] = run
        /\ \A i \in DOMAIN rows : rows'[i] = rows[i]
    BY <1>1, <1>2, InsertIs DEF RecordInv
  <1> HIDE DEF run
  <1>4. op \in [Procs -> Command] /\ op[p] \in Command /\ op[p].path \in Time
    BY <1>2 DEF RecordInv, TypeOK, Mine
  <1>5. /\ c \in Command /\ c.pc = "dump" /\ c.row = n /\ c.path \in Time
        /\ op' = [op EXCEPT ![p] = c]
    BY <1>3, <1>4 DEF Command, Backing, InsertRun
  <1> HIDE DEF c, n
  <1>6. op'[p] = c /\ op' \in [Procs -> Command]
        /\ \A q \in Procs : q # p => op'[q] = op[q]
    BY <1>4, <1>5
  <1>7. TypeOK'
    BY <1>2, <1>3, <1>6 DEF TypeOK, RecordInv
  <1>8. LeavesTheRest(p)
    BY <1>2, <1>3, <1>6 DEF LeavesTheRest
  <1>9. Mine(p)'
    BY <1>1, <1>3, <1>5, <1>6 DEF Mine, HasRow, Restoring, Backups
  <1>10. \A b \in Successful' : b \in Successful
    BY <1>1, <1>3 DEF Successful, Backups
  <1> QED
    BY <1>3, <1>5, <1>6, <1>7, <1>8, <1>9, <1>10, ProcStep

\* pg_dump writes plain text, of which the counts are taken.
LEMMA DumpStep ==
    ASSUME RecordInv, NEW p \in Procs, Dump(p)
    PROVE  RecordInv'
  <1>1. /\ op \in [Procs -> Command] /\ op[p] \in Command /\ data \in Version
        /\ op[p].pc = "dump" /\ HasRow(p) /\ Mine(p)
        /\ UNCHANGED <<now, data, rows, files>>
    BY DEF RecordInv, TypeOK, HasRow, Dump
  <1>2. ASSUME Fill(p, data),
               op' = [op EXCEPT ![p].pc = "encrypt", ![p].counts = data]
        PROVE  RecordInv'
    <2> DEFINE c == [op[p] EXCEPT !.pc = "encrypt", !.counts = data]
    <2>1. /\ c \in Command /\ c.pc = "encrypt" /\ c.counts = data
          /\ c.row = op[p].row /\ c.path = op[p].path
      BY <1>1 DEF Command, Backing
    <2>2. op' = [op EXCEPT ![p] = c]
      BY <1>1, <1>2
    <2> HIDE DEF c
    <2>3. op'[p] = c
      BY <1>1, <2>2
    <2>4. /\ staging' \subseteq Dir
          /\ \A d \in staging' : d.by = p \/ d \in staging
          /\ \A d \in staging' : d.by = p => d.plain = data
      BY <1>1, <1>2, Dirs DEF RecordInv
    <2>5. Mine(p)'
      BY <1>1, <2>1, <2>3, <2>4 DEF Mine, HasRow, Restoring, Backups, DirOf
    <2> QED
      BY <1>1, <2>1, <2>2, <2>4, <2>5, QuietStep
  <1>3. ASSUME Goto(p, "fail"), UNCHANGED staging
        PROVE  RecordInv'
    <2> DEFINE c == [op[p] EXCEPT !.pc = "fail"]
    <2>1. /\ c \in Command /\ c.pc = "fail"
          /\ c.row = op[p].row /\ c.path = op[p].path
      BY <1>1 DEF Command, Backing
    <2>2. op' = [op EXCEPT ![p] = c]
      BY <1>1, <1>3 DEF Goto
    <2> HIDE DEF c
    <2>3. op'[p] = c
      BY <1>1, <2>2
    <2>4. Mine(p)'
      BY <1>1, <2>1, <2>3 DEF Mine, HasRow, Restoring, Backups
    <2> QED
      BY <1>1, <1>3, <2>1, <2>2, <2>4, QuietStep DEF RecordInv, TypeOK
  <1> QED
    BY <1>2, <1>3 DEF Dump

\* gpg writes the artifact, in full or in part.
LEMMA EncryptStep ==
    ASSUME RecordInv, NEW p \in Procs, Encrypt(p)
    PROVE  RecordInv'
  <1>1. /\ op \in [Procs -> Command] /\ op[p] \in Command
        /\ op[p].pc = "encrypt" /\ HasRow(p) /\ Mine(p)
        /\ op[p].path \in Time /\ op[p].row \in Backups /\ op[p].row \in Id
        /\ op[p].counts \in Version /\ \A d \in DirOf(p) : d.plain = op[p].counts
        /\ files \in [Time -> Artifact]
        /\ UNCHANGED <<now, data, rows, staging>>
    BY RowsAre DEF RecordInv, TypeOK, HasRow, Encrypt, Mine
  <1>2. Encrypted(p) = [data |-> op[p].counts, by |-> op[p].row]
        \/ DirOf(p) = {}
    BY <1>1 DEF Encrypted
  <1>3. PICK pc \in {"measure", "fail"} :
           /\ Goto(p, pc)
           /\ \/ /\ pc = "measure" /\ DirOf(p) # {}
                 /\ files' = [files EXCEPT ![op[p].path] = Encrypted(p)]
              \/ /\ pc = "fail"
                 /\ \/ files' = files
                    \/ files' = [files EXCEPT ![op[p].path] = Truncated(p)]
    BY DEF Encrypt
  <1> DEFINE c == [op[p] EXCEPT !.pc = pc]
  <1>4. /\ c \in Command /\ c.pc = pc /\ c.row = op[p].row
        /\ c.path = op[p].path /\ c.counts = op[p].counts
    BY <1>1 DEF Command, Backing
  <1>5. op' = [op EXCEPT ![p] = c]
    BY <1>1, <1>3 DEF Goto
  <1> HIDE DEF c
  <1>6. op'[p] = c /\ op' \in [Procs -> Command]
        /\ \A q \in Procs : q # p => op'[q] = op[q]
    BY <1>1, <1>4, <1>5
  <1>7. \/ files' = files /\ pc = "fail"
        \/ \E version \in Version \cup {None} :
              /\ files' = [files EXCEPT ![op[p].path] =
                              [data |-> version, by |-> op[p].row]]
              /\ pc = "measure" => version = op[p].counts
    BY <1>1, <1>2, <1>3 DEF Truncated
  <1>8. /\ files' \in [Time -> Artifact]
        /\ \A t \in Time : files'[t] = files[t] \/ files'[t].by = op[p].row
        /\ pc = "measure" => /\ files'[op[p].path].by = op[p].row
                             /\ files'[op[p].path].data = op[p].counts
    <2>1. CASE files' = files /\ pc = "fail"
      BY <1>1, <2>1
    <2>2. ASSUME NEW version \in Version \cup {None},
                 files' = [files EXCEPT ![op[p].path] =
                             [data |-> version, by |-> op[p].row]],
                 pc = "measure" => version = op[p].counts
          PROVE  /\ files' \in [Time -> Artifact]
                 /\ \A t \in Time : files'[t] = files[t] \/ files'[t].by = op[p].row
                 /\ pc = "measure" => /\ files'[op[p].path].by = op[p].row
                                      /\ files'[op[p].path].data = op[p].counts
      <3> DEFINE new == [data |-> version, by |-> op[p].row]
      <3>1. new \in Artifact /\ new.by = op[p].row /\ new.data = version
        BY <1>1 DEF Artifact
      <3>2. files' = [files EXCEPT ![op[p].path] = new]
        BY <2>2
      <3> HIDE DEF new
      <3>3. \A t \in Time : files'[t] = IF t = op[p].path THEN new ELSE files[t]
        BY <1>1, <3>2
      <3>4. files' \in [Time -> Artifact]
        BY <1>1, <3>1, <3>2
      <3> QED
        BY <1>1, <2>2, <3>1, <3>3, <3>4
    <2> QED
      BY <1>7, <2>1, <2>2
  <1>9. TypeOK'
    BY <1>1, <1>6, <1>8 DEF TypeOK, RecordInv
  <1>10. LeavesTheRest(p)
    BY <1>1, <1>6, <1>8 DEF LeavesTheRest
  <1>11. Mine(p)'
    BY <1>1, <1>3, <1>4, <1>6, <1>8 DEF Mine, HasRow, Restoring, Holds, Backups
  <1>12. Successful' = Successful
    BY <1>1 DEF Successful, Backups
  <1> QED
    BY <1>1, <1>4, <1>6, <1>9, <1>10, <1>11, <1>12, ProcStep

\* The artifact is read back for its checksum.
LEMMA MeasureStep ==
    ASSUME RecordInv, NEW p \in Procs, Measure(p)
    PROVE  RecordInv'
  <1>1. /\ op \in [Procs -> Command] /\ op[p] \in Command
        /\ op[p].pc = "measure" /\ HasRow(p) /\ Mine(p) /\ op[p].path \in Time
        /\ files[op[p].path] \in Artifact /\ staging \subseteq Dir
        /\ UNCHANGED <<now, data, rows, files, staging>>
    BY DEF RecordInv, TypeOK, HasRow, Measure, Mine
  <1> DEFINE c == [op[p] EXCEPT !.pc = "record", !.sha256 = files[op[p].path]]
  <1>2. /\ c \in Command /\ c.pc = "record" /\ c.row = op[p].row
        /\ c.path = op[p].path /\ c.counts = op[p].counts
        /\ c.sha256 = files[op[p].path]
    BY <1>1 DEF Command, Backing
  <1>3. op' = [op EXCEPT ![p] = c]
    BY <1>1 DEF Measure
  <1> HIDE DEF c
  <1>4. op'[p] = c
    BY <1>1, <1>3
  <1>5. Mine(p)'
    BY <1>1, <1>2, <1>4 DEF Mine, HasRow, Restoring, Holds, Backups
  <1> QED
    BY <1>1, <1>2, <1>3, <1>5, QuietStep

\* A command ends with a last word on its row.
LEMMA FinishStep ==
    ASSUME RecordInv, NEW p \in Procs, HasRow(p), End(p),
           NEW r, r = op[p].row,
           NEW run \in Run, rows' = [rows EXCEPT ![r] = run],
           run.run_type = rows[r].run_type, run.verifies = rows[r].verifies,
           Unstage(p) \/ UNCHANGED staging,
           UNCHANGED <<now, data, files>>,
           r \in Successful' => Good(r)'
    PROVE  RecordInv'
  <1>1. /\ r \in DOMAIN rows /\ op \in [Procs -> Command]
        /\ rows' \in Seq(Run) /\ Len(rows') <= MaxRuns
        /\ DOMAIN rows' = DOMAIN rows /\ rows'[r] = run
        /\ \A j \in DOMAIN rows : j # r => rows'[j] = rows[j]
    BY ReplaceIs DEF RecordInv, Mine, TypeOK
  <1>2. Idle \in Command /\ Idle.pc = "idle"
    BY DEF Idle, Command, NoFile, Artifact
  <1>3. /\ op'[p] = Idle /\ op' \in [Procs -> Command]
        /\ \A q \in Procs : q # p => op'[q] = op[q]
    BY <1>1, <1>2 DEF End
  <1>4. Mine(p)' /\ ~HasRow(p)'
    BY <1>2, <1>3 DEF Mine, HasRow, Restoring
  <1>5. /\ staging' \subseteq Dir
        /\ \A d \in staging' : d.by = p \/ d \in staging
    BY Dirs DEF RecordInv, TypeOK
  <1>6. TypeOK'
    BY <1>1, <1>3, <1>5 DEF TypeOK, RecordInv
  <1>7. LeavesTheRest(p)
    BY <1>1, <1>3, <1>5 DEF LeavesTheRest
  <1>8. \A b \in Successful' : b \in Successful \/ b = r
    BY <1>1 DEF Successful, Backups
  <1> QED
    BY <1>1, <1>4, <1>6, <1>7, <1>8, ProcStep

\* create_backup records its success.
LEMMA RecordSuccessStep ==
    ASSUME RecordInv, NEW p \in Procs, RecordSuccess(p)
    PROVE  RecordInv'
  <1>0. PICK r : r = op[p].row
    OBVIOUS
  <1> DEFINE run == [rows[r] EXCEPT
                  !.status = "success", !.finished_at = now,
                  !.artifact_path = op[p].path, !.sha256 = op[p].sha256,
                  !.row_counts = op[p].counts]
  <1>1. /\ op[p] \in Command /\ op[p].pc = "record" /\ HasRow(p) /\ Mine(p)
        /\ op[p].path \in Time /\ r \in Backups /\ rows[r] \in Run /\ now \in Time
        /\ r \in DOMAIN rows /\ op[p].counts \in Version
        /\ Unstage(p) /\ End(p) /\ UNCHANGED <<now, data, files>>
    BY <1>0, RowsAre DEF RecordInv, TypeOK, HasRow, RecordSuccess, Mine, Backups
  <1>2. /\ run \in Run /\ run.run_type = rows[r].run_type
        /\ run.verifies = rows[r].verifies /\ run.artifact_path = op[p].path
        /\ run.sha256 = op[p].sha256 /\ run.row_counts = op[p].counts
    BY <1>1 DEF Run, Command
  <1>3. rows' = [rows EXCEPT ![r] = run]
    BY <1>0 DEF RecordSuccess
  <1> HIDE DEF run
  <1>4. rows'[r] = run /\ Backups' = Backups
    BY <1>1, <1>2, <1>3, ReplaceIs DEF RecordInv, Backups
  <1>5. Good(r)'
    <2>1. /\ rows'[r].artifact_path = op[p].path
          /\ rows'[r].row_counts = op[p].counts
          /\ rows'[r].sha256 = op[p].sha256
      BY <1>2, <1>4
    <2>2. /\ files[op[p].path].by \in Backups
          /\ files[op[p].path].by = r
               => /\ files[op[p].path].data = op[p].counts
                  /\ files[op[p].path] = op[p].sha256
      BY <1>0, <1>1 DEF Mine, Holds
    <2> QED
      BY <1>1, <1>4, <2>1, <2>2 DEF Good, Holds
  <1> QED
    BY <1>0, <1>1, <1>2, <1>3, <1>5, FinishStep

\* create_backup records a BackupError.
LEMMA RecordFailureStep ==
    ASSUME RecordInv, NEW p \in Procs, RecordFailure(p)
    PROVE  RecordInv'
  <1>0. PICK r : r = op[p].row
    OBVIOUS
  <1> DEFINE run == [rows[r] EXCEPT !.status = "failed", !.finished_at = now]
  <1>1. /\ HasRow(p) /\ rows[r] \in Run /\ now \in Time /\ r \in DOMAIN rows
        /\ Unstage(p) /\ End(p) /\ UNCHANGED <<now, data, files>>
    BY <1>0, RowsAre DEF RecordInv, TypeOK, HasRow, RecordFailure, Mine
  <1>2. /\ run \in Run /\ run.run_type = rows[r].run_type
        /\ run.verifies = rows[r].verifies /\ run.status = "failed"
    BY <1>1 DEF Run
  <1>3. rows' = [rows EXCEPT ![r] = run]
    BY <1>0 DEF RecordFailure
  <1> HIDE DEF run
  <1>4. r \notin Successful'
    BY <1>1, <1>2, <1>3, ReplaceIs DEF RecordInv, Successful
  <1> QED
    BY <1>0, <1>1, <1>2, <1>3, <1>4, FinishStep
-----------------------------------------------------------------------------
(* The drill, a restore by hand, and the rest.                             *)

\* A drill, or a restore by hand, begins.
LEMMA BeginDrillStep ==
    ASSUME RecordInv, NEW p \in Procs, NEW b \in DOMAIN rows,
           BeginDrill(p, b) \/ \E path \in Time : BeginByHand(p, path, b)
    PROVE  RecordInv'
  <1>1. PICK pc \in {"check", "decrypt"}, path \in Time :
           /\ op' = [op EXCEPT ![p] = [Idle EXCEPT
                        !.pc = pc, !.source = b, !.path = path]]
           /\ Stage(p) \/ UNCHANGED staging
           /\ UNCHANGED <<now, data, rows, files>>
    <2>1. CASE BeginDrill(p, b)
      <3>1. b \in Successful /\ Good(b)
        BY <2>1 DEF BeginDrill, IsLatest, RecordInv
      <3> QED
        BY <2>1, <3>1 DEF BeginDrill, Good
    <2>2. CASE \E path \in Time : BeginByHand(p, path, b)
      BY <2>2 DEF BeginByHand
    <2> QED
      BY <2>1, <2>2
  <1> DEFINE c == [Idle EXCEPT !.pc = pc, !.source = b, !.path = path]
  <1>2. /\ c \in Command /\ c.pc = pc /\ c.path = path /\ c.source = b
    BY RowsAre DEF Idle, Command, NoFile, Artifact, Restoring, RecordInv
  <1>3. op' = [op EXCEPT ![p] = c]
    BY <1>1
  <1> HIDE DEF c
  <1>4. op'[p] = c
    BY <1>3 DEF RecordInv, TypeOK
  <1>5. Mine(p)'
    BY <1>1, <1>2, <1>4 DEF Mine, HasRow
  <1>6. /\ staging' \subseteq Dir
        /\ \A d \in staging' : d.by = p \/ d \in staging
    BY <1>1, Dirs DEF RecordInv, TypeOK
  <1> QED
    BY <1>1, <1>2, <1>3, <1>5, <1>6, QuietStep

\* A drill goes on without touching rows or files.
LEMMA RestoreSteps ==
    ASSUME RecordInv, NEW p \in Procs, Check(p) \/ Restore(p)
    PROVE  RecordInv'
  <1>1. /\ op \in [Procs -> Command] /\ op[p] \in Command /\ Mine(p)
        /\ op[p].pc \in {"check", "decrypt"} /\ op[p].path \in Time
        /\ op[p].source \in DOMAIN rows /\ files[op[p].path] \in Artifact
        /\ UNCHANGED <<now, data, rows, files>>
    BY DEF RecordInv, TypeOK, Check, Restore, Mine, Restoring
  <1>2. ASSUME NEW c \in Command, op' = [op EXCEPT ![p] = c],
               c.pc \in {"decrypt", "verify"}, c.path = op[p].path,
               c.source = op[p].source, Stage(p) \/ Unstage(p)
        PROVE  RecordInv'
    <2>1. op'[p] = c
      BY <1>1, <1>2
    <2>2. Mine(p)'
      BY <1>1, <1>2, <2>1 DEF Mine, HasRow
    <2> QED
      BY <1>1, <1>2, <2>2, Dirs, QuietStep DEF RecordInv
  <1>3. CASE Goto(p, "decrypt") /\ Stage(p)
    <2> DEFINE c == [op[p] EXCEPT !.pc = "decrypt"]
    <2>1. c \in Command /\ c.pc = "decrypt" /\ c.path = op[p].path
          /\ c.source = op[p].source
      BY <1>1 DEF Command, Restoring
    <2>2. op' = [op EXCEPT ![p] = c]
      BY <1>1, <1>3 DEF Goto
    <2> HIDE DEF c
    <2> QED
      BY <1>2, <1>3, <2>1, <2>2
  <1>4. CASE /\ op' = [op EXCEPT ![p].pc = "verify",
                                 ![p].counts = files[op[p].path].data]
             /\ Unstage(p)
    <2> DEFINE c == [op[p] EXCEPT !.pc = "verify",
                                  !.counts = files[op[p].path].data]
    <2>1. c \in Command /\ c.pc = "verify" /\ c.path = op[p].path
          /\ c.source = op[p].source
      BY <1>1 DEF Command, Restoring, Artifact
    <2>2. op' = [op EXCEPT ![p] = c]
      BY <1>1, <1>4
    <2> HIDE DEF c
    <2> QED
      BY <1>2, <1>4, <2>1, <2>2
  <1>5. CASE End(p) /\ (Unstage(p) \/ UNCHANGED staging)
    BY <1>1, <1>5, EndQuietly
  <1> QED
    BY <1>3, <1>4, <1>5 DEF Check, Restore

\* verify_restore inserts its running row.
LEMMA BeginVerifyStep ==
    ASSUME RecordInv, NEW p \in Procs, BeginVerify(p)
    PROVE  RecordInv'
  <1> DEFINE n == Len(rows) + 1
             run == NewRun("restore_verification", op[p].source)
             c == [op[p] EXCEPT !.pc = "compare", !.row = n,
                                !.expected = rows[op[p].source].row_counts]
  <1>1. /\ op \in [Procs -> Command] /\ op[p] \in Command /\ op[p].path \in Time
        /\ op[p].source \in DOMAIN rows /\ op[p].source \in Id
        /\ rows[op[p].source] \in Run
        /\ Insert(run) /\ UNCHANGED <<now, data, files, staging>>
    BY RowsAre DEF RecordInv, TypeOK, Mine, BeginVerify, Restoring
  <1>2. /\ run \in Run /\ run.run_type = "restore_verification"
        /\ run.status = "running" /\ run.verifies = op[p].source
    BY <1>1, NewRunIs DEF RecordInv
  <1>3. /\ rows' \in Seq(Run) /\ Len(rows') <= MaxRuns
        /\ n \in Id /\ n \notin DOMAIN rows
        /\ DOMAIN rows' = DOMAIN rows \cup {n} /\ rows'[n] = run
        /\ \A i \in DOMAIN rows : rows'[i] = rows[i]
    BY <1>1, <1>2, InsertIs DEF RecordInv
  <1> HIDE DEF run
  <1>4. /\ c \in Command /\ c.pc = "compare" /\ c.row = n
        /\ c.path = op[p].path /\ c.source = op[p].source
    BY <1>1, <1>3 DEF Command, Restoring, Run
  <1>5. op' = [op EXCEPT ![p] = c]
    BY <1>1 DEF BeginVerify
  <1> HIDE DEF c, n
  <1>6. op'[p] = c /\ op' \in [Procs -> Command]
        /\ \A q \in Procs : q # p => op'[q] = op[q]
    BY <1>1, <1>4, <1>5
  <1>7. TypeOK'
    BY <1>1, <1>3, <1>6 DEF TypeOK, RecordInv
  <1>8. LeavesTheRest(p)
    BY <1>1, <1>3, <1>6 DEF LeavesTheRest
  <1>9. Mine(p)'
    BY <1>1, <1>2, <1>3, <1>4, <1>6 DEF Mine, HasRow, Restoring, VerificationsOf
  <1>10. \A b \in Successful' : b \in Successful
    BY <1>2, <1>3 DEF Successful, Backups
  <1> QED
    BY <1>3, <1>4, <1>6, <1>7, <1>8, <1>9, <1>10, ProcStep

\* verify_restore records what it has compared.
LEMMA EndVerifyStep ==
    ASSUME RecordInv, NEW p \in Procs, EndVerify(p)
    PROVE  RecordInv'
  <1>1. PICK verdict \in {"success", "failed"} :
           rows' = [rows EXCEPT ![op[p].row] = [@ EXCEPT
                       !.status = verdict, !.finished_at = now,
                       !.row_counts = op[p].counts]]
    BY DEF EndVerify
  <1>2. PICK r : r = op[p].row
    OBVIOUS
  <1> DEFINE run == [rows[r] EXCEPT !.status = verdict, !.finished_at = now,
                                    !.row_counts = op[p].counts]
  <1>3. /\ HasRow(p) /\ rows[r] \in Run /\ now \in Time /\ r \in DOMAIN rows
        /\ op[p] \in Command /\ rows[r].run_type = "restore_verification"
        /\ End(p) /\ UNCHANGED <<now, data, files, staging>>
    BY <1>2, RowsAre
       DEF RecordInv, TypeOK, HasRow, EndVerify, Mine, VerificationsOf
  <1>4. /\ run \in Run /\ run.run_type = rows[r].run_type
        /\ run.verifies = rows[r].verifies
    BY <1>3 DEF Run, Command
  <1>5. rows' = [rows EXCEPT ![r] = run]
    BY <1>1, <1>2
  <1> HIDE DEF run
  <1>6. r \notin Successful'
    BY <1>3, <1>4, <1>5, ReplaceIs DEF RecordInv, Successful, Backups
  <1> QED
    BY <1>2, <1>3, <1>4, <1>5, <1>6, FinishStep

\* Every step keeps RecordInv.
LEMMA RecordStep == RecordInv /\ [Next]_vars => RecordInv'
  <1> SUFFICES ASSUME RecordInv, [Next]_vars PROVE RecordInv'
    OBVIOUS
  <1>1. ASSUME NEW p \in Procs, Backup(p) PROVE RecordInv'
    BY <1>1, BeginBackupStep, InsertRunStep, DumpStep, EncryptStep, MeasureStep,
       RecordSuccessStep, RecordFailureStep DEF Backup
  <1>2. ASSUME NEW p \in Procs, Drill(p) PROVE RecordInv'
    BY <1>2, BeginDrillStep, RestoreSteps, BeginVerifyStep, EndVerifyStep DEF Drill
  <1>3. ASSUME NEW p \in Procs, Raise(p) \/ Kill(p) PROVE RecordInv'
    BY <1>3, EndQuietly DEF Raise, Kill
  <1>4. CASE Tick \/ WriteData \/ UNCHANGED vars
    <2>1. /\ UNCHANGED <<rows, files, staging, op>>
          /\ now' \in Time /\ data' \in Version
      BY <1>4, BackupAssumption
         DEF Tick, WriteData, vars, RecordInv, TypeOK, Time, Version
    <2>2. /\ Backups' = Backups /\ Successful' = Successful
          /\ \A b : VerificationsOf(b)' = VerificationsOf(b)
      BY <2>1 DEF Backups, Successful, VerificationsOf
    <2>3. TypeOK' /\ OwnRows' /\ FilesAreOnRecord'
      BY <2>1, <2>2 DEF RecordInv, TypeOK, OwnRows, HasRow, FilesAreOnRecord
    <2>4. \A p \in Procs : Mine(p)'
      BY <2>1, <2>2 DEF RecordInv, Mine, HasRow, Holds, DirOf
    <2>5. \A b \in Successful' : Good(b)'
      BY <2>1, <2>2 DEF RecordInv, Good, Holds
    <2> QED
      BY <2>3, <2>4, <2>5 DEF RecordInv
  <1> QED
    BY <1>1, <1>2, <1>3, <1>4 DEF Next

\* The empty tables satisfy RecordInv.
LEMMA InitRecord == Init => RecordInv
  <1> SUFFICES ASSUME Init PROVE RecordInv
    OBVIOUS
  <1>1. Idle \in Command /\ NoFile \in Artifact /\ Idle.pc = "idle"
    BY DEF Idle, Command, NoFile, Artifact
  <1>2. /\ now \in Time /\ data \in Version /\ rows \in Seq(Run)
        /\ Len(rows) <= MaxRuns
    BY BackupAssumption DEF Init, Time, Version
  <1>3. Backups = {} /\ Successful = {} /\ \A p \in Procs : op[p].pc = "idle"
    BY <1>1 DEF Init, Backups, Successful
  <1> QED
    BY <1>1, <1>2, <1>3
       DEF Init, RecordInv, TypeOK, OwnRows, FilesAreOnRecord, Mine, HasRow, Restoring
-----------------------------------------------------------------------------
\* What the rows say of the files, and whose row is whose (backup.py,
\* create_backup and verify_restore).
THEOREM RecordInvariant == Spec => []RecordInv
  <1> QED
    BY InitRecord, RecordStep, PTL DEF Spec

\* A file that no other backup shares holds what its success says.
LEMMA GoodFile ==
    ASSUME RecordInv, NEW b \in Successful, ~SharesArtifact(b)
    PROVE  /\ files[rows[b].artifact_path] = rows[b].sha256
           /\ files[rows[b].artifact_path].data = rows[b].row_counts
           /\ files[rows[b].artifact_path].by = b
           /\ rows[b].row_counts # None
  <1>1. Good(b)
    BY DEF RecordInv
  <1>2. files[rows[b].artifact_path].by = b
    BY <1>1 DEF Good, Holds, SharesArtifact
  <1> QED
    BY <1>1, <1>2 DEF Good, Holds, Version, None

\* A recorded success has its artifact, whatever runs beside it, fails or is
\* killed, for any number of processes and with every fault.
THEOREM RecordsAreTrue == Spec => []SuccessHasArtifact
  <1>1. RecordInv => SuccessHasArtifact
    BY GoodFile DEF SuccessHasArtifact
  <1> QED
    BY <1>1, RecordInvariant, PTL

\* The gate of `finops deploy` relies on a backup that can be restored and is
\* as recent as it asks.
THEOREM GateIsSound == Spec => []GateSound
  <1>1. ASSUME RecordInv PROVE GateSound
    <2> SUFFICES ASSUME GateOpen
                 PROVE  \E b \in Successful :
                          /\ now <= rows[b].started_at + MaxBackupAge
                          /\ ~SharesArtifact(b) =>
                                /\ files[rows[b].artifact_path].data # None
                                /\ files[rows[b].artifact_path].by = b
      BY DEF GateSound
    <2>1. PICK b \in LastBackup : /\ rows[b].status = "success"
                                  /\ now <= rows[b].started_at + MaxBackupAge
      BY DEF GateOpen
    <2>2. b \in Successful
      BY <2>1 DEF LastBackup, Successful
    <2> QED
      BY <1>1, <2>1, <2>2, GoodFile
  <1> QED
    BY <1>1, RecordInvariant, PTL
-----------------------------------------------------------------------------
(* Verifications.                                                          *)

\* Only successes are verified, and a verification that succeeds has found
\* what the success counted.
VerificationInv ==
    /\ \A p \in Procs : op[p].pc \in Restoring => op[p].source \in Successful
    /\ \A p \in Procs : op[p].pc = "compare"
                         => op[p].expected = rows[op[p].source].row_counts
    /\ \A v \in DOMAIN rows : rows[v].run_type = "restore_verification" =>
          /\ rows[v].verifies \in Successful
          /\ rows[v].status = "success"
               => rows[v].row_counts = rows[rows[v].verifies].row_counts

\* Successes are never touched again.
LEMMA SuccessStays ==
    ASSUME RecordInv, Next, NEW b \in Successful
    PROVE  b \in Successful' /\ rows'[b] = rows[b]
  <1>1. b \in DOMAIN rows /\ rows[b].status = "success"
    BY DEF Successful, Backups
  <1>2. SUFFICES rows'[b] = rows[b] /\ b \in DOMAIN rows'
    BY DEF Successful, Backups
  <1>3. ASSUME NEW p \in Procs, HasRow(p),
               \E run : rows' = [rows EXCEPT ![op[p].row] = run]
        PROVE  rows'[b] = rows[b] /\ b \in DOMAIN rows'
    <2>1. op[p].row # b
      BY <1>1, <1>3 DEF RecordInv, Mine
    <2> QED
      BY <1>1, <1>3, <2>1
  <1>4. ASSUME NEW run, rows' = Append(rows, run)
        PROVE  rows'[b] = rows[b] /\ b \in DOMAIN rows'
    BY <1>1, <1>4 DEF RecordInv, TypeOK
  <1>5. CASE UNCHANGED rows
    BY <1>1, <1>5
  <1>6. CASE \E p \in Procs : InsertRun(p) \/ BeginVerify(p)
    BY <1>4, <1>6 DEF InsertRun, BeginVerify, Insert
  <1>7. CASE \E p \in Procs : RecordSuccess(p) \/ RecordFailure(p) \/ EndVerify(p)
    <2>1. PICK p \in Procs : RecordSuccess(p) \/ RecordFailure(p) \/ EndVerify(p)
      BY <1>7
    <2>2. HasRow(p)
      BY <2>1 DEF RecordSuccess, RecordFailure, EndVerify, HasRow
    <2>3. CASE RecordSuccess(p)
      BY <1>3, <2>2, <2>3 DEF RecordSuccess
    <2>4. CASE RecordFailure(p)
      BY <1>3, <2>2, <2>4 DEF RecordFailure
    <2>5. CASE EndVerify(p)
      BY <1>3, <2>2, <2>5 DEF EndVerify
    <2> QED
      BY <2>1, <2>3, <2>4, <2>5
  <1> QED
    BY <1>5, <1>6, <1>7
       DEF Next, Backup, Drill, BeginBackup, Dump, Encrypt, Measure, BeginDrill,
           BeginByHand, Check, Restore, Raise, Kill, Tick, WriteData

\* What a step does to the commands, as far as verifications go.
LEMMA Commands ==
    ASSUME RecordInv, Next, "mixup" \notin Faults, NEW q \in Procs
    PROVE  \/ op'[q] = op[q]
           \/ op'[q].pc \notin Restoring
           \/ op'[q].pc # "compare" /\ op'[q].source \in Successful
           \/ /\ op'[q].pc # "compare" /\ op'[q].source = op[q].source
              /\ op[q].pc \in Restoring
           \/ BeginVerify(q) /\ op'[q].source = op[q].source
                             /\ op'[q].expected = rows[op[q].source].row_counts
  <1>1. op \in [Procs -> Command] /\ op[q] \in Command
    BY DEF RecordInv, TypeOK
  <1>2. \A x : End(q) => op'[q] = Idle
    BY <1>1 DEF End
  <1>3. "idle" \notin Restoring /\ Idle.pc = "idle"
    BY DEF Restoring, Idle
  <1>4. CASE Backup(q)
    <2>1. CASE BeginBackup(q)
      <3> DEFINE c == [Idle EXCEPT !.pc = "staged", !.path = now]
      <3>1. c.pc = "staged"
        BY DEF Idle
      <3>2. op' = [op EXCEPT ![q] = c]
        BY <2>1 DEF BeginBackup
      <3> HIDE DEF c
      <3> QED
        BY <1>1, <3>1, <3>2 DEF Restoring
    <2>2. CASE InsertRun(q) \/ Measure(q)
      BY <1>1, <2>2 DEF InsertRun, Measure, Restoring, Command
    <2>3. CASE Dump(q)
      BY <1>1, <2>3 DEF Dump, Goto, Restoring, Command
    <2>4. CASE Encrypt(q)
      BY <1>1, <2>4 DEF Encrypt, Goto, Restoring, Command
    <2>5. CASE RecordSuccess(q) \/ RecordFailure(q)
      BY <1>2, <1>3, <2>5 DEF RecordSuccess, RecordFailure
    <2> QED
      BY <1>4, <2>1, <2>2, <2>3, <2>4, <2>5 DEF Backup
  <1>5. CASE \E b \in DOMAIN rows : BeginDrill(q, b)
                \/ \E path \in Time : BeginByHand(q, path, b)
    <2>0. PICK b \in DOMAIN rows : BeginDrill(q, b)
                \/ \E path \in Time : BeginByHand(q, path, b)
      BY <1>5
    <2>1. PICK pc, path :
             /\ pc \in {"check", "decrypt"} /\ b \in Successful
             /\ op' = [op EXCEPT ![q] = [Idle EXCEPT
                        !.pc = pc, !.source = b, !.path = path]]
      <3>1. CASE BeginDrill(q, b)
        BY <3>1 DEF BeginDrill, IsLatest
      <3>2. CASE \E path \in Time : BeginByHand(q, path, b)
        BY <3>2 DEF BeginByHand
      <3> QED
        BY <2>0, <3>1, <3>2
    <2> DEFINE c == [Idle EXCEPT !.pc = pc, !.source = b, !.path = path]
    <2>2. c.pc = pc /\ c.source = b
      BY DEF Idle
    <2>3. op' = [op EXCEPT ![q] = c]
      BY <2>1
    <2> HIDE DEF c
    <2>4. op'[q] = c
      BY <1>1, <2>3
    <2> QED
      BY <2>1, <2>2, <2>4
  <1>6. CASE Check(q) \/ Restore(q)
    <2>1. op[q].pc \in Restoring
      BY <1>6 DEF Check, Restore, Restoring
    <2> QED
      BY <1>1, <1>2, <1>3, <1>6, <2>1 DEF Check, Restore, Goto, Command
  <1>7. CASE BeginVerify(q)
    BY <1>1, <1>7 DEF BeginVerify, Command
  <1>8. CASE EndVerify(q) \/ Raise(q) \/ Kill(q)
    BY <1>2, <1>3, <1>8 DEF EndVerify, Raise, Kill
  <1>9. CASE Tick \/ WriteData
    BY <1>9 DEF Tick, WriteData
  <1>10. ASSUME NEW p \in Procs, p # q, Backup(p) \/ Drill(p) \/ Raise(p) \/ Kill(p)
         PROVE  op'[q] = op[q]
    BY <1>1, <1>10
       DEF Backup, Drill, BeginBackup, InsertRun, Dump, Encrypt, Measure,
           RecordSuccess, RecordFailure, BeginDrill, BeginByHand, Check, Restore,
           BeginVerify, EndVerify, Raise, Kill, Goto, End
  <1> QED
    BY <1>4, <1>5, <1>6, <1>7, <1>8, <1>9, <1>10 DEF Next, Drill

\* What a step does to the verifications on record.
LEMMA Verdicts ==
    ASSUME RecordInv, VerificationInv, Next, NEW v \in DOMAIN rows',
           rows'[v].run_type = "restore_verification"
    PROVE  \/ v \in DOMAIN rows /\ rows'[v] = rows[v]
           \/ rows'[v].verifies \in Successful /\ rows'[v].status # "success"
           \/ /\ rows'[v].verifies \in Successful
              /\ rows'[v].row_counts = rows[rows'[v].verifies].row_counts
  <1>1. CASE UNCHANGED rows
    BY <1>1
  <1>2. ASSUME NEW p \in Procs, InsertRun(p) \/ BeginVerify(p)
        PROVE  \/ v \in DOMAIN rows /\ rows'[v] = rows[v]
               \/ rows'[v].verifies \in Successful /\ rows'[v].status # "success"
    <2>1. Mine(p)
      BY DEF RecordInv
    <2>2. CASE InsertRun(p)
      <3> DEFINE run == NewRun("backup", None)
      <3>1. run \in Run /\ run.run_type = "backup"
        BY NewRunIs DEF RecordInv
      <3>2. Insert(run)
        BY <2>2 DEF InsertRun
      <3> HIDE DEF run
      <3> QED
        BY <3>1, <3>2, InsertIs DEF RecordInv
    <2>3. CASE BeginVerify(p)
      <3> DEFINE run == NewRun("restore_verification", op[p].source)
      <3>1. op[p].pc \in Restoring
        BY <2>3 DEF BeginVerify, Restoring
      <3>2. op[p].source \in Successful /\ op[p].source \in Id
        BY <2>1, <3>1, RowsAre DEF VerificationInv, Mine, RecordInv
      <3>3. run \in Run /\ run.verifies = op[p].source /\ run.status = "running"
        BY <3>2, NewRunIs DEF RecordInv
      <3>4. Insert(run)
        BY <2>3 DEF BeginVerify
      <3> HIDE DEF run
      <3> QED
        BY <3>2, <3>3, <3>4, InsertIs DEF RecordInv
    <2> QED
      BY <1>2, <2>2, <2>3
  <1>3. ASSUME NEW p \in Procs, RecordSuccess(p) \/ RecordFailure(p)
        PROVE  v \in DOMAIN rows /\ rows'[v] = rows[v]
    <2>1. op[p].row \in Backups /\ op[p].row \in DOMAIN rows
      BY <1>3 DEF RecordSuccess, RecordFailure, RecordInv, Mine, HasRow
    <2>2. rows[op[p].row] \in Run /\ rows[op[p].row].run_type = "backup"
      BY <2>1, RowsAre DEF Backups, RecordInv
    <2>3. PICK run : /\ rows' = [rows EXCEPT ![op[p].row] = run]
                     /\ run.run_type = "backup"
      <3>1. CASE RecordSuccess(p)
        <4> DEFINE run == [rows[op[p].row] EXCEPT
                     !.status = "success", !.finished_at = now,
                     !.artifact_path = op[p].path, !.sha256 = op[p].sha256,
                     !.row_counts = op[p].counts]
        <4>1. run.run_type = "backup"
          BY <2>2 DEF Run
        <4>2. rows' = [rows EXCEPT ![op[p].row] = run]
          BY <3>1 DEF RecordSuccess
        <4> QED
          BY <4>1, <4>2
      <3>2. CASE RecordFailure(p)
        <4> DEFINE run == [rows[op[p].row] EXCEPT
                     !.status = "failed", !.finished_at = now]
        <4>1. run.run_type = "backup"
          BY <2>2 DEF Run
        <4>2. rows' = [rows EXCEPT ![op[p].row] = run]
          BY <3>2 DEF RecordFailure
        <4> QED
          BY <4>1, <4>2
      <3> QED
        BY <1>3, <3>1, <3>2
    <2> QED
      BY <2>1, <2>3
  <1>4. ASSUME NEW p \in Procs, EndVerify(p)
        PROVE  \/ v \in DOMAIN rows /\ rows'[v] = rows[v]
               \/ rows'[v].verifies \in Successful /\ rows'[v].status # "success"
               \/ /\ rows'[v].verifies \in Successful
                  /\ rows'[v].row_counts = rows[rows'[v].verifies].row_counts
    <2> DEFINE r == op[p].row
               b == op[p].source
    <2>1. /\ r \in DOMAIN rows /\ rows[r] \in Run /\ rows[r].verifies = b
          /\ b \in Successful /\ op[p].expected = rows[b].row_counts
      BY <1>4, RowsAre DEF EndVerify, RecordInv, VerificationInv, Mine, HasRow,
                           VerificationsOf, Restoring
    <2>2. rows[b].row_counts # None
      BY <2>1 DEF RecordInv, Good, Version, None
    <2>3. PICK verdict \in {"success", "failed"} :
             /\ verdict = "success" => Matches(p)
             /\ rows' = [rows EXCEPT ![r] = [@ EXCEPT
                       !.status = verdict, !.finished_at = now,
                       !.row_counts = op[p].counts]]
      BY <1>4 DEF EndVerify
    <2> DEFINE run == [rows[r] EXCEPT !.status = verdict, !.finished_at = now,
                                      !.row_counts = op[p].counts]
    <2>4. /\ run.verifies = b /\ run.status = verdict
          /\ run.row_counts = op[p].counts
      BY <2>1 DEF Run
    <2>5. rows' = [rows EXCEPT ![r] = run]
      BY <2>3
    <2> HIDE DEF run
    <2>6. CASE v = r
      BY <2>1, <2>2, <2>3, <2>4, <2>5, <2>6 DEF Matches
    <2>7. CASE v # r
      BY <2>1, <2>5, <2>7
    <2> QED
      BY <2>6, <2>7
  <1> QED
    BY <1>1, <1>2, <1>3, <1>4
       DEF Next, Backup, Drill, BeginBackup, Dump, Encrypt, Measure, BeginDrill,
           BeginByHand, Check, Restore, Raise, Kill, Tick, WriteData

\* Every step keeps VerificationInv, unless a backup that has not
\* succeeded is verified.
LEMMA VerificationStep ==
    "mixup" \notin Faults =>
        (RecordInv /\ VerificationInv /\ [Next]_vars => VerificationInv')
  <1> SUFFICES ASSUME "mixup" \notin Faults, RecordInv, VerificationInv, [Next]_vars
               PROVE  VerificationInv'
    OBVIOUS
  <1>1. CASE UNCHANGED vars
    BY <1>1 DEF vars, VerificationInv, Successful, Backups
  <1>2. CASE Next
    <2>1. \A b \in Successful : b \in Successful' /\ rows'[b] = rows[b]
      BY <1>2, SuccessStays
    <2>2. ASSUME NEW q \in Procs, op'[q].pc \in Restoring
          PROVE  /\ op'[q].source \in Successful'
                 /\ op'[q].pc = "compare"
                      => op'[q].expected = rows'[op'[q].source].row_counts
      <3>1. BeginVerify(q) => op[q].pc \in Restoring
        BY DEF BeginVerify, Restoring
      <3> QED
        BY <1>2, <2>1, <2>2, <3>1, Commands DEF VerificationInv
    <2>3. ASSUME NEW v \in DOMAIN rows', rows'[v].run_type = "restore_verification"
          PROVE  /\ rows'[v].verifies \in Successful'
                 /\ rows'[v].status = "success"
                     => rows'[v].row_counts = rows'[rows'[v].verifies].row_counts
      BY <1>2, <2>1, <2>3, Verdicts DEF VerificationInv
    <2>4. "compare" \in Restoring
      BY DEF Restoring
    <2> QED
      BY <2>2, <2>3, <2>4 DEF VerificationInv
  <1> QED
    BY <1>1, <1>2

\* What backup-status calls verified is a success whose artifact holds what
\* was found in a scratch database, as long as nobody verifies by hand what
\* has not succeeded (verify_restore, status.backup_status).
THEOREM VerifiedCanBeRestored ==
    "mixup" \notin Faults => (Spec => []VerifiedIsRestorable)
  <1> SUFFICES ASSUME "mixup" \notin Faults PROVE Spec => []VerifiedIsRestorable
    OBVIOUS
  <1>1. Init => VerificationInv
    BY DEF Init, VerificationInv, Idle, Restoring
  <1>2. ASSUME RecordInv, VerificationInv PROVE VerifiedIsRestorable
    <2>1. ASSUME NEW b, IsVerified(b)
          PROVE  b \in Successful /\ \E v \in VerificationsOf(b) :
                    /\ rows[v].status = "success"
                    /\ rows[v].row_counts = rows[b].row_counts
      BY <1>2, <2>1 DEF IsVerified, VerificationsOf, VerificationInv
    <2>2. \A b \in LastBackup, c \in LastBackup : b = c
      <3>1. Backups \subseteq Nat
        BY <1>2, RowsAre DEF RecordInv, Id
      <3> QED
        BY <3>1 DEF LastBackup, IsLatest
    <2>3. BackupStatus = "verified" => \E b \in LastBackup : IsVerified(b)
      BY DEF BackupStatus
    <2> QED
      BY <1>2, <2>1, <2>2, <2>3, GoodFile DEF VerifiedIsRestorable
  <1>3. RecordInv /\ VerificationInv /\ [Next]_vars => VerificationInv'
    BY VerificationStep
  <1> QED
    BY <1>1, <1>2, <1>3, RecordInvariant, PTL DEF Spec
=============================================================================
