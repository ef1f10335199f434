# Formal models of finance_app

TLA+ models of the parts of this repository whose correctness depends on the
order in which things happen, or on many rules agreeing with one another: releases that
are installed, deployed and rolled back, the synchronisation with Plaid, the turns of the
chat agent and the annotations it writes, reports over the data, backups and their
verification, migrations with their grants, and the sessions that reach the right
database. TLC checks the models on small instances; TLAPS proves, for every instance, all the
invariants and action properties that the runs check, and the refinement, some of them
under a condition that the run has too.

Paths below are relative to the repository's root unless they start with
`finance_app/`, which is short for `src/finance_app/`.

## The system and its components

finance_app is a personal finance application for one household: one PostgreSQL
instance with a development and a production database, one Plaid Item, one host. Nothing
runs as a daemon. Everything is a short-lived process: systemd timers (sync 06:00, backup
03:00, restore drill on Sundays 04:00), an operator's `finops` commands, a user's
`finance` commands. Concurrency is therefore concurrency of processes, and their shared
state is the database, the file system of the host, and nothing else.

| Component | State | Operations | What is hard | What makes it correct | Modelled |
|---|---|---|---|---|---|
| Release deploy and rollback (`cli/finops.py`, `ops/release.py`, `ops/host.py`) | `ops.releases`, the `current` symlink, the applied migrations, a transaction-level advisory lock | `deploy`, `rollback`, `restart` | several short transactions and host steps per command; nothing locks the symlink; kills; failing clean-ups; migrations only go forward | at most one current and one previous release; a rollback promotes the row tracked as previous; symlink and table agree; a failed deploy restores what it replaced; commands end | `Deploy` |
| Release installer (`deploy/scripts/release.sh`) | release directories, copies moved aside, lock directory, scratch | install, repair, prune | a lock tested and broken by several commands; failures, interrupts and kills between any two; debris of the dead | one installer at a time; the current release is never lost; no working copy is given up for less | `ReleaseCopy` |
| Plaid sync (`plaid/sync.py`, `db/repositories/*`) | `plaid.items`, `accounts`, `transactions`, `sync_state`, `ops.sync_runs`, a session-level advisory lock on its own connection | `run_sync` | calls to Plaid between transactions; retries; kills between pages; lost lock | the table equals the feed read up to the cursor; the cursor never goes back; success means caught up; every event arrives | `PlaidSync` |
| Agent turn and budget tools (`cli/main.py`, `agent/loop.py`, `agent/db.py`, `agent/tools/write.py`, `db/repositories/budgets.py`) | `finance.budgets`, `agent.conversations`, `messages`, `tool_calls` | `chat`, tools `create_budget`, `update_budget`, `archive_budget` | one transaction held across calls to the model; savepoints; row locks; stale objects in memory; `lower()` against `casefold()` | data and audit trail agree; one budget per category; turns end | `AgentTurn` |
| Annotations and preferences (`agent/tools/write.py`, `db/repositories/user_annotations.py`) | `user.transaction_*`, `user.preferences` | set, clear, add, remove | check, then write, while a sync tombstones | an annotation has its transaction | `FinanceViews` |
| Analytics, read tools, reporting commands (`analytics/*`, `agent/tools/read.py`, `cli/main.py`) | none | queries | boundaries of periods; two taxonomies and the user's categories; spellings; two SELECTs | reports agree with each other and with their definitions | `Analytics`, `Reports`, `FinanceViews` |
| Backup and restore verification (`ops/backup.py`, `ops/status.py`, `restore-verify.sh`, `restore.sh`) | `ops.backup_runs`, artifacts, plain text in `/tmp` | `backup`, `restore`, `verify`, drill, `backup-status`, the deploy gate | which failures are recorded; kills; files named by the second; verifications that expire | a success has an artifact that holds what was counted; "verified" can be restored; the gate is sound | `BackupVerify` |
| Engine and session caches, settings (`db/session.py`, `ops/db.py`, `agent/db.py`, `config/*`) | module globals, the process environment | sessions, dispose, change of environment | caches that outlive their settings; DSNs that reach another database than they name | a session follows the settings; production needs its opt-in | `Sessions` |
| Models and migrations (`db/models`, `migrations`) | tables, columns, grants, default privileges of each database; roles of the instance | `alembic upgrade`, `downgrade` | two databases share the roles; default privileges; downgrades | a revision determines the catalog; the head serves every role; nobody may do more | `Migrations`, `Sessions` |
| Health, status, selfcheck, identity | none | reports | - | - | what others act on: probes and topology in `Deploy`, `backup_status` in `BackupVerify` |
| Providers, prompts, Plaid client, units, wrappers, evaluations | none of their own | - | - | - | no: translation, I/O and static text; see "Not modelled" |

How they interact: the installer makes the trees that a deploy probes and points `current`
at, and repairs or prunes them while `finops` moves `current` without sharing a lock. A
deploy reads the latest backup (its gate) and applies migrations. The timers start sync,
backup and drill through the symlink. The agent reads the transactions that the sync
writes, and annotates them; reports read both. Backup dumps everything. The interactions
that carry state are the database tables, the symlink and the release directories.

## Modules

| Module | Extends | Holds |
|---|---|---|
| `ReleaseTable`, `Deploy`, `ReleaseLedger` | `Deploy` extends `ReleaseTable`, refines `ReleaseLedger` | deploys and rollbacks |
| `ReleaseCopy` | | the installer |
| `PlaidSync` | | the sync |
| `AgentTurn` | | chat turns and budgets |
| `Analytics`, `Reports`, `FinanceViews` | each the one before | queries; tools and commands; the database they read, changing |
| `BackupVerify` | | backups, drills, the gate |
| `Migrations`, `Sessions` | `Sessions` extends `Migrations` | catalogs; which database a process reaches and what it finds |
| `DeployProofs`, `PlaidSyncProofs`, `AgentTurnProofs`, `FinanceViewsProofs`, `BackupVerifyProofs`, `SessionsProofs`, `ReleaseCopyProofs` | the module they prove about | theorems |
| `DeploySoleProofs` | `DeployProofs` | theorems about an operator alone |
| `MCDeploy`, `MCPlaidSync`, ... | the module they instantiate | symmetry sets and the values of constants |

Definitions whose comment begins with "Faulty" are plausible mistakes. No action uses them;
putting one in the place of the definition it stands before breaks the property it is
meant to show the strength of.

### ReleaseTable

The pure part of `finance_app/ops/release.py`: what its queries select and what its
updates write. Row numbers are primary keys. A row's `deployed_at` is the start of the
transaction that inserts it, its key is drawn at the INSERT; the order of the keys is taken
to be that of the starts, so "latest" is the largest of the committed rows, and a row may
be committed after a later one. `DemotionClashes` is the one place where the
database decides an outcome: the flush in `mark_healthy` sends its UPDATEs in primary
key order, and the unique index of migration 0005 is checked by each of them.

### Deploy

The commands of `finance_app/cli/finops.py`, one action per transaction or host step.

| Variable | Code |
|---|---|
| `status`, `sha`, `replaces` | columns of `ops.releases` |
| `link` | target of `<root>/current` |
| `schema` | how many migrations the database has applied beyond those before the first deploy; `HeadOf` says how many a release ships |
| `op[p]` | the command operator `p` runs: `pc` is the place in the source, `row`, `dest`, `cur`, `tgt`, `prev` its local variables (`release_row_id`, `release_id` or `target_release_id`, `expected_current_row_id` or `old_current`, `target_row_id` or `old_previous`, `previous_current`), `exit` how it ended |

| Action | Code |
|---|---|
| `StartDeploy`, `Insert` | the transaction of `start_deploy`: its start and its read of the current row; the reaper's UPDATE, the INSERT and the commit |
| `Migrate`, `Probe` | `alembic upgrade head` from the new tree, `status.probe_release` |
| `Repoint`, `Verify` | `_repoint_restart_and_verify`: `os.replace` of the symlink, then restart and probe through it |
| `LockForDeploy`, `CommitDeploy` | `mark_healthy`: try-lock and reads, then writes and commit |
| `LockForRollback`, `CommitRollback` | the same two halves of `release.rollback` |
| `RecordFailure`, `Revert` | `mark_failed`; `_revert_current_to` |
| `SelectLatest`, `SelectTarget`, `SelectExpected` | the first transaction of `_do_rollback`, of an operator's rollback and of a deploy's automatic one: the two queries of `get_previous`, then `get_current` for the row that the rollback will expect to replace |
| `DatabaseError`, `Kill` | a transaction raises; the process dies |

Transactions are split where READ COMMITTED lets others commit in between. A resolution holds no
lock, so each of its queries is a step. The promoting transaction holds the advisory lock from
its reads to its commit, and its queries are one step: what they read, only another holder of
the lock can change. `release.rollback` reads its target row, to see that it exists, just before
it takes the lock; the two are one step (`LockForRollback`). The reaper's UPDATE and the INSERT
take effect at the commit. Every refusal before the first transaction (release not installed, no
recent backup, wrong environment) changes nothing and is not a step. A probe is healthy only at
the release's own head; beyond that it is a free choice, except that the probe through the
symlink can only report the release the symlink names. `finops restart` changes no modelled
state.

### ReleaseLedger

The abstract specification: what `ops.releases` promises whoever reads it. Some row
serves; at most one fallback is tracked; service moves forward to a row never in
service, or back to a proven one, which uses up the fallback. `Deploy` implements it
(`IsALedger`): `serving` is the current row, `fallback` the previous one, `proven` the
rows that were ever in service.

### ReleaseCopy

`deploy/scripts/release.sh`, one action per command, the commands of its trap included.

| Variable | Code |
|---|---|
| `tree[s]` | `releases/<sha>`: whether it has a virtualenv that passes `_venv_is_usable`, whether its RELEASE_ID names it |
| `aside[r]` | `<sha>.superseded.<pid>`, the copy run `r` moved out of the way |
| `scratch` | runs with a `.staging` or `.archive` |
| `current` | the symlink, which `finops` owns |
| `lock` | the lock directory and the pid file in it |
| `op[r]` | a run: place, sha, `holder_pid`, `current_target`, `superseded_was_verified`, whether `venv_building` is set |

| Action | Code |
|---|---|
| `Start` | somebody starts the script |
| `TakeLock`, `ReadPid`, `TestPid`, `BreakLock`, `Relock`, `WritePid` | lines 327-354: `mkdir`; `cat` of the pid file; `kill -0` of the pid that was read; `rm -rf` of whatever lock is there by then; `mkdir` again; the pid and the trap |
| `Sweep` | the debris of dead pids, one copy after the other |
| `Inspect`, `MoveAside` | what to do with what is there |
| `Extract`, `Publish`, `Build`, `Verify`, `Discard`, `Prune` | the rest |
| `Die` | a command fails, a check refuses or a trapped signal comes: the trap runs |
| `Exit`, `Clean`, `Restore`, `Release` | the trap: scratch and an unverified virtualenv; the copy moved aside; the lock |
| `Kill` | SIGKILL or power loss; before the trap is set, any end |
| `Repoint`, `Decay` | finops; damage between runs |

`rm -rf` of a directory with a working virtualenv is two steps (`Removed`): the virtualenv
stops working before the directory is gone, and the run may end in between. A run is its
pid; pids are not used twice. What a run may meet is a fault to choose. `rush` lets anybody start
runs at any time. Without it (`Unhurried`) two runs can still be alive at once and contend
for the lock, but a second is not started while the first is deciding about a lock it has
found taken, nor beside a stale lock that it may be about to find, and a third never. That
is a statement about whoever starts the script, an operator by hand; the script has no such
check, and needs it (see "Observations"). `half` lets the removal of the copy moved
aside fail, or be interrupted, half way.

### PlaidSync

`run_sync`, one action per transaction or call to Plaid. Plaid is an ever growing
`feed` of events; a cursor is a position in it; a page is any stretch from the cursor on.
A row of `plaid.transactions` is the position of the event whose content it holds, so
`rows[t]` tells an old version from a new one and a tombstone (`removed_at` set) from a
live row. `lock` is the advisory lock; `item` says whether `plaid.items` is filled;
`op[p]` is an invocation. A failed transaction inside the loop leads to
`RecordFailure`, `FinishFailure`; one outside leaves at once.

External assumptions, in `Emit` and `FetchPage`: Plaid removes a transaction at most
once and never mentions it again under the same id; a page with `has_more` is not
empty; `modified` and `added` are upserts alike, as in the code; a cursor handed out in the middle
of a pagination stays good for a later invocation, on which the code relies because it
stores the cursor of every page.

### AgentTurn

`finance chat` and its tool loop. `budgets` is the committed table; `writer` and `draft`
are the rows an open turn has written and what it wrote (the row lock and the uncommitted
version); `audit` holds the successful writes of `agent.tool_calls`, as rows whose ids tell
their order and which say whose open turn they still belong to; `said` counts answered
turns. A tool call is three steps: the model's request, the lookup, the write. The lookup
compares `lower(category)`, computed by PostgreSQL, with `casefold()` of the argument, computed by
Python: `lower` and `casefold` are two constants, and `Plain` is the set of the spellings on
which they agree. `Write` sends nothing when the attributes do not change, because SQLAlchemy sends
no UPDATE for them; an update changes only the amount and leaves the rest of the row as
PostgreSQL has it, whereas the *result*, which is audited and told to the model, describes
the object in memory. PostgreSQL's part (`Waits`, `DeadlockVictim`) is external.

### Analytics, Reports, FinanceViews

`Analytics` is `finance_app/analytics`: a transaction is its amount in cents, its day, its name
and merchant and what Plaid's two taxonomies say of it, reduced to the label each would give and
whether it means transfer or income. `casefold` is a constant, and so is `containing`: for each
text that may be searched for, the names and merchants with that text in them, case ignored.
Months have `DaysPerMonth` days. `Fact` is the set of what a row may say. `Reports` gives the
answers of the read tools and of the reporting commands, with their validation, from a database;
a report that takes two SELECTs is given two. `FinanceViews` is a database that changes:
`SyncUpsert` and `SyncRemove` are what a page's transaction does to one row, `CheckExists`,
`WriteAnnotation`, `CommitTurn` and `AbortTurn` the steps of a tool that annotates one.

### BackupVerify

| Variable | Code |
|---|---|
| `rows` | `ops.backup_runs`, by id |
| `files` | the backup directory; a file is named by the tick its backup began in, and holds the dump of a version of the data by a run of gpg, or a truncated one |
| `staging` | the directories with plain text of the commands at work, with their modification times |
| `data`, `now` | the version of the data; a clock |
| `op[p]` | the command of a process |

`BeginBackup` to `RecordFailure` are `create_backup`; `BeginDrill`, `Check`, `Restore`,
`BeginVerify`, `EndVerify` are `restore-verify.sh` and `verify_restore`; `BeginByHand` is
`restore.sh` followed by a verification. `Raise` is an exception that is no `BackupError`
(no row is updated), `Kill` also SIGTERM where nothing catches it. `Stage` makes a command's
directory and sweeps old ones, whoever they belong to. It removes any subset of the old ones:
commands need not share a `/tmp` (the units set `PrivateTmp=true`, the wrappers run in
containers), and `rmtree` ignores errors (`ops/backup.py:194`). For the same reasons nothing is
promised about plain text that the dead left, and it is not modelled. `BackupStatus` and
`GateOpen` are what `backup-status` and `finops deploy` conclude.

### Migrations, Sessions

`Migrations` translates each migration's upgrade and downgrade into an operator on a record of
sets: tables, references (foreign keys between them), late columns, grants, default
privileges, roles and INHERIT options, and whether the agent left a trail. A step that
PostgreSQL refuses sets `error`. A command of Alembic is one transaction, so it either does
all of them or nothing. `Sessions` adds two databases, the environment of a process (`file`,
`ambient`), and the engine and sessionmaker that `db/session.py`, `agent/db.py` and
`ops/db.py` each keep (`engine`, `maker`). A DSN has the database it names and the one it
reaches; they differ when something outside its path has the last word. `AppNeeds`,
`AgentNeeds`, `ObserverNeeds` and `BackupNeeds` are the privileges the statements of each
service take.

## What the runs check

| Run | Instance | Shows |
|---|---|---|
| `deploy_sole` | 1 operator, 3 SHAs of which one migrates, 4 rows, all faults | A command that reports success leaves symlink and table in agreement whatever happened before. The automatic rollback restores the release still current. A rollback promotes the row tracked as previous, which is another release than the current one, or leaves the current one. Every command ends. |
| `deploy_clean` | the same, only probes and host steps fail | Between commands symlink and table agree, failed deploys included. A rollback that fails puts the symlink back. A deploy that moved the symlink promotes or goes on to roll back. |
| `deploy_two` | 2 operators, 3 SHAs, 3 rows, kills | One current, one previous release; no release in service lacks a migration; `IsALedger`, of commands interleaved query by query. The other faults are left out here: what a failing step does to the table, a kill followed by a later command's reaper or rollback does too. The proofs cover all faults. |
| `deploy_finding_migration` | 1 operator, no fault | see Findings |
| `installer` | 4 unhurried runs over 2 releases, failures, interrupts, kills and decay | One run works at a time, though locks go stale; the current release is at its path or beside it; a working copy is given up only for a working one; nothing half built stays unless the run is killed. Runs are bounded, so the system may stop (`CHECK_DEADLOCK FALSE`). |
| `sync_locked` | 2 invokers, 2 transactions, 4 events, failures and kills | The table is what a reader of the feed up to the cursor knows, the cursor never goes back, a success has caught up. |
| `sync_live` | 1 invoker, 3 events, all faults | Every event reaches the table. |
| `chat_sole` | 1 chat, 4 spellings of 2 categories, one of them with a sharp s, 2 amounts, 4 writes, all faults | Replaying the audit trail gives the table; a category has one budget among the spellings that both sides fold alike, whatever is asked for with the others. |
| `chat_two` | 2 chats, 2 categories, 1 amount, 2 calls a turn, all faults | Every budget was claimed by a committed call; archived budgets stay archived; every turn ends, though turns hold locks and can deadlock. |
| `views` | 2 transactions, 5 contents, 2 picks, 2 months, 4 texts to search for | Annotations have their transactions. In every state: the tools and the commands report the same totals; categories add up; months add up to periods; cash flow leaves out exactly the transfers; budgets, recurring merchants and lists agree with definitions of their own. |
| `backup` | 2 processes, 3 rows, 2 ticks, 2 versions, failing tools, exceptions, kills | A success has the artifact it names, holding what was counted; "verified" means restored and compared; the gate lets a deploy pass only with a restorable, recent backup. |
| `sessions` | 2 databases, 3 engines, 4 environment files, 4 ambients, revisions 0, 2 and 7 | A revision determines the catalog, however it was reached; the head has all that the ORM and the services need; nobody may do more than the security model says; sessions follow the settings; production needs its opt-in. |

### Bounds, and why they suffice

* `MaxDeploys` = 4 rows with one operator: the queries look at the latest, the current, the
  previous and the own row, and four rows are the least on which all of these differ. With
  two operators 3, as two concurrent deploys and one before them; with 4 (8.6 million
  states) the same properties hold.
* `Shas` (deploys) = 3: "the same SHA again", "another one", and one that migrates.
* `Operators`, `Invokers`, `Chats`, `Procs`: two. The locks are pairwise, and the file
  system and rows are shared alike by all.
* `MaxRuns` = 4 runs of the installer: one that installs, one that leaves debris, one that
  finds it, and one more in the middle of whose work something fails; with 5 (2.0 million
  states) the same properties hold. Two releases: the current one and another.
* `MaxEvents` = 4 over two transactions: add, modify and remove of one, beside one of the
  other, in pages of every size.
* `MaxToolCalls` = 2 or 3 in the place of 8 (`MAX_TOOL_CALLS_PER_TURN`): the loop does
  the same in each round, and 2 suffices for two locks in one turn, hence a deadlock.
* `MaxTurns`, `MaxAudit` cap counters; they guard `Ask` and `Request` only.
* `views`: the five contents take each branch of the classification, and put a charge and
  its dearer repetition on the first and the last day of a month. Two months of three days
  have every boundary. `MAX_PERIOD_DAYS` is their six days; beside every period of whole
  months, backwards and empty ones too, a model asks for one of seven days, which is too wide.
* `backup`: three rows are a backup, its verification and a backup that overtakes it; the
  ages are zero ticks, so that each can have passed. A tick stands for a second in names
  and for a limit in ages, which only makes more states possible. With a third tick (8.3
  million states) the same properties hold.
* `sessions`: revision 2 is where the roles come, 7 the head: moves between 0, 2 and 7 pass
  every migration, in both directions, one at a time for the other database's roles.

### Fairness, and why the code justifies it

* `Deploy`: weak fairness of each operator's `Step`. A started process goes on; nobody
  has to start one; faults are never owed. No step waits: the promotion lock is a
  try-lock.
* `PlaidSync`: weak fairness of a running invocation, and strong fairness of taking the
  lock and of each step that may fail: the timer fires daily with `Persistent=true`, and
  no fault hits the same step on every day. Without the second, a Plaid that always fails
  would refute liveness trivially.
* `AgentTurn`: weak fairness of a turn's `Step` (the SDKs have time limits, so the
  model answers or raises), strong fairness of `Write`, since PostgreSQL's lock queue is
  first come, first served. Users owe nothing.
* The other modules state safety only.

Deadlock is checked in every run but `installer`.

## What is proved

Each theorem holds for every value of the constants that satisfies the named assumptions,
hence for any number of operators, invokers, chats, processes, runs, releases,
transactions and rows, and for the faults it names. Every proof has the same shape: a
stronger, inductive invariant; one lemma per action (or per group of actions that disturb
the same things) that says the action keeps it; the theorems from it.

### Deploys: `DeployProofs`

From `MaxDeploysAssumption`, `NoShaAssumption`, `FaultsAssumption`, `HeadAssumption`
(a natural number of rows, NULL is no SHA, faults are known ones, releases ship natural
numbers of migrations), for any number of operators and all faults, with every query of a
resolution a step of its own:

* `Invariant`: `Inv` always holds.
* `AtMostOneOfEach`: `OneOfEach`.
* `TableIsALedger`: the refinement of `ReleaseLedger`.
* `MigrationsBeforeService`: `ServedIsMigrated`, from `SchemaInv` (a deploy past its
  migration has it applied) and `SchemaGrows` (the schema never goes back).

`OneOfEach` alone is not inductive. A promotion writes what it has read a moment before, so one
needs that what the holder of the lock has read is still so (`LockHolder`); a rollback promotes
a target found in an earlier query, so one needs what is still true of such a target, and of the
row that a later query expects (`Targets`: each was in service, which never ceases to be so;
more is not true of them); and a deploy must not be able to promote a row that has been in
service, or that another deploy owns (`OwnRows`, `OnlyDeploys`). `QuietStep` deals with every
step that puts nothing in service, `ReadStep` with those that read the table into a command,
`CommitDeployStep` and `CommitRollbackStep` with the two that write. `TableSteps` sums up for
the refinement what a step may do to the table.

### Deploys of one operator: `DeploySoleProofs`

With at most one operator (`IsSole`) and under all faults:

* `SuccessMeansAgreement`, `AutomaticRollbackSkipsNothing`, `PreviousDiffers`,
  `OnlyThePreviousComesBack`: the properties of `deploy_sole`, its liveness apart.

With at most one operator and faults of probes, migrations and the host only (`IsClean`):

* `IdleMeansAgreement`, `FailuresPutTheLinkBack`, `DeploysEndInService`: the properties of
  `deploy_clean`.

The invariant is `SoleInv`: a tracked previous row is older than the current one
(`Ordered`), hence the flush in `mark_healthy` never violates the index; and what a command
has found out still holds (`Holds`), in particular that after its own failure a deploy's row
is the latest one, which is why `get_previous` gives it the release in service, and that a
rollback's target is the previous or the current row until it commits. `TidyInv`
adds that the command remembers where the symlink was while it is elsewhere.

### Sync: `PlaidSyncProofs`

From `SyncFaultsAssumption`, `MaxEventsAssumption` and `NobodyAssumption`: `Types` under all
faults, and, unless the lock is lost, `Invariant`, `TableMirrorsFeed`, `CursorAdvances`,
`SuccessIsComplete`. `SyncInv` adds to the properties that whoever is at work holds the lock
(`OneAtWork`), that its page begins where the cursor is and reaches what it must (`Placed`),
and what is assumed of the feed (`FeedIsSane`). `LatestOf` and `PageMirrors` carry the data
part: applying a page to a mirror of the feed up to the cursor gives a mirror of the feed up
to the page's end.

### Chat: `AgentTurnProofs`

From `AgentAssumption`. For any number of chats and all faults: `Invariant`,
`EveryWriteIsAudited`, `ArchivedStays`. `TurnInv` says what an open turn may have in its drafts
(`Drafts`, `DraftsAreAudited`) and that the row a tool has found stays (`FoundStays`); nothing
ever deletes a budget. For one chat (`IsSole`), all faults included: `TrailOfSoleChat` and
`SoleChatDoublesNothing`, whose property is about the spellings on which `lower()` and
`casefold()` agree, in the presence of others. Their invariant relates the table as the open
turn sees it to the last claim on each budget in the trail, committed or not.

### Annotations and reports: `FinanceViewsProofs`

From `LabelsAssumption`, `SearchAssumption`, `MaxPeriodAssumption` and `ViewsAssumption`:
finitely many rows with numeric ids; columns that are NOT NULL hold a value, and amounts and
days are integers, as cents and dates are; overrides and budgets name categories; a month is no
longer than `MAX_PERIOD_DAYS`, 3660 in the code. Any number of rows, contents, categories,
spellings and months of the year; any length of a month.

* `AnnotationsStay`. `ViewsInv` adds to the types that a turn past its check has a row to
  annotate (`PendingHasRow`): rows are tombstoned, never deleted.
* `TotalsAlwaysAgree`, `MonthsAlwaysAddUp`, `CashflowAlwaysBalances`, `BudgetsAlwaysAgree`,
  `RecurringAlwaysFound`, `ListsAlwaysAgree`: the properties of reports. They hold in every
  state of the right types, so the argument is about data and not about steps.

A report is a sum over a finite set of rows, which the community modules fold. `SumIs` gives
the fold's equation from its definition; `SubsetInduction` gives induction over the subsets of
a finite set, for one given family of subsets, from the least natural number (`LeastNatural`);
from the two follow the lemmas on sums (`SumSplits`, `SumByParts`, `SumOfOpposites`, ...) on
which the rest is built: categories partition the rows of a view (`CategoriesAddUp`), a day
lies in one month (`DateIsInOneMonth`), income and spending are the opposite signs of what is
no transfer (`NetIsOfNonTransfers`). Lists need that ordering by date and id has a last element
(`OldestExists`); the recurring need that a name's charges make one series (`OneSeries`).

Two properties were corrected by these proofs. The condition of `RecurringIsFound` had not
excluded charges of another name that share the merchant, or whose merchant is the name: both
join the series, and change what it looks like. `ListsAgree` is stated for the limits the
tools accept, 1 to 200.

### Backups: `BackupVerifyProofs`

From `BackupAssumption`, under all faults: `RecordInvariant`, `RecordsAreTrue`,
`GateIsSound`; and `VerifiedCanBeRestored` unless somebody verifies by hand
a backup that has not succeeded. The invariant says of every process what its row and its
file are while it works (`Mine`), that no two finish one row (`OwnRows`), that a file is from
a backup on record (`FilesAreOnRecord`), and what a success says of its file (`Good`). One
needs `FilesAreOnRecord` because file names have a resolution of a second: a success loses
its file only to another backup on record, which `SharesArtifact` excepts.

### Sessions and catalogs: `SessionsProofs`

From the assumptions of `Sessions`, for any databases, engines, environments and targets
among the revisions:

* `SessionsFollow`, `ProductionIsOptIn`, from `SessionsInv`, which says what the cached engine
  and sessionmaker were built from.
* `CatalogsAlwaysFollow`, `HeadAlwaysUsable`, `PrivilegeStaysLeast`: the properties of the
  catalogs, after any sequence of upgrades and downgrades of any databases of the instance.
* `AlwaysReversible`: `Reversible /\ Upgradable`. From every database in use each revision can
  be reached, and is then what a fresh upgrade makes. The only exceptions are three refusals:
  a downgrade below 0002 without the INHERIT options of 0007, or while another database uses
  the roles, and an upgrade over 0003 with rows in `agent.tool_calls`.

`CatalogsInv` is the inductive invariant: a database has exactly the tables, references,
columns, grants and defaults of its revision, given in closed form (`Has`, `TablesAt`,
`GrantsAt`, ...); while one is at 0002 or later the roles exist, since the grants it has keep
others from dropping them (`RolesAreUsed`); at the head they inherit. One lemma per migration
and direction says that it leads from one closed form to the next (`Up1Does` to `Up7Does`,
`Down1Does` to `Down7Does`), another that it does not fail (`Up4Succeeds`, `Down1Succeeds`, ...,
where `OrderIs` says that the drop order of 0001 never drops a table another one refers to).
`UpgradedIs` and `DowngradedIs` unfold the recursive functions that string them together, again
from the least natural number, and `UpgradeDoes` and `DowngradeDoes` take whole commands.

### Installer: `ReleaseCopyProofs`

From `CopyAssumption`, for any number of runs and releases, as long as runs are not started
while others contend for the lock (no fault `rush`):

* `CopyInvariant`, `InstallerIsAlone`, `NothingIsHalfBuilt`;
* `WorkingCopyIsKept`, unless the removal of the copy moved aside is cut short (`half`);
* `CurrentStays`, unless finops moves the symlink during a run (`deploy`).

`CopyInv` says who can be deciding about the lock beside whom, and whose lock it is (`Locks`),
and what a run has in its release directory, beside it and in its variables at each of its
commands, the trap's included (`Own`). For `CurrentStays` one needs that a run knows what is
current (`Knows`), and that the oldest copy is one, from the well-foundedness of the numbers
(`OldestIs`). Each of the three conditions is needed: without it TLC finds a counterexample,
described under "Observations".

### What is model-checked only

Liveness: `EveryCommandEnds`, `EveryEventArrives`, `EveryTurnEnds`. Under fairness it is beyond
the prover. Every other property of a run is stated by a theorem; those the theorems state
under a condition (one operator, one chat, a fault excluded) fail without it, as described
under "Observations", or, where a run has the same condition, are checked under it.

## Findings

`deploy_finding_migration` (`RollbackIsPossible`). A release's selfcheck is healthy only
when the applied revision is its own head (`ops/selfcheck.py:57`, `ops/status.py:118`), and a
rollback probes its target first. After a deploy that migrated, no rollback to the previous
release is possible, though nothing has failed, and neither is the automatic rollback of the
next deploy that fails after its own migration. `docs/deployment.md:80` says that "exactly
one rollback step is guaranteed trivial".

## Observations

What the models showed and no run records. Most are properties that hold in one of the runs
above and fail when the constants are changed as described; the rest were met while
translating.

Deploys:

* Two operators, no fault, three SHAs: `FailedDeployRollsBack` is false. When the older of
  two concurrent deploys is promoted last, the next promotion finds a previous row with
  the larger id, the flush in `mark_healthy` (`ops/release.py:247`) sets two rows to `previous`
  for a moment, and the index refuses it; nothing catches that.
* Two operators, failing probes: `AutoRollbackKeepsCurrent` is false. `get_previous` looks at
  the latest attempt (`ops/release.py:140`), which may be another operator's, and then
  skips past the release in service, against lines 122 to 126 of its docstring.
* Two operators, no fault, three rows: `RollbackPromotesPrevious` is false. Row 1 is previous,
  row 3 current, and row 2 that of a deploy that began before row 3's and is still at work. A
  rollback's `get_previous` picks row 1 (`cli/finops.py:673`); the deploy of row 2 commits, and
  row 3 is previous, row 1 history; then the rollback reads the row it expects to replace
  (`cli/finops.py:684`), which is row 2. `release.rollback` finds it still current
  (`ops/release.py:336`), and promotes row 1 from history while row 3 stays previous. The
  docstring of `rollback` (`ops/release.py:272`) promises a refusal when something changed
  `current` since the target was resolved. With the expected row read before the target the
  check would refuse here.
* In the same way, two operators and four rows: `PreviousIsAnotherRelease` is false. The row
  promoted from history may be of the previous row's SHA.
* Two operators: `TopologyAgrees` and `SuccessAgrees` are false, as the docstrings admit.
* One operator, a database error in the rollback's own transaction:
  `FailedRollbackReverts` is false (`cli/finops.py:714`, against 660 to 663). In a deploy's
  promotion, too, it leaves the symlink moved.
* An operator's rollback after a failed deploy resolves to the release that is current. When
  the second deploy ever is killed, there is nothing to roll back to: the first release has
  no history.
* A deploy's reaper can fail the row of a deploy that still migrates, since migrations have
  no time limit.

Installer:

* `rush` (runs are started while others contend for the lock): `OneInstaller` is false, against
  `deploy/scripts/release.sh:322`, after three runs, no kill and no stale lock. One finds the
  lock taken and reads its holder's pid; the holder ends; a third takes the lock; the first
  finds the pid dead, removes the third's lock and makes its own (`release.sh:336` to `350`).
  Beside a stale lock two runs suffice: each finds it stale, and the slower one removes the
  other's.
* `half` (the removal of the copy moved aside fails or is interrupted half way):
  `VerifiedIsKept` is false. The new tree has passed every check, but `superseded` is still set
  (`release.sh:745`), so the trap deletes it and puts the half-deleted copy in its place
  (`release.sh:132` to `157`).
* `deploy` (finops moves the symlink during a run): `CurrentIsKept` is false; the comment at
  `release.sh:755` says that `current` cannot have moved.
* After a kill, the sweep of the next run discards a superseded copy that works although the
  tree in its place has no virtualenv, against lines 86 to 90.
* A kill between `mkdir` of the lock and the writing of its pid leaves a lock that every later
  run refuses.

Sync:

* An invocation that finds the lock held, or whose first `/item/get` fails, leaves no row in
  `ops.sync_runs` (`plaid/sync.py:84`); `docs/plaid-sync.md:101` says every one does.
* If the lock's connection is lost, two invocations can work at once, and the cursor can go
  back (`docs/plaid-sync.md:90`).
* `finance status` calls a sync that was killed `running` for good, and never stale
  (`ops/status.py:149`).

Chat and annotations:

* An error of the provider in mid-turn is caught inside the session scope
  (`cli/main.py:323`), so what its tools wrote so far is committed; `agent/db.py:67` says "a
  partial turn should leave no partial trace".
* With two chats, `TrailReplays` and `OneBudgetPerCategory` are false: an update's result
  describes an object in memory that another turn has changed, and two spellings of one
  category can be looked up before either is written.
* One chat can create two budgets of one category whose `lower()` is not its `casefold()`, as
  with a sharp s: the lookup compares the one with the other (`db/repositories/budgets.py:18`)
  and misses the row it should find. `OneBudgetPerCategory` is stated for the other spellings.
* No tool brings an archived budget back.
* An override outlives its transaction's removal and is in force again when that id is
  brought back.

Reports:

* A category spelt in two ways among effective categories counts for its budget only with
  the last one's amount (`analytics/budgeting.py:51`).
* `finance spending --category` prints the unfiltered total beside the filtered category
  (`cli/main.py:168`); that report and the one of the tool take two SELECTs, between which a
  sync may commit.
* A name seen with two merchants splits a recurring series.
* Wages that carry only the old taxonomy's `["Transfer", "Payroll"]` count as a transfer.

Backups:

* `mixup`: `VerifiedIsRestorable` is false of a backup without counts, which is verified
  with no comparison at all (`ops/backup.py:472`, against `docs/backups.md:46`).
* Backups are daily and the drill is weekly, so `backup-status` says unverified most of the
  week (`ops/status.py:186`).
* A drill whose restore fails leaves no verification row.
* Plain text that a killed command left in the host's `/tmp`, after a restore by hand, is not
  swept by the timers' commands, whose units have a `/tmp` of their own
  (`deploy/systemd/finance-backup.service:16`), and a sweep ignores errors
  (`ops/backup.py:194`); the docstring of `_sweep_stale_staging_dirs` has the startup sweep as its
  mitigation.
* Two backups in one second share one file (`ops/backup.py:305`), and the first one's record is
  wrong of it; the properties except such pairs (`SharesArtifact`).
* The deploy gate refuses while the latest backup runs or has failed, although an earlier
  success is recent.
* `backup.sh`, `finops.sh` and `restore-verify.sh` call `docker compose -f deploy/compose.yaml`,
  a file that `docs/deployment.md:7` says is gone. The model takes the commands inside.

Migrations and settings:

* After a downgrade below 0003, an upgrade fails if `agent.tool_calls` has rows, since 0003
  adds a column that may not be NULL.
* A downgrade of one database below 0002 drops roles that the other database still grants to,
  and fails; before 0007 it fails for want of an INHERIT option. A failing command changes
  nothing. By `AlwaysReversible` nothing else that the model has of migrations fails.
* An empty or unparseable DSN is not refused (`config/settings.py:51`, `217`).

## Not modelled, and why

* Formatting, logging, prompts, wire formats, argument parsing: no property is about them.
* Accounts in a sync: upserted from the same pages in the same transaction, never removed.
* The text of notes, and preferences: single upserts that nothing else reads.
* Column types, indexes and constraints of data, the index of migration 0005 apart.
* What a deploy checks before its first transaction: it changes nothing. `finops restart`.
* Connections that a pool has kept while a role was dropped and created again.
* Host units and wrappers, the Plaid client, the providers: static text, or translation to
  and from another party's API. The models take the other party as a nondeterministic
  source, with the assumptions named above.
* Evaluations, tests and documentation: not part of the running system. They were read as
  statements of what the code intends.

## What could follow

* An abstract specification of the sync (a reader that only ever moves forward in a feed),
  with `PlaidSync` as its refinement; `TableMirrorsFeed` and `CursorAdvances` are its two
  halves.
* The composition of `ReleaseCopy` with `Deploy`, whose interaction is the `Repoint` action
  of the one for now.
* A backup that runs during a migration.
