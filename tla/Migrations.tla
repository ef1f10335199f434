----------------------------- MODULE Migrations -----------------------------
(***************************************************************************)
(* The Alembic migrations (migrations/versions/0001 to 0007): what each    *)
(* upgrade and downgrade does to the tables of a database and to what its  *)
(* roles may do with them.                                                 *)
(*                                                                         *)
(* finance_dev and finance_prod are databases of one PostgreSQL instance:  *)
(* tables, grants and default privileges belong to a database, the roles   *)
(* to the instance.  A command runs all its migrations in one transaction, *)
(* so the unit here is the record of what that transaction has done so far *)
(* (a "work"); its first error makes all of it void.                       *)
(***************************************************************************)
EXTENDS Naturals, Sequences

Roles == {"finance_owner", "finance_app", "finance_agent",
          "finance_observer", "finance_backup"}

Schemas == {"plaid", "user", "finance", "agent", "ops"}

\* A table is a pair of a schema and a name.
Conversations == <<"agent", "conversations">>
AnalysisRuns  == <<"agent", "analysis_runs">>
Messages      == <<"agent", "messages">>
ToolCalls     == <<"agent", "tool_calls">>
Suggestions   == <<"agent", "category_suggestions">>
Budgets       == <<"finance", "budgets">>
Errors        == <<"ops", "errors">>
JobRuns       == <<"ops", "job_runs">>
SyncRuns      == <<"ops", "sync_runs">>
BackupRuns    == <<"ops", "backup_runs">>
Releases      == <<"ops", "releases">>
Items         == <<"plaid", "items">>
Accounts      == <<"plaid", "accounts">>
SyncState     == <<"plaid", "sync_state">>
Transactions  == <<"plaid", "transactions">>
Preferences   == <<"user", "preferences">>
Overrides     == <<"user", "transaction_category_overrides">>
Notes         == <<"user", "transaction_notes">>
Tags          == <<"user", "transaction_tags">>

\* Alembic's own table, which Alembic makes, in no application schema.
AlembicVersion == <<"public", "alembic_version">>

\* USAGE on a schema is held on this.
Whole(schema) == <<schema, "*">>

\* tables:   of the application's schemas;
\* references: foreign keys, as <<table, table it references>>;
\* columns:  the columns that appear, or disappear, after their table;
\* grants:   <<role, privilege, table>>, or <<role, "usage", Whole(schema)>>;
\* defaults: <<role, privilege, schema>>, granted on tables to come;
\* trail:    whether agent.tool_calls has rows;
\* roles, inherit: the roles of the instance, and those finance_migrator
\*           holds with INHERIT;
\* error:    why the transaction has failed, or "none".
Empty == [tables |-> {}, references |-> {}, columns |-> {}, grants |-> {}, defaults |-> {},
          trail |-> FALSE, roles |-> {}, inherit |-> {}, error |-> "none"]

Refuse(w, cond, why) ==
    IF cond /\ w.error = "none" THEN [w EXCEPT !.error = why] ELSE w
-----------------------------------------------------------------------------
(* Privileges: "select", "write" (INSERT, UPDATE, DELETE), and "peek" and   *)
(* "draw" (SELECT and USAGE) on the sequence behind the table's id.        *)

Privileges == {"select", "write", "peek", "draw"}

\* What grants on all tables of a schema come to on given tables.
OnTables(classwide, tables) ==
    {g \in Roles \X Privileges \X tables :
        /\ <<g[1], g[2], g[3][1]>> \in classwide
        /\ g[2] \in {"peek", "draw"} => g[3] # Preferences}

OwnerGrants == {"finance_owner"} \X Privileges \X Schemas

AppGrants == {"finance_app"} \X Privileges \X Schemas

\* Faulty: the agent's grants cover every schema.
AgentGrantsEverywhere == {"finance_agent"} \X Privileges \X Schemas

\* Read-only on plaid, nothing on ops.
AgentGrants == ({"finance_agent"} \X {"select"} \X {"plaid"})
          \cup ({"finance_agent"} \X Privileges \X {"user", "finance", "agent"})

ObserverGrants == {"finance_observer"} \X {"select"} \X {"ops"}

BackupGrants == {"finance_backup"} \X {"select"} \X Schemas

RoleGrants == OwnerGrants \cup AppGrants \cup AgentGrants \cup ObserverGrants
              \cup BackupGrants

Usage(classwide) == {<<g[1], "usage", Whole(g[3])>> : g \in classwide}

\* Faulty: tables to come get no grants.
CreateBare(w, new) ==
    [w EXCEPT !.tables = @ \cup new.tables, !.references = @ \cup new.references]

\* CREATE TABLE, with the default privileges finance_migrator has set.
Create(w, new) ==
    Refuse([w EXCEPT !.tables = @ \cup new.tables,
                     !.references = @ \cup new.references,
                     !.grants = @ \cup OnTables(w.defaults, new.tables)],
           \E r \in new.references : r[2] \notin w.tables \cup new.tables,
           "reference")

\* DROP TABLE, without CASCADE.
Drop(w, x) ==
    Refuse([w EXCEPT !.tables = @ \ {x},
                     !.references = {r \in @ : r[1] # x},
                     !.grants = {g \in @ : g[3] # x},
                     !.columns = {c \in @ : c[1] # x},
                     !.trail = @ /\ x # ToolCalls],
           \E r \in w.references : r[1] # x /\ r[2] = x,
           "reference")
-----------------------------------------------------------------------------
(* 0001: the tables, referenced ones first.                                *)

Independent ==
    [tables |-> {Conversations, Budgets, Errors, JobRuns, Items, Preferences},
     references |-> {}]

FirstReferring ==
    [tables |-> {AnalysisRuns, Messages, SyncRuns, Accounts, SyncState},
     references |-> ({AnalysisRuns, Messages} \X {Conversations})
                \cup ({SyncRuns, Accounts, SyncState} \X {Items})]

SecondReferring ==
    [tables |-> {ToolCalls, Transactions},
     references |-> ({ToolCalls} \X {AnalysisRuns, Conversations})
                \cup {<<Transactions, Accounts>>}]

Annotating ==
    [tables |-> {Suggestions, Overrides, Notes, Tags},
     references |-> {Suggestions, Overrides, Notes, Tags} \X {Transactions}]

Up1(w) == Create(Create(Create(Create(w, Independent), FirstReferring),
                        SecondReferring), Annotating)

DropOrder == <<Tags, Notes, Overrides, Suggestions, Transactions, ToolCalls,
               SyncState, Accounts, SyncRuns, Messages, AnalysisRuns,
               Preferences, Items, JobRuns, Errors, Budgets, Conversations>>

\* The schemas go last, and only when they are empty.
Down1(w) ==
    LET dropped[i \in 0..Len(DropOrder)] ==
            IF i = 0 THEN w ELSE Drop(dropped[i - 1], DropOrder[i])
        bare == dropped[Len(DropOrder)]
    IN  Refuse(bare, bare.tables # {}, "schema in use")

(* 0002: the roles.                                                        *)

\* Roles that another database has made are taken as they are.
Up2(w) == [w EXCEPT !.roles = Roles,
                    !.defaults = @ \cup RoleGrants,
                    !.grants = @ \cup Usage(RoleGrants)
                                 \cup OnTables(RoleGrants, w.tables)]

\* DROP OWNED BY takes the INHERIT option in the role; DROP ROLE, that no
\* other database of the instance grants it anything.
Down2(w, elsewhere) ==
    Refuse(Refuse([w EXCEPT !.roles = {}, !.inherit = {}, !.defaults = {}, !.grants = {}],
                  w.inherit # Roles, "no inherit"),
           elsewhere, "roles in use")

(* 0003: agent.tool_calls.provider, NOT NULL and without a default.        *)

Up3(w) == Refuse([w EXCEPT !.columns = @ \cup {<<ToolCalls, "provider">>}],
                 w.trail, "rows")

Down3(w) == [w EXCEPT !.columns = @ \ {<<ToolCalls, "provider">>}]

(* 0004: backups and releases, and the grants their readers lack.          *)

BackupPeeks == {"finance_backup"} \X {"peek"} \X Schemas

NarrowGrants == ({"finance_backup", "finance_observer", "finance_app"}
                    \X {"select"} \X {AlembicVersion})
           \cup ({"finance_observer"} \X {"select"} \X {Items, SyncState})
           \cup {<<"finance_observer", "usage", Whole("plaid")>>}

Recording ==
    [tables |-> {BackupRuns, Releases}, references |-> {<<BackupRuns, BackupRuns>>}]

Up4(w) ==
    LET new == Create(w, Recording)
    IN  [new EXCEPT !.columns = @ \cup {<<Releases, "image_ref">>},
                    !.defaults = @ \cup BackupPeeks,
                    !.grants = @ \cup NarrowGrants \cup OnTables(BackupPeeks, new.tables)]

Down4(w) ==
    Drop(Drop([w EXCEPT !.defaults = @ \ BackupPeeks,
                        !.grants = @ \ (NarrowGrants \cup OnTables(BackupPeeks, w.tables))],
              Releases), BackupRuns)

(* 0005 to 0007.                                                           *)

Up5(w) == [w EXCEPT !.columns = @ \cup {<<Releases, "replaces_release_id">>}]

Down5(w) == [w EXCEPT !.columns = @ \ {<<Releases, "replaces_release_id">>}]

Renamed(w, from, to) ==
    Refuse([w EXCEPT !.columns = (@ \ {<<Releases, from>>}) \cup {<<Releases, to>>}],
           <<Releases, from>> \notin w.columns, "column")

Up6(w) == Renamed(w, "image_ref", "artifact_ref")

Down6(w) == Renamed(w, "artifact_ref", "image_ref")

Up7(w) == [w EXCEPT !.inherit = Roles]

\* Faulty: the symmetric revocation.
Down7Revokes(w) == [w EXCEPT !.inherit = {}]

\* On purpose: the downgrade of 0002 still needs it.
Down7(w) == w
-----------------------------------------------------------------------------
HeadRevision == 7

Up(n, w) == CASE n = 1 -> Up1(w) [] n = 2 -> Up2(w) [] n = 3 -> Up3(w)
              [] n = 4 -> Up4(w) [] n = 5 -> Up5(w) [] n = 6 -> Up6(w)
              [] n = 7 -> Up7(w)

Down(n, w, elsewhere) ==
    CASE n = 1 -> Down1(w) [] n = 2 -> Down2(w, elsewhere) [] n = 3 -> Down3(w)
      [] n = 4 -> Down4(w) [] n = 5 -> Down5(w) [] n = 6 -> Down6(w)
      [] n = 7 -> Down7(w)

\* `alembic upgrade to` and `alembic downgrade to`, from a lower or a higher
\* revision; `elsewhere`: another database of the instance uses the roles.
Upgraded(w, from, to) ==
    LET after[n \in from..to] == IF n = from THEN w ELSE Up(n, after[n - 1])
    IN  after[to]

Downgraded(w, from, to, elsewhere) ==
    LET after[n \in to..from] ==
            IF n = from THEN w ELSE Down(n + 1, after[n + 1], elsewhere)
    IN  after[to]
-----------------------------------------------------------------------------
(* What the code of this commit expects of a database: the ORM's tables     *)
(* (db/models) and the columns of theirs that came late.                   *)

PlaidModels ==
    [tables |-> {Items, Accounts, SyncState, Transactions},
     references |-> ({Accounts, SyncState} \X {Items}) \cup {<<Transactions, Accounts>>}]

AgentModels ==
    [tables |-> {Conversations, Messages, AnalysisRuns, ToolCalls, Suggestions},
     references |-> ({Messages, AnalysisRuns, ToolCalls} \X {Conversations})
                \cup {<<ToolCalls, AnalysisRuns>>, <<Suggestions, Transactions>>}]

OpsModels ==
    [tables |-> {JobRuns, Errors, Releases, SyncRuns, BackupRuns},
     references |-> {<<SyncRuns, Items>>, <<BackupRuns, BackupRuns>>}]

UserModels ==
    [tables |-> {Preferences, Overrides, Tags, Notes},
     references |-> {Overrides, Tags, Notes} \X {Transactions}]

FinanceModels == [tables |-> {Budgets}, references |-> {}]

Models ==
    [tables |-> PlaidModels.tables \cup AgentModels.tables \cup OpsModels.tables
                  \cup UserModels.tables \cup FinanceModels.tables,
     references |-> PlaidModels.references \cup AgentModels.references
                      \cup OpsModels.references \cup UserModels.references]

ModelColumns == {<<ToolCalls, "provider">>, <<Releases, "artifact_ref">>,
                 <<Releases, "replaces_release_id">>}
=============================================================================
