----------------------------- MODULE Migrations -----------------------------
(***************************************************************************)
(* The schema migrations (internal/store/migrations), run by every process *)
(* when it opens the database (internal/store/postgres, Open), and the     *)
(* rollback (Down), which an operator runs.  A statement is atomic; what   *)
(* a migration does and the record of it are two statements, and a process *)
(* may be killed, or fail, between any two of them.  Several processes may *)
(* start at once, next to others that serve.                               *)
(*                                                                         *)
(* Down has no caller in the repository.  Assumption: whoever runs it has  *)
(* stopped the service first and starts it again afterwards.               *)
(***************************************************************************)
EXTENDS Naturals, FiniteSets

CONSTANTS
    Procs,          \* processes of the service, each restarted when it ends
    MaxKills,       \* bound: processes killed, a rollback included
    MaxErrors,      \* bound: statements that fail, or a ping
    MaxDowns        \* bound: rollbacks

ASSUME MigrationsAssumption ==
    {MaxKills, MaxErrors, MaxDowns} \subseteq Nat

\* 0001_init and 0002_numeric_amounts, in the order of their names.
First == 1
Last == 2
Versions == First .. Last

\* The type of the amount columns, or no tables at all.
Schemas == {"none", "float", "numeric"}

VARIABLES
    schema,         \* what the statements have made of the database
    table,          \* whether schema_migrations exists
    recorded,       \* the versions in it
    data,           \* whether rail_requests holds rows
    pc,             \* the next statement of each process
    at,             \* the version each is at
    down,           \* the next statement of the rollback
    downAt,         \* the version it is at
    torn,           \* versions reverted by a rollback that left their record
    kills, errors, downs

database == <<schema, table, recorded, data>>
rollback == <<down, downAt, torn, downs>>
vars == <<database, pc, at, rollback, kills, errors>>

Steps == {"ping", "create", "query", "apply", "record"}

TypeOK ==
    /\ schema \in Schemas
    /\ {table, data} \subseteq BOOLEAN
    /\ recorded \subseteq Versions
    /\ pc \in [Procs -> Steps \cup {"stopped", "serve"}]
    /\ at \in [Procs -> Versions]
    /\ down \in {"off", "query", "revert", "forget"}
    /\ downAt \in Versions
    /\ torn \subseteq Versions
    /\ kills \in 0 .. MaxKills
    /\ errors \in 0 .. MaxErrors
    /\ downs \in 0 .. MaxDowns

\* An empty database and no process.
Init ==
    /\ schema = "none"
    /\ table = FALSE
    /\ recorded = {}
    /\ data = FALSE
    /\ pc = [p \in Procs |-> "stopped"]
    /\ at = [p \in Procs |-> First]
    /\ down = "off"
    /\ downAt = Last
    /\ torn = {}
    /\ kills = 0
    /\ errors = 0
    /\ downs = 0

-----------------------------------------------------------------------------
(* What the SQL files do                                                     *)

\* Mutant: 0001_init_up empties the tables it finds.
UpEmpties(v) ==
    \/ v = 1 /\ schema' = (IF schema = "none" THEN "float" ELSE schema) /\ data' = FALSE
    \/ v = 2 /\ schema # "none" /\ schema' = "numeric" /\ UNCHANGED data

\* 0001 creates only what is not there; 0002 alters tables that must exist.
Up(v) ==
    /\ \/ v = 1 /\ schema' = (IF schema = "none" THEN "float" ELSE schema)
       \/ v = 2 /\ schema # "none" /\ schema' = "numeric"
    /\ UNCHANGED data

\* Whether the migration can run at all.
UpRuns(v) == v = 2 => schema # "none"

\* Reverting 0001 drops the tables and what they hold.  Reverting 0002 needs
\* tables; it is recorded only over tables (RecordedIsApplied).
Down(v) ==
    \/ v = 1 /\ schema' = "none" /\ data' = FALSE
    \/ v = 2 /\ schema # "none" /\ schema' = "float" /\ UNCHANGED data

-----------------------------------------------------------------------------
(* Open: ping, then Runner.Up                                                *)

Goto(p, step) == pc' = [pc EXCEPT ![p] = step]

\* Open returns the error and main ends the process.
GiveUp(p) == Goto(p, "stopped") /\ at' = [at EXCEPT ![p] = First]

Breaks == errors < MaxErrors /\ errors' = errors + 1
Works == UNCHANGED errors

StatementFails(p) == Breaks /\ GiveUp(p) /\ UNCHANGED database

\* Whoever supervises the service starts it again.
Start(p) ==
    /\ pc[p] = "stopped"
    /\ down = "off"
    /\ Goto(p, "ping")
    /\ UNCHANGED <<database, at, rollback, kills, errors>>

Ping(p) ==
    /\ pc[p] = "ping"
    /\ \/ Works /\ Goto(p, "create") /\ UNCHANGED <<database, at>>
       \/ StatementFails(p)
    /\ UNCHANGED <<rollback, kills>>

\* Mutant: a table that is there already is an error.
CreateTableOnce(p) ==
    /\ pc[p] = "create"
    /\ \/ Works /\ ~table /\ Goto(p, "query") /\ table' = TRUE
          /\ UNCHANGED <<schema, recorded, data, at>>
       \/ Works /\ table /\ GiveUp(p) /\ UNCHANGED database
       \/ StatementFails(p)
    /\ UNCHANGED <<rollback, kills>>

CreateTable(p) ==
    /\ pc[p] = "create"
    /\ \/ Works /\ Goto(p, "query") /\ table' = TRUE
          /\ UNCHANGED <<schema, recorded, data, at>>
       \/ StatementFails(p)
    /\ UNCHANGED <<rollback, kills>>

\* Mutant: the loop runs once too often.
AdvancePastLast(p) ==
    IF at[p] > Last
    THEN Goto(p, "serve") /\ at' = [at EXCEPT ![p] = First]
    ELSE Goto(p, "query") /\ at' = [at EXCEPT ![p] = @ + 1]

\* On to the next version; after the last one the service listens.
Advance(p) ==
    IF at[p] = Last
    THEN Goto(p, "serve") /\ at' = [at EXCEPT ![p] = First]
    ELSE Goto(p, "query") /\ at' = [at EXCEPT ![p] = @ + 1]

\* Mutant: a database with any record is taken for up to date.
QueryAny(p) ==
    /\ pc[p] = "query"
    /\ \/ /\ Works
          /\ IF recorded # {} THEN Advance(p) ELSE Goto(p, "apply") /\ UNCHANGED at
          /\ UNCHANGED database
       \/ StatementFails(p)
    /\ UNCHANGED <<rollback, kills>>

\* A version that is recorded is skipped.
Query(p) ==
    /\ pc[p] = "query"
    /\ \/ /\ Works
          /\ IF at[p] \in recorded THEN Advance(p) ELSE Goto(p, "apply") /\ UNCHANGED at
          /\ UNCHANGED database
       \/ StatementFails(p)
    /\ UNCHANGED <<rollback, kills>>

\* Mutant: an error of a migration is not looked at.
ApplyGoesOn(p) ==
    /\ pc[p] = "apply"
    /\ \/ Works /\ Up(at[p]) /\ Goto(p, "record") /\ UNCHANGED <<table, recorded, at>>
       \/ Works /\ ~UpRuns(at[p]) /\ Goto(p, "record") /\ UNCHANGED <<database, at>>
       \/ Breaks /\ Goto(p, "record") /\ UNCHANGED <<database, at>>
    /\ UNCHANGED <<rollback, kills>>

\* A migration that cannot run, or does not, ends the start.
Apply(p) ==
    /\ pc[p] = "apply"
    /\ \/ Works /\ Up(at[p]) /\ Goto(p, "record") /\ UNCHANGED <<table, recorded, at>>
       \/ Works /\ ~UpRuns(at[p]) /\ GiveUp(p) /\ UNCHANGED database
       \/ StatementFails(p)
    /\ UNCHANGED <<rollback, kills>>

\* A record that is there already, another process having made it, is left.
Record(p) ==
    /\ pc[p] = "record"
    /\ \/ Works /\ recorded' = recorded \cup {at[p]} /\ Advance(p)
          /\ UNCHANGED <<schema, table, data>>
       \/ StatementFails(p)
    /\ UNCHANGED <<rollback, kills>>

\* A service that listens stores payments.
Serve(p) ==
    /\ pc[p] = "serve"
    /\ schema # "none"
    /\ ~data
    /\ data' = TRUE
    /\ UNCHANGED <<schema, table, recorded, pc, at, rollback, kills, errors>>

-----------------------------------------------------------------------------
(* Runner.Down                                                               *)

BeginDown ==
    /\ down = "off"
    /\ downs < MaxDowns
    /\ downs' = downs + 1
    /\ pc' = [p \in Procs |-> "stopped"]
    /\ at' = [p \in Procs |-> First]
    /\ down' = "query"
    /\ downAt' = Last
    /\ UNCHANGED <<database, torn, kills, errors>>

\* It ends, having finished or not; a reverted version may still be recorded.
EndDown == down' = "off" /\ downAt' = Last

DownFails == Breaks /\ EndDown /\ UNCHANGED database

Retreat ==
    IF downAt = First THEN EndDown ELSE down' = "query" /\ downAt' = downAt - 1

\* Down, unlike Up, does not create schema_migrations.
DownQuery ==
    /\ down = "query"
    /\ \/ /\ Works
          /\ IF ~table THEN EndDown
             ELSE IF downAt \in recorded THEN down' = "revert" /\ UNCHANGED downAt
             ELSE Retreat
          /\ UNCHANGED database
       \/ DownFails
    /\ UNCHANGED <<pc, at, torn, downs, kills>>

DownRevert ==
    /\ down = "revert"
    /\ \/ Works /\ Down(downAt) /\ down' = "forget" /\ UNCHANGED <<table, recorded, downAt>>
       \/ DownFails
    /\ UNCHANGED <<pc, at, torn, downs, kills>>

\* Mutant: an error of the removal is not looked at.
DownForgetGoesOn ==
    /\ down = "forget"
    /\ \/ /\ Works
          /\ recorded' = recorded \ {downAt}
          /\ torn' = torn \ {downAt}
          /\ Retreat
          /\ UNCHANGED <<schema, table, data>>
       \/ Breaks /\ torn' = torn \cup {downAt} /\ Retreat /\ UNCHANGED database
    /\ UNCHANGED <<pc, at, downs, kills>>

DownForget ==
    /\ down = "forget"
    /\ \/ /\ Works
          /\ recorded' = recorded \ {downAt}
          /\ torn' = torn \ {downAt}
          /\ Retreat
          /\ UNCHANGED <<schema, table, data>>
       \/ DownFails /\ torn' = torn \cup {downAt}
    /\ UNCHANGED <<pc, at, downs, kills>>

KillDown ==
    /\ down # "off"
    /\ kills < MaxKills
    /\ kills' = kills + 1
    /\ torn' = IF down = "forget" THEN torn \cup {downAt} ELSE torn
    /\ EndDown
    /\ UNCHANGED <<database, pc, at, downs, errors>>

Kill(p) ==
    /\ pc[p] # "stopped"
    /\ kills < MaxKills
    /\ kills' = kills + 1
    /\ GiveUp(p)
    /\ UNCHANGED <<database, rollback, errors>>

-----------------------------------------------------------------------------
Open(p) ==
    \/ Start(p)
    \/ Ping(p)
    \/ CreateTable(p)
    \/ Query(p)
    \/ Apply(p)
    \/ Record(p)

Revert == DownQuery \/ DownRevert \/ DownForget

Next ==
    \/ \E p \in Procs : Open(p) \/ Serve(p) \/ Kill(p)
    \/ BeginDown
    \/ Revert
    \/ KillDown

\* A process is scheduled and started again; a rollback goes on or is killed.
Fairness == (\A p \in Procs : WF_vars(Open(p))) /\ WF_vars(Revert)

Spec == Init /\ [][Next]_vars /\ Fairness

-----------------------------------------------------------------------------
(* Properties                                                                *)

Applied(v) == IF v = 1 THEN schema # "none" ELSE schema = "numeric"

\* A recorded migration has been applied, whichever processes raced to apply it
\* and wherever they were killed, so that no later start skips one that was not;
\* the exception is a rollback between reverting a version and removing its
\* record, or stopped there.
RecordedIsApplied ==
    \A v \in recorded :
        Applied(v) \/ v \in torn \/ (down = "forget" /\ downAt = v)

\* No version is recorded without those before it, forward and back.
RecordsArePrefix == \A v \in recorded : 1 .. v \subseteq recorded

\* A process that listens has every table, recorded as it is; with amounts of the
\* last type, unless a rollback was stopped between reverting it and saying so.
ServingHasSchema ==
    \A p \in Procs : pc[p] = "serve" =>
        /\ recorded = Versions
        /\ schema # "none"
        /\ schema = "numeric" \/ Last \in torn

\* No start of a process loses what the others have stored, even when it applies
\* a migration again; only a rollback does.
StartsKeepData ==
    [][data /\ ~data' => down = "revert" /\ downAt = First]_vars

\* However often starts are killed, fail, overlap and follow rollbacks, in the end
\* every process listens; the exception is a rollback stopped after it dropped the
\* tables, which leaves a record that makes every start fail.
StartsSucceed ==
    <>[]((\A p \in Procs : pc[p] = "serve") \/ First \in torn)

=============================================================================
