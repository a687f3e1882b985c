------------------------------ MODULE Migrations ------------------------------
(***************************************************************************)
(* The migration runner: concurrent runs of run-migrations.sh on one       *)
(* database, from checkouts that may differ, with psql calls that fail and *)
(* runs that are killed, and the operator who registers a baseline or      *)
(* undoes a migration by hand.                                             *)
(*                                                                         *)
(* Every psql_exec is a step of its own.  pc[p] is the step run p is at:   *)
(*                                                                         *)
(*   tracking -> guard -> create -> select (-> execute -> commit) -> ...   *)
(*            -> status -> done            refused: the safety guard       *)
(*                                         failed:  any other exit         *)
(*                                                                         *)
(* Versions are consecutive from 1, as the files in migrations/ are.       *)
(* Source: services/governance-api/scripts/run-migrations.sh.              *)
(***************************************************************************)
EXTENDS Naturals, Sequences

CONSTANTS
    Runners,     \* shells that may run the script at the same time
    Names,       \* migration names
    Malformed,   \* names that the file name pattern rejects
    MaxVersion,  \* the highest migration number
    Checkouts,   \* the files of a working copy: a name for each version
    Baseline,    \* the name of version 1, created once without the runner
    NULL,        \* no row
    MaxDowns     \* bound: migrations that the operator undoes

ASSUME NamesAssumption ==
    /\ Malformed \subseteq Names
    /\ Baseline \in Names \ Malformed
    /\ NULL \notin Names

Versions == 1 .. MaxVersion

ASSUME VersionsAssumption == MaxVersion \in Nat \ {0}

ASSUME CheckoutsAssumption ==
    /\ \A f \in Checkouts : f \in Seq(Names) /\ DOMAIN f \subseteq Versions
    /\ \E f \in Checkouts : f # <<>> /\ f[1] = Baseline

ASSUME DownsAssumption == MaxDowns \in Nat

VARIABLES
    \* the database
    schema,   \* the migrations whose objects exist: <<version, name>>
    tracked,  \* schema_migrations exists
    rows,     \* its rows: the name of each version, or NULL
    \* the runs
    pc, files, saw, index,
    \* the operator
    downs     \* migrations undone so far

database == <<schema, tracked, rows>>
runs     == <<pc, files, saw, index>>
vars     == <<database, runs, downs>>

Active == {"tracking", "guard", "create", "select", "execute", "commit",
           "status"}

Ended == {"done", "refused", "failed"}

----------------------------------------------------------------------------
\* Steps of a run

Goto(p, step) == pc' = [pc EXCEPT ![p] = step]

\* The version and the name of the file the loop is at.
Version(p) == index[p]

Name(p) == files[p][index[p]]

\* Fault: files are counted from zero.
StartsAtZero(p) ==
    /\ pc[p] \in {"idle"} \cup Ended
    /\ Goto(p, "tracking")
    /\ \E f \in Checkouts : files' = [files EXCEPT ![p] = f]
    /\ saw' = [saw EXCEPT ![p] = FALSE]
    /\ index' = [index EXCEPT ![p] = 0]
    /\ UNCHANGED <<database, downs>>

\* A new run of the script, possibly of another checkout.
Start(p) ==
    /\ pc[p] \in {"idle"} \cup Ended
    /\ Goto(p, "tracking")
    /\ \E f \in Checkouts : files' = [files EXCEPT ![p] = f]
    /\ saw' = [saw EXCEPT ![p] = FALSE]
    /\ index' = [index EXCEPT ![p] = 1]
    /\ UNCHANGED <<database, downs>>

CheckTracking(p) ==
    /\ pc[p] = "tracking"
    /\ saw' = [saw EXCEPT ![p] = tracked]
    /\ Goto(p, "guard")
    /\ UNCHANGED <<database, files, index, downs>>

CoreTablesExist == \E n \in Names : <<1, n>> \in schema

\* Fault: the safety guard is missing.
NoGuard(p) ==
    /\ pc[p] = "guard"
    /\ Goto(p, "create")
    /\ UNCHANGED <<database, files, saw, index, downs>>

\* The core tables are counted after the tracking table was looked up, and a
\* schema without history is refused.
CountCore(p) ==
    /\ pc[p] = "guard"
    /\ Goto(p, IF ~saw[p] /\ CoreTablesExist THEN "refused" ELSE "create")
    /\ UNCHANGED <<database, files, saw, index, downs>>

\* CREATE TABLE IF NOT EXISTS, then the list of files, which must not be
\* empty.  The table may be created although psql reports an error.
CreateTracking(p) ==
    /\ pc[p] = "create"
    /\ tracked' = TRUE
    /\ \/ files[p] # <<>> /\ Goto(p, "select")
       \/ Goto(p, "failed")
    /\ UNCHANGED <<schema, rows, files, saw, index, downs>>

\* The loop goes to the next file, or ends.
Advance(p) ==
    IF index[p] < Len(files[p])
    THEN Goto(p, "select") /\ index' = [index EXCEPT ![p] = @ + 1]
    ELSE Goto(p, "status") /\ UNCHANGED index

\* Fault: names are not compared.
IgnoresName(p) ==
    /\ pc[p] = "select"
    /\ IF rows[Version(p)] = NULL
       THEN Goto(p, "execute") /\ UNCHANGED index
       ELSE Advance(p)
    /\ UNCHANGED <<database, files, saw, downs>>

\* A version that is on record is skipped, under another name it is an error;
\* so is a malformed file name.
SelectName(p) ==
    /\ pc[p] = "select"
    /\ CASE Name(p) \in Malformed -> Goto(p, "failed") /\ UNCHANGED index
         [] Name(p) \notin Malformed /\ rows[Version(p)] = NULL ->
                Goto(p, "execute") /\ UNCHANGED index
         [] Name(p) \notin Malformed /\ rows[Version(p)] = Name(p) ->
                Advance(p)
         [] OTHER -> Goto(p, "failed") /\ UNCHANGED index
    /\ UNCHANGED <<database, files, saw, downs>>

\* PostgreSQL makes a transaction wait for another one that creates the same
\* objects or inserts the same key.
Blocked(p) == \E q \in Runners \ {p} : /\ pc[q] = "commit"
                                       /\ Version(q) = Version(p)

\* The file creates objects that do not exist, out of tables of version 1,
\* and the row has a new key; otherwise ON_ERROR_STOP ends psql.
Applicable(p) ==
    /\ \A n \in Names : <<Version(p), n>> \notin schema
    /\ rows[Version(p)] = NULL
    /\ Version(p) > 1 => CoreTablesExist

\* Fault: the statements are not in one transaction.
NoTransaction(p) ==
    /\ pc[p] = "execute"
    /\ ~Blocked(p)
    /\ Applicable(p)
    /\ Goto(p, "commit")
    /\ schema' = schema \cup {<<Version(p), Name(p)>>}
    /\ UNCHANGED <<tracked, rows, files, saw, index, downs>>

\* BEGIN, the file and the INSERT of its row have run, uncommitted.
Execute(p) ==
    /\ pc[p] = "execute"
    /\ ~Blocked(p)
    /\ Applicable(p)
    /\ Goto(p, "commit")
    /\ UNCHANGED <<database, files, saw, index, downs>>

\* Fault: the next file follows whatever psql returned.
NoErrorStop(p) ==
    /\ pc[p] = "execute"
    /\ ~Blocked(p)
    /\ ~Applicable(p)
    /\ Advance(p)
    /\ UNCHANGED <<database, files, saw, downs>>

\* Fault: the file is tried again.
TriesAgain(p) ==
    /\ pc[p] = "execute"
    /\ ~Blocked(p)
    /\ ~Applicable(p)
    /\ UNCHANGED vars

ExecuteFails(p) ==
    /\ pc[p] = "execute"
    /\ ~Blocked(p)
    /\ ~Applicable(p)
    /\ Goto(p, "failed")
    /\ UNCHANGED <<database, files, saw, index, downs>>

\* COMMIT: objects and row appear together.  psql may lose the answer.
Commit(p) ==
    /\ pc[p] = "commit"
    /\ schema' = schema \cup {<<Version(p), Name(p)>>}
    /\ rows' = [rows EXCEPT ![Version(p)] = Name(p)]
    /\ \/ Advance(p)
       \/ Goto(p, "failed") /\ UNCHANGED index
    /\ UNCHANGED <<tracked, files, saw, downs>>

\* "All migrations applied successfully."
Report(p) ==
    /\ pc[p] = "status"
    /\ Goto(p, "done")
    /\ UNCHANGED <<database, files, saw, index, downs>>

\* A psql call fails without effect, or the run is killed: what it had not
\* committed is rolled back (set -e, pipefail, and the end of psql's input).
Abort(p) ==
    /\ pc[p] \in Active
    /\ Goto(p, "failed")
    /\ UNCHANGED <<database, files, saw, index, downs>>

----------------------------------------------------------------------------
\* The operator

\* The history of a schema that was created without the runner is registered
\* by hand, its tables having been verified.
RegisterBaseline ==
    /\ ~tracked
    /\ <<1, Baseline>> \in schema
    /\ tracked' = TRUE
    /\ rows' = [rows EXCEPT ![1] = Baseline]
    /\ UNCHANGED <<schema, runs, downs>>

\* A down file is run by hand, newest first and while no run is under way.
\* It drops the objects of its version and nothing else.
Down ==
    /\ downs < MaxDowns
    /\ \A p \in Runners : pc[p] \notin Active
    /\ \E m \in schema :
          /\ \A other \in schema : other[1] <= m[1]
          /\ schema' = schema \ {m}
    /\ downs' = downs + 1
    /\ UNCHANGED <<tracked, rows, runs>>

----------------------------------------------------------------------------
\* The first n migrations of checkout f were applied by the runner.
Migrated(f, n) ==
    /\ tracked = TRUE
    /\ rows = [v \in Versions |-> IF v <= n THEN f[v] ELSE NULL]
    /\ schema = {<<v, f[v]>> : v \in 1 .. n}

\* An empty database, one from before the runner, or one with history.
Init ==
    /\ \/ /\ tracked = FALSE
          /\ rows = [v \in Versions |-> NULL]
          /\ schema \in {{}, {<<1, Baseline>>}}
       \/ \E f \in Checkouts : \E n \in 0 .. Len(f) :
             /\ \A v \in 1 .. n : f[v] \notin Malformed
             /\ Migrated(f, n)
    /\ pc = [p \in Runners |-> "idle"]
    /\ files = [p \in Runners |-> <<>>]
    /\ saw = [p \in Runners |-> FALSE]
    /\ index = [p \in Runners |-> 1]
    /\ downs = 0

Step(p) == \/ CheckTracking(p)
           \/ CountCore(p)
           \/ CreateTracking(p)
           \/ SelectName(p)
           \/ Execute(p)
           \/ ExecuteFails(p)
           \/ Commit(p)
           \/ Report(p)

Next == \/ \E p \in Runners : Start(p) \/ Step(p) \/ Abort(p)
        \/ RegisterBaseline
        \/ Down

Spec == Init /\ [][Next]_vars

\* Every psql call ends.  A blocked one may be overtaken by later runs only
\* until PostgreSQL, which queues for its locks, comes to it.
FairSpec == Spec /\ \A p \in Runners : SF_vars(Step(p))

----------------------------------------------------------------------------
\* Properties

\* Tables, positions in the script and counters keep their types.
TypeOK ==
    /\ schema \subseteq Versions \X Names
    /\ tracked \in BOOLEAN
    /\ rows \in [Versions -> Names \cup {NULL}]
    /\ pc \in [Runners -> Active \cup Ended \cup {"idle"}]
    /\ files \in [Runners -> Checkouts \cup {<<>>}]
    /\ saw \in [Runners -> BOOLEAN]
    /\ index \in [Runners -> Versions]
    /\ downs \in 0 .. MaxDowns

\* As long as nobody undoes a migration by hand, history and schema agree:
\* a row exactly for the objects that are there, at every moment, although
\* runs overlap, are killed, or meet a schema without history (BEGIN to COMMIT
\* and the safety guard of run-migrations.sh).
LedgerMatchesSchema ==
    downs = 0 =>
        /\ tracked => \A v \in Versions, n \in Names :
                          rows[v] = n <=> <<v, n>> \in schema
        /\ ~tracked => \A v \in Versions : rows[v] = NULL

\* A run that ends with "All migrations applied successfully." leaves every
\* file of its checkout applied and recorded under its name, even if another
\* run, perhaps of another branch, was at work all the time.
SuccessMeansSchema ==
    downs = 0 =>
    \A p \in Runners : pc[p] = "done" =>
        \A v \in DOMAIN files[p] : /\ rows[v] = files[p][v]
                                   /\ <<v, files[p][v]>> \in schema

\* Every run ends, also when runs wait for each other's transactions.
RunsEnd == \A p \in Runners : pc[p] \in Active ~> pc[p] \in Ended

Ledger == INSTANCE MigrationLedger WITH ledger <- rows

\* The rows are an append-only history of one checkout (see MigrationLedger),
\* even when branches with other files for the same version are run, and even
\* when migrations are undone by hand.
KeepsLedger == Ledger!Spec
=============================================================================
