---------------------------- MODULE DatabaseAccess ----------------------------
(***************************************************************************)
(* Temporary access to the database: the scripts that open the firewall    *)
(* for an operator, the state file by which a later script finds the rule, *)
(* and calls to Azure that fail, lose their result or are interrupted.     *)
(*                                                                         *)
(*   open     scripts/demo-db-access-open.sh                               *)
(*              check (-> list) -> stale -> create -> write -> secret      *)
(*              -> wait -> ready                                           *)
(*   close    scripts/demo-db-access-close.sh                              *)
(*              check -> delete -> verify -> forget -> closed              *)
(*   migrate  services/governance-api/scripts/migrate-azure.sh             *)
(*              create -> secret -> wait -> migrate -> cleanup -> ended    *)
(*                                                                         *)
(* A script that created a rule and fails goes to "cleanup", and open from *)
(* there to "forget".  The rule that a run creates is named by the run:    *)
(* the scripts name it by the time.                                        *)
(***************************************************************************)
EXTENDS Naturals, FiniteSets

CONSTANTS
    Runs,         \* runs of a script
    Attempts,     \* attempts of each script's loop (24, 15, 30 in the code)
    Overlapping,  \* whether two runs of open or close may overlap
    MaxFaulty,    \* bound: runs that meet a fault
    NULL,         \* no state file, or no rule
    EMPTY         \* a state file that names no rule

Kinds == {"open", "close", "migrate"}

ASSUME AttemptsAssumption == Attempts \in [Kinds -> Nat \ {0}]

ASSUME OverlappingAssumption == Overlapping \in BOOLEAN

ASSUME NamesAssumption == NULL # EMPTY /\ {NULL, EMPTY} \cap Runs = {}

VARIABLES
    rule,       \* the firewall rule of each run
    stateFile,  \* the rule named by the state file, EMPTY or NULL
    kind,       \* the script of each run
    pc,         \* where the run is
    target,     \* its FIREWALL_RULE
    created,    \* its RULE_CREATED
    password,   \* whether PGPASSWORD is set
    tries,      \* attempts of its loop so far
    faulty      \* history: runs that a call failed, or that were killed

shell == <<kind, target, created, password, tries>>
vars  == <<rule, stateFile, pc, shell, faulty>>

Active == {"check", "list", "stale", "create", "write", "secret", "wait",
           "migrate", "delete", "verify", "cleanup", "forget"}

Ended == {"refused", "failed", "ready", "closed", "ended"}

Goto(p, step) == pc' = [pc EXCEPT ![p] = step]

\* set -e ends the script; the trap is set, and cleans up, once the script
\* knows that it created a rule.
Exit(p) == Goto(p, IF created[p] THEN "cleanup" ELSE "failed")

\* A call of run p fails.
Fault(p) ==
    /\ p \in faulty \/ Cardinality(faulty) < MaxFaulty
    /\ faulty' = faulty \cup {p}

\* az ... firewall-rule delete: the rule is listed until Azure is done.
Remove(r) == rule' = [rule EXCEPT ![r] = IF @ = "present" THEN "deleting"
                                         ELSE @]

----------------------------------------------------------------------------
\* Starting

Demo == {"open", "close"}

Start(p) ==
    /\ pc[p] = "idle"
    /\ \E k \in Kinds :
          /\ k \in Demo /\ ~Overlapping =>
                 \A q \in Runs : kind[q] \in Demo => pc[q] \notin Active
          /\ kind' = [kind EXCEPT ![p] = k]
          /\ Goto(p, IF k = "migrate" THEN "create" ELSE "check")
    /\ UNCHANGED <<rule, stateFile, target, created, password, tries, faulty>>

\* open sources the state file, if there is one.
OpenChecks(p) ==
    /\ kind[p] = "open" /\ pc[p] = "check"
    /\ \/ stateFile = NULL /\ Goto(p, "create") /\ UNCHANGED target
       \/ stateFile = EMPTY /\ Goto(p, "stale") /\ UNCHANGED target
       \/ /\ stateFile \notin {NULL, EMPTY}
          /\ target' = [target EXCEPT ![p] = stateFile]
          /\ Goto(p, "list")
    /\ UNCHANGED <<rule, stateFile, kind, created, password, tries, faulty>>

\* open refuses if the rule it read still exists.
OpenLists(p) ==
    /\ pc[p] = "list"
    /\ Goto(p, IF rule[target[p]] = "absent" THEN "stale" ELSE "refused")
    /\ UNCHANGED <<rule, stateFile, shell, faulty>>

\* rm -f of a state file whose rule is gone.
RemoveStale(p) ==
    /\ pc[p] = "stale"
    /\ stateFile' = NULL
    /\ Goto(p, "create")
    /\ UNCHANGED <<rule, shell, faulty>>

\* close sources the state file, if there is one.
CloseChecks(p) ==
    /\ kind[p] = "close" /\ pc[p] = "check"
    /\ \/ stateFile = NULL /\ Goto(p, "ended") /\ UNCHANGED target
       \/ stateFile = EMPTY /\ Goto(p, "failed") /\ UNCHANGED target
       \/ /\ stateFile \notin {NULL, EMPTY}
          /\ target' = [target EXCEPT ![p] = stateFile]
          /\ Goto(p, "delete")
    /\ UNCHANGED <<rule, stateFile, kind, created, password, tries, faulty>>

----------------------------------------------------------------------------
\* Opening

Create(p) ==
    /\ pc[p] = "create"
    /\ rule' = [rule EXCEPT ![p] = "present"]
    /\ target' = [target EXCEPT ![p] = p]
    /\ created' = [created EXCEPT ![p] = TRUE]
    /\ Goto(p, IF kind[p] = "open" THEN "write" ELSE "secret")
    /\ UNCHANGED <<stateFile, kind, password, tries, faulty>>

\* The rule may have been created although az reports an error, or nobody
\* asked for it because the public address was not found out.
CreateFails(p) ==
    /\ pc[p] = "create"
    /\ rule' \in {rule, [rule EXCEPT ![p] = "present"]}
    /\ Exit(p)
    /\ Fault(p)
    /\ UNCHANGED <<stateFile, shell>>

WriteState(p) ==
    /\ pc[p] = "write"
    /\ stateFile' = p
    /\ Goto(p, "secret")
    /\ UNCHANGED <<rule, shell, faulty>>

\* The file is truncated before it is written.
WriteFails(p) ==
    /\ pc[p] = "write"
    /\ stateFile' \in {stateFile, EMPTY}
    /\ Exit(p)
    /\ Fault(p)
    /\ UNCHANGED <<rule, shell>>

GetSecret(p) ==
    /\ pc[p] = "secret"
    /\ password' = [password EXCEPT ![p] = TRUE]
    /\ Goto(p, "wait")
    /\ UNCHANGED <<rule, stateFile, kind, target, created, tries, faulty>>

\* "export" hides the failure of its command substitution: migrate notices
\* that the password is empty, open goes on without one.
SecretFails(p) ==
    /\ pc[p] = "secret"
    /\ IF kind[p] = "open" THEN Goto(p, "wait") ELSE Exit(p)
    /\ Fault(p)
    /\ UNCHANGED <<rule, stateFile, shell>>

\* Any rule for the operator's address lets psql in, once Azure has spread it
\* and until it has withdrawn it everywhere.
Connect(p) ==
    /\ pc[p] = "wait"
    /\ password[p]
    /\ \E r \in Runs : rule[r] # "absent"
    /\ password' = [password EXCEPT ![p] = kind[p] = "migrate"]
    /\ Goto(p, IF kind[p] = "open" THEN "ready" ELSE "migrate")
    /\ UNCHANGED <<rule, stateFile, kind, target, created, tries, faulty>>

\* Fault: attempts are not counted.
WaitsOn(p) == pc[p] = "wait" /\ UNCHANGED vars

\* Fault: the last attempt is not the last.
OnceMore(p) ==
    /\ pc[p] = "wait"
    /\ tries' = [tries EXCEPT ![p] = @ + 1]
    /\ IF tries'[p] <= Attempts[kind[p]] THEN UNCHANGED pc ELSE Exit(p)
    /\ UNCHANGED <<rule, stateFile, kind, target, created, password, faulty>>

NotReachable(p) ==
    /\ pc[p] = "wait"
    /\ tries' = [tries EXCEPT ![p] = @ + 1]
    /\ IF tries'[p] < Attempts[kind[p]] THEN UNCHANGED pc ELSE Exit(p)
    /\ UNCHANGED <<rule, stateFile, kind, target, created, password, faulty>>

\* Fault: the trap is not set.
NoTrap(p) ==
    /\ pc[p] = "migrate"
    /\ Goto(p, "ended")
    /\ UNCHANGED <<rule, stateFile, shell, faulty>>

\* run-migrations.sh and the listing of the tables, whatever they return.
Migrate(p) ==
    /\ pc[p] = "migrate"
    /\ Goto(p, "cleanup")
    /\ UNCHANGED <<rule, stateFile, shell, faulty>>

----------------------------------------------------------------------------
\* Cleaning up and closing

\* The trap of open or migrate deletes the rule.
CleanUp(p) ==
    /\ pc[p] = "cleanup"
    /\ Remove(p)
    /\ Goto(p, IF kind[p] = "open" THEN "forget" ELSE "ended")
    /\ UNCHANGED <<stateFile, shell, faulty>>

\* "|| true": the trap goes on if the deletion fails, with or without effect.
CleanUpFails(p) ==
    /\ pc[p] = "cleanup"
    /\ Remove(p) \/ UNCHANGED rule
    /\ Goto(p, IF kind[p] = "open" THEN "forget" ELSE "ended")
    /\ Fault(p)
    /\ UNCHANGED <<stateFile, shell>>

\* The trap of migrate also runs on SIGINT and SIGTERM.  The script then goes
\* on where it was, without a password; an unset one stops it only if it has
\* yet to look at it (set -u).
Interrupt(p) ==
    /\ kind[p] = "migrate" /\ pc[p] \in {"secret", "wait", "migrate"}
    /\ \/ Remove(p) /\ UNCHANGED faulty
       \/ UNCHANGED rule /\ Fault(p)
    /\ password' = [password EXCEPT ![p] = FALSE]
    /\ IF pc[p] = "secret" THEN Exit(p) ELSE UNCHANGED pc
    /\ UNCHANGED <<stateFile, kind, target, created, tries>>

CloseDeletes(p) ==
    /\ pc[p] = "delete"
    /\ Remove(target[p])
    /\ Goto(p, "verify")
    /\ UNCHANGED <<stateFile, shell, faulty>>

\* Fault: the file is removed whatever az reports.
ForgetsAnyway(p) ==
    /\ pc[p] = "delete"
    /\ Goto(p, "forget")
    /\ Fault(p)
    /\ UNCHANGED <<rule, stateFile, shell>>

\* close stops and keeps the file if the deletion fails.
CloseFails(p) ==
    /\ pc[p] = "delete"
    /\ Remove(target[p]) \/ UNCHANGED rule
    /\ Goto(p, "failed")
    /\ Fault(p)
    /\ UNCHANGED <<stateFile, shell>>

\* Fault: the rule is taken for deleted when az has accepted the call.
TakesForGone(p) ==
    /\ pc[p] = "verify"
    /\ Goto(p, "forget")
    /\ UNCHANGED <<rule, stateFile, shell, faulty>>

\* close lists the rule until it is gone, or gives up and keeps the file.
Verify(p) ==
    /\ pc[p] = "verify"
    /\ IF rule[target[p]] = "absent"
       THEN Goto(p, "forget") /\ UNCHANGED tries
       ELSE /\ tries' = [tries EXCEPT ![p] = @ + 1]
            /\ IF tries'[p] < Attempts["close"] THEN UNCHANGED pc
               ELSE Goto(p, "failed")
    /\ UNCHANGED <<rule, stateFile, kind, target, created, password, faulty>>

\* A listing fails, in open or in close.
ListFails(p) ==
    /\ pc[p] \in {"list", "verify"}
    /\ Goto(p, "failed")
    /\ Fault(p)
    /\ UNCHANGED <<rule, stateFile, shell>>

\* rm -f, at the end of close and in the trap of open.
Forget(p) ==
    /\ pc[p] = "forget"
    /\ stateFile' = NULL
    /\ Goto(p, IF kind[p] = "close" THEN "closed" ELSE "failed")
    /\ UNCHANGED <<rule, shell, faulty>>

\* SIGKILL, or the machine goes down: no trap runs.  On SIGINT and SIGTERM
\* bash runs the trap of open, but with the status of the last command that
\* had completed, which is usually 0: the trap may do nothing.
Kill(p) ==
    /\ pc[p] \in Active
    /\ \/ Goto(p, "failed")
       \/ kind[p] = "open" /\ pc[p] \in {"write", "secret", "wait"} /\ Exit(p)
    /\ Fault(p)
    /\ UNCHANGED <<rule, stateFile, shell>>

----------------------------------------------------------------------------
\* Azure

\* A deletion takes effect.
Deleted(r) ==
    /\ rule[r] = "deleting"
    /\ rule' = [rule EXCEPT ![r] = "absent"]
    /\ UNCHANGED <<stateFile, pc, shell, faulty>>

\* A deletion that Azure had accepted fails.
DeletionFails(r) ==
    /\ rule[r] = "deleting"
    /\ rule' = [rule EXCEPT ![r] = "present"]
    /\ Fault(r)
    /\ UNCHANGED <<stateFile, pc, shell>>

----------------------------------------------------------------------------
Init ==
    /\ rule = [p \in Runs |-> "absent"]
    /\ stateFile \in {NULL, EMPTY}
    /\ kind = [p \in Runs |-> "migrate"]
    /\ pc = [p \in Runs |-> "idle"]
    /\ target = [p \in Runs |-> NULL]
    /\ created = [p \in Runs |-> FALSE]
    /\ password = [p \in Runs |-> FALSE]
    /\ tries = [p \in Runs |-> 0]
    /\ faulty = {}

Step(p) == \/ OpenChecks(p)
           \/ OpenLists(p)
           \/ RemoveStale(p)
           \/ CloseChecks(p)
           \/ Create(p)
           \/ WriteState(p)
           \/ GetSecret(p)
           \/ Connect(p)
           \/ NotReachable(p)
           \/ Migrate(p)
           \/ CleanUp(p)
           \/ CloseDeletes(p)
           \/ Verify(p)
           \/ Forget(p)

Failure(p) == \/ CreateFails(p)
              \/ WriteFails(p)
              \/ SecretFails(p)
              \/ CleanUpFails(p)
              \/ CloseFails(p)
              \/ ListFails(p)
              \/ Kill(p)
              \/ DeletionFails(p)

Next == \E p \in Runs : \/ Start(p)
                        \/ Step(p)
                        \/ Failure(p)
                        \/ Interrupt(p)
                        \/ Deleted(p)

Spec == Init /\ [][Next]_vars

\* The shell goes on, az and docker return, and Azure finishes deletions.
FairSpec == Spec /\ \A p \in Runs : WF_vars(Step(p)) /\ WF_vars(Deleted(p))

----------------------------------------------------------------------------
\* Properties

\* The variables keep their types.
TypeOK ==
    /\ rule \in [Runs -> {"absent", "present", "deleting"}]
    /\ stateFile \in Runs \cup {NULL, EMPTY}
    /\ kind \in [Runs -> Kinds]
    /\ pc \in [Runs -> Active \cup Ended \cup {"idle"}]
    /\ target \in [Runs -> Runs \cup {NULL}]
    /\ created \in [Runs -> BOOLEAN]
    /\ password \in [Runs -> BOOLEAN]
    /\ tries \in [Runs -> Nat]
    /\ \A p \in Runs : tries[p] <= Attempts[kind[p]]
    /\ faulty \subseteq Runs

\* Nobody will remove the rule: no state file names it and its run is over.
Forgotten(r) == rule[r] = "present" /\ stateFile # r /\ pc[r] \notin Active

\* As long as the operator runs one demo script at a time, a rule is left in
\* the firewall without a script or a file that knows it only if its own run
\* met a failing call or was killed; what fails in other runs, a close that
\* is killed half way or a migration at the same time, never does it.
ForgottenOnlyByFault ==
    ~Overlapping => \A r \in Runs : Forgotten(r) => r \in faulty

\* As long as the operator runs one demo script at a time, access that was
\* reported "READY" can be closed: while the rule exists the state file names
\* it, whatever fails or is killed before, after and meanwhile, as long as the
\* machine keeps its files.
ReadyCanBeClosed ==
    ~Overlapping =>
        \A r \in Runs : pc[r] = "ready" /\ rule[r] # "absent" => stateFile = r

\* The rule of a migration is temporary: it goes, also when the migration
\* fails, unless a call of the run fails or it is killed (the EXIT trap).
MigrationRuleGoes ==
    \A p \in Runs : kind[p] = "migrate" /\ rule[p] = "present"
                        ~> rule[p] = "absent" \/ p \in faulty

\* Every script ends: each loop is bounded, whatever fails.
ScriptsEnd == \A p \in Runs : pc[p] \in Active ~> pc[p] \in Ended
=============================================================================
