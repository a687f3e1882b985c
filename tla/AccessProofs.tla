----------------------------- MODULE AccessProofs -----------------------------
(***************************************************************************)
(* Theorems about DatabaseAccess for any number of runs, loops of any      *)
(* length, and any number of faults.                                       *)
(***************************************************************************)
EXTENDS DatabaseAccess, TLAPS

----------------------------------------------------------------------------
\* The inductive invariant

\* Which script is at which step.
StepsOfKind(p) ==
    /\ pc[p] \in {"list", "stale", "write", "ready", "refused"} =>
           kind[p] = "open"
    /\ pc[p] \in {"delete", "verify", "closed"} => kind[p] = "close"
    /\ pc[p] = "migrate" => kind[p] = "migrate"
    /\ pc[p] \in {"check", "forget"} => kind[p] \in Demo
    /\ pc[p] \in {"create", "secret", "wait", "cleanup"} => kind[p] # "close"

\* Loops begin with no attempt made and end at the last one.
Counted(p) ==
    /\ pc[p] \in {"idle", "check", "list", "stale", "create", "write",
                  "secret", "delete"} => tries[p] = 0
    /\ pc[p] \in {"wait", "verify"} => tries[p] < Attempts[kind[p]]

\* A run has its rule only after the creation, and then knows of it.
Creation(p) ==
    /\ \/ pc[p] \in {"idle", "check", "list", "stale", "create", "refused"}
       \/ kind[p] = "close"
       => ~created[p] /\ rule[p] = "absent"
    /\ pc[p] \in {"write", "secret", "wait", "migrate", "cleanup"} =>
           created[p]

\* The script that reads or writes the state file is alone with it: no other
\* one has changed it since.
Alone(p, q) ==
    kind[p] \in Demo /\ kind[q] \in Demo /\ pc[p] \in Active /\ pc[q] \in Active
        => p = q

\* The state file names a rule of an open that has written it.
NamesOpen ==
    stateFile \in Runs =>
        /\ kind[stateFile] = "open"
        /\ pc[stateFile] \notin {"idle", "check", "list", "stale", "create",
                                 "write"}

\* What a demo script knows of the state file.
Knows(p) ==
    /\ pc[p] \in {"list", "delete", "verify"} =>
           stateFile \in Runs /\ target[p] = stateFile
    /\ pc[p] = "stale" /\ stateFile \in Runs => rule[stateFile] = "absent"
    /\ pc[p] \in {"create", "write"} /\ kind[p] = "open" => stateFile = NULL
    /\ pc[p] \in {"secret", "wait"} /\ kind[p] = "open" => stateFile = p
    /\ pc[p] \in {"cleanup", "forget"} /\ kind[p] = "open" =>
           stateFile \in {NULL, EMPTY, p}
    /\ pc[p] = "forget" /\ kind[p] = "close" =>
           stateFile \in Runs /\ rule[stateFile] = "absent"
    /\ pc[p] = "forget" /\ kind[p] = "open" /\ rule[p] = "present" =>
           p \in faulty
    /\ pc[p] = "ready" /\ rule[p] # "absent" => stateFile = p

Serial == /\ \A p, q \in Runs : Alone(p, q)
          /\ NamesOpen
          /\ \A p \in Runs : Knows(p)
          /\ ForgottenOnlyByFault

Inv == /\ TypeOK
       /\ \A p \in Runs : StepsOfKind(p) /\ Counted(p) /\ Creation(p)
       /\ ~Overlapping => Serial

----------------------------------------------------------------------------
\* A run starts.
LEMMA StartInv ==
    ASSUME Inv, NEW p \in Runs, Start(p)
    PROVE  Inv'
  <1>1. TypeOK'
    BY AttemptsAssumption DEF Inv, TypeOK, Counted, Active, Start, Goto
  <1>2. ASSUME NEW q \in Runs
        PROVE  (StepsOfKind(q) /\ Counted(q) /\ Creation(q))'
    BY DEF Inv, TypeOK, StepsOfKind, Counted, Creation, Kinds, Demo, Start,
       Goto
  <1>3. ASSUME ~Overlapping, NEW q \in Runs, NEW r \in Runs
        PROVE  Alone(q, r)'
    BY <1>3 DEF Inv, TypeOK, Serial, Alone, Start, Goto
  <1>4. ASSUME ~Overlapping
        PROVE  NamesOpen'
    BY <1>4 DEF Inv, Serial, NamesOpen, Start, Goto
  <1>5. ASSUME ~Overlapping, NEW q \in Runs
        PROVE  Knows(q)'
    BY <1>5 DEF Inv, TypeOK, Serial, Knows, Start, Goto
  <1>6. ASSUME ~Overlapping, NEW q \in Runs, Forgotten(q)'
        PROVE  q \in faulty'
    BY <1>6 DEF Inv, Creation, Serial, ForgottenOnlyByFault, Forgotten,
       Start, Goto
  <1> QED
    BY <1>1, <1>2, <1>3, <1>4, <1>5, <1>6 DEF Inv, Serial,
       ForgottenOnlyByFault

\* open reads the state file.
LEMMA OpenChecksInv ==
    ASSUME Inv, NEW p \in Runs, OpenChecks(p)
    PROVE  Inv'
  <1>1. TypeOK'
    BY DEF Inv, TypeOK, Active, OpenChecks, Goto
  <1>2. ASSUME NEW q \in Runs
        PROVE  (StepsOfKind(q) /\ Counted(q) /\ Creation(q))'
    BY DEF Inv, TypeOK, StepsOfKind, Counted, Creation, OpenChecks, Goto
  <1>3. ASSUME ~Overlapping, NEW q \in Runs, NEW r \in Runs
        PROVE  Alone(q, r)'
    BY <1>3 DEF Inv, TypeOK, Serial, Alone, Active, OpenChecks, Goto
  <1>4. ASSUME ~Overlapping
        PROVE  NamesOpen'
    BY <1>4, NamesAssumption DEF Inv, TypeOK, Serial, NamesOpen, OpenChecks,
       Goto
  <1>5. ASSUME ~Overlapping, NEW q \in Runs
        PROVE  Knows(q)'
    BY <1>5, NamesAssumption DEF Inv, TypeOK, Creation, Serial, Knows,
       Active, Demo, OpenChecks, Goto
  <1>6. ASSUME ~Overlapping, NEW q \in Runs, Forgotten(q)'
        PROVE  q \in faulty'
    BY <1>6 DEF Inv, TypeOK, StepsOfKind, Creation, Serial, Alone,
       NamesOpen, Knows, ForgottenOnlyByFault, Forgotten, OpenChecks, Goto
  <1> QED
    BY <1>1, <1>2, <1>3, <1>4, <1>5, <1>6 DEF Inv, Serial,
       ForgottenOnlyByFault

\* open looks for the rule that it read.
LEMMA OpenListsInv ==
    ASSUME Inv, NEW p \in Runs, OpenLists(p)
    PROVE  Inv'
  <1>1. TypeOK'
    BY DEF Inv, TypeOK, Active, Ended, OpenLists, Goto, shell
  <1>2. ASSUME NEW q \in Runs
        PROVE  (StepsOfKind(q) /\ Counted(q) /\ Creation(q))'
    BY DEF Inv, StepsOfKind, Counted, Creation, OpenLists, Goto, shell
  <1>3. ASSUME ~Overlapping, NEW q \in Runs, NEW r \in Runs
        PROVE  Alone(q, r)'
    BY <1>3 DEF Inv, Serial, Alone, Active, OpenLists, Goto, shell
  <1>4. ASSUME ~Overlapping
        PROVE  NamesOpen'
    BY <1>4 DEF Inv, Serial, NamesOpen, OpenLists, Goto, shell
  <1>5. ASSUME ~Overlapping, NEW q \in Runs
        PROVE  Knows(q)'
    BY <1>5 DEF Inv, Serial, Knows, OpenLists, Goto, shell
  <1>6. ASSUME ~Overlapping, NEW q \in Runs, Forgotten(q)'
        PROVE  q \in faulty'
    BY <1>6 DEF Inv, Creation, Serial, ForgottenOnlyByFault, Forgotten,
       OpenLists, Goto
  <1> QED
    BY <1>1, <1>2, <1>3, <1>4, <1>5, <1>6 DEF Inv, Serial,
       ForgottenOnlyByFault

\* open removes the file of a rule that is gone.
LEMMA RemoveStaleInv ==
    ASSUME Inv, NEW p \in Runs, RemoveStale(p)
    PROVE  Inv'
  <1>1. TypeOK'
    BY DEF Inv, TypeOK, Active, RemoveStale, Goto, shell
  <1>2. ASSUME NEW q \in Runs
        PROVE  (StepsOfKind(q) /\ Counted(q) /\ Creation(q))'
    BY DEF Inv, StepsOfKind, Counted, Creation, RemoveStale, Goto, shell
  <1>3. ASSUME ~Overlapping, NEW q \in Runs, NEW r \in Runs
        PROVE  Alone(q, r)'
    BY <1>3 DEF Inv, Serial, Alone, Active, RemoveStale, Goto, shell
  <1>4. ASSUME ~Overlapping
        PROVE  NamesOpen'
    BY <1>4, NamesAssumption DEF Inv, NamesOpen, RemoveStale
  <1>5. ASSUME ~Overlapping, NEW q \in Runs
        PROVE  Knows(q)'
    BY <1>5 DEF Inv, TypeOK, StepsOfKind, Serial, Alone, Knows, Active,
       Demo, RemoveStale, Goto, shell
  <1>6. ASSUME ~Overlapping, NEW q \in Runs, Forgotten(q)'
        PROVE  q \in faulty'
    BY <1>6 DEF Inv, Creation, Serial, Knows, ForgottenOnlyByFault,
       Forgotten, RemoveStale, Goto
  <1> QED
    BY <1>1, <1>2, <1>3, <1>4, <1>5, <1>6 DEF Inv, Serial,
       ForgottenOnlyByFault

\* close reads the state file.
LEMMA CloseChecksInv ==
    ASSUME Inv, NEW p \in Runs, CloseChecks(p)
    PROVE  Inv'
  <1>1. TypeOK'
    BY DEF Inv, TypeOK, Active, Ended, CloseChecks, Goto
  <1>2. ASSUME NEW q \in Runs
        PROVE  (StepsOfKind(q) /\ Counted(q) /\ Creation(q))'
    BY DEF Inv, TypeOK, StepsOfKind, Counted, Creation, CloseChecks, Goto
  <1>3. ASSUME ~Overlapping, NEW q \in Runs, NEW r \in Runs
        PROVE  Alone(q, r)'
    BY <1>3 DEF Inv, TypeOK, Serial, Alone, Active, CloseChecks, Goto
  <1>4. ASSUME ~Overlapping
        PROVE  NamesOpen'
    BY <1>4 DEF Inv, TypeOK, Serial, NamesOpen, CloseChecks, Goto
  <1>5. ASSUME ~Overlapping, NEW q \in Runs
        PROVE  Knows(q)'
    BY <1>5 DEF Inv, TypeOK, Serial, Knows, CloseChecks, Goto
  <1>6. ASSUME ~Overlapping, NEW q \in Runs, Forgotten(q)'
        PROVE  q \in faulty'
    BY <1>6 DEF Inv, TypeOK, Creation, Serial, ForgottenOnlyByFault,
       Forgotten, CloseChecks, Goto
  <1> QED
    BY <1>1, <1>2, <1>3, <1>4, <1>5, <1>6 DEF Inv, Serial,
       ForgottenOnlyByFault

\* A rule is created.
LEMMA CreateInv ==
    ASSUME Inv, NEW p \in Runs, Create(p)
    PROVE  Inv'
  <1>1. TypeOK'
    BY DEF Inv, TypeOK, Active, Create, Goto
  <1>2. ASSUME NEW q \in Runs
        PROVE  (StepsOfKind(q) /\ Counted(q) /\ Creation(q))'
    BY DEF Inv, TypeOK, StepsOfKind, Counted, Creation, Create, Goto
  <1>3. ASSUME ~Overlapping, NEW q \in Runs, NEW r \in Runs
        PROVE  Alone(q, r)'
    BY <1>3 DEF Inv, Serial, Alone, Active, Create, Goto
  <1>4. ASSUME ~Overlapping
        PROVE  NamesOpen'
    BY <1>4 DEF Inv, Serial, NamesOpen, Create, Goto
  <1>5. ASSUME ~Overlapping, NEW q \in Runs
        PROVE  Knows(q)'
    BY <1>5 DEF Inv, Serial, NamesOpen, Knows, Create, Goto
  <1>6. ASSUME ~Overlapping, NEW q \in Runs, Forgotten(q)'
        PROVE  q \in faulty'
    BY <1>6, NamesAssumption DEF Inv, Serial, ForgottenOnlyByFault,
       Forgotten, Active, Create, Goto
  <1> QED
    BY <1>1, <1>2, <1>3, <1>4, <1>5, <1>6 DEF Inv, Serial,
       ForgottenOnlyByFault

\* The creation fails, with or without effect.
LEMMA CreateFailsInv ==
    ASSUME Inv, NEW p \in Runs, CreateFails(p)
    PROVE  Inv'
  <1>1. TypeOK'
    BY DEF Inv, TypeOK, Active, Ended, CreateFails, Goto, Exit, Fault, shell
  <1>2. ASSUME NEW q \in Runs
        PROVE  (StepsOfKind(q) /\ Counted(q) /\ Creation(q))'
    BY DEF Inv, TypeOK, StepsOfKind, Counted, Creation, CreateFails, Goto,
       Exit, shell
  <1>3. ASSUME ~Overlapping, NEW q \in Runs, NEW r \in Runs
        PROVE  Alone(q, r)'
    BY <1>3 DEF Inv, Serial, Alone, Active, CreateFails, Goto, Exit, shell
  <1>4. ASSUME ~Overlapping
        PROVE  NamesOpen'
    BY <1>4 DEF Inv, Serial, NamesOpen, CreateFails, Goto, Exit, shell
  <1>5. ASSUME ~Overlapping, NEW q \in Runs
        PROVE  Knows(q)'
    BY <1>5 DEF Inv, TypeOK, StepsOfKind, Serial, NamesOpen, Knows,
       CreateFails, Goto, Exit, Fault, shell
  <1>6. ASSUME ~Overlapping, NEW q \in Runs, Forgotten(q)'
        PROVE  q \in faulty'
    BY <1>6 DEF Inv, TypeOK, Serial, Alone, NamesOpen, ForgottenOnlyByFault,
       Forgotten, CreateFails, Goto, Exit, Fault
  <1> QED
    BY <1>1, <1>2, <1>3, <1>4, <1>5, <1>6 DEF Inv, Serial,
       ForgottenOnlyByFault

\* open records its rule.
LEMMA WriteStateInv ==
    ASSUME Inv, NEW p \in Runs, WriteState(p)
    PROVE  Inv'
  <1>1. TypeOK'
    BY DEF Inv, TypeOK, Active, WriteState, Goto, shell
  <1>2. ASSUME NEW q \in Runs
        PROVE  (StepsOfKind(q) /\ Counted(q) /\ Creation(q))'
    BY DEF Inv, StepsOfKind, Counted, Creation, WriteState, Goto, shell
  <1>3. ASSUME ~Overlapping, NEW q \in Runs, NEW r \in Runs
        PROVE  Alone(q, r)'
    BY <1>3 DEF Inv, Serial, Alone, Active, WriteState, Goto, shell
  <1>4. ASSUME ~Overlapping
        PROVE  NamesOpen'
    BY <1>4 DEF Inv, TypeOK, StepsOfKind, NamesOpen, WriteState, Goto, shell
  <1>5. ASSUME ~Overlapping, NEW q \in Runs
        PROVE  Knows(q)'
    BY <1>5, NamesAssumption DEF Inv, TypeOK, StepsOfKind, Serial, Alone,
       Knows, Active, Demo, WriteState, Goto, shell
  <1>6. ASSUME ~Overlapping, NEW q \in Runs, Forgotten(q)'
        PROVE  q \in faulty'
    BY <1>6, NamesAssumption DEF Inv, StepsOfKind, Serial, Knows,
       ForgottenOnlyByFault, Forgotten, WriteState, Goto
  <1> QED
    BY <1>1, <1>2, <1>3, <1>4, <1>5, <1>6 DEF Inv, Serial,
       ForgottenOnlyByFault

\* The state file is not written, or left empty.
LEMMA WriteFailsInv ==
    ASSUME Inv, NEW p \in Runs, WriteFails(p)
    PROVE  Inv'
  <1>1. TypeOK'
    BY AttemptsAssumption DEF Inv, TypeOK, Active, Ended, WriteFails, Goto,
       Exit, Fault, shell
  <1>2. ASSUME NEW q \in Runs
        PROVE  (StepsOfKind(q) /\ Counted(q) /\ Creation(q))'
    BY AttemptsAssumption DEF Inv, StepsOfKind, Counted, Creation, Kinds,
       WriteFails, Goto, Exit, shell
  <1>3. ASSUME ~Overlapping, NEW q \in Runs, NEW r \in Runs
        PROVE  Alone(q, r)'
    BY <1>3 DEF Inv, Serial, Alone, Active, Demo, WriteFails, Goto, Exit,
       shell
  <1>4. ASSUME ~Overlapping
        PROVE  NamesOpen'
    BY <1>4, NamesAssumption DEF Inv, StepsOfKind, Serial, Knows, NamesOpen,
       WriteFails
  <1>5. ASSUME ~Overlapping, NEW q \in Runs
        PROVE  Knows(q)'
    BY <1>5, NamesAssumption DEF Inv, TypeOK, StepsOfKind, Serial, Alone,
       Knows, Active, Demo, WriteFails, Goto, Exit, shell
  <1>6. ASSUME ~Overlapping, NEW q \in Runs, Forgotten(q)'
        PROVE  q \in faulty'
    BY <1>6, NamesAssumption DEF Inv, StepsOfKind, Creation, Serial, Knows,
       ForgottenOnlyByFault, Forgotten, Active, Demo, WriteFails, Goto,
       Exit, Fault
  <1> QED
    BY <1>1, <1>2, <1>3, <1>4, <1>5, <1>6 DEF Inv, Serial,
       ForgottenOnlyByFault

\* The password is read.
LEMMA GetSecretInv ==
    ASSUME Inv, NEW p \in Runs, GetSecret(p)
    PROVE  Inv'
  <1>1. TypeOK'
    BY DEF Inv, TypeOK, Active, Ended, GetSecret, Goto
  <1>2. ASSUME NEW q \in Runs
        PROVE  (StepsOfKind(q) /\ Counted(q) /\ Creation(q))'
    BY AttemptsAssumption DEF Inv, TypeOK, StepsOfKind, Counted, Creation,
       GetSecret, Goto
  <1>3. ASSUME ~Overlapping, NEW q \in Runs, NEW r \in Runs
        PROVE  Alone(q, r)'
    BY <1>3 DEF Inv, StepsOfKind, Serial, Alone, Active, GetSecret, Goto
  <1>4. ASSUME ~Overlapping
        PROVE  NamesOpen'
    BY <1>4 DEF Inv, TypeOK, Serial, NamesOpen, GetSecret, Goto
  <1>5. ASSUME ~Overlapping, NEW q \in Runs
        PROVE  Knows(q)'
    BY <1>5 DEF Inv, TypeOK, Serial, Knows, GetSecret, Goto
  <1>6. ASSUME ~Overlapping, NEW q \in Runs, Forgotten(q)'
        PROVE  q \in faulty'
    BY <1>6 DEF Inv, StepsOfKind, Serial, Alone, NamesOpen, Knows,
       ForgottenOnlyByFault, Forgotten, Active, GetSecret, Goto
  <1> QED
    BY <1>1, <1>2, <1>3, <1>4, <1>5, <1>6 DEF Inv, Serial,
       ForgottenOnlyByFault

\* The password is not read.
LEMMA SecretFailsInv ==
    ASSUME Inv, NEW p \in Runs, SecretFails(p)
    PROVE  Inv'
  <1>1. TypeOK'
    BY DEF Inv, TypeOK, Active, Ended, SecretFails, Goto, Exit, Fault, shell
  <1>2. ASSUME NEW q \in Runs
        PROVE  (StepsOfKind(q) /\ Counted(q) /\ Creation(q))'
    BY AttemptsAssumption DEF Inv, TypeOK, StepsOfKind, Counted, Creation,
       SecretFails, Goto, Exit, shell
  <1>3. ASSUME ~Overlapping, NEW q \in Runs, NEW r \in Runs
        PROVE  Alone(q, r)'
    BY <1>3 DEF Inv, TypeOK, Serial, Alone, Active, SecretFails, Goto, Exit,
       shell
  <1>4. ASSUME ~Overlapping
        PROVE  NamesOpen'
    BY <1>4 DEF Inv, TypeOK, Serial, NamesOpen, SecretFails, Goto, Exit,
       shell
  <1>5. ASSUME ~Overlapping, NEW q \in Runs
        PROVE  Knows(q)'
    BY <1>5 DEF Inv, TypeOK, Serial, Knows, SecretFails, Goto, Exit, Fault,
       shell
  <1>6. ASSUME ~Overlapping, NEW q \in Runs, Forgotten(q)'
        PROVE  q \in faulty'
    BY <1>6 DEF Inv, TypeOK, Serial, ForgottenOnlyByFault, Forgotten,
       SecretFails, Goto, Exit, Fault
  <1> QED
    BY <1>1, <1>2, <1>3, <1>4, <1>5, <1>6 DEF Inv, Serial,
       ForgottenOnlyByFault

\* The database is reached.
LEMMA ConnectInv ==
    ASSUME Inv, NEW p \in Runs, Connect(p)
    PROVE  Inv'
  <1>1. TypeOK'
    BY DEF Inv, TypeOK, Active, Ended, Connect, Goto
  <1>2. ASSUME NEW q \in Runs
        PROVE  (StepsOfKind(q) /\ Counted(q) /\ Creation(q))'
    BY DEF Inv, TypeOK, StepsOfKind, Counted, Creation, Kinds, Connect, Goto
  <1>3. ASSUME ~Overlapping, NEW q \in Runs, NEW r \in Runs
        PROVE  Alone(q, r)'
    BY <1>3 DEF Inv, Serial, Alone, Active, Connect, Goto
  <1>4. ASSUME ~Overlapping
        PROVE  NamesOpen'
    BY <1>4 DEF Inv, Serial, NamesOpen, Connect, Goto
  <1>5. ASSUME ~Overlapping, NEW q \in Runs
        PROVE  Knows(q)'
    BY <1>5 DEF Inv, Serial, Knows, Connect, Goto
  <1>6. ASSUME ~Overlapping, NEW q \in Runs, Forgotten(q)'
        PROVE  q \in faulty'
    BY <1>6 DEF Inv, Serial, Knows, ForgottenOnlyByFault, Forgotten, Active,
       Connect, Goto
  <1> QED
    BY <1>1, <1>2, <1>3, <1>4, <1>5, <1>6 DEF Inv, Serial,
       ForgottenOnlyByFault

\* An attempt fails; the last one ends the script.
LEMMA NotReachableInv ==
    ASSUME Inv, NEW p \in Runs, NotReachable(p)
    PROVE  Inv'
  <1>1. TypeOK'
    BY AttemptsAssumption DEF Inv, TypeOK, Counted, Active, Ended,
       NotReachable, Goto, Exit
  <1>2. ASSUME NEW q \in Runs
        PROVE  (StepsOfKind(q) /\ Counted(q) /\ Creation(q))'
    BY DEF Inv, TypeOK, StepsOfKind, Counted, Creation, NotReachable, Goto,
       Exit
  <1>3. ASSUME ~Overlapping, NEW q \in Runs, NEW r \in Runs
        PROVE  Alone(q, r)'
    BY <1>3 DEF Inv, TypeOK, Serial, Alone, Active, NotReachable, Goto, Exit
  <1>4. ASSUME ~Overlapping
        PROVE  NamesOpen'
    BY <1>4 DEF Inv, TypeOK, Serial, NamesOpen, NotReachable, Goto, Exit
  <1>5. ASSUME ~Overlapping, NEW q \in Runs
        PROVE  Knows(q)'
    BY <1>5 DEF Inv, TypeOK, Serial, Knows, NotReachable, Goto, Exit
  <1>6. ASSUME ~Overlapping, NEW q \in Runs, Forgotten(q)'
        PROVE  q \in faulty'
    BY <1>6 DEF Inv, TypeOK, Creation, Serial, ForgottenOnlyByFault,
       Forgotten, Active, NotReachable, Goto, Exit
  <1> QED
    BY <1>1, <1>2, <1>3, <1>4, <1>5, <1>6 DEF Inv, Serial,
       ForgottenOnlyByFault

\* The migrations have run.
LEMMA MigrateInv ==
    ASSUME Inv, NEW p \in Runs, Migrate(p)
    PROVE  Inv'
  <1>1. TypeOK'
    BY DEF Inv, TypeOK, Active, Migrate, Goto, shell
  <1>2. ASSUME NEW q \in Runs
        PROVE  (StepsOfKind(q) /\ Counted(q) /\ Creation(q))'
    BY DEF Inv, StepsOfKind, Counted, Creation, Migrate, Goto, shell
  <1>3. ASSUME ~Overlapping, NEW q \in Runs, NEW r \in Runs
        PROVE  Alone(q, r)'
    BY <1>3 DEF Inv, Serial, Alone, Active, Migrate, Goto, shell
  <1>4. ASSUME ~Overlapping
        PROVE  NamesOpen'
    BY <1>4 DEF Inv, Serial, NamesOpen, Migrate, Goto, shell
  <1>5. ASSUME ~Overlapping, NEW q \in Runs
        PROVE  Knows(q)'
    BY <1>5 DEF Inv, StepsOfKind, Serial, Knows, Migrate, Goto, shell
  <1>6. ASSUME ~Overlapping, NEW q \in Runs, Forgotten(q)'
        PROVE  q \in faulty'
    BY <1>6 DEF Inv, Serial, ForgottenOnlyByFault, Forgotten, Active,
       Migrate, Goto
  <1> QED
    BY <1>1, <1>2, <1>3, <1>4, <1>5, <1>6 DEF Inv, Serial,
       ForgottenOnlyByFault

\* The trap deletes the rule.
LEMMA CleanUpInv ==
    ASSUME Inv, NEW p \in Runs, CleanUp(p)
    PROVE  Inv'
  <1>1. TypeOK'
    BY DEF Inv, TypeOK, Active, Ended, CleanUp, Goto, Remove, shell
  <1>2. ASSUME NEW q \in Runs
        PROVE  (StepsOfKind(q) /\ Counted(q) /\ Creation(q))'
    BY DEF Inv, StepsOfKind, Counted, Creation, Demo, CleanUp, Goto, Remove,
       shell
  <1>3. ASSUME ~Overlapping, NEW q \in Runs, NEW r \in Runs
        PROVE  Alone(q, r)'
    BY <1>3 DEF Inv, Serial, Alone, Active, CleanUp, Goto, shell
  <1>4. ASSUME ~Overlapping
        PROVE  NamesOpen'
    BY <1>4 DEF Inv, Serial, NamesOpen, CleanUp, Goto, shell
  <1>5. ASSUME ~Overlapping, NEW q \in Runs
        PROVE  Knows(q)'
    BY <1>5 DEF Inv, TypeOK, Serial, Knows, CleanUp, Goto, Remove, shell
  <1>6. ASSUME ~Overlapping, NEW q \in Runs, Forgotten(q)'
        PROVE  q \in faulty'
    BY <1>6 DEF Inv, TypeOK, Serial, ForgottenOnlyByFault, Forgotten,
       CleanUp, Goto, Remove
  <1> QED
    BY <1>1, <1>2, <1>3, <1>4, <1>5, <1>6 DEF Inv, Serial,
       ForgottenOnlyByFault

\* The trap fails to delete the rule.
LEMMA CleanUpFailsInv ==
    ASSUME Inv, NEW p \in Runs, CleanUpFails(p)
    PROVE  Inv'
  <1>1. TypeOK'
    BY DEF Inv, TypeOK, Active, Ended, CleanUpFails, Goto, Remove, Fault,
       shell
  <1>2. ASSUME NEW q \in Runs
        PROVE  (StepsOfKind(q) /\ Counted(q) /\ Creation(q))'
    BY DEF Inv, TypeOK, StepsOfKind, Counted, Creation, Demo, CleanUpFails,
       Goto, Remove, shell
  <1>3. ASSUME ~Overlapping, NEW q \in Runs, NEW r \in Runs
        PROVE  Alone(q, r)'
    BY <1>3 DEF Inv, Serial, Alone, Active, CleanUpFails, Goto, shell
  <1>4. ASSUME ~Overlapping
        PROVE  NamesOpen'
    BY <1>4 DEF Inv, Serial, NamesOpen, CleanUpFails, Goto, shell
  <1>5. ASSUME ~Overlapping, NEW q \in Runs
        PROVE  Knows(q)'
    BY <1>5 DEF Inv, TypeOK, Serial, Knows, CleanUpFails, Goto, Remove,
       Fault, shell
  <1>6. ASSUME ~Overlapping, NEW q \in Runs, Forgotten(q)'
        PROVE  q \in faulty'
    BY <1>6 DEF Inv, TypeOK, Serial, ForgottenOnlyByFault, Forgotten,
       CleanUpFails, Goto, Remove, Fault
  <1> QED
    BY <1>1, <1>2, <1>3, <1>4, <1>5, <1>6 DEF Inv, Serial,
       ForgottenOnlyByFault

\* A signal makes migrate clean up early.
LEMMA InterruptInv ==
    ASSUME Inv, NEW p \in Runs, Interrupt(p)
    PROVE  Inv'
  <1>1. TypeOK'
    BY DEF Inv, TypeOK, Active, Ended, Interrupt, Goto, Exit, Remove, Fault
  <1>2. ASSUME NEW q \in Runs
        PROVE  (StepsOfKind(q) /\ Counted(q) /\ Creation(q))'
    BY DEF Inv, TypeOK, StepsOfKind, Counted, Creation, Interrupt, Goto,
       Exit, Remove
  <1>3. ASSUME ~Overlapping, NEW q \in Runs, NEW r \in Runs
        PROVE  Alone(q, r)'
    BY <1>3 DEF Inv, TypeOK, Serial, Alone, Active, Interrupt, Goto, Exit
  <1>4. ASSUME ~Overlapping
        PROVE  NamesOpen'
    BY <1>4 DEF Inv, TypeOK, Serial, NamesOpen, Interrupt, Goto, Exit
  <1>5. ASSUME ~Overlapping, NEW q \in Runs
        PROVE  Knows(q)'
    BY <1>5 DEF Inv, TypeOK, Serial, Knows, Interrupt, Goto, Exit, Remove,
       Fault
  <1>6. ASSUME ~Overlapping, NEW q \in Runs, Forgotten(q)'
        PROVE  q \in faulty'
    BY <1>6 DEF Inv, TypeOK, Serial, ForgottenOnlyByFault, Forgotten,
       Interrupt, Goto, Exit, Remove, Fault
  <1> QED
    BY <1>1, <1>2, <1>3, <1>4, <1>5, <1>6 DEF Inv, Serial,
       ForgottenOnlyByFault

\* close deletes the rule.
LEMMA CloseDeletesInv ==
    ASSUME Inv, NEW p \in Runs, CloseDeletes(p)
    PROVE  Inv'
  <1>1. TypeOK'
    BY DEF Inv, TypeOK, Active, CloseDeletes, Goto, Remove, shell
  <1>2. ASSUME NEW q \in Runs
        PROVE  (StepsOfKind(q) /\ Counted(q) /\ Creation(q))'
    BY AttemptsAssumption DEF Inv, TypeOK, StepsOfKind, Counted, Creation,
       CloseDeletes, Goto, Remove, shell
  <1>3. ASSUME ~Overlapping, NEW q \in Runs, NEW r \in Runs
        PROVE  Alone(q, r)'
    BY <1>3 DEF Inv, Serial, Alone, Active, CloseDeletes, Goto, shell
  <1>4. ASSUME ~Overlapping
        PROVE  NamesOpen'
    BY <1>4 DEF Inv, Serial, NamesOpen, CloseDeletes, Goto, shell
  <1>5. ASSUME ~Overlapping, NEW q \in Runs
        PROVE  Knows(q)'
    BY <1>5 DEF Inv, Serial, Knows, CloseDeletes, Goto, Remove, shell
  <1>6. ASSUME ~Overlapping, NEW q \in Runs, Forgotten(q)'
        PROVE  q \in faulty'
    BY <1>6 DEF Inv, StepsOfKind, Creation, Serial, ForgottenOnlyByFault,
       Forgotten, CloseDeletes, Goto, Remove
  <1> QED
    BY <1>1, <1>2, <1>3, <1>4, <1>5, <1>6 DEF Inv, Serial,
       ForgottenOnlyByFault

\* close fails to delete the rule, and keeps the file.
LEMMA CloseFailsInv ==
    ASSUME Inv, NEW p \in Runs, CloseFails(p)
    PROVE  Inv'
  <1>1. TypeOK'
    BY DEF Inv, TypeOK, Ended, CloseFails, Goto, Remove, Fault, shell
  <1>2. ASSUME NEW q \in Runs
        PROVE  (StepsOfKind(q) /\ Counted(q) /\ Creation(q))'
    BY DEF Inv, TypeOK, StepsOfKind, Counted, Creation, CloseFails, Goto,
       Remove, shell
  <1>3. ASSUME ~Overlapping, NEW q \in Runs, NEW r \in Runs
        PROVE  Alone(q, r)'
    BY <1>3 DEF Inv, Serial, Alone, Active, CloseFails, Goto, shell
  <1>4. ASSUME ~Overlapping
        PROVE  NamesOpen'
    BY <1>4 DEF Inv, Serial, NamesOpen, CloseFails, Goto, shell
  <1>5. ASSUME ~Overlapping, NEW q \in Runs
        PROVE  Knows(q)'
    BY <1>5 DEF Inv, TypeOK, Serial, Knows, CloseFails, Goto, Remove, Fault,
       shell
  <1>6. ASSUME ~Overlapping, NEW q \in Runs, Forgotten(q)'
        PROVE  q \in faulty'
    BY <1>6 DEF Inv, TypeOK, Serial, ForgottenOnlyByFault, Forgotten,
       CloseFails, Goto, Remove, Fault
  <1> QED
    BY <1>1, <1>2, <1>3, <1>4, <1>5, <1>6 DEF Inv, Serial,
       ForgottenOnlyByFault

\* close looks for the rule.
LEMMA VerifyInv ==
    ASSUME Inv, NEW p \in Runs, Verify(p)
    PROVE  Inv'
  <1>1. TypeOK'
    BY AttemptsAssumption DEF Inv, TypeOK, Counted, Active, Ended, Verify,
       Goto
  <1>2. ASSUME NEW q \in Runs
        PROVE  (StepsOfKind(q) /\ Counted(q) /\ Creation(q))'
    BY DEF Inv, TypeOK, StepsOfKind, Counted, Creation, Demo, Verify, Goto
  <1>3. ASSUME ~Overlapping, NEW q \in Runs, NEW r \in Runs
        PROVE  Alone(q, r)'
    BY <1>3 DEF Inv, TypeOK, Serial, Alone, Active, Verify, Goto
  <1>4. ASSUME ~Overlapping
        PROVE  NamesOpen'
    BY <1>4 DEF Inv, TypeOK, Serial, NamesOpen, Verify, Goto
  <1>5. ASSUME ~Overlapping, NEW q \in Runs
        PROVE  Knows(q)'
    BY <1>5 DEF Inv, TypeOK, StepsOfKind, Serial, Knows, Verify, Goto
  <1>6. ASSUME ~Overlapping, NEW q \in Runs, Forgotten(q)'
        PROVE  q \in faulty'
    BY <1>6 DEF Inv, TypeOK, StepsOfKind, Creation, Serial,
       ForgottenOnlyByFault, Forgotten, Verify, Goto
  <1> QED
    BY <1>1, <1>2, <1>3, <1>4, <1>5, <1>6 DEF Inv, Serial,
       ForgottenOnlyByFault

\* A listing fails.
LEMMA ListFailsInv ==
    ASSUME Inv, NEW p \in Runs, ListFails(p)
    PROVE  Inv'
  <1>1. TypeOK'
    BY DEF Inv, TypeOK, Ended, ListFails, Goto, Fault, shell
  <1>2. ASSUME NEW q \in Runs
        PROVE  (StepsOfKind(q) /\ Counted(q) /\ Creation(q))'
    BY DEF Inv, StepsOfKind, Counted, Creation, ListFails, Goto, shell
  <1>3. ASSUME ~Overlapping, NEW q \in Runs, NEW r \in Runs
        PROVE  Alone(q, r)'
    BY <1>3 DEF Inv, Serial, Alone, Active, ListFails, Goto, shell
  <1>4. ASSUME ~Overlapping
        PROVE  NamesOpen'
    BY <1>4 DEF Inv, Serial, NamesOpen, ListFails, Goto, shell
  <1>5. ASSUME ~Overlapping, NEW q \in Runs
        PROVE  Knows(q)'
    BY <1>5 DEF Inv, Serial, Knows, ListFails, Goto, Fault, shell
  <1>6. ASSUME ~Overlapping, NEW q \in Runs, Forgotten(q)'
        PROVE  q \in faulty'
    BY <1>6 DEF Inv, Serial, ForgottenOnlyByFault, Forgotten, ListFails,
       Goto, Fault
  <1> QED
    BY <1>1, <1>2, <1>3, <1>4, <1>5, <1>6 DEF Inv, Serial,
       ForgottenOnlyByFault

\* The state file is removed.
LEMMA ForgetInv ==
    ASSUME Inv, NEW p \in Runs, Forget(p)
    PROVE  Inv'
  <1>1. TypeOK'
    BY DEF Inv, TypeOK, Ended, Forget, Goto, shell
  <1>2. ASSUME NEW q \in Runs
        PROVE  (StepsOfKind(q) /\ Counted(q) /\ Creation(q))'
    BY DEF Inv, StepsOfKind, Counted, Creation, Forget, Goto, shell
  <1>3. ASSUME ~Overlapping, NEW q \in Runs, NEW r \in Runs
        PROVE  Alone(q, r)'
    BY <1>3 DEF Inv, Serial, Alone, Active, Forget, Goto, shell
  <1>4. ASSUME ~Overlapping
        PROVE  NamesOpen'
    BY <1>4, NamesAssumption DEF Inv, NamesOpen, Forget
  <1>5. ASSUME ~Overlapping, NEW q \in Runs
        PROVE  Knows(q)'
    BY <1>5, NamesAssumption DEF Inv, TypeOK, StepsOfKind, Serial, Alone,
       Knows, Active, Demo, Forget, Goto, shell
  <1>6. ASSUME ~Overlapping, NEW q \in Runs, Forgotten(q)'
        PROVE  q \in faulty'
    BY <1>6, NamesAssumption DEF Inv, StepsOfKind, Creation, Serial, Knows,
       ForgottenOnlyByFault, Forgotten, Demo, Forget, Goto
  <1> QED
    BY <1>1, <1>2, <1>3, <1>4, <1>5, <1>6 DEF Inv, Serial,
       ForgottenOnlyByFault

\* A run is killed.
LEMMA KillInv ==
    ASSUME Inv, NEW p \in Runs, Kill(p)
    PROVE  Inv'
  <1>1. TypeOK'
    BY DEF Inv, TypeOK, Active, Ended, Kill, Goto, Exit, Fault, shell
  <1>2. ASSUME NEW q \in Runs
        PROVE  (StepsOfKind(q) /\ Counted(q) /\ Creation(q))'
    BY DEF Inv, TypeOK, StepsOfKind, Counted, Creation, Kill, Goto, Exit,
       shell
  <1>3. ASSUME ~Overlapping, NEW q \in Runs, NEW r \in Runs
        PROVE  Alone(q, r)'
    BY <1>3 DEF Inv, TypeOK, Serial, Alone, Kill, Goto, Exit, shell
  <1>4. ASSUME ~Overlapping
        PROVE  NamesOpen'
    BY <1>4 DEF Inv, TypeOK, Serial, NamesOpen, Kill, Goto, Exit, shell
  <1>5. ASSUME ~Overlapping, NEW q \in Runs
        PROVE  Knows(q)'
    BY <1>5 DEF Inv, TypeOK, Serial, Knows, Kill, Goto, Exit, Fault, shell
  <1>6. ASSUME ~Overlapping, NEW q \in Runs, Forgotten(q)'
        PROVE  q \in faulty'
    BY <1>6 DEF Inv, TypeOK, Serial, ForgottenOnlyByFault, Forgotten, Kill,
       Goto, Exit, Fault
  <1> QED
    BY <1>1, <1>2, <1>3, <1>4, <1>5, <1>6 DEF Inv, Serial,
       ForgottenOnlyByFault

\* Azure finishes a deletion.
LEMMA DeletedInv ==
    ASSUME Inv, NEW p \in Runs, Deleted(p)
    PROVE  Inv'
  <1>1. TypeOK'
    BY DEF Inv, TypeOK, Deleted, shell
  <1>2. ASSUME NEW q \in Runs
        PROVE  (StepsOfKind(q) /\ Counted(q) /\ Creation(q))'
    BY DEF Inv, StepsOfKind, Counted, Creation, Deleted, shell
  <1>3. ASSUME ~Overlapping, NEW q \in Runs, NEW r \in Runs
        PROVE  Alone(q, r)'
    BY <1>3 DEF Inv, Serial, Alone, Deleted, shell
  <1>4. ASSUME ~Overlapping
        PROVE  NamesOpen'
    BY <1>4 DEF Inv, Serial, NamesOpen, Deleted, shell
  <1>5. ASSUME ~Overlapping, NEW q \in Runs
        PROVE  Knows(q)'
    BY <1>5 DEF Inv, Serial, Knows, Deleted, shell
  <1>6. ASSUME ~Overlapping, NEW q \in Runs, Forgotten(q)'
        PROVE  q \in faulty'
    BY <1>6 DEF Inv, Serial, ForgottenOnlyByFault, Forgotten, Deleted
  <1> QED
    BY <1>1, <1>2, <1>3, <1>4, <1>5, <1>6 DEF Inv, Serial,
       ForgottenOnlyByFault

\* Azure takes a deletion back.
LEMMA DeletionFailsInv ==
    ASSUME Inv, NEW p \in Runs, DeletionFails(p)
    PROVE  Inv'
  <1>1. TypeOK'
    BY DEF Inv, TypeOK, DeletionFails, Fault, shell
  <1>2. ASSUME NEW q \in Runs
        PROVE  (StepsOfKind(q) /\ Counted(q) /\ Creation(q))'
    BY DEF Inv, StepsOfKind, Counted, Creation, DeletionFails, shell
  <1>3. ASSUME ~Overlapping, NEW q \in Runs, NEW r \in Runs
        PROVE  Alone(q, r)'
    BY <1>3 DEF Inv, Serial, Alone, DeletionFails, shell
  <1>4. ASSUME ~Overlapping
        PROVE  NamesOpen'
    BY <1>4 DEF Inv, Serial, NamesOpen, DeletionFails, shell
  <1>5. ASSUME ~Overlapping, NEW q \in Runs
        PROVE  Knows(q)'
    BY <1>5 DEF Inv, Serial, Knows, DeletionFails, Fault, shell
  <1>6. ASSUME ~Overlapping, NEW q \in Runs, Forgotten(q)'
        PROVE  q \in faulty'
    BY <1>6 DEF Inv, Serial, ForgottenOnlyByFault, Forgotten, DeletionFails,
       Fault
  <1> QED
    BY <1>1, <1>2, <1>3, <1>4, <1>5, <1>6 DEF Inv, Serial,
       ForgottenOnlyByFault

----------------------------------------------------------------------------
\* The invariant holds at the start.
LEMMA InitInv == Init => Inv
  <1> SUFFICES ASSUME Init PROVE Inv
    OBVIOUS
  <1>1. TypeOK
    BY AttemptsAssumption DEF Init, TypeOK, Kinds, Active, Ended
  <1>2. ASSUME NEW p \in Runs
        PROVE  StepsOfKind(p) /\ Counted(p) /\ Creation(p)
    BY DEF Init, StepsOfKind, Counted, Creation
  <1>3. Serial
    BY NamesAssumption DEF Init, Serial, Alone, NamesOpen, Knows,
       ForgottenOnlyByFault, Forgotten, Active
  <1> QED
    BY <1>1, <1>2, <1>3 DEF Inv

\* Every step preserves the invariant.
LEMMA NextInv == Inv /\ [Next]_vars => Inv'
  <1> SUFFICES ASSUME Inv, [Next]_vars PROVE Inv'
    OBVIOUS
  <1>1. ASSUME NEW p \in Runs, Start(p) \/ Interrupt(p) \/ Deleted(p)
        PROVE  Inv'
    BY <1>1, StartInv, InterruptInv, DeletedInv
  <1>2. ASSUME NEW p \in Runs, Step(p)
        PROVE  Inv'
    BY <1>2, OpenChecksInv, OpenListsInv, RemoveStaleInv, CloseChecksInv,
       CreateInv, WriteStateInv, GetSecretInv, ConnectInv, NotReachableInv,
       MigrateInv, CleanUpInv, CloseDeletesInv, VerifyInv, ForgetInv DEF
       Step
  <1>3. ASSUME NEW p \in Runs, Failure(p)
        PROVE  Inv'
    BY <1>3, CreateFailsInv, WriteFailsInv, SecretFailsInv, CleanUpFailsInv,
       CloseFailsInv, ListFailsInv, KillInv, DeletionFailsInv DEF Failure
  <1>4. CASE UNCHANGED vars
    BY <1>4 DEF vars, shell, Inv, TypeOK, StepsOfKind, Counted, Creation,
       Serial, Alone, NamesOpen, Knows, ForgottenOnlyByFault, Forgotten
  <1> QED
    BY <1>1, <1>2, <1>3, <1>4 DEF Next

----------------------------------------------------------------------------
\* The inductive invariant holds for any number of runs and faults, and for
\* loops of any length.
THEOREM AccessInvariance == Spec => []Inv
  <1> QED
    BY InitInv, NextInv, PTL DEF Spec

\* The variables keep their types, and no loop exceeds its attempts.
THEOREM AccessTypeCorrect == Spec => []TypeOK
  <1>1. Inv => TypeOK
    BY DEF Inv
  <1> QED
    BY <1>1, AccessInvariance, PTL

\* With one demo script at a time a firewall rule is forgotten only if a call
\* of its own run failed or the run was killed.
THEOREM NoRuleForgotten == Spec => []ForgottenOnlyByFault
  <1>1. Inv => ForgottenOnlyByFault
    BY DEF Inv, Serial, ForgottenOnlyByFault
  <1> QED
    BY <1>1, AccessInvariance, PTL

\* With one demo script at a time the state file names every rule that was
\* reported ready, so that demo-db-access-close.sh finds it.
THEOREM ReadyIsNamed == Spec => []ReadyCanBeClosed
  <1>1. Inv => ReadyCanBeClosed
    BY DEF Inv, Serial, Knows, ReadyCanBeClosed
  <1> QED
    BY <1>1, AccessInvariance, PTL
=============================================================================
