--------------------------- MODULE MigrationProofs ---------------------------
(***************************************************************************)
(* Theorems about Migrations for any number of concurrent runs and any     *)
(* checkouts.                                                              *)
(***************************************************************************)
EXTENDS Migrations, TLAPS

----------------------------------------------------------------------------
\* The inductive invariant

InLoop == {"select", "execute", "commit"}

\* The rows are the beginning of some checkout.
History == \E f \in Checkouts : \E n \in 0 .. Len(f) : Ledger!Begins(f, n)

\* What a run has behind it is on record, under the names of its files.
Progress(p) ==
    /\ pc[p] \in InLoop =>
           /\ index[p] \in DOMAIN files[p]
           /\ \A v \in 1 .. index[p] - 1 : rows[v] = files[p][v]
    /\ pc[p] \in {"status", "done"} =>
           \A v \in DOMAIN files[p] : rows[v] = files[p][v]
    /\ pc[p] \in InLoop \cup {"status", "done"} => tracked
    /\ saw[p] => tracked

\* An open transaction is about a version that is not on record, and about
\* another version than every other open transaction.
Exclusive(p) ==
    pc[p] = "commit" =>
        /\ rows[index[p]] = NULL
        /\ \A q \in Runners \ {p} : pc[q] = "commit" => index[q] # index[p]

\* A database without history has at most the baseline, and nothing at all
\* once a run was let through the guard.
Untracked ==
    ~tracked =>
        /\ \A v \in Versions : rows[v] = NULL
        /\ downs = 0 => schema \subseteq {<<1, Baseline>>}
        /\ \A p \in Runners : downs = 0 /\ pc[p] = "create" => schema = {}

\* The loop starts at the first file.
AtFirst(p) == pc[p] \in {"tracking", "guard", "create"} => index[p] = 1

Inv == /\ TypeOK
       /\ History
       /\ \A p \in Runners : AtFirst(p)
       /\ \A p \in Runners : Progress(p)
       /\ \A p \in Runners : Exclusive(p)
       /\ Untracked
       /\ LedgerMatchesSchema

----------------------------------------------------------------------------
\* Facts about checkouts

\* A file of a checkout has a version and a name.
LEMMA CheckoutType ==
    ASSUME NEW f \in Checkouts \cup {<<>>}
    PROVE  /\ f \in Seq(Names)
           /\ DOMAIN f = 1 .. Len(f)
           /\ Len(f) \in Nat
           /\ DOMAIN f \subseteq Versions
           /\ \A v \in DOMAIN f : f[v] \in Names
  <1>1. f \in Seq(Names) /\ DOMAIN f \subseteq Versions
    <2>1. CASE f \in Checkouts
      BY <2>1, CheckoutsAssumption
    <2>2. CASE f = <<>>
      BY <2>2
    <2> QED
      BY <2>1, <2>2
  <1>2. DOMAIN f = 1 .. Len(f) /\ Len(f) \in Nat
    BY <1>1
  <1>3. \A v \in 1 .. Len(f) : f[v] \in Names
    BY <1>1, <1>2
  <1> QED
    BY <1>1, <1>2, <1>3

\* The name at the position of a run in its loop.
LEMMA NameType ==
    ASSUME TypeOK, NEW p \in Runners, index[p] \in DOMAIN files[p]
    PROVE  /\ Name(p) \in Names
           /\ Version(p) \in Versions
           /\ Version(p) \in Nat
           /\ Len(files[p]) \in Nat
           /\ DOMAIN files[p] = 1 .. Len(files[p])
  <1>1. files[p] \in Checkouts \cup {<<>>}
    BY DEF TypeOK
  <1> QED
    BY <1>1, CheckoutType DEF TypeOK, Name, Version, Versions

\* The empty history is the beginning of every checkout.
LEMMA EmptyHistory ==
    ASSUME \A v \in Versions : rows[v] = NULL
    PROVE  History
  <1>1. PICK f \in Checkouts : f # <<>>
    BY CheckoutsAssumption
  <1>2. Len(f) \in Nat
    BY CheckoutType
  <1>3. Ledger!Begins(f, 0)
    BY VersionsAssumption DEF Ledger!Begins, Versions
  <1> QED
    BY <1>2, <1>3 DEF History

\* A record that agrees with a checkout below version v and has nothing at v
\* is the beginning of that checkout.
LEMMA NextOfHistory ==
    ASSUME TypeOK, History, NEW f \in Checkouts, NEW v \in DOMAIN f,
           \A w \in 1 .. v - 1 : rows[w] = f[w], rows[v] = NULL
    PROVE  Ledger!Begins(f, v - 1)
  <1>0. PICK g \in Checkouts : \E n \in 0 .. Len(g) : Ledger!Begins(g, n)
    BY DEF History
  <1>1. PICK n \in 0 .. Len(g) : Ledger!Begins(g, n)
    BY <1>0
  <1>2. /\ \A w \in DOMAIN f : w \in Versions /\ f[w] \in Names
        /\ DOMAIN f = 1 .. Len(f)
        /\ Len(f) \in Nat
    BY CheckoutType
  <1>3. /\ \A w \in DOMAIN g : w \in Versions /\ g[w] \in Names
        /\ DOMAIN g = 1 .. Len(g)
        /\ Len(g) \in Nat
    BY CheckoutType
  <1>4. n = v - 1
    <2>1. ~(n >= v)
      <3> SUFFICES ASSUME n >= v PROVE FALSE
        OBVIOUS
      <3>1. v \in 1 .. Len(g) /\ v <= n /\ v \in Versions
        BY <1>2, <1>3
      <3>2. rows[v] = g[v]
        BY <1>1, <3>1 DEF Ledger!Begins
      <3> QED
        BY <1>3, <3>1, <3>2, NamesAssumption
    <2>2. ~(n < v - 1)
      <3> SUFFICES ASSUME n < v - 1 PROVE FALSE
        OBVIOUS
      <3>1. n + 1 \in 1 .. v - 1 /\ n + 1 \in DOMAIN f /\ ~(n + 1 <= n)
        BY <1>2
      <3>2. rows[n + 1] = NULL
        BY <1>1, <1>2, <3>1 DEF Ledger!Begins
      <3>3. rows[n + 1] = f[n + 1] /\ f[n + 1] \in Names
        BY <1>2, <3>1
      <3> QED
        BY <3>2, <3>3, NamesAssumption
    <2> QED
      BY <1>2, <2>1, <2>2
  <1>5. \A w \in Versions : rows[w] = IF w <= v - 1 THEN f[w] ELSE NULL
    <2> SUFFICES ASSUME NEW w \in Versions
                 PROVE  rows[w] = IF w <= v - 1 THEN f[w] ELSE NULL
      OBVIOUS
    <2>1. CASE w <= v - 1
      <3>1. w \in 1 .. v - 1
        BY <1>2, <2>1 DEF Versions
      <3> QED
        BY <2>1, <3>1
    <2>2. CASE ~(w <= v - 1)
      BY <1>1, <1>4, <2>2 DEF Ledger!Begins
    <2> QED
      BY <2>1, <2>2
  <1> QED
    BY <1>5 DEF Ledger!Begins

\* Recording the next version gives the history of that checkout.
LEMMA AppliedHistory ==
    ASSUME TypeOK, NEW f \in Checkouts, NEW v \in DOMAIN f,
           Ledger!Begins(f, v - 1), rows' = [rows EXCEPT ![v] = f[v]]
    PROVE  History' /\ Ledger!Next
  <1>1. /\ v \in Versions
        /\ v \in 0 .. Len(f)
        /\ v <= Len(f)
    BY CheckoutType
  <1>2. \A w \in Versions : rows'[w] = IF w <= v THEN f[w] ELSE NULL
    <2> SUFFICES ASSUME NEW w \in Versions
                 PROVE  rows'[w] = IF w <= v THEN f[w] ELSE NULL
      OBVIOUS
    <2>1. w \in Nat /\ v \in Nat
      BY <1>1 DEF Versions
    <2>2. CASE w = v
      BY <1>1, <2>1, <2>2 DEF TypeOK
    <2>3. CASE w # v
      BY <1>1, <2>1, <2>3 DEF TypeOK, Ledger!Begins
    <2> QED
      BY <2>2, <2>3
  <1>3. History'
    BY <1>1, <1>2 DEF History, Ledger!Begins
  <1>4. Ledger!Next
    BY <1>1 DEF Ledger!Next, Ledger!Apply
  <1> QED
    BY <1>3, <1>4

----------------------------------------------------------------------------
\* The invariant holds at the start.
LEMMA InitInv == Init => Inv
  <1> SUFFICES ASSUME Init PROVE Inv
    OBVIOUS
  <1>1. 1 \in Versions
    BY VersionsAssumption DEF Versions
  <1>2. /\ \A p \in Runners : Progress(p)
        /\ \A p \in Runners : Exclusive(p)
        /\ \A p \in Runners : AtFirst(p)
    BY DEF Init, Progress, Exclusive, AtFirst, InLoop
  <1>3. /\ pc \in [Runners -> Active \cup Ended \cup {"idle"}]
        /\ files \in [Runners -> Checkouts \cup {<<>>}]
        /\ saw \in [Runners -> BOOLEAN]
        /\ index \in [Runners -> Versions]
        /\ downs \in 0 .. MaxDowns
    BY <1>1, DownsAssumption DEF Init
  <1>4. CASE /\ tracked = FALSE
             /\ rows = [v \in Versions |-> NULL]
             /\ schema \in {{}, {<<1, Baseline>>}}
    <2>1. TypeOK
      <3>1. schema \subseteq Versions \X Names
        BY <1>1, <1>4, NamesAssumption
      <3> QED
        BY <1>3, <1>4, <3>1 DEF TypeOK
    <2>2. History
      BY <1>4, EmptyHistory
    <2>3. Untracked /\ LedgerMatchesSchema
      BY <1>4 DEF Untracked, LedgerMatchesSchema, Init
    <2> QED
      BY <1>2, <2>1, <2>2, <2>3 DEF Inv
  <1>5. ASSUME NEW f \in Checkouts, NEW n \in 0 .. Len(f), Migrated(f, n)
        PROVE  Inv
    <2>1. /\ DOMAIN f = 1 .. Len(f)
          /\ Len(f) \in Nat
          /\ \A v \in DOMAIN f : v \in Versions /\ f[v] \in Names
      BY CheckoutType
    <2>2. \A v \in 1 .. n : v \in Versions /\ f[v] \in Names
      BY <2>1
    <2>3. /\ tracked = TRUE
          /\ rows = [v \in Versions |-> IF v <= n THEN f[v] ELSE NULL]
          /\ schema = {<<v, f[v]>> : v \in 1 .. n}
      BY <1>5 DEF Migrated
    <2>4. \A v \in Versions : v <= n => v \in 1 .. n
      BY <2>1 DEF Versions
    <2>5. TypeOK
      <3>1. rows \in [Versions -> Names \cup {NULL}]
        BY <2>2, <2>3, <2>4
      <3>2. schema \subseteq Versions \X Names
        BY <2>2, <2>3
      <3> QED
        BY <1>3, <2>3, <3>1, <3>2 DEF TypeOK
    <2>6. History
      BY <2>3 DEF History, Ledger!Begins
    <2>7. Untracked
      BY <2>3 DEF Untracked
    <2>8. LedgerMatchesSchema
      <3> SUFFICES ASSUME NEW v \in Versions, NEW m \in Names
                   PROVE  rows[v] = m <=> <<v, m>> \in schema
        BY <2>3 DEF LedgerMatchesSchema
      <3>1. CASE v <= n
        BY <2>2, <2>3, <2>4, <3>1
      <3>2. CASE ~(v <= n)
        <4>1. rows[v] = NULL
          BY <2>3, <3>2
        <4>2. \A w \in 1 .. n : w # v
          BY <2>1, <3>2
        <4> QED
          BY <2>3, <4>1, <4>2, NamesAssumption
      <3> QED
        BY <3>1, <3>2
    <2> QED
      BY <1>2, <2>5, <2>6, <2>7, <2>8 DEF Inv
  <1> QED
    BY <1>4, <1>5 DEF Init

----------------------------------------------------------------------------

\* A step of one run that leaves the database alone preserves the invariant
\* if the run's own part of it still holds.
LEMMA RunStep ==
    ASSUME Inv, NEW p \in Runners, TypeOK', UNCHANGED <<database, downs>>,
           \A q \in Runners \ {p} : /\ pc'[q] = pc[q]
                                    /\ files'[q] = files[q]
                                    /\ saw'[q] = saw[q]
                                    /\ index'[q] = index[q],
           Progress(p)',
           Exclusive(p)',
           AtFirst(p)',
           pc'[p] = "create" /\ ~tracked /\ downs = 0 => schema = {}
    PROVE  Inv'
  <1>1. UNCHANGED <<schema, tracked, rows, downs>>
    BY DEF database
  <1>2. History'
    BY <1>1 DEF Inv, History, Ledger!Begins
  <1>3. \A q \in Runners : Progress(q)'
    BY <1>1 DEF Inv, Progress
  <1>4. \A q \in Runners : Exclusive(q)'
    BY <1>1 DEF Inv, Exclusive
  <1>5. Untracked'
    BY <1>1 DEF Inv, Untracked
  <1>6. LedgerMatchesSchema'
    BY <1>1 DEF Inv, LedgerMatchesSchema
  <1>7. \A q \in Runners : AtFirst(q)'
    BY DEF Inv, AtFirst
  <1> QED
    BY <1>2, <1>3, <1>4, <1>5, <1>6, <1>7 DEF Inv

\* Going to the next file, past a version that is on record.
LEMMA AdvanceStep ==
    ASSUME TypeOK, NEW p \in Runners, pc[p] \in InLoop, tracked',
           Progress(p), rows'[index[p]] = files[p][index[p]],
           \A v \in 1 .. index[p] - 1 : rows'[v] = rows[v],
           Advance(p), UNCHANGED <<files, saw>>
    PROVE  /\ pc' \in [Runners -> Active \cup Ended \cup {"idle"}]
           /\ index' \in [Runners -> Versions]
           /\ pc'[p] \in {"select", "status"}
           /\ Progress(p)'
           /\ \A q \in Runners \ {p} : pc'[q] = pc[q] /\ index'[q] = index[q]
  <1>1. /\ index[p] \in DOMAIN files[p]
        /\ \A v \in 1 .. index[p] - 1 : rows[v] = files[p][v]
    BY DEF Progress
  <1>2. /\ DOMAIN files[p] = 1 .. Len(files[p])
        /\ Len(files[p]) \in Nat
        /\ DOMAIN files[p] \subseteq Versions
    <2>1. files[p] \in Checkouts \cup {<<>>}
      BY DEF TypeOK
    <2> QED
      BY <2>1, CheckoutType
  <1>3. \A v \in 1 .. index[p] : rows'[v] = files[p][v]
    BY <1>1, <1>2
  <1>4. CASE index[p] < Len(files[p])
    <2>1. /\ pc' = [pc EXCEPT ![p] = "select"]
          /\ index' = [index EXCEPT ![p] = @ + 1]
      BY <1>4 DEF Advance, Goto
    <2>2. index[p] + 1 \in DOMAIN files[p] /\ (index[p] + 1) - 1 = index[p]
      BY <1>1, <1>2, <1>4
    <2>3. index' \in [Runners -> Versions] /\ index'[p] = index[p] + 1
      BY <1>2, <2>1, <2>2 DEF TypeOK
    <2>4. /\ pc'[p] = "select"
          /\ pc' \in [Runners -> Active \cup Ended \cup {"idle"}]
      BY <2>1 DEF TypeOK, Active
    <2>5. Progress(p)'
      BY <1>3, <2>2, <2>3, <2>4 DEF Progress, InLoop
    <2> QED
      BY <2>1, <2>3, <2>4, <2>5 DEF TypeOK
  <1>5. CASE ~(index[p] < Len(files[p]))
    <2>1. pc' = [pc EXCEPT ![p] = "status"] /\ index' = index
      BY <1>5 DEF Advance, Goto
    <2>2. DOMAIN files[p] = 1 .. index[p]
      BY <1>1, <1>2, <1>5
    <2>3. /\ pc'[p] = "status"
          /\ pc' \in [Runners -> Active \cup Ended \cup {"idle"}]
      BY <2>1 DEF TypeOK, Active
    <2>4. Progress(p)'
      BY <1>3, <2>2, <2>3 DEF Progress, InLoop
    <2> QED
      BY <2>1, <2>3, <2>4 DEF TypeOK
  <1> QED
    BY <1>4, <1>5

\* A new run has nothing behind it.
LEMMA StartInv == ASSUME Inv, NEW p \in Runners, Start(p) PROVE Inv'
  <1>1. PICK f \in Checkouts : files' = [files EXCEPT ![p] = f]
    BY DEF Start
  <1>2. /\ pc' = [pc EXCEPT ![p] = "tracking"]
        /\ saw' = [saw EXCEPT ![p] = FALSE]
        /\ index' = [index EXCEPT ![p] = 1]
        /\ UNCHANGED <<database, downs>>
    BY DEF Start, Goto
  <1>3. TypeOK'
    BY <1>1, <1>2, VersionsAssumption
       DEF Inv, TypeOK, database, Active, Versions
  <1>4. Progress(p)' /\ Exclusive(p)'
    BY <1>2 DEF Inv, TypeOK, Progress, Exclusive, InLoop
  <1> QED
    BY <1>1, <1>2, <1>3, <1>4, RunStep DEF Inv, TypeOK, AtFirst

\* The look at the tracking table is right when it is taken.
LEMMA CheckTrackingInv ==
    ASSUME Inv, NEW p \in Runners, CheckTracking(p) PROVE Inv'
  <1>1. /\ pc' = [pc EXCEPT ![p] = "guard"]
        /\ saw' = [saw EXCEPT ![p] = tracked]
        /\ UNCHANGED <<database, files, index, downs>>
    BY DEF CheckTracking, Goto
  <1>2. TypeOK'
    BY <1>1 DEF Inv, TypeOK, database, Active
  <1>3. Progress(p)' /\ Exclusive(p)'
    BY <1>1 DEF Inv, TypeOK, Progress, Exclusive, InLoop, database
  <1>4. AtFirst(p)'
    BY <1>1 DEF Inv, TypeOK, AtFirst, CheckTracking
  <1>5. \A q \in Runners \ {p} : pc'[q] = pc[q] /\ saw'[q] = saw[q]
    BY <1>1 DEF Inv, TypeOK
  <1>6. pc'[p] # "create"
    BY <1>1 DEF Inv, TypeOK
  <1> QED
    BY <1>1, <1>2, <1>3, <1>4, <1>5, <1>6, RunStep

\* The guard lets a run through only if there is a history or no schema.
LEMMA CountCoreInv ==
    ASSUME Inv, NEW p \in Runners, CountCore(p) PROVE Inv'
  <1> DEFINE next == IF ~saw[p] /\ CoreTablesExist THEN "refused" ELSE "create"
  <1>1. /\ pc' = [pc EXCEPT ![p] = next]
        /\ UNCHANGED <<database, files, saw, index, downs>>
    BY DEF CountCore, Goto
  <1>2. TypeOK'
    BY <1>1 DEF Inv, TypeOK, database, Active, Ended
  <1>3. Progress(p)' /\ Exclusive(p)'
    BY <1>1 DEF Inv, TypeOK, Progress, Exclusive, InLoop, database
  <1>4. pc'[p] = "create" /\ ~tracked /\ downs = 0 => schema = {}
    <2> SUFFICES ASSUME pc'[p] = "create", ~tracked, downs = 0
                 PROVE  schema = {}
      OBVIOUS
    <2>1. ~saw[p]
      BY DEF Inv, Progress
    <2>2. next = "create"
      BY <1>1 DEF Inv, TypeOK
    <2>5. ~CoreTablesExist
      BY <2>1, <2>2
    <2>3. schema \subseteq {<<1, Baseline>>}
      BY DEF Inv, Untracked
    <2>4. <<1, Baseline>> \notin schema
      BY <2>5, NamesAssumption DEF CoreTablesExist
    <2> QED
      BY <2>3, <2>4
  <1>5. AtFirst(p)'
    BY <1>1 DEF Inv, TypeOK, AtFirst, CountCore
  <1>6. \A q \in Runners \ {p} : pc'[q] = pc[q]
    BY <1>1 DEF Inv, TypeOK
  <1> QED
    BY <1>1, <1>2, <1>3, <1>4, <1>5, <1>6, RunStep

\* The tracking table is created empty beside an empty schema, or exists.
LEMMA CreateTrackingInv ==
    ASSUME Inv, NEW p \in Runners, CreateTracking(p) PROVE Inv'
  <1>1. /\ pc[p] = "create"
        /\ tracked' = TRUE
        /\ UNCHANGED <<schema, rows, files, saw, index, downs>>
    BY DEF CreateTracking
  <1>2. PICK s \in {"select", "failed"} :
            /\ pc' = [pc EXCEPT ![p] = s]
            /\ s = "select" => files[p] # <<>>
    BY DEF CreateTracking, Goto
  <1>3. TypeOK'
    BY <1>1, <1>2 DEF Inv, TypeOK, Active, Ended
  <1>4. History'
    BY <1>1 DEF Inv, History, Ledger!Begins
  <1>5. \A q \in Runners : Exclusive(q)'
    BY <1>1, <1>2 DEF Inv, TypeOK, Exclusive
  <1>6. \A q \in Runners : Progress(q)'
    <2>1. Progress(p)'
      <3>1. CASE s = "failed"
        BY <1>1, <1>2, <3>1 DEF Inv, TypeOK, Progress, InLoop
      <3>2. CASE s = "select"
        <4>1. index[p] = 1
          BY <1>1 DEF Inv, AtFirst
        <4>2. 1 \in DOMAIN files[p]
          <5>1. files[p] \in Checkouts \cup {<<>>}
            BY DEF Inv, TypeOK
          <5>2. files[p] \in Seq(Names) /\ files[p] # <<>>
            BY <1>2, <3>2, <5>1, CheckoutType
          <5> QED
            BY <5>2
        <4>3. pc'[p] = "select"
          BY <1>2, <3>2 DEF Inv, TypeOK
        <4> QED
          BY <1>1, <4>1, <4>2, <4>3 DEF Progress, InLoop
      <3> QED
        BY <3>1, <3>2
    <2>2. \A q \in Runners \ {p} : Progress(q)'
      BY <1>1, <1>2 DEF Inv, TypeOK, Progress
    <2> QED
      BY <2>1, <2>2
  <1>7. Untracked'
    BY <1>1 DEF Untracked
  <1>8. LedgerMatchesSchema'
    <2>1. CASE tracked
      BY <1>1, <2>1 DEF Inv, LedgerMatchesSchema
    <2>2. CASE ~tracked
      BY <1>1, <2>2, NamesAssumption DEF Inv, Untracked, LedgerMatchesSchema
    <2> QED
      BY <2>1, <2>2
  <1>9. \A q \in Runners : AtFirst(q)'
    BY <1>1, <1>2 DEF Inv, TypeOK, AtFirst
  <1> QED
    BY <1>3, <1>4, <1>5, <1>6, <1>7, <1>8, <1>9 DEF Inv

\* A version on record is skipped only under its own name.
LEMMA SelectNameInv ==
    ASSUME Inv, NEW p \in Runners, SelectName(p) PROVE Inv'
  <1>1. pc[p] = "select" /\ UNCHANGED <<database, files, saw, downs>>
    BY DEF SelectName
  <1>2. CASE Goto(p, "failed") /\ UNCHANGED index
    <2>1. TypeOK'
      BY <1>1, <1>2 DEF Inv, TypeOK, database, Goto, Ended
    <2>2. Progress(p)' /\ Exclusive(p)'
      BY <1>1, <1>2 DEF Inv, TypeOK, Progress, Exclusive, InLoop, database,
                        Goto
    <2> QED
      BY <1>1, <1>2, <2>1, <2>2, RunStep DEF Inv, TypeOK, AtFirst, Goto
  <1>3. CASE Goto(p, "execute") /\ UNCHANGED index
    <2>1. TypeOK'
      BY <1>1, <1>3 DEF Inv, TypeOK, database, Goto, Active
    <2>2. Progress(p)' /\ Exclusive(p)'
      BY <1>1, <1>3 DEF Inv, TypeOK, Progress, Exclusive, InLoop, database,
                        Goto
    <2> QED
      BY <1>1, <1>3, <2>1, <2>2, RunStep DEF Inv, TypeOK, AtFirst, Goto
  <1>4. CASE rows[Version(p)] = Name(p) /\ Advance(p)
    <2>1. /\ pc' \in [Runners -> Active \cup Ended \cup {"idle"}]
          /\ index' \in [Runners -> Versions]
          /\ pc'[p] \in {"select", "status"}
          /\ Progress(p)'
          /\ \A q \in Runners \ {p} : pc'[q] = pc[q] /\ index'[q] = index[q]
      BY <1>1, <1>4, AdvanceStep
         DEF Inv, InLoop, Version, Name, database, Progress
    <2>2. TypeOK'
      BY <1>1, <2>1 DEF Inv, TypeOK, database
    <2>3. Exclusive(p)'
      BY <2>1 DEF Exclusive
    <2> QED
      BY <1>1, <2>1, <2>2, <2>3, RunStep DEF Inv, AtFirst
  <1> QED
    BY <1>1, <1>2, <1>3, <1>4 DEF SelectName

\* An open transaction shuts every other one of its version out.
LEMMA ExecuteInv == ASSUME Inv, NEW p \in Runners, Execute(p) PROVE Inv'
  <1>1. /\ pc[p] = "execute"
        /\ ~Blocked(p)
        /\ rows[index[p]] = NULL
        /\ pc' = [pc EXCEPT ![p] = "commit"]
        /\ UNCHANGED <<database, files, saw, index, downs>>
    BY DEF Execute, Applicable, Goto, Version
  <1>2. TypeOK'
    BY <1>1 DEF Inv, TypeOK, database, Active
  <1>3. Progress(p)'
    BY <1>1 DEF Inv, TypeOK, Progress, InLoop, database
  <1>4. \A q \in Runners \ {p} : pc[q] = "commit" => index[q] # index[p]
    BY <1>1 DEF Blocked, Version
  <1>5. Exclusive(p)'
    BY <1>1, <1>4 DEF Inv, TypeOK, Exclusive, database
  <1> QED
    BY <1>1, <1>2, <1>3, <1>5, RunStep DEF Inv, TypeOK, AtFirst

\* A run that ends, well or badly, leaves the database alone.
LEMMA EndInv ==
    ASSUME Inv, NEW p \in Runners, ExecuteFails(p) \/ Report(p) \/ Abort(p)
    PROVE  Inv'
  <1>1. PICK s \in {"failed", "done"} :
            /\ pc' = [pc EXCEPT ![p] = s]
            /\ s = "done" => pc[p] = "status"
            /\ UNCHANGED <<database, files, saw, index, downs>>
    BY DEF ExecuteFails, Report, Abort, Goto
  <1>2. TypeOK'
    BY <1>1 DEF Inv, TypeOK, database, Ended
  <1>3. Progress(p)' /\ Exclusive(p)'
    BY <1>1 DEF Inv, TypeOK, Progress, Exclusive, InLoop, database
  <1> QED
    BY <1>1, <1>2, <1>3, RunStep DEF Inv, TypeOK, AtFirst

\* A commit writes the next version of the run's checkout, row and objects
\* together.
LEMMA CommitStep ==
    ASSUME Inv, NEW p \in Runners, Commit(p)
    PROVE  Inv' /\ Ledger!Next
  <1> DEFINE v == index[p]
  <1>1. /\ pc[p] = "commit"
        /\ schema' = schema \cup {<<v, files[p][v]>>}
        /\ rows' = [rows EXCEPT ![v] = files[p][v]]
        /\ UNCHANGED <<tracked, files, saw, downs>>
    BY DEF Commit, Version, Name
  <1>2. /\ v \in DOMAIN files[p]
        /\ \A w \in 1 .. v - 1 : rows[w] = files[p][w]
        /\ tracked
        /\ rows[v] = NULL
    BY <1>1 DEF Inv, Progress, Exclusive, InLoop
  <1>3. v \in Versions /\ v \in Nat /\ files[p][v] \in Names
    BY <1>2, NameType DEF Inv, Name, Version
  <1>4. files[p] \in Checkouts
    <2>1. files[p] # <<>>
      BY <1>2
    <2> QED
      BY <2>1 DEF Inv, TypeOK
  <1>5. History' /\ Ledger!Next
    <2>1. Ledger!Begins(files[p], v - 1)
      BY <1>2, <1>4, NextOfHistory DEF Inv
    <2> QED
      BY <1>1, <1>2, <1>4, <2>1, AppliedHistory DEF Inv
  <1>6. /\ rows' \in [Versions -> Names \cup {NULL}]
        /\ rows'[v] = files[p][v]
        /\ \A w \in Versions \ {v} : rows'[w] = rows[w]
    BY <1>1, <1>3 DEF Inv, TypeOK
  <1>7. PICK s \in {"select", "status", "failed"} :
            /\ pc' = [pc EXCEPT ![p] = s]
            /\ s = "failed" => UNCHANGED index
            /\ s # "failed" => Advance(p)
    BY DEF Commit, Advance, Goto
  <1>8. /\ index' \in [Runners -> Versions]
        /\ Progress(p)'
        /\ \A q \in Runners \ {p} : index'[q] = index[q]
    <2>1. CASE s = "failed"
      BY <1>1, <1>2, <1>7, <2>1 DEF Inv, TypeOK, Progress, InLoop
    <2>2. CASE s # "failed"
      <3>1. \A w \in 1 .. index[p] - 1 : rows'[w] = rows[w]
        <4>1. \A w \in 1 .. v - 1 : w \in Versions \ {v}
          BY <1>3, VersionsAssumption DEF Versions
        <4> QED
          BY <1>6, <4>1
      <3> QED
        BY <1>1, <1>2, <1>6, <1>7, <2>2, <3>1, AdvanceStep DEF Inv, InLoop
    <2> QED
      BY <2>1, <2>2
  <1>9. \A q \in Runners \ {p} : pc'[q] = pc[q] /\ pc'[p] = s
    BY <1>7 DEF Inv, TypeOK
  <1>10. ASSUME NEW q \in Runners \ {p} PROVE Progress(q)'
    <2>1. /\ files[q] \in Checkouts \cup {<<>>}
          /\ DOMAIN files[q] \subseteq Versions
          /\ DOMAIN files[q] = 1 .. Len(files[q])
          /\ Len(files[q]) \in Nat
          /\ \A w \in DOMAIN files[q] : files[q][w] \in Names
      <3>1. files[q] \in Checkouts \cup {<<>>}
        BY DEF Inv, TypeOK
      <3> QED
        BY <3>1, CheckoutType
    <2>2. \A w \in DOMAIN files[q] : rows[w] = files[q][w]
                                     => rows'[w] = files[q][w]
      BY <1>2, <1>6, <2>1, NamesAssumption
    <2>3. index[q] \in DOMAIN files[q]
              => \A w \in 1 .. index[q] - 1 : w \in DOMAIN files[q]
      BY <2>1
    <2> QED
      BY <1>1, <1>8, <1>9, <2>2, <2>3 DEF Inv, Progress
  <1>11. \A q \in Runners : Exclusive(q)'
    <2>1. ASSUME NEW q \in Runners \ {p}, pc'[q] = "commit"
          PROVE  /\ rows'[index'[q]] = NULL
                 /\ \A o \in Runners \ {q} : pc'[o] = "commit"
                                             => index'[o] # index'[q]
      <3>1. pc[q] = "commit" /\ index'[q] = index[q] /\ index[q] \in Versions
        BY <1>8, <1>9, <2>1 DEF Inv, TypeOK
      <3>2. index[q] # v /\ rows[index[q]] = NULL
        BY <1>1, <3>1 DEF Inv, Exclusive
      <3>3. pc'[p] # "commit"
        BY <1>7 DEF Inv, TypeOK
      <3> QED
        BY <1>6, <1>8, <1>9, <3>1, <3>2, <3>3 DEF Inv, Exclusive
    <2>2. pc'[p] # "commit"
      BY <1>7 DEF Inv, TypeOK
    <2> QED
      BY <2>1, <2>2 DEF Exclusive
  <1>12. Untracked' /\ \A q \in Runners : AtFirst(q)'
    BY <1>1, <1>2, <1>7, <1>8 DEF Inv, TypeOK, Untracked, AtFirst
  <1>13. LedgerMatchesSchema'
    <2> SUFFICES ASSUME downs = 0, NEW w \in Versions, NEW n \in Names
                 PROVE  rows'[w] = n <=> <<w, n>> \in schema'
      BY <1>1, <1>2 DEF LedgerMatchesSchema
    <2>1. rows[w] = n <=> <<w, n>> \in schema
      BY <1>2 DEF Inv, LedgerMatchesSchema
    <2>2. CASE w = v
      BY <1>1, <1>2, <1>6, <2>1, <2>2, NamesAssumption
    <2>3. CASE w # v
      BY <1>1, <1>6, <2>1, <2>3
    <2> QED
      BY <2>2, <2>3
  <1>14. TypeOK'
    <2>1. schema' \subseteq Versions \X Names
      BY <1>1, <1>3 DEF Inv, TypeOK
    <2>2. pc' \in [Runners -> Active \cup Ended \cup {"idle"}]
      BY <1>7 DEF Inv, TypeOK, Active, Ended
    <2> QED
      BY <1>1, <1>6, <1>8, <2>1, <2>2 DEF Inv, TypeOK
  <1> QED
    BY <1>5, <1>8, <1>10, <1>11, <1>12, <1>13, <1>14 DEF Inv

\* Registering the baseline starts the history of a schema that has none.
LEMMA RegisterBaselineStep ==
    ASSUME Inv, RegisterBaseline
    PROVE  Inv' /\ Ledger!Next
  <1>1. /\ ~tracked
        /\ <<1, Baseline>> \in schema
        /\ tracked' = TRUE
        /\ rows' = [rows EXCEPT ![1] = Baseline]
        /\ UNCHANGED <<schema, runs, downs>>
    BY DEF RegisterBaseline
  <1>2. 1 \in Versions
    BY VersionsAssumption DEF Versions
  <1>3. \A v \in Versions : rows[v] = NULL
    BY <1>1 DEF Inv, Untracked
  <1>4. PICK f \in Checkouts : f # <<>> /\ f[1] = Baseline
    BY CheckoutsAssumption
  <1>5. 1 \in DOMAIN f
    <2>1. f \in Seq(Names)
      BY CheckoutsAssumption
    <2> QED
      BY <1>4, <2>1
  <1>6. History' /\ Ledger!Next
    <2>1. Ledger!Begins(f, 1 - 1)
      BY <1>3 DEF Ledger!Begins, Versions
    <2> QED
      BY <1>1, <1>4, <1>5, <2>1, AppliedHistory DEF Inv
  <1>7. TypeOK'
    BY <1>1, <1>2, NamesAssumption DEF Inv, TypeOK, runs
  <1>8. /\ \A p \in Runners : Progress(p)'
        /\ \A p \in Runners : Exclusive(p)'
        /\ \A p \in Runners : AtFirst(p)'
    BY <1>1 DEF Inv, Progress, Exclusive, AtFirst, InLoop, runs
  <1>9. Untracked'
    BY <1>1 DEF Untracked
  <1>10. LedgerMatchesSchema'
    <2> SUFFICES ASSUME downs = 0, NEW v \in Versions, NEW n \in Names
                 PROVE  rows'[v] = n <=> <<v, n>> \in schema
      BY <1>1 DEF LedgerMatchesSchema
    <2>1. schema = {<<1, Baseline>>}
      BY <1>1 DEF Inv, Untracked
    <2>2. CASE v = 1
      BY <1>1, <1>2, <2>1, <2>2 DEF Inv, TypeOK
    <2>3. CASE v # 1
      BY <1>1, <1>3, <2>1, <2>3, NamesAssumption DEF Inv, TypeOK
    <2> QED
      BY <2>2, <2>3
  <1> QED
    BY <1>6, <1>7, <1>8, <1>9, <1>10 DEF Inv

\* Undoing a migration by hand touches no row.
LEMMA DownInv == ASSUME Inv, Down PROVE Inv'
  <1>1. /\ downs \in Nat
        /\ downs < MaxDowns
        /\ downs' = downs + 1
        /\ schema' \subseteq schema
        /\ UNCHANGED <<tracked, rows, runs>>
    BY DownsAssumption DEF Inv, TypeOK, Down
  <1>2. downs' \in 0 .. MaxDowns /\ downs' # 0
    BY <1>1, DownsAssumption
  <1>3. TypeOK'
    BY <1>1, <1>2 DEF Inv, TypeOK, runs
  <1>4. History'
    BY <1>1 DEF Inv, History, Ledger!Begins
  <1>5. /\ \A p \in Runners : Progress(p)'
        /\ \A p \in Runners : Exclusive(p)'
        /\ \A p \in Runners : AtFirst(p)'
    BY <1>1 DEF Inv, Progress, Exclusive, AtFirst, runs
  <1>6. Untracked' /\ LedgerMatchesSchema'
    BY <1>1, <1>2 DEF Inv, Untracked, LedgerMatchesSchema
  <1> QED
    BY <1>3, <1>4, <1>5, <1>6 DEF Inv

\* Every step preserves the invariant, and writes the history as the ledger
\* allows or not at all.
LEMMA NextStep ==
    ASSUME Inv, [Next]_vars
    PROVE  Inv' /\ [Ledger!Next]_rows
  <1>1. CASE \E p \in Runners : Commit(p)
    BY <1>1, CommitStep
  <1>2. CASE RegisterBaseline
    BY <1>2, RegisterBaselineStep
  <1>3. CASE Down
    BY <1>3, DownInv DEF Down
  <1>4. ASSUME NEW p \in Runners,
               \/ Start(p) \/ CheckTracking(p) \/ CountCore(p)
               \/ CreateTracking(p) \/ SelectName(p) \/ Execute(p)
               \/ ExecuteFails(p) \/ Report(p) \/ Abort(p)
        PROVE  Inv' /\ rows' = rows
    <2>1. Inv'
      BY <1>4, StartInv, CheckTrackingInv, CountCoreInv, CreateTrackingInv,
         SelectNameInv, ExecuteInv, EndInv
    <2>2. rows' = rows
      BY <1>4 DEF Start, CheckTracking, CountCore, CreateTracking, SelectName,
                  Execute, ExecuteFails, Report, Abort, database
    <2> QED
      BY <2>1, <2>2
  <1>5. CASE UNCHANGED vars
    <2>1. UNCHANGED <<schema, tracked, rows, pc, files, saw, index, downs>>
      BY <1>5 DEF vars, database, runs
    <2> QED
      BY <2>1 DEF Inv, TypeOK, History, Ledger!Begins, Progress, Exclusive,
                  AtFirst, Untracked, LedgerMatchesSchema
  <1> QED
    BY <1>1, <1>2, <1>3, <1>4, <1>5 DEF Next, Step

----------------------------------------------------------------------------
\* The inductive invariant holds for any number of runs, of any checkouts.
THEOREM MigrationInvariance == Spec => []Inv
  <1>1. Inv /\ [Next]_vars => Inv'
    BY NextStep
  <1> QED
    BY <1>1, InitInv, PTL DEF Spec

\* The variables keep their types.
THEOREM MigrationTypeCorrect == Spec => []TypeOK
  <1>1. Inv => TypeOK
    BY DEF Inv
  <1> QED
    BY <1>1, MigrationInvariance, PTL

\* History and schema agree while nobody undoes a migration by hand (the
\* transaction and the guard of run-migrations.sh).
THEOREM LedgerAgrees == Spec => []LedgerMatchesSchema
  <1>1. Inv => LedgerMatchesSchema
    BY DEF Inv
  <1> QED
    BY <1>1, MigrationInvariance, PTL

\* A run that reports success has its whole checkout applied and recorded.
THEOREM SuccessIsComplete == Spec => []SuccessMeansSchema
  <1>1. Inv => SuccessMeansSchema
    <2> SUFFICES ASSUME Inv, downs = 0, NEW p \in Runners, pc[p] = "done",
                        NEW v \in DOMAIN files[p]
                 PROVE  /\ rows[v] = files[p][v]
                        /\ <<v, files[p][v]>> \in schema
      BY DEF SuccessMeansSchema
    <2>1. rows[v] = files[p][v] /\ tracked
      BY DEF Inv, Progress
    <2>2. v \in Versions /\ files[p][v] \in Names
      <3>1. files[p] \in Checkouts \cup {<<>>}
        BY DEF Inv, TypeOK
      <3> QED
        BY <3>1, CheckoutType
    <2> QED
      BY <2>1, <2>2 DEF Inv, LedgerMatchesSchema
  <1> QED
    BY <1>1, MigrationInvariance, PTL

\* The runner implements MigrationLedger: the rows are an append-only history
\* of one checkout.
THEOREM LedgerKept == Spec => KeepsLedger
  <1>1. Init => Ledger!Init
    BY InitInv DEF Inv, History, Ledger!Init
  <1>2. Inv /\ [Next]_vars => [Ledger!Next]_rows
    BY NextStep
  <1> QED
    BY <1>1, <1>2, MigrationInvariance, PTL DEF Spec, KeepsLedger, Ledger!Spec
=============================================================================
