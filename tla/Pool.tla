--------------------------------- MODULE Pool ---------------------------------
(***************************************************************************)
(* The handlers of one process and the database connections they share.    *)
(* database.Open gives the process a pool of MaxConns connections; every   *)
(* statement outside a transaction, every transaction and the ping of      *)
(* /readyz takes one and gives it back.  Gateway assumes that each call of *)
(* a handler ends; this module is about why it does.                       *)
(*                                                                         *)
(* call[h] is the repository or provider call the handler is in, with the  *)
(* step names of Gateway; step[h] is where it is in that call:             *)
(*                                                                         *)
(*   ask -> (wait ->) statement -> (rollback ->) next call, or reply       *)
(*   provider -> next call, or reply                                       *)
(*                                                                         *)
(* Handlers are reused: a handler that has replied may serve again.        *)
(* Source: services/governance-api.                                        *)
(***************************************************************************)
EXTENDS Naturals, Sequences, SequencesExt

CONSTANTS
    Handlers,   \* goroutines that may serve a request at the same time
    Conns,      \* slots of the pool (cfg.MaxConns, 5 in the code)
    Inserts,    \* INSERTs of a transaction (2 in the code)
    Entries,    \* bound: first calls of the endpoints that are exercised
    NULL        \* no connection

Transactions == {"create", "record"}

Selects == {"policy", "spend", "decide", "get", "ping"}

Calls == Transactions \cup Selects \cup {"provider"}

ASSUME InsertsAssumption == Inserts \in Nat \ {0}

ASSUME EntriesAssumption == Entries \subseteq {"create", "get", "ping"}

ASSUME NullAssumption == NULL \notin Conns

VARIABLES
    server,  \* "up", "draining", "closing" (the deferred db.Close) or "down"
    call,    \* the call of each handler, or "none"
    step,    \* the step of that call
    left,    \* statements left before the call gives its connection back
    gone,    \* the handler's context is cancelled or past its deadline
    conn,    \* the connection each handler holds, or NULL
    pool,    \* each slot: "closed", "idle", "busy" or "closing"
    open,    \* connections in an open transaction
    queue    \* handlers waiting for a connection, first come first served

handlers    == <<call, step, left, gone>>
connections == <<conn, pool, open>>
vars        == <<server, handlers, connections, queue>>

----------------------------------------------------------------------------
\* Calls

\* BEGIN, the INSERTs and COMMIT; or one statement.
Statements(c) == IF c \in Transactions THEN Inserts + 2 ELSE 1

\* The calls that may follow a call that succeeded; none if the handler may
\* reply.  A request without a cost center skips the budget policy, one
\* without a policy skips the spend, a refusal ends the request.
After == [create   |-> {"policy", "decide", "none"},
          policy   |-> {"spend", "decide"},
          spend    |-> {"decide"},
          decide   |-> {"provider", "none"},
          provider |-> {"record", "none"},
          record   |-> {"none"},
          get      |-> {"none"},
          ping     |-> {"none"}]

Working(h) == step[h] \in {"statement", "rollback"}

\* The handler enters call c, or replies.
Enter(h, c) ==
    /\ call' = [call EXCEPT ![h] = c]
    /\ step' = [step EXCEPT ![h] = CASE c = "none"     -> "reply"
                                     [] c = "provider" -> "provider"
                                     [] OTHER          -> "ask"]
    /\ left' = [left EXCEPT ![h] = 0]
    /\ UNCHANGED gone

Proceed(h) == \E c \in After[call[h]] : Enter(h, c)

\* The call returned an error, and so does every caller up to the handler.
Fail(h) == Enter(h, "none")

----------------------------------------------------------------------------
\* Connections

\* A slot whose connection is being closed is still taken.
Free == {c \in Conns : pool[c] \in {"closed", "idle"}}

\* An idle connection if there is one; else a closed slot, which is dialled.
Candidates == LET idle == {c \in Free : pool[c] = "idle"}
              IN  IF idle = {} THEN Free ELSE idle

Take(h) ==
    /\ \E c \in Candidates : /\ conn' = [conn EXCEPT ![h] = c]
                             /\ pool' = [pool EXCEPT ![c] = "busy"]
    /\ step' = [step EXCEPT ![h] = "statement"]
    /\ left' = [left EXCEPT ![h] = Statements(call[h])]
    /\ UNCHANGED <<server, call, gone, open>>

\* A connection given back is kept, or, if it broke, was interrupted or is past
\* its lifetime, closed in the background; either way nobody has it any more,
\* and it leaves its transaction.
Release(h, states) ==
    /\ \E s \in states : pool' = [pool EXCEPT ![conn[h]] = s]
    /\ open' = open \ {conn[h]}
    /\ conn' = [conn EXCEPT ![h] = NULL]

\* A statement that a cancelled context interrupts closes its connection.
AfterError(h) == IF gone[h] THEN {"closing"} ELSE {"closing", "idle"}

----------------------------------------------------------------------------
\* Steps of a handler

Arrive(h) ==
    /\ server = "up"
    /\ step[h] = "idle"
    /\ \E c \in Entries : Enter(h, c)
    /\ UNCHANGED <<server, connections, queue>>

\* A free connection is taken at once only if nobody waits.
Acquire(h) ==
    /\ step[h] = "ask"
    /\ ~gone[h]
    /\ queue = <<>>
    /\ Take(h)
    /\ UNCHANGED queue

Enqueue(h) ==
    /\ step[h] = "ask"
    /\ ~gone[h]
    /\ queue # <<>> \/ Free = {}
    /\ step' = [step EXCEPT ![h] = "wait"]
    /\ queue' = Append(queue, h)
    /\ UNCHANGED <<server, call, left, gone, connections>>

\* The first waiter gets the connection that another gave back.
Grant(h) ==
    /\ step[h] = "wait"
    /\ ~gone[h]
    /\ Head(queue) = h
    /\ Take(h)
    /\ queue' = Tail(queue)

\* Fault: the waiter stays in the queue.
StaysQueued(h) ==
    /\ step[h] \in {"ask", "wait"}
    /\ gone[h]
    /\ Fail(h)
    /\ UNCHANGED <<server, connections, queue>>

\* A handler whose context ends gives up before it has a connection.
Leave(h) ==
    /\ step[h] \in {"ask", "wait"}
    /\ gone[h]
    /\ Fail(h)
    /\ IF step[h] = "ask" THEN UNCHANGED queue
       ELSE \E i \in DOMAIN queue : /\ queue[i] = h
                                    /\ queue' = RemoveAt(queue, i)
    /\ UNCHANGED <<server, connections>>

\* Fault: the connection is kept until the handler returns.
HoldsUntilReturn(h) ==
    /\ step[h] = "statement"
    /\ ~gone[h]
    /\ IF left[h] > 1
       THEN /\ left' = [left EXCEPT ![h] = @ - 1]
            /\ open' = open \cup {conn[h]}
            /\ UNCHANGED <<call, step, gone, conn, pool>>
       ELSE /\ open' = open \ {conn[h]}
            /\ Proceed(h)
            /\ UNCHANGED <<conn, pool>>
    /\ UNCHANGED <<server, queue>>

\* A statement succeeds.  BEGIN opens the transaction; the last statement of
\* the call gives the connection back.
Statement(h) ==
    /\ step[h] = "statement"
    /\ ~gone[h]
    /\ IF left[h] > 1
       THEN /\ left' = [left EXCEPT ![h] = @ - 1]
            /\ open' = open \cup {conn[h]}
            /\ UNCHANGED <<call, step, gone, conn, pool>>
       ELSE /\ Release(h, {"closing", "idle"})
            /\ Proceed(h)
    /\ UNCHANGED <<server, queue>>

\* An INSERT inside a transaction: only there is a deferred rollback left.
InTransaction(h) == call[h] \in Transactions /\ left[h] \in 2 .. Inserts + 1

\* Fault: nothing is deferred, and a failed INSERT returns with its connection.
NothingDeferred(h) ==
    /\ step[h] = "statement"
    /\ IF InTransaction(h)
       THEN /\ conn' = [conn EXCEPT ![h] = NULL]
            /\ UNCHANGED <<pool, open>>
       ELSE Release(h, AfterError(h))
    /\ Fail(h)
    /\ UNCHANGED <<server, queue>>

\* Fault: a failed INSERT gives the connection back without a rollback.
NoRollback(h) ==
    /\ step[h] = "statement"
    /\ IF InTransaction(h)
       THEN /\ pool' = [pool EXCEPT ![conn[h]] = "idle"]
            /\ conn' = [conn EXCEPT ![h] = NULL]
            /\ UNCHANGED open
       ELSE Release(h, AfterError(h))
    /\ Fail(h)
    /\ UNCHANGED <<server, queue>>

\* Dialling, or a statement, fails.  A failed INSERT leaves the connection to
\* the deferred rollback; BEGIN, COMMIT and a single statement give it back.
StatementFails(h) ==
    /\ step[h] = "statement"
    /\ IF InTransaction(h)
       THEN /\ step' = [step EXCEPT ![h] = "rollback"]
            /\ UNCHANGED <<call, left, gone, connections>>
       ELSE /\ Release(h, AfterError(h))
            /\ Fail(h)
    /\ UNCHANGED <<server, queue>>

\* Fault: the rollback has a context of its own, which nothing cancels.
DetachedRollback(h) ==
    /\ step[h] = "rollback"
    /\ ~gone[h]
    /\ Release(h, AfterError(h))
    /\ Fail(h)
    /\ UNCHANGED <<server, queue>>

\* The deferred rollback, with the context of the request: once that is
\* cancelled the rollback fails and the connection is closed.
Rollback(h) ==
    /\ step[h] = "rollback"
    /\ Release(h, AfterError(h))
    /\ Fail(h)
    /\ UNCHANGED <<server, queue>>

\* The provider call ends, with a completion or an error.
ProviderReturns(h) ==
    /\ step[h] = "provider"
    /\ IF gone[h] THEN Fail(h) ELSE Proceed(h)
    /\ UNCHANGED <<server, connections, queue>>

Reply(h) ==
    /\ step[h] = "reply"
    /\ step' = [step EXCEPT ![h] = "idle"]
    /\ gone' = [gone EXCEPT ![h] = FALSE]
    /\ UNCHANGED <<server, call, left, connections, queue>>

\* net/http cancels the context of a request whose client disconnects.
Disconnect(h) ==
    /\ step[h] # "idle"
    /\ ~gone[h]
    /\ gone' = [gone EXCEPT ![h] = TRUE]
    /\ UNCHANGED <<server, call, step, left, connections, queue>>

\* Fault: the probe waits for the database as long as any request.
NoDeadline(h) == FALSE /\ UNCHANGED vars

\* The two seconds of a readiness probe are over.
Deadline(h) ==
    /\ call[h] = "ping"
    /\ Disconnect(h)

----------------------------------------------------------------------------
\* The process

\* The pool closes a connection that is idle too long or too old.
Reap(c) ==
    /\ pool[c] = "idle"
    /\ pool' = [pool EXCEPT ![c] = "closing"]
    /\ UNCHANGED <<server, handlers, conn, open, queue>>

\* The connection is closed, or the pool stops waiting for that: the slot may
\* be dialled again.
Closed(c) ==
    /\ pool[c] = "closing"
    /\ pool' = [pool EXCEPT ![c] = "closed"]
    /\ UNCHANGED <<server, handlers, conn, open, queue>>

Sigterm ==
    /\ server = "up"
    /\ server' = "draining"
    /\ UNCHANGED <<handlers, connections, queue>>

\* Fault: the server closes without waiting for its handlers.
ClosesAtOnce ==
    /\ server = "draining"
    /\ server' = "closing"
    /\ UNCHANGED <<handlers, connections, queue>>

\* Server.Shutdown returns once no handler is left, and main runs its
\* deferred db.Close.
Drained ==
    /\ server = "draining"
    /\ \A h \in Handlers : step[h] = "idle"
    /\ server' = "closing"
    /\ UNCHANGED <<handlers, connections, queue>>

\* The process ends: nothing it held remains.
Gone ==
    /\ server' = "down"
    /\ call' = [h \in Handlers |-> "none"]
    /\ step' = [h \in Handlers |-> "idle"]
    /\ left' = [h \in Handlers |-> 0]
    /\ gone' = [h \in Handlers |-> FALSE]
    /\ conn' = [h \in Handlers |-> NULL]
    /\ pool' = [c \in Conns |-> "closed"]
    /\ open' = {}
    /\ queue' = <<>>

\* db.Close waits for every connection that is out or being closed.
Close ==
    /\ server = "closing"
    /\ Free = Conns
    /\ Gone

\* Fault: the graceful shutdown has no deadline.
NoShutdownDeadline == FALSE /\ UNCHANGED vars

\* os.Exit(1) when the ten seconds of Server.Shutdown are over: the deferred
\* db.Close does not run.
ShutdownDeadline ==
    /\ server = "draining"
    /\ Gone

Crash ==
    /\ server # "down"
    /\ Gone

\* The pool is opened without a connection (MinConns is 0).
Restart ==
    /\ server = "down"
    /\ server' = "up"
    /\ UNCHANGED <<handlers, connections, queue>>

----------------------------------------------------------------------------
Init ==
    /\ server = "up"
    /\ call = [h \in Handlers |-> "none"]
    /\ step = [h \in Handlers |-> "idle"]
    /\ left = [h \in Handlers |-> 0]
    /\ gone = [h \in Handlers |-> FALSE]
    /\ conn = [h \in Handlers |-> NULL]
    /\ pool = [c \in Conns |-> "closed"]
    /\ open = {}
    /\ queue = <<>>

\* What the handler does without the database or the provider.
Run(h) == \/ Acquire(h)
          \/ Enqueue(h)
          \/ Grant(h)
          \/ Leave(h)
          \/ Reply(h)

\* What the handler waits for the database or the provider to do.
Remote(h) == \/ Statement(h)
             \/ StatementFails(h)
             \/ Rollback(h)
             \/ ProviderReturns(h)

Process == \/ Sigterm
           \/ Drained
           \/ Close
           \/ ShutdownDeadline
           \/ Crash
           \/ Restart
           \/ \E c \in Conns : Reap(c) \/ Closed(c)

Next == \/ \E h \in Handlers : \/ Arrive(h)
                               \/ Run(h)
                               \/ Remote(h)
                               \/ Disconnect(h)
                               \/ Deadline(h)
        \/ Process

Spec == Init /\ [][Next]_vars

\* Go schedules every runnable goroutine and its timers expire; a cancelled
\* context ends the statement or the provider call that is under way, and the
\* pool gives a connection 15 s to close.  The database and the provider
\* themselves promise nothing.
Interrupted(h) == gone[h] /\ Remote(h)

FairSpec ==
    /\ Spec
    /\ \A h \in Handlers : /\ WF_vars(Run(h))
                           /\ WF_vars(Interrupted(h))
                           /\ WF_vars(Deadline(h))
    /\ \A c \in Conns : WF_vars(Closed(c))
    /\ WF_vars(Drained)
    /\ WF_vars(Close)
    /\ WF_vars(ShutdownDeadline)

\* The database and the provider end every call, with a result or an error
\* (see Fairness of Gateway).
Responsive == \A h \in Handlers : WF_vars(Remote(h))

----------------------------------------------------------------------------
\* Properties

\* The variables keep their types (a part of the invariant of PoolProofs).
TypeOK ==
    /\ server \in {"up", "draining", "closing", "down"}
    /\ call \in [Handlers -> Calls \cup {"none"}]
    /\ step \in [Handlers -> {"idle", "ask", "wait", "statement", "rollback",
                              "provider", "reply"}]
    /\ left \in [Handlers -> 0 .. Inserts + 2]
    /\ gone \in [Handlers -> BOOLEAN]
    /\ conn \in [Handlers -> Conns \cup {NULL}]
    /\ pool \in [Conns -> {"closed", "idle", "busy", "closing"}]
    /\ open \subseteq Conns
    /\ queue \in Seq(Handlers)

\* A connection is busy exactly while one handler has it: none is
\* lost on an error path or handed to two handlers, and none goes back to the
\* pool, or stays open, in the middle of a transaction (the deferred Rollback
\* of the three repositories, which also runs after every failed INSERT).
PoolAccounted ==
    /\ \A c \in Conns : pool[c] = "busy" <=> \E h \in Handlers : conn[h] = c
    /\ \A g, h \in Handlers : g # h /\ conn[g] # NULL => conn[g] # conn[h]
    /\ \A c \in open : pool[c] = "busy"

\* Only a handler in the middle of a statement or a rollback has a connection:
\* none is held while its handler waits for another connection, at the
\* provider for up to three minutes, or while it answers.  This is what keeps
\* five connections from deadlocking or starving the handlers (Invoke calls
\* one repository after the other, never one inside the other's transaction).
HoldersWork == \A h \in Handlers : conn[h] # NULL <=> Working(h)

\* The queue is exactly the set of handlers that wait, each once: a handler
\* that gave up leaves no place behind that a connection could be granted to.
QueueAccurate ==
    /\ \A h \in Handlers : step[h] = "wait" <=> h \in ToSet(queue)
    /\ \A i, j \in DOMAIN queue : queue[i] = queue[j] => i = j

\* When main reaches its deferred db.Close no handler has a connection: Close
\* waits at most for those that are being closed, never behind a handler
\* (main.go, Server.Shutdown first).
CloseFindsNoHolder ==
    server = "closing" => \A c \in Conns : pool[c] # "busy"

\* If the database and the provider respond, every request ends although all
\* share the pool: nobody waits for a connection forever and a request that
\* was granted one finishes with it.  Gateway assumes this of its handlers.
RequestsFinish ==
    Responsive => \A h \in Handlers : step[h] = "ask" ~> step[h] = "idle"

\* A readiness probe ends even if the database hangs and every connection is
\* out: its deadline reaches it in the queue as well as in the ping (readyz).
ProbesEnd == \A h \in Handlers : call[h] = "ping" ~> step[h] = "idle"

\* A handler whose client left ends even if the database or the provider hangs
\* (the request context is passed to every call, the rollback included).
AbandonedFinish == \A h \in Handlers : gone[h] ~> ~gone[h]

\* The pool recovers from a database that hangs: a slot that a handler has when
\* its client leaves can be used again, through the interrupted statement, the
\* rollback and the closing of the connection, with no help of the database
\* (the deferred rollbacks of the repositories, the context they get).
AbandonedSlotsReturn ==
    \A c \in Conns :
        (\E h \in Handlers : conn[h] = c /\ gone[h]) ~> c \in Free

\* A shutdown ends even if the database hangs: within the ten seconds, or by
\* os.Exit; and db.Close, which has no deadline, does not block (main.go).
ShutdownEnds == server = "draining" ~> server = "down"
=============================================================================
