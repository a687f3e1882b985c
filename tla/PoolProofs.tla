------------------------------ MODULE PoolProofs ------------------------------
(***************************************************************************)
(* Theorems about Pool for every number of handlers and connections.       *)
(***************************************************************************)
EXTENDS Pool, SequenceTheorems, TLAPS

----------------------------------------------------------------------------
\* The inductive invariant

\* A handler on its way through a call is in one.
InCall(h) == step[h] \in {"ask", "wait", "statement", "rollback", "provider"}
             => call[h] # "none"

\* Once Server.Shutdown has returned, no handler is left.
Drain == server \in {"closing", "down"} => \A h \in Handlers : step[h] = "idle"

Inv == /\ TypeOK
       /\ PoolAccounted
       /\ HoldersWork
       /\ QueueAccurate
       /\ \A h \in Handlers : InCall(h)
       /\ Drain

----------------------------------------------------------------------------
\* Handlers

\* Every successor of a call is a call, or the reply.
LEMMA AfterType ==
    ASSUME NEW c \in Calls
    PROVE  After[c] \subseteq Calls \cup {"none"}
  BY DEF After, Calls, Transactions, Selects

\* Entering a call changes one handler, which asks, calls the provider or
\* replies.
LEMMA EnterStep ==
    ASSUME TypeOK, NEW h \in Handlers, NEW c \in Calls \cup {"none"},
           Enter(h, c)
    PROVE  /\ call' \in [Handlers -> Calls \cup {"none"}]
           /\ left' \in [Handlers -> 0 .. Inserts + 2]
           /\ gone' \in [Handlers -> BOOLEAN]
           /\ \E s \in {"ask", "provider", "reply"} :
                 step' = [step EXCEPT ![h] = s]
           /\ (\A g \in Handlers : InCall(g)) => \A g \in Handlers : InCall(g)'
  <1> DEFINE s == CASE c = "none"     -> "reply"
                    [] c = "provider" -> "provider"
                    [] OTHER          -> "ask"
  <1>1. step' = [step EXCEPT ![h] = s] /\ call' = [call EXCEPT ![h] = c]
    BY DEF Enter
  <1>2. s \in {"ask", "provider", "reply"}
    OBVIOUS
  <1>3. s # "reply" => c # "none"
    OBVIOUS
  <1>4. /\ call' \in [Handlers -> Calls \cup {"none"}]
        /\ gone' \in [Handlers -> BOOLEAN]
    BY DEF TypeOK, Enter
  <1>5. left' \in [Handlers -> 0 .. Inserts + 2]
    BY InsertsAssumption DEF TypeOK, Enter
  <1>6. (\A g \in Handlers : InCall(g)) => \A g \in Handlers : InCall(g)'
    <2> HIDE DEF s
    <2> QED
      BY <1>1, <1>2, <1>3 DEF InCall, TypeOK
  <1> HIDE DEF s
  <1> QED
    BY <1>1, <1>2, <1>4, <1>5, <1>6

\* A call that succeeds or fails ends with Enter.
LEMMA EndsInEnter ==
    ASSUME TypeOK, NEW h \in Handlers, InCall(h),
           step[h] \in {"ask", "wait", "statement", "rollback", "provider"},
           Proceed(h) \/ Fail(h)
    PROVE  \E c \in Calls \cup {"none"} : Enter(h, c)
  <1>1. call[h] \in Calls
    BY DEF TypeOK, InCall
  <1> QED
    BY <1>1, AfterType DEF Proceed, Fail

----------------------------------------------------------------------------
\* Connections

\* What is left alone stays accounted for, as long as no handler starts or
\* stops working.
LEMMA ConnectionsKept ==
    ASSUME PoolAccounted, HoldersWork, UNCHANGED connections,
           \A g \in Handlers : Working(g)' <=> Working(g)
    PROVE  PoolAccounted' /\ HoldersWork'
  BY DEF PoolAccounted, HoldersWork, connections

\* Taking a free slot makes the handler its only owner.
LEMMA TakeStep ==
    ASSUME TypeOK, PoolAccounted, HoldersWork, NEW h \in Handlers,
           step[h] \in {"ask", "wait"}, Take(h)
    PROVE  /\ conn' \in [Handlers -> Conns \cup {NULL}]
           /\ pool' \in [Conns -> {"closed", "idle", "busy", "closing"}]
           /\ open' \subseteq Conns
           /\ PoolAccounted'
           /\ HoldersWork'
  <1>1. PICK c \in Candidates : /\ conn' = [conn EXCEPT ![h] = c]
                                /\ pool' = [pool EXCEPT ![c] = "busy"]
    BY DEF Take
  <1>2. c \in Conns /\ pool[c] # "busy"
    BY DEF Candidates, Free
  <1>3. conn[h] = NULL
    BY DEF HoldersWork, Working
  <1>4. open' = open
    BY DEF Take
  <1>5. step' = [step EXCEPT ![h] = "statement"]
    BY DEF Take
  <1>6. HoldersWork'
    BY <1>1, <1>2, <1>5, NullAssumption DEF HoldersWork, Working, TypeOK
  <1>7. PoolAccounted'
    <2>1. \A d \in Conns : pool'[d] = "busy"
                           <=> \E g \in Handlers : conn'[g] = d
      BY <1>1, <1>2, <1>3, NullAssumption DEF PoolAccounted, TypeOK
    <2>2. \A f, g \in Handlers : f # g /\ conn'[f] # NULL => conn'[f] # conn'[g]
      BY <1>1, <1>2, <1>3 DEF PoolAccounted, TypeOK
    <2>3. \A d \in open' : pool'[d] = "busy"
      BY <1>1, <1>2, <1>4 DEF PoolAccounted, TypeOK
    <2> QED
      BY <2>1, <2>2, <2>3 DEF PoolAccounted
  <1> QED
    BY <1>1, <1>2, <1>4, <1>6, <1>7 DEF TypeOK

\* Giving a connection back leaves it without owner and outside any
\* transaction.
LEMMA ReleaseStep ==
    ASSUME TypeOK, PoolAccounted, HoldersWork, NEW h \in Handlers,
           NEW states \in SUBSET {"closing", "idle"}, NEW s,
           Working(h), Release(h, states),
           step' = [step EXCEPT ![h] = s], s \notin {"statement", "rollback"}
    PROVE  /\ conn' \in [Handlers -> Conns \cup {NULL}]
           /\ pool' \in [Conns -> {"closed", "idle", "busy", "closing"}]
           /\ open' \subseteq Conns
           /\ PoolAccounted'
           /\ HoldersWork'
  <1>1. conn[h] \in Conns
    BY DEF HoldersWork, TypeOK
  <1>2. PICK t \in {"closing", "idle"} : pool' = [pool EXCEPT ![conn[h]] = t]
    BY DEF Release
  <1>3. conn' = [conn EXCEPT ![h] = NULL] /\ open' = open \ {conn[h]}
    BY DEF Release
  <1>4. HoldersWork'
    BY <1>3 DEF HoldersWork, Working, TypeOK
  <1>5. PoolAccounted'
    <2>1. \A d \in Conns : pool'[d] = "busy"
                           <=> \E g \in Handlers : conn'[g] = d
      BY <1>1, <1>2, <1>3, NullAssumption DEF PoolAccounted, TypeOK
    <2>2. \A f, g \in Handlers : f # g /\ conn'[f] # NULL => conn'[f] # conn'[g]
      BY <1>1, <1>3 DEF PoolAccounted, TypeOK
    <2>3. \A d \in open' : pool'[d] = "busy"
      BY <1>1, <1>2, <1>3 DEF PoolAccounted, TypeOK
    <2> QED
      BY <2>1, <2>2, <2>3 DEF PoolAccounted
  <1> QED
    BY <1>1, <1>2, <1>3, <1>4, <1>5 DEF TypeOK

----------------------------------------------------------------------------
\* The queue

\* The queue is right as long as nobody starts or stops waiting.
LEMMA QueueKept ==
    ASSUME QueueAccurate, UNCHANGED queue,
           \A g \in Handlers : step'[g] = "wait" <=> step[g] = "wait"
    PROVE  QueueAccurate'
  BY DEF QueueAccurate

\* A waiter has a place in the queue.
LEMMA WaiterQueued ==
    ASSUME TypeOK, QueueAccurate, NEW h \in Handlers, step[h] = "wait"
    PROVE  \E i \in 1 .. Len(queue) : queue[i] = h
  <1>1. DOMAIN queue = 1 .. Len(queue)
    BY DEF TypeOK
  <1>2. h \in ToSet(queue)
    BY DEF QueueAccurate
  <1> QED
    BY <1>1, <1>2 DEF ToSet

\* Removing one place closes the gap behind it.
LEMMA RemoveAtPlaces ==
    ASSUME NEW S, NEW q \in Seq(S), NEW i \in 1 .. Len(q)
    PROVE  /\ RemoveAt(q, i) \in Seq(S)
           /\ Len(RemoveAt(q, i)) = Len(q) - 1
           /\ \A j \in 1 .. Len(q) - 1 :
                 RemoveAt(q, i)[j] = IF j < i THEN q[j] ELSE q[j + 1]
  <1> DEFINE front == SubSeq(q, 1, i - 1)
             back  == SubSeq(q, i + 1, Len(q))
  <1>1. /\ front \in Seq(S)
        /\ Len(front) = i - 1
        /\ \A j \in 1 .. i - 1 : front[j] = q[j]
    BY SubSeqProperties
  <1>2. /\ back \in Seq(S)
        /\ Len(back) = Len(q) - i
        /\ \A j \in 1 .. Len(q) - i : back[j] = q[i + j]
    BY SubSeqProperties
  <1>3. RemoveAt(q, i) = front \o back
    BY DEF RemoveAt
  <1> HIDE DEF front, back
  <1>4. front \o back \in Seq(S) /\ Len(front \o back) = Len(q) - 1
    <2>1. /\ front \o back \in Seq(S)
          /\ Len(front \o back) = Len(front) + Len(back)
      BY <1>1, <1>2, ConcatProperties
    <2> QED
      BY <1>1, <1>2, <2>1
  <1>5. ASSUME NEW j \in 1 .. Len(q) - 1
        PROVE  (front \o back)[j] = IF j < i THEN q[j] ELSE q[j + 1]
    <2>1. (front \o back)[j] = IF j <= Len(front) THEN front[j]
                              ELSE back[j - Len(front)]
      BY <1>1, <1>2, ConcatProperties
    <2>2. CASE j < i
      BY <1>1, <2>1, <2>2
    <2>3. CASE ~(j < i)
      <3>1. /\ ~(j <= Len(front))
            /\ j - Len(front) \in 1 .. Len(q) - i
            /\ i + (j - Len(front)) = j + 1
        BY <1>1, <2>3
      <3> QED
        BY <1>2, <2>1, <2>3, <3>1
    <2> QED
      BY <2>2, <2>3
  <1> QED
    BY <1>3, <1>4, <1>5

\* A queue without one of its places is right once that handler no longer
\* waits.
LEMMA QueueRemoved ==
    ASSUME TypeOK, QueueAccurate, NEW h \in Handlers,
           NEW i \in 1 .. Len(queue), queue[i] = h,
           queue' = RemoveAt(queue, i),
           NEW s, s # "wait", step' = [step EXCEPT ![h] = s]
    PROVE  queue' \in Seq(Handlers) /\ QueueAccurate'
  <1>1. /\ queue \in Seq(Handlers)
        /\ DOMAIN queue = 1 .. Len(queue)
        /\ Len(queue) \in Nat
    BY DEF TypeOK
  <1>2. /\ queue' \in Seq(Handlers)
        /\ Len(queue') = Len(queue) - 1
        /\ \A j \in 1 .. Len(queue) - 1 :
              queue'[j] = IF j < i THEN queue[j] ELSE queue[j + 1]
    BY <1>1, RemoveAtPlaces
  <1>3. DOMAIN queue' = 1 .. Len(queue) - 1
    BY <1>2
  <1>4. \A j \in 1 .. Len(queue) : queue[j] = h => j = i
    BY <1>1 DEF QueueAccurate
  <1>5. \A g \in Handlers : (step'[g] = "wait") <=> (g # h /\ step[g] = "wait")
    BY DEF TypeOK
  <1>6. \A g \in Handlers : (\E j \in 1 .. Len(queue) - 1 : queue'[j] = g)
                <=> (g # h /\ \E j \in 1 .. Len(queue) : queue[j] = g)
    <2> SUFFICES ASSUME NEW g \in Handlers
                 PROVE  (\E j \in 1 .. Len(queue) - 1 : queue'[j] = g)
                        <=> (g # h /\ \E j \in 1 .. Len(queue) : queue[j] = g)
      OBVIOUS
    <2>1. ASSUME NEW j \in 1 .. Len(queue) - 1, queue'[j] = g
          PROVE  g # h /\ \E k \in 1 .. Len(queue) : queue[k] = g
      <3>1. CASE j < i
        BY <1>1, <1>2, <1>4, <2>1, <3>1
      <3>2. CASE ~(j < i)
        <4>1. queue[j + 1] = g /\ j + 1 \in 1 .. Len(queue) /\ j + 1 # i
          BY <1>1, <1>2, <2>1, <3>2
        <4> QED
          BY <1>4, <4>1
      <3> QED
        BY <3>1, <3>2
    <2>2. ASSUME g # h, NEW k \in 1 .. Len(queue), queue[k] = g
          PROVE  \E j \in 1 .. Len(queue) - 1 : queue'[j] = g
      <3>1. k # i
        BY <2>2
      <3>2. CASE k < i
        BY <1>1, <1>2, <2>2, <3>2
      <3>3. CASE k > i
        <4>1. k - 1 \in 1 .. Len(queue) - 1 /\ queue'[k - 1] = g
          BY <1>1, <1>2, <2>2, <3>3
        <4> QED
          BY <4>1
      <3> QED
        BY <1>1, <3>1, <3>2, <3>3
    <2> QED
      BY <2>1, <2>2
  <1>7. \A g \in Handlers : step'[g] = "wait" <=> g \in ToSet(queue')
    <2>1. \A g \in Handlers : g \in ToSet(queue)
                              <=> \E j \in 1 .. Len(queue) : queue[j] = g
      BY <1>1 DEF ToSet
    <2>2. \A g \in Handlers : g \in ToSet(queue')
                              <=> \E j \in 1 .. Len(queue) - 1 : queue'[j] = g
      BY <1>3 DEF ToSet
    <2>3. \A g \in Handlers : step[g] = "wait" <=> g \in ToSet(queue)
      BY DEF QueueAccurate
    <2> QED
      BY <1>5, <1>6, <2>1, <2>2, <2>3
  <1>8. \A j, k \in DOMAIN queue' : queue'[j] = queue'[k] => j = k
    <2> SUFFICES ASSUME NEW j \in 1 .. Len(queue) - 1,
                        NEW k \in 1 .. Len(queue) - 1, queue'[j] = queue'[k]
                 PROVE  j = k
      BY <1>3
    <2> DEFINE from(n) == IF n < i THEN n ELSE n + 1
    <2>1. from(j) \in DOMAIN queue /\ from(k) \in DOMAIN queue
      BY <1>1
    <2>2. queue[from(j)] = queue[from(k)]
      BY <1>2
    <2>3. from(j) = from(k)
      BY <2>1, <2>2 DEF QueueAccurate
    <2> QED
      BY <1>1, <2>3
  <1> QED
    BY <1>2, <1>7, <1>8 DEF QueueAccurate

----------------------------------------------------------------------------
\* The invariant holds at the start.
LEMMA InitInv == Init => Inv
  <1> SUFFICES ASSUME Init PROVE Inv
    OBVIOUS
  <1>1. TypeOK
    BY InsertsAssumption DEF Init, TypeOK
  <1>2. PoolAccounted /\ HoldersWork
    BY NullAssumption DEF Init, PoolAccounted, HoldersWork, Working
  <1>3. QueueAccurate
    BY DEF Init, QueueAccurate, ToSet
  <1>4. (\A h \in Handlers : InCall(h)) /\ Drain
    BY DEF Init, InCall, Drain
  <1> QED
    BY <1>1, <1>2, <1>3, <1>4 DEF Inv

\* A handler in a call does not outlive Server.Shutdown, so its steps leave
\* Drain as it is.
LEMMA DrainKept ==
    ASSUME Inv, NEW h \in Handlers, step[h] # "idle", server' = server
    PROVE  Drain'
  BY DEF Inv, Drain

\* A new request starts in a first call and holds nothing.
LEMMA ArriveInv == ASSUME Inv, NEW h \in Handlers, Arrive(h) PROVE Inv'
  <1>1. PICK c \in Entries : Enter(h, c)
    BY DEF Arrive
  <1>2. c \in Calls \cup {"none"}
    BY EntriesAssumption DEF Calls, Transactions, Selects
  <1>3. PICK s \in {"ask", "provider", "reply"} : step' = [step EXCEPT ![h] = s]
    BY <1>1, <1>2, EnterStep DEF Inv
  <1>4. TypeOK'
    BY <1>1, <1>2, <1>3, EnterStep DEF Inv, TypeOK, Arrive, connections
  <1>5. PoolAccounted' /\ HoldersWork'
    <2>1. \A g \in Handlers : Working(g)' <=> Working(g)
      BY <1>3 DEF Inv, TypeOK, Arrive, Working
    <2> QED
      BY <2>1, ConnectionsKept DEF Inv, Arrive
  <1>6. QueueAccurate'
    BY <1>3, QueueKept DEF Inv, TypeOK, Arrive
  <1>7. \A g \in Handlers : InCall(g)'
    BY <1>1, <1>2, EnterStep DEF Inv
  <1>8. Drain'
    BY DEF Arrive, Drain
  <1> QED
    BY <1>4, <1>5, <1>6, <1>7, <1>8 DEF Inv

\* A connection taken at once has one owner.
LEMMA AcquireInv == ASSUME Inv, NEW h \in Handlers, Acquire(h) PROVE Inv'
  <1>1. step[h] = "ask" /\ Take(h) /\ queue' = queue
    BY DEF Acquire
  <1>2. step' = [step EXCEPT ![h] = "statement"]
    BY <1>1 DEF Take
  <1>3. TypeOK' /\ PoolAccounted' /\ HoldersWork'
    <2>1. left' \in [Handlers -> 0 .. Inserts + 2]
      BY <1>1, InsertsAssumption DEF Inv, TypeOK, Take, Statements
    <2>2. /\ conn' \in [Handlers -> Conns \cup {NULL}]
          /\ pool' \in [Conns -> {"closed", "idle", "busy", "closing"}]
          /\ open' \subseteq Conns
          /\ PoolAccounted'
          /\ HoldersWork'
      BY <1>1, TakeStep DEF Inv
    <2>3. UNCHANGED <<server, call, gone>>
      BY <1>1 DEF Take
    <2> QED
      BY <1>1, <1>2, <2>1, <2>2, <2>3 DEF Inv, TypeOK
  <1>4. QueueAccurate'
    BY <1>1, <1>2, QueueKept DEF Inv, TypeOK
  <1>5. \A g \in Handlers : InCall(g)'
    BY <1>1, <1>2 DEF Inv, TypeOK, InCall, Take
  <1>6. Drain'
    BY <1>1, DrainKept DEF Take
  <1> QED
    BY <1>3, <1>4, <1>5, <1>6 DEF Inv

\* A handler that finds no connection gets the last place in the queue.
LEMMA EnqueueInv == ASSUME Inv, NEW h \in Handlers, Enqueue(h) PROVE Inv'
  <1>1. /\ step[h] = "ask"
        /\ step' = [step EXCEPT ![h] = "wait"]
        /\ queue' = Append(queue, h)
        /\ UNCHANGED <<server, call, left, gone, connections>>
    BY DEF Enqueue
  <1>2. /\ queue \in Seq(Handlers)
        /\ DOMAIN queue = 1 .. Len(queue)
        /\ Len(queue) \in Nat
    BY DEF Inv, TypeOK
  <1>3. /\ queue' \in Seq(Handlers)
        /\ DOMAIN queue' = 1 .. Len(queue) + 1
        /\ \A i \in 1 .. Len(queue) : queue'[i] = queue[i]
        /\ queue'[Len(queue) + 1] = h
    BY <1>1, <1>2, AppendProperties
  <1>4. TypeOK'
    BY <1>1, <1>3 DEF Inv, TypeOK, connections
  <1>5. PoolAccounted' /\ HoldersWork'
    <2>1. \A g \in Handlers : Working(g)' <=> Working(g)
      BY <1>1 DEF Inv, TypeOK, Working
    <2> QED
      BY <1>1, <2>1, ConnectionsKept DEF Inv
  <1>6. QueueAccurate'
    <2>1. \A g \in Handlers : step[g] = "wait"
                              <=> \E i \in 1 .. Len(queue) : queue[i] = g
      BY <1>2 DEF Inv, QueueAccurate, ToSet
    <2>2. \A g \in Handlers : step'[g] = "wait" <=> (g = h \/ step[g] = "wait")
      BY <1>1 DEF Inv, TypeOK
    <2>3. \A g \in Handlers : (\E i \in 1 .. Len(queue) + 1 : queue'[i] = g)
              <=> (g = h \/ \E i \in 1 .. Len(queue) : queue[i] = g)
      BY <1>2, <1>3
    <2>4. \A g \in Handlers : step'[g] = "wait" <=> g \in ToSet(queue')
      BY <1>3, <2>1, <2>2, <2>3 DEF ToSet
    <2>5. \A i \in 1 .. Len(queue) : queue[i] # h
      BY <1>1, <2>1
    <2>6. \A i, j \in 1 .. Len(queue) : queue[i] = queue[j] => i = j
      BY <1>2 DEF Inv, QueueAccurate
    <2>7. \A i, j \in DOMAIN queue' : queue'[i] = queue'[j] => i = j
      BY <1>2, <1>3, <2>5, <2>6
    <2> QED
      BY <2>4, <2>7 DEF QueueAccurate
  <1>7. \A g \in Handlers : InCall(g)'
    BY <1>1 DEF Inv, TypeOK, InCall
  <1>8. Drain'
    BY <1>1, DrainKept
  <1> QED
    BY <1>4, <1>5, <1>6, <1>7, <1>8 DEF Inv

\* The first waiter leaves the queue with its connection.
LEMMA GrantInv == ASSUME Inv, NEW h \in Handlers, Grant(h) PROVE Inv'
  <1>1. step[h] = "wait" /\ Head(queue) = h /\ Take(h) /\ queue' = Tail(queue)
    BY DEF Grant
  <1>2. step' = [step EXCEPT ![h] = "statement"]
    BY <1>1 DEF Take
  <1>3. queue \in Seq(Handlers) /\ Len(queue) \in Nat \ {0}
    <2>1. \E i \in 1 .. Len(queue) : queue[i] = h
      BY <1>1, WaiterQueued DEF Inv
    <2> QED
      BY <2>1 DEF Inv, TypeOK
  <1>4. queue' = RemoveAt(queue, 1) /\ queue[1] = h
    <2>1. Tail(queue) = SubSeq(queue, 2, Len(queue))
      BY <1>3, TailIsSubSeq
    <2>2. SubSeq(queue, 1, 0) = << >>
      BY <1>3, SubSeqEmpty
    <2>3. << >> \o SubSeq(queue, 2, Len(queue)) = SubSeq(queue, 2, Len(queue))
      BY <1>3, SubSeqProperties, ConcatEmptySeq
    <2>4. RemoveAt(queue, 1)
              = SubSeq(queue, 1, 0) \o SubSeq(queue, 2, Len(queue))
      <3>1. 1 - 1 = 0 /\ 1 + 1 = 2
        OBVIOUS
      <3> QED
        BY <3>1 DEF RemoveAt
    <2>5. queue[1] = h
      BY <1>1, <1>3, HeadTailProperties
    <2> QED
      BY <1>1, <2>1, <2>2, <2>3, <2>4, <2>5
  <1>5. queue' \in Seq(Handlers) /\ QueueAccurate'
    <2>1. 1 \in 1 .. Len(queue)
      BY <1>3
    <2>2. "statement" # "wait"
      OBVIOUS
    <2> QED
      BY <1>2, <1>4, <2>1, <2>2, QueueRemoved DEF Inv
  <1>6. TypeOK' /\ PoolAccounted' /\ HoldersWork'
    <2>1. left' \in [Handlers -> 0 .. Inserts + 2]
      BY <1>1, InsertsAssumption DEF Inv, TypeOK, Take, Statements
    <2>2. /\ conn' \in [Handlers -> Conns \cup {NULL}]
          /\ pool' \in [Conns -> {"closed", "idle", "busy", "closing"}]
          /\ open' \subseteq Conns
          /\ PoolAccounted'
          /\ HoldersWork'
      BY <1>1, TakeStep DEF Inv
    <2>3. UNCHANGED <<server, call, gone>>
      BY <1>1 DEF Take
    <2> QED
      BY <1>2, <1>5, <2>1, <2>2, <2>3 DEF Inv, TypeOK
  <1>7. \A g \in Handlers : InCall(g)'
    BY <1>1, <1>2 DEF Inv, TypeOK, InCall, Take
  <1>8. Drain'
    BY <1>1, DrainKept DEF Take
  <1> QED
    BY <1>5, <1>6, <1>7, <1>8 DEF Inv

\* A handler that gives up leaves the queue empty-handed.
LEMMA LeaveInv == ASSUME Inv, NEW h \in Handlers, Leave(h) PROVE Inv'
  <1>1. /\ step[h] \in {"ask", "wait"}
        /\ Enter(h, "none")
        /\ UNCHANGED <<server, connections>>
    BY DEF Leave, Fail
  <1>2. step' = [step EXCEPT ![h] = "reply"]
    BY <1>1 DEF Enter
  <1>3. queue' \in Seq(Handlers) /\ QueueAccurate'
    <2>1. CASE step[h] = "ask"
      BY <1>2, <2>1, QueueKept DEF Inv, TypeOK, Leave
    <2>2. CASE step[h] = "wait"
      <3>1. PICK i \in DOMAIN queue : /\ queue[i] = h
                                      /\ queue' = RemoveAt(queue, i)
        BY <2>2 DEF Leave
      <3>2. i \in 1 .. Len(queue)
        BY <3>1 DEF Inv, TypeOK
      <3> QED
        BY <1>2, <3>1, <3>2, QueueRemoved DEF Inv
    <2> QED
      BY <1>1, <2>1, <2>2
  <1>4. TypeOK'
    BY <1>1, <1>2, <1>3, EnterStep DEF Inv, TypeOK, connections
  <1>5. PoolAccounted' /\ HoldersWork'
    <2>1. \A g \in Handlers : Working(g)' <=> Working(g)
      BY <1>1, <1>2 DEF Inv, TypeOK, Working
    <2> QED
      BY <1>1, <2>1, ConnectionsKept DEF Inv
  <1>6. \A g \in Handlers : InCall(g)'
    BY <1>1, EnterStep DEF Inv
  <1>7. Drain'
    BY <1>1, DrainKept
  <1> QED
    BY <1>3, <1>4, <1>5, <1>6, <1>7 DEF Inv

\* A call that gives its connection back and ends preserves the invariant.
LEMMA EndOfCall ==
    ASSUME Inv, NEW h \in Handlers, Working(h),
           NEW states \in SUBSET {"closing", "idle"}, Release(h, states),
           Proceed(h) \/ Fail(h), UNCHANGED <<server, queue>>
    PROVE  Inv'
  <1>1. PICK c \in Calls \cup {"none"} : Enter(h, c)
    BY EndsInEnter DEF Inv, Working
  <1>2. PICK s \in {"ask", "provider", "reply"} : step' = [step EXCEPT ![h] = s]
    BY <1>1, EnterStep DEF Inv
  <1>3. /\ conn' \in [Handlers -> Conns \cup {NULL}]
        /\ pool' \in [Conns -> {"closed", "idle", "busy", "closing"}]
        /\ open' \subseteq Conns
        /\ PoolAccounted'
        /\ HoldersWork'
    BY <1>2, ReleaseStep DEF Inv
  <1>4. TypeOK'
    BY <1>1, <1>2, <1>3, EnterStep DEF Inv, TypeOK
  <1>5. QueueAccurate'
    BY <1>2, QueueKept DEF Inv, TypeOK, Working
  <1>6. \A g \in Handlers : InCall(g)'
    BY <1>1, EnterStep DEF Inv
  <1>7. Drain'
    BY DrainKept DEF Working
  <1> QED
    BY <1>3, <1>4, <1>5, <1>6, <1>7 DEF Inv

\* A statement keeps the connection or gives it back.
LEMMA StatementInv == ASSUME Inv, NEW h \in Handlers, Statement(h) PROVE Inv'
  <1>1. step[h] = "statement" /\ UNCHANGED <<server, queue>>
    BY DEF Statement
  <1>2. CASE left[h] > 1
    <2>1. /\ left' = [left EXCEPT ![h] = @ - 1]
          /\ open' = open \cup {conn[h]}
          /\ UNCHANGED <<call, step, gone, conn, pool>>
      BY <1>2 DEF Statement
    <2>2. conn[h] \in Conns /\ pool[conn[h]] = "busy"
      BY <1>1 DEF Inv, TypeOK, HoldersWork, Working, PoolAccounted
    <2>3. TypeOK'
      <3>1. left' \in [Handlers -> 0 .. Inserts + 2]
        BY <1>2, <2>1, InsertsAssumption DEF Inv, TypeOK
      <3> QED
        BY <1>1, <2>1, <2>2, <3>1 DEF Inv, TypeOK
    <2>4. PoolAccounted' /\ HoldersWork'
      BY <2>1, <2>2 DEF Inv, PoolAccounted, HoldersWork, Working
    <2>5. QueueAccurate'
      BY <1>1, <2>1, QueueKept DEF Inv
    <2>6. (\A g \in Handlers : InCall(g)') /\ Drain'
      BY <1>1, <2>1 DEF Inv, InCall, Drain
    <2> QED
      BY <2>3, <2>4, <2>5, <2>6 DEF Inv
  <1>3. CASE ~(left[h] > 1)
    <2>1. Release(h, {"closing", "idle"}) /\ Proceed(h)
      BY <1>3 DEF Statement
    <2> QED
      BY <1>1, <2>1, EndOfCall DEF Working
  <1> QED
    BY <1>2, <1>3

\* A failed statement gives the connection back or leaves it to the rollback.
LEMMA StatementFailsInv ==
    ASSUME Inv, NEW h \in Handlers, StatementFails(h) PROVE Inv'
  <1>1. step[h] = "statement" /\ UNCHANGED <<server, queue>>
    BY DEF StatementFails
  <1>2. CASE InTransaction(h)
    <2>1. /\ step' = [step EXCEPT ![h] = "rollback"]
          /\ UNCHANGED <<call, left, gone, connections>>
      BY <1>2 DEF StatementFails
    <2>2. TypeOK'
      BY <1>1, <2>1 DEF Inv, TypeOK, connections
    <2>3. PoolAccounted' /\ HoldersWork'
      <3>1. \A g \in Handlers : Working(g)' <=> Working(g)
        BY <1>1, <2>1 DEF Inv, TypeOK, Working
      <3> QED
        BY <2>1, <3>1, ConnectionsKept DEF Inv
    <2>4. QueueAccurate'
      BY <1>1, <2>1, QueueKept DEF Inv, TypeOK
    <2>5. (\A g \in Handlers : InCall(g)') /\ Drain'
      BY <1>1, <2>1, DrainKept DEF Inv, TypeOK, InCall
    <2> QED
      BY <2>2, <2>3, <2>4, <2>5 DEF Inv
  <1>3. CASE ~InTransaction(h)
    BY <1>1, <1>3, EndOfCall DEF StatementFails, Working, AfterError
  <1> QED
    BY <1>2, <1>3

\* A rollback gives the connection back.
LEMMA RollbackInv == ASSUME Inv, NEW h \in Handlers, Rollback(h) PROVE Inv'
  BY EndOfCall DEF Rollback, Working, AfterError

\* The provider call involves no connection.
LEMMA ProviderReturnsInv ==
    ASSUME Inv, NEW h \in Handlers, ProviderReturns(h) PROVE Inv'
  <1>1. step[h] = "provider" /\ UNCHANGED <<server, connections, queue>>
    BY DEF ProviderReturns
  <1>2. PICK c \in Calls \cup {"none"} : Enter(h, c)
    BY <1>1, EndsInEnter DEF Inv, ProviderReturns
  <1>3. PICK s \in {"ask", "provider", "reply"} : step' = [step EXCEPT ![h] = s]
    BY <1>2, EnterStep DEF Inv
  <1>4. TypeOK'
    BY <1>1, <1>2, <1>3, EnterStep DEF Inv, TypeOK, connections
  <1>5. PoolAccounted' /\ HoldersWork'
    <2>1. \A g \in Handlers : Working(g)' <=> Working(g)
      BY <1>1, <1>3 DEF Inv, TypeOK, Working
    <2> QED
      BY <1>1, <2>1, ConnectionsKept DEF Inv
  <1>6. QueueAccurate'
    BY <1>1, <1>3, QueueKept DEF Inv, TypeOK
  <1>7. \A g \in Handlers : InCall(g)'
    BY <1>2, EnterStep DEF Inv
  <1>8. Drain'
    BY <1>1, DrainKept
  <1> QED
    BY <1>4, <1>5, <1>6, <1>7, <1>8 DEF Inv

\* Replies, cancellations and the pool's own housekeeping touch neither the
\* owners of connections nor the queue.
LEMMA QuietInv ==
    ASSUME Inv,
           \/ \E h \in Handlers : Reply(h) \/ Disconnect(h) \/ Deadline(h)
           \/ \E c \in Conns : Reap(c) \/ Closed(c)
           \/ Sigterm \/ Drained \/ Restart \/ UNCHANGED vars
    PROVE  Inv'
  <1>1. ASSUME NEW h \in Handlers, Reply(h) PROVE Inv'
    <2>1. TypeOK'
      BY <1>1 DEF Inv, TypeOK, Reply, connections
    <2>2. PoolAccounted' /\ HoldersWork'
      <3>1. \A g \in Handlers : Working(g)' <=> Working(g)
        BY <1>1 DEF Inv, TypeOK, Reply, Working
      <3> QED
        BY <1>1, <3>1, ConnectionsKept DEF Inv, Reply
    <2>3. QueueAccurate'
      BY <1>1, QueueKept DEF Inv, TypeOK, Reply
    <2>4. (\A g \in Handlers : InCall(g)') /\ Drain'
      BY <1>1, DrainKept DEF Inv, TypeOK, Reply, InCall
    <2> QED
      BY <2>1, <2>2, <2>3, <2>4 DEF Inv
  <1>2. ASSUME NEW h \in Handlers, Disconnect(h) \/ Deadline(h) PROVE Inv'
    <2>1. /\ gone' = [gone EXCEPT ![h] = TRUE]
          /\ UNCHANGED <<server, call, step, left, connections, queue>>
      BY <1>2 DEF Disconnect, Deadline
    <2>2. TypeOK'
      BY <2>1 DEF Inv, TypeOK, connections
    <2>3. PoolAccounted' /\ HoldersWork'
      BY <2>1, ConnectionsKept DEF Inv, Working
    <2>4. QueueAccurate' /\ (\A g \in Handlers : InCall(g)') /\ Drain'
      BY <2>1, QueueKept DEF Inv, InCall, Drain
    <2> QED
      BY <2>2, <2>3, <2>4 DEF Inv
  <1>3. ASSUME NEW c \in Conns, Reap(c) \/ Closed(c) PROVE Inv'
    <2>1. PoolAccounted'
      <3>1. /\ pool[c] # "busy"
            /\ \E s \in {"closed", "closing"} : pool' = [pool EXCEPT ![c] = s]
            /\ UNCHANGED <<conn, open>>
        BY <1>3 DEF Reap, Closed
      <3>2. \A d \in Conns : pool'[d] = "busy" <=> pool[d] = "busy"
        BY <3>1 DEF Inv, TypeOK
      <3> QED
        BY <3>1, <3>2 DEF Inv, TypeOK, PoolAccounted
    <2>2. QueueAccurate'
      BY <1>3, QueueKept DEF Inv, Reap, Closed, handlers
    <2>3. TypeOK' /\ HoldersWork' /\ (\A g \in Handlers : InCall(g)') /\ Drain'
      BY <1>3 DEF Inv, TypeOK, Reap, Closed, HoldersWork, Working, InCall,
                  Drain, handlers
    <2> QED
      BY <2>1, <2>2, <2>3 DEF Inv
  <1>4. ASSUME Sigterm \/ Drained \/ Restart \/ UNCHANGED vars PROVE Inv'
    <2>1. UNCHANGED <<handlers, connections, queue>>
      BY <1>4 DEF Sigterm, Drained, Restart, vars
    <2>2. TypeOK' /\ Drain'
      BY <1>4 DEF Inv, TypeOK, Drain, Sigterm, Drained, Restart, vars,
                  handlers, connections
    <2>3. PoolAccounted' /\ HoldersWork'
      BY <2>1, ConnectionsKept DEF Inv, Working, handlers
    <2>4. QueueAccurate' /\ \A g \in Handlers : InCall(g)'
      BY <2>1, QueueKept DEF Inv, InCall, handlers
    <2> QED
      BY <2>2, <2>3, <2>4 DEF Inv
  <1> QED
    BY <1>1, <1>2, <1>3, <1>4

\* Nothing is left of a process that ended.
LEMMA GoneInv == ASSUME Inv, Gone PROVE Inv'
  <1>1. TypeOK'
    BY InsertsAssumption DEF Inv, TypeOK, Gone
  <1>2. PoolAccounted' /\ HoldersWork'
    BY NullAssumption DEF Gone, PoolAccounted, HoldersWork, Working
  <1>3. QueueAccurate'
    BY DEF Gone, QueueAccurate, ToSet
  <1>4. (\A g \in Handlers : InCall(g)') /\ Drain'
    BY DEF Gone, InCall, Drain
  <1> QED
    BY <1>1, <1>2, <1>3, <1>4 DEF Inv

\* Every step, and every stutter, preserves the invariant.
LEMMA NextInv == ASSUME Inv, [Next]_vars PROVE Inv'
  <1>1. ASSUME NEW h \in Handlers, Run(h) PROVE Inv'
    BY <1>1, AcquireInv, EnqueueInv, GrantInv, LeaveInv, QuietInv DEF Run
  <1>2. ASSUME NEW h \in Handlers, Remote(h) PROVE Inv'
    BY <1>2, StatementInv, StatementFailsInv, RollbackInv, ProviderReturnsInv
       DEF Remote
  <1>3. CASE Process
    BY <1>3, GoneInv, QuietInv DEF Process, Close, ShutdownDeadline, Crash
  <1> QED
    BY <1>1, <1>2, <1>3, ArriveInv, QuietInv DEF Next

----------------------------------------------------------------------------
\* The inductive invariant holds in every behaviour, whatever the number of
\* handlers and connections.
THEOREM PoolInvariance == Spec => []Inv
  <1>1. Inv /\ [Next]_vars => Inv'
    BY NextInv
  <1> QED
    BY <1>1, InitInv, PTL DEF Spec

\* No connection is lost, shared, or returned in the middle of a transaction,
\* however many handlers share however many connections (the deferred
\* rollbacks of the repositories).
THEOREM NoConnectionLeaks == Spec => []PoolAccounted
  <1>1. Inv => PoolAccounted
    BY DEF Inv
  <1> QED
    BY <1>1, PoolInvariance, PTL

\* The queue holds the waiting handlers and nobody else, each once: a handler
\* that gives up takes its place along (pgxpool under a cancelled context).
THEOREM QueueIsAccurate == Spec => []QueueAccurate
  <1>1. Inv => QueueAccurate
    BY DEF Inv
  <1> QED
    BY <1>1, PoolInvariance, PTL

\* No handler waits, or calls the provider, with a connection in hand
\* (airouter.Invoke), so waiting for connections is never circular.
THEOREM NoHoldAndWait == Spec => []HoldersWork
  <1>1. Inv => HoldersWork
    BY DEF Inv
  <1> QED
    BY <1>1, PoolInvariance, PTL

\* The deferred db.Close finds no connection with a handler (main.go).
THEOREM CloseDoesNotBlock == Spec => []CloseFindsNoHolder
  <1>1. Inv => CloseFindsNoHolder
    <2> SUFFICES ASSUME Inv, server = "closing", NEW c \in Conns
                 PROVE  pool[c] # "busy"
      BY DEF CloseFindsNoHolder
    <2>1. \A h \in Handlers : conn[h] = NULL
      BY DEF Inv, Drain, HoldersWork, Working
    <2> QED
      BY <2>1, NullAssumption DEF Inv, PoolAccounted
  <1> QED
    BY <1>1, PoolInvariance, PTL
=============================================================================
