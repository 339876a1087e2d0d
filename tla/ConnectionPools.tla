--------------------------- MODULE ConnectionPools ---------------------------
(***************************************************************************)
(* web/sqlconn/MySqlConnectionPool.cpp, web/redisconn (RedisPool,          *)
(* Semphore.h, RedisConnRAII.h, RedisCache) and their use by the Login and *)
(* Register servlets, which run on the I/O threads of the HTTP server.     *)
(*                                                                         *)
(* A section under a mutex is one step, and so is a command to Redis,      *)
(* which every RedisCache makes under one static mutex.                    *)
(***************************************************************************)
EXTENDS Integers, Sequences, FiniteSets

CONSTANTS
    Threads,        \* I/O threads that serve logins
    InitSize, MaxSize,  \* mysql.initSize and mysql.maxSize
    RedisSize,      \* redis.initSize
    MaxLogins,      \* bound: logins served
    MaxScans        \* bound: rounds of the scanner that delete something

ASSUME PoolAssumption ==
    /\ {InitSize, MaxSize, RedisSize, MaxLogins, MaxScans} \subseteq Nat
    /\ InitSize >= 1 /\ MaxSize >= InitSize /\ RedisSize >= 1
    /\ IsFiniteSet(Threads)

VARIABLES
    connections,    \* _connections: the idle connections, by number
    connectionCount,\* _connectionCount
    made,           \* connections made so far
    producer,       \* produceConnection: "run" or "wait" (in _cond.wait)
    conn_que,       \* _conn_que
    sem,            \* the value of _sem
    login,          \* where each thread is in the servlet
    rc,             \* its RedisCache, 0 for none
    sql,            \* its MySqlConnection, 0 for none
    logins, scans,
    undefined       \* front() of an empty queue was used

poolVars == <<connections, connectionCount, made, producer, conn_que, sem, login, rc, sql,
              logins, scans, undefined>>

SqlPoolInit ==
    /\ connections = [i \in 1 .. InitSize |-> i]
    /\ connectionCount = InitSize /\ made = InitSize
    /\ producer = "run"

RedisPoolInit ==
    /\ conn_que = [i \in 1 .. RedisSize |-> i]
    /\ sem = RedisSize

PoolInit ==
    /\ SqlPoolInit /\ RedisPoolInit
    /\ login = [t \in Threads |-> "idle"]
    /\ rc = [t \in Threads |-> 0] /\ sql = [t \in Threads |-> 0]
    /\ logins = 0 /\ scans = 0 /\ undefined = FALSE

Move(t, from, to) == login[t] = from /\ login' = [login EXCEPT ![t] = to]
sqlVars == <<connections, connectionCount, made, producer, sql>>
redisVars == <<conn_que, sem, rc>>

-----------------------------------------------------------------------------
(* Redis: RedisConnRAII is a temporary in Login, so the connection goes    *)
(* back to the pool before it is used.                                     *)

\* RedisPool::getRedisCache, the test of empty() without the lock.  Login
\* goes on with a null pointer; the model ends the login there.
RedisEmpty(t) ==
    /\ logins < MaxLogins
    /\ \/ conn_que # <<>> /\ Move(t, "idle", "redis wait")
       \/ conn_que = <<>> /\ Move(t, "idle", "idle")
    /\ logins' = logins + 1
    /\ UNCHANGED <<sqlVars, redisVars, scans, undefined>>

\* _sem.wait()
RedisWait(t) ==
    /\ Move(t, "redis wait", "redis pop") /\ sem > 0
    /\ sem' = sem - 1
    /\ UNCHANGED <<sqlVars, conn_que, rc, logins, scans, undefined>>

RedisPop(t) ==
    /\ Move(t, "redis pop", "redis free") /\ conn_que # <<>>
    /\ rc' = [rc EXCEPT ![t] = Head(conn_que)]
    /\ conn_que' = Tail(conn_que)
    /\ UNCHANGED <<sqlVars, sem, logins, scans, undefined>>

\* ~RedisConnRAII: RedisPool::freeRedisCache; rc still points to it.
freeRedisCache(t) ==
    /\ Move(t, "redis free", "redis get")
    /\ conn_que' = Append(conn_que, rc[t])
    /\ sem' = sem + 1
    /\ UNCHANGED <<sqlVars, rc, logins, scans, undefined>>

\* existKey and getKeyVal: the password is cached, or MySQL is asked.
RedisGet(t) ==
    /\ Move(t, "redis get", "idle") \/ Move(t, "redis get", "sql get")
    /\ rc' = IF login'[t] = "idle" THEN [rc EXCEPT ![t] = 0] ELSE rc
    /\ UNCHANGED <<sqlVars, conn_que, sem, logins, scans, undefined>>

-----------------------------------------------------------------------------
(* MySQL.                                                                  *)

Wake(l) == [t \in Threads |-> IF l[t] = "sql wait" THEN "sql get" ELSE l[t]]

\* getConnection: the first idle connection, and _cond.notify_all().
SqlTake(t) ==
    /\ login[t] = "sql get" /\ connections # <<>>
    /\ sql' = [sql EXCEPT ![t] = Head(connections)]
    /\ connections' = Tail(connections)
    /\ login' = Wake([login EXCEPT ![t] = "query"])
    /\ producer' = "run"
    /\ UNCHANGED <<connectionCount, made, redisVars, logins, scans, undefined>>

\* getConnection: there is none, wait.
SqlWait(t) ==
    /\ Move(t, "sql get", "sql wait") /\ connections = <<>>
    /\ UNCHANGED <<sqlVars, redisVars, logins, scans, undefined>>

\* wait_for ends by its time-out: nullptr if there is still none.
SqlTimeout(t) ==
    /\ \/ connections = <<>> /\ Move(t, "sql wait", "idle")
       \/ connections # <<>> /\ Move(t, "sql wait", "sql get")
    /\ rc' = IF login'[t] = "idle" THEN [rc EXCEPT ![t] = 0] ELSE rc
    /\ UNCHANGED <<sqlVars, conn_que, sem, logins, scans, undefined>>

\* The deleter of the shared_ptr: back into the queue, nobody is told.
SqlRelease(t) ==
    /\ Move(t, "query", "idle")
    /\ connections' = Append(connections, sql[t])
    /\ sql' = [sql EXCEPT ![t] = 0]
    /\ rc' = [rc EXCEPT ![t] = 0]
    /\ UNCHANGED <<connectionCount, made, producer, conn_que, sem, logins, scans, undefined>>

\* Mutant of produceConnection: does not count the connection.
produceConnectionUncounted ==
    /\ producer = "run"
    /\ \/ /\ connections # <<>> /\ producer' = "wait"
          /\ UNCHANGED <<connections, connectionCount, made, login>>
       \/ /\ connections = <<>> /\ connectionCount < MaxSize
          /\ made' = made + 1
          /\ connections' = <<made + 1>>
          /\ login' = Wake(login)
          /\ UNCHANGED <<producer, connectionCount>>
    /\ UNCHANGED <<sql, redisVars, logins, scans, undefined>>

\* One round of produceConnection.  With all connections lent out and no more
\* allowed it goes round without waiting, notifying everybody.
produceConnection ==
    /\ producer = "run"
    /\ \/ /\ connections # <<>> /\ producer' = "wait"
          /\ UNCHANGED <<connections, connectionCount, made, login>>
       \/ /\ connections = <<>>
          /\ IF connectionCount < MaxSize
             THEN /\ made' = made + 1
                  /\ connections' = <<made + 1>>
                  /\ connectionCount' = connectionCount + 1
             ELSE UNCHANGED <<connections, connectionCount, made>>
          /\ login' = Wake(login)
          /\ UNCHANGED producer
    /\ UNCHANGED <<sql, redisVars, logins, scans, undefined>>

\* scanConnectionTime: connections that were idle for long go, from the
\* front, as long as there are at least initSize of them.  With none left in
\* the queue front() is undefined.
scanConnectionTime ==
    /\ scans < MaxScans /\ connectionCount >= InitSize
    /\ scans' = scans + 1
    /\ \/ \E k \in 1 .. Len(connections) :
            /\ connectionCount - k >= InitSize - 1
            /\ connections' = SubSeq(connections, k + 1, Len(connections))
            /\ connectionCount' = connectionCount - k
            /\ undefined' = (connections' = <<>> /\ connectionCount' >= InitSize)
       \/ /\ connections = <<>>
          /\ undefined' = TRUE
          /\ UNCHANGED <<connections, connectionCount>>
    /\ UNCHANGED <<made, producer, redisVars, login, sql, logins>>

LoginStep(t) ==
    \/ RedisEmpty(t) \/ RedisWait(t) \/ RedisPop(t) \/ freeRedisCache(t) \/ RedisGet(t)
    \/ SqlTake(t) \/ SqlWait(t) \/ SqlTimeout(t) \/ SqlRelease(t)

PoolNext == ~undefined /\ ((\E t \in Threads : LoginStep(t)) \/ produceConnection \/ scanConnectionTime)

PoolSpec == PoolInit /\ [][PoolNext]_poolVars

-----------------------------------------------------------------------------
\* A thread that has passed _sem.wait finds a connection to pop, though
\* empty() was tested before the wait and without the lock: the semaphore
\* never promises more than the queue holds (RedisPool::getRedisCache).
RedisPromise ==
    LET popping == {t \in Threads : login[t] = "redis pop"}
    IN  sem + Cardinality(popping) = Len(conn_que)

\* _connectionCount is the number of connections that are idle or lent; none
\* is lent twice or lent and idle; and they stay within the configured
\* bounds, whatever the threads, the producer and the scanner do.  (The
\* scanner's test is >=, so one below mysql.initSize can be reached.)  The
\* Redis pool keeps its promise.
PoolsAccounted ==
    LET lent == {t \in Threads : sql[t] # 0}
        idle == {connections[i] : i \in DOMAIN connections}
    IN  /\ connectionCount = Len(connections) + Cardinality(lent)
        /\ Cardinality(idle) = Len(connections)
        /\ Cardinality({sql[t] : t \in lent} \cup idle) = connectionCount
        /\ connectionCount <= MaxSize /\ connectionCount >= InitSize - 1
        /\ RedisPromise

Waiting(t) == login[t] # "idle"

=============================================================================
