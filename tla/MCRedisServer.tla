-------------------------------- MODULE MCRedisServer --------------------------------
(* Topologies and scripts of RedisServer for TLC, the lessons among them. *)
EXTENDS RedisLessons

MCClients == {APP, WORKER, DB, APP2}

MCKeys ==
  {"k", "m", "n", "q", "r", "a", "b", "c", "d", "e", "f", "user:1", "user:2", "page:views", "jobs",
   "online:mon", "online:tue", "board", "session:1", "session:2", "session:3", "product:7",
   "order:1", "order:2", "writeback", "hot:key", "lock:hot:key", "balance:1", "seq:name",
   "lock:job", "ratelimit:ip1"} \cup Range(Users(1, 12))

MCNumeralRange == (-9 .. 60) \cup {75, 100, 101, 102, 175, 200, 250, 300, 400, 500, 800, 999, 1000, 1600, 5000}

MCMemberOrder == <<"ann", "bob", "cat", "req-0", "req-1", "req-2", "req-3", "x", "y">>

MCGlob == "*" :> MCKeys @@ "user:*" :> Range(Users(1, 12))

MCKeySlot == "a" :> 15495 @@ "k" :> 7629

-----------------------------------------------------------------------------
(* Scripts of the test bench *)

Command1(clientId, name, args) == [clientId |-> clientId, name |-> name, args |-> args]

\* One of several commands of a client at a time; an empty set is no slot.
Slot(at, clientId, commands) ==
  [at |-> at, choices |-> {Command1(clientId, command[1], Tail(command)) : command \in commands}]

Bench(durationMs, script) == [Lesson(durationMs, script, <<>>).input EXCEPT !.activeExpireEveryMs = 500]

\* Two clients that wait, with and without a deadline, on one key or two, and
\* pushes, pops and deletions, one of them due at the very deadline.
Waiting ==
  Bench(2400,
    << Slot(0,    WORKER, {<<"BLPOP", "q", "1">>, <<"BLPOP", "q", "r", "0">>}),
       Slot(0,    DB,     {<<"BLPOP", "q", "1">>, <<"BLPOP", "r", "q", "0">>, <<"BLPOP", "q", "2">>}),
       Slot(500,  APP,    {<<"RPUSH", "q", "a">>, <<"RPUSH", "q", "a", "b">>, <<"LPUSH", "r", "a">>,
                           <<"SET", "q", "x">>}),
       Slot(1000, APP,    {<<"RPUSH", "q", "c">>, <<"LPOP", "q">>, <<"DEL", "q">>}),
       Slot(1000, APP2,   {<<"RPUSH", "r", "d", "e">>, <<"BLPOP", "q", "1">>}),
       Slot(1800, APP,    {<<"LPUSH", "q", "d">>}) >>)

\* A transaction with watched keys against another client's commands.
Transaction(budget, policy) ==
  [Bench(2400,
    << Slot(0,    APP,    {<<"SET", "k", "1">>, <<"SET", "k", "1", "PX", "1000">>}),
       Slot(100,  APP,    {<<"SET", "m", "1", "EX", "60">>}),
       Slot(200,  APP,    {<<"WATCH", "k">>, <<"WATCH", "k", "m">>}),
       Slot(400,  WORKER, {<<"SET", "k", "1">>, <<"DEL", "k">>, <<"EXPIRE", "k", "1">>,
                           <<"SET", "n", "22">>, <<"GET", "k">>, <<"PERSIST", "k">>,
                           <<"LPUSH", "k", "x">>}),
       Slot(600,  WORKER, {<<"SET", "k", "1">>, <<"DEL", "m">>, <<"SET", "m", "1", "KEEPTTL">>,
                           <<"WATCH", "k">>}),
       Slot(1400, APP,    {<<"MULTI">>}),
       Slot(1600, APP,    {<<"INCR", "k">>, <<"SET", "m", "3">>, <<"DISCARD">>}),
       Slot(1800, APP,    {<<"EXEC">>, <<"MULTI">>}),
       Slot(1900, WORKER, {<<"INCR", "k">>}) >>)
   EXCEPT !.maxmemoryBytes = budget, !.evictionPolicy = policy]

\* Writes of several sizes against a budget of three small keys, with what
\* each policy ranks by made to differ.
Evicting(policy) ==
  [Bench(1200,
    << Slot(0,   APP, {<<"SET", "k", "1">>, <<"SET", "k", "1", "EX", "2">>}),
       Slot(10,  APP, {<<"SET", "m", "9", "EX", "1">>, <<"RPUSH", "m", "x">>}),
       Slot(20,  APP, {<<"SADD", "n", "x">>, <<"HSET", "n", "x", "1">>}),
       Slot(30,  APP, {<<"GET", "k">>, <<"EXPIRE", "n", "1">>, <<"GET", "m">>}),
       Slot(40,  APP, {<<"SET", "q", "abc">>, <<"SET", "k", "abcdefghij">>, <<"INCR", "m">>,
                       <<"SADD", "n", "y", "ann">>, <<"CONFIG", "SET", "maxmemory", "20">>}),
       Slot(50,  APP, {<<"RPUSH", "r", "abcdefghijabcdefghij">>, <<"SET", "q", "1", "NX">>,
                       <<"ZADD", "k", "1", "x">>, <<"HSET", "n", "y", "1">>}),
       Slot(60,  APP, {<<"CONFIG", "SET", "maxmemory-policy", "volatile-ttl">>}),
       Slot(70,  APP, {<<"SET", "q", "abcd", "XX">>, <<"SETNX", "r", "abcdefghij">>}) >>)
   EXCEPT !.maxmemoryBytes = 55, !.evictionPolicy = policy, !.draws = <<2, 1, 0>>]

\* Every command on a key of every type, or on no key at all, dead or alive.
OfEveryType ==
  {<<"SET", "k", "5", "PX", "300">>, <<"RPUSH", "k", "x", "y", "x">>, <<"HSET", "k", "x", "1", "y", "2">>,
   <<"SADD", "k", "x", "y">>, <<"ZADD", "k", "2", "x", "1", "y", "1", "ann">>, <<"SET", "m", "x">>}

EveryCommand ==
  {<<"SET", "k", "6">>, <<"GET", "k">>, <<"INCR", "k">>, <<"INCR", "m">>, <<"DEL", "k", "m", "k">>,
   <<"SETNX", "k", "1">>, <<"EXPIRE", "k", "1">>, <<"TTL", "k">>, <<"PERSIST", "k">>,
   <<"EXISTS", "k", "k">>, <<"TYPE", "k">>, <<"KEYS", "*">>, <<"SCAN", "0">>, <<"DBSIZE">>,
   <<"LPUSH", "k", "ann", "bob">>, <<"RPUSH", "k", "bob">>, <<"LPOP", "k">>, <<"RPOP", "k">>,
   <<"LRANGE", "k", "-2", "5">>, <<"LLEN", "k">>, <<"BLPOP", "m", "k", "1">>,
   <<"HSET", "k", "y", "3", "x", "4">>, <<"HGET", "k", "y">>, <<"HGETALL", "k">>,
   <<"HDEL", "k", "x", "bob">>, <<"HINCRBY", "k", "x", "-1">>, <<"SADD", "k", "ann", "x">>,
   <<"SREM", "k", "x", "y">>, <<"SMEMBERS", "k">>, <<"SINTER", "k", "m">>, <<"SISMEMBER", "k", "y">>,
   <<"SCARD", "k">>, <<"ZADD", "k", "0", "x", "3", "bob">>, <<"ZINCRBY", "k", "-1", "x">>,
   <<"ZRANGE", "k", "0", "-1", "WITHSCORES">>, <<"ZREVRANGE", "k", "1", "-1">>, <<"ZSCORE", "k", "y">>,
   <<"ZCARD", "k">>, <<"ZREMRANGEBYSCORE", "k", "1", "+inf">>, <<"ZCOUNT", "k", "-inf", "1">>,
   <<"CONFIG", "GET", "maxmemory">>, <<"CONFIG", "GET", "maxmemory-policy">>, <<"INFO">>,
   <<"CLUSTER", "KEYSLOT", "k">>, <<"BGSAVE">>, <<"REPLICAOF", "m">>, <<"EXEC">>, <<"DISCARD">>,
   <<"EVAL", "bump until", "1", "k", "3">>}

Everything ==
  Bench(1500,
    << Slot(0,   APP,  OfEveryType),
       Slot(100, APP,  EveryCommand),
       Slot(450, DB,   {<<"LPOP", "k">>, <<"SREM", "k", "x", "ann">>, <<"ZREMRANGEBYSCORE", "k", "-inf", "1">>,
                        <<"HDEL", "k", "x">>, <<"INCR", "k">>, <<"EVAL", "bump until", "1", "k", "2">>}),
       Slot(800, APP2, {<<"GET", "k">>, <<"LRANGE", "k", "0", "-1">>}) >>)

\* Deadlines, and the passes that follow them.
Expiring(everyMs) ==
  [Bench(2600,
    << Slot(0,    APP, {<<"SET", "k", "1">>, <<"SET", "k", "1", "PX", "500">>}),
       Slot(100,  APP, {<<"SET", "m", "1", "EX", "1">>}),
       Slot(200,  APP, {<<"SET", "n", "1", "PX", "400">>, <<"RPUSH", "n", "x">>}),
       Slot(400,  APP, {<<"EXPIRE", "k", "1">>, <<"PERSIST", "m">>, <<"SET", "m", "2", "KEEPTTL">>,
                        <<"EXPIRE", "n", "0">>}),
       Slot(900,  APP, {<<"GET", "n">>, <<"INCR", "k">>, <<"RPUSH", "n", "y">>, <<"DBSIZE">>}),
       Slot(1300, APP, {<<"EXISTS", "k", "m", "n">>, <<"SCAN", "1", "COUNT", "1">>}) >>)
   EXCEPT !.activeExpireEveryMs = everyMs]

\* Crashes and restarts between snapshots, and replicas with different lags.
Persisted(snapshotMs, aof, faults) ==
  [Bench(2200,
    << Slot(0,    APP,    {<<"SET", "k", "1">>, <<"SET", "k", "1", "EX", "1">>}),
       Slot(200,  APP,    {<<"RPUSH", "q", "a", "b">>}),
       Slot(650,  APP,    {<<"SET", "k", "2">>, <<"DEL", "q">>, <<"SET", "m", "3">>}),
       Slot(1000, WORKER, {<<"LPOP", "q">>, <<"SET", "k", "3">>}),
       Slot(1500, APP,    {<<"GET", "k">>, <<"INCR", "m">>}) >>)
   EXCEPT !.snapshotEveryMs = snapshotMs, !.aofAlways = aof, !.failures = faults,
          !.replicas = <<"replica-1", "replica-2">>,
          !.lagMs = [r \in Replicas |-> IF r = "replica-1" THEN 400 ELSE 50]]

CrashAndRestart == <<Fault(1050, "crash", ServerId), Fault(1200, "restart", ServerId)>>
CrashTwice == <<Fault(1050, "crash", ServerId), Fault(1200, "crash", ServerId),
                Fault(1300, "crash", "replica-1"), Fault(1600, "restart", ServerId)>>
Failover == <<Fault(700, "crash", ServerId), Fault(900, "sentinelFailover", "replica-1"),
              Fault(950, "restart", "replica-1")>>

\* for i = 1, n: INCR; returns what a protected call of the wrong type gives,
\* or the count.
BumpUntil ==
  <<Sym("local"), Ident("n"), Sym("="), Num("0"),
    Sym("for"), Ident("i"), Sym("="), Num("1"), Sym(",")>> \o At1("ARGV") \o
  <<Sym("do"), Ident("n"), Sym("="), Ident("n"), Sym("+"), Ident("i"), Sym("*"), Num("2"), Sym("end"),
    Sym("while"), Ident("n"), Sym(">"), Num("4"), Sym("do"),
       Ident("n"), Sym("="), Ident("n"), Sym("-"), Num("4"), Sym("end"),
    Sym("if"), Sym("not"), Ident("redis"), Sym("."), Ident("pcall"), Sym("("), Text("LLEN"), Sym(",")>>
    \o At1("KEYS") \o
  <<Sym(")"), Sym("and"), Ident("n"), Sym("~="), Num("0"), Sym("then")>>
    \o CallOf("INCR", At1("KEYS")) \o <<Sym("return")>> \o CallOf("GET", At1("KEYS")) \o
  <<Sym("elseif"), Ident("n"), Sym("=="), Num("0"), Sym("or"), Sym("nil"), Sym("then")>>
    \o CallOf("SET", <<Text("m"), Sym(","), Ident("n")>>) \o
  <<Sym("else"), Sym("return")>> \o CallOf("RPUSH", At1("KEYS") \o <<Sym(","), Text("x")>>) \o
  <<Sym("end"), Sym("eof")>>

MCScripts == LessonScripts @@ "bump until" :> BumpUntil

CrashInputs ==
  {Persisted(500, FALSE, CrashAndRestart), Persisted(0, FALSE, CrashTwice),
   Persisted(0, TRUE, CrashTwice), Persisted(500, FALSE, Failover)}

MCInputs ==
  {lesson.input : lesson \in LESSONS}
    \cup {Waiting, Everything, Transaction(Unlimited, "noeviction"), Transaction(45, "allkeys-lru"),
          Transaction(45, "volatile-ttl")}
    \cup {Evicting(policy) : policy \in Policies}
    \cup {Expiring(everyMs) : everyMs \in {300, 700}}
    \cup CrashInputs
=============================================================================
