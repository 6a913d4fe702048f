------------------------------- MODULE RedisLessons -------------------------------
(***************************************************************************)
(* The seventeen lessons of src/src/brokers/redis/lessons: the topologies  *)
(* and scripts that the simulator ships with, and the replies that their   *)
(* tests and narratives tell, command by command.                          *)
(***************************************************************************)
EXTENDS RedisServer

APP    == "app"
WORKER == "worker"
DB     == "db"
APP2   == "app2"

Issue(at, clientId, name, args) ==
  [at |-> at, choices |-> {[clientId |-> clientId, name |-> name, args |-> args]}]

\* A lesson on the server that lessons share unless they say otherwise, and
\* what is told of it.
Lesson(durationMs, script, told) ==
  [ input |-> [ script              |-> script,
                maxmemoryBytes      |-> Unlimited,
                evictionPolicy      |-> "noeviction",
                activeExpireEveryMs |-> 100,
                snapshotEveryMs     |-> 0,
                aofAlways           |-> FALSE,
                replicas            |-> <<>>,
                lagMs               |-> [r \in Replicas |-> 0],
                failures            |-> <<>>,
                draws               |-> <<0>>,
                durationMs          |-> durationMs ],
    told  |-> told ]

Fault(at, kind, target) == [at |-> at, kind |-> kind, target |-> target]

-----------------------------------------------------------------------------
(* basics *)

strings ==
  Lesson(12000,
    << Issue(0,    APP, "SET",  <<"user:1", "alice">>),
       Issue(1500, APP, "GET",  <<"user:1">>),
       Issue(3000, APP, "GET",  <<"user:2">>),
       Issue(4500, APP, "INCR", <<"page:views">>),
       Issue(6000, APP, "INCR", <<"page:views">>),
       Issue(7500, APP, "SET",  <<"user:1", "bob">>),
       Issue(9000, APP, "GET",  <<"user:1">>) >>,
    << Ok, Bulk("alice"), Nil, Integer(1), Integer(2), Ok, Bulk("bob") >>)

hash ==
  Lesson(12000,
    << Issue(0,    APP, "HSET",    <<"user:1", "name", "alice", "city", "hanoi">>),
       Issue(1500, APP, "HGET",    <<"user:1", "name">>),
       Issue(3000, APP, "HGETALL", <<"user:1">>),
       Issue(4500, APP, "HINCRBY", <<"user:1", "logins", "1">>),
       Issue(6000, APP, "HDEL",    <<"user:1", "city">>),
       Issue(7500, APP, "HGETALL", <<"user:1">>) >>,
    << Integer(2), Bulk("alice"), Array(<<"name", "alice", "city", "hanoi">>), Integer(1),
       Integer(1), Array(<<"name", "alice", "logins", "1">>) >>)

list ==
  Lesson(16000,
    << Issue(0,     APP,    "LPUSH",  <<"jobs", "a">>),
       Issue(1000,  APP,    "LPUSH",  <<"jobs", "b">>),
       Issue(2000,  APP,    "LPUSH",  <<"jobs", "c">>),
       Issue(3500,  APP,    "RPOP",   <<"jobs">>),
       Issue(5000,  APP,    "LPOP",   <<"jobs">>),
       Issue(6500,  APP,    "LRANGE", <<"jobs", "0", "-1">>),
       Issue(7000,  APP,    "RPOP",   <<"jobs">>),
       Issue(8000,  WORKER, "BLPOP",  <<"jobs", "10">>),
       Issue(11000, APP,    "LPUSH",  <<"jobs", "d">>) >>,
    << Integer(1), Integer(2), Integer(3), Bulk("a"), Bulk("c"), Array(<<"b">>), Bulk("b"),
       Array(<<"jobs", "d">>), Integer(1) >>)

set ==
  Lesson(12000,
    << Issue(0,    APP, "SADD",      <<"online:mon", "ann", "bob", "cat">>),
       Issue(1500, APP, "SADD",      <<"online:tue", "bob", "cat", "dan">>),
       Issue(3000, APP, "SADD",      <<"online:mon", "bob">>),
       Issue(4500, APP, "SISMEMBER", <<"online:mon", "ann">>),
       Issue(6000, APP, "SINTER",    <<"online:mon", "online:tue">>),
       Issue(7500, APP, "SCARD",     <<"online:mon">>) >>,
    << Integer(3), Integer(3), Integer(0), Integer(1), Array(<<"bob", "cat">>), Integer(3) >>)

zset ==
  Lesson(14000,
    << Issue(0,    APP, "ZADD",      <<"board", "100", "ann", "250", "bob", "175", "cat">>),
       Issue(2000, APP, "ZREVRANGE", <<"board", "0", "2", "WITHSCORES">>),
       Issue(4000, APP, "ZINCRBY",   <<"board", "200", "ann">>),
       Issue(6000, APP, "ZREVRANGE", <<"board", "0", "2", "WITHSCORES">>),
       Issue(8000, APP, "ZSCORE",    <<"board", "cat">>),
       Issue(9500, APP, "ZCARD",     <<"board">>) >>,
    << Integer(3), Array(<<"bob", "250", "cat", "175", "ann", "100">>), Bulk("300"),
       Array(<<"ann", "300", "bob", "250", "cat", "175">>), Bulk("175"), Integer(3) >>)

\* A slow active expire cycle shows the gap between lazy and active expiry.
ttl ==
  LET lesson ==
        Lesson(20000,
          << Issue(0,    APP, "SET",     <<"session:1", "tokenA", "EX", "3">>),
             Issue(200,  APP, "SET",     <<"session:2", "tokenB", "EX", "3">>),
             Issue(1000, APP, "TTL",     <<"session:1">>),
             Issue(4000, APP, "GET",     <<"session:1">>),
             Issue(4500, APP, "DBSIZE",  <<>>),
             Issue(5500, APP, "TTL",     <<"session:2">>),
             Issue(7000, APP, "SET",     <<"session:3", "tokenC">>),
             Issue(8000, APP, "TTL",     <<"session:3">>),
             Issue(9000, APP, "PERSIST", <<"session:3">>) >>,
          << Ok, Ok, Integer(2), Nil, Integer(0), Integer(-2), Ok, Integer(-1), Integer(0) >>)
  IN [lesson EXCEPT !.input.activeExpireEveryMs = 5000]

User(i) == "user:" \o ToString(i)
Users(from, to) == [i \in 1 .. (to - from + 1) |-> User(from + i - 1)]

seedKeys == [i \in 1 .. 12 |-> Issue((i - 1) * 200, APP, "SET", <<User(i), "v">>)]

scan ==
  Lesson(16000,
    seedKeys \o
    << Issue(3000,  APP, "KEYS",   <<"user:*">>),
       Issue(5000,  APP, "SCAN",   <<"0", "COUNT", "5">>),
       Issue(7000,  APP, "SCAN",   <<"5", "COUNT", "5">>),
       Issue(9000,  APP, "SCAN",   <<"10", "COUNT", "5">>),
       Issue(11000, APP, "DBSIZE", <<>>) >>,
    [i \in 1 .. 12 |-> Ok] \o
    << Array(Users(1, 12)), Array(<<"5">> \o Users(1, 5)), Array(<<"10">> \o Users(6, 10)),
       Array(<<"0">> \o Users(11, 12)), Integer(12) >>)

-----------------------------------------------------------------------------
(* cache *)

cacheAside ==
  Lesson(20000,
    << Issue(0,     APP, "GET", <<"product:7">>),
       Issue(1500,  DB,  "SET", <<"product:7", "keyboard|450000", "EX", "30">>),
       Issue(3500,  APP, "GET", <<"product:7">>),
       Issue(5000,  APP, "GET", <<"product:7">>),
       Issue(7000,  APP, "SET", <<"product:7", "keyboard|399000", "EX", "30">>),
       Issue(9000,  APP, "GET", <<"product:7">>),
       Issue(11000, APP, "DEL", <<"product:7">>),
       Issue(13000, APP, "GET", <<"product:7">>) >>,
    << Nil, Ok, Bulk("keyboard|450000"), Bulk("keyboard|450000"), Ok, Bulk("keyboard|399000"),
       Integer(1), Nil >>)

writeThrough ==
  Lesson(20000,
    << Issue(0,    APP,    "SET",   <<"order:1", "pending">>),
       Issue(800,  DB,     "SET",   <<"order:1", "pending">>),
       Issue(2000, APP,    "GET",   <<"order:1">>),
       Issue(6000, APP,    "SET",   <<"order:2", "pending">>),
       Issue(6200, APP,    "LPUSH", <<"writeback", "order:2">>),
       Issue(7000, APP,    "GET",   <<"order:2">>),
       Issue(9000, WORKER, "RPOP",  <<"writeback">>),
       Issue(9500, DB,     "SET",   <<"order:2", "pending">>) >>,
    << Ok, Ok, Bulk("pending"), Ok, Integer(1), Bulk("pending"), Bulk("order:2"), Ok >>)

stampede ==
  Lesson(22000,
    << Issue(0,    APP,    "SET",   <<"hot:key", "value", "EX", "4">>),
       Issue(5000, APP,    "GET",   <<"hot:key">>),
       Issue(5100, APP2,   "GET",   <<"hot:key">>),
       Issue(5200, WORKER, "GET",   <<"hot:key">>),
       Issue(7000, APP,    "SETNX", <<"lock:hot:key", "1">>),
       Issue(7100, APP2,   "SETNX", <<"lock:hot:key", "1">>),
       Issue(7200, WORKER, "SETNX", <<"lock:hot:key", "1">>),
       Issue(8000, APP,    "SET",   <<"hot:key", "value2", "EX", "4">>),
       Issue(8200, APP,    "DEL",   <<"lock:hot:key">>),
       Issue(9000, APP,    "GET",   <<"hot:key">>),
       Issue(9100, APP2,   "GET",   <<"hot:key">>),
       Issue(9200, WORKER, "GET",   <<"hot:key">>) >>,
    << Ok, Nil, Nil, Nil, Integer(1), Integer(0), Integer(0), Ok, Integer(1),
       Bulk("value2"), Bulk("value2"), Bulk("value2") >>)

eviction ==
  LET lesson ==
        Lesson(24000,
          << Issue(0,     APP, "SET",    <<"a", "aaaaaaaa">>),
             Issue(1000,  APP, "SET",    <<"b", "bbbbbbbb">>),
             Issue(2000,  APP, "SET",    <<"c", "cccccccc">>),
             Issue(3000,  APP, "GET",    <<"a">>),
             Issue(4000,  APP, "SET",    <<"d", "dddddddd">>),
             Issue(5500,  APP, "KEYS",   <<"*">>),
             Issue(7000,  APP, "CONFIG", <<"SET", "maxmemory-policy", "volatile-lru">>),
             Issue(8000,  APP, "SET",    <<"e", "eeeeeeee">>),
             Issue(10000, APP, "EXPIRE", <<"a", "60">>),
             Issue(11000, APP, "SET",    <<"f", "ffffffff">>),
             Issue(13000, APP, "KEYS",   <<"*">>),
             Issue(15000, APP, "INFO",   <<>>) >>,
          << Ok, Ok, Ok, Bulk("aaaaaaaa"), Ok, Array(<<"a", "c", "d">>), Ok, OomReply, Integer(1),
             Ok, Array(<<"c", "d", "f">>) >>)
  IN [lesson EXCEPT !.input.maxmemoryBytes = 90, !.input.evictionPolicy = "allkeys-lru"]

-----------------------------------------------------------------------------
(* advanced *)

transactions ==
  Lesson(3500,
    << Issue(0,    APP,    "SET",   <<"balance:1", "100">>),
       Issue(300,  APP,    "MULTI", <<>>),
       Issue(500,  APP,    "INCR",  <<"balance:1">>),
       Issue(700,  APP,    "INCR",  <<"balance:1">>),
       Issue(900,  APP,    "EXEC",  <<>>),
       Issue(1400, APP,    "WATCH", <<"balance:1">>),
       Issue(1600, WORKER, "SET",   <<"balance:1", "999">>),
       Issue(2000, APP,    "MULTI", <<>>),
       Issue(2200, APP,    "INCR",  <<"balance:1">>),
       Issue(2400, APP,    "EXEC",  <<>>) >>,
    << Ok, Ok, Status("QUEUED"), Status("QUEUED"), Multi(<<Integer(101), Integer(102)>>), Ok, Ok,
       Ok, Status("QUEUED"), Nil >>)

\* Tokens of the scripts: a word or a symbol is its own type.
Sym(type)    == [type |-> type, value |-> ""]
Ident(name)  == [type |-> "ident", value |-> name]
Text(value)  == [type |-> "string", value |-> value]
Num(value)   == [type |-> "number", value |-> value]
At1(name)    == <<Ident(name), Sym("["), Num("1"), Sym("]")>>
CallOf(command, args) ==
  <<Ident("redis"), Sym("."), Ident("call"), Sym("("), Text(command), Sym(",")>> \o args
    \o <<Sym(")")>>
DeleteElseZero ==
  <<Sym("then"), Sym("return")>> \o CallOf("DEL", At1("KEYS"))
    \o <<Sym("else"), Sym("return"), Num("0"), Sym("end"), Sym("eof")>>

LessonScripts ==
  "set then get" :>
      CallOf("SET", At1("KEYS") \o <<Sym(",")>> \o At1("ARGV"))
        \o <<Sym("return")>> \o CallOf("GET", At1("KEYS")) \o <<Sym("eof")>>
  @@ "compare and delete" :>
      <<Sym("local"), Ident("ok"), Sym("=")>> \o CallOf("GET", At1("KEYS"))
        \o <<Sym("if"), Ident("ok"), Sym("==")>> \o At1("ARGV") \o DeleteElseZero
  @@ "unlock" :>
      <<Sym("if")>> \o CallOf("GET", At1("KEYS")) \o <<Sym("==")>> \o At1("ARGV")
        \o DeleteElseZero

lua ==
  Lesson(2000,
    << Issue(0,    APP, "SET",  <<"seq:name", "first">>),
       Issue(300,  APP, "EVAL", <<"set then get", "1", "seq:name", "second">>),
       Issue(700,  APP, "EVAL", <<"compare and delete", "1", "seq:name", "second">>),
       Issue(1100, APP, "GET",  <<"seq:name">>) >>,
    << Ok, Bulk("second"), Integer(1), Nil >>)

distributedLock ==
  Lesson(2400,
    << Issue(0,    APP,    "SET",    <<"lock:job", "token-app", "NX", "PX", "5000">>),
       Issue(300,  WORKER, "SET",    <<"lock:job", "token-worker", "NX", "PX", "5000">>),
       Issue(700,  WORKER, "EVAL",   <<"unlock", "1", "lock:job", "token-worker">>),
       Issue(1100, APP,    "EVAL",   <<"unlock", "1", "lock:job", "token-app">>),
       Issue(1500, APP,    "EXISTS", <<"lock:job">>) >>,
    << Ok, Nil, Integer(0), Integer(1), Integer(0) >>)

rateLimit ==
  Lesson(3000,
    << Issue(0,    APP, "ZADD",             <<"ratelimit:ip1", "0", "req-0">>),
       Issue(400,  APP, "ZADD",             <<"ratelimit:ip1", "400", "req-1">>),
       Issue(800,  APP, "ZADD",             <<"ratelimit:ip1", "800", "req-2">>),
       Issue(1200, APP, "ZREMRANGEBYSCORE", <<"ratelimit:ip1", "-inf", "200">>),
       Issue(1200, APP, "ZCARD",            <<"ratelimit:ip1">>),
       Issue(1600, APP, "ZADD",             <<"ratelimit:ip1", "1600", "req-3">>),
       Issue(1600, APP, "ZCARD",            <<"ratelimit:ip1">>) >>,
    << Integer(1), Integer(1), Integer(1), Integer(1), Integer(2), Integer(1), Integer(3) >>)

\* Snapshots every second, and a crash between two of them.
persistence ==
  LET lesson ==
        Lesson(3000,
          << Issue(0,    APP, "SET",  <<"a", "1">>),
             Issue(1500, APP, "SET",  <<"b", "2">>),
             Issue(2200, APP, "KEYS", <<"*">>) >>,
          << Ok, Ok, Array(<<"a">>) >>)
  IN [lesson EXCEPT !.input.snapshotEveryMs = 1000,
                    !.input.failures = <<Fault(1900, "crash", ServerId),
                                         Fault(2000, "restart", ServerId)>>]

replication ==
  LET lesson ==
        Lesson(3500,
          << Issue(0,    APP, "SET",     <<"a", "1">>),
             Issue(400,  APP, "SET",     <<"b", "2">>),
             Issue(1600, APP, "CLUSTER", <<"KEYSLOT", "a">>) >>,
          << Ok, Ok, Integer(KeySlot["a"]) >>)
  IN [lesson EXCEPT !.input.replicas = <<"replica-1">>,
                    !.input.lagMs["replica-1"] = 400,
                    !.input.failures = <<Fault(1200, "crash", ServerId),
                                         Fault(1400, "sentinelFailover", "replica-1")>>]

LESSONS ==
  { strings, hash, list, set, zset, ttl, scan, cacheAside, writeThrough, stampede, eviction,
    transactions, lua, distributedLock, rateLimit, persistence, replication }

-----------------------------------------------------------------------------

\* Every lesson ends as its tests and its narrative tell: each command of the
\* script has been answered, and with that very reply.
LessonsEndAsTold ==
  ~Running =>
    \A lesson \in LESSONS :
      input = lesson.input => \A id \in DOMAIN lesson.told : answers[id] = <<lesson.told[id]>>
=============================================================================
