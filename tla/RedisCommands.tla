------------------------------- MODULE RedisCommands -------------------------------
(***************************************************************************)
(* The Redis commands: the handlers of string.ts, keyspace.ts, list.ts,    *)
(* hash.ts, set.ts, zset.ts, server.ts and tx.ts (all but EXEC) in         *)
(* src/src/brokers/redis/engine/commands.                                  *)
(*                                                                         *)
(* A handler takes a context [state, clientId, args, commandId] and gives  *)
(* [state, reply, parked].  Arguments are strings, as in the code; where a *)
(* number is expected, an integer numeral of NumeralRange stands there.    *)
(***************************************************************************)
EXTENDS RedisKeyspace

CONSTANTS
  Clients,
  NumeralRange,   \* the integers that are written as strings
  MemberOrder,    \* members of sorted sets in lexicographic order
  Glob,           \* Glob[pattern]: the keys that KEYS' pattern matches
  KeySlot         \* KeySlot[key]: keySlot of crc16.ts

\* The integer a numeral stands for: Number in the code.
Number == [s \in {ToString(n) : n \in NumeralRange} |->
             CHOOSE n \in NumeralRange : ToString(n) = s]

\* The code's /^-?\d+$/.
IsInteger(s) == s \in DOMAIN Number

Infinity == 2 ^ 30

-----------------------------------------------------------------------------
(* Replies *)

Status(value)  == [kind |-> "status",  value |-> value]
Integer(value) == [kind |-> "integer", value |-> value]
Bulk(value)    == [kind |-> "bulk",    value |-> value]
Array(value)   == [kind |-> "array",   value |-> value]
Multi(replies) == [kind |-> "multi",   value |-> replies]
Error(value)   == [kind |-> "error",   value |-> value]
Nil            == [kind |-> "nil"]
Ok             == Status("OK")

Done(state, reply) == [state |-> state, reply |-> reply, parked |-> FALSE]

WrongTypeReply == Error("WRONGTYPE")
OomReply       == Error("OOM")

Written(write, reply) == Done(write.state, IF write.oom THEN OomReply ELSE reply)

-----------------------------------------------------------------------------
(* What handlers have in common *)

Key(context) == context.args[1]

Value(type, value) == [type |-> type, value |-> value]

\* The value a command finds under its key, or the empty one of its type.
\* A hash has its order of fields beside its value.
Held(context)           == context.state.keys[Key(context)].value.value
HeldOr(context, empty)  == IF LivesAt(context.state, Key(context), context.state.now)
                           THEN Held(context) ELSE empty
FieldOrder(context)     == IF LivesAt(context.state, Key(context), context.state.now)
                           THEN context.state.keys[Key(context)].value.fieldOrder ELSE <<>>

WrongType(state, key, type) == Found(state, key) /\ state.keys[key].value.type # type

\* A lookup answers one reply for a missing key and one for a key of the type.
Lookup(context, type, absent, present) ==
  LET after == ReadKey(context.state, Key(context), "read")
  IN Done(after, CASE ~Found(after, Key(context))         -> absent
                   [] WrongType(after, Key(context), type) -> WrongTypeReply
                   [] OTHER                                -> present)

\* A write of a new value of a type, whether the key exists or not.
Update(context, type, value, opts, reply) ==
  LET after == ReadKey(context.state, Key(context), "write")
  IN IF WrongType(after, Key(context), type) THEN Done(after, WrongTypeReply)
     ELSE Written(WriteKey(after, Key(context), value, opts), reply)

\* A removal leaves a smaller value, or no key at all.
Shrink(context, type, value, empty, absent, reply) ==
  LET after == ReadKey(context.state, Key(context), "write")
  IN CASE ~Found(after, Key(context))                -> Done(after, absent)
       [] WrongType(after, Key(context), type)      -> Done(after, WrongTypeReply)
       [] OTHER -> Done(IF empty THEN DeleteKey(after, Key(context))
                        ELSE WriteKey(after, Key(context), value, DropTtl).state, reply)

\* The slice of a list between two indices, which may count from its end.
Slice(list, startArg, stopArg) ==
  LET fromEnd(n) == IF n < 0 THEN Len(list) + n ELSE n
      start      == Max({0, fromEnd(Number[startArg])})
      stop       == Min({fromEnd(Number[stopArg]), Len(list) - 1})
  IN SubSeq(list, start + 1, stop + 1)

-----------------------------------------------------------------------------
(* string.ts *)

\* The number after the last occurrence of an option.
HasOption(opts, option) == \E i \in DOMAIN opts : opts[i] = option
OptionArg(opts, option) ==
  Number[opts[1 + Max({i \in DOMAIN opts : opts[i] = option})]]

SET(context) ==
  LET opts   == SubSeq(context.args, 3, Len(context.args))
      after  == ReadKey(context.state, Key(context), "write")
      exists == Found(after, Key(context))
      until  == CASE HasOption(opts, "EX") -> after.now + OptionArg(opts, "EX") * 1000
                  [] ~HasOption(opts, "EX") /\ HasOption(opts, "PX") ->
                       after.now + OptionArg(opts, "PX")
                  [] OTHER -> NoExpiry
  IN IF (HasOption(opts, "NX") /\ exists) \/ (HasOption(opts, "XX") /\ ~exists)
     THEN Done(after, Nil)
     ELSE Written(WriteKey(after, Key(context), Value("string", context.args[2]),
                           [keepTtl |-> HasOption(opts, "KEEPTTL"), expiresAt |-> until]),
                  Ok)

GET(context) == Lookup(context, "string", Nil, Bulk(Held(context)))

INCR(context) ==
  LET after   == ReadKey(context.state, Key(context), "write")
      current == HeldOr(context, "0")
      next    == Number[current] + 1
  IN CASE WrongType(after, Key(context), "string") -> Done(after, WrongTypeReply)
       [] ~WrongType(after, Key(context), "string") /\ ~IsInteger(current) ->
            Done(after, Error("ERR value is not an integer or out of range"))
       [] OTHER -> Written(WriteKey(after, Key(context), Value("string", ToString(next)), KeepTtl),
                           Integer(next))

\* One key of DEL.
Del(result, key) ==
  LET after == ReadKey(result.state, key, "write")
  IN IF Found(after, key)
     THEN [state |-> DeleteKey(after, key), removed |-> result.removed + 1]
     ELSE [state |-> after, removed |-> result.removed]

DEL(context) ==
  LET result == FoldLeft(Del, [state |-> context.state, removed |-> 0], context.args)
  IN Done(result.state, Integer(result.removed))

SETNX(context) ==
  LET after == ReadKey(context.state, Key(context), "write")
  IN IF Found(after, Key(context)) THEN Done(after, Integer(0))
     ELSE Written(WriteKey(after, Key(context), Value("string", context.args[2]), DropTtl),
                  Integer(1))

-----------------------------------------------------------------------------
(* keyspace.ts: a deadline is changed by writing the same value again *)

EXPIRE(context) ==
  LET after == ReadKey(context.state, Key(context), "write")
      at    == after.now + Number[context.args[2]] * 1000
  IN IF ~Found(after, Key(context)) THEN Done(after, Integer(0))
     ELSE Done(WriteKey(after, Key(context), after.keys[Key(context)].value,
                        ExpiresAt(at)).state, Integer(1))

TTL(context) ==
  LET after == ReadKey(context.state, Key(context), "read")
      left  == after.keys[Key(context)].expiresAt - after.now
  IN Done(after, CASE ~Found(after, Key(context)) -> Integer(-2)
                   [] Found(after, Key(context)) /\ after.keys[Key(context)].expiresAt = NoExpiry ->
                        Integer(-1)
                   [] OTHER -> Integer((left + 999) \div 1000))

PERSIST(context) ==
  LET after == ReadKey(context.state, Key(context), "write")
  IN IF ~Found(after, Key(context)) THEN Done(after, Integer(0))
     ELSE IF after.keys[Key(context)].expiresAt = NoExpiry THEN Done(after, Integer(0))
     ELSE Done(WriteKey(after, Key(context), after.keys[Key(context)].value, DropTtl).state,
               Integer(1))

Exists(result, key) ==
  LET after == ReadKey(result.state, key, "read")
  IN [state |-> after, count |-> result.count + (IF Found(after, key) THEN 1 ELSE 0)]

EXISTS(context) ==
  LET result == FoldLeft(Exists, [state |-> context.state, count |-> 0], context.args)
  IN Done(result.state, Integer(result.count))

TYPE(context) ==
  LET after == ReadKey(context.state, Key(context), "read")
  IN Done(after, Status(IF Found(after, Key(context)) THEN after.keys[Key(context)].value.type
                        ELSE "none"))

\* Enumerations look at keys without reading them.
Live(state, list) == SelectSeq(list, LAMBDA k : LivesAt(state, k, state.now))

KEYS(context) ==
  Done(context.state, Array(SelectSeq(Live(context.state, context.state.keyOrder),
                                      LAMBDA k : k \in Glob[context.args[1]])))

SCAN(context) ==
  LET order  == context.state.keyOrder
      cursor == Number[context.args[1]]
      count  == IF HasOption(context.args, "COUNT") THEN OptionArg(context.args, "COUNT") ELSE 10
      page   == SubSeq(order, cursor + 1, Min({cursor + count, Len(order)}))
      next   == IF cursor + count >= Len(order) THEN 0 ELSE cursor + count
  IN Done(context.state, Array(<<ToString(next)>> \o Live(context.state, page)))

DBSIZE(context) ==
  Done(context.state, Integer(Len(Live(context.state, context.state.keyOrder))))

-----------------------------------------------------------------------------
(* list.ts *)

LPUSH(context) ==
  LET list == Reverse(Tail(context.args)) \o HeldOr(context, <<>>)
  IN Update(context, "list", Value("list", list), DropTtl, Integer(Len(list)))

RPUSH(context) ==
  LET list == HeldOr(context, <<>>) \o Tail(context.args)
  IN Update(context, "list", Value("list", list), DropTtl, Integer(Len(list)))

LPOP(context) ==
  Shrink(context, "list", Value("list", Tail(Held(context))), Len(Held(context)) = 1,
         Nil, Bulk(Head(Held(context))))

RPOP(context) ==
  Shrink(context, "list", Value("list", Front(Held(context))), Len(Held(context)) = 1,
         Nil, Bulk(Last(Held(context))))

LRANGE(context) ==
  Lookup(context, "list", Array(<<>>),
         Array(Slice(Held(context), context.args[2], context.args[3])))

LLEN(context) == Lookup(context, "list", Integer(0), Integer(Len(Held(context))))

\* The keys of BLPOP before the first that holds anything are looked up and
\* missing; that one answers, whatever it holds.
BLPOP(context) ==
  LET keys    == Front(context.args)
      timeout == Number[Last(context.args)]
      present == {i \in DOMAIN keys : LivesAt(context.state, keys[i], context.state.now)}
      seen    == IF present = {} THEN keys ELSE SubSeq(keys, 1, Min(present))
      after   == FoldLeft(LAMBDA state, key : ReadKey(state, key, "write"), context.state, seen)
      key     == keys[Min(present)]
      list    == after.keys[key].value.value
      entry   == [ clientId  |-> context.clientId,
                   keys      |-> keys,
                   commandId |-> context.commandId,
                   timeoutAt |-> IF timeout > 0 THEN after.now + timeout * 1000 ELSE NoExpiry ]
  IN IF present = {}
     THEN [ state  |-> [after EXCEPT !.blocked = Append(@, entry)],
            reply  |-> Nil,
            parked |-> TRUE ]
     ELSE IF WrongType(after, key, "list") THEN Done(after, WrongTypeReply)
     ELSE Done(IF Len(list) = 1 THEN DeleteKey(after, key)
               ELSE WriteKey(after, key, Value("list", Tail(list)), DropTtl).state,
               Array(<<key, Head(list)>>))

-----------------------------------------------------------------------------
(* hash.ts *)

HashValue(fields, order) == [type |-> "hash", value |-> fields, fieldOrder |-> order]

NoFields == <<>>    \* the function without a field

HSET(context) ==
  LET named  == [i \in 1 .. (Len(context.args) - 1) \div 2 |-> context.args[2 * i]]
      old    == HeldOr(context, NoFields)
      fields == FoldLeft(LAMBDA f, i : (context.args[2 * i] :> context.args[2 * i + 1]) @@ f,
                         old, [i \in DOMAIN named |-> i])
      order  == FoldLeft(LAMBDA o, f : IF f \in Range(o) THEN o ELSE Append(o, f),
                         FieldOrder(context), named)
  IN Update(context, "hash", HashValue(fields, order), DropTtl,
            Integer(Cardinality(DOMAIN fields) - Cardinality(DOMAIN old)))

HGET(context) ==
  Lookup(context, "hash", Nil,
         IF context.args[2] \in DOMAIN Held(context)
         THEN Bulk(Held(context)[context.args[2]]) ELSE Nil)

HGETALL(context) ==
  Lookup(context, "hash", Array(<<>>),
         Array(FlattenSeq([i \in DOMAIN FieldOrder(context) |->
                             <<FieldOrder(context)[i], Held(context)[FieldOrder(context)[i]]>>])))

HDEL(context) ==
  LET dropped == Range(Tail(context.args))
      kept    == [f \in DOMAIN Held(context) \ dropped |-> Held(context)[f]]
      order   == SelectSeq(FieldOrder(context), LAMBDA f : f \notin dropped)
  IN Shrink(context, "hash", HashValue(kept, order), DOMAIN kept = {}, Integer(0),
            Integer(Cardinality(DOMAIN Held(context) \cap dropped)))

HINCRBY(context) ==
  LET field   == context.args[2]
      old     == HeldOr(context, NoFields)
      current == IF field \in DOMAIN old THEN old[field] ELSE "0"
      next    == Number[current] + Number[context.args[3]]
      order   == IF field \in DOMAIN old THEN FieldOrder(context)
                 ELSE Append(FieldOrder(context), field)
      after   == ReadKey(context.state, Key(context), "write")
  IN IF ~WrongType(after, Key(context), "hash") /\ ~IsInteger(current)
     THEN Done(after, Error("ERR hash value is not an integer"))
     ELSE Update(context, "hash", HashValue((field :> ToString(next)) @@ old, order), DropTtl,
                 Integer(next))

-----------------------------------------------------------------------------
(* set.ts: a set is kept in the order its members arrived *)

SADD(context) ==
  LET old == HeldOr(context, <<>>)
      new == FoldLeft(LAMBDA s, m : IF m \in Range(s) THEN s ELSE Append(s, m),
                      old, Tail(context.args))
  IN Update(context, "set", Value("set", new), DropTtl, Integer(Len(new) - Len(old)))

SREM(context) ==
  LET remaining == SelectSeq(Held(context), LAMBDA m : m \notin Range(Tail(context.args)))
  IN Shrink(context, "set", Value("set", remaining), remaining = <<>>, Integer(0),
            Integer(Len(Held(context)) - Len(remaining)))

SMEMBERS(context) == Lookup(context, "set", Array(<<>>), Array(Held(context)))

\* Every key is read up to the first of another type, which answers.
SINTER(context) ==
  LET keys    == context.args
      live(i) == LivesAt(context.state, keys[i], context.state.now)
      wrong   == {i \in DOMAIN keys : live(i) /\ context.state.keys[keys[i]].value.type # "set"}
      seen    == IF wrong = {} THEN keys ELSE SubSeq(keys, 1, Min(wrong))
      after   == FoldLeft(LAMBDA state, key : ReadKey(state, key, "read"), context.state, seen)
      members(i) == context.state.keys[keys[i]].value.value
  IN Done(after,
          CASE wrong # {} -> WrongTypeReply
            [] wrong = {} /\ \E i \in DOMAIN keys : ~live(i) -> Array(<<>>)
            [] OTHER -> Array(SelectSeq(members(1), LAMBDA m :
                                          \A i \in DOMAIN keys : m \in Range(members(i)))))

SISMEMBER(context) ==
  Lookup(context, "set", Integer(0),
         Integer(IF context.args[2] \in Range(Held(context)) THEN 1 ELSE 0))

SCARD(context) == Lookup(context, "set", Integer(0), Integer(Len(Held(context))))

-----------------------------------------------------------------------------
(* zset.ts *)

Entry(member, score) == [member |-> member, score |-> score]

\* Where a member stands in the entries, 0 when it does not.
Place(entries, member) ==
  LET places == {i \in DOMAIN entries : entries[i].member = member}
  IN IF places = {} THEN 0 ELSE Min(places)

Score(entries, member) ==
  IF Place(entries, member) = 0 THEN 0 ELSE entries[Place(entries, member)].score

\* An entry takes the place of its member's, or the last one.
Scored(entries, member, score) ==
  IF Place(entries, member) = 0 THEN Append(entries, Entry(member, score))
  ELSE [entries EXCEPT ![Place(entries, member)] = Entry(member, score)]

Lexically(member) == CHOOSE i \in DOMAIN MemberOrder : MemberOrder[i] = member

SortedAscending(entries) ==
  SortSeq(entries, LAMBDA a, b :
            \/ a.score < b.score
            \/ a.score = b.score /\ Lexically(a.member) < Lexically(b.member))

ZADD(context) ==
  LET args == context.args
      old  == HeldOr(context, <<>>)
      new  == FoldLeft(LAMBDA z, i : Scored(z, args[2 * i + 1], Number[args[2 * i]]), old,
                       [i \in 1 .. (Len(args) - 1) \div 2 |-> i])
  IN Update(context, "zset", Value("zset", new), DropTtl, Integer(Len(new) - Len(old)))

ZINCRBY(context) ==
  LET member == context.args[3]
      old    == HeldOr(context, <<>>)
      next   == Score(old, member) + Number[context.args[2]]
  IN Update(context, "zset", Value("zset", Scored(old, member, next)), DropTtl,
            Bulk(ToString(next)))

\* The entries of a slice, with their scores where asked for.
Listed(context, ordered) ==
  LET slice == Slice(ordered, context.args[2], context.args[3])
  IN Array(FlattenSeq([i \in DOMAIN slice |->
                         <<slice[i].member>> \o
                         (IF HasOption(context.args, "WITHSCORES")
                          THEN <<ToString(slice[i].score)>> ELSE <<>>)]))

ZRANGE(context) ==
  Lookup(context, "zset", Array(<<>>), Listed(context, SortedAscending(Held(context))))

ZREVRANGE(context) ==
  Lookup(context, "zset", Array(<<>>), Listed(context, Reverse(SortedAscending(Held(context)))))

ZSCORE(context) ==
  Lookup(context, "zset", Nil,
         IF Place(Held(context), context.args[2]) = 0 THEN Nil
         ELSE Bulk(ToString(Score(Held(context), context.args[2]))))

ZCARD(context) == Lookup(context, "zset", Integer(0), Integer(Len(Held(context))))

ParseScoreBound(arg) ==
  CASE arg = "-inf" -> -Infinity [] arg = "+inf" -> Infinity [] OTHER -> Number[arg]

InBounds(context, entry) ==
  /\ entry.score >= ParseScoreBound(context.args[2])
  /\ entry.score <= ParseScoreBound(context.args[3])

\* A removal that removes nothing writes nothing.
ZREMRANGEBYSCORE(context) ==
  LET after   == ReadKey(context.state, Key(context), "write")
      kept    == SelectSeq(Held(context), LAMBDA e : ~InBounds(context, e))
      removed == Len(Held(context)) - Len(kept)
  IN IF Found(after, Key(context)) /\ ~WrongType(after, Key(context), "zset") /\ removed = 0
     THEN Done(after, Integer(0))
     ELSE Shrink(context, "zset", Value("zset", kept), kept = <<>>, Integer(0), Integer(removed))

ZCOUNT(context) ==
  Lookup(context, "zset", Integer(0),
         Integer(Len(SelectSeq(Held(context), LAMBDA e : InBounds(context, e)))))

-----------------------------------------------------------------------------
(* server.ts *)

\* Real Redis writes no limit as 0.
MaxmemoryShown(server) == IF server.maxmemoryBytes = Unlimited THEN 0 ELSE server.maxmemoryBytes

ConfigGet(context) ==
  CASE context.args[2] = "maxmemory-policy" ->
         Array(<<"maxmemory-policy", context.state.server.evictionPolicy>>)
    [] context.args[2] = "maxmemory" ->
         Array(<<"maxmemory", ToString(MaxmemoryShown(context.state.server))>>)
    [] OTHER -> Error("ERR Unknown CONFIG parameter")

\* The change takes effect at the next write that asks for room.
ConfigSet(context) ==
  LET param == context.args[2]
      value == context.args[3]
  IN CASE param = "maxmemory-policy" /\ value \in Policies ->
            Done([context.state EXCEPT !.server.evictionPolicy = value], Ok)
       [] param = "maxmemory" /\ IsInteger(value) /\ Number[value] >= 0 ->
            Done([context.state EXCEPT !.server.maxmemoryBytes =
                    IF Number[value] = 0 THEN Unlimited ELSE Number[value]], Ok)
       [] OTHER -> Done(context.state, Error("ERR CONFIG SET"))

CONFIG(context) ==
  CASE context.args[1] = "GET" -> Done(context.state, ConfigGet(context))
    [] context.args[1] = "SET" -> ConfigSet(context)
    [] OTHER -> Done(context.state, Error("ERR Unknown CONFIG subcommand"))

INFO(context) ==
  Done(context.state, Status([ metrics   |-> context.state.metrics,
                               maxmemory |-> MaxmemoryShown(context.state.server),
                               policy    |-> context.state.server.evictionPolicy ]))

CLUSTER(context) ==
  Done(context.state, IF context.args[1] = "KEYSLOT" THEN Integer(KeySlot[context.args[2]])
                      ELSE Error("ERR Unknown CLUSTER subcommand"))

BGSAVE(context)    == Done(context.state, Status("Background saving started"))
REPLICAOF(context) == Done(context.state, Ok)

-----------------------------------------------------------------------------
(* tx.ts *)

IsInTransaction(state, clientId) == clientId \in DOMAIN state.txQueues

QueueCommand(state, clientId, name, args) ==
  [state EXCEPT !.txQueues[clientId] = Append(@, [name |-> name, args |-> args])]

NothingWatched == <<>>    \* the function without a key

\* A client leaves its transaction, and what it watched with it.
LeaveTransaction(state, clientId) ==
  [state EXCEPT !.txQueues = [c \in DOMAIN @ \ {clientId} |-> @[c]],
                !.watched[clientId] = NothingWatched]

MULTI(context) ==
  IF IsInTransaction(context.state, context.clientId)
  THEN Done(context.state, Error("ERR MULTI calls can not be nested"))
  ELSE Done([context.state EXCEPT !.txQueues = (context.clientId :> <<>>) @@ @], Ok)

DISCARD(context) ==
  IF IsInTransaction(context.state, context.clientId)
  THEN Done(LeaveTransaction(context.state, context.clientId), Ok)
  ELSE Done(context.state, Error("ERR DISCARD without MULTI"))

\* Watching a key again takes its present version.
WATCH(context) ==
  IF IsInTransaction(context.state, context.clientId)
  THEN Done(context.state, Error("ERR WATCH inside MULTI is not allowed"))
  ELSE Done([context.state EXCEPT !.watched[context.clientId] =
               [k \in Range(context.args) |-> Version(context.state, k)] @@ @], Ok)

\* Mutant: EXEC does not look at what was watched.
DirtyNever(state, clientId) == FALSE

\* A watched key has changed since it was watched.
Dirty(state, clientId) ==
  \E k \in DOMAIN state.watched[clientId] :
     Version(state, k) # state.watched[clientId][k]
=============================================================================
