------------------------------ MODULE RedisScripting ------------------------------
(***************************************************************************)
(* EVAL and EXEC: commands that run other commands.  The Lua evaluator is  *)
(* lua/eval.ts, its bridge to the commands script.ts, and EXEC the rest of *)
(* tx.ts, all of src/src/brokers/redis/engine.                             *)
(*                                                                         *)
(* A Lua value is a tagged record; numbers are integers.  An evaluation    *)
(* carries a machine: the flat scope, the Redis state the calls work on,   *)
(* the value of the last expression, and a signal, which is "return" or    *)
(* "error" once the code has thrown a ReturnSignal or a LuaRuntimeError.   *)
(* Scripts call neither EVAL nor EXEC.                                     *)
(***************************************************************************)
EXTENDS RedisCommands, LuaParser

CONSTANT Scripts    \* the tokens that a script's text lexes to

\* What the script's text parses to.
Programs == [text \in DOMAIN Scripts |-> Parse(Scripts[text])]

-----------------------------------------------------------------------------
(* commands/index.ts *)

DataCommands ==
  {"SET", "GET", "INCR", "DEL", "SETNX", "EXPIRE", "TTL", "PERSIST", "EXISTS", "TYPE", "KEYS",
   "SCAN", "DBSIZE", "LPUSH", "RPUSH", "LPOP", "RPOP", "LRANGE", "LLEN", "BLPOP", "HSET", "HGET",
   "HGETALL", "HDEL", "HINCRBY", "SADD", "SREM", "SMEMBERS", "SINTER", "SISMEMBER", "SCARD",
   "ZADD", "ZINCRBY", "ZRANGE", "ZREVRANGE", "ZSCORE", "ZCARD", "ZREMRANGEBYSCORE", "ZCOUNT",
   "CONFIG", "INFO", "CLUSTER", "BGSAVE", "REPLICAOF", "MULTI", "DISCARD", "WATCH"}

Handle(name, c) ==
  CASE name = "SET"    -> SET(c)    [] name = "GET"     -> GET(c)     [] name = "INCR"   -> INCR(c)
    [] name = "DEL"    -> DEL(c)    [] name = "SETNX"   -> SETNX(c)   [] name = "EXPIRE" -> EXPIRE(c)
    [] name = "TTL"    -> TTL(c)    [] name = "PERSIST" -> PERSIST(c) [] name = "EXISTS" -> EXISTS(c)
    [] name = "TYPE"   -> TYPE(c)   [] name = "KEYS"    -> KEYS(c)    [] name = "SCAN"   -> SCAN(c)
    [] name = "DBSIZE" -> DBSIZE(c) [] name = "LPUSH"   -> LPUSH(c)   [] name = "RPUSH"  -> RPUSH(c)
    [] name = "LPOP"   -> LPOP(c)   [] name = "RPOP"    -> RPOP(c)    [] name = "LRANGE" -> LRANGE(c)
    [] name = "LLEN"   -> LLEN(c)   [] name = "BLPOP"   -> BLPOP(c)   [] name = "HSET"   -> HSET(c)
    [] name = "HGET"   -> HGET(c)   [] name = "HGETALL" -> HGETALL(c) [] name = "HDEL"   -> HDEL(c)
    [] name = "HINCRBY"   -> HINCRBY(c)   [] name = "SADD"     -> SADD(c)
    [] name = "SREM"      -> SREM(c)      [] name = "SMEMBERS" -> SMEMBERS(c)
    [] name = "SINTER"    -> SINTER(c)    [] name = "SISMEMBER" -> SISMEMBER(c)
    [] name = "SCARD"     -> SCARD(c)     [] name = "ZADD"     -> ZADD(c)
    [] name = "ZINCRBY"   -> ZINCRBY(c)   [] name = "ZRANGE"   -> ZRANGE(c)
    [] name = "ZREVRANGE" -> ZREVRANGE(c) [] name = "ZSCORE"   -> ZSCORE(c)
    [] name = "ZCARD"     -> ZCARD(c)     [] name = "ZCOUNT"   -> ZCOUNT(c)
    [] name = "ZREMRANGEBYSCORE" -> ZREMRANGEBYSCORE(c)
    [] name = "CONFIG"  -> CONFIG(c)  [] name = "INFO"      -> INFO(c)
    [] name = "CLUSTER" -> CLUSTER(c) [] name = "BGSAVE"    -> BGSAVE(c)
    [] name = "MULTI"   -> MULTI(c)   [] name = "REPLICAOF" -> REPLICAOF(c)
    [] name = "DISCARD" -> DISCARD(c) [] name = "WATCH"     -> WATCH(c)

-----------------------------------------------------------------------------
(* Lua values *)

LuaNumber(n)   == [tag |-> "number", n |-> n]
LuaString(s)   == [tag |-> "string", s |-> s]
LuaBool(b)     == [tag |-> "bool", b |-> b]
LuaNil         == [tag |-> "nil"]
LuaTable(list) == [tag |-> "table", list |-> list]
LuaList(texts) == LuaTable([i \in DOMAIN texts |-> LuaString(texts[i])])

Truthy(v) == v # LuaNil /\ v # LuaBool(FALSE)

IsNumeric(v) == v.tag = "number" \/ (v.tag = "string" /\ IsInteger(v.s))
ToNumber(v)  == IF v.tag = "number" THEN v.n ELSE Number[v.s]

IsCommandArg(v) == v.tag \in {"string", "number", "nil"} \/ v = LuaBool(FALSE)
ToCommandArg(v) ==
  CASE v.tag = "string" -> v.s [] v.tag = "number" -> ToString(v.n) [] OTHER -> ""

\* A machine that goes on, one that returns, and one that has failed.
Valued(m, v)  == [m EXCEPT !.value = v]
Goes(m)       == m.signal = ""
Failed(m, why) == [m EXCEPT !.signal = "error", !.value = LuaString(why)]

-----------------------------------------------------------------------------
(* lua/eval.ts and script.ts *)

\* What a script sees of a reply.  An error is thrown.
ReplyToLua(m, reply) ==
  CASE reply.kind = "error" -> Failed(m, reply.value)
    [] reply.kind = "nil"   -> Valued(m, LuaBool(FALSE))
    [] reply.kind = "integer" -> Valued(m, LuaNumber(reply.value))
    [] reply.kind \in {"status", "bulk"} -> Valued(m, LuaString(reply.value))
    [] reply.kind = "array" -> Valued(m, LuaList(reply.value))

LuaToReply(v) ==
  CASE v = LuaNil \/ v = LuaBool(FALSE) -> Nil
    [] v.tag = "number" -> Integer(v.n)
    [] v.tag = "string" -> Bulk(v.s)
    [] v.tag = "table"  -> Array([i \in DOMAIN v.list |-> ToCommandArg(v.list[i])])
    [] v = LuaBool(TRUE) -> Integer(1)

\* redis.call on evaluated arguments: the command's effects stay whatever
\* becomes of the script.
Called(m, handled) == ReplyToLua([m EXCEPT !.state = handled.state], handled.reply)

RedisCall(m, env, name, args) ==
  IF name \notin DataCommands THEN Failed(m, "Unknown Redis command called from script")
  ELSE Called(m, Handle(name, [env.context EXCEPT !.state = m.state, !.args = args]))

\* redis.pcall answers nil instead of failing.
Protected(fn, m) ==
  IF fn = "pcall" /\ m.signal = "error" THEN Valued([m EXCEPT !.signal = ""], LuaNil) ELSE m

\* Scripts divide numbers that leave no remainder.
Arithmetic(op, a, b) ==
  CASE op = "+" -> LuaNumber(a + b) [] op = "-" -> LuaNumber(a - b)
    [] op = "*" -> LuaNumber(a * b) [] op = "/" -> LuaNumber(a \div b)
    [] op = "<" -> LuaBool(a < b)   [] op = ">" -> LuaBool(a > b)
    [] op = "<=" -> LuaBool(a <= b) [] op = ">=" -> LuaBool(a >= b)

\* One expression or statement.  Whatever evaluates a part of itself comes
\* back to this operator.
RECURSIVE Run(_, _, _)

\* The values of several expressions, from left to right.
Collected(m, next) ==
  IF Goes(next) THEN Valued(next, LuaTable(Append(m.value.list, next.value))) ELSE next

EvalAll(exprs, m, env) ==
  FoldLeft(LAMBDA before, expr : IF Goes(before) THEN Collected(before, Run(expr, before, env))
                                 ELSE before,
           Valued(m, LuaTable(<<>>)), exprs)

EvalVar(name, m, env) ==
  CASE name = "KEYS" -> Valued(m, LuaList(env.keys))
    [] name = "ARGV" -> Valued(m, LuaList(env.argv))
    [] name \notin {"KEYS", "ARGV"} /\ name \in DOMAIN m.scope -> Valued(m, m.scope[name])
    [] OTHER -> Failed(m, "undefined variable")

EvalIndex(expr, m, env) ==
  LET target == Run(expr.target, m, env)
      index  == Run(expr.index, target, env)
      list   == target.value.list
      at     == ToNumber(index.value)
  IN CASE ~Goes(target) -> target
       [] Goes(target) /\ ~Goes(index) -> index
       [] Goes(target) /\ Goes(index) /\ (~IsNumeric(index.value) \/ target.value.tag # "table") ->
            Failed(index, "attempt to index")
       [] OTHER -> Valued(index, IF at \in DOMAIN list THEN list[at] ELSE LuaNil)

\* The call of a command with evaluated arguments.
CallWith(fn, args, env) ==
  LET values == args.value.list
      texts  == [i \in DOMAIN values |-> ToCommandArg(values[i])]
  IN IF ~Goes(args) THEN args
     ELSE IF \E i \in DOMAIN values : ~IsCommandArg(values[i]) THEN Failed(args, "cannot use")
     ELSE Protected(fn, RedisCall(args, env, IF texts = <<>> THEN "" ELSE Head(texts),
                                  IF texts = <<>> THEN <<>> ELSE Tail(texts)))

\* Only redis.call and redis.pcall may be called.
EvalCall(expr, m, env) ==
  LET callee == expr.callee
  IN IF callee.kind # "field" THEN Failed(m, "only redis.call and redis.pcall may be called")
     ELSE IF callee.target # Var("redis") \/ callee.name \notin {"call", "pcall"}
     THEN Failed(m, "unsupported")
     ELSE CallWith(callee.name, EvalAll(expr.args, m, env), env)

\* and, or: the right operand is evaluated only when it decides.
EvalLogical(expr, m, env) ==
  LET left == Run(expr.left, m, env)
  IN IF ~Goes(left) \/ (Truthy(left.value) # (expr.op = "and")) THEN left
     ELSE Run(expr.right, left, env)

EvalBinary(expr, m, env) ==
  LET both  == EvalAll(<<expr.left, expr.right>>, m, env)
      left  == both.value.list[1]
      right == both.value.list[2]
  IN IF ~Goes(both) THEN both
     ELSE IF expr.op \in {"==", "~="} THEN Valued(both, LuaBool((left = right) = (expr.op = "==")))
     ELSE IF ~IsNumeric(left) \/ ~IsNumeric(right) THEN Failed(both, "cannot coerce to a number")
     ELSE Valued(both, Arithmetic(expr.op, ToNumber(left), ToNumber(right)))

EvalUnary(expr, m, env) ==
  LET operand == Run(expr.expr, m, env)
  IN IF ~Goes(operand) THEN operand
     ELSE IF expr.op = "not" THEN Valued(operand, LuaBool(~Truthy(operand.value)))
     ELSE IF IsNumeric(operand.value) THEN Valued(operand, LuaNumber(-ToNumber(operand.value)))
     ELSE Failed(operand, "cannot coerce to a number")

EvalExpr(expr, m, env) ==
  CASE expr.kind = "number" -> Valued(m, LuaNumber(Number[expr.value]))
    [] expr.kind = "string" -> Valued(m, LuaString(expr.value))
    [] expr.kind = "bool"   -> Valued(m, LuaBool(expr.value = "true"))
    [] expr.kind = "nil"    -> Valued(m, LuaNil)
    [] expr.kind = "var"    -> EvalVar(expr.name, m, env)
    [] expr.kind = "index"  -> EvalIndex(expr, m, env)
    [] expr.kind = "field"  -> Failed(m, "unsupported field access")
    [] expr.kind = "call"   -> EvalCall(expr, m, env)
    [] expr.kind = "unary"  -> EvalUnary(expr, m, env)
    [] expr.kind = "binary" -> IF expr.op \in {"and", "or"} THEN EvalLogical(expr, m, env)
                               ELSE EvalBinary(expr, m, env)

Set(m, name, value) == [m EXCEPT !.scope = (name :> value) @@ @]

ExecBlock(stmts, m, env) ==
  FoldLeft(LAMBDA before, stmt : IF Goes(before) THEN Run(stmt, before, env) ELSE before, m, stmts)

\* The first branch whose condition holds; the conditions behind it are not evaluated.
ExecIf(stmt, m, env) ==
  LET cond == Run(Head(stmt.branches).cond, m, env)
  IN IF stmt.branches = <<>> THEN ExecBlock(stmt.elseBody, m, env)
     ELSE IF ~Goes(cond) THEN cond
     ELSE IF Truthy(cond.value) THEN ExecBlock(Head(stmt.branches).body, cond, env)
     ELSE Run([stmt EXCEPT !.branches = Tail(@)], cond, env)

ExecWhile(stmt, m, env) ==
  LET cond == Run(stmt.cond, m, env)
      body == ExecBlock(stmt.body, cond, env)
  IN IF ~Goes(cond) \/ ~Truthy(cond.value) THEN cond
     ELSE IF Goes(body) THEN Run(stmt, body, env) ELSE body

\* The bounds are evaluated once; no step of the scripts is zero.
ExecLoop(stmt, m, env) ==
  LET from  == ToNumber(m.value.list[1])
      to    == ToNumber(m.value.list[2])
      step  == IF Len(m.value.list) = 3 THEN ToNumber(m.value.list[3]) ELSE 1
      times == IF step > 0 THEN (to - from) \div step ELSE (from - to) \div (-step)
  IN FoldLeft(LAMBDA before, i : IF Goes(before)
                                 THEN ExecBlock(stmt.body, Set(before, stmt.varName, LuaNumber(i)), env)
                                 ELSE before,
              m, [n \in 1 .. times + 1 |-> from + (n - 1) * step])

ExecFor(stmt, bounds, env) ==
  LET list == bounds.value.list
  IN IF ~Goes(bounds) THEN bounds
     ELSE IF \E i \in DOMAIN list : ~IsNumeric(list[i]) THEN Failed(bounds, "cannot coerce to a number")
     ELSE ExecLoop(stmt, bounds, env)

ExecAssign(stmt, m, env) ==
  LET value == Run(stmt.expr, m, env)
  IN IF Goes(value) THEN Set(value, stmt.name, value.value) ELSE value

ExecReturn(stmt, m, env) ==
  LET value == IF stmt.exprs = <<>> THEN Valued(m, LuaNil) ELSE Run(stmt.exprs[1], m, env)
  IN IF Goes(value) THEN [value EXCEPT !.signal = "return"] ELSE value

ExecStmt(stmt, m, env) ==
  CASE stmt.kind \in {"local", "assign"} -> ExecAssign(stmt, m, env)
    [] stmt.kind = "if"         -> ExecIf(stmt, m, env)
    [] stmt.kind = "while"      -> ExecWhile(stmt, m, env)
    [] stmt.kind = "forNumeric" -> ExecFor(stmt, EvalAll(stmt.bounds, m, env), env)
    [] stmt.kind = "return"     -> ExecReturn(stmt, m, env)
    [] stmt.kind = "exprStmt"   -> Run(stmt.expr, m, env)

Statements == {"local", "assign", "if", "while", "forNumeric", "return", "exprStmt"}

Run(node, m, env) ==
  IF node.kind \in Statements THEN ExecStmt(node, m, env) ELSE EvalExpr(node, m, env)

\* A script without a return gives nil.
OrNil(m) == IF Goes(m) THEN Valued(m, LuaNil) ELSE m

EvalProgram(program, state, env) ==
  OrNil(ExecBlock(program, [scope |-> <<>>, state |-> state, signal |-> "", value |-> LuaNil], env))

\* What the client gets when the program has ended.
Ended(m) == Done(m.state, IF m.signal = "error" THEN Error(m.value.s) ELSE LuaToReply(m.value))

RunScript(parsed, context) ==
  LET n    == Number[context.args[2]]
      rest == SubSeq(context.args, 3, Len(context.args))
      env  == [ keys    |-> SubSeq(rest, 1, n),
                argv    |-> SubSeq(rest, n + 1, Len(rest)),
                context |-> context ]
  IN IF ~parsed.ok THEN Done(context.state, Error("ERR Error compiling script"))
     ELSE Ended(EvalProgram(parsed.tree, context.state, env))

\* EVAL script numkeys key ... arg ...
EVAL(context) ==
  IF ~IsInteger(context.args[2]) \/ Number[context.args[2]] < 0
  THEN Done(context.state, Error("ERR value is not an integer or out of range"))
  ELSE RunScript(Programs[context.args[1]], context)

-----------------------------------------------------------------------------
(* tx.ts: EXEC *)

HandleQueued(name, context) == IF name = "EVAL" THEN EVAL(context) ELSE Handle(name, context)

\* One more command has run.
Ran(result, handled) ==
  [state |-> handled.state, replies |-> Append(result.replies, handled.reply)]

AllRan(result) == Done(result.state, Multi(result.replies))

\* The queued commands one after another, unless a watched key has changed.
EXEC(context) ==
  LET run(result, command) ==
        Ran(result, HandleQueued(command.name, [context EXCEPT !.state = result.state,
                                                               !.args  = command.args]))
      left == LeaveTransaction(context.state, context.clientId)
  IN CASE ~IsInTransaction(context.state, context.clientId) ->
            Done(context.state, Error("ERR EXEC without MULTI"))
       [] IsInTransaction(context.state, context.clientId) /\ Dirty(context.state, context.clientId) ->
            Done(left, Nil)
       [] OTHER -> AllRan(FoldLeft(run, [state |-> left, replies |-> <<>>],
                                   context.state.txQueues[context.clientId]))

HandleCommand(name, context) ==
  IF name = "EXEC" THEN EXEC(context) ELSE HandleQueued(name, context)
=============================================================================
