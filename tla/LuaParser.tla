---------------------------------- MODULE LuaParser ----------------------------------
(***************************************************************************)
(* The parser of EVAL's Lua subset, src/src/brokers/redis/engine/lua/      *)
(* parse.ts: from tokens [type, value] to a program, a sequence of         *)
(* statements.                                                             *)
(*                                                                         *)
(* A parsing operator takes the tokens and a position, and gives the tree  *)
(* it reads with the position behind it; ok is FALSE when the code throws  *)
(* a LuaSyntaxError, and nothing after that counts.                        *)
(***************************************************************************)
EXTENDS Integers, Sequences

Read(tree, pos) == [ok |-> TRUE, tree |-> tree, pos |-> pos]
SyntaxError     == [ok |-> FALSE, tree |-> <<>>, pos |-> 0]

At(tokens, pos, types) == tokens[pos].type \in types

\* A read that must be followed by a token of a type, which is passed over.
Expecting(tokens, read, type) ==
  IF read.ok /\ At(tokens, read.pos, {type}) THEN [read EXCEPT !.pos = @ + 1] ELSE SyntaxError

-----------------------------------------------------------------------------
(* Expressions *)

Binary(op, left, right) == [kind |-> "binary", op |-> op, left |-> left, right |-> right]
Unary(op, expr)         == [kind |-> "unary", op |-> op, expr |-> expr]
Call(callee, args)      == [kind |-> "call", callee |-> callee, args |-> args]
Index(target, index)    == [kind |-> "index", target |-> target, index |-> index]
Field(target, name)     == [kind |-> "field", target |-> target, name |-> name]
Literal(kind, value)    == [kind |-> kind, value |-> value]
Var(name)               == [kind |-> "var", name |-> name]

\* The operators of each level, the loosest first.
Ops(level) ==
  <<{"or"}, {"and"}, {"==", "~=", "<", ">", "<=", ">="}, {"+", "-"}, {"*", "/"}>>[level]

RECURSIVE ParseLevel(_, _, _)
RECURSIVE ParseMore(_, _, _)
RECURSIVE ParseUnary(_, _)
RECURSIVE ParsePostfix(_, _)
RECURSIVE ParseArgs(_, _)

ParseExpr(tokens, pos) == ParseLevel(tokens, pos, 1)

ParseLevel(tokens, pos, level) ==
  IF level > 5 THEN ParseUnary(tokens, pos)
  ELSE ParseMore(tokens, ParseLevel(tokens, pos, level + 1), level)

\* Operators of one level associate to the left.
ParseMore(tokens, left, level) ==
  IF ~left.ok THEN left
  ELSE IF ~At(tokens, left.pos, Ops(level)) THEN left
  ELSE LET right == ParseLevel(tokens, left.pos + 1, level + 1)
       IN IF ~right.ok THEN right
          ELSE ParseMore(tokens,
                         Read(Binary(tokens[left.pos].type, left.tree, right.tree), right.pos),
                         level)

ParseUnary(tokens, pos) ==
  IF At(tokens, pos, {"-", "not"})
  THEN LET operand == ParseUnary(tokens, pos + 1)
       IN IF operand.ok THEN Read(Unary(tokens[pos].type, operand.tree), operand.pos)
          ELSE operand
  ELSE ParsePostfix(tokens,
         CASE At(tokens, pos, {"number", "string"}) ->
                Read(Literal(tokens[pos].type, tokens[pos].value), pos + 1)
           [] At(tokens, pos, {"true", "false"}) -> Read(Literal("bool", tokens[pos].type), pos + 1)
           [] At(tokens, pos, {"nil"})           -> Read(Literal("nil", ""), pos + 1)
           [] At(tokens, pos, {"ident"})         -> Read(Var(tokens[pos].value), pos + 1)
           [] At(tokens, pos, {"("})             ->
                Expecting(tokens, ParseExpr(tokens, pos + 1), ")")
           [] OTHER -> SyntaxError)

ParsePostfix(tokens, expr) ==
  IF ~expr.ok THEN expr
  ELSE CASE At(tokens, expr.pos, {"["}) ->
              LET index == Expecting(tokens, ParseExpr(tokens, expr.pos + 1), "]")
              IN IF index.ok
                 THEN ParsePostfix(tokens, Read(Index(expr.tree, index.tree), index.pos))
                 ELSE index
         [] At(tokens, expr.pos, {"."}) ->
              LET name == Expecting(tokens, Read(<<>>, expr.pos + 1), "ident")
              IN IF name.ok
                 THEN ParsePostfix(tokens,
                        Read(Field(expr.tree, tokens[expr.pos + 1].value), name.pos))
                 ELSE name
         [] At(tokens, expr.pos, {"("}) ->
              LET args == IF At(tokens, expr.pos + 1, {")"}) THEN Read(<<>>, expr.pos + 1)
                          ELSE ParseArgs(tokens, Read(<<>>, expr.pos + 1))
                  call == Expecting(tokens, args, ")")
              IN IF call.ok
                 THEN ParsePostfix(tokens, Read(Call(expr.tree, args.tree), call.pos))
                 ELSE call
         [] OTHER -> expr

\* One argument more, and after a comma the next.
ParseArgs(tokens, args) ==
  LET arg == ParseExpr(tokens, args.pos)
  IN IF ~arg.ok THEN arg
     ELSE IF At(tokens, arg.pos, {","})
     THEN ParseArgs(tokens, Read(Append(args.tree, arg.tree), arg.pos + 1))
     ELSE Read(Append(args.tree, arg.tree), arg.pos)

-----------------------------------------------------------------------------
(* Statements *)

Local(name, expr)       == [kind |-> "local", name |-> name, expr |-> expr]
Assign(name, expr)      == [kind |-> "assign", name |-> name, expr |-> expr]
If(branches, elseBody)  == [kind |-> "if", branches |-> branches, elseBody |-> elseBody]
Branch(cond, body)      == [cond |-> cond, body |-> body]
While(cond, body)       == [kind |-> "while", cond |-> cond, body |-> body]
For(name, bounds, body) == [kind |-> "forNumeric", varName |-> name, bounds |-> bounds,
                            body |-> body]
Return(exprs)           == [kind |-> "return", exprs |-> exprs]
ExprStmt(expr)          == [kind |-> "exprStmt", expr |-> expr]

RECURSIVE ParseStmt(_, _)
RECURSIVE ParseBlock(_, _, _)
RECURSIVE ParseBranches(_, _)

\* Statements up to a token of the enders, which is not passed over.  A block
\* that meets the end of the script instead throws.
ParseBlock(tokens, block, enders) ==
  IF ~block.ok THEN block
  ELSE IF At(tokens, block.pos, enders) THEN block
  ELSE IF At(tokens, block.pos, {"eof"}) THEN SyntaxError
  ELSE LET stmt == ParseStmt(tokens, block.pos)
       IN IF stmt.ok
          THEN ParseBlock(tokens, Read(Append(block.tree, stmt.tree), stmt.pos), enders)
          ELSE stmt

\* The block behind a token of a type, and the "end" behind the block.
ParseBody(tokens, head, opener) ==
  LET opened == Expecting(tokens, head, opener)
  IN IF opened.ok
     THEN Expecting(tokens, ParseBlock(tokens, [opened EXCEPT !.tree = <<>>], {"end"}), "end")
     ELSE opened

\* A condition with its block, and the branches behind each elseif.
Branching(tokens, branches, cond, body) ==
  LET more == Read(Append(branches.tree, Branch(cond.tree, body.tree)), body.pos)
  IN IF ~cond.ok THEN cond
     ELSE IF ~body.ok THEN body
     ELSE IF At(tokens, body.pos, {"elseif"})
     THEN ParseBranches(tokens, [more EXCEPT !.pos = @ + 1])
     ELSE more

BranchBody(tokens, branches, cond) ==
  Branching(tokens, branches, cond,
            ParseBlock(tokens, Read(<<>>, cond.pos), {"elseif", "else", "end"}))

ParseBranches(tokens, branches) ==
  BranchBody(tokens, branches, Expecting(tokens, ParseExpr(tokens, branches.pos), "then"))

\* A statement with its body, or what went wrong before or in the body.
Headed(head, body, stmt) ==
  IF ~head.ok THEN head ELSE IF body.ok THEN Read(stmt, body.pos) ELSE body

IfElse(tokens, branches) ==
  LET closed == IF At(tokens, branches.pos, {"else"})
                THEN ParseBody(tokens, branches, "else")
                ELSE Expecting(tokens, [branches EXCEPT !.tree = <<>>], "end")
  IN Headed(branches, closed, If(branches.tree, closed.tree))

ParseIf(tokens, pos) == IfElse(tokens, ParseBranches(tokens, Read(<<>>, pos + 1)))

ParseWhile(tokens, cond) ==
  LET body == ParseBody(tokens, cond, "do")
  IN Headed(cond, body, While(cond.tree, body.tree))

\* A name and its "=", which local and for have behind their keyword.
Named(tokens, pos) == Expecting(tokens, Expecting(tokens, Read(<<>>, pos + 1), "ident"), "=")

\* The bounds of a for loop: from, to, and a step if there is one.
ParseFor(tokens, name, bounds) ==
  LET body == ParseBody(tokens, bounds, "do")
  IN IF bounds.ok /\ Len(bounds.tree) \notin {2, 3} THEN SyntaxError
     ELSE Headed(bounds, body, For(name, bounds.tree, body.tree))

\* A statement that ends in an expression.
Ending(expr, stmt) == IF expr.ok THEN Read(stmt, expr.pos) ELSE expr

ParseSimple(tokens, pos, expr) ==
  CASE At(tokens, pos, {"local"})  -> Ending(expr, Local(tokens[pos + 1].value, expr.tree))
    [] At(tokens, pos, {"return"}) -> Ending(expr, Return(<<expr.tree>>))
    [] At(tokens, pos, {"ident"}) /\ At(tokens, pos + 1, {"="}) ->
         Ending(expr, Assign(tokens[pos].value, expr.tree))
    [] OTHER -> Ending(expr, ExprStmt(expr.tree))

\* Where the expression of a simple statement starts, or an error before it.
ExprStart(tokens, pos) ==
  CASE At(tokens, pos, {"local"})  -> Named(tokens, pos)
    [] At(tokens, pos, {"return"}) -> Read(<<>>, pos + 1)
    [] At(tokens, pos, {"ident"}) /\ At(tokens, pos + 1, {"="}) -> Read(<<>>, pos + 2)
    [] OTHER -> Read(<<>>, pos)

ExprFrom(tokens, start) == IF start.ok THEN ParseExpr(tokens, start.pos) ELSE start
ArgsFrom(tokens, start) == IF start.ok THEN ParseArgs(tokens, start) ELSE start

ParseStmt(tokens, pos) ==
  CASE At(tokens, pos, {"if"})    -> ParseIf(tokens, pos)
    [] At(tokens, pos, {"while"}) -> ParseWhile(tokens, ParseExpr(tokens, pos + 1))
    [] At(tokens, pos, {"for"})   ->
         ParseFor(tokens, tokens[pos + 1].value, ArgsFrom(tokens, Named(tokens, pos)))
    [] At(tokens, pos, {"return"}) /\ At(tokens, pos + 1, {"end", "eof", "elseif", "else"}) ->
         Read(Return(<<>>), pos + 1)
    [] OTHER -> ParseSimple(tokens, pos, ExprFrom(tokens, ExprStart(tokens, pos)))

\* parse: the whole script, which ends in a token "eof".
Parse(tokens) == ParseBlock(tokens, Read(<<>>, 1), {"eof"})
=============================================================================
