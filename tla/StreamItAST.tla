----------------------------- MODULE StreamItAST -----------------------------
(***************************************************************************)
(* The syntax tree of the StreamIt front end (tools/streamit/nodes): one    *)
(* constructor per node class, a record of what the class keeps and its     *)
(* getters return.  The field k stands for the dynamic type that accept     *)
(* dispatches on.  Positions in the source file, printing and the visitor   *)
(* plumbing are left out.                                                   *)
(***************************************************************************)
EXTENDS Integers, Sequences

\* A child that a node may lack (a NULL pointer).
Null == [k |-> "Null"]

---------------------------------------------------------------------------
(* Types.  A type is a tuple, so that all types can be compared.            *)
TypePrimitive(name) == <<name>>
TypeArray(base, length) == <<"array", length>> \o base
StreamType(in, out) == [in |-> in, out |-> out]

---------------------------------------------------------------------------
(* Expressions.                                                             *)
ExprArray(base, offset) == [k |-> "ExprArray", base |-> base, offset |-> offset]
ExprArrayInit(elements) == [k |-> "ExprArrayInit", elements |-> elements]
ExprBinary(op, left, right) == [k |-> "ExprBinary", op |-> op, left |-> left, right |-> right]
ExprConstBoolean(val) == [k |-> "ExprConstBoolean", val |-> val]
\* val counts halves: the floating point numbers of the model are multiples of 1/2.
ExprConstFloat(val) == [k |-> "ExprConstFloat", val |-> val]
ExprConstInt(val) == [k |-> "ExprConstInt", val |-> val]
ExprFunCall(name, params) == [k |-> "ExprFunCall", name |-> name, params |-> params]
ExprPeek(expr) == [k |-> "ExprPeek", expr |-> expr]
ExprPop == [k |-> "ExprPop"]
ExprTernary(a, b, c) == [k |-> "ExprTernary", a |-> a, b |-> b, c |-> c]
ExprTypeCast(type, expr) == [k |-> "ExprTypeCast", type |-> type, expr |-> expr]
ExprUnary(op, expr) == [k |-> "ExprUnary", op |-> op, expr |-> expr]
ExprVar(name) == [k |-> "ExprVar", name |-> name]

---------------------------------------------------------------------------
(* Statements.                                                              *)
StmtAdd(creator) == [k |-> "StmtAdd", creator |-> creator]
\* op is "" for a plain assignment.
StmtAssign(lhs, rhs, op) == [k |-> "StmtAssign", lhs |-> lhs, rhs |-> rhs, op |-> op]
StmtBlock(stmts) == [k |-> "StmtBlock", stmts |-> stmts]
StmtBreak == [k |-> "StmtBreak"]
StmtContinue == [k |-> "StmtContinue"]
StmtDoWhile(body, cond) == [k |-> "StmtDoWhile", body |-> body, cond |-> cond]
StmtEmpty == [k |-> "StmtEmpty"]
StmtExpr(expr) == [k |-> "StmtExpr", expr |-> expr]
StmtFor(init, cond, incr, body) ==
  [k |-> "StmtFor", init |-> init, cond |-> cond, incr |-> incr, body |-> body]
StmtIfThen(cond, cons, alt) == [k |-> "StmtIfThen", cond |-> cond, cons |-> cons, alt |-> alt]
StmtJoin(joiner) == [k |-> "StmtJoin", joiner |-> joiner]
StmtPush(value) == [k |-> "StmtPush", value |-> value]
StmtSplit(splitter) == [k |-> "StmtSplit", splitter |-> splitter]
\* A declaration of a field or of a variable: type, name and initial value.
FieldDecl(type, name, init) == [type |-> type, name |-> name, init |-> init]
StmtVarDecl(decls) == [k |-> "StmtVarDecl", decls |-> decls]
StmtWhile(cond, body) == [k |-> "StmtWhile", cond |-> cond, body |-> body]

---------------------------------------------------------------------------
(* Creators of streams, splitters and joiners.                              *)
SCAnon(spec) == [k |-> "SCAnon", spec |-> spec]
SCSimple(name, params) == [k |-> "SCSimple", name |-> name, params |-> params]
SJDuplicate == [k |-> "SJDuplicate"]
SJRoundRobin(weight) == [k |-> "SJRoundRobin", weight |-> weight]
SJWeightedRR(weights) == [k |-> "SJWeightedRR", weights |-> weights]

---------------------------------------------------------------------------
(* Streams and programs.  The functions of a stream are its init function   *)
(* and its work function, each Null when the stream has none.               *)
Parameter(type, name) == [type |-> type, name |-> name]
Function(body) == [k |-> "Function", body |-> body]
FuncWork(body) == [k |-> "FuncWork", body |-> body]
StreamSpec(type, st, name, params, fields, init, work) ==
  [k |-> "StreamSpec", type |-> type, st |-> st, name |-> name, params |-> params,
   fields |-> fields, init |-> init, work |-> work]
Program(streams) == [k |-> "Program", streams |-> streams]
=============================================================================
