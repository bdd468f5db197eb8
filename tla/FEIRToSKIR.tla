------------------------------ MODULE FEIRToSKIR ------------------------------
(***************************************************************************)
(* The code generator of the StreamIt front end (FEIRToSKIR.cpp) with its   *)
(* symbol table: a syntax tree is turned into functions of basic blocks.    *)
(*                                                                          *)
(* Every visit takes the generator's state G and returns the new one; the   *)
(* value a visit returns is left in G.v.  The fields of G are the members   *)
(* of the class: cur, brk and cont are currentBB, breakBB and continueBB    *)
(* (0 is NULL), lhs is inLHS, spec is currentStreamSpec, sj is splitjoin;   *)
(* bbs holds the instructions of every block, list the blocks of every      *)
(* function in the order of its block list, fn the function of cur, fields  *)
(* the field lists of the streams.  err is set where the generator stops:   *)
(* a call of error or warn, or an assertion of the IR library.              *)
(*                                                                          *)
(* A builder keeps the block it was made for: what the code inserts through *)
(* a builder made earlier goes to that block, not to currentBB.             *)
(***************************************************************************)
EXTENDS StreamItAST, SequencesExt

CONSTANTS SplitNamed,   \* the stream names in whose text "split" occurs
          JoinNamed     \* the stream names in whose text "join" (and not "split") occurs

NoVal == [c |-> "null", t |-> <<"void">>, x |-> <<>>]
Const(t, n) == [c |-> "const", t |-> t, x |-> n]
\* The pointer to the state of the kernel a function runs for.
StatePtr == [c |-> "self", t |-> <<"ptr">>, x |-> <<>>]

IsInt(t) == t \in {<<"i1">>, <<"i8">>, <<"i32">>}
IsFloat(t) == t \in {<<"float">>, <<"double">>}
PtrTo(t) == <<"ptr">> \o t
Pointee(v) == Tail(v.t)

RECURSIVE convert(_)
convert(t) ==
  CASE t[1] = "array" -> <<"array", t[2]>> \o convert(SubSeq(t, 3, Len(t)))
    [] t[1] = "int" -> <<"i32">>
    [] t[1] \in {"boolean", "bit"} -> <<"i1">>
    [] t[1] = "char" -> <<"i8">>
    [] t[1] = "intptr" -> <<"ptr", "i32">>
    [] t[1] = "string" -> <<"ptr", "i8">>
    [] OTHER -> t

---------------------------------------------------------------------------
(* Blocks and instructions.                                                 *)

Ret(G, v) == [G EXCEPT !.v = v]
Fail(G) == [G EXCEPT !.err = TRUE]

\* A block that is not yet in a function; its number is Len(bbs) of the result.
NewBB(G) == [G EXCEPT !.bbs = Append(@, <<>>)]
Attach(G, bb) == [G EXCEPT !.list[G.fn] = Append(@, bb)]
At(G, bb) == [G EXCEPT !.cur = bb]

\* Appends an instruction to block bb; its result is a fresh register.
Insert(G, bb, op, t, a, to) ==
  IF bb = 0 THEN Fail(G)
  ELSE LET r == <<bb, Len(G.bbs[bb]) + 1>>
       IN [G EXCEPT !.bbs[bb] = Append(@, [op |-> op, dst |-> r, t |-> t, a |-> a, to |-> to]),
                    !.v = [c |-> "reg", t |-> t, x |-> r]]
Ins(G, bb, op, t, a) == Insert(G, bb, op, t, a, <<>>)
CreateBr(G, bb, to) == Insert(G, bb, "br", <<"void">>, <<>>, <<to>>)
CreateCondBr(G, bb, cond, yes, no) == Insert(G, bb, "condbr", <<"void">>, <<cond>>, <<yes, no>>)
CreateStore(G, bb, v, p) == Ins(G, bb, "store", <<"void">>, <<v, p>>)

\* getAllocaPoint: a cell that the entry block of the function allocates.
Alloca(G, t) == [G EXCEPT !.ncell = @ + 1,
                          !.v = [c |-> "cell", t |-> PtrTo(t), x |-> <<"cell", G.ncell + 1>>]]
\* The address of the element v of the array, or of the field, that p points to.
GEP(G, bb, p, v, t) == Ins(G, bb, "gep", PtrTo(t), <<p, v>>)
ElementType(t) == SubSeq(t, 3, Len(t))
\* What is done with the address or the value that was just computed.
Load(G, bb) == Ins(G, bb, "load", Pointee(G.v), <<G.v>>)
StoreAt(G, bb, v) == CreateStore(G, bb, v, G.v)
StoreTo(G, bb, p) == CreateStore(G, bb, G.v, p)

\* The tests "handle cases like if (i)" of conditions and of && and ||.
Truth(G, bb, v) ==
  IF v.t = <<"i1">> THEN Ret(G, v)
  ELSE IF IsInt(v.t) THEN Ins(G, bb, "icmp.ne", <<"i1">>, <<v, Const(v.t, 0)>>)
  ELSE IF IsFloat(v.t) THEN Ins(G, bb, "fcmp.one", <<"i1">>, <<v, Const(v.t, 0)>>)
  ELSE Ret(G, v)

matchTypes(G, v, ty) ==
  IF v.t = ty THEN Ret(G, v)
  ELSE IF IsInt(v.t) /\ IsFloat(ty) THEN Ins(G, G.cur, "sitofp", ty, <<v>>)
  ELSE IF IsFloat(v.t) /\ IsInt(ty) THEN Ins(G, G.cur, "fptosi", ty, <<v>>)
  ELSE Ret(Fail(G), v)
Converted(G, ty) == matchTypes(G, G.v, ty)

---------------------------------------------------------------------------
(* SymbolTable: names are paths of scopes.                                  *)

addEntryAt(G, path, node, val) ==
  [G EXCEPT !.syms = [q \in DOMAIN @ \cup {path} |-> IF q = path THEN [node |-> node, val |-> val]
                                                               ELSE @[q]]]
addEntry(G, id, node, val) == addEntryAt(G, Append(G.scope, id), node, val)

RECURSIVE getEnt(_, _)
getEnt(G, path) ==
  LET id == Last(path)
      global == <<"streamit", "TheGlobal", id>>
  IN IF path \in DOMAIN G.syms THEN G.syms[path]
     ELSE IF Len(path) > 2 THEN getEnt(G, Append(SubSeq(path, 1, Len(path) - 2), id))
     ELSE IF id \notin {"init", "work"} /\ global \in DOMAIN G.syms THEN G.syms[global]
     ELSE [node |-> Null, val |-> NoVal]

getValue(G, id) == getEnt(G, Append(G.scope, id)).val
getNode(G, id) == getEnt(G, Append(G.scope, id)).node
pushScope(G, name) == [G EXCEPT !.scope = Append(@, name)]
popScope(G) == [G EXCEPT !.scope = Front(@)]

---------------------------------------------------------------------------
(* Expressions.                                                             *)
RECURSIVE accept(_, _)

visitExprArray(G, exp) ==
  LET base == accept([G EXCEPT !.lhs = TRUE], exp.base)
      off == accept([base EXCEPT !.lhs = FALSE], exp.offset)
      t == ElementType(Pointee(base.v))
      ptr == GEP([off EXCEPT !.lhs = G.lhs], off.cur, base.v, off.v, t)
  IN IF G.lhs THEN ptr ELSE Load(ptr, ptr.cur)

\* bb is the block the builder was made for, before the elements are visited.
RECURSIVE doArrayInit(_, _, _, _)
doArrayInit(G, bb, p, init) ==
  LET n == Len(init.elements)
      t == ElementType(Pointee(p))
      RECURSIVE From(_, _)
      From(H, i) ==
        IF i > n THEN H
        ELSE LET gep == GEP(H, bb, p, Const(<<"i32">>, i - 1), t)
                 e == init.elements[i]
             IN IF e.k = "ExprArrayInit" THEN From(doArrayInit(gep, gep.cur, gep.v, e), i + 1)
                ELSE From(StoreTo(Converted(accept(gep, e), t), bb, gep.v), i + 1)
  IN From(G, 1)

Arith == [add |-> <<"add", "fadd">>, sub |-> <<"sub", "fsub">>, mul |-> <<"mul", "fmul">>,
          div |-> <<"sdiv", "fdiv">>, mod |-> <<"srem", "frem">>,
          band |-> <<"and", "and">>, bor |-> <<"or", "or">>, bxor |-> <<"xor", "xor">>,
          lshift |-> <<"shl", "shl">>, rshift |-> <<"ashr", "ashr">>]
Compare == [eq |-> <<"icmp.eq", "fcmp.oeq">>, neq |-> <<"icmp.ne", "fcmp.one">>,
            lt |-> <<"icmp.slt", "fcmp.olt">>, le |-> <<"icmp.sle", "fcmp.ole">>,
            gt |-> <<"icmp.sgt", "fcmp.ogt">>, ge |-> <<"icmp.sge", "fcmp.oge">>]

\* The IR library asserts that the operands of an operation have one type.
Operation(G, op, t, l, r) ==
  IF l.t # r.t THEN Fail(G) ELSE Ins(G, G.cur, op, t, <<l, r>>)

\* The right operand of && is only tested when neither operand was a boolean.
Logical(G, op, l) == Operation(G, op, <<"i1">>, l, G.v)
AndRight(G, l, r) ==
  Logical(IF <<"i1">> \in {l.t, r.t} THEN Ret(G, r) ELSE Truth(G, G.cur, r), "and", G.v)
AndOperands(G, l, r) == AndRight(Truth(G, G.cur, l), l, r)
OrRight(G, r) == Logical(Truth(G, G.cur, r), "or", G.v)
OrOperands(G, l, r) == OrRight(Truth(G, G.cur, l), r)

CreateBinary(G, op, l, r) ==
  LET which == IF IsFloat(l.t) THEN 2 ELSE 1
  IN CASE op = "and" -> AndOperands(G, l, r)
       [] op = "or" -> OrOperands(G, l, r)
       [] op \in DOMAIN Compare -> Operation(G, Compare[op][which], <<"i1">>, l, r)
       [] OTHER -> Operation(G, Arith[op][which], l.t, l, r)

\* An operand next to a floating point number becomes one, the left one first.
Floated(G, v, other) ==
  IF ~IsFloat(v.t) /\ IsFloat(other.t) THEN matchTypes(G, v, other.t) ELSE Ret(G, v)
FloatRight(G, op, l) == CreateBinary(G, op, l, G.v)
FloatLeft(G, op, l, r) == FloatRight(Floated(G, r, l), op, G.v)

visitExprBinary(G, exp) ==
  LET left == accept(G, exp.left)
      right == accept(left, exp.right)
  IN FloatLeft(Floated(right, left.v, right.v), exp.op, left.v, right.v)

visitExprConstBoolean(G, exp) == Ret(G, Const(<<"i1">>, IF exp.val THEN 1 ELSE 0))
visitExprConstFloat(G, exp) == Ret(G, Const(<<"float">>, exp.val))
visitExprConstInt(G, exp) == Ret(G, Const(<<"i32">>, exp.val))

\* The arguments are not converted to the types of the parameters.
visitExprFunCall(G, exp) ==
  LET f == getNode(G, exp.name)
      RECURSIVE Args(_, _, _)
      Args(H, i, vs) == IF i > Len(exp.params) THEN [G |-> H, vs |-> vs]
                        ELSE LET e == accept(H, exp.params[i]) IN Args(e, i + 1, Append(vs, e.v))
      args == Args(G, 1, <<>>)
  IN IF f.k # "Native" THEN Fail(G)
     ELSE IF [i \in DOMAIN args.vs |-> args.vs[i].t] # [i \in DOMAIN f.params |-> convert(f.params[i].type)]
          THEN Fail(args.G)
          ELSE Insert(args.G, args.G.cur, "call", convert(f.ret), args.vs, <<f.name>>)

visitExprPeek(G, exp) ==
  LET t == convert(G.spec.st.in)
      cell == Alloca(G, t)
      n == accept(cell, exp.expr)
      peek == Ins(n, G.cur, "peek", <<"void">>, <<cell.v, n.v>>)
  IN Ins(peek, G.cur, "load", t, <<cell.v>>)

visitExprPop(G, exp) ==
  LET t == convert(G.spec.st.in)
      cell == Alloca(G, t)
      pop == Ins(cell, G.cur, "pop", <<"void">>, <<cell.v>>)
  IN Ins(pop, G.cur, "load", t, <<cell.v>>)

\* yes and no are the states after the two alternatives, bb the block cond was in.
TernaryMerge(yes, no, mergeBB) ==
  LET merge == At(Attach(CreateBr(no, no.cur, mergeBB), mergeBB), mergeBB)
  IN IF yes.v.t # no.v.t THEN Fail(merge)
     ELSE Insert(merge, mergeBB, "phi", no.v.t, <<yes.v, no.v>>, <<yes.cur, no.cur>>)
TernaryElse(yes, exp, elseBB, mergeBB) ==
  TernaryMerge(yes, accept(At(Attach(CreateBr(yes, yes.cur, mergeBB), elseBB), elseBB), exp.c), mergeBB)
TernaryThen(cond, bb, exp) ==
  LET thenBB == Len(cond.bbs) + 1
      br == CreateCondBr(Attach(NewBB(NewBB(NewBB(cond))), thenBB), bb, cond.v, thenBB, thenBB + 1)
  IN TernaryElse(accept(At(br, thenBB), exp.b), exp, thenBB + 1, thenBB + 2)

visitExprTernary(G, exp) ==
  LET c == accept(G, exp.a) IN TernaryThen(Truth(c, G.cur, c.v), G.cur, exp)

visitExprTypeCast(G, exp) == Converted(accept(G, exp.expr), convert(exp.type))

visitExprUnary(G, exp) ==
  LET e == accept(G, exp.expr)
      one == ExprConstInt(1)
      Neg(H, v) == Ins(H, H.cur, IF IsFloat(v.t) THEN "fneg" ELSE "neg", v.t, <<v>>)
      Not(H, v) == Ins(H, H.cur, "not", v.t, <<v>>)
      LogicalNot(H) == Not(H, H.v)
      Negate(H) == Neg(H, H.v)
  IN CASE exp.op = "preinc" -> accept(e, StmtAssign(exp.expr, one, "add"))
       [] exp.op = "predec" -> accept(e, StmtAssign(exp.expr, one, "sub"))
       [] exp.op = "postinc" -> Ret(accept(e, StmtAssign(exp.expr, one, "add")), e.v)
       [] exp.op = "postdec" -> Ret(accept(e, StmtAssign(exp.expr, one, "sub")), e.v)
       [] exp.op = "complement" -> Not(e, e.v)
       [] exp.op = "not" -> Negate(LogicalNot(Truth(e, e.cur, e.v)))      \* the case falls through into UNOP_NEG
       [] exp.op = "neg" -> Neg(e, e.v)

\* An integer in the symbol table is an offset into the state of the kernel.
visitExprVar(G, exp) ==
  LET s == getValue(G, exp.name)
      p == IF s.c = "const" THEN GEP(G, G.cur, StatePtr, s, G.types[s.x + 1]) ELSE Ret(G, s)
  IN IF s.c = "null" THEN Fail(G)
     ELSE IF G.lhs THEN p
     ELSE Load(p, p.cur)

---------------------------------------------------------------------------
(* Statements.                                                              *)

visitStmtAssign(G, stmt) ==
  IF stmt.op # ""
    THEN accept(G, StmtAssign(stmt.lhs, ExprBinary(stmt.op, stmt.lhs, stmt.rhs), ""))
    ELSE LET lhs == accept([G EXCEPT !.lhs = TRUE], stmt.lhs)
             rhs == accept([lhs EXCEPT !.lhs = FALSE], stmt.rhs)
             m == matchTypes(rhs, rhs.v, Pointee(lhs.v))
         IN Ret(CreateStore(m, m.cur, m.v, lhs.v), m.v)

visitStmtBlock(G, stmt) ==
  LET RECURSIVE From(_, _)
      From(H, i) == IF i > Len(stmt.stmts) THEN H ELSE From(accept(H, stmt.stmts[i]), i + 1)
  IN From(G, 1)

\* The statements that follow in the source go to a new block without predecessors.
JumpOpenMutant(G, target) ==
  LET br == NewBB(G)
  IN At(Attach(br, Len(br.bbs)), Len(br.bbs))
Jump(G, target) ==
  LET br == NewBB(CreateBr(G, G.cur, target))
  IN At(Attach(br, Len(br.bbs)), Len(br.bbs))
visitStmtBreak(G, stmt) == Jump(G, G.brk)
visitStmtContinue(G, stmt) == Jump(G, G.cont)

\* The body of a loop: breakBB is cleared after it and continueBB is not.
LoopBody(G, body, bodyBB, brk, cont) ==
  LET in == [At(G, bodyBB) EXCEPT !.brk = brk, !.cont = cont]
  IN [(IF body.k = "Null" THEN in ELSE accept(in, body)) EXCEPT !.brk = 0]

\* The condition goes to condBB even when it is evaluated in several blocks.
LoopCond(G, cond, condBB, yes, no) ==
  LET c == accept(At(G, condBB), cond)
      t == Truth(c, condBB, c.v)
  IN CreateCondBr(t, condBB, t.v, yes, no)

\* The condition of a do loop branches back to the block the body ended in.
DoBackMutant(bodyBB, condBB) == condBB
DoBack(bodyBB, condBB) == bodyBB

visitStmtDoWhile(G, stmt) ==
  LET bodyBB == Len(G.bbs) + 1
      condBB == bodyBB + 1
      doneBB == bodyBB + 2
      start == CreateBr(Attach(NewBB(NewBB(NewBB(G))), bodyBB), G.cur, bodyBB)
      body == LoopBody(start, stmt.body, bodyBB, doneBB, condBB)
      cond == LoopCond(Attach(CreateBr(body, body.cur, condBB), condBB), stmt.cond, condBB,
                       DoBack(body.cur, condBB), doneBB)
  IN At(Attach(cond, doneBB), doneBB)

\* In a for loop whose condition is in condBB, continue goes to the increment.
ForBreakMutant(condBB) == [brk |-> condBB + 2, cont |-> condBB + 2]
ForTargets(condBB) == [brk |-> condBB + 3, cont |-> condBB + 2]

ForIncr(G, stmt, incrBB) ==
  LET to == At(Attach(CreateBr(G, G.cur, incrBB), incrBB), incrBB)
  IN IF stmt.incr.k = "Null" THEN to ELSE accept(to, stmt.incr)
\* Closes a loop: back to condBB, and on in doneBB.
LoopEnd(G, condBB, doneBB) == At(Attach(CreateBr(G, G.cur, condBB), doneBB), doneBB)

\* The loop, once its initialisation is in G; bb is the block before it.
ForLoop(G, bb, stmt) ==
  LET condBB == Len(G.bbs) + 1
      to == ForTargets(condBB)
      start == CreateBr(Attach(NewBB(NewBB(NewBB(NewBB(G)))), condBB), bb, condBB)
      cond == LoopCond(start, stmt.cond, condBB, condBB + 1, condBB + 3)
      body == LoopBody(Attach(cond, condBB + 1), stmt.body, condBB + 1, to.brk, to.cont)
  IN LoopEnd(ForIncr(body, stmt, condBB + 2), condBB, condBB + 3)
visitStmtFor(G, stmt) ==
  ForLoop(IF stmt.init.k = "Null" THEN G ELSE accept(G, stmt.init), G.cur, stmt)

visitStmtWhile(G, stmt) ==
  LET condBB == Len(G.bbs) + 1
      bodyBB == condBB + 1
      doneBB == condBB + 2
      start == CreateBr(Attach(NewBB(NewBB(NewBB(G))), condBB), G.cur, condBB)
      cond == LoopCond(start, stmt.cond, condBB, bodyBB, doneBB)
  IN LoopEnd(LoopBody(Attach(cond, bodyBB), stmt.body, bodyBB, doneBB, condBB), condBB, doneBB)

Has(stmt) == stmt.k # "Null"
IfBranch(G, bb, stmt, mergeBB) ==
  LET b == accept(At(G, bb), stmt) IN IF Has(stmt) THEN CreateBr(b, b.cur, mergeBB) ELSE G
IfElse(G, stmt, elseBB, mergeBB) == IfBranch(IF Has(stmt) THEN Attach(G, elseBB) ELSE G, elseBB, stmt, mergeBB)

\* The branches, once the condition is in cond; bb is the block before it.
IfBranches(cond, bb, stmt) ==
  LET thenBB == Len(cond.bbs) + 1
      elseBB == thenBB + 1
      mergeBB == thenBB + 2
      br == CreateCondBr(Attach(NewBB(NewBB(NewBB(cond))), thenBB), bb, cond.v,
                         IF Has(stmt.cons) THEN thenBB ELSE mergeBB,
                         IF Has(stmt.alt) THEN elseBB ELSE mergeBB)
      yes == IfBranch(br, thenBB, stmt.cons, mergeBB)
  IN At(Attach(IfElse(yes, stmt.alt, elseBB, mergeBB), mergeBB), mergeBB)
visitStmtIfThen(G, stmt) ==
  LET c == accept(G, stmt.cond) IN IfBranches(Truth(c, G.cur, c.v), G.cur, stmt)

visitStmtPush(G, stmt) ==
  LET e == accept(G, stmt.value)
      cell == Alloca(e, e.v.t)
      st == CreateStore(cell, e.cur, e.v, cell.v)
  IN Ins(st, st.cur, "push", <<"void">>, <<cell.v>>)

\* Every variable is also appended to the fields of the stream, for its
\* anonymous children.
Declare(G, bb, d) ==
  LET t == convert(d.type)
      cell == Alloca([G EXCEPT !.fields[G.spec.name] = Append(@, d)], t)
      Enter(H) == addEntry(H, d.name, getNode(H, d.name), cell.v)
  IN Enter(CASE d.init.k = "Null" -> Ins(cell, bb, "zero", <<"void">>, <<cell.v>>)
             [] d.init.k = "ExprArrayInit" -> doArrayInit(cell, cell.cur, cell.v, d.init)
             [] OTHER -> StoreTo(Converted(accept(cell, d.init), t), bb, cell.v))
visitStmtVarDecl(G, stmt) ==
  LET RECURSIVE From(_, _)
      From(H, i) == IF i > Len(stmt.decls) THEN H ELSE From(Declare(H, G.cur, stmt.decls[i]), i + 1)
  IN From(G, 1)

---------------------------------------------------------------------------
(* Children of pipelines and split-joins.                                   *)

NumChildrenPtr == ExprVar("__num_children_ptr")

visitSJDuplicate(G, s) == SCSimple("_splitdupN", <<NumChildrenPtr>>)

visitSJRoundRobin(G, s) ==
  LET zero == s.weight.k = "ExprConstInt" /\ s.weight.val = 0
  IN SCSimple(IF ~G.sj THEN "_joinrrN" ELSE IF zero THEN "_splitrr0" ELSE "_splitrrN",
              <<NumChildrenPtr, s.weight>>)

visitSJWeightedRR(G, s) ==
  LET n == Len(s.weights)
      pad == IF n = 2 THEN <<ExprConstInt(0)>> ELSE <<>>
  IN IF n > 1 THEN SCSimple(IF G.sj THEN "_splitrrW" ELSE "_joinrrW",
                            <<ExprConstInt(n)>> \o s.weights \o pad)
     ELSE SCSimple(IF G.sj THEN "_splitrrN" ELSE "_joinrrN", <<NumChildrenPtr, s.weights[1]>>)

Splitter(G, s) == CASE s.k = "SJDuplicate" -> visitSJDuplicate(G, s)
                    [] s.k = "SJRoundRobin" -> visitSJRoundRobin(G, s)
                    [] s.k = "SJWeightedRR" -> visitSJWeightedRR(G, s)

\* Visits the specification of a child and restores what a visit overwrites:
\* the state pointer, the block, the stream and the scope, not the targets of
\* break and continue.
VisitChild(G, spec) ==
  LET v == accept([G EXCEPT !.scope = <<"streamit">>], spec)
  IN [v EXCEPT !.cur = G.cur, !.fn = G.fn, !.types = G.types, !.spec = G.spec, !.scope = G.scope]

\* An anonymous child has the parameters and the fields of its parent as
\* parameters.
AnonSpec(G, spec) ==
  LET fd == G.fields[G.spec.name]
  IN [spec EXCEPT !.params = G.spec.params \o [i \in DOMAIN fd |-> Parameter(fd[i].type, fd[i].name)]]

AddAnon(G, spec) ==
  LET ss == AnonSpec(G, spec)
      known == addEntryAt(G, <<"streamit", ss.name>>, ss, NoVal)
      RECURSIVE Params(_, _)
      Params(H, i) == IF i > Len(ss.params) THEN H
                      ELSE Params(addEntryAt(H, <<"streamit", ss.name, ss.params[i].name>>,
                                             ExprVar(ss.params[i].name), NoVal), i + 1)
  IN VisitChild(Params(known, 1), ss)

\* The state of a composite: the number of children, a pointer to it, the children.
NumChildren == Const(<<"i32">>, 0)
Children == Const(<<"i32">>, 2)

\* bb is the block of the builder, made before the arguments are visited.
StoreArgs(G, bb, cell, params, args) ==
  LET RECURSIVE From(_, _)
      From(H, i) ==
        IF i > Len(args) THEN H
        ELSE LET t == convert(params[i].type)
                 p == GEP(H, bb, cell, Const(<<"i32">>, i - 1), t)
             IN From(StoreTo(Converted(accept(p, args[i]), t), bb, p.v), i + 1)
  IN From(G, 1)

\* init is called where the statement stands; the kernel is created after it.
CreateKernel(G, bb, name, args) ==
  LET init == Insert(G, bb, "init", <<"ptr">>, args, <<name>>)
  IN Insert(init, bb, "kernel", <<"ptr">>, <<init.v>>, <<name>>)

\* Appends the kernel to the children of the composite; np holds the address of
\* their number, n the number.
AddChildAt(n, bb, kernel, np) ==
  LET cs == GEP(n, bb, StatePtr, Children, <<"array", 512, "ptr">>)
      st == StoreAt(GEP(cs, bb, cs.v, n.v, <<"ptr">>), bb, kernel)
  IN StoreTo(Ins(st, bb, "add", <<"i32">>, <<n.v, Const(<<"i32">>, 1)>>), bb, np)
AddChildTo(np, bb, kernel) == AddChildAt(Load(np, bb), bb, kernel, np.v)
AddChild(G, bb) == AddChildTo(GEP(G, bb, StatePtr, NumChildren, <<"i32">>), bb, G.v)

\* The kernel of a child whose code exists in G.
ChildKernel(G, bb, sc, params) ==
  LET cell == Alloca(G, <<"struct">>)
  IN IF Len(sc.params) = 0 THEN CreateKernel(G, bb, sc.name, <<NoVal>>)
     ELSE CreateKernel(StoreArgs(cell, bb, cell.v, params, sc.params), bb, sc.name, <<cell.v>>)

AddSimple(G, sc) ==
  LET child == getEnt(G, <<"streamit", sc.name>>).node
      known == getEnt(G, <<"streamit", sc.name, "init">>).val.c # "null"
  IN IF child.k # "StreamSpec" \/ Len(child.params) # Len(sc.params) THEN Fail(G)
     ELSE AddChild(ChildKernel(IF known THEN G ELSE VisitChild(G, child), G.cur, sc, child.params), G.cur)

visitStmtAdd(G, stmt) ==
  IF stmt.creator.k = "SCAnon"
    THEN LET ss == AnonSpec(G, stmt.creator.spec)
         IN AddSimple(AddAnon(G, stmt.creator.spec),
                      SCSimple(ss.name, [i \in DOMAIN ss.params |-> ExprVar(ss.params[i].name)]))
    ELSE AddSimple(G, stmt.creator)

visitStmtSplit(G, stmt) ==
  LET H == [G EXCEPT !.sj = TRUE] IN visitStmtAdd(H, StmtAdd(Splitter(H, stmt.splitter)))
visitStmtJoin(G, stmt) ==
  LET H == [G EXCEPT !.sj = FALSE] IN visitStmtAdd(H, StmtAdd(Splitter(H, stmt.joiner)))

---------------------------------------------------------------------------
(* Functions and streams.                                                   *)

\* Starts function <<name, part>> with an empty entry block.
Begin(G, name, part) ==
  LET bb == Len(G.bbs) + 1
      f == <<name, part>>
      lists == [g \in DOMAIN G.list \cup {f} |-> IF g = f THEN <<bb>> ELSE G.list[g]]
      H == [NewBB(G) EXCEPT !.cur = bb, !.fn = f, !.list = lists]
  IN addEntryAt(H, <<"streamit", name, part>>, Null, [c |-> "fn", t |-> <<"ptr">>, x |-> f])

\* Copies the parameters from the argument structure into the state, from
\* offset on.
CopyParams(G, bb, params, offset) ==
  LET RECURSIVE From(_, _)
      From(H, i) ==
        IF i > Len(params) THEN H
        ELSE LET t == convert(params[i].type)
                 idx == Const(<<"i32">>, offset + i - 1)
                 e == addEntry(H, params[i].name, getNode(H, params[i].name), idx)
                 a == GEP(e, bb, [c |-> "arg", t |-> <<"ptr">>, x |-> <<>>], Const(<<"i32">>, i - 1), t)
                 Copy(v) == StoreAt(GEP(v, bb, StatePtr, idx, t), bb, v.v)
             IN From(Copy(Load(a, bb)), i + 1)
  IN From(G, 1)

Malloc(G, types) == Ins([G EXCEPT !.types = types], G.cur, "malloc", <<"ptr">>, <<>>)
TypesOf(ds) == [i \in DOMAIN ds |-> convert(ds[i].type)]
IsGlobal(spec) == spec.type = "global"

\* p holds the address of the field.
InitField(p, bb, t, init) ==
  CASE init.k = "Null" -> p
    [] init.k = "ExprArrayInit" -> doArrayInit(p, p.cur, p.v, init)
    [] OTHER -> StoreTo(Converted(accept(p, init), t), bb, p.v)

\* The fields follow the parameters in the state of a filter; the fields of the
\* global stream are global variables.
InitFields(G, bb, spec) ==
  LET fd == G.fields[spec.name]
      RECURSIVE From(_, _)
      From(H, i) ==
        IF i > Len(fd) THEN H
        ELSE LET t == convert(fd[i].type)
                 idx == Const(<<"i32">>, Len(spec.params) + i - 1)
                 g == [c |-> "cell", t |-> PtrTo(t), x |-> <<"global", i>>]
                 e == addEntry(H, fd[i].name, getNode(H, fd[i].name), IF IsGlobal(spec) THEN g ELSE idx)
             IN From(InitField(IF IsGlobal(spec) THEN Ret(e, g) ELSE GEP(e, bb, StatePtr, idx, t),
                               bb, t, fd[i].init), i + 1)
  IN From(G, 1)

Body(G, scope, func) ==
  IF func.k = "Null" THEN G ELSE popScope(accept(pushScope(G, scope), func.body))

CreateRet(G, bb, t, v) == [Ins(G, bb, "ret", t, <<v>>) EXCEPT !.cur = 0]

\* The return of a filter goes to the last block, the null return of the global
\* stream to the block the builder was made for.
ReturnState(G, bb, spec) == IF IsGlobal(spec) THEN CreateRet(G, bb, <<"ptr">>, NoVal)
                                              ELSE CreateRet(G, G.cur, <<"ptr">>, StatePtr)
visitFuncInit(G, spec) ==
  LET b == Begin(G, spec.name, "init")
      s == Malloc(b, TypesOf(spec.params) \o TypesOf(G.fields[spec.name]))
      f == InitFields(CopyParams(s, b.cur, spec.params, 0), b.cur, spec)
  IN ReturnState(Body(f, "init", spec.init), b.cur, spec)

visitFuncWork(G, spec) ==
  LET body == Body(Begin(G, spec.name, "work"), "work", spec.work)
  IN CreateRet(body, body.cur, <<"i32">>, Const(<<"i32">>, 0))

\* The kernel instruction split and the store of it.
Moves(n, split) == \/ n.dst = split.dst
                   \/ n.op = "store" /\ n.a[1].c = "reg" /\ n.a[1].x = split.dst

\* Of the kernels the function creates, in the order of its blocks, the last one
\* whose work function has "split" in its name is moved to just before the last
\* one with "join", together with the store of it.
MoveSplit(G, f) ==
  LET blocks == G.list[f]
      insts == FlattenSeq([i \in DOMAIN blocks |-> G.bbs[blocks[i]]])
      Named(S) == SelectSeq(insts, LAMBDA n : n.op = "kernel" /\ n.to[1] \in S)
      splits == Named(SplitNamed)
      joins == Named(JoinNamed)
      split == Last(splits)
      join == Last(joins)
      moved == SelectSeq(insts, LAMBDA n : Moves(n, split))
      Rest(bb) == SelectSeq(G.bbs[bb], LAMBDA n : ~Moves(n, split))
      Where(ns) == CHOOSE i \in DOMAIN ns : ns[i].dst = join.dst
      Place(ns) == IF \E i \in DOMAIN ns : ns[i].dst = join.dst
                     THEN SubSeq(ns, 1, Where(ns) - 1) \o moved \o SubSeq(ns, Where(ns), Len(ns))
                     ELSE ns
  IN IF splits = <<>> \/ joins = <<>> THEN G
     ELSE [G EXCEPT !.bbs = [bb \in DOMAIN @ |-> IF bb \in Range(blocks) THEN Place(Rest(bb)) ELSE @[bb]]]

\* The number of children, at the address np holds, is 0; the next word points to it.
ZeroChildren(np, bb) ==
  StoreAt(GEP(StoreAt(np, bb, Const(<<"i32">>, 0)), bb, StatePtr, Const(<<"i32">>, 1), <<"ptr", "i32">>),
          bb, np.v)
ChildNames(G) ==
  popScope(addEntry(addEntry(addEntry(pushScope(G, "init"),
    "__num_children", Null, NumChildren),
    "__num_children_ptr", Null, Const(<<"i32">>, 1)),
    "__children", Null, Children))

\* worker is "_pipeline" or "_splitjoin", the library stream that runs the children.
CallWorker(k, bb, spec) ==
  CreateRet(Insert(k, bb, "skircall", <<"void">>, <<k.v>>, <<spec.st.in # <<"void">>, TRUE>>), bb, <<"i32">>,
         Const(<<"i32">>, 1))
CompositeWork(G, spec, worker) == CallWorker(CreateKernel(G, G.cur, worker, <<StatePtr>>), G.cur, spec)
createPipeline(G, spec, worker) ==
  LET b == Begin(G, spec.name, "init")
      s == Malloc(b, <<<<"i32">>, <<"ptr", "i32">>, <<"array", 512, "ptr">>>> \o TypesOf(spec.params))
      kids == ChildNames(ZeroChildren(GEP(s, b.cur, StatePtr, NumChildren, <<"i32">>), b.cur))
      body == Body(CopyParams(kids, b.cur, spec.params, 3), "init", spec.init)
      init == MoveSplit(CreateRet(body, body.cur, <<"ptr">>, StatePtr), <<spec.name, "init">>)
  IN CompositeWork(Begin(init, spec.name, "work"), spec, worker)

visitStreamSpec(G, spec) ==
  LET H == pushScope([G EXCEPT !.cur = 0, !.spec = spec], spec.name)
      known == getEnt(G, <<"streamit", spec.name, "init">>).val.c # "null"
      gen == CASE spec.type = "pipeline" -> createPipeline(H, spec, "_pipeline")
               [] spec.type = "splitjoin" -> createPipeline(H, spec, "_splitjoin")
               [] spec.type = "filter" -> visitFuncWork(visitFuncInit(H, spec), spec)
               [] spec.type = "global" -> visitFuncInit(H, spec)
  IN IF known THEN G ELSE [popScope(gen) EXCEPT !.cur = 0]

accept(G, node) ==
  IF G.err THEN G ELSE
  CASE node.k = "ExprArray" -> visitExprArray(G, node)
    [] node.k = "ExprBinary" -> visitExprBinary(G, node)
    [] node.k = "ExprConstBoolean" -> visitExprConstBoolean(G, node)
    [] node.k = "ExprConstFloat" -> visitExprConstFloat(G, node)
    [] node.k = "ExprConstInt" -> visitExprConstInt(G, node)
    [] node.k = "ExprFunCall" -> visitExprFunCall(G, node)
    [] node.k = "ExprPeek" -> visitExprPeek(G, node)
    [] node.k = "ExprPop" -> visitExprPop(G, node)
    [] node.k = "ExprTernary" -> visitExprTernary(G, node)
    [] node.k = "ExprTypeCast" -> visitExprTypeCast(G, node)
    [] node.k = "ExprUnary" -> visitExprUnary(G, node)
    [] node.k = "ExprVar" -> visitExprVar(G, node)
    [] node.k = "StmtAdd" -> visitStmtAdd(G, node)
    [] node.k = "StmtAssign" -> visitStmtAssign(G, node)
    [] node.k = "StmtBlock" -> visitStmtBlock(G, node)
    [] node.k = "StmtBreak" -> visitStmtBreak(G, node)
    [] node.k = "StmtContinue" -> visitStmtContinue(G, node)
    [] node.k = "StmtDoWhile" -> visitStmtDoWhile(G, node)
    [] node.k = "StmtEmpty" -> G
    [] node.k = "StmtExpr" -> accept(G, node.expr)
    [] node.k = "StmtFor" -> visitStmtFor(G, node)
    [] node.k = "StmtIfThen" -> visitStmtIfThen(G, node)
    [] node.k = "StmtJoin" -> visitStmtJoin(G, node)
    [] node.k = "StmtPush" -> visitStmtPush(G, node)
    [] node.k = "StmtSplit" -> visitStmtSplit(G, node)
    [] node.k = "StmtVarDecl" -> visitStmtVarDecl(G, node)
    [] node.k = "StmtWhile" -> visitStmtWhile(G, node)
    [] node.k = "StreamSpec" -> visitStreamSpec(G, node)
    [] OTHER -> Fail(G)

---------------------------------------------------------------------------
(* Programs.                                                                *)

\* addBuiltins: native functions and library streams; a library stream has an
\* init and a work function in the library module.
Native(name, ret, params) == [k |-> "Native", name |-> name, ret |-> ret, params |-> params]
Natives == [println |-> Native("println", <<"void">>, <<Parameter(<<"int">>, "i")>>),
            println_f |-> Native("println_f", <<"void">>, <<Parameter(<<"float">>, "f")>>),
            abs |-> Native("fabs", <<"float">>, <<Parameter(<<"float">>, "f")>>)]
CountPtr == Parameter(<<"intptr">>, "n*")
IntParam(name) == Parameter(<<"int">>, name)
Weighted == <<IntParam("num"), IntParam("arg0"), IntParam("arg1"), IntParam("arg2")>>
LibraryParams ==
  [_splitdup |-> <<CountPtr>>, _splitdupN |-> <<CountPtr>>,
   _splitrr1 |-> <<CountPtr, IntParam("weight")>>, _splitrrN |-> <<CountPtr, IntParam("weight")>>,
   _splitrr0 |-> <<CountPtr, IntParam("weight")>>, _splitrrW |-> Weighted,
   _joinrr1 |-> <<CountPtr, IntParam("weight")>>, _joinrrN |-> <<CountPtr, IntParam("weight")>>,
   _joinrrW |-> Weighted, Identity |-> <<>>, DummySinkInt |-> <<>>]
Library(name) == StreamSpec("filter", StreamType(<<"int">>, <<"int">>), name, LibraryParams[name],
                            <<>>, Null, Null)

addBuiltins ==
  LET lib == DOMAIN LibraryParams \cup {"_pipeline", "_splitjoin"}
      F(name, part) == [node |-> Null, val |-> [c |-> "fn", t |-> <<"ptr">>, x |-> <<name, part>>]]
      paths == {<<"streamit", n>> : n \in DOMAIN Natives \cup DOMAIN LibraryParams}
               \cup {<<"streamit", n, p>> : n \in lib, p \in {"init", "work"}}
  IN [q \in paths |-> IF Len(q) = 3 THEN F(q[2], q[3])
                      ELSE [node |-> IF q[2] \in DOMAIN Natives THEN Natives[q[2]] ELSE Library(q[2]),
                            val |-> NoVal]]

\* SymbolTableVisitor: the streams, parameters, fields and variables of a
\* program, before any value is known.  Anonymous streams, which have their
\* generated names in the tree already, are entered at the top like the others.
RECURSIVE Names(_, _)
SpecNames(spec) ==
  LET in == <<"streamit", spec.name>>
  IN {<<in, spec>>}
     \cup {<<Append(in, p.name), Null>> : p \in Range(spec.params) \cup Range(spec.fields)}
     \cup (IF spec.init.k = "Null" THEN {} ELSE Names(Append(in, "init"), spec.init.body))
     \cup (IF spec.work.k = "Null" THEN {} ELSE Names(Append(in, "work"), spec.work.body))
Names(scope, s) ==
  CASE s.k = "StmtBlock" -> UNION {Names(scope, t) : t \in Range(s.stmts)}
    [] s.k = "StmtVarDecl" -> {<<Append(scope, d.name), Null>> : d \in Range(s.decls)}
    [] s.k = "StmtFor" -> UNION {Names(scope, t) : t \in {s.init, s.body}}
    [] s.k = "StmtIfThen" -> Names(scope, s.cons) \cup Names(scope, s.alt)
    [] s.k \in {"StmtWhile", "StmtDoWhile"} -> Names(scope, s.body)
    [] s.k = "StmtAdd" /\ s.creator.k = "SCAnon" -> SpecNames(s.creator.spec)
    [] OTHER -> {}

Specs(prog) == UNION {SpecNames(s) : s \in Range(prog.streams)}

Start(prog) ==
  LET new == Specs(prog)
      paths == {e[1] : e \in new}
      ss == {e[2] : e \in {f \in new : f[2].k = "StreamSpec"}}
      nodeOf(q) == (CHOOSE e \in new : e[1] = q)[2]
      builtin == addBuiltins
  IN [v |-> NoVal, bbs |-> <<>>, list |-> <<>>, fn |-> <<>>, cur |-> 0, brk |-> 0, cont |-> 0,
      lhs |-> FALSE, sj |-> FALSE, err |-> FALSE, ncell |-> 0, types |-> <<>>, spec |-> Null,
      scope |-> <<"streamit">>, top |-> "",
      fields |-> [n \in {s.name : s \in ss} |-> (CHOOSE s \in ss : s.name = n).fields],
      syms |-> [q \in DOMAIN builtin \cup paths |->
                  IF q \in paths THEN [node |-> nodeOf(q), val |-> NoVal] ELSE builtin[q]]]

\* main: the function of the global stream, then the kernel of the top stream.
WaitTop(k) ==
  LET call == Insert(k, k.cur, "skircall", <<"void">>, <<k.v>>, <<FALSE, FALSE>>)
      wait == Ins(call, k.cur, "wait", <<"void">>, <<k.v>>)
  IN Ins(wait, k.cur, "ret", <<"void">>, <<NoVal>>)
RunTop(G, name) == [WaitTop(CreateKernel(G, G.cur, name, <<NoVal>>)) EXCEPT !.top = name]
InitGlobal(G, ss) == IF \E s \in Range(ss) : IsGlobal(s)
                       THEN Insert(G, G.cur, "init", <<"ptr">>, <<NoVal>>, <<"TheGlobal">>) ELSE G
createMain(G, ss, top) ==
  IF top = 0 \/ G.err THEN G ELSE RunTop(InitGlobal(Begin(G, "main", "work"), ss), ss[top].name)

\* The global streams that come before the first void->void stream, that stream,
\* then all the others; main runs the top stream.
visitProgram(prog) ==
  LET ss == prog.streams
      IsTop(s) == ~IsGlobal(s) /\ s.st = StreamType(<<"void">>, <<"void">>)
      tops == {i \in DOMAIN ss : IsTop(ss[i])}
      top == IF tops = {} THEN 0 ELSE CHOOSE i \in tops : \A j \in tops : i <= j
      RECURSIVE First(_, _)
      First(G, i) == IF i > Len(ss) THEN G
                     ELSE IF IsGlobal(ss[i]) THEN First(accept(G, ss[i]), i + 1)
                     ELSE IF i = top THEN accept(G, ss[i]) ELSE First(G, i + 1)
      RECURSIVE All(_, _)
      All(G, i) == IF i > Len(ss) THEN G ELSE All(accept(G, ss[i]), i + 1)
  IN createMain(All(First(Start(prog), 1), 1), ss, top)
=============================================================================
