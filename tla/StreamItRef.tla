------------------------------ MODULE StreamItRef ------------------------------
(***************************************************************************)
(* What a StreamIt program means, as the comments of the node classes and   *)
(* the test programs say: a reference evaluator for the syntax trees, which *)
(* does not go through blocks and registers.  It is not a model of code.    *)
(*                                                                          *)
(* An environment E holds the variables (var: name -> type and contents,    *)
(* where the contents map a tuple of indices to a number), the input that   *)
(* is left, what was pushed and printed, the children that were added, the  *)
(* value of the last expression (v) and a signal: "ok", "break",            *)
(* "continue", or "starved" when an input is missing.                       *)
(***************************************************************************)
EXTENDS FEIRToSKIR

Val(t, n) == [t |-> t, n |-> n]
Trunc(a, b) == IF b < 0 THEN (IF a < 0 THEN (-a) \div (-b) ELSE -(a \div (-b)))
               ELSE IF a < 0 THEN -((-a) \div b) ELSE a \div b
Num(b) == IF b THEN 1 ELSE 0

\* Floating point numbers count halves.
Cast(v, t) ==
  CASE v.t = t -> v
    [] t = <<"float">> -> Val(t, 2 * v.n)
    [] v.t = <<"float">> -> Val(t, Trunc(v.n, 2))
    [] OTHER -> Val(t, v.n)
Promote(l, r) == IF <<"float">> \in {l.t, r.t} THEN <<"float">> ELSE l.t

Pow2(n) == 2 ^ n
RefBinary(op, l0, r0) ==
  LET t == Promote(l0, r0)
      l == Cast(l0, t).n
      r == Cast(r0, t).n
      f == t = <<"float">>
      bool == <<"boolean">>
  IN CASE op = "add" -> Val(t, l + r)
       [] op = "sub" -> Val(t, l - r)
       [] op = "mul" -> Val(t, IF f THEN (l * r) \div 2 ELSE l * r)
       [] op = "div" -> Val(t, IF f THEN (2 * l) \div r ELSE Trunc(l, r))
       [] op = "mod" -> Val(t, l - r * Trunc(l, r))
       [] op = "lshift" -> Val(t, l * Pow2(r))
       [] op = "rshift" -> Val(t, l \div Pow2(r))
       [] op = "and" -> Val(bool, Num(l # 0 /\ r # 0))
       [] op = "or" -> Val(bool, Num(l # 0 \/ r # 0))
       [] op = "eq" -> Val(bool, Num(l = r))
       [] op = "neq" -> Val(bool, Num(l # r))
       [] op = "lt" -> Val(bool, Num(l < r))
       [] op = "le" -> Val(bool, Num(l <= r))
       [] op = "gt" -> Val(bool, Num(l > r))
       [] op = "ge" -> Val(bool, Num(l >= r))

RECURSIVE Ref(_, _)
Give(E, v) == [E EXCEPT !.v = v]

\* A variable with its indices: name, the tuple of indices, the environment after
\* the index expressions.
RECURSIVE RefLval(_, _)
RefLval(E, e) ==
  IF e.k = "ExprVar" THEN [E |-> E, name |-> e.name, ix |-> <<>>]
  ELSE LET b == RefLval(E, e.base)
           o == Ref(b.E, e.offset)
       IN [E |-> o, name |-> b.name, ix |-> Append(b.ix, o.v.n)]
RECURSIVE Base(_)
Base(t) == IF t[1] = "array" THEN Base(SubSeq(t, 3, Len(t))) ELSE t
Contents(E, lv) == LET m == E.var[lv.name].m IN IF lv.ix \in DOMAIN m THEN m[lv.ix] ELSE 0
RefLoad(lv) == Give(lv.E, Val(Base(lv.E.var[lv.name].t), Contents(lv.E, lv)))
RefStore(E, lv, v0) ==
  LET v == Cast(v0, Base(E.var[lv.name].t))
      m == E.var[lv.name].m
  IN Give([E EXCEPT !.var[lv.name].m = [i \in DOMAIN m \cup {lv.ix} |-> IF i = lv.ix THEN v.n ELSE m[i]]], v)

RefStep(E, lv, op) == RefStore(E, lv, RefBinary(op, E.v, Val(<<"int">>, 1)))
RefUnary(E, e) ==
  LET lv == RefLval(E, e.expr)
      old == RefLoad(lv)
      x == Ref(E, e.expr)
  IN CASE e.op = "preinc" -> RefStep(old, lv, "add")
       [] e.op = "predec" -> RefStep(old, lv, "sub")
       [] e.op = "postinc" -> Give(RefStep(old, lv, "add"), old.v)
       [] e.op = "postdec" -> Give(RefStep(old, lv, "sub"), old.v)
       [] e.op = "not" -> Give(x, Val(<<"boolean">>, Num(x.v.n = 0)))
       [] e.op = "neg" -> Give(x, Val(x.v.t, -x.v.n))
       [] e.op = "complement" -> Give(x, Val(x.v.t, -x.v.n - 1))

RefCall(E, e) ==
  LET x == Ref(E, e.params[1])
  IN CASE e.name = "println" -> [x EXCEPT !.printed = Append(@, x.v.n)]
       [] e.name = "println_f" -> [x EXCEPT !.printed = Append(@, x.v.n)]
       [] e.name = "abs" -> Give(x, Val(<<"float">>, IF x.v.n < 0 THEN -x.v.n ELSE x.v.n))

\* The variables a statement declares are visible to its end.
Scoped(E, F) == [F EXCEPT !.var = [n \in DOMAIN E.var |-> @[n]]]

RECURSIVE RefInit(_, _, _, _)
RefInit(E, name, ix, e) ==
  IF e.k = "ExprArrayInit"
    THEN LET RECURSIVE From(_, _)
             From(F, i) == IF i > Len(e.elements) THEN F
                           ELSE From(RefInit(F, name, Append(ix, i - 1), e.elements[i]), i + 1)
         IN From(E, 1)
    ELSE LET x == Ref(E, e) IN RefStore(x, [name |-> name, ix |-> ix], x.v)

RefDeclare(E, d) ==
  LET m == [t |-> d.type, m |-> <<>>]
      F == [E EXCEPT !.var = [n \in DOMAIN @ \cup {d.name} |-> IF n = d.name THEN m ELSE @[n]]]
  IN IF d.init.k = "Null" THEN F ELSE RefInit(F, d.name, <<>>, d.init)

RECURSIVE RefDecls(_, _, _)
RefDecls(E, ds, i) == IF i > Len(ds) THEN E ELSE RefDecls(RefDeclare(E, ds[i]), ds, i + 1)

\* A loop of condition, body and increment; first says whether the condition is
\* tested before the first round.
RECURSIVE RefLoop(_, _, _, _, _)
RefLoop(E, cond, body, incr, first) ==
  LET c == IF first THEN Ref(E, cond) ELSE Give(E, Val(<<"boolean">>, 1))
      b == Ref(c, body)
      i == Ref([b EXCEPT !.sig = "ok"], incr)
  IN IF c.sig # "ok" \/ c.v.n = 0 THEN c
     ELSE IF b.sig = "break" THEN [b EXCEPT !.sig = "ok"]
     ELSE IF b.sig = "starved" \/ i.sig # "ok" THEN [i EXCEPT !.sig = "starved"]
     ELSE RefLoop(i, cond, body, incr, TRUE)

RefAdd(E, name, args, anon) ==
  LET RECURSIVE From(_, _, _)
      From(F, i, vs) == IF i > Len(args) THEN [E |-> F, vs |-> vs]
                        ELSE LET x == Ref(F, args[i]) IN From(x, i + 1, Append(vs, x.v))
      a == From(E, 1, <<>>)
  IN [a.E EXCEPT !.children = Append(@, [name |-> name, args |-> a.vs,
                                          env |-> IF anon THEN E.var ELSE <<>>])]

SJName(s, split) ==
  CASE s.k = "SJDuplicate" -> "_splitdupN"
    [] s.k = "SJRoundRobin" -> IF ~split THEN "_joinrrN"
                               ELSE IF s.weight = ExprConstInt(0) THEN "_splitrr0" ELSE "_splitrrN"
    [] s.k = "SJWeightedRR" -> IF Len(s.weights) = 1 THEN (IF split THEN "_splitrrN" ELSE "_joinrrN")
                               ELSE IF split THEN "_splitrrW" ELSE "_joinrrW"
SJWeights(s) == CASE s.k = "SJDuplicate" -> <<>>
                  [] s.k = "SJRoundRobin" -> <<s.weight>>
                  [] s.k = "SJWeightedRR" ->
                       IF Len(s.weights) = 1 THEN s.weights
                       ELSE <<ExprConstInt(Len(s.weights))>> \o s.weights
                            \o (IF Len(s.weights) = 2 THEN <<ExprConstInt(0)>> ELSE <<>>)

RefBlock(E, ss) ==
  LET RECURSIVE From(_, _)
      From(F, i) == IF i > Len(ss) \/ F.sig # "ok" THEN F ELSE From(Ref(F, ss[i]), i + 1)
  IN Scoped(E, From(E, 1))

RefIn(E, e) ==
  LET n == IF e.k = "ExprPeek" THEN Ref(E, e.expr) ELSE Give(E, Val(<<"int">>, 0))
      t == E.in.t
  IN IF n.v.n >= Len(n.in.q) THEN Give([n EXCEPT !.sig = "starved"], Val(t, 0))
     ELSE LET r == Give(n, Val(t, n.in.q[n.v.n + 1]))
          IN IF e.k = "ExprPeek" THEN r ELSE [r EXCEPT !.in.q = Tail(@)]

Ref(E, e) ==
  IF E.sig # "ok" THEN E ELSE
  CASE e.k \in {"ExprVar", "ExprArray"} -> RefLoad(RefLval(E, e))
    [] e.k = "ExprConstInt" -> Give(E, Val(<<"int">>, e.val))
    [] e.k = "ExprConstFloat" -> Give(E, Val(<<"float">>, e.val))
    [] e.k = "ExprConstBoolean" -> Give(E, Val(<<"boolean">>, Num(e.val)))
    [] e.k = "ExprBinary" -> LET l == Ref(E, e.left)
                                 r == Ref(l, e.right)
                             IN Give(r, RefBinary(e.op, l.v, r.v))
    [] e.k = "ExprUnary" -> RefUnary(E, e)
    [] e.k = "ExprTypeCast" -> LET x == Ref(E, e.expr) IN Give(x, Cast(x.v, e.type))
    [] e.k = "ExprTernary" -> LET c == Ref(E, e.a) IN IF c.v.n # 0 THEN Ref(c, e.b) ELSE Ref(c, e.c)
    [] e.k = "ExprFunCall" -> RefCall(E, e)
    [] e.k \in {"ExprPop", "ExprPeek"} -> RefIn(E, e)
    [] e.k = "StmtAssign" -> LET lv == RefLval(E, e.lhs)
                                 old == RefLoad(lv)
                                 r == Ref(lv.E, e.rhs)
                             IN RefStore(r, lv, IF e.op = "" THEN r.v ELSE RefBinary(e.op, old.v, r.v))
    [] e.k = "StmtBlock" -> RefBlock(E, e.stmts)
    [] e.k = "StmtBreak" -> [E EXCEPT !.sig = "break"]
    [] e.k = "StmtContinue" -> [E EXCEPT !.sig = "continue"]
    [] e.k \in {"StmtEmpty", "Null"} -> E
    [] e.k = "StmtExpr" -> Ref(E, e.expr)
    [] e.k = "StmtWhile" -> RefLoop(E, e.cond, e.body, Null, TRUE)
    [] e.k = "StmtDoWhile" -> RefLoop(E, e.cond, e.body, Null, FALSE)
    [] e.k = "StmtFor" -> Scoped(E, RefLoop(Ref(E, e.init), e.cond, e.body, e.incr, TRUE))
    [] e.k = "StmtIfThen" -> LET c == Ref(E, e.cond) IN Scoped(E, Ref(c, IF c.v.n # 0 THEN e.cons ELSE e.alt))
    [] e.k = "StmtPush" -> LET x == Ref(E, e.value) IN
                           IF x.sig # "ok" THEN x ELSE [x EXCEPT !.out = Append(@, x.v.n)]
    [] e.k = "StmtVarDecl" -> RefDecls(E, e.decls, 1)
    [] e.k = "StmtAdd" -> IF e.creator.k = "SCAnon" THEN RefAdd(E, e.creator.spec.name, <<>>, TRUE)
                          ELSE RefAdd(E, e.creator.name, e.creator.params, FALSE)
    [] e.k = "StmtSplit" -> RefAdd(E, SJName(e.splitter, TRUE), SJWeights(e.splitter), FALSE)
    [] e.k = "StmtJoin" -> RefAdd(E, SJName(e.joiner, FALSE), SJWeights(e.joiner), FALSE)
=============================================================================
