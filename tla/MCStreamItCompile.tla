--------------------------- MODULE MCStreamItCompile ---------------------------
EXTENDS StreamItCompile

IntT == <<"int">>
FloatT == <<"float">>
VoidT == <<"void">>
V(x) == ExprVar(x)
N(n) == ExprConstInt(n)
Bin(op, l, r) == ExprBinary(op, l, r)
Set(x, e) == StmtAssign(V(x), e, "")
Var(t, x, e) == StmtVarDecl(<<FieldDecl(t, x, e)>>)
Inc(x) == StmtExpr(ExprUnary("postinc", V(x)))
Block2(s) == StmtBlock(s)
When(c, s) == StmtIfThen(c, s, Null)

Filter(name, t, params, fields, init, body) ==
  StreamSpec("filter", t, name, params, fields, init, FuncWork(StmtBlock(body)))
Composite(type, t, name, params, body) ==
  StreamSpec(type, t, name, params, <<>>, Function(StmtBlock(body)), Null)
ToInt == StreamType(IntT, IntT)
Nothing == StreamType(VoidT, VoidT)
\* A program of one filter.
One(fields, init, body) ==
  Program(<<Composite("pipeline", Nothing, "top", <<>>, <<StmtAdd(SCSimple("F", <<>>))>>),
            Filter("F", ToInt, <<>>, fields, init, body)>>)

---------------------------------------------------------------------------
(* Loops: every loop around every sequence of two simple statements.        *)
InnerFor == StmtFor(Var(IntT, "j", N(0)), Bin("lt", V("j"), N(2)), Inc("j"), StmtPush(V("j")))
InnerBreak == StmtFor(Var(IntT, "j", N(0)), Bin("lt", V("j"), N(3)), Inc("j"),
                      Block2(<<When(Bin("eq", V("j"), V("i")), StmtBreak), StmtPush(V("j"))>>))
Simple == {StmtPush(V("i")), StmtAssign(V("x"), ExprPop, "add"),
           StmtPush(ExprTernary(Bin("gt", V("i"), N(1)), V("x"), N(7))),
           When(Bin("eq", V("i"), N(1)), StmtContinue), When(Bin("ge", V("x"), N(2)), StmtBreak),
           StmtIfThen(V("x"), StmtPush(V("x")), StmtBlock(<<Var(IntT, "z", V("i")), StmtPush(V("z"))>>)),
           InnerFor, InnerBreak}
For(b) == StmtFor(Set("i", N(0)), Bin("lt", V("i"), N(3)), Inc("i"), b)
While(b) == StmtWhile(Bin("lt", V("i"), N(3)), Block2(<<Inc("i"), b>>))
Do(b) == StmtDoWhile(Block2(<<Inc("i"), b>>), Bin("lt", V("i"), N(3)))
LoopPrograms ==
  {One(<<FieldDecl(IntT, "x", N(0))>>, Null, <<Var(IntT, "i", Null), l, StmtPush(V("i"))>>) :
     l \in {For(Block2(<<a, b>>)) : a, b \in Simple} \cup {While(Block2(<<a, b>>)) : a, b \in Simple}
           \cup {Do(a) : a \in Simple}}

---------------------------------------------------------------------------
(* Expressions, fields, arrays and types.                                   *)
Dims == TypeArray(TypeArray(IntT, 2), 2)
A(i, j) == ExprArray(ExprArray(V("A"), i), j)
Table == ExprArrayInit(<<ExprArrayInit(<<N(1), N(2)>>), ExprArrayInit(<<N(3), N(4)>>)>>)
Ops == {"add", "sub", "mul", "div", "mod", "lt", "le", "gt", "ge", "eq", "neq", "lshift", "rshift"}
Arithmetic(op, a, b) ==
  One(<<>>, Null, <<StmtPush(ExprTernary(Bin("neq", Bin(op, N(a), N(b)), N(0)), N(1), N(0)))>>)
Logic(op, l, r) == One(<<>>, Null, <<StmtIfThen(Bin(op, l, r), StmtPush(N(1)), StmtPush(N(0)))>>)
Casts == <<Var(FloatT, "f", N(3)), Var(IntT, "n", Null),
           StmtAssign(V("f"), ExprConstFloat(1), "add"),      \* f is 3.5
           Set("n", Bin("mul", V("f"), N(2))), StmtPush(V("n")),
           StmtPush(ExprTypeCast(IntT, ExprFunCall("abs", <<ExprUnary("neg", V("f"))>>))),
           StmtExpr(ExprFunCall("println", <<V("n")>>)),
           StmtExpr(ExprFunCall("println_f", <<Bin("div", V("f"), N(2))>>)),
           When(Bin("lt", V("f"), N(4)), StmtPush(ExprUnary("neg", V("n"))))>>
Unaries == <<StmtPush(ExprUnary("preinc", V("x"))), StmtPush(ExprUnary("postdec", V("x"))),
             StmtPush(ExprUnary("predec", V("x"))), StmtPush(ExprUnary("complement", V("x"))),
             When(ExprUnary("not", V("x")), StmtPush(N(9))), StmtEmpty,
             When(ExprUnary("not", ExprConstBoolean(FALSE)), StmtPush(ExprPeek(N(1))))>>
ExprPrograms ==
  {One(<<>>, Null, <<StmtPush(Bin(op, N(-7), N(2)))>>) : op \in {"add", "sub", "mul", "div", "mod", "rshift"}}
  \cup {One(<<>>, Null, <<StmtPush(ExprTernary(Bin(op, ExprPop, ExprPop), N(1), N(0)))>>) :
          op \in {"lt", "le", "gt", "ge", "eq", "neq"}}
  \cup {Logic(op, l, r) : op \in {"and", "or"}, l \in {N(0), N(2)}, r \in {N(0), Bin("lt", N(0), N(1))}}
  \cup {One(<<>>, Null, Casts), One(<<FieldDecl(IntT, "x", N(1))>>, Null, Unaries),
        One(<<FieldDecl(IntT, "x", N(5))>>, Null, <<StmtPush(Bin("lshift", V("x"), N(2)))>>),
        One(<<FieldDecl(Dims, "A", Table), FieldDecl(IntT, "s", Null)>>,
            Function(StmtBlock(<<StmtAssign(A(N(1), N(0)), N(30), ""), Set("s", A(N(0), N(1)))>>)),
            <<Var(Dims, "B", Null),
              StmtAssign(ExprArray(ExprArray(V("B"), N(1)), N(1)), V("s"), ""),
              StmtAssign(A(N(0), ExprArray(ExprArray(V("B"), N(0)), N(1))), ExprPop, "add"),
              StmtFor(Var(IntT, "i", N(0)), Bin("lt", V("i"), N(2)), Inc("i"),
                      Block2(<<StmtPush(A(V("i"), N(0))), StmtPush(A(N(1), V("i")))>>))>>)}

---------------------------------------------------------------------------
(* Graphs: the test programs, with the splitters and joiners.               *)
Bar == Filter("bar", ToInt, <<Parameter(IntT, "a")>>, <<>>, Null, <<StmtPush(Bin("add", V("a"), ExprPop))>>)
Source == Filter("IntSource", StreamType(VoidT, IntT), <<>>, <<FieldDecl(IntT, "x", Null)>>,
                 Function(Set("x", N(0))), <<StmtPush(ExprUnary("postinc", V("x")))>>)
Printer == Filter("IntPrinter", StreamType(IntT, VoidT), <<>>, <<>>, Null,
                  <<StmtExpr(ExprFunCall("println", <<ExprPop>>))>>)
Add(name, args) == StmtAdd(SCSimple(name, args))
TestPipe ==
  Program(<<Bar, Source, Printer,
            Composite("pipeline", Nothing, "test", <<>>,
              <<Add("IntSource", <<>>), Var(IntT, "i", N(3)),
                StmtFor(Set("i", Bin("sub", V("i"), N(1))), Bin("lt", V("i"), N(4)), Inc("i"), Add("bar", <<V("i")>>)),
                Add("IntPrinter", <<>>)>>)>>)
TestSJ(splitter, joiner) ==
  Program(<<Bar, Source, Printer,
            Composite("splitjoin", ToInt, "foo", <<Parameter(IntT, "n")>>,
              <<StmtSplit(splitter),
                StmtFor(Var(IntT, "i", N(0)), Bin("lt", V("i"), V("n")), Inc("i"),
                        Block2(<<Add("bar", <<V("i")>>), When(Bin("eq", V("i"), N(1)), Add("Identity", <<>>))>>)),
                StmtJoin(joiner)>>),
            Composite("pipeline", Nothing, "test", <<>>,
              <<Add("IntSource", <<>>), Add("foo", <<N(2)>>), Add("IntPrinter", <<>>)>>)>>)
Anon == Filter("_anon1", ToInt, <<>>, <<FieldDecl(IntT, "g", Null)>>, Null,
               <<StmtPush(Bin("mul", V("i"), Bin("add", ExprPop, ExprArray(V("G"), V("j")))))>>)
TestAnon ==
  Program(<<StreamSpec("global", Nothing, "TheGlobal", <<>>, <<FieldDecl(TypeArray(IntT, 3), "G", Null)>>,
                       Function(StmtBlock(<<StmtAssign(ExprArray(V("G"), N(1)), N(20), "")>>)), Null),
            Composite("pipeline", Nothing, "test", <<>>,
              <<Var(IntT, "i", N(3)),
                StmtFor(Var(IntT, "j", N(0)), Bin("lt", V("j"), N(2)), Inc("j"), StmtAdd(SCAnon(Anon))),
                StmtAdd(SCAnon(Composite("pipeline", Nothing, "_anon2", <<>>, <<Add("DummySinkInt", <<>>)>>)))>>)>>)
GraphPrograms == {TestPipe, TestAnon}
  \cup {TestSJ(s, j) : s \in {SJDuplicate, SJRoundRobin(N(0)), SJRoundRobin(N(2)), SJWeightedRR(<<N(1)>>)},
                       j \in {SJRoundRobin(N(2)), SJWeightedRR(<<N(1)>>)}}
  \cup {TestSJ(SJWeightedRR(<<N(1), N(2)>>), SJWeightedRR(<<N(2), N(3)>>))}

MCSplitNamed == {"_splitdup", "_splitdupN", "_splitrr0", "_splitrr1", "_splitrrN", "_splitrrW", "_splitjoin"}
MCJoinNamed == {"_joinrr1", "_joinrrN", "_joinrrW"}
MCInput == <<1, 0, 2, 5, 1>>

\* The handled programs of the three families; the loops the generator gets wrong
\* are kept apart.
MCPrograms == {p \in LoopPrograms \cup ExprPrograms \cup GraphPrograms : Handled(p)}

\* do { push(i); if (x > 0) push(x); } while (++i < 3);
MCDoWhile == {One(<<FieldDecl(IntT, "x", N(0))>>, Null,
  <<Var(IntT, "i", Null),
    StmtDoWhile(Block2(<<StmtPush(V("i")), When(Bin("gt", V("x"), N(0)), StmtPush(V("x")))>>),
                Bin("lt", ExprUnary("preinc", V("i")), N(3)))>>)}
=============================================================================
