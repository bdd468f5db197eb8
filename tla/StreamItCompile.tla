---------------------------- MODULE StreamItCompile ----------------------------
(***************************************************************************)
(* A StreamIt program compiled by FEIRToSKIR and run: main builds the tree  *)
(* of kernels by calling the generated init functions, then the work        *)
(* function of every kernel runs on a given input.  One step executes one   *)
(* instruction of the generated code (LLVM's semantics, external).          *)
(*                                                                          *)
(* The results are compared with the reference evaluator of StreamItRef.    *)
(***************************************************************************)
EXTENDS StreamItRef, TLC

CONSTANTS Programs,   \* the programs to compile and run
          Input,      \* what a filter finds on its input stream
          FIRINGS,    \* how often the work function of a filter is run (bound)
          MAXOUT      \* how much a filter may push (bound)

VARIABLES prog,      \* the program, chosen at the start
          mod,       \* the generated module
          stack,     \* the frames of the functions that are running
          mem,       \* address -> contents; an address that is not there holds 0
          ninst,     \* how many states of kernels were allocated
          kernels,   \* the kernels, in the order of their creation
          at,        \* the kernel whose work function runs; 0 while main runs
          fired,     \* how often it ran
          io,        \* its input and output streams and what it printed
          results    \* the outcome of every kernel that has run
vars == <<prog, mod, stack, mem, ninst, kernels, at, fired, io, results>>

Idle == [in |-> <<>>, out |-> <<>>, printed |-> <<>>]
Frame(bb, inst, arg) == [bb |-> bb, i |-> 1, prev |-> 0, regs |-> <<>>, inst |-> inst, arg |-> arg]
Entry(name, part) == mod.list[<<name, part>>][1]
Generated(name) == <<name, "init">> \in DOMAIN mod.list

Init ==
  /\ prog \in Programs
  /\ mod = visitProgram(prog)
  /\ stack = IF mod.err THEN <<>> ELSE <<Frame(mod.list[<<"main", "work">>][1], <<"none">>, <<"none">>)>>
  /\ mem = <<>>
  /\ ninst = 0
  /\ kernels = <<>>
  /\ at = 0
  /\ fired = 0
  /\ io = Idle
  /\ results = <<>>

---------------------------------------------------------------------------
(* The semantics of the instructions.                                       *)

f == Last(stack)
Block == mod.bbs[f.bb]
Running == stack # <<>> /\ f.i <= Len(Block)
I == Block[f.i]
Is(ops) == Running /\ I.op \in ops

Eval(v) == CASE v.c = "reg" -> f.regs[v.x]
             [] v.c = "self" -> f.inst
             [] v.c = "arg" -> f.arg
             [] v.c = "null" -> <<"none">>
             [] OTHER -> v.x
Arg(n) == Eval(I.a[n])
At0(m, a) == IF a \in DOMAIN m THEN m[a] ELSE 0
With(m, a, v) == (a :> v) @@ m

Top(g) == Append(Front(stack), g)
\* The next instruction, with v in the result register of this one.
Step(v) == [f EXCEPT !.i = @ + 1, !.regs = (I.dst :> v) @@ @]
Skip == [f EXCEPT !.i = @ + 1]
Goto(bb) == [f EXCEPT !.i = 1, !.prev = f.bb, !.bb = bb]

\* The bits of a boolean are 0 and 1; as a signed number 1 is -1.
SignedBit(t, n) == IF t = <<"i1">> THEN -n ELSE n
\* Arithmetic of the type: one bit for booleans.
Fit(t, n) == IF t = <<"i1">> THEN n % 2 ELSE n

Alu(op, t, a, b) ==
  CASE op \in {"add", "fadd"} -> Fit(t, a + b)
    [] op \in {"sub", "fsub"} -> Fit(t, a - b)
    [] op = "mul" -> Fit(t, a * b)
    [] op = "fmul" -> (a * b) \div 2
    [] op = "sdiv" -> Trunc(a, b)
    [] op = "fdiv" -> (2 * a) \div b
    [] op \in {"srem", "frem"} -> a - b * Trunc(a, b)
    [] op = "shl" -> a * Pow2(b)
    [] op = "ashr" -> a \div Pow2(b)
    [] op = "and" -> Num(a = 1 /\ b = 1)
    [] op = "or" -> Num(a = 1 \/ b = 1)
    [] op \in {"icmp.eq", "fcmp.oeq"} -> Num(a = b)
    [] op \in {"icmp.ne", "fcmp.one"} -> Num(a # b)
    [] op \in {"icmp.slt", "fcmp.olt"} -> Num(a < b)
    [] op \in {"icmp.sle", "fcmp.ole"} -> Num(a <= b)
    [] op \in {"icmp.sgt", "fcmp.ogt"} -> Num(a > b)
    [] op \in {"icmp.sge", "fcmp.oge"} -> Num(a >= b)
Alu1(op, from, t, a) ==
  CASE op \in {"neg", "fneg"} -> Fit(t, -a)
    [] op = "not" -> Fit(t, -a - 1)
    [] op = "sitofp" -> 2 * SignedBit(from, a)
    [] op = "fptosi" -> Fit(t, Trunc(a, 2))

Unary == {"neg", "fneg", "not", "sitofp", "fptosi"}
Binary == {"add", "fadd", "sub", "fsub", "mul", "fmul", "sdiv", "fdiv", "srem", "frem", "shl", "ashr",
           "and", "or"} \cup {Compare[c][j] : c \in DOMAIN Compare, j \in 1..2}

Compute ==
  /\ Is(Unary \cup Binary \cup {"phi", "gep", "load"})
  /\ stack' = Top(Step(
       CASE I.op \in Unary -> Alu1(I.op, I.a[1].t, I.t, Arg(1))
         [] I.op \in Binary -> Alu(I.op, I.a[1].t, Arg(1), Arg(2))
         [] I.op = "phi" -> Arg(CHOOSE j \in DOMAIN I.to : I.to[j] = f.prev)
         [] I.op = "gep" -> Append(Arg(1), Arg(2))
         [] I.op = "load" -> At0(mem, Arg(1))))
  /\ UNCHANGED <<prog, mod, mem, ninst, kernels, at, fired, io, results>>

Store ==
  /\ Is({"store", "zero"})
  /\ mem' = IF I.op = "store" THEN With(mem, Arg(2), Arg(1))
            ELSE [a \in {b \in DOMAIN mem : ~IsPrefix(Arg(1), b)} |-> mem[a]]
  /\ stack' = Top(Skip)
  /\ UNCHANGED <<prog, mod, ninst, kernels, at, fired, io, results>>

Branch ==
  /\ Is({"br", "condbr"})
  /\ LET to == IF I.op = "br" \/ Arg(1) = 1 THEN I.to[1] ELSE I.to[2]
     IN to # 0 /\ stack' = Top(Goto(to))
  /\ UNCHANGED <<prog, mod, mem, ninst, kernels, at, fired, io, results>>

Pop ==
  /\ Is({"pop", "peek"})
  /\ LET n == IF I.op = "peek" THEN Arg(2) ELSE 0
     IN /\ n < Len(io.in)
        /\ mem' = With(mem, Arg(1), io.in[n + 1])
        /\ io' = IF I.op = "pop" THEN [io EXCEPT !.in = Tail(@)] ELSE io
  /\ stack' = Top(Skip)
  /\ UNCHANGED <<prog, mod, ninst, kernels, at, fired, results>>

Push ==
  /\ Is({"push"})
  /\ Len(io.out) < MAXOUT
  /\ io' = [io EXCEPT !.out = Append(@, At0(mem, Arg(1)))]
  /\ stack' = Top(Skip)
  /\ UNCHANGED <<prog, mod, mem, ninst, kernels, at, fired, results>>

Call ==
  /\ Is({"call"})
  /\ LET a == Arg(1)
     IN /\ io' = IF I.to[1] = "fabs" THEN io ELSE [io EXCEPT !.printed = Append(@, a)]
        /\ stack' = Top(Step(IF a < 0 THEN -a ELSE a))
  /\ UNCHANGED <<prog, mod, mem, ninst, kernels, at, fired, results>>

\* A generated init function is called; the one of a library stream copies its
\* arguments, and the workers of composites keep the state they are given.
CallInit ==
  /\ Is({"init"})
  /\ LET name == I.to[1]
         copy == <<"state", ninst + 1>>
         fields == {a \in DOMAIN mem : IsPrefix(Arg(1), a) /\ a # Arg(1)}
         new == {copy \o SubSeq(a, 3, Len(a)) : a \in fields}
     IN \/ /\ Generated(name)
           /\ stack' = Append(stack, Frame(Entry(name, "init"), <<"none">>, Arg(1)))
           /\ UNCHANGED <<mem, ninst>>
        \/ /\ name \in {"_pipeline", "_splitjoin"}
           /\ stack' = Top(Step(Arg(1)))
           /\ UNCHANGED <<mem, ninst>>
        \/ /\ name \in DOMAIN LibraryParams
           /\ mem' = [a \in new |-> mem[Arg(1) \o SubSeq(a, 3, Len(a))]] @@ mem
           /\ ninst' = ninst + 1
           /\ stack' = Top(Step(copy))
  /\ UNCHANGED <<prog, mod, kernels, at, fired, io, results>>

MallocState ==
  /\ Is({"malloc"})
  /\ ninst' = ninst + 1
  /\ stack' = Top([Skip EXCEPT !.inst = <<"state", ninst + 1>>])
  /\ UNCHANGED <<prog, mod, mem, kernels, at, fired, io, results>>

\* A kernel is its stream, its state and whether it was called.
Kernel ==
  /\ Is({"kernel"})
  /\ kernels' = Append(kernels, [name |-> I.to[1], st |-> Arg(1), called |-> FALSE])
  /\ stack' = Top(Step(Len(kernels) + 1))
  /\ UNCHANGED <<prog, mod, mem, ninst, at, fired, io, results>>

SkirCall ==
  /\ Is({"skircall", "wait"})
  /\ kernels' = IF I.op = "wait" THEN kernels ELSE [kernels EXCEPT ![Arg(1)].called = TRUE]
  /\ stack' = Top(Skip)
  /\ UNCHANGED <<prog, mod, mem, ninst, at, fired, io, results>>

\* An init function returns its state to the caller; a work function ends a firing.
Return ==
  /\ Is({"ret"})
  /\ LET caller == stack[Len(stack) - 1]
         call == mod.bbs[caller.bb][caller.i]
     IN stack' = IF Len(stack) = 1 THEN <<>>
                 ELSE Append(SubSeq(stack, 1, Len(stack) - 2),
                             [caller EXCEPT !.i = @ + 1, !.regs = (call.dst :> f.inst) @@ @])
  /\ fired' = IF at = 0 THEN 0 ELSE fired + 1
  /\ UNCHANGED <<prog, mod, mem, ninst, kernels, at, io, results>>

---------------------------------------------------------------------------
(* Which function runs next: a filter FIRINGS times, a composite once, a    *)
(* library stream not at all.                                               *)

SpecOf(name) == mod.syms[<<"streamit", name>>].node
IsFilter(name) == SpecOf(name).type = "filter"
Rounds(name) == IF ~Generated(name) THEN 0 ELSE IF IsFilter(name) THEN FIRINGS ELSE 1
Outcome(starved) == [out |-> io.out, printed |-> io.printed, starved |-> starved]

\* The runtime starts the next firing of the kernel, or goes on to the next kernel.
Fire ==
  /\ stack = <<>>
  /\ ~mod.err
  /\ at <= Len(kernels)
  /\ IF at > 0 /\ fired < Rounds(kernels[at].name)
       THEN /\ stack' = <<Frame(Entry(kernels[at].name, "work"), kernels[at].st, <<"none">>)>>
            /\ UNCHANGED <<at, fired, io, results>>
       ELSE /\ at' = at + 1
            /\ fired' = 0
            /\ io' = [Idle EXCEPT !.in = Input]
            /\ results' = IF at = 0 THEN results ELSE Append(results, Outcome(FALSE))
            /\ stack' = <<>>
  /\ UNCHANGED <<prog, mod, mem, ninst, kernels>>

\* A filter waits for input that does not come: its run ends there.
Starve ==
  /\ Is({"pop", "peek"})
  /\ (IF I.op = "peek" THEN Arg(2) ELSE 0) >= Len(io.in)
  /\ stack' = <<>>
  /\ results' = Append(results, Outcome(TRUE))
  /\ at' = at + 1
  /\ fired' = 0
  /\ io' = [Idle EXCEPT !.in = Input]
  /\ UNCHANGED <<prog, mod, mem, ninst, kernels>>

Next == Compute \/ Store \/ Branch \/ Pop \/ Push \/ Call \/ CallInit \/ MallocState \/ Kernel \/ SkirCall
        \/ Return \/ Fire \/ Starve

Spec == Init /\ [][Next]_vars /\ WF_vars(Next)

---------------------------------------------------------------------------
(* The tree of kernels that was built, with what each of them did.          *)

Done == stack = <<>> /\ ~mod.err /\ at > Len(kernels)

\* A library stream: the children it counts, through the pointer to the number of
\* children of its parent, and its other arguments.
Counts(name) == LibraryParams[name] # <<>> /\ LibraryParams[name][1] = CountPtr
LibraryNode(k) ==
  LET n == Len(LibraryParams[k.name])
      args == [i \in 1..n |-> At0(mem, Append(k.st, i - 1))]
  IN [name |-> k.name,
      count |-> IF Counts(k.name) THEN At0(mem, args[1]) ELSE 0,
      args |-> IF Counts(k.name) THEN Tail(args) ELSE args]

\* The kernel that main created; no other has the stream of the top.
TopKernel == CHOOSE n \in DOMAIN kernels : kernels[n].name = mod.top

\* The library kernel that was called with the state of a composite.
Worker(st) == LET w == {n \in DOMAIN kernels : ~Generated(kernels[n].name) /\ kernels[n].st = st}
              IN IF \E n \in w : kernels[n].called THEN kernels[CHOOSE n \in w : kernels[n].called].name
                 ELSE "none"

RECURSIVE Tree(_)
Tree(n) ==
  LET k == kernels[n]
      kids == At0(mem, Append(k.st, 0))
  IN IF ~Generated(k.name) THEN LibraryNode(k)
     ELSE IF IsFilter(k.name) THEN [name |-> k.name, did |-> results[n]]
     ELSE [name |-> k.name, worker |-> Worker(k.st), kids |-> [i \in 1..kids |-> Tree(At0(mem, k.st \o <<2, i - 1>>))]]

\* The same tree according to the reference evaluator.
SpecNamed(name) == (CHOOSE e \in Specs(prog) : e[1] = <<"streamit", name>> /\ e[2].k = "StreamSpec")[2]
GlobalSpecs == {s \in Range(prog.streams) : s.type = "global"}
Env(var) == [var |-> var, in |-> [t |-> <<"int">>, q |-> Input], out |-> <<>>, printed |-> <<>>,
             children |-> <<>>, v |-> Val(<<"int">>, 0), sig |-> "ok"]
Globals == IF GlobalSpecs = {} THEN <<>>
           ELSE LET s == CHOOSE g \in GlobalSpecs : TRUE
                    E == RefDecls(Env(<<>>), s.fields, 1)
                IN (IF s.init.k = "Null" THEN E ELSE Ref(E, s.init.body)).var

RECURSIVE RefFire(_, _, _)
RefFire(E, work, n) == IF n = 0 \/ E.sig # "ok" THEN E ELSE RefFire(Scoped(E, Ref(E, work.body)), work, n - 1)

\* The stream s after its init function.
RefStarted(E, s) == IF s.init.k = "Null" THEN E ELSE Scoped(E, Ref(E, s.init.body))
RefStart(child, s) ==
  LET given == [n \in {s.params[i].name : i \in DOMAIN s.params} |->
                  LET i == CHOOSE j \in DOMAIN s.params : s.params[j].name = n
                  IN [t |-> s.params[i].type, m |-> (<<>> :> Cast(child.args[i], s.params[i].type).n)]]
      E == Env(given @@ (child.env @@ Globals))
  IN RefStarted(RefDecls([E EXCEPT !.in.t = s.st.in], s.fields, 1), s)
RefDid(E) == [out |-> E.out, printed |-> E.printed, starved |-> E.sig = "starved"]

RECURSIVE RefTree(_, _)
RefNode(s, init) ==
  IF s.type = "filter" THEN [name |-> s.name, did |-> RefDid(RefFire(init, s.work, FIRINGS))]
  ELSE [name |-> s.name, worker |-> IF s.type = "pipeline" THEN "_pipeline" ELSE "_splitjoin",
        kids |-> [i \in DOMAIN init.children |-> RefTree(init.children[i], Len(init.children))]]
RefSpec(child, s) == RefNode(s, RefStart(child, s))
RefTree(child, siblings) ==
  IF child.name \in DOMAIN LibraryParams
    THEN [name |-> child.name, count |-> IF Counts(child.name) THEN siblings ELSE 0,
          args |-> [i \in DOMAIN child.args |-> child.args[i].n]]
    ELSE RefSpec(child, SpecNamed(child.name))

---------------------------------------------------------------------------
(* The programs the generator is right about.                               *)

RECURSIVE Sub(_)
Kids(n) ==
  CASE n.k = "ExprArray" -> <<n.base, n.offset>>
    [] n.k = "ExprArrayInit" -> n.elements
    [] n.k = "ExprBinary" -> <<n.left, n.right>>
    [] n.k = "ExprFunCall" -> n.params
    [] n.k \in {"ExprPeek", "ExprTypeCast", "ExprUnary", "StmtExpr"} -> <<n.expr>>
    [] n.k = "ExprTernary" -> <<n.a, n.b, n.c>>
    [] n.k = "StmtAssign" -> <<n.lhs, n.rhs>>
    [] n.k = "StmtBlock" -> n.stmts
    [] n.k \in {"StmtDoWhile", "StmtWhile"} -> <<n.body, n.cond>>
    [] n.k = "StmtFor" -> <<n.init, n.cond, n.body, n.incr>>
    [] n.k = "StmtIfThen" -> <<n.cond, n.cons, n.alt>>
    [] n.k = "StmtPush" -> <<n.value>>
    [] n.k = "StmtVarDecl" -> [i \in DOMAIN n.decls |-> n.decls[i].init]
    [] n.k = "StmtAdd" /\ n.creator.k = "SCSimple" -> n.creator.params
    [] OTHER -> <<>>
\* A node and all the nodes below it, in the order of the visits.
Sub(n) == <<n>> \o FlattenSeq([i \in DOMAIN Kids(n) |-> Sub(Kids(n)[i])])
Below(n, kinds) == \E m \in Range(Sub(n)) : m.k \in kinds

Loops == {"StmtFor", "StmtWhile", "StmtDoWhile"}
\* Statements and expressions that end in another block than they start in.
Blocky == Loops \cup {"StmtIfThen", "ExprTernary", "StmtBreak", "StmtContinue"}
Impure == {"ExprPop", "ExprFunCall", "StmtAssign"}

\* No break and no continue of a loop comes after an inner loop (or after a child
\* stream is compiled): the inner loop has overwritten the targets.
RECURSIVE Jumps(_)
Jumps(n) == IF n.k \in {"StmtBreak", "StmtContinue"} THEN <<"jump">>
            ELSE IF n.k \in Loops \cup {"StmtAdd"} THEN <<"loop">>
            ELSE FlattenSeq([i \in DOMAIN Kids(n) |-> Jumps(Kids(n)[i])])
JumpsFirst(loop) == LET j == Jumps(loop.body)
                    IN \A a, b \in DOMAIN j : a < b => ~(j[a] = "loop" /\ j[b] = "jump")

\* No declaration hides a name that is visible.
RECURSIVE Hides(_, _)
Hides(n, seen) ==
  CASE n.k = "StmtVarDecl" -> \E i \in DOMAIN n.decls : n.decls[i].name \in seen
    [] n.k = "StmtBlock" ->
         \E i \in DOMAIN n.stmts :
           Hides(n.stmts[i], seen \cup UNION {{d.name : d \in Range(n.stmts[j].decls)} :
                                               j \in {m \in 1..(i - 1) : n.stmts[m].k = "StmtVarDecl"}})
    [] n.k = "StmtFor" ->
         LET inner == IF n.init.k = "StmtVarDecl" THEN {d.name : d \in Range(n.init.decls)} ELSE {}
         IN Hides(n.init, seen) \/ Hides(n.body, seen \cup inner)
    [] OTHER -> \E i \in DOMAIN Kids(n) : Hides(Kids(n)[i], seen)

\* The parts of a node that are visited while a builder of an earlier block is in use.
Unmoved(n) ==
  CASE n.k \in {"StmtIfThen", "StmtWhile", "StmtDoWhile"} -> <<n.cond>>
    [] n.k = "StmtFor" -> <<n.init, n.cond>>
    [] n.k = "ExprTernary" -> <<n.a>>
    [] n.k = "ExprPeek" -> <<n.expr>>
    [] n.k \in {"StmtVarDecl", "StmtAdd", "ExprArrayInit"} -> Kids(n)
    [] OTHER -> <<>>

\* Written as a truth value.
TruthValue(e) == \/ e.k = "ExprConstBoolean"
                 \/ e.k = "ExprUnary" /\ e.op = "not"
                 \/ e.k = "ExprBinary" /\ e.op \in DOMAIN Compare \cup {"and", "or"}

GoodNode(n) ==
  /\ \A i \in DOMAIN Unmoved(n) : ~Below(Unmoved(n)[i], {"ExprTernary"})
  /\ n.k = "ExprBinary" /\ n.op = "and" => (TruthValue(n.left) => TruthValue(n.right))
  /\ n.k = "StmtDoWhile" => ~Below(n.body, Blocky)
  /\ n.k \in Loops => JumpsFirst(n)
  /\ n.k = "StmtAssign" /\ n.op # "" => ~Below(n.lhs, Impure)
  /\ n.k = "ExprUnary" /\ n.op \notin {"not", "neg", "complement"} => ~Below(n.expr, Impure)
GoodBody(s, func) ==
  func.k # "Null" =>
    /\ \A n \in Range(Sub(func.body)) : GoodNode(n)
    /\ ~Hides(func.body, {d.name : d \in Range(s.params) \cup Range(s.fields)})
\* A program the generator handles.  The init function of the global stream must
\* be straight-line code, and no stream of the program is named like a splitter
\* or a joiner.
Handled(p) ==
  \A e \in Specs(p) : e[2].k = "StreamSpec" =>
    LET s == e[2]
    IN /\ GoodBody(s, s.init) /\ GoodBody(s, s.work)
       /\ s.type = "global" /\ s.init.k # "Null" => ~Below(s.init.body, Blocky)
       /\ s.name \notin SplitNamed \cup JoinNamed

---------------------------------------------------------------------------
(* Properties.                                                              *)

\* WellFormed: the code generated for a program of the handled fragment has no
\* block without exactly one terminator at its end and no branch to a block that
\* was not created, and no phi for a predecessor that does not branch to it
\* (FEIRToSKIR.cpp inserts through builders of earlier blocks), and every
\* register an instruction reads has been written on the way to it.
Terminators == {"br", "condbr", "ret"}
WellFormed ==
  /\ ~mod.err
  /\ Running /\ I.op # "phi" => \A i \in DOMAIN I.a : I.a[i].c = "reg" => I.a[i].x \in DOMAIN f.regs
  /\ \A g \in DOMAIN mod.list : \A bb \in Range(mod.list[g]) :
       LET b == mod.bbs[bb] IN
         /\ b # <<>>
         /\ \A i \in DOMAIN b : b[i].op \in Terminators <=> i = Len(b)
         /\ \A i \in DOMAIN b : b[i].op \in {"br", "condbr"} => Range(b[i].to) \subseteq Range(mod.list[g])
         /\ \A i \in DOMAIN b : b[i].op = "phi" =>
              \A p \in Range(b[i].to) : bb \in Range(Last(mod.bbs[p]).to)

\* Agrees: when everything has run, the tree of kernels with its parameters,
\* what every filter pushed and printed, and the number of branches every
\* splitter and joiner sees are those of the reference evaluator.
Agrees == Done => Tree(TopKernel) = RefTree([name |-> mod.top, args |-> <<>>, env |-> <<>>], 0)

\* Finishes: the generated code of every program comes to its end.
Finishes == <>Done
=============================================================================
