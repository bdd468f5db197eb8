-------------------------- MODULE MCRuntimeEvents --------------------------
(***************************************************************************)
(* Stream graphs for RuntimeGraph: StreamIt networks, built as the         *)
(* generated init functions build them (FEIRToSKIR), programs that use the *)
(* instructions directly, and clients of the event interface.              *)
(***************************************************************************)
EXTENDS RuntimeGraph

MCJunk == 99

(* A network: a filter, a pipeline or a split-join.                        *)
Filter(w) == [t |-> "filter", work |-> w, ch |-> <<>>]
Pipe(ch) == [t |-> "pipeline", work |-> "pipeline", ch |-> ch]
Both(sp, ch, jn) == [t |-> "splitjoin", work |-> "splitjoin", ch |-> ch, split |-> sp, join |-> jn]
SJ(w, arg) == [work |-> w, arg |-> arg]

User == [Inc |-> <<Pop(1), Push(1)>>,
         Twice |-> <<Pop(1), Push(1), Push(1)>>,
         Last |-> <<Pop(1), Pop(1), Push(1)>>]

(* Main's code: an init function creates the children's kernels, then its  *)
(* own; p is the place in the tree, which names the cell and the kernel.   *)
AddTo(c, v) == [op |-> "add", cell |-> c, var |-> v]
Wait(v) == [op |-> "wait", var |-> v]
SJArgs(c, s) == IF s.work \in {"splitrrW", "joinrrW"} THEN [cell |-> c, weights |-> s.arg]
                ELSE [cell |-> c, arg |-> s.arg]

RECURSIVE Build(_, _)
Build(net, p) ==
  LET children == FlattenSeq([i \in DOMAIN net.ch |->
                    Build(net.ch[i], Append(p, i)) \o <<AddTo(p, <<"k", Append(p, i)>>)>>])
      one(s, j) == <<Kernel(<<"k", Append(p, j)>>, s.work, SJArgs(p, s)),
                     AddTo(p, <<"k", Append(p, j)>>)>>
  IN (IF net.t = "splitjoin" THEN one(net.split, 0) \o children \o one(net.join, 10) ELSE children)
     \o <<Kernel(<<"k", p>>, net.work, IF net.t = "filter" THEN [f |-> 0] ELSE [cell |-> p])>>

RECURSIVE Cells(_, _)
Cells(net, p) == {p} \cup UNION {Cells(net.ch[i], Append(p, i)) : i \in DOMAIN net.ch}

(* What a network denotes: the outputs for a finite input, up to the first *)
(* missing element.                                                        *)
Weight(s, i) == IF s.work \in {"splitrrW", "joinrrW"} THEN s.arg[i] ELSE s.arg
RECURSIVE Deal(_, _, _, _)
Deal(s, n, in, i) ==   \* round robin over n sequences, at the i-th
  LET w == Weight(s, i)
      j == IF i = n THEN 1 ELSE i + 1
  IN IF in = <<>> THEN [b \in 1 .. n |-> <<>>]
     ELSE LET take == SubSeq(in, 1, Min({w, Len(in)}))
              rest == Deal(s, n, SubSeq(in, Len(take) + 1, Len(in)), j)
          IN [rest EXCEPT ![i] = take \o @]
RECURSIVE Gather(_, _, _)
Gather(s, ins, i) ==
  LET w == Weight(s, i)
      j == IF i = Len(ins) THEN 1 ELSE i + 1
  IN IF Len(ins[i]) < w THEN ins[i]
     ELSE SubSeq(ins[i], 1, w)
          \o Gather(s, [ins EXCEPT ![i] = SubSeq(@, w + 1, Len(@))], j)
RECURSIVE Den(_, _)
Den(net, in) ==
  CASE net.t = "pipeline" -> FoldLeft(LAMBDA x, c : Den(c, x), in, net.ch)
    [] net.t = "splitjoin" ->
         LET n == Len(net.ch)
             branch == IF net.split.work \in {"splitdupN", "splitdup"} THEN [b \in 1 .. n |-> in]
                       ELSE Deal(net.split, n, in, 1)
         IN Gather(net.join, [b \in 1 .. n |-> Den(net.ch[b], branch[b])], 1)
    [] net.work = "Twice" -> FlattenSeq([i \in DOMAIN in |-> <<in[i], in[i]>>])
    [] net.work = "Last"  -> [i \in 1 .. Len(in) \div 2 |-> in[2 * i]]
    [] OTHER -> in

(* The reader pushes e once more when it finds the end of the file.        *)
Network(net, file, force, workers) ==
  LET top == Pipe(<<Filter("FileReaderFloat"), net, Filter("FileWriter")>>)
      root == <<"k", <<>>>>
  IN [code |-> Build(top, <<>>) \o <<Call(root, <<>>, <<>>), Wait(root)>>,
      cells |-> Cells(top, <<>>), user |-> User, file |-> file, force |-> force,
      workers |-> workers, expect |-> Den(net, Append(file, MCJunk)), waits |-> TRUE,
      fns |-> {}, requests |-> {}]

Dup == SJ("splitdupN", 0)
RR(w) == SJ("splitrrN", w)
JRR(w) == SJ("joinrrN", w)
Id == Filter("Identity")

Networks ==
  {Network(Pipe(<<Id>>), <<1, 2, 3>>, "none", 1),
   Network(Pipe(<<Filter("Twice"), Pipe(<<Filter("Last")>>)>>), <<1, 2>>, "koro", 1),
   Network(Both(Dup, <<Id, Filter("Twice")>>, JRR(1)), <<1, 2>>, "none", 1),
   Network(Both(RR(1), <<Filter("Inc"), Pipe(<<Id, Id>>)>>, JRR(1)), <<1, 2>>, "none", 1),
   Network(Both(SJ("splitdup", 0), <<Id, Id>>, SJ("joinrr1", 2)), <<1, 2>>, "none", 1),
   Network(Both(SJ("splitrr1", 2), <<Id>>, JRR(2)), <<1, 2>>, "none", 1)}

(* Weighted splitters and joiners at the least weights streamit.cpp has.   *)
Weighted ==
  {Network(Both(SJ("splitrrW", <<1, 63, 0>>), <<Filter("Inc"), Id>>, SJ("joinrrW", <<1, 63, 0>>)),
           [i \in 1 .. 65 |-> i], "none", 1)}

(* Programs that use the instructions themselves: a filter that becomes    *)
(* another one, called in each order; the main thread waits for the        *)
(* writer.                                                                 *)
BecomeInst(w) == [op |-> "become", work |-> w, args |-> [f |-> 0]]
Direct(code, user, file, waits, workers) ==
  [code |-> code, cells |-> {}, user |-> user, file |-> file, force |-> "none",
   workers |-> workers, expect |-> Append(file, MCJunk), waits |-> waits, fns |-> {}, requests |-> {}]
S(i) == <<"s", i>>
Kn(i) == <<"k", i>>
Swap == [Swap |-> <<Pop(1), Push(1), BecomeInst("Again")>>,
         Again |-> <<Pop(1), Push(1), BecomeInst("Inc")>>,
         Inc |-> <<Pop(1), Push(1)>>]
Make == <<Stream(S(1)), Stream(S(2)), Kernel(Kn(1), "FileReaderFloat", [f |-> 0]),
          Kernel(Kn(2), "Swap", [f |-> 0]), Kernel(Kn(3), "FileWriter", [f |-> 0])>>
Calls == {Call(Kn(1), <<>>, <<S(1)>>), Call(Kn(2), <<S(1)>>, <<S(2)>>), Call(Kn(3), <<S(2)>>, <<>>)}
Becoming == {Direct(Make \o order \o <<Wait(Kn(3))>>, Swap, <<1, 2, 3>>, TRUE, 1) :
               order \in {o \in [1 .. 3 -> Calls] : \A i, j \in 1 .. 3 : o[i] = o[j] => i = j}}

(* FileReaderInt32 never ends.                                             *)
Endless == {Direct(<<Stream(S(1)), Kernel(Kn(1), "FileReaderInt32", [f |-> 0]),
                     Kernel(Kn(2), "FileWriter", [f |-> 0]),
                     Call(Kn(1), <<>>, <<S(1)>>), Call(Kn(2), <<S(1)>>, <<>>)>>,
                   Swap, <<1, 2>>, FALSE, 1),
            Direct(<<Stream(S(1)), Kernel(Kn(1), "FileReaderInt32", [f |-> 0]),
                     Kernel(Kn(2), "DummySink", [f |-> 0]),
                     Call(Kn(1), <<>>, <<S(1)>>), Call(Kn(2), <<S(1)>>, <<>>)>>,
                   Swap, <<1, 2>>, FALSE, 1)}
Loop(p) == [p EXCEPT !.expect = [i \in 1 .. MAXOUT |-> IF i % 3 = 0 THEN MCJunk ELSE i % 3]]

(* Several threads: two workers of SKIRTbbSched, and a thread per kernel.  *)
(* Fork and Zip have two streams in common.                                *)
ForkZip == [Fork |-> <<Pop(1), Push(1), Push(2)>>, Zip |-> <<Pop(1), Pop(2), Push(1)>>]
Threads ==
  {Network(Pipe(<<Id>>), <<1, 2>>, "none", 2),
   Network(Pipe(<<Filter("Twice")>>), <<1>>, "tpk", 1),
   Direct(Make \o <<Call(Kn(3), <<S(2)>>, <<>>), Call(Kn(2), <<S(1)>>, <<S(2)>>),
                    Call(Kn(1), <<>>, <<S(1)>>)>>, Swap, <<1, 2>>, FALSE, 2),
   Direct(<<Stream(S(1)), Stream(S(2)), Stream(S(3)), Stream(S(4)),
            Kernel(Kn(1), "FileReaderFloat", [f |-> 0]), Kernel(Kn(2), "Fork", [f |-> 0]),
            Kernel(Kn(3), "Zip", [f |-> 0]), Kernel(Kn(4), "FileWriter", [f |-> 0]),
            Call(Kn(4), <<S(4)>>, <<>>), Call(Kn(2), <<S(1)>>, <<S(2), S(3)>>),
            Call(Kn(1), <<>>, <<S(1)>>), Call(Kn(3), <<S(2), S(3)>>, <<S(4)>>)>>,
          ForkZip, <<1>>, FALSE, 2)}

(* Clients of the event interface.                                         *)
Req(id, type) == [id |-> id, type |-> type]
RK(id, work, args) == [id |-> id, type |-> "kernel", work |-> work, args |-> args]
RC(id, k, ins, outs) == [id |-> id, type |-> "call", kernel |-> k, ins |-> ins, outs |-> outs]
RS(id, data) == [id |-> id, type |-> "state", data_id |-> data]
Client(requests, loaded, expect) ==
  [code |-> <<>>, cells |-> {}, user |-> Swap, file |-> <<1>>, force |-> "none", workers |-> 2,
   expect |-> expect, waits |-> FALSE, fns |-> loaded, requests |-> requests]
Clients ==
  {Client({RK(1, "FileReaderFloat", 0), RK(2, "FileWriter", 0), Req(3, "stream"),
           RC(4, 1, <<>>, <<3>>), RC(5, 2, <<3>>, <<>>), Req(6, "dot"), Req(7, "echo")},
          {"FileReaderFloat", "FileWriter"}, <<1, MCJunk>>),
   Client({[id |-> 1, type |-> "include", fns |-> {"Inc"}], RK(2, "Inc", 6), RK(3, "Missing", 0),
           Req(4, "stream"), Req(5, "stream"), RS(6, 0), RS(7, 8),
           [id |-> 9, type |-> "shm", shm |-> 8], RC(10, 2, <<4>>, <<5>>)},
          {}, <<>>)}

MCPrograms == Networks \cup Weighted \cup Becoming \cup Threads \cup {Loop(p) : p \in Endless} \cup Clients
=============================================================================
