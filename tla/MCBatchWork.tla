---------------------------- MODULE MCBatchWork ----------------------------
(* BatchWork for the kernels the runtime builds.  The bounds are fields:   *)
(* iters, the iterations after which a kernel is finished, and supply, the *)
(* elements that come in on each input.                                    *)
EXTENDS BatchWork, SKIRTransform

AllNames == {"in", "in2", "mid", "out", "out2"}

BUFFER == SLOTS * 4   \* STREAM_BUFFER_SIZE of the kernels of 4 bytes

On(o, idx, k) == [op |-> o, idx |-> idx, o |-> k, step |-> 0]
Run(ops) == [trips |-> <<>>, cond |-> FALSE, ops |-> ops]
For(trips, ops) == [trips |-> trips, cond |-> FALSE, ops |-> ops]
Sometimes(b) == [b EXCEPT !.cond = TRUE]

Source(ins, outs, esz, code) ==
  [ins |-> ins, outs |-> outs, esz |-> esz, code |-> code, known |-> [kind |-> "no", n |-> 0, a |-> 0]]

Bounded(k, iters, supply) == k @@ [iters |-> iters, supply |-> supply]

(* A filter that looks ahead in a loop, pops one and pushes two.           *)
Peeking == Source(<<"in">>, <<"out">>, 2,
  <<For(<<2>>, <<[op |-> "peek", idx |-> 0, o |-> 0, step |-> 1]>>),
    Run(<<On("pop", 0, 0)>>), For(<<2>>, <<On("push", 0, 0)>>)>>)

(* One that pops three elements and pushes at most two of them.            *)
Choosy == Source(<<"in">>, <<"out">>, 1,
  <<For(<<2>>, <<On("pop", 0, 0)>>), Sometimes(For(<<2>>, <<On("push", 0, 0)>>)),
    Run(<<On("pop", 0, 0)>>)>>)

(* split_rr_work_N_A_<2, 1>, which its name gives away.                    *)
RoundRobin == [Source(<<"in">>, <<"out", "out2">>, 1,
                      <<For(<<2, 1>>, <<On("pop", 0, 0), On("push", Var, 0)>>)>>)
               EXCEPT !.known = [kind |-> "split_rr", n |-> 2, a |-> 1]]

(* split_dup_work_N_<2>: the rate its name gives, two elements for each    *)
(* output's one, is not the one element it pops, so it leaves one behind.  *)
Duplicating == [Source(<<"in">>, <<"out", "out2">>, 1,
                       <<Run(<<On("pop", 0, 0)>>), For(<<2>>, <<On("push", Var, 0)>>)>>)
                EXCEPT !.known = [kind |-> "split_dup", n |-> 2, a |-> 0]]

(* Kernels of rates one to two and three to one, and their fusion: three   *)
(* iterations of the first for two of the second.                          *)
Doubler == Source(<<"in">>, <<"mid">>, 4,
                  <<Run(<<On("pop", 0, 0), On("push", 0, 0), On("push", 0, 0)>>)>>)
Tripler == Source(<<"mid">>, <<"out">>, 4,
                  <<For(<<3>>, <<On("pop", 0, 0)>>), Run(<<On("push", 0, 0)>>)>>)

(* A second input and output besides the stream in common.                 *)
Mixer == Source(<<"mid", "in2">>, <<"out">>, 4,
                <<Run(<<On("pop", 1, 0), On("pop", 0, 0), On("pop", 0, 0), On("push", 0, 0)>>)>>)
Branching == Source(<<"in">>, <<"out2", "mid">>, 4,
                    <<Run(<<On("pop", 0, 0), On("push", 1, 0), On("push", 0, 0)>>)>>)

(* A filter of rate two to one on two data-parallel copies.                *)
Halver == Source(<<"in">>, <<"out">>, 1,
                 <<For(<<2>>, <<On("pop", 0, 0)>>), Run(<<On("push", 0, 0)>>)>>)

(* The pairs whose common multiple needs more than a buffer, or one of     *)
(* which has no fixed rate, are not fused.                                 *)
Pairs == {<<Doubler, Tripler>>, <<Branching, Mixer>>,
          <<Doubler, [Tripler EXCEPT !.code = <<For(<<9>>, <<On("pop", 0, 0)>>),
                                                Run(<<On("push", 0, 0)>>)>>]>>,
          <<Doubler, [Tripler EXCEPT !.code =
                        <<Sometimes(Run(<<On("pop", 0, 0)>>)), Run(<<On("push", 0, 0)>>)>>]>>}

Fused == UNION {fuseKernels(Compile(p[1]), Compile(p[2]), BUFFER) : p \in Pairs}

Shapes == {Bounded(k, 2, 6) : k \in Fused}
  \cup   {Bounded(Compile(Peeking), 5, 7),
           Bounded(Compile(Choosy), 3, 9),
           Bounded(Compile(RoundRobin), 4, 8),
           Bounded(Compile(Duplicating), 4, 5),
           Bounded(dp_split_work(Compile(Halver), <<"out", "out2">>), 3, 12),
           Bounded(dp_join_work(Compile(Halver), <<"in", "in2">>), 3, 3),
           Bounded(dp_copy(Halver, "in", "out"), 3, 6)}
=============================================================================
