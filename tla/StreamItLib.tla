---------------------------- MODULE StreamItLib ----------------------------
(***************************************************************************)
(* The StreamIt library (tools/streamit/streamit.cpp): the work functions  *)
(* of the built-in streams.  A work function is the sequence of            *)
(* instructions it executes once it is called:                             *)
(*   hierarchical ones create streams and kernels and call kernels;        *)
(*   the others pop into and push from one local, e.                       *)
(* Names are pairs: <<"in", i>> and <<"out", i>> are the streams the       *)
(* kernel was called with, <<"child", i>> is state->children[i - 1], the   *)
(* others are locals.                                                      *)
(***************************************************************************)
EXTENDS Integers, Sequences, SequencesExt

Stream(v)             == [op |-> "stream", var |-> v]
Kernel(v, work, args) == [op |-> "kernel", var |-> v, work |-> work, args |-> args]
Call(v, ins, outs)    == [op |-> "call", var |-> v, ins |-> ins, outs |-> outs]
Pop(i)                == [op |-> "pop", port |-> i]
Push(i)               == [op |-> "push", port |-> i]

In(i) == <<"in", i>>
Out(i) == <<"out", i>>
Child(i) == <<"child", i>>
Split(i) == <<"split", i>>
Join(i) == <<"join", i>>
K == <<"k", 1>>

Ins(n) == [i \in 1 .. n |-> In(i)]
Outs(n) == [i \in 1 .. n |-> Out(i)]
Flat(n, Part(_)) == FlattenSeq([i \in 1 .. n |-> Part(i)])
-----------------------------------------------------------------------------
(* Hierarchical work functions: n children, called with ni and no streams. *)

pipeline_work(n, ni, no) ==
  IF n = 0 THEN <<>>
  ELSE IF n = 1 THEN <<Call(Child(1), Ins(ni), Outs(no))>>
  ELSE Flat(n - 1, LAMBDA i :
              <<Stream(Split(i)),
                Call(Child(i), IF i = 1 THEN Ins(ni) ELSE <<Split(i - 1)>>, <<Split(i)>>)>>)
       \o <<Call(Child(n), <<Split(n - 1)>>, Outs(no))>>

splitjoin_work(n, ni, no) ==
  IF n < 3 THEN <<>>
  ELSE Flat(n - 2, LAMBDA i : <<Stream(Split(i)), Stream(Join(i))>>)
       \o <<Call(Child(1), Ins(ni), [i \in 1 .. n - 2 |-> Split(i)])>>
       \o [i \in 1 .. n - 2 |-> Call(Child(i + 1), <<Split(i)>>, <<Join(i)>>)]
       \o <<Call(Child(n), [i \in 1 .. n - 2 |-> Join(i)], Outs(no))>>

(* The splitters and joiners replace themselves by one kernel, specialised *)
(* for the sizes in a table; num is *state->num_children_ptr.              *)
Replace(work, args, ni, no) == <<Kernel(K, work, args), Call(K, Ins(ni), Outs(no))>>

splitdupN_work(num, ni, no) == Replace("split_dup", [n |-> num - 2], ni, no)

SPLIT_RR == {<<16, 16>>, <<16, 1>>, <<48, 1>>, <<64, 1>>, <<4, 2>>, <<2, 4>>,
             <<1, 8>>, <<2, 1>>, <<4, 1>>, <<8, 1>>, <<8, 8>>}
splitrrN_work(num, arg, ni, no) ==
  IF <<num - 2, arg>> \in SPLIT_RR
  THEN Replace("split_rr", [n |-> num - 2, arg |-> arg], ni, no)
  ELSE <<>>    \* prints ERROR UNSUPPORTED

SPLIT_RRW == {<<1, 63, 0>>, <<384, 16, 3>>, <<32, 32, 0>>}
splitrrW_work(weights, ni, no) ==
  IF weights \in SPLIT_RRW
  THEN Replace("split_rrW", [weights |-> weights], ni, no)
  ELSE <<>>

(* The specialised joiners do what the general one does.                   *)
joinrrN_work(num, arg, ni, no) ==
  Replace("join_rr", [n |-> num - 2, arg |-> arg], ni, no)

JOIN_RRW == {<<1, 63, 0>>, <<64, 64, 0>>, <<64, 8, 3>>, <<32, 32, 0>>, <<1, 16, 0>>}
joinrrW_work(weights, ni, no) ==
  IF weights \in JOIN_RRW
  THEN Replace("join_rrW", [weights |-> weights], ni, no)
  ELSE <<>>
-----------------------------------------------------------------------------
(* Work functions that move elements.                                      *)
Times(n, part) == Flat(n, LAMBDA i : part)

split_dup_work(n) == <<Pop(1)>> \o [i \in 1 .. n |-> Push(i)]
splitdup_work(num) == split_dup_work(num - 2)

split_rr_work(n, arg) ==
  Flat(n, LAMBDA i : Times(arg, <<Pop(1), Push(i)>>))
splitrr1_work(num, weight) == split_rr_work(num - 2, weight)
split_rr_work_A_B_C_(weights) ==
  Flat(3, LAMBDA i : Times(weights[i], <<Pop(1), Push(i)>>))

join_rr_work_Swapped(n, arg) ==
  Times(arg, Flat(n, LAMBDA i : <<Pop(i), Push(1)>>))

join_rr_work(n, arg) ==
  Flat(n, LAMBDA i : Times(arg, <<Pop(i), Push(1)>>))
joinrr1_work(num, weight) == join_rr_work(num - 2, weight)
join_rr_work_A_B_C_(weights) ==
  Flat(3, LAMBDA i : Times(weights[i], <<Pop(i), Push(1)>>))

Identity_work == <<Pop(1), Push(1)>>
FileReader_work == <<Push(1)>>    \* reads e first
FileWriter_work == <<Pop(1)>>     \* then writes e
DummySink_work == <<Pop(1)>>
=============================================================================
