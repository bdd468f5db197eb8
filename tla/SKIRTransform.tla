--------------------------- MODULE SKIRTransform ---------------------------
(***************************************************************************)
(* What the runtime makes of a work function before it is compiled for a   *)
(* batch: the rates SKIRKernelInfo reads off its code, the fusion of two   *)
(* kernels (SKIRFusion), and the splitter and joiner of the data-parallel  *)
(* scheduler (SKIRDPSched).  Each result is a kernel for BatchWork.        *)
(*                                                                         *)
(* A source kernel has the fields                                          *)
(*   ins, outs   its streams, rt_ins[] and rt_outs[]                       *)
(*   code        its work function, a sequence of blocks                   *)
(*                 trips   trip counts of the loops around it, outermost   *)
(*                         first; 0 is a count that is not a constant      *)
(*                 cond    TRUE: the block does not always run             *)
(*                 ops     [op, idx, o, step]: o + step * i is the offset  *)
(*                         of a peek in round i of the innermost loop; idx *)
(*                         Var is the counter of the outermost loop        *)
(*   known       the template instance its name shows, [kind, n, a]        *)
(*   esz         elem_size of its streams                                  *)
(***************************************************************************)
EXTENDS Integers, Sequences, FiniteSets, SequencesExt, TLC

Var == -1

(* A pass that gives up, or a NULL Value.                                  *)
NULL == 0

Instructions(k, o) ==
  SelectSeq(FlattenSeq([b \in DOMAIN k.code |->
              [j \in DOMAIN k.code[b].ops |->
                 [i |-> k.code[b].ops[j], trips |-> k.code[b].trips,
                  cond |-> k.code[b].cond]]]),
            LAMBDA x : x.i.op = o)

Total(f) == FoldLeft(LAMBDA x, y : x + y, 0, f)
-----------------------------------------------------------------------------
(* SKIRKernelInfo *)

getNum(k, o) ==
  LET list == Instructions(k, o) IN
  IF \E j \in DOMAIN list : list[j].i.idx = Var THEN -1
  ELSE Cardinality({list[j].i.idx : j \in DOMAIN list})

(* An operation outside of a loop counts one if it always runs; in a loop  *)
(* it counts the trips of every loop around it, and nothing is known when  *)
(* one of them is not a constant.                                          *)
getRate_OneTrip(x, rate) ==
  IF x.cond /\ x.trips = <<>> THEN rate ELSE rate + 1
getRate(x, rate) ==
  IF x.trips = <<>> THEN IF x.cond THEN rate ELSE rate + 1
  ELSE IF 0 \in Range(x.trips) THEN NULL
  ELSE rate + Total(x.trips)

RateOf(list, s) ==
  FoldLeft(LAMBDA rate, x : IF x.i.idx = s THEN getRate(x, rate) ELSE rate, NULL, list)

getStreamRate(k, o, s) == RateOf(Instructions(k, o), s)

(* A peek must meet the same requirements, and in a loop its offset must   *)
(* change from round to round.  One that does not FAILs: the kernel is of  *)
(* no fixed rate, if it gets that far: unless a later peek of the stream   *)
(* has a rate, what runOnFunction casts to a constant is NULL.             *)
PeeksKnown(k) ==
  LET list == Instructions(k, "peek")
  IN \A j \in DOMAIN list : list[j].i.idx # Var =>
       /\ RateOf(SubSeq(list, 1, j), list[j].i.idx) # NULL
       /\ list[j].trips # <<>> => list[j].i.step # 0

(* The greatest offset in any round of the loop, plus one.                 *)
getPeekRate(k, s) ==
  LET Rounds(x) == IF x.trips = <<>> THEN {0} ELSE 0 .. Last(x.trips) - 1
      list == Instructions(k, "peek")
      offsets == UNION {{list[j].i.o + list[j].i.step * r : r \in Rounds(list[j])} :
                        j \in {h \in DOMAIN list : list[h].i.idx = s}}
  IN IF list = <<>> THEN 0 ELSE Max(offsets) + 1

(* The names of the instances of the splitter and joiner templates say     *)
(* what their rates are.                                                   *)
tryKnownRates(k) ==
  LET n == k.known.n
      a == k.known.a
  IN CASE k.known.kind = "split_rr" ->
            [fixed |-> n # 0 /\ a # 0, pop |-> <<a * n>>, push |-> [i \in 1 .. n |-> a]]
       [] k.known.kind = "join_rr" ->
            [fixed |-> a # 0, pop |-> [i \in 1 .. n |-> a], push |-> <<a * n>>]
       [] k.known.kind = "split_dup" ->
            [fixed |-> n # 0, pop |-> <<n>>, push |-> [i \in 1 .. n |-> 1]]
       [] OTHER -> <<>>

(* Streams the code does not name keep the rate -1; a kernel that names    *)
(* fewer than it was called with is not of a fixed rate, unless it names   *)
(* none.                                                                   *)
runOnFunction(k) ==
  LET Rate(o, streams) ==
        [i \in DOMAIN streams |-> IF i <= getNum(k, o) THEN getStreamRate(k, o, i - 1)
                                                       ELSE -1]
      pop == Rate("pop", k.ins)
      push == Rate("push", k.outs)
      Named(o, streams) == getNum(k, o) = 0 \/ getNum(k, o) >= Len(streams)
  IN IF /\ Named("pop", k.ins) /\ Named("push", k.outs)
        /\ NULL \notin Range(pop) \cup Range(push) /\ PeeksKnown(k)
     THEN [fixed |-> TRUE, pop |-> pop, push |-> push,
           peek |-> [i \in DOMAIN k.ins |-> getPeekRate(k, i - 1)]]
     ELSE tryKnownRates(k) @@ [fixed |-> FALSE, pop |-> pop, push |-> push,
                               peek |-> [i \in DOMAIN k.ins |-> 0]]
-----------------------------------------------------------------------------
(* What a call of the work function does (the semantics of LLVM's loops).  *)
Rounds(trips) == FoldLeft(LAMBDA x, y : x * y, 1, trips)

Unroll(k, b) ==
  LET inner == IF b.trips = <<>> THEN 1 ELSE Last(b.trips)
      Do(x, r) ==
        LET idx == IF x.idx = Var THEN r \div (Rounds(b.trips) \div Head(b.trips))
                                  ELSE x.idx
        IN [op |-> x.op, o |-> x.o + x.step * (r % inner), cond |-> b.cond,
            s |-> IF x.op = "push" THEN k.outs[idx + 1] ELSE k.ins[idx + 1]]
  IN FlattenSeq([r \in 1 .. Rounds(b.trips) |->
                   [j \in DOMAIN b.ops |-> Do(b.ops[j], r - 1)]])

PerStream(streams, rate) ==
  [s \in Range(streams) |-> rate[CHOOSE i \in DOMAIN streams : streams[i] = s]]

(* A kernel with the rates found.  SKIROuterLoopPass compiles it for a     *)
(* batch if they are fixed: with one input and one output in the 1_1       *)
(* skeleton, otherwise in the one for the common element size.             *)
Compile(k) ==
  LET info == runOnFunction(k)
  IN [fixed |-> info.fixed, ins |-> k.ins, outs |-> k.outs, ints |-> <<>>,
      body |-> FlattenSeq([b \in DOMAIN k.code |-> Unroll(k, k.code[b])]),
      pop |-> PerStream(k.ins, info.pop), peek |-> PerStream(k.ins, info.peek),
      push |-> PerStream(k.outs, info.push), esz |-> k.esz, nsz |-> k.esz,
      local |-> Len(k.ins) = 1 /\ Len(k.outs) = 1]
-----------------------------------------------------------------------------
(* SKIRFusion, on two compiled kernels *)

myLCM(x, y) == CHOOSE m \in {y * j : j \in 1 .. x} :
                 m % x = 0 /\ \A n \in {y * j : j \in 1 .. x} : n % x = 0 => m <= n

common(k0, k1) == SelectSeq(k1.ins, LAMBDA s : s \in Range(k0.outs))

Without(streams, left) == SelectSeq(streams, LAMBDA s : s \notin Range(left))

Multiple(k0, k1) ==
  FoldLeft(LAMBDA m, s : myLCM(m, myLCM(k0.push[s], k1.pop[s])), 1, common(k0, k1))

(* Iterations of each kernel in one of the fused kernel; the last common   *)
(* stream decides.                                                         *)
niters_Swapped(k0, k1) ==
  LET s == Last(common(k0, k1))
  IN <<Multiple(k0, k1) \div k1.pop[s], Multiple(k0, k1) \div k0.push[s]>>

niters(k0, k1) ==
  LET c == common(k0, k1)
      s == Last(c)
  IN IF c = <<>> THEN <<1, 1>>
     ELSE <<Multiple(k0, k1) \div k0.push[s], Multiple(k0, k1) \div k1.pop[s]>>

(* A stream between the two is a buffer on the fused function's stack.     *)
replaceRenumberedOps(body, c) ==
  [j \in DOMAIN body |->
     IF body[j].s \notin Range(c) THEN body[j]
     ELSE [body[j] EXCEPT !.op = IF body[j].op = "push" THEN "push_fuse"
                                                        ELSE "pop_fuse"]]

Repeat(n, body) == FlattenSeq([j \in 1 .. n |-> body])

Scale(rates, n) == [s \in DOMAIN rates |-> n * rates[s]]

Fits(k, n, size) == \A r \in {k.pop, k.push} :
                      \A s \in DOMAIN r : r[s] * k.esz * n <= size

CanFuse(k0, k1, size) ==
  LET n == niters(k0, k1)
  IN /\ \A s \in DOMAIN k0.peek : k0.peek[s] = 0
     /\ \A s \in DOMAIN k1.peek : k1.peek[s] = 0
     /\ k0.fixed /\ k1.fixed
     /\ Fits(k0, n[1], size) /\ Fits(k1, n[2], size)

runOnKernels(k0, k1) ==
  LET c == common(k0, k1)
      n == niters(k0, k1)
      ins == Without(k0.ins \o k1.ins, c)
      outs == Without(k0.outs \o k1.outs, c)
      pop == Scale(k1.pop, n[2]) @@ Scale(k0.pop, n[1])
      push == Scale(k1.push, n[2]) @@ Scale(k0.push, n[1])
  IN [fixed |-> TRUE, ins |-> ins, outs |-> outs, ints |-> c,
      body |-> replaceRenumberedOps(Repeat(n[1], k0.body) \o Repeat(n[2], k1.body), c),
      pop |-> pop, push |-> push, peek |-> k1.peek @@ k0.peek,
      esz |-> k0.esz, nsz |-> k0.esz,
      local |-> Len(ins) = 1 /\ Len(outs) = 1]

fuseKernels(k0, k1, size) ==
  IF CanFuse(k0, k1, size) THEN {runOnKernels(k0, k1)} ELSE {}
-----------------------------------------------------------------------------
(* SKIRDPSched without OpenCL, for a compiled kernel of one input and one  *)
(* output: names are the streams to or from its width copies.              *)

Move(s, t) == <<[op |-> "pop", s |-> s, o |-> 0, cond |-> FALSE],
                [op |-> "push", s |-> t, o |-> 0, cond |-> FALSE]>>

dp_split_work(k, names) ==
  LET rate == k.pop[k.ins[1]]
  IN [fixed |-> TRUE, ins |-> k.ins, outs |-> names, ints |-> <<>>,
      body |-> FlattenSeq([i \in DOMAIN names |->
                             Repeat(rate, Move(k.ins[1], names[i]))]),
      pop |-> Scale(k.pop, Len(names)), peek |-> k.peek,
      push |-> [s \in Range(names) |-> rate],
      esz |-> k.esz, nsz |-> k.esz, local |-> FALSE]

dp_join_work(k, names) ==
  LET rate == k.push[k.outs[1]]
  IN [fixed |-> TRUE, ins |-> names, outs |-> k.outs, ints |-> <<>>,
      body |-> FlattenSeq([i \in DOMAIN names |->
                             Repeat(rate, Move(names[i], k.outs[1]))]),
      pop |-> [s \in Range(names) |-> rate], peek |-> [s \in Range(names) |-> 0],
      push |-> Scale(k.push, Len(names)),
      esz |-> k.esz, nsz |-> k.esz, local |-> FALSE]

(* The rates that SKIRDPSched gives a copy are those of k multiplied for   *)
(* the splitter and the joiner, but the copy's call has SKIRKernelInfo     *)
(* read its own off the code before its streams are allocated.             *)
dp_copy(k, in, out) == Compile([k EXCEPT !.ins = <<in>>, !.outs = <<out>>])
=============================================================================
