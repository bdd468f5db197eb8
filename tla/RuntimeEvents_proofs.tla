----------------------- MODULE RuntimeEvents_proofs -----------------------
(***************************************************************************)
(* TLAPS proofs about SKIRRuntime and RuntimeEvents, for every program,    *)
(* every client and every size of the streams.                             *)
(***************************************************************************)
EXTENDS RuntimeEvents, TLAPS
-----------------------------------------------------------------------------
(* What the runtime relies on.                                             *)

(* A program calls a kernel that is not running, and gives it streams,     *)
(* each once on a side, whose end on that side no kernel that runs, or is  *)
(* still in done, has.                                                     *)
Callee == Top.env[Inst.var]

FreeEnds(ins, outs) ==
  /\ ins \in Seq(DOMAIN stream) /\ outs \in Seq(DOMAIN stream)
  /\ IsInjective(ins) /\ IsInjective(outs)
  /\ \A j \in DOMAIN kernel : kernel[j].status \in Busy =>
       /\ ToSet(kernel[j].ins) \cap ToSet(ins) = {}
       /\ ToSet(kernel[j].outs) \cap ToSet(outs) = {}

ProperCall ==
  Ready("call") =>
    /\ Callee \in DOMAIN kernel /\ kernel[Callee].status \notin Busy
    /\ kernel[Callee].work \notin Hierarchical =>
         FreeEnds(Value(Inst.ins), Value(Inst.outs))
-----------------------------------------------------------------------------
(* The invariant.                                                          *)

KFields == {"work", "args", "called", "hier", "sched", "ins", "outs", "impl",
            "children", "mapped", "status", "code", "at", "half", "e", "off"}
SFields == {"si", "src", "dst", "q"}

(* Objects are numbered in the order in which they are created, and only a *)
(* running kernel has an implementation.                                   *)
KernelOK(c) ==
  /\ DOMAIN c = KFields
  /\ c.impl \in BOOLEAN /\ (c.impl <=> c.status = "active")
  /\ c.at \in Nat \ {0} /\ c.half \in BOOLEAN

KernelsOK ==
  /\ next_kernel_id \in Nat /\ DOMAIN kernel = 0 .. next_kernel_id - 1
  /\ \A k \in DOMAIN kernel : KernelOK(kernel[k])

(* Only a stream with an implementation has ends.                          *)
StreamOK(x) ==
  /\ DOMAIN x = SFields
  /\ x.src \in {Null, Ended} \cup DOMAIN kernel
  /\ x.dst \in {Null, Ended} \cup DOMAIN kernel
  /\ x.si \in BOOLEAN /\ (x.si \/ (x.src = Null /\ x.dst = Null))

StreamsOK ==
  /\ next_stream_id \in Nat \ {0} /\ stream \in Seq(ToSet(stream))
  /\ Len(stream) = next_stream_id - 1
  /\ \A s \in DOMAIN stream : StreamOK(stream[s])

(* The streams of a kernel that runs or is in done exist, and it has each  *)
(* once on a side.                                                         *)
Known ==
  \A k \in DOMAIN kernel : kernel[k].status \in Busy =>
    /\ kernel[k].ins \in Seq(DOMAIN stream) /\ kernel[k].outs \in Seq(DOMAIN stream)
    /\ IsInjective(kernel[k].ins) /\ IsInjective(kernel[k].outs)

GraphInv == KernelsOK /\ StreamsOK /\ Known /\ Connected
-----------------------------------------------------------------------------
(* A function on 1 .. n is a sequence.                                     *)
LEMMA SeqIntro ==
  ASSUME NEW f, NEW n \in Nat, f = [i \in 1 .. n |-> f[i]]
  PROVE  f \in Seq(ToSet(f)) /\ Len(f) = n /\ DOMAIN f = 1 .. n
<1>1. DOMAIN f = 1 .. n
  OBVIOUS
<1>2. \A i \in 1 .. n : f[i] \in ToSet(f)
  BY <1>1 DEF ToSet
<1>3. f \in [1 .. n -> ToSet(f)]
  BY <1>2
<1>4. QED
  BY <1>1, <1>3

LEMMA SeqElim ==
  ASSUME NEW T, NEW f \in Seq(T)
  PROVE  /\ Len(f) \in Nat /\ DOMAIN f = 1 .. Len(f) /\ f = [i \in 1 .. Len(f) |-> f[i]]
         /\ ToSet(f) \subseteq T
         /\ \A U : T \subseteq U => f \in Seq(U)
BY DEF ToSet

LEMMA ToSetConcat ==
  ASSUME NEW T, NEW f \in Seq(T), NEW g \in Seq(T)
  PROVE  ToSet(f \o g) = ToSet(f) \cup ToSet(g)
<1> DEFINE h == f \o g
<1>1. DOMAIN h = 1 .. Len(f) + Len(g) /\ Len(f) \in Nat /\ Len(g) \in Nat
  OBVIOUS
<1>2. /\ \A i \in DOMAIN f : i \in DOMAIN h /\ h[i] = f[i]
      /\ \A i \in DOMAIN g : i + Len(f) \in DOMAIN h /\ h[i + Len(f)] = g[i]
      /\ \A i \in DOMAIN h : \/ i \in DOMAIN f /\ h[i] = f[i]
                             \/ i - Len(f) \in DOMAIN g /\ h[i] = g[i - Len(f)]
  OBVIOUS
<1> HIDE DEF h
<1>3. ToSet(h) = ToSet(f) \cup ToSet(g)
  BY <1>2 DEF ToSet
<1>4. QED
  BY <1>3 DEF h

LEMMA ToSetAppend ==
  ASSUME NEW T, NEW f \in Seq(T), NEW x
  PROVE  /\ ToSet(Append(f, x)) = ToSet(f) \cup {x}
         /\ Append(f, x) \in Seq(ToSet(Append(f, x)))
<1> DEFINE U == T \cup {x}
           g == Append(f, x)
<1>1. f \in Seq(U) /\ x \in U
  OBVIOUS
<1> HIDE DEF U
<1>2. /\ Len(f) \in Nat /\ DOMAIN f = 1 .. Len(f) /\ g \in Seq(U) /\ Len(g) = Len(f) + 1
      /\ DOMAIN g = 1 .. Len(f) + 1
      /\ g[Len(f) + 1] = x /\ \A i \in 1 .. Len(f) : g[i] = f[i]
  BY <1>1
<1> HIDE DEF g
<1>3. ToSet(g) = ToSet(f) \cup {x}
  <2>1. \A i \in 1 .. Len(f) + 1 : i = Len(f) + 1 \/ i \in 1 .. Len(f)
    BY <1>2
  <2>2. \A i \in 1 .. Len(f) : i \in 1 .. Len(f) + 1
    BY <1>2
  <2>3. QED
    BY <1>2, <2>1, <2>2 DEF ToSet
<1>4. Len(g) \in Nat /\ g = [i \in 1 .. Len(g) |-> g[i]]
  BY ONLY <1>2, SeqElim
<1>5. g \in Seq(ToSet(g))
  BY ONLY <1>4, SeqIntro
<1>6. QED
  BY <1>3, <1>5 DEF g

(* The special values of a stream's ends are no kernels.                   *)
LEMMA Specials ==
  /\ Null \in Int /\ Ended \in Int /\ Null # Ended
  /\ \A n \in Nat : Null \notin 0 .. n - 1 /\ Ended \notin 0 .. n - 1
BY DEF Null, Ended

(* The fields of new objects.                                              *)
LEMMA NewObjects ==
  /\ DOMAIN NewStream = SFields /\ StreamOK(NewStream)
  /\ NewStream.si = FALSE /\ NewStream.src = Null /\ NewStream.dst = Null
  /\ \A w, a : /\ KernelOK(NewKernel(w, a))
               /\ NewKernel(w, a).status = "new" /\ NewKernel(w, a).status \notin Busy
               /\ NewKernel(w, a).called = FALSE
BY DEF NewStream, NewKernel, SFields, KFields, KernelOK, StreamOK, Busy
-----------------------------------------------------------------------------
(* The ends a kernel holds.                                                *)

(* It holds streams of its own, and none unless it is busy.                *)
LEMMA HeldSubset ==
  ASSUME NEW c
  PROVE  /\ HeldIns(c) \subseteq ToSet(c.ins) /\ HeldOuts(c) \subseteq ToSet(c.outs)
         /\ c.status \notin Busy => HeldIns(c) = {} /\ HeldOuts(c) = {}
BY DEF HeldIns, HeldOuts, ToSet

(* A running kernel holds all of them.                                     *)
LEMMA HeldActive ==
  ASSUME NEW c, c.status = "active", NEW T, c.ins \in Seq(T), c.outs \in Seq(T)
  PROVE  HeldIns(c) = ToSet(c.ins) /\ HeldOuts(c) = ToSet(c.outs)
<1>1. /\ DOMAIN c.ins = 1 .. Len(c.ins) /\ Len(c.ins) \in Nat
      /\ DOMAIN c.outs = 1 .. Len(c.outs)
  BY SeqElim
<1>2. FirstHeld(c) = 1 /\ c.status \in Busy
  BY DEF FirstHeld, Busy
<1>3. /\ \A j \in DOMAIN c.ins : 1 <= j
      /\ \A j \in DOMAIN c.outs : 1 <= Len(c.ins) + j
  BY <1>1
<1>4. QED
  BY <1>2, <1>3 DEF HeldIns, HeldOuts, ToSet

(* A change of its other fields changes nothing.                           *)
LEMMA SameHeld ==
  ASSUME NEW c, NEW d, d.ins = c.ins, d.outs = c.outs,
         d.status \in Busy <=> c.status \in Busy,
         c.status \in Busy => FirstHeld(d) = FirstHeld(c)
  PROVE  HeldIns(d) = HeldIns(c) /\ HeldOuts(d) = HeldOuts(c)
BY DEF HeldIns, HeldOuts

(* A kernel in done that has gone over all its streams holds none.         *)
LEMMA HeldNone ==
  ASSUME NEW c, c.status = "ending", NEW T, c.ins \in Seq(T), c.outs \in Seq(T),
         c.at \in Nat \ {0}, c.half \in BOOLEAN, c.at > Len(c.ins \o c.outs)
  PROVE  HeldIns(c) = {} /\ HeldOuts(c) = {}
<1>1. /\ DOMAIN c.ins = 1 .. Len(c.ins) /\ Len(c.ins) \in Nat
      /\ DOMAIN c.outs = 1 .. Len(c.outs) /\ Len(c.outs) \in Nat
      /\ Len(c.ins \o c.outs) = Len(c.ins) + Len(c.outs)
  OBVIOUS
<1> DEFINE f == FirstHeld(c)
           n == Len(c.ins)
           m == Len(c.outs)
           a == c.at
<1>2. f = c.at \/ f = c.at + 1
  BY DEF FirstHeld
<1> HIDE DEF f
<1>3. n \in Nat /\ m \in Nat /\ f \in Nat /\ f > n + m
  <2>1. n \in Nat /\ m \in Nat /\ a \in Nat /\ a > n + m /\ (f = a \/ f = a + 1)
    BY <1>1, <1>2
  <2> HIDE DEF n, m, a
  <2>2. QED
    BY ONLY <2>1
<1> HIDE DEF n, m
<1>4. (\A j \in 1 .. n : ~(f <= j)) /\ (\A j \in 1 .. m : ~(f <= n + j))
  BY ONLY <1>3
<1>5. QED
  BY <1>1, <1>4 DEF HeldIns, HeldOuts, f, n, m

(* Marking the end it has reached gives up that stream on that side and    *)
(* no other.                                                               *)
GivesUp(c, d, s, T) ==
  /\ c.status = "ending" /\ c.ins \in Seq(T) /\ c.outs \in Seq(T)
  /\ IsInjective(c.ins) /\ IsInjective(c.outs)
  /\ c.at \in Nat \ {0} /\ ~c.half /\ c.at <= Len(c.ins \o c.outs)
  /\ d.ins = c.ins /\ d.outs = c.outs /\ d.status = c.status /\ d.at = c.at /\ d.half
  /\ s = (c.ins \o c.outs)[c.at]

LEMMA HeldMark ==
  ASSUME NEW c, NEW d, NEW s, NEW T, GivesUp(c, d, s, T)
  PROVE  /\ c.at <= Len(c.ins) =>
              /\ s \in HeldIns(c) /\ HeldIns(d) = HeldIns(c) \ {s}
              /\ HeldOuts(d) = HeldOuts(c) /\ s \in T
         /\ ~(c.at <= Len(c.ins)) =>
              /\ s \in HeldOuts(c) /\ HeldOuts(d) = HeldOuts(c) \ {s}
              /\ HeldIns(d) = HeldIns(c) /\ s \in T
<1> DEFINE n == Len(c.ins)
           m == Len(c.outs)
           a == c.at
<1>0. /\ c.status = "ending" /\ c.ins \in Seq(T) /\ c.outs \in Seq(T)
      /\ IsInjective(c.ins) /\ IsInjective(c.outs)
      /\ c.at \in Nat \ {0} /\ ~c.half /\ c.at <= Len(c.ins \o c.outs)
      /\ d.ins = c.ins /\ d.outs = c.outs /\ d.status = c.status /\ d.at = c.at /\ d.half
      /\ s = (c.ins \o c.outs)[c.at]
  BY DEF GivesUp
<1>1. /\ DOMAIN c.ins = 1 .. n /\ n \in Nat /\ DOMAIN c.outs = 1 .. m /\ m \in Nat
      /\ a \in Nat \ {0} /\ a <= n + m
      /\ \A j \in 1 .. n : c.ins[j] \in T
      /\ \A j \in 1 .. m : c.outs[j] \in T
      /\ a <= n => s = c.ins[a]
      /\ ~(a <= n) => s = c.outs[a - n]
  <2>1. /\ DOMAIN c.ins = 1 .. n /\ n \in Nat /\ DOMAIN c.outs = 1 .. m /\ m \in Nat
        /\ \A j \in 1 .. n : c.ins[j] \in T
        /\ \A j \in 1 .. m : c.outs[j] \in T
        /\ Len(c.ins \o c.outs) = n + m
    BY <1>0
  <2>2. \A j \in 1 .. n + m :
          (c.ins \o c.outs)[j] = IF j <= n THEN c.ins[j] ELSE c.outs[j - n]
    BY <1>0
  <2> HIDE DEF n, m
  <2>3. a \in 1 .. n + m
    BY <1>0, <2>1
  <2>4. QED
    BY <1>0, <2>1, <2>2, <2>3
<1>2. /\ FirstHeld(c) = a /\ FirstHeld(d) = a + 1
      /\ c.status \in Busy /\ d.status \in Busy
  BY <1>0 DEF FirstHeld, Busy
<1>3. /\ HeldIns(c) = {c.ins[i] : i \in {j \in 1 .. n : a <= j}}
      /\ HeldIns(d) = {c.ins[i] : i \in {j \in 1 .. n : a + 1 <= j}}
      /\ HeldOuts(c) = {c.outs[i] : i \in {j \in 1 .. m : a <= n + j}}
      /\ HeldOuts(d) = {c.outs[i] : i \in {j \in 1 .. m : a + 1 <= n + j}}
  BY <1>0, <1>1, <1>2 DEF HeldIns, HeldOuts
<1>4. /\ \A i, j \in 1 .. n : c.ins[i] = c.ins[j] => i = j
      /\ \A i, j \in 1 .. m : c.outs[i] = c.outs[j] => i = j
  BY <1>0, <1>1 DEF IsInjective
<1>5. ASSUME a <= n
      PROVE  s \in HeldIns(c) /\ HeldIns(d) = HeldIns(c) \ {s} /\ HeldOuts(d) = HeldOuts(c) /\ s \in T
  <2>1. a \in 1 .. n /\ s = c.ins[a]
    BY <1>1, <1>5
  <2>2. {j \in 1 .. n : a <= j} = {j \in 1 .. n : a + 1 <= j} \cup {a}
    BY <1>1, <2>1
  <2>3. a \notin {j \in 1 .. n : a + 1 <= j}
    BY <1>1
  <2>4. {j \in 1 .. m : a <= n + j} = {j \in 1 .. m : a + 1 <= n + j}
    BY <1>1, <1>5
  <2> HIDE DEF n, m, a
  <2>5. s \in HeldIns(c) /\ HeldIns(d) = HeldIns(c) \ {s}
    BY <1>3, <1>4, <2>1, <2>2, <2>3
  <2>6. QED
    BY <1>1, <1>3, <2>1, <2>4, <2>5
<1>6. ASSUME ~(a <= n)
      PROVE  s \in HeldOuts(c) /\ HeldOuts(d) = HeldOuts(c) \ {s} /\ HeldIns(d) = HeldIns(c) /\ s \in T
  <2>1. a - n \in 1 .. m /\ s = c.outs[a - n]
    <3> HIDE DEF n, m, a
    <3>1. a - n \in 1 .. m
      BY <1>1, <1>6
    <3>2. QED
      BY <1>1, <1>6, <3>1
  <2>2. {j \in 1 .. m : a <= n + j} = {j \in 1 .. m : a + 1 <= n + j} \cup {a - n}
    BY <1>1, <2>1
  <2>3. a - n \notin {j \in 1 .. m : a + 1 <= n + j}
    BY <1>1
  <2>4. {j \in 1 .. n : a <= j} = {j \in 1 .. n : a + 1 <= j}
    BY <1>1, <1>6
  <2> HIDE DEF n, m, a
  <2>5. s \in HeldOuts(c) /\ HeldOuts(d) = HeldOuts(c) \ {s}
    BY <1>3, <1>4, <2>1, <2>2, <2>3
  <2>6. QED
    BY <1>1, <1>3, <2>1, <2>4, <2>5
<1>7. QED
  BY <1>5, <1>6
-----------------------------------------------------------------------------
(* Steps that give no stream a new end.                                    *)

SameStreams ==
  /\ next_stream_id' = next_stream_id
  /\ stream' \in Seq(ToSet(stream')) /\ Len(stream') = Len(stream)
  /\ \A s \in DOMAIN stream :
       /\ DOMAIN stream'[s] = SFields /\ stream'[s].si = stream[s].si
       /\ stream'[s].src = stream[s].src /\ stream'[s].dst = stream[s].dst

(* The domain of the sequence of streams.                                  *)
LEMMA StreamDomain == StreamsOK => DOMAIN stream = 1 .. next_stream_id - 1
BY DEF StreamsOK

(* Kernels and streams agree after a step in which what kernels hold still *)
(* has them as its end, and what streams name is still held.               *)
LEMMA HeldKept ==
  ASSUME GraphInv, KernelsOK', StreamsOK', DOMAIN stream \subseteq DOMAIN stream',
         \A k \in DOMAIN kernel' : kernel'[k].status \in Busy =>
           /\ k \in DOMAIN kernel /\ kernel[k].status \in Busy
           /\ kernel'[k].ins = kernel[k].ins /\ kernel'[k].outs = kernel[k].outs
           /\ \A s \in HeldIns(kernel'[k]) :
                /\ s \in HeldIns(kernel[k])
                /\ stream'[s].si = stream[s].si /\ stream'[s].dst = stream[s].dst
           /\ \A s \in HeldOuts(kernel'[k]) :
                /\ s \in HeldOuts(kernel[k])
                /\ stream'[s].si = stream[s].si /\ stream'[s].src = stream[s].src,
         \A s \in DOMAIN stream' :
           /\ stream'[s].dst \in DOMAIN kernel' =>
                /\ s \in DOMAIN stream /\ stream'[s].dst = stream[s].dst
                /\ stream[s].dst \in DOMAIN kernel
                /\ s \in HeldIns(kernel[stream[s].dst]) =>
                     s \in HeldIns(kernel'[stream[s].dst])
           /\ stream'[s].src \in DOMAIN kernel' =>
                /\ s \in DOMAIN stream /\ stream'[s].src = stream[s].src
                /\ stream[s].src \in DOMAIN kernel
                /\ s \in HeldOuts(kernel[stream[s].src]) =>
                     s \in HeldOuts(kernel'[stream[s].src])
  PROVE  GraphInv'
<1>1. Known'
  <2>1. ASSUME NEW k \in DOMAIN kernel', kernel'[k].status \in Busy
        PROVE  /\ kernel'[k].ins \in Seq(DOMAIN stream') /\ kernel'[k].outs \in Seq(DOMAIN stream')
               /\ IsInjective(kernel'[k].ins) /\ IsInjective(kernel'[k].outs)
    <3>1. /\ kernel[k].ins \in Seq(DOMAIN stream) /\ kernel[k].outs \in Seq(DOMAIN stream)
          /\ IsInjective(kernel[k].ins) /\ IsInjective(kernel[k].outs)
          /\ kernel'[k].ins = kernel[k].ins /\ kernel'[k].outs = kernel[k].outs
      BY <2>1 DEF GraphInv, Known
    <3>2. QED
      BY <3>1, SeqElim
  <2>2. QED
    BY <2>1 DEF Known
<1>2. ASSUME NEW k \in DOMAIN kernel'
      PROVE  /\ \A s \in HeldIns(kernel'[k]) : stream'[s].si /\ stream'[s].dst = k
             /\ \A s \in HeldOuts(kernel'[k]) : stream'[s].si /\ stream'[s].src = k
  <2>1. CASE kernel'[k].status \notin Busy
    BY <2>1, HeldSubset
  <2>2. CASE kernel'[k].status \in Busy
    <3>1. k \in DOMAIN kernel
      BY <2>2
    <3>2. /\ \A s \in HeldIns(kernel[k]) : stream[s].si /\ stream[s].dst = k
          /\ \A s \in HeldOuts(kernel[k]) : stream[s].si /\ stream[s].src = k
      BY <3>1 DEF GraphInv, Connected
    <3>3. QED
      BY <2>2, <3>2
  <2>3. QED
    BY <2>1, <2>2
<1>3. ASSUME NEW s \in DOMAIN stream'
      PROVE  /\ stream'[s].src \in DOMAIN kernel' => s \in HeldOuts(kernel'[stream'[s].src])
             /\ stream'[s].dst \in DOMAIN kernel' => s \in HeldIns(kernel'[stream'[s].dst])
  <2>1. s \in DOMAIN stream =>
          /\ stream[s].src \in DOMAIN kernel => s \in HeldOuts(kernel[stream[s].src])
          /\ stream[s].dst \in DOMAIN kernel => s \in HeldIns(kernel[stream[s].dst])
    BY DEF GraphInv, Connected
  <2>2. QED
    BY <2>1
<1>4. Connected'
  BY <1>2, <1>3 DEF Connected
<1>5. QED
  BY <1>1, <1>4 DEF GraphInv

(* What a busy kernel holds are streams.                                   *)
LEMMA HeldStreams ==
  ASSUME GraphInv, NEW k \in DOMAIN kernel
  PROVE  HeldIns(kernel[k]) \subseteq DOMAIN stream /\ HeldOuts(kernel[k]) \subseteq DOMAIN stream
<1>1. CASE kernel[k].status \in Busy
  <2>1. ToSet(kernel[k].ins) \subseteq DOMAIN stream /\ ToSet(kernel[k].outs) \subseteq DOMAIN stream
    BY <1>1, SeqElim DEF GraphInv, Known
  <2>2. QED
    BY <2>1, HeldSubset
<1>2. CASE kernel[k].status \notin Busy
  BY <1>2, HeldSubset
<1>3. QED
  BY <1>1, <1>2

(* A kernel's own step, in which it holds what it held.                    *)
LEMMA Unconnected ==
  ASSUME GraphInv, KernelsOK', SameStreams, DOMAIN kernel' = DOMAIN kernel,
         NEW k \in DOMAIN kernel,
         \A j \in DOMAIN kernel : j # k => kernel'[j] = kernel[j],
         kernel'[k].ins = kernel[k].ins, kernel'[k].outs = kernel[k].outs,
         kernel'[k].status \in Busy => kernel[k].status \in Busy,
         HeldIns(kernel'[k]) = HeldIns(kernel[k]), HeldOuts(kernel'[k]) = HeldOuts(kernel[k])
  PROVE  GraphInv'
<1>1. DOMAIN stream' = DOMAIN stream
  BY DEF GraphInv, StreamsOK, SameStreams
<1>2. StreamsOK'
  BY <1>1 DEF GraphInv, StreamsOK, StreamOK, SameStreams
<1>3. \A j \in DOMAIN kernel : /\ HeldIns(kernel'[j]) = HeldIns(kernel[j])
                              /\ HeldOuts(kernel'[j]) = HeldOuts(kernel[j])
  OBVIOUS
<1>4. ASSUME NEW j \in DOMAIN kernel', kernel'[j].status \in Busy
      PROVE  /\ j \in DOMAIN kernel /\ kernel[j].status \in Busy
             /\ kernel'[j].ins = kernel[j].ins /\ kernel'[j].outs = kernel[j].outs
             /\ \A s \in HeldIns(kernel'[j]) :
                  /\ s \in HeldIns(kernel[j])
                  /\ stream'[s].si = stream[s].si /\ stream'[s].dst = stream[s].dst
             /\ \A s \in HeldOuts(kernel'[j]) :
                  /\ s \in HeldOuts(kernel[j])
                  /\ stream'[s].si = stream[s].si /\ stream'[s].src = stream[s].src
  <2>1. /\ j \in DOMAIN kernel /\ kernel[j].status \in Busy
        /\ kernel'[j].ins = kernel[j].ins /\ kernel'[j].outs = kernel[j].outs
    BY <1>4
  <2>2. HeldIns(kernel[j]) \subseteq DOMAIN stream /\ HeldOuts(kernel[j]) \subseteq DOMAIN stream
    BY <2>1, HeldStreams
  <2>3. QED
    BY <2>1, <2>2, <1>3 DEF SameStreams
<1>5. \A s \in DOMAIN stream' :
        /\ stream'[s].dst \in DOMAIN kernel' =>
             /\ s \in DOMAIN stream /\ stream'[s].dst = stream[s].dst
             /\ stream[s].dst \in DOMAIN kernel
             /\ s \in HeldIns(kernel[stream[s].dst]) => s \in HeldIns(kernel'[stream[s].dst])
        /\ stream'[s].src \in DOMAIN kernel' =>
             /\ s \in DOMAIN stream /\ stream'[s].src = stream[s].src
             /\ stream[s].src \in DOMAIN kernel
             /\ s \in HeldOuts(kernel[stream[s].src]) => s \in HeldOuts(kernel'[stream[s].src])
  BY <1>1, <1>3 DEF SameStreams
<1>6. QED
  BY <1>1, <1>2, <1>4, <1>5, HeldKept

(* Nothing changes in the graph.                                           *)
LEMMA Untouched ==
  ASSUME GraphInv, UNCHANGED objects
  PROVE  GraphInv'
BY DEF GraphInv, KernelsOK, StreamsOK, StreamOK, Known, Connected, objects

(* handleKernelInst and KernelRequest: no stream knows the new kernel.     *)
LEMMA AddsKernel ==
  ASSUME GraphInv, NEW w, NEW a, kernel' = WithKernel(w, a),
         next_kernel_id' = next_kernel_id + 1,
         UNCHANGED <<stream, next_stream_id>>
  PROVE  GraphInv'
<1> DEFINE n == next_kernel_id
<1>1. /\ n \in Nat /\ DOMAIN kernel = 0 .. n - 1 /\ DOMAIN kernel' = 0 .. n
      /\ kernel'[n] = NewKernel(w, a)
      /\ \A k \in DOMAIN kernel : kernel'[k] = kernel[k]
  BY DEF GraphInv, KernelsOK, WithKernel
<1>2. DOMAIN kernel' = DOMAIN kernel \cup {n} /\ n \notin DOMAIN kernel
  BY <1>1
<1>3. KernelsOK'
  <2>1. next_kernel_id' \in Nat /\ DOMAIN kernel' = 0 .. next_kernel_id' - 1
    BY <1>1
  <2>2. KernelOK(kernel'[n])
    BY <1>1, NewObjects
  <2>3. QED
    BY <1>1, <1>2, <2>1, <2>2 DEF GraphInv, KernelsOK
<1>4. n # Null /\ n # Ended
  BY <1>1 DEF Null, Ended
<1> HIDE DEF n
<1>5. StreamsOK'
  BY <1>2 DEF GraphInv, StreamsOK, StreamOK
<1>6. kernel'[n].status \notin Busy
  BY <1>1, NewObjects
<1>7. \A s \in DOMAIN stream : stream[s].src # n /\ stream[s].dst # n
  BY <1>2, <1>4 DEF GraphInv, StreamsOK, StreamOK
<1>8. \A k \in DOMAIN kernel' : kernel'[k].status \in Busy =>
        k \in DOMAIN kernel /\ kernel'[k] = kernel[k]
  BY <1>1, <1>2, <1>6
<1>9. \A s \in DOMAIN stream :
        /\ stream[s].src \in DOMAIN kernel' =>
             stream[s].src \in DOMAIN kernel /\ kernel'[stream[s].src] = kernel[stream[s].src]
        /\ stream[s].dst \in DOMAIN kernel' =>
             stream[s].dst \in DOMAIN kernel /\ kernel'[stream[s].dst] = kernel[stream[s].dst]
  BY <1>1, <1>2, <1>7
<1>10. QED
  BY <1>3, <1>5, <1>8, <1>9, HeldKept

(* handleStreamInst and StreamRequest: the new stream has no end.          *)
LEMMA AddsStream ==
  ASSUME GraphInv, stream' = Append(stream, NewStream),
         next_stream_id' = next_stream_id + 1,
         UNCHANGED <<kernel, next_kernel_id>>
  PROVE  GraphInv'
<1> DEFINE n == next_stream_id
<1>1. n \in Nat \ {0} /\ stream \in Seq(ToSet(stream)) /\ Len(stream) = n - 1
  BY DEF GraphInv, StreamsOK
<1>2. /\ DOMAIN stream = 1 .. n - 1
      /\ stream' = [i \in 1 .. n |-> stream'[i]] /\ stream'[n] = NewStream
      /\ \A s \in DOMAIN stream : stream'[s] = stream[s]
  <2> DEFINE T == ToSet(stream) \cup {NewStream}
  <2>1. stream \in Seq(T) /\ NewStream \in T
    BY <1>1
  <2> HIDE DEF T
  <2>2. stream' \in Seq(T) /\ Len(stream') = n
    BY <1>1, <2>1
  <2>3. stream' = [i \in 1 .. n |-> stream'[i]]
    BY ONLY <2>2, SeqElim
  <2>4. stream'[n] = NewStream /\ \A s \in 1 .. n - 1 : stream'[s] = stream[s]
    BY <1>1, <2>1
  <2>5. QED
    BY <1>1, <2>3, <2>4
<1>3. DOMAIN stream' = DOMAIN stream \cup {n}
  BY <1>1, <1>2
<1>4. stream' \in Seq(ToSet(stream')) /\ Len(stream') = n
  BY <1>1, <1>2, SeqIntro
<1>5. next_stream_id' \in Nat \ {0} /\ Len(stream') = next_stream_id' - 1
  BY <1>1, <1>4
<1> HIDE DEF n
<1>6. stream'[n].src \notin DOMAIN kernel /\ stream'[n].dst \notin DOMAIN kernel
  BY <1>2, NewObjects, Specials DEF GraphInv, KernelsOK
<1>7. StreamsOK'
  <2>1. ASSUME NEW s \in DOMAIN stream' PROVE StreamOK(stream'[s])
    BY <1>2, <1>3, NewObjects DEF GraphInv, StreamsOK, StreamOK
  <2>2. QED
    BY <1>4, <1>5, <2>1 DEF StreamsOK, StreamOK
<1>8. KernelsOK'
  BY DEF GraphInv, KernelsOK
<1>9. \A k \in DOMAIN kernel :
        /\ \A s \in HeldIns(kernel[k]) : stream'[s] = stream[s]
        /\ \A s \in HeldOuts(kernel[k]) : stream'[s] = stream[s]
  BY <1>2, HeldStreams
<1>10. \A s \in DOMAIN stream' :
         stream'[s].src \in DOMAIN kernel \/ stream'[s].dst \in DOMAIN kernel =>
           s \in DOMAIN stream /\ stream'[s] = stream[s]
  BY <1>2, <1>3, <1>6
<1>11. DOMAIN stream \subseteq DOMAIN stream'
  BY <1>3
<1>12. QED
  BY <1>7, <1>8, <1>9, <1>10, <1>11, HeldKept
-----------------------------------------------------------------------------
(* The operators on kernels and streams.                                   *)

Objects(ks) == \A j \in DOMAIN ks : KernelOK(ks[j])

(* What connects a kernel, and how far its own steps have come.            *)
Alike(c, d) == /\ c.status = d.status /\ c.impl = d.impl /\ c.at = d.at /\ c.half = d.half
               /\ c.work = d.work

SameEnds(c, d) == c.ins = d.ins /\ c.outs = d.outs

(* Setup touches neither streams nor status.                               *)
LEMMA SetupFacts ==
  ASSUME NEW ks, NEW k \in DOMAIN ks, Objects(ks), NEW parent, NEW set,
         set = Setup(ks, k, parent)
  PROVE  /\ DOMAIN set = DOMAIN ks /\ Objects(set)
         /\ \A j \in DOMAIN ks : Alike(set[j], ks[j]) /\ SameEnds(set[j], ks[j])
<1> DEFINE hier == ks[k].work \in Hierarchical
           sched == IF hier THEN ks[k].sched ELSE selectScheduler
           one == [ks EXCEPT ![k].called = TRUE, ![k].hier = hier, ![k].sched = sched]
<1>1. /\ DOMAIN one = DOMAIN ks
      /\ \A j \in DOMAIN ks : /\ DOMAIN one[j] = KFields
                              /\ Alike(one[j], ks[j]) /\ SameEnds(one[j], ks[j])
  <2> HIDE DEF hier, sched
  <2>1. QED
    BY DEF Objects, KernelOK, Alike, SameEnds, KFields
<1>2. one = [ks EXCEPT ![k].called = TRUE, ![k].hier = hier,
                       ![k].sched = IF hier THEN @ ELSE selectScheduler]
  OBVIOUS
<1>3. set = ks \/ set = one \/ set = [one EXCEPT ![parent].children = Append(@, k)]
  BY <1>2 DEF Setup
<1> HIDE DEF one
<1>4. ASSUME set = [one EXCEPT ![parent].children = Append(@, k)]
      PROVE  /\ DOMAIN set = DOMAIN ks
             /\ \A j \in DOMAIN ks : /\ DOMAIN set[j] = KFields
                                     /\ Alike(set[j], ks[j]) /\ SameEnds(set[j], ks[j])
  BY <1>1, <1>4 DEF Alike, SameEnds, KFields
<1>5. /\ DOMAIN set = DOMAIN ks
      /\ \A j \in DOMAIN ks : /\ DOMAIN set[j] = KFields
                              /\ Alike(set[j], ks[j]) /\ SameEnds(set[j], ks[j])
  <2>1. CASE set = ks
    BY <2>1 DEF Alike, SameEnds, Objects, KernelOK
  <2>2. QED
    BY <1>1, <1>3, <1>4, <2>1
<1>6. Objects(set)
  BY <1>5 DEF Objects, KernelOK, Alike
<1>7. QED
  BY <1>5, <1>6

(* skir.call, first part: k has the streams it was called with.            *)
LEMMA CalledFacts ==
  ASSUME KernelsOK, NEW k \in DOMAIN kernel, NEW ins, NEW outs, NEW c,
         c = Called(k, ins, outs)
  PROVE  /\ DOMAIN c = DOMAIN kernel /\ Objects(c)
         /\ c[k].ins = ins /\ c[k].outs = outs
         /\ \A j \in DOMAIN kernel :
              Alike(c[j], kernel[j]) /\ (j # k => SameEnds(c[j], kernel[j]))
<1> DEFINE set == Setup(kernel, k, hier_parent)
<1>1. Objects(kernel)
  BY DEF KernelsOK, Objects
<1>2. /\ DOMAIN set = DOMAIN kernel /\ Objects(set)
      /\ \A j \in DOMAIN kernel : Alike(set[j], kernel[j]) /\ SameEnds(set[j], kernel[j])
  BY <1>1, SetupFacts
<1>3. c = [set EXCEPT ![k].ins = ins, ![k].outs = outs]
  BY DEF Called
<1> HIDE DEF set
<1>4. DOMAIN c = DOMAIN kernel /\ \A j \in DOMAIN kernel : j # k => c[j] = set[j]
  BY <1>2, <1>3
<1>5. /\ DOMAIN c[k] = KFields /\ c[k].ins = ins /\ c[k].outs = outs
      /\ Alike(c[k], set[k])
  BY <1>2, <1>3 DEF Objects, KernelOK, KFields, Alike
<1>6. \A j \in DOMAIN kernel :
        Alike(c[j], kernel[j]) /\ (j # k => SameEnds(c[j], kernel[j]))
  BY <1>2, <1>4, <1>5 DEF Alike
<1>7. KernelOK(c[k])
  <2>1. KernelOK(set[k])
    BY <1>2 DEF Objects
  <2>2. QED
    BY ONLY <1>5, <2>1 DEF KernelOK, Alike
<1>8. Objects(c)
  BY <1>2, <1>4, <1>7 DEF Objects
<1>9. QED
  BY <1>4, <1>5, <1>6, <1>8

(* The scheduler's callKernel makes k run.                                 *)
LEMMA StartFacts ==
  ASSUME NEW ks, NEW k \in DOMAIN ks, Objects(ks), NEW c, c = Start(ks, k)
  PROVE  /\ DOMAIN c = DOMAIN ks /\ Objects(c)
         /\ c[k].status = "active" /\ ~c[k].half
         /\ c[k].work = ks[k].work /\ SameEnds(c[k], ks[k])
         /\ \A j \in DOMAIN ks : j # k => c[j] = ks[j]
<1> DEFINE code == Code(ks[k].work, ks[k].args, Len(ks[k].ins), Len(ks[k].outs))
<1>1. c = [ks EXCEPT ![k].impl = TRUE, ![k].mapped = TRUE, ![k].status = "active",
                     ![k].at = 1, ![k].half = FALSE, ![k].code = code]
  BY DEF Start
<1> HIDE DEF code
<1>2. DOMAIN c = DOMAIN ks /\ \A j \in DOMAIN ks : j # k => c[j] = ks[j]
  BY <1>1
<1>3. DOMAIN ks[k] = KFields
  BY DEF Objects, KernelOK
<1>4. /\ DOMAIN c[k] = KFields /\ c[k].status = "active" /\ c[k].impl = TRUE
      /\ c[k].at = 1 /\ c[k].half = FALSE
      /\ c[k].ins = ks[k].ins /\ c[k].outs = ks[k].outs /\ c[k].work = ks[k].work
  BY <1>1, <1>3 DEF KFields
<1>5. KernelOK(c[k])
  <2>1. c[k].impl \in BOOLEAN /\ c[k].impl /\ c[k].half \in BOOLEAN /\ ~c[k].half
    BY <1>4
  <2>2. c[k].at \in Nat \ {0}
    BY <1>4
  <2>3. QED
    BY ONLY <1>4, <2>1, <2>2 DEF KernelOK
<1>6. QED
  BY <1>2, <1>4, <1>5 DEF Objects, SameEnds

(* allocateStreams makes k the end of its streams and no other.            *)
LEMMA AllocateFacts ==
  ASSUME StreamsOK, NEW k, NEW ins \in Seq(DOMAIN stream),
         NEW outs \in Seq(DOMAIN stream), NEW ss,
         ss = allocateStreams(stream, k, ins, outs)
  PROVE  /\ ss \in Seq(ToSet(ss)) /\ Len(ss) = Len(stream) /\ DOMAIN ss = DOMAIN stream
         /\ \A s \in DOMAIN stream :
              /\ DOMAIN ss[s] = SFields
              /\ ss[s].si = (stream[s].si \/ s \in ToSet(ins) \/ s \in ToSet(outs))
              /\ ss[s].dst = IF s \in ToSet(ins) THEN k ELSE stream[s].dst
              /\ ss[s].src = IF s \in ToSet(outs) THEN k ELSE stream[s].src
<1>1. ToSet(ins \o outs) = ToSet(ins) \cup ToSet(outs)
  BY ToSetConcat
<1> DEFINE fresh(s) == IF stream[s].si THEN stream[s] ELSE [NewStream EXCEPT !.si = TRUE]
           read(s) == IF s \in ToSet(ins) THEN [fresh(s) EXCEPT !.dst = k] ELSE fresh(s)
           new(s) == IF s \notin ToSet(ins \o outs) THEN stream[s]
                     ELSE IF s \in ToSet(outs) THEN [read(s) EXCEPT !.src = k] ELSE read(s)
<1>2. ss = [s \in DOMAIN stream |-> new(s)]
  BY DEF allocateStreams
<1>3. DOMAIN stream = 1 .. Len(stream) /\ Len(stream) \in Nat
  BY DEF StreamsOK
<1>4. ss \in Seq(ToSet(ss)) /\ Len(ss) = Len(stream) /\ DOMAIN ss = DOMAIN stream
  <2> HIDE DEF new
  <2>1. DOMAIN ss = 1 .. Len(stream) /\ ss = [i \in 1 .. Len(stream) |-> ss[i]]
    BY <1>2, <1>3
  <2>2. QED
    BY <2>1, <1>3, SeqIntro
<1>5. ASSUME NEW s \in DOMAIN stream
      PROVE  /\ DOMAIN fresh(s) = SFields /\ fresh(s).si
             /\ fresh(s).src = stream[s].src /\ fresh(s).dst = stream[s].dst
  <2>1. StreamOK(stream[s])
    BY DEF StreamsOK
  <2>2. QED
    BY <2>1, NewObjects DEF StreamOK, SFields
<1> HIDE DEF fresh
<1>6. ASSUME NEW s \in DOMAIN stream
      PROVE  /\ DOMAIN read(s) = SFields /\ read(s).si /\ read(s).src = fresh(s).src
             /\ read(s).dst = IF s \in ToSet(ins) THEN k ELSE fresh(s).dst
  BY <1>5 DEF SFields
<1> HIDE DEF read
<1>7. ASSUME NEW s \in DOMAIN stream
      PROVE  /\ DOMAIN new(s) = SFields
             /\ new(s).si = (stream[s].si \/ s \in ToSet(ins) \/ s \in ToSet(outs))
             /\ new(s).dst = IF s \in ToSet(ins) THEN k ELSE stream[s].dst
             /\ new(s).src = IF s \in ToSet(outs) THEN k ELSE stream[s].src
  <2>1. DOMAIN stream[s] = SFields /\ stream[s].si \in BOOLEAN
    BY DEF StreamsOK, StreamOK
  <2>2. CASE s \notin ToSet(ins \o outs)
    <3>1. new(s) = stream[s]
      BY <2>2
    <3> HIDE DEF new
    <3>2. QED
      BY <1>1, <2>1, <2>2, <3>1
  <2>3. CASE s \in ToSet(outs)
    <3>1. new(s) = [read(s) EXCEPT !.src = k]
      BY <2>3, <1>1
    <3> HIDE DEF new
    <3>2. /\ DOMAIN new(s) = SFields /\ new(s).si = read(s).si
          /\ new(s).src = k /\ new(s).dst = read(s).dst
      BY <3>1, <1>6 DEF SFields
    <3>3. QED
      BY <1>5, <1>6, <2>3, <3>2
  <2>4. CASE s \in ToSet(ins) /\ s \notin ToSet(outs)
    <3>1. new(s) = read(s)
      BY <2>4, <1>1
    <3> HIDE DEF new
    <3>2. QED
      BY <1>5, <1>6, <2>4, <3>1
  <2>5. QED
    BY <1>1, <2>2, <2>3, <2>4
<1> HIDE DEF new
<1>8. QED
  BY <1>2, <1>4, <1>7
-----------------------------------------------------------------------------
(* Steps that connect.                                                     *)

(* callKernel and handleBecomeInst: k takes streams that no other kernel   *)
(* holds, and no stream names a kernel that has given it up.               *)
Connecting(k, ins, outs) ==
  /\ KernelsOK' /\ next_stream_id' = next_stream_id /\ k \in DOMAIN kernel'
  /\ ins \in Seq(DOMAIN stream) /\ outs \in Seq(DOMAIN stream)
  /\ IsInjective(ins) /\ IsInjective(outs)
  /\ stream' = allocateStreams(stream, k, ins, outs)
  /\ DOMAIN kernel \subseteq DOMAIN kernel'
  /\ kernel'[k].status = "active" /\ kernel'[k].ins = ins /\ kernel'[k].outs = outs
  /\ \A j \in DOMAIN kernel' : j # k /\ kernel'[j].status \in Busy =>
       /\ j \in DOMAIN kernel
       /\ Alike(kernel'[j], kernel[j]) /\ SameEnds(kernel'[j], kernel[j])
       /\ \A s \in ToSet(ins) : s \notin HeldIns(kernel[j])
       /\ \A s \in ToSet(outs) : s \notin HeldOuts(kernel[j])
  /\ \A j \in DOMAIN kernel : kernel[j].status = "ending" =>
       j # k /\ kernel'[j].status = "ending"
  /\ \A s \in DOMAIN stream :
       /\ s \notin ToSet(ins) /\ stream[s].dst \in DOMAIN kernel' =>
            stream[s].dst # k /\ kernel'[stream[s].dst].status \in Busy
       /\ s \notin ToSet(outs) /\ stream[s].src \in DOMAIN kernel' =>
            stream[s].src # k /\ kernel'[stream[s].src].status \in Busy

LEMMA Connects ==
  ASSUME GraphInv, NEW k, NEW ins, NEW outs, Connecting(k, ins, outs)
  PROVE  GraphInv'
<1>21. /\ KernelsOK' /\ next_stream_id' = next_stream_id /\ k \in DOMAIN kernel'
      /\ ins \in Seq(DOMAIN stream) /\ outs \in Seq(DOMAIN stream)
      /\ IsInjective(ins) /\ IsInjective(outs)
      /\ stream' = allocateStreams(stream, k, ins, outs)
      /\ DOMAIN kernel \subseteq DOMAIN kernel'
      /\ kernel'[k].status = "active" /\ kernel'[k].ins = ins /\ kernel'[k].outs = outs
  BY DEF Connecting
<1>22. \A j \in DOMAIN kernel' : j # k /\ kernel'[j].status \in Busy =>
       /\ j \in DOMAIN kernel
       /\ Alike(kernel'[j], kernel[j]) /\ SameEnds(kernel'[j], kernel[j])
       /\ \A s \in ToSet(ins) : s \notin HeldIns(kernel[j])
       /\ \A s \in ToSet(outs) : s \notin HeldOuts(kernel[j])
  BY DEF Connecting
<1>23. \A s \in DOMAIN stream :
       /\ s \notin ToSet(ins) /\ stream[s].dst \in DOMAIN kernel' =>
            stream[s].dst # k /\ kernel'[stream[s].dst].status \in Busy
       /\ s \notin ToSet(outs) /\ stream[s].src \in DOMAIN kernel' =>
            stream[s].src # k /\ kernel'[stream[s].src].status \in Busy
  BY DEF Connecting
<1> DEFINE ss == stream'
<1>1. StreamsOK
  BY DEF GraphInv
<1>2. /\ ss \in Seq(ToSet(ss)) /\ Len(ss) = Len(stream) /\ DOMAIN ss = DOMAIN stream
      /\ \A s \in DOMAIN stream :
           /\ DOMAIN ss[s] = SFields
           /\ ss[s].si = (stream[s].si \/ s \in ToSet(ins) \/ s \in ToSet(outs))
           /\ ss[s].dst = IF s \in ToSet(ins) THEN k ELSE stream[s].dst
           /\ ss[s].src = IF s \in ToSet(outs) THEN k ELSE stream[s].src
  BY <1>21, <1>1, AllocateFacts
<1> HIDE DEF ss
<1>3. ToSet(ins) \subseteq DOMAIN stream /\ ToSet(outs) \subseteq DOMAIN stream
  BY <1>21, SeqElim
<1>4. StreamsOK'
  <2>1. ASSUME NEW s \in DOMAIN stream
        PROVE  /\ DOMAIN ss[s] = SFields
               /\ ss[s].src \in {Null, Ended} \cup DOMAIN kernel'
               /\ ss[s].dst \in {Null, Ended} \cup DOMAIN kernel'
               /\ ss[s].si \in BOOLEAN /\ (ss[s].si \/ (ss[s].src = Null /\ ss[s].dst = Null))
    <3>1. StreamOK(stream[s])
      BY <1>1 DEF StreamsOK
    <3>2. QED
      BY <1>21, <1>2, <3>1 DEF StreamOK
  <2>2. QED
    BY <1>21, <1>1, <1>2, <2>1 DEF StreamsOK, StreamOK, ss
<1>5. HeldIns(kernel'[k]) = ToSet(ins) /\ HeldOuts(kernel'[k]) = ToSet(outs)
  BY <1>21, HeldActive
<1>6. ASSUME NEW j \in DOMAIN kernel', j # k, kernel'[j].status \in Busy
      PROVE  /\ j \in DOMAIN kernel /\ kernel[j].status \in Busy
             /\ kernel'[j].ins = kernel[j].ins /\ kernel'[j].outs = kernel[j].outs
             /\ HeldIns(kernel'[j]) = HeldIns(kernel[j])
             /\ HeldOuts(kernel'[j]) = HeldOuts(kernel[j])
  <2>1. j \in DOMAIN kernel /\ Alike(kernel'[j], kernel[j]) /\ SameEnds(kernel'[j], kernel[j])
    BY <1>22, <1>6
  <2>2. FirstHeld(kernel'[j]) = FirstHeld(kernel[j])
    BY <2>1 DEF Alike, FirstHeld
  <2>3. QED
    BY <1>6, <2>1, <2>2, SameHeld DEF Alike, SameEnds
<1>7. Known'
  <2>1. \A j \in DOMAIN kernel' : kernel'[j].status \in Busy =>
          /\ kernel'[j].ins \in Seq(DOMAIN stream) /\ kernel'[j].outs \in Seq(DOMAIN stream)
          /\ IsInjective(kernel'[j].ins) /\ IsInjective(kernel'[j].outs)
    BY <1>21, <1>6 DEF GraphInv, Known
  <2>2. QED
    BY <2>1, <1>2 DEF Known, ss
<1>8. ASSUME NEW j \in DOMAIN kernel'
      PROVE  /\ \A s \in HeldIns(kernel'[j]) : ss[s].si /\ ss[s].dst = j
             /\ \A s \in HeldOuts(kernel'[j]) : ss[s].si /\ ss[s].src = j
  <2>1. CASE j = k
    BY <1>21, <1>2, <1>3, <1>5, <2>1
  <2>2. CASE j # k /\ kernel'[j].status \in Busy
    <3>1. /\ j \in DOMAIN kernel
          /\ HeldIns(kernel'[j]) = HeldIns(kernel[j]) /\ HeldOuts(kernel'[j]) = HeldOuts(kernel[j])
          /\ \A s \in HeldIns(kernel[j]) : s \notin ToSet(ins)
          /\ \A s \in HeldOuts(kernel[j]) : s \notin ToSet(outs)
      BY <1>22, <1>6, <2>2
    <3>2. HeldIns(kernel[j]) \subseteq DOMAIN stream /\ HeldOuts(kernel[j]) \subseteq DOMAIN stream
      BY <3>1, HeldStreams
    <3>3. /\ \A s \in HeldIns(kernel[j]) : stream[s].si /\ stream[s].dst = j
          /\ \A s \in HeldOuts(kernel[j]) : stream[s].si /\ stream[s].src = j
      BY <3>1 DEF GraphInv, Connected
    <3>4. QED
      BY ONLY <3>1, <3>2, <3>3, <1>2
  <2>3. CASE kernel'[j].status \notin Busy
    BY <2>3, HeldSubset
  <2>4. QED
    BY <2>1, <2>2, <2>3
<1>9. ASSUME NEW s \in DOMAIN stream
      PROVE  /\ ss[s].src \in DOMAIN kernel' => s \in HeldOuts(kernel'[ss[s].src])
             /\ ss[s].dst \in DOMAIN kernel' => s \in HeldIns(kernel'[ss[s].dst])
  <2>1. ASSUME ss[s].src \in DOMAIN kernel', s \notin ToSet(outs)
        PROVE  s \in HeldOuts(kernel'[ss[s].src])
    <3>1. ss[s].src = stream[s].src
      BY <1>2, <2>1
    <3>2. stream[s].src # k /\ kernel'[stream[s].src].status \in Busy
      BY <1>23, <2>1, <3>1
    <3>3. /\ stream[s].src \in DOMAIN kernel
          /\ HeldOuts(kernel'[stream[s].src]) = HeldOuts(kernel[stream[s].src])
      BY <2>1, <3>1, <3>2, <1>6
    <3>4. s \in HeldOuts(kernel[stream[s].src])
      BY <3>3 DEF GraphInv, Connected
    <3>5. QED
      BY <3>1, <3>3, <3>4
  <2>2. ASSUME ss[s].dst \in DOMAIN kernel', s \notin ToSet(ins)
        PROVE  s \in HeldIns(kernel'[ss[s].dst])
    <3>1. ss[s].dst = stream[s].dst
      BY <1>2, <2>2
    <3>2. stream[s].dst # k /\ kernel'[stream[s].dst].status \in Busy
      BY <1>23, <2>2, <3>1
    <3>3. /\ stream[s].dst \in DOMAIN kernel
          /\ HeldIns(kernel'[stream[s].dst]) = HeldIns(kernel[stream[s].dst])
      BY <2>2, <3>1, <3>2, <1>6
    <3>4. s \in HeldIns(kernel[stream[s].dst])
      BY <3>3 DEF GraphInv, Connected
    <3>5. QED
      BY <3>1, <3>3, <3>4
  <2>3. QED
    BY <1>21, <1>2, <1>5, <2>1, <2>2
<1>10. Connected'
  BY <1>2, <1>8, <1>9 DEF Connected, ss
<1>11. QED
  BY <1>21, <1>4, <1>7, <1>10 DEF GraphInv

(* What FreeEnds asks for: nobody holds these ends, and no stream has one. *)
LEMMA FreeEndsFree ==
  ASSUME GraphInv, NEW ins, NEW outs, FreeEnds(ins, outs), NEW j \in DOMAIN kernel
  PROVE  /\ \A s \in ToSet(ins) : s \notin HeldIns(kernel[j])
         /\ \A s \in ToSet(outs) : s \notin HeldOuts(kernel[j])
<1>1. CASE kernel[j].status \notin Busy
  BY <1>1, HeldSubset
<1>2. CASE kernel[j].status \in Busy
  <2>1. /\ ToSet(kernel[j].ins) \cap ToSet(ins) = {}
        /\ ToSet(kernel[j].outs) \cap ToSet(outs) = {}
    BY <1>2 DEF FreeEnds
  <2>2. HeldIns(kernel[j]) \subseteq ToSet(kernel[j].ins) /\ HeldOuts(kernel[j]) \subseteq ToSet(kernel[j].outs)
    BY HeldSubset
  <2>3. QED
    BY <2>1, <2>2
<1>3. QED
  BY <1>1, <1>2

(* The end that a stream names is a busy kernel.                           *)
LEMMA NamesBusy ==
  ASSUME GraphInv, NEW s \in DOMAIN stream
  PROVE  /\ stream[s].dst \in DOMAIN kernel => kernel[stream[s].dst].status \in Busy
         /\ stream[s].src \in DOMAIN kernel => kernel[stream[s].src].status \in Busy
BY HeldSubset DEF GraphInv, Connected
-----------------------------------------------------------------------------
(* One step per action.                                                    *)

LEMMA CallHierarchicalStep ==
  ASSUME GraphInv, ProperCall, callHierarchical
  PROVE  GraphInv'
<1> DEFINE k == Callee
           ins == Value(Inst.ins)
           outs == Value(Inst.outs)
<1>1. Ready("call") /\ kernel' = Called(k, ins, outs)
  BY DEF callHierarchical, Callee
<1>2. k \in DOMAIN kernel /\ kernel[k].status \notin Busy
  BY <1>1 DEF ProperCall
<1>3. UNCHANGED <<stream, next_stream_id, next_kernel_id>>
  BY DEF callHierarchical
<1>4. KernelsOK
  BY DEF GraphInv
<1> HIDE DEF k, ins, outs
<1>5. /\ DOMAIN kernel' = DOMAIN kernel /\ Objects(kernel')
      /\ \A j \in DOMAIN kernel :
           Alike(kernel'[j], kernel[j]) /\ (j # k => SameEnds(kernel'[j], kernel[j]))
  BY <1>1, <1>2, <1>4, CalledFacts
<1>6. KernelsOK'
  BY ONLY <1>3, <1>4, <1>5 DEF KernelsOK, Objects
<1>7. StreamsOK'
  BY ONLY <1>3, <1>5, GraphInv DEF GraphInv, StreamsOK, StreamOK
<1>8. ASSUME NEW j \in DOMAIN kernel
      PROVE  /\ kernel'[j].status \in Busy =>
                  /\ kernel[j].status \in Busy
                  /\ kernel'[j].ins = kernel[j].ins /\ kernel'[j].outs = kernel[j].outs
             /\ HeldIns(kernel'[j]) = HeldIns(kernel[j])
             /\ HeldOuts(kernel'[j]) = HeldOuts(kernel[j])
  <2>1. CASE kernel[j].status \notin Busy
    BY <1>5, <2>1, HeldSubset DEF Alike
  <2>2. CASE kernel[j].status \in Busy
    <3>1. Alike(kernel'[j], kernel[j]) /\ SameEnds(kernel'[j], kernel[j])
      BY <1>2, <1>5, <2>2
    <3>2. FirstHeld(kernel'[j]) = FirstHeld(kernel[j])
      BY <3>1 DEF Alike, FirstHeld
    <3>3. QED
      BY <2>2, <3>1, <3>2, SameHeld DEF Alike, SameEnds
  <2>3. QED
    BY <2>1, <2>2
<1>9. QED
  BY <1>3, <1>5, <1>6, <1>7, <1>8, HeldKept

LEMMA CallConnects ==
  ASSUME GraphInv, ProperCall, callKernel, NEW k, k = Callee,
         NEW ins, ins = Value(Inst.ins), NEW outs, outs = Value(Inst.outs)
  PROVE  Connecting(k, ins, outs) /\ FreeEnds(ins, outs)
<1> DEFINE called == Called(k, ins, outs)
<1>1. Ready("call") /\ kernel[k].work \notin Hierarchical
  BY DEF callKernel, Callee
<1>2. k \in DOMAIN kernel /\ kernel[k].status \notin Busy /\ FreeEnds(ins, outs)
  BY <1>1 DEF ProperCall
<1>3. KernelsOK /\ ~kernel[k].impl
  BY <1>2 DEF GraphInv, KernelsOK, KernelOK, Busy
<1>4. /\ kernel' = Start(called, k) /\ stream' = allocateStreams(stream, k, ins, outs)
      /\ UNCHANGED <<next_kernel_id, next_stream_id>>
  BY <1>3 DEF callKernel, Callee
<1>5. /\ DOMAIN called = DOMAIN kernel /\ Objects(called)
      /\ called[k].ins = ins /\ called[k].outs = outs
      /\ \A j \in DOMAIN kernel :
           Alike(called[j], kernel[j]) /\ (j # k => SameEnds(called[j], kernel[j]))
  BY <1>2, <1>3, CalledFacts
<1> HIDE DEF called
<1>6. /\ DOMAIN kernel' = DOMAIN called /\ Objects(kernel')
      /\ kernel'[k].status = "active" /\ SameEnds(kernel'[k], called[k])
      /\ \A j \in DOMAIN called : j # k => kernel'[j] = called[j]
  <2>1. k \in DOMAIN called /\ Objects(called) /\ kernel' = Start(called, k)
    BY <1>2, <1>4, <1>5
  <2>2. QED
    BY ONLY <2>1, StartFacts
<1>7. KernelsOK'
  BY ONLY <1>3, <1>4, <1>5, <1>6 DEF KernelsOK, Objects
<1>8. /\ ins \in Seq(DOMAIN stream) /\ outs \in Seq(DOMAIN stream)
      /\ IsInjective(ins) /\ IsInjective(outs)
  BY <1>2 DEF FreeEnds
<1>9. \A j \in DOMAIN kernel' : j # k /\ kernel'[j].status \in Busy =>
        /\ j \in DOMAIN kernel
        /\ Alike(kernel'[j], kernel[j]) /\ SameEnds(kernel'[j], kernel[j])
        /\ \A s \in ToSet(ins) : s \notin HeldIns(kernel[j])
        /\ \A s \in ToSet(outs) : s \notin HeldOuts(kernel[j])
  BY <1>2, <1>5, <1>6, FreeEndsFree
<1>10. \A s \in DOMAIN stream :
         /\ stream[s].dst \in DOMAIN kernel =>
              stream[s].dst # k /\ kernel[stream[s].dst].status \in Busy
         /\ stream[s].src \in DOMAIN kernel =>
              stream[s].src # k /\ kernel[stream[s].src].status \in Busy
  BY <1>2, NamesBusy
<1>11. \A s \in DOMAIN stream :
         /\ s \notin ToSet(ins) /\ stream[s].dst \in DOMAIN kernel' =>
              stream[s].dst # k /\ kernel'[stream[s].dst].status \in Busy
         /\ s \notin ToSet(outs) /\ stream[s].src \in DOMAIN kernel' =>
              stream[s].src # k /\ kernel'[stream[s].src].status \in Busy
  BY ONLY <1>5, <1>6, <1>10 DEF Alike
<1>12. k \in DOMAIN kernel' /\ kernel'[k].ins = ins /\ kernel'[k].outs = outs
  BY ONLY <1>2, <1>5, <1>6 DEF SameEnds
<1>13. DOMAIN kernel \subseteq DOMAIN kernel'
  BY <1>5, <1>6
<1>14. \A j \in DOMAIN kernel : kernel[j].status = "ending" =>
         j # k /\ kernel'[j].status = "ending"
  BY <1>2, <1>5, <1>6 DEF Alike, Busy
<1>15. QED
  BY ONLY <1>2, <1>4, <1>6, <1>7, <1>8, <1>9, <1>11, <1>12, <1>13, <1>14 DEF Connecting

LEMMA BecomeConnects ==
  ASSUME GraphInv, NEW k \in DOMAIN kernel, handleBecomeInst(k),
         NEW n, n = next_kernel_id,
         NEW ins, ins = kernel[k].ins, NEW outs, outs = kernel[k].outs
  PROVE  Connecting(n, ins, outs)
<1> DEFINE made == WithKernel(Op(k).work, Op(k).args)
           left == [made EXCEPT ![k].mapped = FALSE, ![k].impl = FALSE,
                                ![k].ins = <<>>, ![k].outs = <<>>,
                                ![k].status = "replaced"]
           setup == Setup(left, n, hier_parent)
           set == [setup EXCEPT ![n].ins = ins, ![n].outs = outs]
<1>1. /\ kernel[k].status = "active" /\ kernel' = Start(set, n)
      /\ stream' = allocateStreams(stream, n, ins, outs)
      /\ next_kernel_id' = n + 1 /\ next_stream_id' = next_stream_id
  BY DEF handleBecomeInst, Active
<1>2. /\ n \in Nat /\ DOMAIN kernel = 0 .. n - 1 /\ n \notin DOMAIN kernel
      /\ 0 .. n = DOMAIN kernel \cup {n}
  BY DEF GraphInv, KernelsOK
<1>3. /\ DOMAIN made = 0 .. n /\ Objects(made)
      /\ made[n].status = "new"
      /\ \A j \in DOMAIN kernel : made[j] = kernel[j]
  <2>1. /\ DOMAIN made = 0 .. n /\ made[n] = NewKernel(Op(k).work, Op(k).args)
        /\ \A j \in DOMAIN kernel : made[j] = kernel[j]
    BY <1>2 DEF WithKernel
  <2> HIDE DEF made
  <2>2. QED
    BY <1>2, <2>1, NewObjects DEF GraphInv, KernelsOK, Objects
<1> HIDE DEF made
<1>4. /\ DOMAIN left = 0 .. n /\ Objects(left) /\ left[k].status = "replaced"
      /\ \A j \in DOMAIN kernel : j # k => left[j] = kernel[j]
  <2>1. DOMAIN left = 0 .. n /\ \A j \in 0 .. n : j # k => left[j] = made[j]
    BY <1>3
  <2>2. KernelOK(made[k]) /\ k \in 0 .. n
    BY <1>2, <1>3 DEF Objects
  <2>3. /\ DOMAIN left[k] = KFields /\ left[k].status = "replaced" /\ left[k].impl = FALSE
        /\ left[k].at = made[k].at /\ left[k].half = made[k].half
    BY <1>3, <2>2 DEF KFields, KernelOK
  <2> HIDE DEF left
  <2>4. KernelOK(left[k])
    <3>1. left[k].impl \in BOOLEAN /\ ~left[k].impl
      BY <2>3
    <3>2. left[k].at \in Nat \ {0} /\ left[k].half \in BOOLEAN
      BY ONLY <2>2, <2>3 DEF KernelOK
    <3>3. QED
      BY ONLY <2>3, <3>1, <3>2 DEF KernelOK
  <2>5. QED
    BY <1>2, <1>3, <2>1, <2>3, <2>4 DEF Objects
<1> HIDE DEF left
<1>5. /\ DOMAIN setup = 0 .. n /\ Objects(setup)
      /\ \A j \in 0 .. n : Alike(setup[j], left[j]) /\ SameEnds(setup[j], left[j])
  <2>1. n \in DOMAIN left /\ Objects(left) /\ setup = Setup(left, n, hier_parent)
    BY <1>2, <1>4
  <2> HIDE DEF setup
  <2>2. /\ DOMAIN setup = DOMAIN left /\ Objects(setup)
        /\ \A j \in DOMAIN left : Alike(setup[j], left[j]) /\ SameEnds(setup[j], left[j])
    BY ONLY <2>1, SetupFacts
  <2>3. QED
    BY ONLY <1>4, <2>2
<1> HIDE DEF setup
<1>6. /\ DOMAIN set = 0 .. n /\ Objects(set)
      /\ set[n].ins = ins /\ set[n].outs = outs
      /\ \A j \in DOMAIN kernel : set[j] = setup[j]
  <2>1. DOMAIN set = 0 .. n /\ \A j \in DOMAIN kernel : set[j] = setup[j]
    BY <1>2, <1>5
  <2>2. KernelOK(setup[n]) /\ n \in 0 .. n
    BY <1>2, <1>5 DEF Objects
  <2>3. DOMAIN set[n] = KFields /\ set[n].ins = ins /\ set[n].outs = outs /\ Alike(set[n], setup[n])
    BY <1>5, <2>2 DEF KFields, KernelOK, Alike
  <2> HIDE DEF set
  <2>4. KernelOK(set[n])
    BY ONLY <2>2, <2>3 DEF KernelOK, Alike
  <2>5. QED
    BY <1>2, <1>5, <2>1, <2>3, <2>4 DEF Objects
<1> HIDE DEF set
<1>7. /\ DOMAIN kernel' = 0 .. n /\ Objects(kernel')
      /\ kernel'[n].status = "active"
      /\ kernel'[n].ins = ins /\ kernel'[n].outs = outs
      /\ \A j \in DOMAIN kernel : kernel'[j] = set[j]
  <2>1. n \in DOMAIN set /\ Objects(set) /\ kernel' = Start(set, n)
    BY <1>1, <1>2, <1>6
  <2>2. /\ DOMAIN kernel' = DOMAIN set /\ Objects(kernel')
        /\ kernel'[n].status = "active" /\ SameEnds(kernel'[n], set[n])
        /\ \A j \in DOMAIN set : j # n => kernel'[j] = set[j]
    BY ONLY <2>1, StartFacts
  <2>3. QED
    BY ONLY <1>2, <1>6, <2>2 DEF SameEnds
<1>8. /\ kernel'[k].status = "replaced"
      /\ \A j \in DOMAIN kernel : j # k =>
           Alike(kernel'[j], kernel[j]) /\ SameEnds(kernel'[j], kernel[j])
  <2>1. \A j \in DOMAIN kernel : Alike(kernel'[j], left[j]) /\ SameEnds(kernel'[j], left[j])
    BY ONLY <1>2, <1>5, <1>6, <1>7
  <2>2. kernel'[k].status = "replaced"
    BY ONLY k \in DOMAIN kernel, <2>1, <1>4 DEF Alike
  <2>3. QED
    BY ONLY <2>1, <2>2, <1>4
<1>9. KernelsOK'
  <2>1. n + 1 \in Nat /\ 0 .. n = 0 .. (n + 1) - 1
    BY <1>2
  <2>2. QED
    BY ONLY <1>1, <1>7, <2>1 DEF KernelsOK, Objects
<1>10. /\ ins \in Seq(DOMAIN stream) /\ outs \in Seq(DOMAIN stream)
       /\ IsInjective(ins) /\ IsInjective(outs)
  BY <1>1 DEF GraphInv, Known, Busy
<1>11. HeldIns(kernel[k]) = ToSet(ins) /\ HeldOuts(kernel[k]) = ToSet(outs)
  BY <1>1, <1>10, HeldActive
<1>12. \A j \in DOMAIN kernel : j # k =>
         /\ \A s \in ToSet(ins) : s \notin HeldIns(kernel[j])
         /\ \A s \in ToSet(outs) : s \notin HeldOuts(kernel[j])
  BY <1>11 DEF GraphInv, Connected
<1>13. \A s \in DOMAIN stream :
         /\ stream[s].dst \in DOMAIN kernel =>
              /\ kernel[stream[s].dst].status \in Busy
              /\ stream[s].dst = k => s \in ToSet(ins)
         /\ stream[s].src \in DOMAIN kernel =>
              /\ kernel[stream[s].src].status \in Busy
              /\ stream[s].src = k => s \in ToSet(outs)
         /\ stream[s].src # n /\ stream[s].dst # n
  <2>1. n # Null /\ n # Ended
    BY <1>2 DEF Null, Ended
  <2>2. \A s \in DOMAIN stream : stream[s].src # n /\ stream[s].dst # n
    BY <1>2, <2>1 DEF GraphInv, StreamsOK, StreamOK
  <2>3. \A s \in DOMAIN stream :
          /\ stream[s].dst \in DOMAIN kernel => s \in HeldIns(kernel[stream[s].dst])
          /\ stream[s].src \in DOMAIN kernel => s \in HeldOuts(kernel[stream[s].src])
    BY DEF GraphInv, Connected
  <2>4. QED
    BY ONLY <2>2, <2>3, <1>11, GraphInv, NamesBusy
<1>14. "replaced" \notin Busy
  BY DEF Busy
<1>15. \A j \in DOMAIN kernel' : j # n /\ kernel'[j].status \in Busy =>
         /\ j \in DOMAIN kernel
         /\ Alike(kernel'[j], kernel[j]) /\ SameEnds(kernel'[j], kernel[j])
         /\ \A s \in ToSet(ins) : s \notin HeldIns(kernel[j])
         /\ \A s \in ToSet(outs) : s \notin HeldOuts(kernel[j])
  BY ONLY <1>2, <1>7, <1>8, <1>12, <1>14
<1>16. \A s \in DOMAIN stream :
         /\ s \notin ToSet(ins) /\ stream[s].dst \in DOMAIN kernel' =>
              stream[s].dst # n /\ kernel'[stream[s].dst].status \in Busy
         /\ s \notin ToSet(outs) /\ stream[s].src \in DOMAIN kernel' =>
              stream[s].src # n /\ kernel'[stream[s].src].status \in Busy
  BY ONLY <1>2, <1>7, <1>8, <1>13 DEF Alike
<1>17. n \in DOMAIN kernel' /\ DOMAIN kernel \subseteq DOMAIN kernel'
  BY <1>2, <1>7
<1>18. \A j \in DOMAIN kernel : kernel[j].status = "ending" =>
         j # n /\ kernel'[j].status = "ending"
  BY <1>1, <1>2, <1>8 DEF Alike
<1>19. QED
  BY ONLY <1>1, <1>7, <1>9, <1>10, <1>15, <1>16, <1>17, <1>18 DEF Connecting

(* An element moves through a stream: its ends stay what they are.         *)
WithQueue(t, x) == [stream EXCEPT ![t].q = x]

LEMMA QueueFacts ==
  ASSUME StreamsOK, UNCHANGED next_stream_id, NEW t, NEW x, stream' = WithQueue(t, x)
  PROVE  SameStreams
<1>1. DOMAIN stream = 1 .. Len(stream) /\ Len(stream) \in Nat
  BY DEF StreamsOK
<1>2. stream' = [i \in 1 .. Len(stream) |-> stream'[i]]
  BY <1>1 DEF WithQueue
<1>3. \A s \in DOMAIN stream : DOMAIN stream[s] = SFields
  BY DEF StreamsOK, StreamOK
<1>4. stream' \in Seq(ToSet(stream')) /\ Len(stream') = Len(stream)
  BY <1>1, <1>2, SeqIntro
<1>5. \A s \in DOMAIN stream :
        /\ DOMAIN stream'[s] = SFields /\ stream'[s].si = stream[s].si
        /\ stream'[s].src = stream[s].src /\ stream'[s].dst = stream[s].dst
  BY <1>3 DEF SFields, WithQueue
<1>6. QED
  BY <1>4, <1>5 DEF SameStreams

(* A kernel's own step changes its local state, and one thing at most      *)
(* besides: it moves an element, returns 1, marks or frees the end it has  *)
(* reached in done, is done, or is forgotten.                              *)
OwnStep(k) ==
  /\ next_kernel_id' = next_kernel_id /\ DOMAIN kernel' = DOMAIN kernel
  /\ \A j \in DOMAIN kernel : j # k => kernel'[j] = kernel[j]
  /\ KernelOK(kernel'[k])
  /\ kernel'[k].ins = kernel[k].ins /\ kernel'[k].outs = kernel[k].outs
  /\ kernel'[k].work = kernel[k].work /\ kernel'[k].children = kernel[k].children
  /\ kernel'[k].called = kernel[k].called /\ kernel'[k].hier = kernel[k].hier

Moves(k) == /\ kernel[k].status = "active" /\ kernel'[k].status = "active"
            /\ kernel'[k].mapped = kernel[k].mapped /\ SameStreams
Returns(k) == /\ kernel[k].status = "active" /\ kernel'[k].status = "ending"
              /\ kernel'[k].at = 1 /\ ~kernel'[k].half
              /\ kernel'[k].mapped = kernel[k].mapped /\ SameStreams
Marks(k) == /\ MarkEnd(k) /\ kernel'[k].status = "ending" /\ kernel'[k].half
            /\ kernel'[k].at = kernel[k].at
            /\ kernel'[k].mapped = kernel[k].mapped
Frees(k) == /\ FreeEnd(k) /\ kernel'[k].status = "ending" /\ ~kernel'[k].half
            /\ kernel'[k].at = kernel[k].at + 1
            /\ kernel'[k].mapped = kernel[k].mapped
Signals(k) == /\ Signal(k) /\ kernel'[k].status = "done"
              /\ kernel'[k].mapped = kernel[k].mapped
Unmaps(k) == Unmap(k) /\ kernel'[k].status = "done" /\ kernel'[k].mapped = FALSE

OneKind(k) == Moves(k) \/ Returns(k) \/ Marks(k) \/ Frees(k) \/ Signals(k) \/ Unmaps(k)

LEMMA StepFacts ==
  ASSUME KernelsOK, NEW k \in DOMAIN kernel, UNCHANGED next_kernel_id, NEW x, NEW y,
         \/ kernel' = [Step(k) EXCEPT ![k].e = x]
         \/ kernel' = [Step(k) EXCEPT ![k].off = y]
  PROVE  /\ OwnStep(k) /\ kernel'[k].status = kernel[k].status
         /\ kernel'[k].mapped = kernel[k].mapped
<1> DEFINE st == Step(k)
           at == IF AtEnd(k) THEN 1 ELSE kernel[k].at + 1
<1>1. st = [kernel EXCEPT ![k].at = at]
  BY DEF Step
<1>2. KernelOK(kernel[k])
  BY DEF KernelsOK
<1>3. at \in Nat \ {0}
  BY <1>2 DEF KernelOK
<1> HIDE DEF at
<1>4. /\ DOMAIN st = DOMAIN kernel /\ \A j \in DOMAIN kernel : j # k => st[j] = kernel[j]
      /\ st[k] = [kernel[k] EXCEPT !.at = at]
  BY <1>1
<1>5. /\ DOMAIN st[k] = KFields /\ st[k].at = at
      /\ st[k].half = kernel[k].half
      /\ st[k].ins = kernel[k].ins /\ st[k].outs = kernel[k].outs
      /\ st[k].status = kernel[k].status /\ st[k].impl = kernel[k].impl
      /\ st[k].work = kernel[k].work /\ st[k].children = kernel[k].children
      /\ st[k].called = kernel[k].called /\ st[k].hier = kernel[k].hier
      /\ st[k].mapped = kernel[k].mapped
  BY <1>2, <1>4 DEF KernelOK, KFields
<1> HIDE DEF st
<1>6. /\ DOMAIN kernel' = DOMAIN kernel
      /\ \A j \in DOMAIN kernel : j # k => kernel'[j] = kernel[j]
      /\ kernel'[k] = [st[k] EXCEPT !.e = x] \/ kernel'[k] = [st[k] EXCEPT !.off = y]
  BY <1>4 DEF st
<1>7. /\ DOMAIN kernel'[k] = KFields /\ kernel'[k].at = at
      /\ kernel'[k].half = kernel[k].half
      /\ kernel'[k].ins = kernel[k].ins /\ kernel'[k].outs = kernel[k].outs
      /\ kernel'[k].status = kernel[k].status /\ kernel'[k].impl = kernel[k].impl
      /\ kernel'[k].work = kernel[k].work /\ kernel'[k].children = kernel[k].children
      /\ kernel'[k].called = kernel[k].called /\ kernel'[k].hier = kernel[k].hier
      /\ kernel'[k].mapped = kernel[k].mapped
  <2>1. CASE kernel'[k] = [st[k] EXCEPT !.e = x]
    BY <1>5, <2>1 DEF KFields
  <2>2. CASE kernel'[k] = [st[k] EXCEPT !.off = y]
    BY <1>5, <2>2 DEF KFields
  <2>3. QED
    BY <1>6, <2>1, <2>2
<1>8. KernelOK(kernel'[k])
  BY ONLY <1>2, <1>3, <1>7 DEF KernelOK
<1>9. QED
  BY <1>6, <1>7, <1>8 DEF OwnStep

(* Some of the fields that say how far it has come change.                 *)
Rest(c, d) ==
  /\ DOMAIN d = KFields
  /\ d.ins = c.ins /\ d.outs = c.outs /\ d.work = c.work /\ d.children = c.children
  /\ d.called = c.called /\ d.hier = c.hier

LEMMA LocalFacts ==
  ASSUME KernelsOK, NEW k \in DOMAIN kernel, UNCHANGED next_kernel_id,
         NEW d, kernel' = [kernel EXCEPT ![k] = d], Rest(kernel[k], d),
         NEW at \in Nat \ {0}, d.at = at, NEW half \in BOOLEAN, d.half = half,
         NEW impl \in BOOLEAN, d.impl = impl, impl <=> d.status = "active"
  PROVE  OwnStep(k) /\ kernel'[k] = d
<1>1. KernelOK(d)
  BY DEF KernelOK, Rest
<1>2. QED
  BY <1>1 DEF OwnStep, Rest

(* SameStreams of a step that leaves the streams alone.                    *)
LEMMA StreamsAlone ==
  ASSUME StreamsOK, UNCHANGED <<stream, next_stream_id>>
  PROVE  SameStreams
BY DEF StreamsOK, StreamOK, SameStreams

(* The work function returns.                                              *)
LEMMA FinishFacts ==
  ASSUME KernelsOK, NEW k \in DOMAIN kernel, UNCHANGED next_kernel_id,
         kernel[k].status = "active", kernel' = Finish(k), SameStreams
  PROVE  OwnStep(k) /\ Returns(k)
<1> DEFINE d == [kernel[k] EXCEPT !.status = "ending", !.impl = FALSE, !.at = 1, !.half = FALSE]
<1>1. kernel' = [kernel EXCEPT ![k] = d]
  BY DEF Finish
<1>2. DOMAIN kernel[k] = KFields
  BY DEF KernelsOK, KernelOK
<1>3. /\ Rest(kernel[k], d) /\ d.at = 1 /\ d.half = FALSE /\ d.impl = FALSE
      /\ d.status = "ending" /\ d.mapped = kernel[k].mapped
  BY <1>2 DEF Rest, KFields
<1> HIDE DEF d
<1>4. 1 \in Nat \ {0} /\ FALSE \in BOOLEAN /\ (FALSE <=> d.status = "active")
  BY <1>3
<1>5. OwnStep(k) /\ kernel'[k] = d
  BY <1>1, <1>3, <1>4, LocalFacts
<1>6. QED
  BY <1>3, <1>5 DEF Returns

LEMMA BlockFacts ==
  ASSUME KernelsOK, StreamsOK, NEW k \in DOMAIN kernel,
         UNCHANGED <<next_kernel_id, next_stream_id>>, kernel[k].status = "active",
         NEW stuck, NEW other, would_block(k, stuck, other)
  PROVE  OwnStep(k) /\ (Moves(k) \/ Returns(k))
<1>1. SameStreams
  BY StreamsAlone DEF would_block
<1>2. ASSUME NEW half \in BOOLEAN, kernel' = [kernel EXCEPT ![k].half = half]
      PROVE  OwnStep(k) /\ Moves(k)
  <2> DEFINE d == [kernel[k] EXCEPT !.half = half]
  <2>1. kernel' = [kernel EXCEPT ![k] = d]
    BY <1>2
  <2>2. KernelOK(kernel[k])
    BY DEF KernelsOK
  <2>3. /\ Rest(kernel[k], d) /\ d.at = kernel[k].at /\ d.half = half
        /\ d.impl = kernel[k].impl
        /\ d.status = kernel[k].status /\ d.mapped = kernel[k].mapped
    BY <2>2 DEF KernelOK, Rest, KFields
  <2> HIDE DEF d
  <2>4. /\ kernel[k].at \in Nat \ {0} /\ kernel[k].impl \in BOOLEAN
        /\ kernel[k].impl <=> d.status = "active"
    BY <2>2, <2>3 DEF KernelOK
  <2>5. OwnStep(k) /\ kernel'[k] = d
    BY <2>1, <2>3, <2>4, LocalFacts
  <2>6. QED
    BY <1>1, <2>3, <2>5 DEF Moves
<1>3. CASE kernel' = Finish(k)
  BY <1>1, <1>3, FinishFacts
<1>4. QED
  BY <1>2, <1>3 DEF would_block

LEMMA PopFacts ==
  ASSUME KernelsOK, StreamsOK, NEW k \in DOMAIN kernel, PopElement(k)
  PROVE  OwnStep(k) /\ OneKind(k)
<1> DEFINE s == kernel[k].ins[Op(k).port]
           x == Tail(stream[s].q)
<1>1. /\ kernel[k].status = "active"
      /\ UNCHANGED <<next_kernel_id, next_stream_id>>
  BY DEF PopElement, Active, Going
<1>2. \/ /\ stream' = [stream EXCEPT ![s].q = Tail(@)]
         /\ kernel' = [Step(k) EXCEPT ![k].e = Head(stream[s].q)]
      \/ would_block(k, stream[s].q = <<>>, stream[s].src)
  BY DEF PopElement
<1>3. ASSUME stream' = [stream EXCEPT ![s].q = Tail(@)],
             kernel' = [Step(k) EXCEPT ![k].e = Head(stream[s].q)]
      PROVE  OwnStep(k) /\ OneKind(k)
  <2>1. /\ OwnStep(k) /\ kernel'[k].status = kernel[k].status
        /\ kernel'[k].mapped = kernel[k].mapped
    BY <1>1, <1>3, StepFacts
  <2>2. stream' = WithQueue(s, x)
    BY <1>3 DEF WithQueue
  <2> HIDE DEF x, s
  <2>3. SameStreams
    BY ONLY <1>1, <2>2, StreamsOK, QueueFacts
  <2>4. QED
    BY <1>1, <2>1, <2>3 DEF Moves, OneKind
<1> HIDE DEF s
<1>4. CASE would_block(k, stream[s].q = <<>>, stream[s].src)
  <2> DEFINE stuck == stream[s].q = <<>>
             other == stream[s].src
  <2>1. would_block(k, stuck, other)
    BY <1>4
  <2> HIDE DEF stuck, other
  <2>2. QED
    BY <1>1, <2>1, BlockFacts DEF OneKind
<1>5. QED
  BY <1>2, <1>3, <1>4 DEF s

LEMMA PushFacts ==
  ASSUME KernelsOK, StreamsOK, NEW k \in DOMAIN kernel, PushElement(k)
  PROVE  OwnStep(k) /\ OneKind(k)
<1> DEFINE s == kernel[k].outs[Op(k).port]
           x == Append(stream[s].q, Element(k))
           stuck == Len(stream[s].q) = Cap
           other == stream[s].dst
<1>1. /\ kernel[k].status = "active"
      /\ UNCHANGED <<next_kernel_id, next_stream_id>>
  BY DEF PushElement, Active, Going
<1>2. \/ /\ \/ kernel' = Finish(k)
            \/ kernel' = [Step(k) EXCEPT ![k].off = NextOffset(k)]
         /\ stream' = WithQueue(s, x)
      \/ would_block(k, stuck, other)
  BY DEF PushElement, WithQueue
<1> HIDE DEF s, x, stuck, other
<1>3. stream' = WithQueue(s, x) => SameStreams
  BY <1>1, QueueFacts
<1>4. CASE kernel' = Finish(k) /\ stream' = WithQueue(s, x)
  BY <1>1, <1>3, <1>4, FinishFacts DEF OneKind
<1>5. CASE kernel' = [Step(k) EXCEPT ![k].off = NextOffset(k)] /\ stream' = WithQueue(s, x)
  <2>1. /\ OwnStep(k) /\ kernel'[k].status = kernel[k].status
        /\ kernel'[k].mapped = kernel[k].mapped
    BY <1>1, <1>5, StepFacts
  <2>2. QED
    BY <1>1, <1>3, <1>5, <2>1 DEF Moves, OneKind
<1>6. CASE would_block(k, stuck, other)
  BY <1>1, <1>6, BlockFacts DEF OneKind
<1>7. QED
  BY <1>2, <1>4, <1>5, <1>6

LEMMA DoneFacts ==
  ASSUME KernelsOK, NEW k \in DOMAIN kernel, done(k)
  PROVE  OwnStep(k) /\ OneKind(k)
<1>1. KernelOK(kernel[k])
  BY DEF KernelsOK
<1>2. /\ kernel[k].at \in Nat \ {0} /\ kernel[k].at + 1 \in Nat \ {0}
      /\ kernel[k].half \in BOOLEAN /\ kernel[k].impl \in BOOLEAN
      /\ kernel[k].impl <=> kernel[k].status = "active"
  BY <1>1 DEF KernelOK
<1>3. CASE MarkEnd(k)
  <2> DEFINE d == [kernel[k] EXCEPT !.half = TRUE]
  <2>1. kernel[k].status = "ending" /\ UNCHANGED next_kernel_id /\ kernel' = [kernel EXCEPT ![k] = d]
    BY <1>3 DEF MarkEnd, Leaving, Going
  <2>2. /\ Rest(kernel[k], d) /\ d.at = kernel[k].at /\ d.half = TRUE
        /\ d.impl = kernel[k].impl
        /\ d.status = "ending" /\ d.mapped = kernel[k].mapped
    BY <1>1, <2>1 DEF KernelOK, Rest, KFields
  <2> HIDE DEF d
  <2>3. kernel[k].impl <=> d.status = "active"
    BY <1>2, <2>1, <2>2
  <2>4. OwnStep(k) /\ kernel'[k] = d
    BY <1>2, <2>1, <2>2, <2>3, LocalFacts
  <2>5. QED
    BY <1>3, <2>2, <2>4 DEF OneKind, Marks
<1>4. CASE FreeEnd(k)
  <2> DEFINE d == [kernel[k] EXCEPT !.at = @ + 1, !.half = FALSE]
  <2>1. kernel[k].status = "ending" /\ UNCHANGED next_kernel_id /\ kernel' = [kernel EXCEPT ![k] = d]
    BY <1>4 DEF FreeEnd, Leaving, Going, NextEnd
  <2>2. /\ Rest(kernel[k], d) /\ d.at = kernel[k].at + 1 /\ d.half = FALSE
        /\ d.impl = kernel[k].impl
        /\ d.status = "ending" /\ d.mapped = kernel[k].mapped
    BY <1>1, <2>1 DEF KernelOK, Rest, KFields
  <2> HIDE DEF d
  <2>3. kernel[k].impl <=> d.status = "active"
    BY <1>2, <2>1, <2>2
  <2>4. OwnStep(k) /\ kernel'[k] = d
    BY <1>2, <2>1, <2>2, <2>3, LocalFacts
  <2>5. QED
    BY <1>4, <2>2, <2>4 DEF OneKind, Frees
<1>5. CASE Signal(k)
  <2> DEFINE d == [kernel[k] EXCEPT !.status = "done"]
  <2>1. kernel[k].status = "ending" /\ UNCHANGED next_kernel_id /\ kernel' = [kernel EXCEPT ![k] = d]
    BY <1>5 DEF Signal, Going
  <2>2. /\ Rest(kernel[k], d) /\ d.at = kernel[k].at /\ d.half = kernel[k].half
        /\ d.impl = kernel[k].impl
        /\ d.status = "done" /\ d.mapped = kernel[k].mapped
    BY <1>1, <2>1 DEF KernelOK, Rest, KFields
  <2> HIDE DEF d
  <2>3. kernel[k].impl <=> d.status = "active"
    BY <1>2, <2>1, <2>2
  <2>4. OwnStep(k) /\ kernel'[k] = d
    BY <1>2, <2>1, <2>2, <2>3, LocalFacts
  <2>5. QED
    BY <1>5, <2>2, <2>4 DEF OneKind, Signals
<1>6. CASE Unmap(k)
  <2> DEFINE d == [kernel[k] EXCEPT !.mapped = FALSE]
  <2>1. kernel[k].status = "done" /\ UNCHANGED next_kernel_id /\ kernel' = [kernel EXCEPT ![k] = d]
    BY <1>6 DEF Unmap, Going
  <2>2. /\ Rest(kernel[k], d) /\ d.at = kernel[k].at /\ d.half = kernel[k].half
        /\ d.impl = kernel[k].impl
        /\ d.status = "done" /\ d.mapped = FALSE
    BY <1>1, <2>1 DEF KernelOK, Rest, KFields
  <2> HIDE DEF d
  <2>3. kernel[k].impl <=> d.status = "active"
    BY <1>2, <2>1, <2>2
  <2>4. OwnStep(k) /\ kernel'[k] = d
    BY <1>2, <2>1, <2>2, <2>3, LocalFacts
  <2>5. QED
    BY <1>6, <2>2, <2>4 DEF OneKind, Unmaps
<1>7. QED
  BY <1>3, <1>4, <1>5, <1>6 DEF done

LEMMA WorkFacts ==
  ASSUME KernelsOK, StreamsOK, NEW k \in DOMAIN kernel, Work(k), ~handleBecomeInst(k)
  PROVE  OwnStep(k) /\ OneKind(k)
BY PopFacts, PushFacts, DoneFacts DEF Work

LEMMA OwnKernels ==
  ASSUME KernelsOK, NEW k \in DOMAIN kernel, OwnStep(k)
  PROVE  KernelsOK'
BY DEF KernelsOK, OwnStep

(* The numbers and the streams of a kernel that is busy.                   *)
LEMMA BusyFacts ==
  ASSUME GraphInv, NEW k \in DOMAIN kernel, kernel[k].status \in Busy
  PROVE  /\ kernel[k].ins \in Seq(DOMAIN stream) /\ kernel[k].outs \in Seq(DOMAIN stream)
         /\ IsInjective(kernel[k].ins) /\ IsInjective(kernel[k].outs)
         /\ kernel[k].at \in Nat \ {0} /\ kernel[k].half \in BOOLEAN
BY DEF GraphInv, Known, KernelsOK, KernelOK

(* A kernel moves an element, returns 1, is done or is forgotten.          *)
LEMMA QuietWork ==
  ASSUME GraphInv, NEW k \in DOMAIN kernel, OwnStep(k),
         Moves(k) \/ Returns(k) \/ Signals(k) \/ Unmaps(k)
  PROVE  GraphInv'
<1>1. KernelsOK'
  BY OwnKernels DEF GraphInv
<1>2. SameStreams
  <2>1. CASE Signals(k) \/ Unmaps(k)
    BY <2>1, StreamsAlone DEF GraphInv, Signals, Unmaps, Signal, Unmap, Going
  <2>2. QED
    BY <2>1 DEF Moves, Returns
<1>3. /\ DOMAIN kernel' = DOMAIN kernel
      /\ \A j \in DOMAIN kernel : j # k => kernel'[j] = kernel[j]
      /\ kernel'[k].ins = kernel[k].ins /\ kernel'[k].outs = kernel[k].outs
  BY DEF OwnStep
<1>4. kernel'[k].status \in Busy => kernel[k].status \in Busy
  BY DEF Moves, Returns, Signals, Unmaps, Busy
<1>5. HeldIns(kernel'[k]) = HeldIns(kernel[k]) /\ HeldOuts(kernel'[k]) = HeldOuts(kernel[k])
  <2>1. CASE Moves(k)
    <3>1. FirstHeld(kernel'[k]) = 1 /\ FirstHeld(kernel[k]) = 1
      BY <2>1 DEF Moves, FirstHeld
    <3>2. QED
      BY <2>1, <3>1, <1>3, SameHeld DEF Moves, Busy
  <2>2. CASE Returns(k)
    <3>1. FirstHeld(kernel'[k]) = 1 /\ FirstHeld(kernel[k]) = 1
      BY <2>2 DEF Returns, FirstHeld
    <3>2. QED
      BY <2>2, <3>1, <1>3, SameHeld DEF Returns, Busy
  <2>3. CASE Signals(k)
    <3>1. /\ kernel[k].status = "ending" /\ kernel[k].at > Len(kernel[k].ins \o kernel[k].outs)
          /\ kernel'[k].status \notin Busy
      BY <2>3 DEF Signals, Signal, Ends, Busy
    <3>2. /\ kernel[k].ins \in Seq(DOMAIN stream) /\ kernel[k].outs \in Seq(DOMAIN stream)
          /\ kernel[k].at \in Nat \ {0} /\ kernel[k].half \in BOOLEAN
      BY <3>1, BusyFacts DEF Busy
    <3>3. HeldIns(kernel[k]) = {} /\ HeldOuts(kernel[k]) = {}
      BY <3>1, <3>2, HeldNone
    <3>4. QED
      BY <3>1, <3>3, HeldSubset
  <2>4. CASE Unmaps(k)
    <3>1. kernel[k].status \notin Busy /\ kernel'[k].status \notin Busy
      BY <2>4 DEF Unmaps, Unmap, Busy
    <3>2. QED
      BY <3>1, HeldSubset
  <2>5. QED
    BY <2>1, <2>2, <2>3, <2>4
<1>6. QED
  BY <1>1, <1>2, <1>3, <1>4, <1>5, Unconnected

(* One stream changes, and no other.                                       *)
LEMMA OneStream ==
  ASSUME StreamsOK, NEW s \in DOMAIN stream, NEW x, StreamOK(x),
         stream' = [stream EXCEPT ![s] = x], next_stream_id' = next_stream_id,
         DOMAIN kernel' = DOMAIN kernel
  PROVE  /\ StreamsOK' /\ DOMAIN stream' = DOMAIN stream
         /\ stream'[s] = x /\ \A t \in DOMAIN stream : t # s => stream'[t] = stream[t]
<1>1. DOMAIN stream = 1 .. Len(stream) /\ Len(stream) \in Nat
  BY DEF StreamsOK
<1>2. stream' = [i \in 1 .. Len(stream) |-> stream'[i]]
  BY <1>1
<1>3. stream' \in Seq(ToSet(stream')) /\ Len(stream') = Len(stream)
  BY <1>1, <1>2, SeqIntro
<1>4. /\ DOMAIN stream' = DOMAIN stream
      /\ stream'[s] = x /\ \A t \in DOMAIN stream : t # s => stream'[t] = stream[t]
  OBVIOUS
<1>5. StreamsOK'
  BY <1>3, <1>4 DEF StreamsOK, StreamOK
<1>6. QED
  BY <1>4, <1>5

(* done: the kernel gives up the end it marks, and nobody else has it.     *)
LEMMA MarkStep ==
  ASSUME GraphInv, NEW k \in DOMAIN kernel, OwnStep(k), Marks(k)
  PROVE  GraphInv'
<1> DEFINE s == Ends(k)[kernel[k].at]
           T == DOMAIN stream
           reads == kernel[k].at <= Len(kernel[k].ins)
<1>1. /\ kernel[k].status = "ending" /\ ~kernel[k].half
      /\ kernel[k].at <= Len(kernel[k].ins \o kernel[k].outs)
      /\ stream' = IF reads THEN [stream EXCEPT ![s].dst = Ended]
                   ELSE [stream EXCEPT ![s].src = Ended]
      /\ next_stream_id' = next_stream_id
      /\ kernel'[k].status = "ending" /\ kernel'[k].half /\ kernel'[k].at = kernel[k].at
  BY DEF Marks, MarkEnd, Leaving, Reads, Ends, Going
<1>2. /\ DOMAIN kernel' = DOMAIN kernel
      /\ \A j \in DOMAIN kernel : j # k => kernel'[j] = kernel[j]
      /\ kernel'[k].ins = kernel[k].ins /\ kernel'[k].outs = kernel[k].outs
  BY DEF OwnStep
<1>3. /\ kernel[k].ins \in Seq(T) /\ kernel[k].outs \in Seq(T)
      /\ IsInjective(kernel[k].ins) /\ IsInjective(kernel[k].outs)
      /\ kernel[k].at \in Nat \ {0} /\ kernel[k].half \in BOOLEAN
  BY <1>1, BusyFacts DEF Busy
<1>4. s = (kernel[k].ins \o kernel[k].outs)[kernel[k].at]
  BY DEF Ends
<1> HIDE DEF s
<1>5. /\ reads => /\ s \in HeldIns(kernel[k])
                  /\ HeldIns(kernel'[k]) = HeldIns(kernel[k]) \ {s}
                  /\ HeldOuts(kernel'[k]) = HeldOuts(kernel[k]) /\ s \in T
      /\ ~reads => /\ s \in HeldOuts(kernel[k])
                   /\ HeldOuts(kernel'[k]) = HeldOuts(kernel[k]) \ {s}
                   /\ HeldIns(kernel'[k]) = HeldIns(kernel[k]) /\ s \in T
  <2> DEFINE c == kernel[k]
             d == kernel'[k]
  <2>1. GivesUp(c, d, s, T)
    BY <1>1, <1>2, <1>3, <1>4 DEF GivesUp
  <2> HIDE DEF c, d, T
  <2>2. /\ c.at <= Len(c.ins) =>
             /\ s \in HeldIns(c) /\ HeldIns(d) = HeldIns(c) \ {s}
             /\ HeldOuts(d) = HeldOuts(c) /\ s \in T
        /\ ~(c.at <= Len(c.ins)) =>
             /\ s \in HeldOuts(c) /\ HeldOuts(d) = HeldOuts(c) \ {s}
             /\ HeldIns(d) = HeldIns(c) /\ s \in T
    BY ONLY <2>1, HeldMark
  <2>3. QED
    BY <2>2 DEF c, d
<1> HIDE DEF reads
<1>6. /\ s \in DOMAIN stream /\ stream[s].si
      /\ reads => stream[s].dst = k
      /\ ~reads => stream[s].src = k
  BY <1>5 DEF GraphInv, Connected
<1> DEFINE x == IF reads THEN [stream[s] EXCEPT !.dst = Ended]
                ELSE [stream[s] EXCEPT !.src = Ended]
<1>7. stream' = [stream EXCEPT ![s] = x]
  BY <1>1
<1>8. StreamOK(stream[s])
  BY <1>6 DEF GraphInv, StreamsOK
<1>9. /\ DOMAIN x = SFields /\ x.si = stream[s].si
      /\ x.dst = IF reads THEN Ended ELSE stream[s].dst
      /\ x.src = IF reads THEN stream[s].src ELSE Ended
  BY <1>8 DEF StreamOK, SFields
<1> HIDE DEF x
<1>10. StreamOK(x)
  <2>1. x.si \in BOOLEAN /\ x.si
    BY <1>6, <1>8, <1>9 DEF StreamOK
  <2>2. QED
    BY <1>8, <1>9, <2>1 DEF StreamOK
<1>11. StreamsOK
  BY DEF GraphInv
<1>12. /\ StreamsOK' /\ DOMAIN stream' = DOMAIN stream
       /\ stream'[s] = x /\ \A t \in DOMAIN stream : t # s => stream'[t] = stream[t]
  BY <1>1, <1>2, <1>6, <1>7, <1>10, <1>11, OneStream
<1>13. KernelsOK'
  BY OwnKernels DEF GraphInv
<1>14. k \notin {Ended} /\ Ended \notin DOMAIN kernel
  BY Specials DEF GraphInv, KernelsOK
<1>15. ASSUME NEW j \in DOMAIN kernel
       PROVE  /\ \A t \in HeldIns(kernel'[j]) :
                   /\ t \in HeldIns(kernel[j]) /\ stream'[t].si = stream[t].si
                   /\ stream'[t].dst = stream[t].dst
              /\ \A t \in HeldOuts(kernel'[j]) :
                   /\ t \in HeldOuts(kernel[j]) /\ stream'[t].si = stream[t].si
                   /\ stream'[t].src = stream[t].src
  <2>1. HeldIns(kernel[j]) \subseteq DOMAIN stream /\ HeldOuts(kernel[j]) \subseteq DOMAIN stream
    BY HeldStreams
  <2>2. /\ HeldIns(kernel'[j]) \subseteq HeldIns(kernel[j])
        /\ HeldOuts(kernel'[j]) \subseteq HeldOuts(kernel[j])
    BY <1>2, <1>5
  <2>3. /\ reads => s \notin HeldIns(kernel'[j])
        /\ ~reads => s \notin HeldOuts(kernel'[j])
    <3>1. CASE j = k
      BY <1>5, <3>1
    <3>2. CASE j # k
      BY <1>2, <1>6, <3>2 DEF GraphInv, Connected
    <3>3. QED
      BY <3>1, <3>2
  <2>4. QED
    BY ONLY <2>1, <2>2, <2>3, <1>9, <1>12
<1>16. ASSUME NEW t \in DOMAIN stream
       PROVE  /\ stream'[t].dst \in DOMAIN kernel =>
                   /\ stream'[t].dst = stream[t].dst
                   /\ t \in HeldIns(kernel[stream[t].dst]) => t \in HeldIns(kernel'[stream[t].dst])
              /\ stream'[t].src \in DOMAIN kernel =>
                   /\ stream'[t].src = stream[t].src
                   /\ t \in HeldOuts(kernel[stream[t].src]) => t \in HeldOuts(kernel'[stream[t].src])
  <2>1. /\ stream'[t].dst \in DOMAIN kernel =>
             stream'[t].dst = stream[t].dst /\ (reads => t # s)
        /\ stream'[t].src \in DOMAIN kernel =>
             stream'[t].src = stream[t].src /\ (~reads => t # s)
    BY ONLY <1>9, <1>12, <1>14, t \in DOMAIN stream
  <2>2. QED
    BY <2>1, <1>2, <1>5
<1>17. \A j \in DOMAIN kernel' : kernel'[j].status \in Busy =>
         /\ kernel[j].status \in Busy
         /\ kernel'[j].ins = kernel[j].ins /\ kernel'[j].outs = kernel[j].outs
  BY <1>1, <1>2 DEF Busy
<1>18. QED
  BY <1>2, <1>12, <1>13, <1>15, <1>16, <1>17, HeldKept

(* done: a stream with two dead ends is held by nobody, and freed.         *)
LEMMA FreeStep ==
  ASSUME GraphInv, NEW k \in DOMAIN kernel, OwnStep(k), Frees(k)
  PROVE  GraphInv'
<1> DEFINE s == Ends(k)[kernel[k].at]
<1>1. /\ kernel[k].status = "ending" /\ kernel[k].half
      /\ kernel[k].at <= Len(kernel[k].ins \o kernel[k].outs)
      /\ \/ /\ stream[s].src = Ended /\ stream[s].dst = Ended
            /\ stream' = [stream EXCEPT ![s] = NewStream]
         \/ stream' = stream
      /\ next_stream_id' = next_stream_id
      /\ kernel'[k].status = "ending" /\ ~kernel'[k].half /\ kernel'[k].at = kernel[k].at + 1
  BY DEF Frees, FreeEnd, Leaving, Ends, Going
<1>2. /\ DOMAIN kernel' = DOMAIN kernel
      /\ \A j \in DOMAIN kernel : j # k => kernel'[j] = kernel[j]
      /\ kernel'[k].ins = kernel[k].ins /\ kernel'[k].outs = kernel[k].outs
  BY DEF OwnStep
<1>3. HeldIns(kernel'[k]) = HeldIns(kernel[k]) /\ HeldOuts(kernel'[k]) = HeldOuts(kernel[k])
  <2>1. FirstHeld(kernel'[k]) = FirstHeld(kernel[k])
    BY <1>1 DEF FirstHeld
  <2>2. QED
    BY <1>1, <1>2, <2>1, SameHeld
<1>4. kernel'[k].status \in Busy => kernel[k].status \in Busy
  BY <1>1
<1>5. KernelsOK'
  BY OwnKernels DEF GraphInv
<1>6. StreamsOK
  BY DEF GraphInv
<1>7. CASE stream' = stream
  <2>1. SameStreams
    BY <1>1, <1>6, <1>7, StreamsAlone
  <2>2. QED
    BY <1>2, <1>3, <1>4, <1>5, <2>1, Unconnected
<1>8. CASE /\ stream[s].src = Ended /\ stream[s].dst = Ended
           /\ stream' = [stream EXCEPT ![s] = NewStream]
  <2>1. s \in DOMAIN stream
    <3>1. kernel[k].ins \in Seq(DOMAIN stream) /\ kernel[k].outs \in Seq(DOMAIN stream)
            /\ kernel[k].at \in Nat \ {0}
      BY <1>1, BusyFacts DEF Busy
    <3> DEFINE f == kernel[k].ins \o kernel[k].outs
               a == kernel[k].at
    <3>2. f \in Seq(DOMAIN stream)
      BY <3>1
    <3>3. a \in Nat \ {0} /\ a <= Len(f) /\ s = f[a]
      BY ONLY <1>1, <3>1 DEF Ends
    <3> HIDE DEF f, a, s
    <3>4. QED
      BY ONLY <3>2, <3>3
  <2> HIDE DEF s
  <2>2. /\ StreamsOK' /\ DOMAIN stream' = DOMAIN stream
        /\ stream'[s] = NewStream /\ \A t \in DOMAIN stream : t # s => stream'[t] = stream[t]
    BY <1>1, <1>2, <1>6, <1>8, <2>1, NewObjects, OneStream
  <2>3. Ended \notin DOMAIN kernel /\ Null \notin DOMAIN kernel
    BY Specials DEF GraphInv, KernelsOK
  <2>4. \A j \in DOMAIN kernel : /\ HeldIns(kernel'[j]) = HeldIns(kernel[j])
                                /\ HeldOuts(kernel'[j]) = HeldOuts(kernel[j])
    BY <1>2, <1>3
  <2>5. ASSUME NEW j \in DOMAIN kernel
        PROVE  /\ \A t \in HeldIns(kernel[j]) : stream'[t] = stream[t]
               /\ \A t \in HeldOuts(kernel[j]) : stream'[t] = stream[t]
    <3>1. s \notin HeldIns(kernel[j]) /\ s \notin HeldOuts(kernel[j])
      BY <1>8, <2>3 DEF GraphInv, Connected
    <3>2. QED
      BY <2>2, <3>1, HeldStreams
  <2>6. \A t \in DOMAIN stream :
          /\ stream'[t].dst \in DOMAIN kernel => stream'[t].dst = stream[t].dst
          /\ stream'[t].src \in DOMAIN kernel => stream'[t].src = stream[t].src
    BY <2>2, <2>3, NewObjects
  <2>7. \A j \in DOMAIN kernel' : kernel'[j].status \in Busy =>
          /\ kernel[j].status \in Busy
          /\ kernel'[j].ins = kernel[j].ins /\ kernel'[j].outs = kernel[j].outs
    BY <1>2, <1>4
  <2>8. QED
    BY <1>2, <1>5, <2>2, <2>4, <2>5, <2>6, <2>7, HeldKept
<1>9. QED
  BY <1>1, <1>7, <1>8

LEMMA WorkStep ==
  ASSUME GraphInv, NEW k \in DOMAIN kernel, Work(k)
  PROVE  GraphInv'
<1>1. CASE handleBecomeInst(k)
  BY <1>1, BecomeConnects, Connects
<1>2. CASE ~handleBecomeInst(k)
  <2>1. OwnStep(k) /\ OneKind(k)
    BY <1>2, WorkFacts DEF GraphInv
  <2>2. QED
    BY <2>1, QuietWork, MarkStep, FreeStep DEF OneKind
<1>3. QED
  BY <1>1, <1>2

(* An empty graph is connected.                                            *)
LEMMA InitGraphInv == EInit => GraphInv
<1> SUFFICES ASSUME EInit PROVE GraphInv
  OBVIOUS
<1>1. /\ next_kernel_id = 0 /\ next_stream_id = 1 /\ kernel = <<>> /\ stream = <<>>
  BY DEF EInit, Init
<1>2. DOMAIN kernel = {} /\ DOMAIN stream = {} /\ Len(stream) = 0
  BY <1>1
<1>3. stream \in Seq(ToSet(stream))
  BY <1>1
<1>4. QED
  BY <1>1, <1>2, <1>3 DEF GraphInv, KernelsOK, StreamsOK, Known, Connected

(* Every instruction, every step of a kernel and every request keeps the   *)
(* graph connected.                                                        *)
LEMMA NextGraphInv == GraphInv /\ ProperCall /\ [ENext]_evars => GraphInv'
<1> SUFFICES ASSUME GraphInv, ProperCall, [ENext]_evars PROVE GraphInv'
  OBVIOUS
<1>1. CASE handleStreamInst
  BY <1>1, AddsStream DEF handleStreamInst
<1>2. CASE handleKernelInst
  BY <1>2, AddsKernel DEF handleKernelInst
<1>3. CASE Add
  BY <1>3, Untouched DEF Add
<1>4. CASE callHierarchical
  BY <1>4, CallHierarchicalStep
<1>5. CASE Leave
  BY <1>5, Untouched DEF Leave
<1>6. CASE callKernel
  BY <1>6, CallConnects, Connects
<1>7. CASE handleWaitInst
  BY <1>7, Untouched DEF handleWaitInst
<1>8. CASE waitChildren
  BY <1>8, Untouched DEF waitChildren
<1>9. CASE findKernel \/ waitKernel
  BY <1>9, Untouched DEF findKernel, waitKernel
<1>10. ASSUME NEW k \in DOMAIN kernel, Work(k) PROVE GraphInv'
  BY <1>10, WorkStep
<1>11. ASSUME NEW r, EchoRequest(r) PROVE GraphInv'
  BY <1>11, Untouched DEF EchoRequest, vars
<1>12. ASSUME NEW r, IncludeModuleRequest(r) PROVE GraphInv'
  BY <1>12, Untouched DEF IncludeModuleRequest, vars
<1>13. ASSUME NEW r, KernelRequest(r) PROVE GraphInv'
  <2>1. CASE r.work \notin fns
    BY <1>13, <2>1, Untouched DEF KernelRequest, vars
  <2>2. CASE r.work \in fns
    BY <1>13, <2>2, AddsKernel DEF KernelRequest
  <2>3. QED
    BY <2>1, <2>2
<1>14. ASSUME NEW r, StreamRequest(r) PROVE GraphInv'
  BY <1>14, AddsStream DEF StreamRequest
<1>15. ASSUME NEW r, CallRequest(r) PROVE GraphInv'
  BY <1>15, Untouched DEF CallRequest
<1>16. ASSUME NEW r, ShmRequest(r) PROVE GraphInv'
  BY <1>16, Untouched DEF ShmRequest, vars
<1>17. ASSUME NEW r, StateRequest(r) PROVE GraphInv'
  BY <1>17, Untouched DEF StateRequest, vars
<1>18. ASSUME NEW r, DotRequest(r) PROVE GraphInv'
  BY <1>18, Untouched DEF DotRequest, vars
<1>19. CASE UNCHANGED evars
  BY <1>19, Untouched DEF evars, vars
<1>20. QED
  BY <1>1, <1>2, <1>3, <1>4, <1>5, <1>6, <1>7, <1>8, <1>9, <1>10, <1>11, <1>12,
     <1>13, <1>14, <1>15, <1>16, <1>17, <1>18, <1>19 DEF ENext, Main, onEvent

(* Whatever the order of instructions, requests and steps of kernels, the  *)
(* kernels and streams of the graph agree, if the program makes proper     *)
(* calls.                                                                  *)
THEOREM GraphInvariance == ESpec /\ []ProperCall => []GraphInv
<1>1. QED
  BY InitGraphInv, NextGraphInv, PTL DEF ESpec

(* Streams and kernels agree on who is connected to whom, while kernels    *)
(* are called, become other kernels and end, step by step on one thread or *)
(* several: no stream is freed under a kernel that holds it, and none      *)
(* names one that has given it up.                                         *)
THEOREM GraphConnected == ESpec /\ []ProperCall => []Connected
<1>1. GraphInv => Connected
  BY DEF GraphInv
<1>2. QED
  BY <1>1, GraphInvariance, PTL
-----------------------------------------------------------------------------
(* Clients of the event interface.                                         *)

(* A request that makes the server give out a handle, and the handle.      *)
Maker(r) == \/ r.type \in {"kernel", "stream", "shm"}
            \/ r.type = "state" /\ r.data_id = 0
Gives(r) == IF r.type = "shm" THEN r.shm ELSE r.id

(* The script of a client that owns its server: it chooses each handle for *)
(* one object, calls kernels with streams, a kernel once, and gives each   *)
(* end of a stream to one kernel, once.                                    *)
Makes(p, h, type) == \E x \in p.requests : x.type = type /\ x.id = h

ScriptHandles(p) ==
  \A r, x \in p.requests : Maker(r) /\ Maker(x) /\ Gives(r) = Gives(x) => r = x

ScriptCall(p, r) ==
  /\ r.ins \in Seq(ToSet(r.ins)) /\ r.outs \in Seq(ToSet(r.outs))
  /\ IsInjective(r.ins) /\ IsInjective(r.outs)
  /\ Makes(p, r.kernel, "kernel")
  /\ \A h \in ToSet(r.ins) \cup ToSet(r.outs) : Makes(p, h, "stream")

Script(p) ==
  /\ p.code = <<>>
  /\ ScriptHandles(p)
  /\ \A r \in p.requests :
       /\ r.type = "kernel" => r.work \notin Hierarchical
       /\ r.type = "call" => ScriptCall(p, r)
  /\ \A r, x \in p.requests : r.type = "call" /\ x.type = "call" /\ r # x =>
       /\ r.kernel # x.kernel
       /\ ToSet(r.ins) \cap ToSet(x.ins) = {} /\ ToSet(r.outs) \cap ToSet(x.outs) = {}

Scripts == \A p \in Programs : p.requests # {} => Script(p)

(* No kernel replaces itself: the client would not know the new one.       *)
NoBecome == \A k \in DOMAIN kernel : ~Active(k, "become")

(* The calls of the client, and what each of them means.                   *)
SentCalls == {x \in sent : x.type = "call"}
Ids(hs) == [i \in DOMAIN hs |-> given[hs[i]].id]
HasStreams(r) == /\ kernel[given[r.kernel].id].ins = Ids(r.ins)
                 /\ kernel[given[r.kernel].id].outs = Ids(r.outs)

(* A handle stands for the object that was made for it, and no two for the *)
(* same one.                                                               *)
HandleOK(h) ==
  /\ h \in DOMAIN addr_map /\ addr_map[h] = given[h]
  /\ given[h].kind \in {"kernel", "stream", "data"}
  /\ given[h].kind = "kernel" => /\ given[h].id \in DOMAIN kernel
                                 /\ kernel[given[h].id].work \notin Hierarchical
  /\ given[h].kind = "stream" => given[h].id \in DOMAIN stream
  /\ \E x \in sent : /\ Maker(x) /\ Gives(x) = h
                     /\ x.type \in {"kernel", "stream"} => given[h].kind = x.type

HandlesDiffer ==
  \A g, h \in DOMAIN given :
    /\ given[g].kind = given[h].kind /\ given[g].id = given[h].id
    /\ given[g].kind # "data"
    => g = h

HandlesOK == (\A h \in DOMAIN given : HandleOK(h)) /\ HandlesDiffer

(* Every call the client has sent names a kernel and streams it was given. *)
CallsOK ==
  /\ Script(prog) /\ sent \subseteq prog.requests
  /\ \A r \in SentCalls :
       /\ r.kernel \in DOMAIN given /\ given[r.kernel].kind = "kernel"
       /\ \A h \in ToSet(r.ins) \cup ToSet(r.outs) :
            h \in DOMAIN given /\ given[h].kind = "stream"

(* The call q is about to be executed on the main thread.                  *)
Pending(q) ==
  /\ Len(frames) = 1 /\ frames = <<Top>> /\ DOMAIN Top = {"code", "env", "parent"}
  /\ Top.code = <<Call(K, Ins(Len(q.ins)), Outs(Len(q.outs)))>>
  /\ Top.env[K] = given[q.kernel].id
  /\ \A i \in DOMAIN q.ins : Top.env[In(i)] = given[q.ins[i]].id
  /\ \A i \in DOMAIN q.outs : Top.env[Out(i)] = given[q.outs[i]].id

(* The main thread has nothing to execute.                                 *)
Idle == \/ frames = <<>>
        \/ Len(frames) = 1 /\ frames = <<Top>> /\ Top.code = <<>>

(* The calls Q are not executed yet; every other is, and nothing else made *)
(* a kernel run.                                                           *)
Executed(Q) ==
  /\ \A r \in SentCalls \ Q : HasStreams(r)
  /\ \A k \in DOMAIN kernel : kernel[k].status # "new" =>
       \E x \in SentCalls \ Q : given[x.kernel].id = k

Phase ==
  \/ Idle /\ Executed({})
  \/ \E q \in SentCalls : Pending(q) /\ Executed({q})

ClientInv == HandlesOK /\ CallsOK /\ Phase

(* Without a client nothing is sent.                                       *)
EventInv == IF prog.requests = {} THEN sent = {} /\ DOMAIN given = {}
            ELSE GraphInv /\ ClientInv
-----------------------------------------------------------------------------
(* Steps that keep what the client has.                                    *)

(* Objects stay; they keep their streams, and none begins to run.          *)
SameWork ==
  /\ DOMAIN kernel \subseteq DOMAIN kernel' /\ DOMAIN stream \subseteq DOMAIN stream'
  /\ \A k \in DOMAIN kernel : kernel'[k].work = kernel[k].work

KeepsObjects ==
  /\ SameWork
  /\ \A k \in DOMAIN kernel :
       kernel'[k].ins = kernel[k].ins /\ kernel'[k].outs = kernel[k].outs
  /\ \A k \in DOMAIN kernel' : kernel'[k].status # "new" =>
       k \in DOMAIN kernel /\ kernel[k].status # "new"

(* The handles of a call, and that they keep their meaning.                *)
CallHandles(r) == {r.kernel} \cup ToSet(r.ins) \cup ToSet(r.outs)

KeepsMeaning ==
  \A x \in SentCalls : \A h \in CallHandles(x) : h \in DOMAIN given' /\ given'[h] = given[h]

LEMMA HandlesKept ==
  ASSUME HandlesOK, SameWork, given' = given, sent \subseteq sent',
         \A h \in DOMAIN given : h \in DOMAIN addr_map' /\ addr_map'[h] = addr_map[h]
  PROVE  HandlesOK'
<1>1. ASSUME NEW h \in DOMAIN given PROVE HandleOK(h)'
  <2>1. HandleOK(h)
    BY DEF HandlesOK
  <2>2. /\ h \in DOMAIN addr_map' /\ addr_map'[h] = given'[h]
        /\ given'[h].kind \in {"kernel", "stream", "data"}
    BY <2>1 DEF HandleOK
  <2>3. given'[h].kind = "kernel" => /\ given'[h].id \in DOMAIN kernel'
                                     /\ kernel'[given'[h].id].work \notin Hierarchical
    BY <2>1 DEF HandleOK, KeepsObjects, SameWork
  <2>4. given'[h].kind = "stream" => given'[h].id \in DOMAIN stream'
    BY <2>1 DEF HandleOK, KeepsObjects, SameWork
  <2>5. \E x \in sent' : /\ Maker(x) /\ Gives(x) = h
                         /\ x.type \in {"kernel", "stream"} => given'[h].kind = x.type
    BY <2>1 DEF HandleOK
  <2>6. QED
    BY <2>2, <2>3, <2>4, <2>5 DEF HandleOK
<1>2. HandlesDiffer'
  BY DEF HandlesOK, HandlesDiffer
<1>3. QED
  BY <1>1, <1>2 DEF HandlesOK

(* The request r gives its handle to the new object o.                     *)
LEMMA HandleAdded ==
  ASSUME HandlesOK, KeepsObjects, sent \subseteq sent', NEW r \in sent', Maker(r),
         NEW o, o.kind \in {"kernel", "stream", "data"},
         given' = Put(given, Gives(r), o),
         \A h \in DOMAIN given : h # Gives(r) =>
           h \in DOMAIN addr_map' /\ addr_map'[h] = addr_map[h],
         Gives(r) \in DOMAIN addr_map', addr_map'[Gives(r)] = o,
         o.kind = "kernel" => /\ o.id \in DOMAIN kernel' /\ o.id \notin DOMAIN kernel
                              /\ kernel'[o.id].work \notin Hierarchical,
         o.kind = "stream" => o.id \in DOMAIN stream' /\ o.id \notin DOMAIN stream,
         r.type \in {"kernel", "stream"} => o.kind = r.type
  PROVE  HandlesOK'
<1> DEFINE g == Gives(r)
<1>1. /\ DOMAIN given' = DOMAIN given \cup {g} /\ given'[g] = o
      /\ \A h \in DOMAIN given : h # g => given'[h] = given[h]
  BY DEF Put
<1> HIDE DEF g
<1>2. HandleOK(g)'
  <2>1. \E x \in sent' : /\ Maker(x) /\ Gives(x) = g
                         /\ x.type \in {"kernel", "stream"} => given'[g].kind = x.type
    BY <1>1 DEF g
  <2>2. QED
    BY <1>1, <2>1 DEF HandleOK, g
<1>3. ASSUME NEW h \in DOMAIN given, h # g PROVE HandleOK(h)'
  <2>1. HandleOK(h) /\ given'[h] = given[h]
    BY <1>1, <1>3 DEF HandlesOK
  <2>2. /\ h \in DOMAIN addr_map' /\ addr_map'[h] = given'[h]
        /\ given'[h].kind \in {"kernel", "stream", "data"}
    BY <1>3, <2>1 DEF HandleOK, g
  <2>3. given'[h].kind = "kernel" => /\ given'[h].id \in DOMAIN kernel'
                                     /\ kernel'[given'[h].id].work \notin Hierarchical
    BY <2>1 DEF HandleOK, KeepsObjects, SameWork
  <2>4. given'[h].kind = "stream" => given'[h].id \in DOMAIN stream'
    BY <2>1 DEF HandleOK, KeepsObjects, SameWork
  <2>5. \E x \in sent' : /\ Maker(x) /\ Gives(x) = h
                         /\ x.type \in {"kernel", "stream"} => given'[h].kind = x.type
    BY <2>1 DEF HandleOK
  <2>6. QED
    BY <2>2, <2>3, <2>4, <2>5 DEF HandleOK
<1>4. HandlesDiffer'
  <2>1. ASSUME NEW h \in DOMAIN given, h # g, given[h].kind = o.kind, given[h].id = o.id,
               o.kind # "data"
        PROVE  FALSE
    BY <2>1 DEF HandlesOK, HandleOK
  <2>2. HandlesDiffer
    BY DEF HandlesOK
  <2>3. QED
    BY ONLY <1>1, <2>1, <2>2 DEF HandlesDiffer
<1>5. QED
  BY <1>1, <1>2, <1>3, <1>4 DEF HandlesOK

LEMMA CallsKept ==
  ASSUME CallsOK, prog' = prog, sent' \subseteq prog.requests, SentCalls' = SentCalls,
         KeepsMeaning
  PROVE  CallsOK'
<1>1. Script(prog)'
  BY DEF CallsOK
<1>2. ASSUME NEW r \in SentCalls
      PROVE  /\ r.kernel \in DOMAIN given' /\ given'[r.kernel].kind = "kernel"
             /\ \A h \in ToSet(r.ins) \cup ToSet(r.outs) :
                  h \in DOMAIN given' /\ given'[h].kind = "stream"
  BY DEF CallsOK, KeepsMeaning, CallHandles
<1>3. QED
  BY <1>1, <1>2 DEF CallsOK

LEMMA ExecutedKept ==
  ASSUME HandlesOK, CallsOK, KeepsObjects, SentCalls' = SentCalls, KeepsMeaning,
         NEW Q, Executed(Q)
  PROVE  Executed(Q)'
<1>1. ASSUME NEW r \in SentCalls
      PROVE  /\ given'[r.kernel] = given[r.kernel] /\ given[r.kernel].id \in DOMAIN kernel
             /\ Ids(r.ins)' = Ids(r.ins) /\ Ids(r.outs)' = Ids(r.outs)
  <2>1. given'[r.kernel] = given[r.kernel]
    BY DEF KeepsMeaning, CallHandles
  <2>2. given[r.kernel].id \in DOMAIN kernel
    BY DEF CallsOK, HandlesOK, HandleOK
  <2>3. /\ \A i \in DOMAIN r.ins : given'[r.ins[i]] = given[r.ins[i]]
        /\ \A i \in DOMAIN r.outs : given'[r.outs[i]] = given[r.outs[i]]
    BY DEF KeepsMeaning, CallHandles, ToSet
  <2>4. QED
    BY <2>1, <2>2, <2>3 DEF Ids
<1>2. ASSUME NEW r \in SentCalls \ Q PROVE HasStreams(r)'
  <2>1. HasStreams(r)
    BY DEF Executed
  <2>2. QED
    BY <1>1, <2>1 DEF HasStreams, KeepsObjects, SameWork
<1>3. ASSUME NEW k \in DOMAIN kernel', kernel'[k].status # "new"
      PROVE  \E x \in SentCalls \ Q : given'[x.kernel].id = k
  <2>1. k \in DOMAIN kernel /\ kernel[k].status # "new"
    BY <1>3 DEF KeepsObjects, SameWork
  <2>2. PICK x \in SentCalls \ Q : given[x.kernel].id = k
    BY <2>1 DEF Executed
  <2>3. QED
    BY <1>1, <2>2
<1>4. QED
  BY <1>2, <1>3 DEF Executed

(* A step that leaves the client and the main thread alone.                *)
LEMMA ClientKept ==
  ASSUME ClientInv, KeepsObjects, UNCHANGED <<prog, frames, client>>
  PROVE  ClientInv'
<1>1. given' = given /\ sent' = sent /\ addr_map' = addr_map /\ prog' = prog /\ frames' = frames
  BY DEF client
<1>2. HandlesOK'
  <2>1. \A h \in DOMAIN given : h \in DOMAIN addr_map' /\ addr_map'[h] = addr_map[h]
    BY <1>1 DEF ClientInv, HandlesOK, HandleOK
  <2>2. QED
    BY <1>1, <2>1, HandlesKept DEF ClientInv, KeepsObjects
<1>3. SentCalls' = SentCalls
  BY <1>1 DEF SentCalls
<1>4. KeepsMeaning
  BY <1>1 DEF KeepsMeaning, CallHandles, ClientInv, CallsOK
<1>5. CallsOK'
  BY <1>1, <1>3, <1>4, CallsKept DEF ClientInv, CallsOK
<1>6. CASE Idle /\ Executed({})
  <2>1. Executed({})'
    BY <1>3, <1>4, <1>6, ExecutedKept DEF ClientInv
  <2>2. Idle'
    BY <1>1, <1>6 DEF Idle, Top
  <2>3. QED
    BY <1>2, <1>5, <2>1, <2>2 DEF ClientInv, Phase
<1>7. ASSUME NEW q \in SentCalls, Pending(q), Executed({q}) PROVE ClientInv'
  <2>1. Executed({q})'
    BY <1>3, <1>4, <1>7, ExecutedKept DEF ClientInv
  <2>2. Pending(q)'
    BY <1>1, <1>7 DEF Pending, Top
  <2>3. QED
    BY <1>2, <1>3, <1>5, <2>1, <2>2 DEF ClientInv, Phase
<1>8. QED
  BY <1>6, <1>7 DEF ClientInv, Phase
-----------------------------------------------------------------------------
(* What the threads and the server do for a client.                        *)

(* A kernel's own step: it goes on, or ends.                               *)
LEMMA WorkKeeps ==
  ASSUME GraphInv, GraphInv', NEW k \in DOMAIN kernel, Work(k), ~handleBecomeInst(k)
  PROVE  KeepsObjects
<1>1. OwnStep(k) /\ OneKind(k)
  BY WorkFacts DEF GraphInv
<1>2. DOMAIN stream = 1 .. next_stream_id - 1 /\ DOMAIN stream' = 1 .. next_stream_id' - 1
  BY StreamDomain DEF GraphInv, StreamsOK
<1>3. next_stream_id' = next_stream_id
  BY DEF Work, PopElement, PushElement, done, MarkEnd, FreeEnd, Signal, Unmap, Going
<1>4. kernel[k].status # "new"
  BY <1>1 DEF OneKind, Moves, Returns, Marks, Frees, Signals, Unmaps, MarkEnd, FreeEnd,
              Leaving, Signal, Unmap
<1>5. QED
  BY <1>1, <1>2, <1>3, <1>4 DEF KeepsObjects, SameWork, OwnStep

(* A new kernel does not run.                                              *)
LEMMA NewKernelKeeps ==
  ASSUME KernelsOK, NEW w, NEW a, kernel' = WithKernel(w, a), UNCHANGED stream
  PROVE  /\ KeepsObjects /\ next_kernel_id \notin DOMAIN kernel
         /\ next_kernel_id \in DOMAIN kernel' /\ kernel'[next_kernel_id].work = w
<1> DEFINE n == next_kernel_id
<1>1. n \in Nat /\ DOMAIN kernel = 0 .. n - 1
  BY DEF KernelsOK
<1>2. /\ DOMAIN kernel' = DOMAIN kernel \cup {n} /\ n \notin DOMAIN kernel
      /\ kernel'[n] = NewKernel(w, a)
      /\ \A j \in DOMAIN kernel : kernel'[j] = kernel[j]
  BY <1>1 DEF WithKernel
<1>3. kernel'[n].status = "new" /\ kernel'[n].work = w
  BY <1>2 DEF NewKernel
<1>4. QED
  BY <1>2, <1>3 DEF KeepsObjects, SameWork

LEMMA NewStreamKeeps ==
  ASSUME StreamsOK, stream' = Append(stream, NewStream), UNCHANGED kernel
  PROVE  /\ KeepsObjects /\ next_stream_id \notin DOMAIN stream
         /\ next_stream_id \in DOMAIN stream'
<1> DEFINE n == next_stream_id
           T == ToSet(stream) \cup {NewStream}
<1>1. n \in Nat \ {0} /\ Len(stream) = n - 1 /\ stream \in Seq(T) /\ NewStream \in T
  BY DEF StreamsOK
<1> HIDE DEF T
<1>2. DOMAIN stream = 1 .. n - 1 /\ DOMAIN stream' = 1 .. n
  BY <1>1
<1>3. QED
  BY <1>1, <1>2 DEF KeepsObjects, SameWork

(* Nothing but the client's map changes.                                   *)
LEMMA SameObjectsKeep ==
  ASSUME UNCHANGED objects
  PROVE  KeepsObjects
BY DEF KeepsObjects, SameWork, objects

LEMMA CallUses ==
  ASSUME NEW x, x.type = "call", ScriptCall(prog, x)
  PROVE  Uses(x) = CallHandles(x)
<1> DEFINE T == ToSet(x.ins) \cup ToSet(x.outs)
<1>1. x.ins \in Seq(ToSet(x.ins)) /\ x.outs \in Seq(ToSet(x.outs))
  BY DEF ScriptCall
<1>2. ToSet(x.ins) \subseteq T /\ ToSet(x.outs) \subseteq T
  OBVIOUS
<1> HIDE DEF T
<1>3. x.ins \in Seq(T) /\ x.outs \in Seq(T)
  BY <1>1, <1>2, SeqElim
<1>4. ToSet(x.ins \o x.outs) = ToSet(x.ins) \cup ToSet(x.outs)
  BY <1>3, ToSetConcat
<1>5. QED
  BY <1>4 DEF Uses, CallHandles

(* The handle a request makes is in no call the client has sent: it may    *)
(* repeat the request only while it has not used the answer.               *)
LEMMA FreshHandle ==
  ASSUME HandlesOK, CallsOK, NEW r \in prog.requests, Send(r), Maker(r)
  PROVE  \A x \in SentCalls : Gives(r) \notin CallHandles(x)
<1> SUFFICES ASSUME NEW x \in SentCalls, Gives(r) \in CallHandles(x) PROVE FALSE
  OBVIOUS
<1>1. x \in sent /\ x.type = "call" /\ x \in prog.requests
  BY DEF SentCalls, CallsOK
<1>2. CASE r \notin sent
  <2>1. Gives(r) \in DOMAIN given
    BY DEF CallsOK, CallHandles
  <2>2. PICK y \in sent : Maker(y) /\ Gives(y) = Gives(r)
    BY <2>1 DEF HandlesOK, HandleOK
  <2>3. y = r
    BY <2>2 DEF CallsOK, Script, ScriptHandles
  <2>4. QED
    BY <1>2, <2>2, <2>3
<1>3. CASE r \in sent
  <2>1. r.type \in {"kernel", "stream"} /\ r.id \notin Uses(x)
    BY <1>1, <1>3 DEF Send
  <2>2. Gives(r) = r.id
    BY <2>1 DEF Gives
  <2>3. ScriptCall(prog, x)
    BY <1>1 DEF CallsOK, Script
  <2>4. QED
    BY <1>1, <2>1, <2>2, <2>3, CallUses
<1>4. QED
  BY <1>2, <1>3

(* A request that is no call: the calls sent before it stay executed.      *)
LEMMA OtherRequest ==
  ASSUME ClientInv, NEW r \in prog.requests, r.type # "call", Send(r),
         KeepsObjects, HandlesOK', KeepsMeaning, UNCHANGED <<prog, frames>>
  PROVE  ClientInv'
<1>1. frames = <<>> /\ sent' = sent \cup {r}
  BY DEF Send
<1>2. SentCalls' = SentCalls
  BY <1>1 DEF SentCalls
<1>3. sent' \subseteq prog.requests
  BY <1>1 DEF ClientInv, CallsOK
<1>4. CallsOK'
  BY <1>2, <1>3, CallsKept DEF ClientInv
<1>5. Executed({})
  <2>1. \A q : ~Pending(q)
    BY <1>1 DEF Pending
  <2>2. QED
    BY <2>1 DEF ClientInv, Phase
<1>6. Executed({})'
  BY <1>2, <1>5, ExecutedKept DEF ClientInv
<1>7. Idle'
  BY <1>1 DEF Idle
<1>8. QED
  BY <1>4, <1>6, <1>7 DEF ClientInv, Phase

LEMMA AnswersNoHandle ==
  ASSUME ClientInv, NEW r \in prog.requests, r.type # "call", Send(r), KeepsObjects,
         given' = given,
         \A h \in DOMAIN given : h \in DOMAIN addr_map' /\ addr_map'[h] = addr_map[h],
         UNCHANGED <<prog, frames>>
  PROVE  ClientInv'
<1>1. HandlesOK'
  BY HandlesKept DEF ClientInv, KeepsObjects, Send
<1>2. KeepsMeaning
  BY DEF KeepsMeaning, CallHandles, ClientInv, CallsOK
<1>3. QED
  BY <1>1, <1>2, OtherRequest

LEMMA AnswersHandle ==
  ASSUME ClientInv, NEW r \in prog.requests, Maker(r), Send(r), KeepsObjects,
         NEW o, o.kind \in {"kernel", "stream", "data"},
         given' = Put(given, Gives(r), o),
         \A h \in DOMAIN given : h # Gives(r) =>
           h \in DOMAIN addr_map' /\ addr_map'[h] = addr_map[h],
         Gives(r) \in DOMAIN addr_map', addr_map'[Gives(r)] = o,
         o.kind = "kernel" => /\ o.id \in DOMAIN kernel' /\ o.id \notin DOMAIN kernel
                              /\ kernel'[o.id].work \notin Hierarchical,
         o.kind = "stream" => o.id \in DOMAIN stream' /\ o.id \notin DOMAIN stream,
         r.type \in {"kernel", "stream"} => o.kind = r.type,
         UNCHANGED <<prog, frames>>
  PROVE  ClientInv'
<1>1. r \in sent' /\ sent \subseteq sent' /\ r.type # "call"
  BY DEF Send, Maker
<1>2. HandlesOK'
  BY <1>1, HandleAdded DEF ClientInv
<1>3. KeepsMeaning
  <2>1. \A x \in SentCalls : Gives(r) \notin CallHandles(x)
    BY FreshHandle DEF ClientInv
  <2>2. \A x \in SentCalls : CallHandles(x) \subseteq DOMAIN given
    BY DEF CallHandles, ClientInv, CallsOK
  <2>3. QED
    BY <2>1, <2>2 DEF KeepsMeaning, Put
<1>4. QED
  BY <1>1, <1>2, <1>3, OtherRequest

LEMMA ClientKernelRequest ==
  ASSUME GraphInv, ClientInv, NEW r \in prog.requests, KernelRequest(r)
  PROVE  ClientInv'
<1>1. r.type = "kernel" /\ Send(r) /\ Maker(r) /\ Gives(r) = r.id
  BY DEF KernelRequest, Maker, Gives
<1>2. CASE r.work \notin fns
  <2>1. UNCHANGED <<vars, addr_map, given>>
    BY <1>2 DEF KernelRequest
  <2>2. KeepsObjects
    BY <2>1, SameObjectsKeep DEF vars
  <2>3. \A h \in DOMAIN given : h \in DOMAIN addr_map
    BY DEF ClientInv, HandlesOK, HandleOK
  <2>4. QED
    BY <1>1, <2>1, <2>2, <2>3, AnswersNoHandle DEF vars
<1>3. CASE r.work \in fns
  <2> DEFINE n == next_kernel_id
             o == Obj("kernel", n)
             mid == Put(addr_map, r.args, Lookup(r.args))
  <2>1. /\ kernel' = WithKernel(r.work, [state |-> Lookup(r.args)])
        /\ addr_map' = Put(mid, r.id, o) /\ given' = Put(given, r.id, o)
        /\ UNCHANGED <<prog, stream, frames>>
    BY <1>3 DEF KernelRequest
  <2>2. /\ KeepsObjects /\ n \notin DOMAIN kernel
        /\ n \in DOMAIN kernel' /\ kernel'[n].work = r.work
    <3> DEFINE a == [state |-> Lookup(r.args)]
    <3>1. KernelsOK /\ kernel' = WithKernel(r.work, a)
      BY <2>1 DEF GraphInv
    <3> HIDE DEF a
    <3>2. QED
      BY <2>1, <3>1, NewKernelKeeps
  <2>3. r.work \notin Hierarchical
    BY <1>1 DEF ClientInv, CallsOK, Script
  <2>4. o.kind = "kernel" /\ o.id = n
    BY DEF Obj
  <2>5. \A h \in DOMAIN given : h \in DOMAIN addr_map
    BY DEF ClientInv, HandlesOK, HandleOK
  <2>6. DOMAIN mid = DOMAIN addr_map \cup {r.args} /\ \A h \in DOMAIN addr_map : mid[h] = addr_map[h]
    BY DEF Put, Lookup
  <2> HIDE DEF mid, o, n
  <2>7. /\ DOMAIN addr_map' = DOMAIN mid \cup {r.id} /\ addr_map'[r.id] = o
        /\ \A h \in DOMAIN mid : h # r.id => addr_map'[h] = mid[h]
    BY ONLY <2>1 DEF Put
  <2>8. \A h \in DOMAIN given : h # r.id => h \in DOMAIN addr_map' /\ addr_map'[h] = addr_map[h]
    BY ONLY <2>5, <2>6, <2>7
  <2>9. QED
    BY <1>1, <2>1, <2>2, <2>3, <2>4, <2>7, <2>8, AnswersHandle
<1>4. QED
  BY <1>2, <1>3

LEMMA ClientStreamRequest ==
  ASSUME GraphInv, ClientInv, NEW r \in prog.requests, StreamRequest(r)
  PROVE  ClientInv'
<1> DEFINE n == next_stream_id
           o == Obj("stream", n)
<1>1. r.type = "stream" /\ Send(r) /\ Maker(r) /\ Gives(r) = r.id
  BY DEF StreamRequest, Maker, Gives
<1>2. /\ stream' = Append(stream, NewStream)
      /\ addr_map' = Put(addr_map, r.id, o) /\ given' = Put(given, r.id, o)
      /\ UNCHANGED <<prog, kernel, frames>>
  BY DEF StreamRequest
<1>3. KeepsObjects /\ n \notin DOMAIN stream /\ n \in DOMAIN stream'
  BY <1>2, NewStreamKeeps DEF GraphInv
<1>4. o.kind = "stream" /\ o.id = n
  BY DEF Obj
<1>5. \A h \in DOMAIN given : h \in DOMAIN addr_map
  BY DEF ClientInv, HandlesOK, HandleOK
<1> HIDE DEF o, n
<1>6. /\ DOMAIN addr_map' = DOMAIN addr_map \cup {r.id} /\ addr_map'[r.id] = o
      /\ \A h \in DOMAIN addr_map : h # r.id => addr_map'[h] = addr_map[h]
  BY ONLY <1>2 DEF Put
<1>7. QED
  BY <1>1, <1>2, <1>3, <1>4, <1>5, <1>6, AnswersHandle

LEMMA ClientShmRequest ==
  ASSUME ClientInv, NEW r \in prog.requests, ShmRequest(r)
  PROVE  ClientInv'
<1> DEFINE o == Obj("data", r.shm)
<1>1. r.type = "shm" /\ Send(r) /\ Maker(r) /\ Gives(r) = r.shm
  BY DEF ShmRequest, Maker, Gives
<1>2. /\ addr_map' = Put(addr_map, r.shm, o) /\ given' = Put(given, r.shm, o)
      /\ UNCHANGED vars
  BY DEF ShmRequest
<1>3. KeepsObjects
  BY <1>2, SameObjectsKeep DEF vars
<1>4. o.kind = "data"
  BY DEF Obj
<1>5. \A h \in DOMAIN given : h \in DOMAIN addr_map
  BY DEF ClientInv, HandlesOK, HandleOK
<1> HIDE DEF o
<1>6. /\ DOMAIN addr_map' = DOMAIN addr_map \cup {r.shm} /\ addr_map'[r.shm] = o
      /\ \A h \in DOMAIN addr_map : h # r.shm => addr_map'[h] = addr_map[h]
  BY ONLY <1>2 DEF Put
<1>7. UNCHANGED <<prog, frames>>
  BY <1>2 DEF vars
<1>8. QED
  BY <1>1, <1>2, <1>3, <1>4, <1>5, <1>6, <1>7, AnswersHandle

LEMMA ClientStateRequest ==
  ASSUME ClientInv, NEW r \in prog.requests, StateRequest(r)
  PROVE  ClientInv'
<1>1. r.type = "state" /\ Send(r) /\ UNCHANGED vars
  BY DEF StateRequest
<1>2. KeepsObjects /\ UNCHANGED <<prog, frames>>
  BY <1>1, SameObjectsKeep DEF vars
<1>3. \A h \in DOMAIN given : h \in DOMAIN addr_map
  BY DEF ClientInv, HandlesOK, HandleOK
<1>4. CASE r.data_id # 0
  <2>1. addr_map' = Put(addr_map, r.data_id, Lookup(r.data_id)) /\ given' = given
    BY <1>4 DEF StateRequest
  <2>2. \A h \in DOMAIN given : h \in DOMAIN addr_map' /\ addr_map'[h] = addr_map[h]
    BY <1>3, <2>1 DEF Put, Lookup
  <2>3. QED
    BY <1>1, <1>2, <2>1, <2>2, AnswersNoHandle
<1>5. CASE r.data_id = 0
  <2> DEFINE o == Obj("data", r.id)
  <2>1. addr_map' = Put(addr_map, r.id, o) /\ given' = Put(given, r.id, o)
    BY <1>5 DEF StateRequest
  <2>2. Maker(r) /\ Gives(r) = r.id
    BY <1>1, <1>5 DEF Maker, Gives
  <2>3. o.kind = "data"
    BY DEF Obj
  <2> HIDE DEF o
  <2>4. /\ DOMAIN addr_map' = DOMAIN addr_map \cup {r.id} /\ addr_map'[r.id] = o
        /\ \A h \in DOMAIN addr_map : h # r.id => addr_map'[h] = addr_map[h]
    BY ONLY <2>1 DEF Put
  <2>5. QED
    BY <1>1, <1>2, <1>3, <2>1, <2>2, <2>3, <2>4, AnswersHandle
<1>6. QED
  BY <1>4, <1>5

(* Requests that are answered from what there is.                          *)
LEMMA ClientQuery ==
  ASSUME ClientInv, NEW r \in prog.requests,
         EchoRequest(r) \/ IncludeModuleRequest(r) \/ DotRequest(r)
  PROVE  ClientInv'
<1>1. r.type # "call" /\ Send(r) /\ UNCHANGED <<vars, addr_map, given>>
  BY DEF EchoRequest, IncludeModuleRequest, DotRequest
<1>2. KeepsObjects /\ UNCHANGED <<prog, frames>>
  BY <1>1, SameObjectsKeep DEF vars
<1>3. \A h \in DOMAIN given : h \in DOMAIN addr_map
  BY DEF ClientInv, HandlesOK, HandleOK
<1>4. QED
  BY <1>1, <1>2, <1>3, AnswersNoHandle
-----------------------------------------------------------------------------
(* A CallRequest, and the call it makes the main thread execute.           *)

LEMMA IdsOf ==
  \A hs : \A s \in ToSet(Ids(hs)) : \E h \in ToSet(hs) : s = given[h].id
BY DEF Ids, ToSet

(* The null pointer that ends each list of streams comes after the last.   *)
LEMMA StreamsAreIds ==
  ASSUME HandlesOK, NEW hs, hs \in Seq(ToSet(hs)), ToSet(hs) \subseteq DOMAIN given
  PROVE  Streams(hs) = Ids(hs) /\ Len(Streams(hs)) = Len(hs)
<1> DEFINE os == [i \in DOMAIN hs |-> Lookup(hs[i])]
           nulls == {i \in DOMAIN hs : os[i] = NullObj}
           n == Min(nulls \cup {Len(hs) + 1})
<1>1. Len(hs) \in Nat /\ DOMAIN hs = 1 .. Len(hs)
  OBVIOUS
<1>2. ASSUME NEW i \in DOMAIN hs PROVE os[i] = given[hs[i]] /\ os[i] # NullObj
  <2>1. hs[i] \in DOMAIN given
    BY DEF ToSet
  <2>2. HandleOK(hs[i])
    BY <2>1 DEF HandlesOK
  <2>3. os[i] = given[hs[i]]
    BY <2>2 DEF Lookup, HandleOK
  <2>4. given[hs[i]].kind # "null"
    BY <2>2 DEF HandleOK
  <2>5. NullObj.kind = "null"
    BY DEF NullObj, Obj
  <2>6. QED
    BY <2>3, <2>4, <2>5
<1>3. nulls = {}
  BY <1>2
<1>4. n = Len(hs) + 1
  <2>1. nulls \cup {Len(hs) + 1} = {Len(hs) + 1}
    BY <1>3
  <2>2. Min({Len(hs) + 1}) = Len(hs) + 1
    BY <1>1 DEF Min
  <2>3. QED
    BY <2>1, <2>2
<1>5. Streams(hs) = [i \in 1 .. n - 1 |-> os[i].id]
  BY DEF Streams
<1> HIDE DEF n, nulls, os
<1>6. n - 1 = Len(hs)
  BY <1>1, <1>4
<1>7. Streams(hs) = [i \in DOMAIN hs |-> os[i].id]
  BY <1>1, <1>5, <1>6
<1>8. Streams(hs) = Ids(hs)
  BY <1>2, <1>7 DEF Ids
<1>9. Len(Streams(hs)) = Len(hs)
  <2>1. Streams(hs) = [i \in 1 .. Len(hs) |-> os[i].id]
    BY <1>1, <1>7
  <2>2. QED
    BY <1>1, <2>1
<1>10. QED
  BY <1>8, <1>9

(* The client calls kernels and streams.                                   *)
LEMMA CallMeans ==
  ASSUME HandlesOK, CallsOK, NEW r \in prog.requests, r.type = "call",
         CallHandles(r) \subseteq DOMAIN given
  PROVE  /\ given[r.kernel].kind = "kernel"
         /\ \A h \in ToSet(r.ins) \cup ToSet(r.outs) : given[h].kind = "stream"
<1>1. ScriptCall(prog, r)
  BY DEF CallsOK, Script
<1>2. ASSUME NEW h \in DOMAIN given, NEW type \in {"kernel", "stream"}, Makes(prog, h, type)
      PROVE  given[h].kind = type
  <2>1. PICK y \in prog.requests : y.type = type /\ y.id = h
    BY <1>2 DEF Makes
  <2>2. PICK x \in sent : /\ Maker(x) /\ Gives(x) = h
                          /\ x.type \in {"kernel", "stream"} => given[h].kind = x.type
    BY DEF HandlesOK, HandleOK
  <2>3. Maker(y) /\ Gives(y) = h
    BY <2>1 DEF Maker, Gives
  <2>4. x = y
    BY <2>2, <2>3 DEF CallsOK, Script, ScriptHandles
  <2>5. QED
    BY <2>1, <2>2, <2>4
<1>3. QED
  BY <1>1, <1>2 DEF ScriptCall, CallHandles

(* The frame of a CallRequest binds the kernel and its streams.            *)
CallEnv(x, ins, outs) ==
  [n \in {K} \cup {In(i) : i \in DOMAIN ins} \cup {Out(i) : i \in DOMAIN outs} |->
     CASE n = K -> x [] n[1] = "in" -> ins[n[2]] [] OTHER -> outs[n[2]]]

LEMMA CallEnvFacts ==
  ASSUME NEW x, NEW ins, NEW outs
  PROVE  /\ CallEnv(x, ins, outs)[K] = x
         /\ \A i \in DOMAIN ins : CallEnv(x, ins, outs)[In(i)] = ins[i]
         /\ \A i \in DOMAIN outs : CallEnv(x, ins, outs)[Out(i)] = outs[i]
<1>1. \A i : /\ In(i) # K /\ Out(i) # K /\ In(i)[1] = "in" /\ Out(i)[1] # "in"
             /\ In(i)[2] = i /\ Out(i)[2] = i /\ K[1] # "in"
  BY DEF In, Out, K
<1> DEFINE dom == {K} \cup {In(i) : i \in DOMAIN ins} \cup {Out(i) : i \in DOMAIN outs}
           value(n) == CASE n = K -> x [] n[1] = "in" -> ins[n[2]] [] OTHER -> outs[n[2]]
<1>2. CallEnv(x, ins, outs) = [n \in dom |-> value(n)]
  BY DEF CallEnv
<1>3. K \in dom /\ value(K) = x
  BY <1>1
<1>4. ASSUME NEW i \in DOMAIN ins PROVE In(i) \in dom /\ value(In(i)) = ins[i]
  BY <1>1
<1>5. ASSUME NEW i \in DOMAIN outs PROVE Out(i) \in dom /\ value(Out(i)) = outs[i]
  BY <1>1
<1> HIDE DEF dom, value
<1>6. QED
  BY <1>2, <1>3, <1>4, <1>5

LEMMA ClientCallRequest ==
  ASSUME ClientInv, NEW r \in prog.requests, CallRequest(r)
  PROVE  ClientInv'
<1>1. r.type = "call" /\ Send(r) /\ UNCHANGED <<prog, objects, addr_map, given>>
  BY DEF CallRequest
<1>2. frames = <<>> /\ r \notin sent /\ sent' = sent \cup {r} /\ Uses(r) \subseteq DOMAIN given
  BY <1>1 DEF Send, Knows
<1>3. HandlesOK /\ CallsOK
  BY DEF ClientInv
<1>4. ScriptCall(prog, r)
  BY <1>1, <1>3 DEF CallsOK, Script
<1>5. CallHandles(r) \subseteq DOMAIN given
  BY <1>1, <1>2, <1>4, CallUses
<1>6. /\ given[r.kernel].kind = "kernel"
      /\ \A h \in ToSet(r.ins) \cup ToSet(r.outs) : given[h].kind = "stream"
  BY <1>1, <1>3, <1>5, CallMeans
<1>7. KeepsObjects
  BY <1>1, SameObjectsKeep
<1>8. HandlesOK'
  <2>1. \A h \in DOMAIN given : h \in DOMAIN addr_map' /\ addr_map'[h] = addr_map[h]
    BY <1>1, <1>3 DEF HandlesOK, HandleOK
  <2>2. QED
    BY <1>1, <1>2, <1>3, <1>7, <2>1, HandlesKept DEF KeepsObjects
<1>9. SentCalls' = SentCalls \cup {r} /\ r \notin SentCalls
  BY <1>1, <1>2 DEF SentCalls
<1>10. CallsOK'
  <2>1. Script(prog)' /\ sent' \subseteq prog'.requests
    BY <1>1, <1>2, <1>3 DEF CallsOK
  <2>2. \A x \in SentCalls' :
          /\ x.kernel \in DOMAIN given' /\ given'[x.kernel].kind = "kernel"
          /\ \A h \in ToSet(x.ins) \cup ToSet(x.outs) :
               h \in DOMAIN given' /\ given'[h].kind = "stream"
    BY <1>1, <1>3, <1>5, <1>6, <1>9 DEF CallsOK, CallHandles
  <2>3. QED
    BY <2>1, <2>2 DEF CallsOK
<1>11. Executed({r})'
  <2>1. \A q : ~Pending(q)
    BY <1>2 DEF Pending
  <2>2. Executed({})
    BY <2>1 DEF ClientInv, Phase
  <2>3. SentCalls' \ {r} = SentCalls \ {}
    BY <1>9
  <2>4. \A x : HasStreams(x)' <=> HasStreams(x)
    BY <1>1 DEF HasStreams, Ids, objects
  <2>5. QED
    BY <1>1, <2>2, <2>3, <2>4 DEF Executed, objects
<1>12. Pending(r)'
  <2> DEFINE ins == Streams(r.ins)
             outs == Streams(r.outs)
             x == Lookup(r.kernel).id
             code == <<Call(K, Ins(Len(ins)), Outs(Len(outs)))>>
             f == Frame(code, CallEnv(x, ins, outs), hier_parent)
  <2>1. frames' = <<f>>
    BY DEF CallRequest, CallEnv
  <2>2. /\ r.ins \in Seq(ToSet(r.ins)) /\ ToSet(r.ins) \subseteq DOMAIN given
        /\ r.outs \in Seq(ToSet(r.outs)) /\ ToSet(r.outs) \subseteq DOMAIN given
    BY <1>4, <1>5 DEF ScriptCall, CallHandles
  <2>3. ins = Ids(r.ins) /\ Len(ins) = Len(r.ins)
    BY <1>3, <2>2, StreamsAreIds
  <2>4. outs = Ids(r.outs) /\ Len(outs) = Len(r.outs)
    BY <1>3, <2>2, StreamsAreIds
  <2>5. x = given[r.kernel].id
    BY <1>3, <1>5 DEF CallHandles, HandlesOK, HandleOK, Lookup
  <2> HIDE DEF ins, outs, x
  <2>6. /\ CallEnv(x, ins, outs)[K] = x
        /\ \A i \in DOMAIN ins : CallEnv(x, ins, outs)[In(i)] = ins[i]
        /\ \A i \in DOMAIN outs : CallEnv(x, ins, outs)[Out(i)] = outs[i]
    BY CallEnvFacts
  <2>7. f.env = CallEnv(x, ins, outs) /\ f.code = code /\ DOMAIN f = {"code", "env", "parent"}
    BY DEF Frame
  <2>8. code = <<Call(K, Ins(Len(r.ins)), Outs(Len(r.outs)))>>
    BY <2>3, <2>4
  <2> HIDE DEF f, code
  <2>9. Len(frames') = 1 /\ frames' = <<frames'[1]>> /\ frames'[1] = f
    BY <2>1
  <2>10. /\ DOMAIN ins = DOMAIN r.ins /\ \A i \in DOMAIN r.ins : ins[i] = given[r.ins[i]].id
         /\ DOMAIN outs = DOMAIN r.outs /\ \A i \in DOMAIN r.outs : outs[i] = given[r.outs[i]].id
    BY <2>3, <2>4 DEF Ids
  <2>11. given' = given
    BY <1>1
  <2>12. QED
    BY ONLY <2>5, <2>6, <2>7, <2>8, <2>9, <2>10, <2>11 DEF Pending, Top
<1>13. QED
  BY <1>8, <1>9, <1>10, <1>11, <1>12 DEF ClientInv, Phase

(* What a pending call is about to do.                                     *)
LEMMA PendingCall ==
  ASSUME ClientInv, NEW q \in SentCalls, Pending(q)
  PROVE  /\ Top.code # <<>> /\ Inst.op = "call" /\ Callee = given[q.kernel].id
         /\ Value(Inst.ins) = Ids(q.ins) /\ Value(Inst.outs) = Ids(q.outs)
<1>1. q \in prog.requests /\ q.type = "call"
  BY DEF SentCalls, ClientInv, CallsOK
<1>2. ScriptCall(prog, q)
  BY <1>1 DEF ClientInv, CallsOK, Script
<1>3. DOMAIN q.ins = 1 .. Len(q.ins) /\ DOMAIN q.outs = 1 .. Len(q.outs)
  BY <1>2 DEF ScriptCall
<1> DEFINE c == Call(K, Ins(Len(q.ins)), Outs(Len(q.outs)))
<1>4. /\ c.op = "call" /\ c.var = K
      /\ c.ins = Ins(Len(q.ins)) /\ c.outs = Outs(Len(q.outs))
  BY DEF Call
<1>5. Top.code = <<c>>
  BY DEF Pending
<1> HIDE DEF c
<1>6. Top.code # <<>> /\ Inst = c
  BY <1>5 DEF Inst
<1>7. Callee = given[q.kernel].id
  BY <1>4, <1>6 DEF Callee, Pending
<1>8. Value(Inst.ins) = Ids(q.ins)
  <2>1. Value(c.ins) = [i \in 1 .. Len(q.ins) |-> Top.env[In(i)]]
    BY <1>4 DEF Value, Ins
  <2>2. QED
    BY <1>3, <1>6, <2>1 DEF Ids, Pending
<1>9. Value(Inst.outs) = Ids(q.outs)
  <2>1. Value(c.outs) = [i \in 1 .. Len(q.outs) |-> Top.env[Out(i)]]
    BY <1>4 DEF Value, Outs
  <2>2. QED
    BY <1>3, <1>6, <2>1 DEF Ids, Pending
<1>10. QED
  BY <1>4, <1>6, <1>7, <1>8, <1>9

(* While a call is pending its kernel is new, and no busy kernel has its   *)
(* streams: each of those belongs to another call of the client.           *)
LEMMA PendingFree ==
  ASSUME GraphInv, ClientInv, NEW q \in SentCalls, Executed({q})
  PROVE  /\ given[q.kernel].id \in DOMAIN kernel
         /\ kernel[given[q.kernel].id].status = "new"
         /\ kernel[given[q.kernel].id].work \notin Hierarchical
         /\ FreeEnds(Ids(q.ins), Ids(q.outs))
<1>1. q \in prog.requests /\ q.type = "call" /\ HandlesDiffer
  BY DEF SentCalls, ClientInv, CallsOK, HandlesOK
<1>2. /\ q.kernel \in DOMAIN given /\ given[q.kernel].kind = "kernel"
      /\ \A h \in ToSet(q.ins) \cup ToSet(q.outs) :
           h \in DOMAIN given /\ given[h].kind = "stream"
  BY DEF ClientInv, CallsOK
<1>3. /\ given[q.kernel].id \in DOMAIN kernel
      /\ kernel[given[q.kernel].id].work \notin Hierarchical
      /\ \A h \in ToSet(q.ins) \cup ToSet(q.outs) : given[h].id \in DOMAIN stream
  BY <1>2 DEF ClientInv, HandlesOK, HandleOK
<1>4. \A x \in SentCalls \ {q} :
        /\ x.kernel # q.kernel
        /\ ToSet(x.ins) \cap ToSet(q.ins) = {} /\ ToSet(x.outs) \cap ToSet(q.outs) = {}
        /\ x.kernel \in DOMAIN given /\ given[x.kernel].kind = "kernel"
        /\ \A h \in ToSet(x.ins) \cup ToSet(x.outs) :
             h \in DOMAIN given /\ given[h].kind = "stream"
  BY <1>1 DEF SentCalls, ClientInv, CallsOK, Script
<1>5. kernel[given[q.kernel].id].status = "new"
  <2>1. \A x \in SentCalls \ {q} : given[x.kernel].id # given[q.kernel].id
    BY <1>1, <1>2, <1>4 DEF HandlesDiffer
  <2>2. QED
    BY <1>3, <2>1 DEF Executed
<1>6. /\ Ids(q.ins) \in Seq(DOMAIN stream) /\ Ids(q.outs) \in Seq(DOMAIN stream)
      /\ \A s \in ToSet(Ids(q.ins)) : \E h \in ToSet(q.ins) : s = given[h].id
      /\ \A s \in ToSet(Ids(q.outs)) : \E h \in ToSet(q.outs) : s = given[h].id
      /\ IsInjective(Ids(q.ins)) /\ IsInjective(Ids(q.outs))
  <2>1. ScriptCall(prog, q)
    BY <1>1 DEF ClientInv, CallsOK, Script
  <2>2. /\ DOMAIN q.ins = 1 .. Len(q.ins) /\ Len(q.ins) \in Nat
        /\ DOMAIN q.outs = 1 .. Len(q.outs) /\ Len(q.outs) \in Nat
    BY <2>1 DEF ScriptCall
  <2>3. /\ \A i \in DOMAIN q.ins : q.ins[i] \in ToSet(q.ins)
        /\ \A i \in DOMAIN q.outs : q.outs[i] \in ToSet(q.outs)
    BY DEF ToSet
  <2>4. /\ Ids(q.ins) \in [1 .. Len(q.ins) -> DOMAIN stream]
        /\ Ids(q.outs) \in [1 .. Len(q.outs) -> DOMAIN stream]
    BY <1>3, <2>2, <2>3 DEF Ids
  <2>5. Ids(q.ins) \in Seq(DOMAIN stream) /\ Ids(q.outs) \in Seq(DOMAIN stream)
    BY <2>2, <2>4
  <2>6. \A h, i \in ToSet(q.ins) \cup ToSet(q.outs) : given[h].id = given[i].id => h = i
    BY <1>1, <1>2 DEF HandlesDiffer
  <2>7. /\ \A i, j \in DOMAIN q.ins : q.ins[i] = q.ins[j] => i = j
        /\ \A i, j \in DOMAIN q.outs : q.outs[i] = q.outs[j] => i = j
    BY <2>1 DEF ScriptCall, IsInjective
  <2>8. IsInjective(Ids(q.ins)) /\ IsInjective(Ids(q.outs))
    BY ONLY <2>3, <2>6, <2>7 DEF Ids, IsInjective
  <2>9. QED
    BY <2>3, <2>5, <2>8, IdsOf
<1>7. ASSUME NEW j \in DOMAIN kernel, kernel[j].status \in Busy
      PROVE  /\ ToSet(kernel[j].ins) \cap ToSet(Ids(q.ins)) = {}
             /\ ToSet(kernel[j].outs) \cap ToSet(Ids(q.outs)) = {}
  <2>1. PICK x \in SentCalls \ {q} : given[x.kernel].id = j
    BY <1>7 DEF Executed, Busy
  <2>2. kernel[j].ins = Ids(x.ins) /\ kernel[j].outs = Ids(x.outs)
    BY <2>1 DEF Executed, HasStreams
  <2>3. /\ \A s \in ToSet(Ids(x.ins)) : \E h \in ToSet(x.ins) : s = given[h].id
        /\ \A s \in ToSet(Ids(x.outs)) : \E h \in ToSet(x.outs) : s = given[h].id
    BY IdsOf
  <2>4. /\ \A g \in ToSet(x.ins), h \in ToSet(q.ins) : given[g].id # given[h].id
        /\ \A g \in ToSet(x.outs), h \in ToSet(q.outs) : given[g].id # given[h].id
    BY <1>1, <1>2, <1>4 DEF HandlesDiffer
  <2>5. QED
    BY ONLY <1>6, <2>2, <2>3, <2>4
<1>8. QED
  BY <1>3, <1>5, <1>6, <1>7 DEF FreeEnds

(* The clients of the event interface make proper calls.                   *)
LEMMA ClientProper ==
  ASSUME GraphInv, ClientInv
  PROVE  ProperCall
<1> SUFFICES ASSUME Ready("call")
             PROVE  /\ Callee \in DOMAIN kernel /\ kernel[Callee].status \notin Busy
                    /\ kernel[Callee].work \notin Hierarchical =>
                         FreeEnds(Value(Inst.ins), Value(Inst.outs))
  BY DEF ProperCall
<1>1. ~Idle
  BY DEF Ready, Idle
<1>2. PICK q \in SentCalls : Pending(q) /\ Executed({q})
  BY <1>1 DEF ClientInv, Phase
<1>3. QED
  BY <1>2, PendingCall, PendingFree DEF Busy

LEMMA ClientCallKernel ==
  ASSUME GraphInv, ClientInv, callKernel, UNCHANGED client
  PROVE  ClientInv'
<1> DEFINE k == Callee
           ins == Value(Inst.ins)
           outs == Value(Inst.outs)
           called == Called(k, ins, outs)
<1>1. Ready("call") /\ ~Idle
  BY DEF callKernel, Ready, Idle
<1>2. PICK q \in SentCalls : Pending(q) /\ Executed({q})
  BY <1>1 DEF ClientInv, Phase
<1>3. k = given[q.kernel].id /\ ins = Ids(q.ins) /\ outs = Ids(q.outs)
  BY <1>2, PendingCall
<1>4. k \in DOMAIN kernel /\ kernel[k].status = "new" /\ FreeEnds(ins, outs)
  BY <1>2, <1>3, PendingFree
<1>5. KernelsOK /\ StreamsOK /\ ~kernel[k].impl
  BY <1>4 DEF GraphInv, KernelsOK, KernelOK
<1>6. /\ kernel' = Start(called, k) /\ stream' = allocateStreams(stream, k, ins, outs)
      /\ frames' = Advance(Top.env) /\ prog' = prog
  BY <1>5 DEF callKernel, Callee
<1>7. given' = given /\ sent' = sent /\ addr_map' = addr_map
  BY DEF client
<1> HIDE DEF k, ins, outs
<1>8. /\ DOMAIN called = DOMAIN kernel /\ Objects(called)
      /\ called[k].ins = ins /\ called[k].outs = outs
      /\ \A j \in DOMAIN kernel :
           Alike(called[j], kernel[j]) /\ (j # k => SameEnds(called[j], kernel[j]))
  BY <1>4, <1>5, CalledFacts
<1> HIDE DEF called
<1>9. /\ DOMAIN kernel' = DOMAIN called
      /\ kernel'[k].work = called[k].work /\ SameEnds(kernel'[k], called[k])
      /\ \A j \in DOMAIN called : j # k => kernel'[j] = called[j]
  <2>1. k \in DOMAIN called /\ Objects(called) /\ kernel' = Start(called, k)
    BY <1>4, <1>6, <1>8
  <2>2. QED
    BY ONLY <2>1, StartFacts
<1>10. /\ DOMAIN kernel' = DOMAIN kernel /\ kernel'[k].ins = ins /\ kernel'[k].outs = outs
       /\ \A j \in DOMAIN kernel :
            /\ kernel'[j].work = kernel[j].work
            /\ j # k => /\ kernel'[j].ins = kernel[j].ins /\ kernel'[j].outs = kernel[j].outs
                        /\ kernel'[j].status = kernel[j].status
  BY ONLY <1>4, <1>8, <1>9 DEF Alike, SameEnds
<1>11. DOMAIN stream' = DOMAIN stream
  <2> DEFINE ss == allocateStreams(stream, k, ins, outs)
  <2>1. ins \in Seq(DOMAIN stream) /\ outs \in Seq(DOMAIN stream)
    BY ONLY <1>4 DEF FreeEnds
  <2>2. ss = allocateStreams(stream, k, ins, outs) /\ stream' = ss
    BY ONLY <1>6
  <2> HIDE DEF ss
  <2>3. DOMAIN ss = DOMAIN stream
    BY ONLY <1>5, <2>1, <2>2, AllocateFacts
  <2>4. QED
    BY ONLY <2>2, <2>3
<1>12. HandlesOK'
  <2>1. SameWork
    BY ONLY <1>10, <1>11 DEF SameWork
  <2>2. \A h \in DOMAIN given : h \in DOMAIN addr_map' /\ addr_map'[h] = addr_map[h]
    BY <1>7 DEF ClientInv, HandlesOK, HandleOK
  <2>3. QED
    BY <1>7, <2>1, <2>2, HandlesKept DEF ClientInv
<1>13. SentCalls' = SentCalls
  BY <1>7 DEF SentCalls
<1>14. CallsOK'
  <2>1. KeepsMeaning
    BY <1>7 DEF KeepsMeaning, CallHandles, ClientInv, CallsOK
  <2>2. QED
    BY <1>6, <1>7, <1>13, <2>1, CallsKept DEF ClientInv, CallsOK
<1>15. Executed({})'
  <2>1. ASSUME NEW r \in SentCalls PROVE HasStreams(r)'
    <3>1. Ids(r.ins)' = Ids(r.ins) /\ Ids(r.outs)' = Ids(r.outs)
      BY <1>7 DEF Ids
    <3>2. CASE r = q
      BY <1>3, <1>7, <1>10, <3>1, <3>2 DEF HasStreams
    <3>3. CASE r # q
      <4>1. HasStreams(r)
        BY <1>2, <3>3 DEF Executed
      <4>2. given[r.kernel].id \in DOMAIN kernel
        BY DEF ClientInv, CallsOK, HandlesOK, HandleOK
      <4>3. given[r.kernel].id # k
        <5>1. r.kernel # q.kernel
          BY <3>3 DEF SentCalls, ClientInv, CallsOK, Script
        <5>2. /\ r.kernel \in DOMAIN given /\ given[r.kernel].kind = "kernel"
              /\ q.kernel \in DOMAIN given /\ given[q.kernel].kind = "kernel"
          BY DEF ClientInv, CallsOK
        <5>3. QED
          BY <1>3, <5>1, <5>2 DEF ClientInv, HandlesOK, HandlesDiffer
      <4>4. QED
        BY <1>7, <1>10, <3>1, <4>1, <4>2, <4>3 DEF HasStreams
    <3>4. QED
      BY <3>2, <3>3
  <2>2. ASSUME NEW j \in DOMAIN kernel, kernel'[j].status # "new"
        PROVE  \E x \in SentCalls : given[x.kernel].id = j
    <3>1. CASE j = k
      BY <1>3, <3>1
    <3>2. CASE j # k
      BY <1>2, <1>10, <2>2, <3>2 DEF Executed
    <3>3. QED
      BY <3>1, <3>2
  <2>3. QED
    BY <1>7, <1>10, <1>13, <2>1, <2>2 DEF Executed
<1>16. Idle'
  <2> DEFINE f == [Top EXCEPT !.code = Tail(@), !.env = Top.env]
             c == Call(K, Ins(Len(q.ins)), Outs(Len(q.outs)))
  <2>1. Top.code = <<c>> /\ DOMAIN Top = {"code", "env", "parent"} /\ frames = <<Top>>
    BY <1>2 DEF Pending
  <2> HIDE DEF c
  <2>2. f.code = <<>>
    BY <2>1
  <2>3. Tail(frames) = <<>>
    BY <2>1
  <2>4. frames' = <<f>> \o Tail(frames)
    BY <1>6 DEF Advance
  <2> HIDE DEF f
  <2>5. frames' = <<f>>
    <3>1. <<f>> \in Seq({f}) /\ <<f>> \o <<>> = <<f>>
      OBVIOUS
    <3>2. QED
      BY <2>3, <2>4, <3>1
  <2>6. QED
    BY <2>2, <2>5 DEF Idle, Top
<1>17. QED
  BY <1>12, <1>14, <1>15, <1>16 DEF ClientInv, Phase

(* The main thread returns to the server's loop.                           *)
LEMMA ClientLeave ==
  ASSUME ClientInv, Leave, UNCHANGED client
  PROVE  ClientInv'
<1>1. /\ frames # <<>> /\ Top.code = <<>> /\ frames' = Tail(frames)
      /\ UNCHANGED <<prog, objects>>
  BY DEF Leave
<1>2. given' = given /\ sent' = sent /\ addr_map' = addr_map
  BY DEF client
<1>3. Idle /\ Executed({})
  <2>1. \A q : ~Pending(q)
    BY <1>1 DEF Pending
  <2>2. QED
    BY <2>1 DEF ClientInv, Phase
<1>4. frames' = <<>>
  BY <1>1, <1>3 DEF Idle
<1>5. KeepsObjects /\ SameWork
  BY <1>1, SameObjectsKeep DEF KeepsObjects
<1>6. SentCalls' = SentCalls
  BY <1>2 DEF SentCalls
<1>7. KeepsMeaning
  BY <1>2 DEF KeepsMeaning, CallHandles, ClientInv, CallsOK
<1>8. HandlesOK'
  <2>1. \A h \in DOMAIN given : h \in DOMAIN addr_map' /\ addr_map'[h] = addr_map[h]
    BY <1>2 DEF ClientInv, HandlesOK, HandleOK
  <2>2. QED
    BY <1>2, <1>5, <2>1, HandlesKept DEF ClientInv
<1>9. CallsOK'
  BY <1>1, <1>2, <1>6, <1>7, CallsKept DEF ClientInv, CallsOK
<1>10. Executed({})'
  BY <1>3, <1>5, <1>6, <1>7, ExecutedKept DEF ClientInv
<1>11. QED
  BY <1>4, <1>8, <1>9, <1>10 DEF ClientInv, Phase, Idle

(* The main thread of the server executes calls and nothing else.          *)
LEMMA ClientMain ==
  ASSUME GraphInv, ClientInv, Main, UNCHANGED client
  PROVE  ClientInv'
<1>1. ASSUME NEW op, Ready(op)
      PROVE  op = "call" /\ kernel[Callee].work \notin Hierarchical
  <2>1. ~Idle /\ Inst.op = op
    BY <1>1 DEF Ready, Idle, Inst
  <2>2. PICK q \in SentCalls : Pending(q) /\ Executed({q})
    BY <2>1 DEF ClientInv, Phase
  <2>3. QED
    BY <2>1, <2>2, PendingCall, PendingFree
<1>2. callKernel \/ Leave \/ waitChildren \/ findKernel \/ waitKernel
  <2>1. ~Ready("stream") /\ ~Ready("kernel") /\ ~Ready("add") /\ ~Ready("wait")
    BY <1>1
  <2>2. ~callHierarchical
    BY <1>1 DEF callHierarchical, Callee
  <2>3. QED
    BY <2>1, <2>2 DEF Main, handleStreamInst, handleKernelInst, Add, handleWaitInst
<1>3. CASE waitChildren \/ findKernel \/ waitKernel
  <2>1. UNCHANGED <<prog, objects, frames>>
    BY <1>3 DEF waitChildren, findKernel, waitKernel
  <2>2. QED
    BY <2>1, SameObjectsKeep, ClientKept
<1>4. QED
  BY <1>2, <1>3, ClientCallKernel, ClientLeave
-----------------------------------------------------------------------------
LEMMA InitEventInv == Scripts /\ EInit => EventInv
<1> SUFFICES ASSUME Scripts, EInit PROVE EventInv
  OBVIOUS
<1>1. sent = {} /\ given = <<>> /\ addr_map = <<>> /\ kernel = <<>> /\ prog \in Programs
  BY DEF EInit, Init
<1>2. DOMAIN given = {} /\ DOMAIN kernel = {} /\ SentCalls = {}
  BY <1>1 DEF SentCalls
<1>3. CASE prog.requests # {}
  <2>1. Script(prog)
    BY <1>1, <1>3 DEF Scripts
  <2>2. HandlesOK /\ CallsOK /\ Executed({})
    BY <1>1, <1>2, <2>1 DEF HandlesOK, HandlesDiffer, CallsOK, Executed
  <2>3. Idle
    <3> DEFINE f == Frame(<<>>, <<>>, Null)
    <3>1. frames = <<f>> /\ f.code = <<>>
      BY <2>1 DEF EInit, Init, Script, Frame
    <3> HIDE DEF f
    <3>2. QED
      BY <3>1 DEF Idle, Top
  <2>4. QED
    BY <1>3, <2>2, <2>3, InitGraphInv DEF EventInv, ClientInv, Phase
<1>4. QED
  BY <1>1, <1>2, <1>3 DEF EventInv

(* The program is chosen at the start.                                     *)
LEMMA SameProgram == [ENext]_evars => prog' = prog
<1> SUFFICES ASSUME [ENext]_evars PROVE prog' = prog
  OBVIOUS
<1>1. ASSUME NEW r, \/ EchoRequest(r) \/ IncludeModuleRequest(r) \/ KernelRequest(r)
                    \/ StreamRequest(r) \/ CallRequest(r) \/ ShmRequest(r)
                    \/ StateRequest(r) \/ DotRequest(r)
      PROVE  prog' = prog
  BY <1>1 DEF EchoRequest, IncludeModuleRequest, KernelRequest, StreamRequest,
              CallRequest, ShmRequest, StateRequest, DotRequest, vars
<1>2. Main => prog' = prog
  <2>1. handleStreamInst \/ handleKernelInst \/ Add => prog' = prog
    BY ONLY TRUE DEF handleStreamInst, handleKernelInst, Add
  <2>2. callHierarchical \/ Leave => prog' = prog
    BY ONLY TRUE DEF callHierarchical, Leave
  <2>3. callKernel => prog' = prog
    BY ONLY TRUE DEF callKernel
  <2>4. handleWaitInst \/ waitChildren \/ findKernel \/ waitKernel => prog' = prog
    BY ONLY TRUE DEF handleWaitInst, waitChildren, findKernel, waitKernel
  <2>5. QED
    BY ONLY <2>1, <2>2, <2>3, <2>4 DEF Main
<1>3. ASSUME NEW k PROVE Work(k) => prog' = prog
  <2>1. PopElement(k) \/ PushElement(k) => prog' = prog
    BY ONLY TRUE DEF PopElement, PushElement, Going
  <2>2. handleBecomeInst(k) => prog' = prog
    BY ONLY TRUE DEF handleBecomeInst
  <2>3. done(k) => prog' = prog
    BY ONLY TRUE DEF done, MarkEnd, FreeEnd, Signal, Unmap, Going
  <2>4. QED
    BY ONLY <2>1, <2>2, <2>3 DEF Work
<1>4. UNCHANGED evars => prog' = prog
  BY DEF evars, vars
<1>5. QED
  BY <1>1, <1>2, <1>3, <1>4 DEF ENext, onEvent

LEMMA NextEventInv == EventInv /\ NoBecome /\ [ENext]_evars => EventInv'
<1> SUFFICES ASSUME EventInv, NoBecome, [ENext]_evars PROVE EventInv'
  OBVIOUS
<1>1. prog' = prog
  BY SameProgram
<1>2. CASE prog.requests = {}
  <2>1. UNCHANGED client
    BY <1>2 DEF ENext, onEvent, evars
  <2>2. QED
    BY <1>1, <1>2, <2>1 DEF EventInv, client
<1>3. CASE prog.requests # {}
  <2>1. GraphInv /\ ClientInv
    BY <1>3 DEF EventInv
  <2>2. GraphInv'
    BY <2>1, ClientProper, NextGraphInv
  <2>3. ASSUME Main, UNCHANGED client PROVE ClientInv'
    BY <2>1, <2>3, ClientMain
  <2>4. ASSUME NEW k \in DOMAIN kernel, Work(k), UNCHANGED client PROVE ClientInv'
    <3>1. ~handleBecomeInst(k)
      BY <2>4 DEF NoBecome, handleBecomeInst
    <3>2. KeepsObjects
      BY <2>1, <2>2, <2>4, <3>1, WorkKeeps
    <3>3. UNCHANGED <<prog, frames>>
      <4>1. PopElement(k) \/ PushElement(k) => UNCHANGED <<prog, frames>>
        BY ONLY TRUE DEF PopElement, PushElement, Going
      <4>2. done(k) => UNCHANGED <<prog, frames>>
        BY ONLY TRUE DEF done, MarkEnd, FreeEnd, Signal, Unmap, Going
      <4>3. QED
        BY <2>4, <3>1, <4>1, <4>2 DEF Work
    <3>4. QED
      BY <2>1, <2>4, <3>2, <3>3, ClientKept
  <2>5. ASSUME NEW r \in prog.requests,
               \/ EchoRequest(r) \/ IncludeModuleRequest(r) \/ KernelRequest(r)
               \/ StreamRequest(r) \/ CallRequest(r) \/ ShmRequest(r)
               \/ StateRequest(r) \/ DotRequest(r)
        PROVE  ClientInv'
    BY <2>1, <2>5, ClientQuery, ClientKernelRequest, ClientStreamRequest,
       ClientCallRequest, ClientShmRequest, ClientStateRequest
  <2>6. ASSUME UNCHANGED evars PROVE ClientInv'
    <3>1. UNCHANGED <<objects, prog, frames, client>>
      BY <2>6 DEF evars, vars
    <3>2. QED
      BY <2>1, <3>1, SameObjectsKeep, ClientKept
  <2>7. ClientInv'
    BY <2>3, <2>4, <2>5, <2>6 DEF ENext, onEvent
  <2>8. QED
    BY <1>1, <1>3, <2>2, <2>7 DEF EventInv
<1>4. QED
  BY <1>2, <1>3

(* Whatever the order in which a client sends its requests and repeats     *)
(* them while kernels run, the server has one object for each handle, and  *)
(* the kernels that run are those the client called.                       *)
THEOREM EventInvariance == Scripts /\ ESpec /\ []NoBecome => []EventInv
<1>1. QED
  BY InitEventInv, NextEventInv, PTL DEF ESpec

(* Every handle of a client keeps its meaning, and each call the client    *)
(* sent has connected the kernel to the streams it named, in their order   *)
(* (CallRequest, addr_map).                                                *)
THEOREM ClientCalls == Scripts /\ ESpec /\ []NoBecome => []CallsConnect
<1>1. EventInv => CallsConnect
  <2> SUFFICES ASSUME EventInv PROVE CallsConnect
    OBVIOUS
  <2>1. CASE prog.requests = {}
    BY <2>1 DEF EventInv, CallsConnect
  <2>2. CASE prog.requests # {}
    <3>1. ClientInv
      BY <2>2 DEF EventInv
    <3>2. \A h \in DOMAIN given : Lookup(h) = given[h]
      BY <3>1 DEF ClientInv, HandlesOK, HandleOK, Lookup
    <3>3. ASSUME frames = <<>>, NEW r \in SentCalls PROVE HasStreams(r)
      <4>1. \A q : ~Pending(q)
        BY <3>3 DEF Pending
      <4>2. QED
        BY <3>1, <4>1 DEF ClientInv, Phase, Executed
    <3>4. QED
      BY <3>2, <3>3 DEF CallsConnect, SentCalls, HasStreams, Ids
  <2>3. QED
    BY <2>1, <2>2
<1>2. QED
  BY <1>1, EventInvariance, PTL

(* What a client builds: proper calls, and a connected graph.              *)
ClientGraph == prog.requests # {} => ProperCall /\ Connected

(* The graph that a client builds with requests is connected: the script   *)
(* alone, and no assumption on the order of calls, makes its calls proper. *)
THEOREM ClientConnected == Scripts /\ ESpec /\ []NoBecome => []ClientGraph
<1>1. EventInv => ClientGraph
  BY ClientProper DEF EventInv, ClientGraph, GraphInv
<1>2. QED
  BY <1>1, EventInvariance, PTL
-----------------------------------------------------------------------------
(* Waiting for a whole graph.                                              *)

(* What a frame's code has still to wait for, and what the program's main  *)
(* function, the last frame of the stack, has.                             *)
FrameWaits(f) ==
  {f.env[f.code[i].var] : i \in {j \in DOMAIN f.code :
                                   f.code[j].op = "wait" /\ f.code[j].var \in DOMAIN f.env}}
Promised == IF frames = <<>> THEN {} ELSE FrameWaits(frames[Len(frames)])

(* A program that waits for what it calls: it calls each kernel once, only *)
(* main waits, for kernels it has called and for every one of them, and    *)
(* main assigns to each variable once (SSA).  What is called under a       *)
(* hierarchical kernel, nobody names in a wait.                            *)
ProperWait ==
  /\ Ready("call") => /\ ~kernel[Callee].called
                      /\ hier_parent = Null => Callee \in Promised
  /\ Ready("wait") => Len(frames) = 1 /\ Callee \in DOMAIN kernel /\ kernel[Callee].called
  /\ (Ready("stream") \/ Ready("kernel")) /\ Len(frames) = 1 => Inst.var \notin DOMAIN Top.env

Disciplined == ProperCall /\ ProperWait /\ NoBecome

MainCode == \A p \in Programs : p.code \in Seq(ToSet(p.code))

(* A set that has the children of its hierarchical kernels, and what the   *)
(* main thread waits or will wait for.                                     *)
Closed(S) == \A h \in DOMAIN kernel :
               h \in S /\ kernel[h].hier => ToSet(kernel[h].children) \subseteq S
Covering(S) == Closed(S) /\ ToSet(waiting) \subseteq S /\ Promised \subseteq S

(* Every such set has the kernels whose work functions are on the stack,   *)
(* and the kernels that are called and not done: waitKernel reaches them   *)
(* through children.                                                       *)
OnStack == ({hier_parent} \cup {frames[i].parent : i \in DOMAIN frames}) \ {Null}
Undone(k) == kernel[k].called /\ ~kernel[k].hier /\ kernel[k].status # "done"
Reached == \A S : Covering(S) =>
             OnStack \subseteq S /\ \A k \in DOMAIN kernel : Undone(k) => k \in S

StackKernels == \A h \in OnStack : h \in DOMAIN kernel /\ kernel[h].called /\ kernel[h].hier

StackOK ==
  /\ frames \in Seq(ToSet(frames))
  /\ \A i \in DOMAIN frames : DOMAIN frames[i] = {"code", "env", "parent"}
  /\ frames # <<>> =>
       frames[Len(frames)].code \in Seq(ToSet(frames[Len(frames)].code))
  /\ Len(frames) <= 1 => hier_parent = Null
  /\ \A i \in DOMAIN frames : i >= Len(frames) - 1 => frames[i].parent = Null
  /\ StackKernels
  /\ waiting \in Seq(DOMAIN kernel) /\ (waiting # <<>> => Len(frames) <= 1)

ChildrenOK ==
  \A k \in DOMAIN kernel :
    /\ kernel[k].called \in BOOLEAN /\ kernel[k].hier \in BOOLEAN /\ kernel[k].mapped \in BOOLEAN
    /\ kernel[k].children \in Seq(DOMAIN kernel)
    /\ kernel[k].hier => kernel[k].called
    /\ prog.force # "koro" /\ kernel[k].called /\ ~kernel[k].hier => kernel[k].mapped

WaitInv == aborted \/ (StackOK /\ ChildrenOK /\ Reached)
-----------------------------------------------------------------------------
(* Steps that call nothing.                                                *)

(* Only SKIRKoroSched forgets a kernel.                                    *)
Remembers(k) == /\ kernel[k].mapped \in BOOLEAN => kernel'[k].mapped \in BOOLEAN
                /\ prog.force # "koro" => kernel'[k].mapped = kernel[k].mapped

SameTree ==
  /\ DOMAIN kernel \subseteq DOMAIN kernel' /\ UNCHANGED prog
  /\ \A k \in DOMAIN kernel :
       /\ kernel'[k].called = kernel[k].called /\ kernel'[k].hier = kernel[k].hier
       /\ Remembers(k) /\ kernel'[k].children = kernel[k].children
       /\ kernel[k].status = "done" => kernel'[k].status = "done"
  /\ \A k \in DOMAIN kernel' \ DOMAIN kernel :
       /\ kernel'[k].called \in BOOLEAN /\ kernel'[k].hier \in BOOLEAN
       /\ kernel'[k].mapped \in BOOLEAN /\ ~kernel'[k].called /\ ~kernel'[k].hier
       /\ kernel'[k].children = <<>>

LEMMA SameTreeFacts ==
  ASSUME ChildrenOK, SameTree
  PROVE  /\ ChildrenOK'
         /\ \A S : Closed(S)' => Closed(S)
         /\ \A k \in DOMAIN kernel' : Undone(k)' => k \in DOMAIN kernel /\ Undone(k)
<1>1. ASSUME NEW k \in DOMAIN kernel'
      PROVE  /\ kernel'[k].called \in BOOLEAN /\ kernel'[k].hier \in BOOLEAN
             /\ kernel'[k].mapped \in BOOLEAN
             /\ kernel'[k].children \in Seq(DOMAIN kernel')
             /\ kernel'[k].hier => kernel'[k].called
             /\ prog'.force # "koro" /\ kernel'[k].called /\ ~kernel'[k].hier => kernel'[k].mapped
  <2>1. CASE k \in DOMAIN kernel
    <3>1. kernel[k].children \in Seq(DOMAIN kernel) /\ DOMAIN kernel \subseteq DOMAIN kernel'
      BY <2>1 DEF ChildrenOK, SameTree
    <3>2. kernel[k].children \in Seq(DOMAIN kernel')
      BY ONLY <3>1, SeqElim
    <3>3. QED
      BY <2>1, <3>2 DEF ChildrenOK, SameTree, Remembers
  <2>2. CASE k \notin DOMAIN kernel
    <3>1. /\ kernel'[k].called \in BOOLEAN /\ kernel'[k].hier \in BOOLEAN
          /\ kernel'[k].mapped \in BOOLEAN /\ ~kernel'[k].called /\ ~kernel'[k].hier
          /\ kernel'[k].children = <<>>
      BY <2>2 DEF SameTree
    <3>2. kernel'[k].children \in Seq(DOMAIN kernel')
      BY <3>1
    <3>3. QED
      BY ONLY <3>1, <3>2
  <2>3. QED
    BY <2>1, <2>2
<1>2. ChildrenOK'
  BY <1>1 DEF ChildrenOK
<1>3. ASSUME NEW S, Closed(S)' PROVE Closed(S)
  BY <1>3 DEF Closed, SameTree
<1>4. ASSUME NEW k \in DOMAIN kernel', Undone(k)' PROVE k \in DOMAIN kernel /\ Undone(k)
  BY <1>4 DEF Undone, SameTree
<1>5. QED
  BY <1>2, <1>3, <1>4

LEMMA SameObjectsTree ==
  ASSUME UNCHANGED <<prog, objects>>
  PROVE  SameTree
BY DEF objects, SameTree, Remembers

LEMMA NewKernelTree ==
  ASSUME KernelsOK, NEW w, NEW a, kernel' = WithKernel(w, a), UNCHANGED prog
  PROVE  SameTree
<1> DEFINE n == next_kernel_id
<1>1. n \in Nat /\ DOMAIN kernel = 0 .. n - 1
  BY DEF KernelsOK
<1>2. /\ DOMAIN kernel' = DOMAIN kernel \cup {n} /\ kernel'[n] = NewKernel(w, a)
      /\ \A j \in DOMAIN kernel : kernel'[j] = kernel[j]
  BY <1>1 DEF WithKernel
<1>3. /\ kernel'[n].called = FALSE /\ kernel'[n].hier = FALSE /\ kernel'[n].mapped = FALSE
      /\ kernel'[n].children = <<>>
  BY <1>2 DEF NewKernel
<1>4. /\ kernel'[n].called \in BOOLEAN /\ kernel'[n].hier \in BOOLEAN
      /\ kernel'[n].mapped \in BOOLEAN /\ ~kernel'[n].called /\ ~kernel'[n].hier
  BY <1>3
<1>5. QED
  BY <1>2, <1>3, <1>4 DEF SameTree, Remembers

LEMMA WorkTree ==
  ASSUME KernelsOK, StreamsOK, NEW k \in DOMAIN kernel, Work(k), ~handleBecomeInst(k)
  PROVE  /\ SameTree /\ UNCHANGED <<frames, hier_parent, waiting>>
         /\ \A j \in DOMAIN kernel : kernel'[j].status \in Busy => kernel[j].status \in Busy
<1>1. OwnStep(k) /\ OneKind(k)
  BY WorkFacts
<1>2. UNCHANGED <<prog, frames, hier_parent, waiting>>
  <2>1. PopElement(k) \/ PushElement(k) => UNCHANGED <<prog, frames, hier_parent, waiting>>
    BY ONLY TRUE DEF PopElement, PushElement, Going
  <2>2. done(k) => UNCHANGED <<prog, frames, hier_parent, waiting>>
    BY ONLY TRUE DEF done, MarkEnd, FreeEnd, Signal, Unmap, Going
  <2>3. QED
    BY <2>1, <2>2 DEF Work
<1>3. /\ Remembers(k) /\ (kernel[k].status = "done" => kernel'[k].status = "done")
      /\ kernel'[k].status \in Busy => kernel[k].status \in Busy
  <2>1. CASE Moves(k) \/ Returns(k)
    BY <2>1 DEF Moves, Returns, Remembers, Busy
  <2>2. CASE Marks(k) \/ Frees(k)
    BY <2>2 DEF Marks, Frees, MarkEnd, FreeEnd, Leaving, Remembers, Busy
  <2>3. CASE Signals(k)
    BY <2>3 DEF Signals, Signal, Remembers, Busy
  <2>4. CASE Unmaps(k)
    BY <2>4 DEF Unmaps, Unmap, Remembers, Busy
  <2>5. QED
    BY <1>1, <2>1, <2>2, <2>3, <2>4 DEF OneKind
<1>4. ASSUME NEW j \in DOMAIN kernel, j # k PROVE kernel'[j] = kernel[j]
  BY <1>1, <1>4 DEF OwnStep
<1>5. SameTree
  BY <1>1, <1>2, <1>3, <1>4 DEF OwnStep, SameTree, Remembers
<1>6. QED
  BY <1>2, <1>3, <1>4, <1>5

(* No new promise is needed, and the stack does not grow.                  *)
LEMMA ReachedKept ==
  ASSUME ChildrenOK, Reached, SameTree, OnStack' \subseteq OnStack,
         ToSet(waiting) \cup Promised \subseteq ToSet(waiting') \cup Promised'
  PROVE  ChildrenOK' /\ Reached'
<1>1. /\ ChildrenOK' /\ \A S : Closed(S)' => Closed(S)
      /\ \A k \in DOMAIN kernel' : Undone(k)' => k \in DOMAIN kernel /\ Undone(k)
  BY SameTreeFacts
<1>2. ASSUME NEW S, Covering(S)'
      PROVE  OnStack' \subseteq S /\ \A k \in DOMAIN kernel' : Undone(k)' => k \in S
  <2>1. Closed(S)' /\ ToSet(waiting') \subseteq S /\ Promised' \subseteq S
    BY <1>2 DEF Covering
  <2>2. Covering(S)
    BY <1>1, <2>1 DEF Covering
  <2>3. OnStack \subseteq S /\ \A k \in DOMAIN kernel : Undone(k) => k \in S
    BY <2>2 DEF Reached
  <2>4. QED
    BY <1>1, <2>3
<1>3. QED
  BY <1>1, <1>2 DEF Reached

(* The kernels on the stack stay what they are.                            *)
LEMMA StackKernelsKept ==
  ASSUME StackKernels, SameTree, OnStack' \subseteq OnStack
  PROVE  StackKernels'
BY DEF StackKernels, SameTree
-----------------------------------------------------------------------------
(* The stack.                                                              *)

LEMMA AdvanceFacts ==
  ASSUME StackOK, frames # <<>>, NEW env, NEW a, a = Advance(env)
  PROVE  /\ a \in Seq(ToSet(a)) /\ Len(a) = Len(frames) /\ Len(frames) \in Nat \ {0}
         /\ DOMAIN a = DOMAIN frames /\ DOMAIN frames = 1 .. Len(frames)
         /\ DOMAIN a[1] = {"code", "env", "parent"} /\ a[1].parent = Top.parent
         /\ a[1].code = Tail(Top.code) /\ a[1].env = env
         /\ \A i \in DOMAIN frames : i # 1 => a[i] = frames[i]
<1> DEFINE f == [Top EXCEPT !.code = Tail(@), !.env = env]
           n == Len(frames)
           T == ToSet(frames) \cup {f}
<1>1. a = <<f>> \o Tail(frames)
  BY DEF Advance
<1>2. n \in Nat \ {0} /\ DOMAIN frames = 1 .. n
  BY DEF StackOK
<1>3. DOMAIN Top = {"code", "env", "parent"}
  BY <1>2 DEF StackOK, Top
<1>4. /\ DOMAIN f = {"code", "env", "parent"} /\ f.parent = Top.parent
      /\ f.code = Tail(Top.code) /\ f.env = env
  BY <1>3
<1> HIDE DEF f
<1>5. frames \in Seq(T) /\ <<f>> \in Seq(T) /\ Len(<<f>>) = 1
  BY DEF StackOK
<1> HIDE DEF T
<1>6. /\ Tail(frames) \in Seq(T) /\ Len(Tail(frames)) = n - 1
      /\ \A i \in 1 .. n - 1 : Tail(frames)[i] = frames[i + 1]
  BY <1>2, <1>5
<1>7. a \in Seq(T) /\ Len(a) = n
  BY <1>1, <1>2, <1>5, <1>6
<1>8. a[1] = f
  BY <1>1, <1>5, <1>6
<1>9. ASSUME NEW i \in 2 .. n PROVE a[i] = frames[i]
  <2>1. i - 1 \in 1 .. n - 1 /\ i = 1 + (i - 1)
    BY <1>2
  <2>2. a[i] = Tail(frames)[i - 1]
    BY <1>1, <1>2, <1>5, <1>6, <2>1
  <2>3. QED
    BY <1>6, <2>1, <2>2
<1>10. a = [i \in 1 .. n |-> a[i]]
  BY ONLY <1>7, SeqElim
<1>11. a \in Seq(ToSet(a)) /\ DOMAIN a = 1 .. n
  BY <1>2, <1>10, SeqIntro
<1>12. QED
  BY <1>2, <1>4, <1>7, <1>8, <1>9, <1>11

(* An instruction of main other than a wait keeps all its promises; a wait *)
(* keeps all but one.                                                      *)
LEMMA AdvancePromises ==
  ASSUME StackOK, frames # <<>>, Top.code # <<>>, NEW env, NEW a, a = Advance(env),
         Len(frames) = 1 => \A v \in DOMAIN Top.env : v \in DOMAIN env /\ env[v] = Top.env[v],
         NEW x \in Promised,
         ~(Len(frames) = 1 /\ Inst.op = "wait" /\ x = Top.env[Inst.var])
  PROVE  x \in FrameWaits(a[Len(a)])
<1> DEFINE n == Len(frames)
           f == frames[n]
           g == a[n]
<1>1. /\ Len(a) = n /\ n \in Nat \ {0} /\ DOMAIN frames = 1 .. n
      /\ a[1].code = Tail(Top.code) /\ a[1].env = env
      /\ \A i \in DOMAIN frames : i # 1 => a[i] = frames[i]
      /\ a \in Seq(ToSet(a))
  BY AdvanceFacts
<1>2. Promised = FrameWaits(f) /\ a[Len(a)] = g
  BY <1>1 DEF Promised
<1>3. CASE n # 1
  BY <1>1, <1>2, <1>3
<1>4. CASE n = 1
  <2>1. f = Top /\ g.code = Tail(f.code) /\ g.env = env /\ f.code \in Seq(ToSet(f.code))
    BY <1>1, <1>4 DEF Top, StackOK
  <2> HIDE DEF f, g
  <2>2. PICK i \in DOMAIN f.code : /\ f.code[i].op = "wait" /\ f.code[i].var \in DOMAIN f.env
                                   /\ x = f.env[f.code[i].var]
    BY <1>2 DEF FrameWaits
  <2>3. i # 1
    BY <1>4, <2>1, <2>2 DEF Inst
  <2>4. i - 1 \in DOMAIN g.code /\ g.code[i - 1] = f.code[i]
    <3>1. f.code # <<>> /\ Len(f.code) \in Nat /\ DOMAIN f.code = 1 .. Len(f.code)
      BY <2>1
    <3>2. i \in 2 .. Len(f.code) /\ i - 1 \in 1 .. Len(f.code) - 1
      BY <2>3, <3>1
    <3>3. QED
      BY <2>1, <3>1, <3>2
  <2>5. g.code[i - 1].var \in DOMAIN g.env /\ x = g.env[g.code[i - 1].var]
    BY <1>4, <2>1, <2>2, <2>4
  <2>6. x \in FrameWaits(g)
    BY <2>2, <2>4, <2>5 DEF FrameWaits
  <2>7. QED
    BY <1>2, <2>6
<1>5. QED
  BY <1>3, <1>4

LEMMA AdvanceCode ==
  ASSUME StackOK, frames # <<>>, Top.code # <<>>, NEW env, NEW a, a = Advance(env)
  PROVE  a[Len(a)].code \in Seq(ToSet(a[Len(a)].code))
<1> DEFINE n == Len(frames)
<1>1. /\ Len(a) = n /\ n \in Nat \ {0} /\ DOMAIN frames = 1 .. n
      /\ a[1].code = Tail(Top.code)
      /\ \A i \in DOMAIN frames : i # 1 => a[i] = frames[i]
  BY AdvanceFacts
<1>2. CASE n = 1
  <2> DEFINE c == Top.code
             d == Tail(c)
  <2>1. c \in Seq(ToSet(c)) /\ c # <<>>
    BY <1>1, <1>2 DEF StackOK, Top
  <2> HIDE DEF c
  <2> DEFINE T == ToSet(c)
  <2>2. d \in Seq(T) /\ Len(d) \in Nat
    <3>1. c \in Seq(T) /\ c # <<>>
      BY <2>1
    <3> HIDE DEF T
    <3>2. QED
      BY ONLY <3>1
  <2> HIDE DEF d, T
  <2>3. d = [i \in 1 .. Len(d) |-> d[i]]
    BY ONLY <2>2, SeqElim
  <2>4. d \in Seq(ToSet(d))
    BY ONLY <2>2, <2>3, SeqIntro
  <2>5. QED
    BY <1>1, <1>2, <2>4 DEF c, d
<1>3. CASE n # 1
  BY <1>1, <1>3 DEF StackOK
<1>4. QED
  BY <1>2, <1>3

LEMMA PromisesKept ==
  ASSUME StackOK, frames # <<>>, Top.code # <<>>, NEW env, frames' = Advance(env),
         Len(frames) = 1 => \A v \in DOMAIN Top.env : v \in DOMAIN env /\ env[v] = Top.env[v],
         NEW x \in Promised,
         ~(Len(frames) = 1 /\ Inst.op = "wait" /\ x = Top.env[Inst.var])
  PROVE  x \in Promised'
<1>1. x \in FrameWaits(frames'[Len(frames')])
  BY AdvancePromises
<1>2. frames' # <<>>
  BY AdvanceFacts
<1>3. QED
  BY <1>1, <1>2 DEF Promised, FrameWaits

(* What else an instruction leaves alone.                                  *)
LEMMA StackAdvances ==
  ASSUME StackOK, frames # <<>>, Top.code # <<>>, NEW env, frames' = Advance(env),
         UNCHANGED hier_parent
  PROVE  /\ OnStack' = OnStack
         /\ frames' \in Seq(ToSet(frames')) /\ Len(frames') = Len(frames) /\ frames' # <<>>
         /\ \A i \in DOMAIN frames' : DOMAIN frames'[i] = {"code", "env", "parent"}
         /\ frames'[Len(frames')].code \in Seq(ToSet(frames'[Len(frames')].code))
         /\ Len(frames') <= 1 => hier_parent' = Null
         /\ \A i \in DOMAIN frames' : i >= Len(frames') - 1 => frames'[i].parent = Null
<1> DEFINE n == Len(frames)
<1>1. /\ frames' \in Seq(ToSet(frames')) /\ Len(frames') = n /\ n \in Nat \ {0}
      /\ DOMAIN frames' = DOMAIN frames /\ DOMAIN frames = 1 .. n
      /\ DOMAIN frames'[1] = {"code", "env", "parent"} /\ frames'[1].parent = Top.parent
      /\ frames'[1].code = Tail(Top.code)
      /\ \A i \in DOMAIN frames : i # 1 => frames'[i] = frames[i]
  BY AdvanceFacts
<1>2. \A i \in DOMAIN frames : frames'[i].parent = frames[i].parent
  BY <1>1 DEF Top
<1>3. OnStack' = OnStack
  BY <1>1, <1>2 DEF OnStack
<1>4. frames'[Len(frames')].code \in Seq(ToSet(frames'[Len(frames')].code))
  BY AdvanceCode
<1>5. \A i \in DOMAIN frames' : DOMAIN frames'[i] = {"code", "env", "parent"}
  BY <1>1 DEF StackOK
<1>6. frames' # <<>>
  BY <1>1
<1>7. QED
  BY <1>1, <1>2, <1>3, <1>4, <1>5, <1>6 DEF StackOK

(* An instruction that calls and waits for nothing.                        *)
LEMMA QuietInst ==
  ASSUME StackOK, ChildrenOK, Reached, SameTree, frames # <<>>, Top.code # <<>>,
         Inst.op # "wait", NEW env, frames' = Advance(env),
         Len(frames) = 1 => \A v \in DOMAIN Top.env : v \in DOMAIN env /\ env[v] = Top.env[v],
         UNCHANGED <<hier_parent, waiting>>
  PROVE  StackOK' /\ ChildrenOK' /\ Reached'
<1>1. Promised \subseteq Promised'
  BY PromisesKept
<1>2. /\ OnStack' = OnStack
      /\ frames' \in Seq(ToSet(frames')) /\ Len(frames') = Len(frames) /\ frames' # <<>>
      /\ \A i \in DOMAIN frames' : DOMAIN frames'[i] = {"code", "env", "parent"}
      /\ frames'[Len(frames')].code \in Seq(ToSet(frames'[Len(frames')].code))
      /\ Len(frames') <= 1 => hier_parent' = Null
      /\ \A i \in DOMAIN frames' : i >= Len(frames') - 1 => frames'[i].parent = Null
  BY StackAdvances
<1>3. ChildrenOK' /\ Reached'
  BY <1>1, <1>2, ReachedKept
<1>4. StackKernels'
  BY <1>2, StackKernelsKept DEF StackOK
<1>5. waiting' \in Seq(DOMAIN kernel')
  BY SeqElim DEF StackOK, SameTree
<1>6. StackOK'
  BY <1>2, <1>4, <1>5 DEF StackOK
<1>7. QED
  BY <1>3, <1>6
-----------------------------------------------------------------------------
(* Calls.                                                                  *)

(* callKernel's setup, and the scheduler's: k becomes a child of the       *)
(* kernel whose work function calls it.                                    *)
CallEffect(k) ==
  /\ DOMAIN kernel' = DOMAIN kernel /\ k \in DOMAIN kernel /\ Null \notin DOMAIN kernel
  /\ UNCHANGED prog
  /\ kernel'[k].called \in BOOLEAN /\ kernel'[k].called
  /\ kernel'[k].hier \in BOOLEAN /\ kernel'[k].mapped \in BOOLEAN
  /\ \A j \in DOMAIN kernel : j # k =>
       /\ kernel'[j].called = kernel[j].called /\ kernel'[j].hier = kernel[j].hier
       /\ kernel'[j].mapped = kernel[j].mapped /\ kernel'[j].status = kernel[j].status
  /\ \A j \in DOMAIN kernel : j # hier_parent => kernel'[j].children = kernel[j].children
  /\ hier_parent # Null =>
       kernel'[hier_parent].children = Append(kernel[hier_parent].children, k)

LEMMA SetupTree ==
  ASSUME KernelsOK, NEW k \in DOMAIN kernel, kernel[k].called \in BOOLEAN, ~kernel[k].called,
         kernel[k].mapped \in BOOLEAN,
         hier_parent = Null \/ hier_parent \in DOMAIN kernel, NEW ins, NEW outs,
         NEW c, c = Called(k, ins, outs)
  PROVE  /\ DOMAIN c = DOMAIN kernel /\ \A j \in DOMAIN c : DOMAIN c[j] = KFields
         /\ c[k].called \in BOOLEAN /\ c[k].called
         /\ c[k].hier \in BOOLEAN /\ (c[k].hier <=> kernel[k].work \in Hierarchical)
         /\ c[k].mapped = kernel[k].mapped
         /\ \A j \in DOMAIN kernel : j # k =>
              /\ c[j].called = kernel[j].called /\ c[j].hier = kernel[j].hier
              /\ c[j].mapped = kernel[j].mapped
         /\ \A j \in DOMAIN kernel :
              /\ c[j].status = kernel[j].status
              /\ j # hier_parent => c[j].children = kernel[j].children
         /\ hier_parent # Null => c[hier_parent].children = Append(kernel[hier_parent].children, k)
<1> DEFINE hier == kernel[k].work \in Hierarchical
           sched == IF hier THEN kernel[k].sched ELSE selectScheduler
           one == [kernel EXCEPT ![k].called = TRUE, ![k].hier = hier, ![k].sched = sched]
           set == IF hier_parent = Null THEN one
                  ELSE [one EXCEPT ![hier_parent].children = Append(@, k)]
<1>1. \A j \in DOMAIN kernel : DOMAIN kernel[j] = KFields
  BY DEF KernelsOK, KernelOK
<1>2. hier \in BOOLEAN
  OBVIOUS
<1>3. Setup(kernel, k, hier_parent) = set
  BY DEF Setup
<1>4. c = [set EXCEPT ![k].ins = ins, ![k].outs = outs]
  BY <1>3 DEF Called
<1> HIDE DEF hier, sched
<1>5. /\ DOMAIN one = DOMAIN kernel /\ \A j \in DOMAIN kernel : j # k => one[j] = kernel[j]
      /\ DOMAIN one[k] = KFields /\ one[k].called = TRUE /\ one[k].hier = hier
      /\ one[k].mapped = kernel[k].mapped /\ one[k].status = kernel[k].status
      /\ one[k].children = kernel[k].children
  BY <1>1 DEF KFields
<1>6. \A j \in DOMAIN kernel : DOMAIN one[j] = KFields /\ one[j].children = kernel[j].children
  BY <1>1, <1>5
<1> HIDE DEF one
<1>7. /\ DOMAIN set = DOMAIN kernel
      /\ \A j \in DOMAIN kernel :
           /\ DOMAIN set[j] = KFields
           /\ set[j].called = one[j].called /\ set[j].hier = one[j].hier
           /\ set[j].mapped = one[j].mapped /\ set[j].status = one[j].status
           /\ j # hier_parent => set[j].children = one[j].children
      /\ hier_parent # Null => set[hier_parent].children = Append(one[hier_parent].children, k)
  <2>1. CASE hier_parent = Null
    BY <1>5, <1>6, <2>1
  <2>2. CASE hier_parent # Null
    <3>1. set = [one EXCEPT ![hier_parent].children = Append(@, k)]
      BY <2>2
    <3> HIDE DEF set
    <3>2. hier_parent \in DOMAIN one
      BY <1>5, <2>2
    <3>3. /\ DOMAIN set = DOMAIN one
          /\ \A j \in DOMAIN one : j # hier_parent => set[j] = one[j]
      BY <3>1
    <3>4. /\ DOMAIN set[hier_parent] = KFields
          /\ set[hier_parent].called = one[hier_parent].called
          /\ set[hier_parent].hier = one[hier_parent].hier
          /\ set[hier_parent].mapped = one[hier_parent].mapped
          /\ set[hier_parent].status = one[hier_parent].status
          /\ set[hier_parent].children = Append(one[hier_parent].children, k)
      BY <1>5, <1>6, <3>1, <3>2 DEF KFields
    <3>5. QED
      BY ONLY <1>5, <1>6, <3>3, <3>4
  <2>3. QED
    BY <2>1, <2>2
<1> HIDE DEF set
<1>8. /\ DOMAIN c = DOMAIN kernel
      /\ \A j \in DOMAIN kernel :
           /\ DOMAIN c[j] = KFields
           /\ c[j].called = set[j].called /\ c[j].hier = set[j].hier
           /\ c[j].mapped = set[j].mapped /\ c[j].status = set[j].status
           /\ c[j].children = set[j].children
  BY <1>4, <1>7 DEF KFields
<1>9. \A j \in DOMAIN kernel : j # k =>
        /\ c[j].called = kernel[j].called /\ c[j].hier = kernel[j].hier
        /\ c[j].mapped = kernel[j].mapped /\ c[j].status = kernel[j].status
  BY ONLY <1>5, <1>7, <1>8
<1>10. /\ c[k].called = TRUE /\ c[k].hier = hier /\ c[k].mapped = kernel[k].mapped
       /\ c[k].status = kernel[k].status
  BY <1>5, <1>7, <1>8
<1>11. /\ \A j \in DOMAIN kernel : j # hier_parent => c[j].children = kernel[j].children
       /\ hier_parent # Null => c[hier_parent].children = Append(kernel[hier_parent].children, k)
  BY <1>6, <1>7, <1>8
<1>12. c[k].called \in BOOLEAN /\ c[k].called
  BY <1>10
<1>13. c[k].hier \in BOOLEAN /\ (c[k].hier <=> kernel[k].work \in Hierarchical)
  BY <1>2, <1>10 DEF hier
<1>14. QED
  BY <1>8, <1>9, <1>10, <1>11, <1>12, <1>13

LEMMA StartTree ==
  ASSUME NEW ks, NEW k \in DOMAIN ks, \A j \in DOMAIN ks : DOMAIN ks[j] = KFields,
         NEW c, c = Start(ks, k)
  PROVE  /\ DOMAIN c = DOMAIN ks
         /\ c[k].mapped \in BOOLEAN /\ c[k].mapped
         /\ \A j \in DOMAIN ks :
              /\ c[j].called = ks[j].called /\ c[j].hier = ks[j].hier
              /\ c[j].children = ks[j].children
              /\ j # k => c[j].status = ks[j].status /\ c[j].mapped = ks[j].mapped
<1> DEFINE code == Code(ks[k].work, ks[k].args, Len(ks[k].ins), Len(ks[k].outs))
<1>1. c = [ks EXCEPT ![k].impl = TRUE, ![k].mapped = TRUE, ![k].status = "active",
                     ![k].at = 1, ![k].half = FALSE, ![k].code = code]
  BY DEF Start
<1> HIDE DEF code
<1>2. DOMAIN c = DOMAIN ks /\ \A j \in DOMAIN ks : j # k => c[j] = ks[j]
  BY <1>1
<1>3. DOMAIN ks[k] = KFields
  OBVIOUS
<1>4. /\ c[k].mapped = TRUE /\ c[k].called = ks[k].called /\ c[k].hier = ks[k].hier
      /\ c[k].children = ks[k].children
  BY <1>1, <1>3 DEF KFields
<1>5. c[k].mapped \in BOOLEAN /\ c[k].mapped
  BY <1>4
<1>6. QED
  BY <1>2, <1>4, <1>5

(* What covers the graph after the call covered it before, and has k.      *)
LEMMA CallReaches ==
  ASSUME StackOK, ChildrenOK, Reached, NEW k, CallEffect(k), ~kernel[k].called,
         hier_parent = Null => k \in Promised, Promised \subseteq Promised', waiting' = waiting,
         NEW S, Covering(S)'
  PROVE  /\ k \in S /\ OnStack \subseteq S
         /\ \A j \in DOMAIN kernel' : Undone(j)' => j \in S
<1>1. Closed(S)' /\ ToSet(waiting) \subseteq S /\ Promised \subseteq S
  BY DEF Covering
<1>2. ~kernel[k].hier /\ k \in DOMAIN kernel
  BY DEF ChildrenOK, CallEffect
<1>3. ASSUME NEW h \in DOMAIN kernel, h \in S, kernel[h].hier
      PROVE  ToSet(kernel[h].children) \subseteq S
  <2>1. h # k /\ kernel'[h].hier /\ h \in DOMAIN kernel'
    BY <1>2, <1>3 DEF CallEffect
  <2>2. ToSet(kernel'[h].children) \subseteq S
    BY <1>1, <1>3, <2>1 DEF Closed
  <2>3. CASE h # hier_parent
    BY <2>2, <2>3 DEF CallEffect
  <2>4. CASE h = hier_parent
    <3>1. h # Null
      BY DEF CallEffect
    <3>2. kernel'[h].children = Append(kernel[h].children, k)
      BY <2>4, <3>1 DEF CallEffect
    <3>3. kernel[h].children \in Seq(DOMAIN kernel)
      BY DEF ChildrenOK
    <3>4. ToSet(kernel[h].children) \subseteq ToSet(Append(kernel[h].children, k))
      BY <3>3, ToSetAppend
    <3>5. QED
      BY <2>2, <3>2, <3>4
  <2>5. QED
    BY <2>3, <2>4
<1>4. Covering(S)
  BY <1>1, <1>3 DEF Covering, Closed
<1>5. OnStack \subseteq S /\ \A j \in DOMAIN kernel : Undone(j) => j \in S
  BY <1>4 DEF Reached
<1>6. k \in S
  <2>1. CASE hier_parent = Null
    BY <1>1, <2>1
  <2>2. CASE hier_parent # Null
    <3> DEFINE h == hier_parent
    <3>1. h \in OnStack
      BY <2>2 DEF OnStack
    <3>2. h \in S /\ h \in DOMAIN kernel /\ kernel[h].called /\ kernel[h].hier
      BY <1>5, <3>1 DEF StackOK, StackKernels
    <3>3. h # k /\ kernel'[h].hier /\ h \in DOMAIN kernel'
      BY <3>2 DEF CallEffect
    <3>4. ToSet(kernel'[h].children) \subseteq S
      BY <1>1, <3>2, <3>3 DEF Closed
    <3>5. kernel'[h].children = Append(kernel[h].children, k)
      BY <2>2 DEF CallEffect
    <3>6. kernel[h].children \in Seq(DOMAIN kernel)
      BY <3>2 DEF ChildrenOK
    <3>7. k \in ToSet(Append(kernel[h].children, k))
      BY <3>6, ToSetAppend
    <3>8. QED
      BY <3>4, <3>5, <3>7
  <2>3. QED
    BY <2>1, <2>2
<1>7. ASSUME NEW j \in DOMAIN kernel', Undone(j)', j # k PROVE j \in S
  <2>1. j \in DOMAIN kernel /\ Undone(j)
    BY <1>7 DEF Undone, CallEffect
  <2>2. QED
    BY <1>5, <2>1
<1>8. QED
  BY <1>5, <1>6, <1>7

LEMMA CallChildren ==
  ASSUME StackOK, ChildrenOK, NEW k, CallEffect(k), kernel'[k].hier \/ kernel'[k].mapped
  PROVE  ChildrenOK'
<1>1. ASSUME NEW j \in DOMAIN kernel
      PROVE  kernel'[j].children \in Seq(DOMAIN kernel)
  <2>1. kernel[j].children \in Seq(DOMAIN kernel)
    BY DEF ChildrenOK
  <2>2. CASE j # hier_parent
    BY <2>1, <2>2 DEF CallEffect
  <2>3. CASE j = hier_parent /\ j = Null
    BY <2>3 DEF CallEffect
  <2>4. CASE j = hier_parent /\ j # Null
    <3>1. kernel'[j].children = Append(kernel[j].children, k)
      BY <2>4 DEF CallEffect
    <3>2. k \in DOMAIN kernel
      BY DEF CallEffect
    <3>3. QED
      BY <2>1, <3>1, <3>2
  <2>5. QED
    BY <2>2, <2>3, <2>4
<1>2. ASSUME NEW j \in DOMAIN kernel
      PROVE  /\ kernel'[j].called \in BOOLEAN /\ kernel'[j].hier \in BOOLEAN
             /\ kernel'[j].mapped \in BOOLEAN
             /\ kernel'[j].hier => kernel'[j].called
             /\ prog'.force # "koro" /\ kernel'[j].called /\ ~kernel'[j].hier => kernel'[j].mapped
  <2>1. CASE j = k
    BY <2>1 DEF CallEffect
  <2>2. CASE j # k
    BY <2>2 DEF CallEffect, ChildrenOK
  <2>3. QED
    BY <2>1, <2>2
<1>3. DOMAIN kernel' = DOMAIN kernel
  BY DEF CallEffect
<1>4. QED
  BY <1>1, <1>2, <1>3 DEF ChildrenOK

(* A call of a kernel that nobody called before.                           *)
LEMMA CallStep ==
  ASSUME GraphInv, StackOK, ChildrenOK, ProperWait, Ready("call"), Callee \in DOMAIN kernel,
         NEW ins, NEW outs, UNCHANGED prog,
         \/ kernel' = Called(Callee, ins, outs) /\ kernel[Callee].work \in Hierarchical
         \/ kernel' = Start(Called(Callee, ins, outs), Callee)
  PROVE  /\ CallEffect(Callee) /\ ~kernel[Callee].called
         /\ kernel'[Callee].hier <=> kernel[Callee].work \in Hierarchical
         /\ kernel'[Callee].hier \/ kernel'[Callee].mapped
<1> DEFINE k == Callee
           c == Called(k, ins, outs)
<1>1. /\ ~kernel[k].called /\ kernel[k].called \in BOOLEAN /\ kernel[k].mapped \in BOOLEAN
      /\ hier_parent = Null \/ hier_parent \in DOMAIN kernel
  BY DEF ProperWait, ChildrenOK, StackOK, StackKernels, OnStack
<1>2. KernelsOK /\ Null \notin DOMAIN kernel
  BY Specials DEF GraphInv, KernelsOK
<1> HIDE DEF k
<1>3. k \in DOMAIN kernel
  BY DEF k
<1>4. /\ DOMAIN c = DOMAIN kernel /\ \A j \in DOMAIN c : DOMAIN c[j] = KFields
      /\ c[k].called \in BOOLEAN /\ c[k].called
      /\ c[k].hier \in BOOLEAN /\ (c[k].hier <=> kernel[k].work \in Hierarchical)
      /\ c[k].mapped = kernel[k].mapped
      /\ \A j \in DOMAIN kernel : j # k =>
           /\ c[j].called = kernel[j].called /\ c[j].hier = kernel[j].hier
           /\ c[j].mapped = kernel[j].mapped
      /\ \A j \in DOMAIN kernel :
           /\ c[j].status = kernel[j].status
           /\ j # hier_parent => c[j].children = kernel[j].children
      /\ hier_parent # Null => c[hier_parent].children = Append(kernel[hier_parent].children, k)
  BY <1>1, <1>2, <1>3, SetupTree
<1> HIDE DEF c
<1>5. CASE kernel' = c /\ kernel[k].work \in Hierarchical
  <2>1. CallEffect(k)
    BY ONLY UNCHANGED prog, <1>1, <1>2, <1>3, <1>4, <1>5 DEF CallEffect
  <2>2. kernel'[k].hier <=> kernel[k].work \in Hierarchical
    BY ONLY <1>4, <1>5
  <2>3. QED
    BY <1>1, <1>5, <2>1, <2>2 DEF k
<1>6. CASE kernel' = Start(c, k)
  <2>1. /\ DOMAIN kernel' = DOMAIN c
        /\ kernel'[k].mapped \in BOOLEAN /\ kernel'[k].mapped
        /\ \A j \in DOMAIN c :
             /\ kernel'[j].called = c[j].called /\ kernel'[j].hier = c[j].hier
             /\ kernel'[j].children = c[j].children
             /\ j # k => kernel'[j].status = c[j].status /\ kernel'[j].mapped = c[j].mapped
    BY ONLY <1>3, <1>4, <1>6, StartTree
  <2>2. CallEffect(k)
    <3>1. /\ kernel'[k].called \in BOOLEAN /\ kernel'[k].called /\ kernel'[k].hier \in BOOLEAN
      BY ONLY <1>3, <1>4, <2>1
    <3>2. \A j \in DOMAIN kernel : j # k =>
            /\ kernel'[j].called = kernel[j].called /\ kernel'[j].hier = kernel[j].hier
            /\ kernel'[j].mapped = kernel[j].mapped /\ kernel'[j].status = kernel[j].status
      BY ONLY <1>4, <2>1
    <3>3. \A j \in DOMAIN kernel : j # hier_parent => kernel'[j].children = kernel[j].children
      BY ONLY <1>4, <2>1
    <3>4. hier_parent # Null =>
            kernel'[hier_parent].children = Append(kernel[hier_parent].children, k)
      BY ONLY <1>1, <1>4, <2>1
    <3>5. QED
      BY ONLY UNCHANGED prog, <1>2, <1>3, <1>4, <2>1, <3>1, <3>2, <3>3, <3>4 DEF CallEffect
  <2>3. kernel'[k].hier <=> kernel[k].work \in Hierarchical
    BY ONLY <1>3, <1>4, <2>1
  <2>4. QED
    BY <1>1, <2>1, <2>2, <2>3 DEF k, c
<1>7. QED
  BY <1>5, <1>6 DEF c, k

LEMMA WaitCallKernel ==
  ASSUME GraphInv, StackOK, ChildrenOK, Reached, ProperCall, ProperWait, callKernel
  PROVE  StackOK' /\ ChildrenOK' /\ Reached'
<1> DEFINE k == Callee
           ins == Value(Inst.ins)
           outs == Value(Inst.outs)
<1>1. Ready("call") /\ frames # <<>> /\ Top.code # <<>> /\ Inst.op = "call"
  BY DEF callKernel, Ready, Inst
<1>2. k \in DOMAIN kernel /\ kernel[k].status \notin Busy
  BY <1>1 DEF ProperCall
<1>3. ~kernel[k].impl
  BY <1>2 DEF GraphInv, KernelsOK, KernelOK, Busy
<1>4. /\ kernel' = Start(Called(k, ins, outs), k) /\ frames' = Advance(Top.env)
      /\ UNCHANGED <<prog, hier_parent, waiting>>
  BY <1>3 DEF callKernel, Callee
<1> HIDE DEF ins, outs
<1>5. CallEffect(k) /\ ~kernel[k].called /\ (kernel'[k].hier \/ kernel'[k].mapped)
  BY <1>1, <1>2, <1>4, CallStep
<1>6. Promised \subseteq Promised'
  BY <1>1, <1>4, PromisesKept
<1>7. /\ OnStack' = OnStack
      /\ frames' \in Seq(ToSet(frames')) /\ Len(frames') = Len(frames) /\ frames' # <<>>
      /\ \A i \in DOMAIN frames' : DOMAIN frames'[i] = {"code", "env", "parent"}
      /\ frames'[Len(frames')].code \in Seq(ToSet(frames'[Len(frames')].code))
      /\ Len(frames') <= 1 => hier_parent' = Null
      /\ \A i \in DOMAIN frames' : i >= Len(frames') - 1 => frames'[i].parent = Null
  BY <1>1, <1>4, StackAdvances
<1>8. hier_parent = Null => k \in Promised
  BY <1>1 DEF ProperWait
<1> HIDE DEF k
<1>9. Reached'
  <2>1. ASSUME NEW S, Covering(S)'
        PROVE  OnStack' \subseteq S /\ \A j \in DOMAIN kernel' : Undone(j)' => j \in S
    <3>1. OnStack \subseteq S /\ \A j \in DOMAIN kernel' : Undone(j)' => j \in S
      BY <1>4, <1>5, <1>6, <1>8, <2>1, CallReaches
    <3>2. QED
      BY <1>7, <3>1
  <2>2. QED
    BY <2>1 DEF Reached
<1>10. ChildrenOK'
  BY <1>5, CallChildren
<1>11. StackKernels'
  BY <1>5, <1>7 DEF StackOK, StackKernels, CallEffect
<1>12. StackOK'
  BY <1>4, <1>5, <1>7, <1>11 DEF StackOK, CallEffect
<1>13. QED
  BY <1>9, <1>10, <1>12

LEMMA WaitCallHierarchical ==
  ASSUME GraphInv, StackOK, ChildrenOK, Reached, ProperCall, ProperWait, callHierarchical
  PROVE  StackOK' /\ ChildrenOK' /\ Reached'
<1> DEFINE k == Callee
           ins == Value(Inst.ins)
           outs == Value(Inst.outs)
           f == Frame(Code(kernel[k].work, kernel[k].args, Len(ins), Len(outs)),
                      WorkEnv(k, ins, outs), hier_parent)
           a == Advance(Top.env)
           n == Len(frames)
<1>1. /\ Ready("call") /\ frames # <<>> /\ Top.code # <<>> /\ Inst.op = "call"
      /\ kernel[k].work \in Hierarchical
  BY DEF callHierarchical, Ready, Inst, Callee
<1>2. k \in DOMAIN kernel
  BY <1>1 DEF ProperCall
<1>3. /\ kernel' = Called(k, ins, outs) /\ frames' = <<f>> \o a
      /\ hier_parent' = k /\ waiting' = waiting /\ UNCHANGED prog
  BY DEF callHierarchical, Callee
<1>4. f.parent = hier_parent /\ DOMAIN f = {"code", "env", "parent"}
  BY DEF Frame
<1> HIDE DEF ins, outs, f
<1>5. CallEffect(k) /\ ~kernel[k].called /\ kernel'[k].hier
  BY <1>1, <1>2, <1>3, CallStep
<1>6. hier_parent = Null => k \in Promised
  BY <1>1 DEF ProperWait
<1>7. /\ a \in Seq(ToSet(a)) /\ Len(a) = n /\ n \in Nat \ {0}
      /\ DOMAIN a = DOMAIN frames /\ DOMAIN frames = 1 .. n
      /\ DOMAIN a[1] = {"code", "env", "parent"} /\ a[1].parent = Top.parent
      /\ a[1].code = Tail(Top.code) /\ a[1].env = Top.env
      /\ \A i \in DOMAIN frames : i # 1 => a[i] = frames[i]
  BY <1>1, AdvanceFacts
<1> HIDE DEF k, a
<1>8. /\ frames' \in Seq(ToSet(frames')) /\ Len(frames') = n + 1 /\ DOMAIN frames' = 1 .. n + 1
      /\ frames'[1] = f /\ \A i \in 1 .. n : frames'[i + 1] = a[i]
  <2> DEFINE T == ToSet(a) \cup {f}
  <2>1. a \in Seq(T) /\ <<f>> \in Seq(T) /\ Len(<<f>>) = 1
    BY <1>7
  <2> HIDE DEF T
  <2>2. /\ frames' \in Seq(T) /\ Len(frames') = n + 1
        /\ frames'[1] = f /\ \A i \in 1 .. n : frames'[i + 1] = a[i]
    BY <1>3, <1>7, <2>1
  <2>3. frames' = [i \in 1 .. n + 1 |-> frames'[i]]
    BY ONLY <2>2, SeqElim
  <2>4. n + 1 \in Nat
    BY <1>7
  <2>5. frames' \in Seq(ToSet(frames')) /\ DOMAIN frames' = 1 .. n + 1
    BY ONLY <2>3, <2>4, SeqIntro
  <2>6. QED
    BY <2>2, <2>5
<1>9. /\ Promised \subseteq Promised' /\ frames' # <<>>
      /\ frames'[n + 1].code \in Seq(ToSet(frames'[n + 1].code))
  <2>1. a = Advance(Top.env)
    BY DEF a
  <2>2. frames'[n + 1] = a[n] /\ frames' # <<>>
    BY <1>7, <1>8
  <2>3. /\ Promised \subseteq FrameWaits(a[n])
        /\ a[n].code \in Seq(ToSet(a[n].code))
    BY <1>1, <1>7, <2>1, AdvancePromises, AdvanceCode
  <2>4. Promised' = FrameWaits(a[n])
    BY <1>8, <2>2 DEF Promised, FrameWaits
  <2>5. QED
    BY <2>2, <2>3, <2>4
<1>10. \A i \in 1 .. n : a[i].parent = frames[i].parent /\ DOMAIN a[i] = {"code", "env", "parent"}
  BY <1>7 DEF Top, StackOK
<1>11. \A i \in 1 .. n + 1 : i = 1 \/ (i - 1 \in 1 .. n /\ i = (i - 1) + 1)
  BY <1>7
<1>12. \A i \in 1 .. n + 1 : /\ DOMAIN frames'[i] = {"code", "env", "parent"}
                             /\ i = 1 => frames'[i].parent = hier_parent
                             /\ i # 1 => frames'[i].parent = frames[i - 1].parent
  BY <1>4, <1>8, <1>10, <1>11
<1>13. OnStack' \subseteq OnStack \cup {k}
  <2>1. \A i \in DOMAIN frames' : \/ frames'[i].parent = hier_parent
                                 \/ \E j \in DOMAIN frames : frames'[i].parent = frames[j].parent
    BY ONLY <1>7, <1>8, <1>11, <1>12
  <2>2. QED
    BY ONLY <1>3, <2>1 DEF OnStack
<1>14. Reached'
  <2>1. ASSUME NEW S, Covering(S)'
        PROVE  OnStack' \subseteq S /\ \A j \in DOMAIN kernel' : Undone(j)' => j \in S
    <3>1. k \in S /\ OnStack \subseteq S /\ \A j \in DOMAIN kernel' : Undone(j)' => j \in S
      BY <1>3, <1>5, <1>6, <1>9, <2>1, CallReaches
    <3>2. QED
      BY <1>13, <3>1
  <2>2. QED
    BY <2>1 DEF Reached
<1>15. ChildrenOK'
  BY <1>5, CallChildren
<1>16. StackKernels'
  BY <1>5, <1>13 DEF StackOK, StackKernels, CallEffect
<1>17. ASSUME NEW i \in 1 .. n + 1, i >= n PROVE frames'[i].parent = Null
  <2>1. CASE i = 1
    <3>1. n = 1
      BY <1>7, <1>17, <2>1
    <3>2. QED
      BY <1>12, <2>1, <3>1 DEF StackOK
  <2>2. CASE i # 1
    <3>1. i - 1 \in 1 .. n /\ i - 1 >= n - 1
      BY <1>7, <1>17, <2>2
    <3>2. QED
      BY <1>7, <1>12, <2>2, <3>1 DEF StackOK
  <2>3. QED
    BY <2>1, <2>2
<1>18. waiting = <<>>
  BY <1>1 DEF Ready
<1>19. StackOK'
  <2>1. waiting' \in Seq(DOMAIN kernel') /\ waiting' = <<>>
    BY <1>3, <1>18
  <2>2. ~(Len(frames') <= 1)
    BY <1>7, <1>8
  <2>3. \A i \in DOMAIN frames' : i >= Len(frames') - 1 => frames'[i].parent = Null
    BY <1>7, <1>8, <1>17
  <2>4. QED
    BY <1>8, <1>9, <1>12, <1>16, <2>1, <2>2, <2>3 DEF StackOK
<1>20. QED
  BY <1>14, <1>15, <1>19
-----------------------------------------------------------------------------
(* The other steps.                                                        *)

(* While main runs, and while it waits, no work function is on the stack.  *)
LEMMA NoStack ==
  ASSUME StackOK, Len(frames) <= 1
  PROVE  OnStack = {}
<1>1. hier_parent = Null /\ Len(frames) \in Nat /\ DOMAIN frames = 1 .. Len(frames)
  BY DEF StackOK
<1>2. \A i \in DOMAIN frames : i >= Len(frames) - 1
  BY <1>1
<1>3. \A i \in DOMAIN frames : frames[i].parent = Null
  BY <1>2 DEF StackOK
<1>4. QED
  BY <1>1, <1>3 DEF OnStack

LEMMA HeadTail ==
  ASSUME NEW T, NEW w \in Seq(T), w # <<>>
  PROVE  /\ Tail(w) \in Seq(T) /\ w[1] \in T /\ w[1] \in ToSet(w)
         /\ ToSet(w) = {w[1]} \cup ToSet(Tail(w))
<1> DEFINE t == Tail(w)
           n == Len(w)
<1>1. /\ t \in Seq(T) /\ w[1] \in T /\ n \in Nat \ {0} /\ DOMAIN w = 1 .. n
      /\ DOMAIN t = 1 .. n - 1 /\ \A i \in 1 .. n - 1 : t[i] = w[i + 1]
  OBVIOUS
<1> HIDE DEF t, n
<1>2. \A i \in 1 .. n : i = 1 \/ (i - 1 \in 1 .. n - 1 /\ i = (i - 1) + 1)
  BY <1>1
<1>3. \A i \in 1 .. n - 1 : i + 1 \in 1 .. n
  BY <1>1
<1>4. 1 \in 1 .. n
  BY <1>1
<1>5. ToSet(w) = {w[1]} \cup ToSet(t)
  <2>1. ToSet(t) \subseteq ToSet(w) /\ w[1] \in ToSet(w)
    BY <1>1, <1>3, <1>4 DEF ToSet
  <2>2. \A i \in 1 .. n : i # 1 => i - 1 \in 1 .. n - 1 /\ w[i] = t[i - 1]
    BY <1>1, <1>2
  <2>3. ASSUME NEW x \in ToSet(w) PROVE x = w[1] \/ x \in ToSet(t)
    <3>1. PICK i \in 1 .. n : x = w[i]
      BY <1>1 DEF ToSet
    <3>2. i # 1 => i - 1 \in DOMAIN t /\ x = t[i - 1]
      BY <1>1, <2>2, <3>1
    <3>3. QED
      BY <3>1, <3>2 DEF ToSet
  <2>4. QED
    BY <2>1, <2>3
<1>6. QED
  BY <1>1, <1>5 DEF t

(* A step of a kernel's thread, or a request that calls nothing.           *)
LEMMA StackSame ==
  ASSUME StackOK, ChildrenOK, Reached, SameTree, UNCHANGED <<frames, hier_parent, waiting>>
  PROVE  StackOK' /\ ChildrenOK' /\ Reached'
<1>1. OnStack' = OnStack /\ Promised' = Promised
  BY DEF OnStack, Promised, FrameWaits
<1>2. ChildrenOK' /\ Reached'
  BY <1>1, ReachedKept
<1>3. StackKernels'
  BY <1>1, StackKernelsKept DEF StackOK
<1>4. waiting' \in Seq(DOMAIN kernel')
  BY SeqElim DEF StackOK, SameTree
<1>5. StackOK'
  BY <1>3, <1>4 DEF StackOK
<1>6. QED
  BY <1>2, <1>5

(* skir.stream, skir.kernel and the program's own code.                    *)
LEMMA WaitQuiet ==
  ASSUME GraphInv, StackOK, ChildrenOK, Reached, ProperWait,
         handleStreamInst \/ handleKernelInst \/ Add
  PROVE  StackOK' /\ ChildrenOK' /\ Reached'
<1> DEFINE quiet(env) == Len(frames) = 1 => \A v \in DOMAIN Top.env :
                                             v \in DOMAIN env /\ env[v] = Top.env[v]
<1>1. ASSUME NEW x, Len(frames) = 1 => Inst.var \notin DOMAIN Top.env
      PROVE  quiet(Bind(Top.env, Inst.var, x))
  BY <1>1 DEF Bind
<1>2. CASE handleStreamInst
  <2>1. /\ frames # <<>> /\ Top.code # <<>> /\ Inst.op # "wait"
        /\ Len(frames) = 1 => Inst.var \notin DOMAIN Top.env
    BY <1>2 DEF handleStreamInst, Ready, Inst, ProperWait
  <2> DEFINE env == Bind(Top.env, Inst.var, next_stream_id)
  <2>2. quiet(env)
    BY <1>1, <2>1
  <2>3. frames' = Advance(env) /\ UNCHANGED <<prog, kernel, hier_parent, waiting>>
    BY <1>2 DEF handleStreamInst
  <2> HIDE DEF env
  <2>4. SameTree
    BY <2>3 DEF SameTree, Remembers
  <2>5. QED
    BY <2>1, <2>2, <2>3, <2>4, QuietInst
<1>3. CASE handleKernelInst
  <2>1. /\ frames # <<>> /\ Top.code # <<>> /\ Inst.op # "wait"
        /\ Len(frames) = 1 => Inst.var \notin DOMAIN Top.env
    BY <1>3 DEF handleKernelInst, Ready, Inst, ProperWait
  <2> DEFINE env == Bind(Top.env, Inst.var, next_kernel_id)
  <2>2. quiet(env)
    BY <1>1, <2>1
  <2>3. /\ frames' = Advance(env) /\ UNCHANGED <<prog, hier_parent, waiting>>
        /\ kernel' = WithKernel(Inst.work, Inst.args)
    BY <1>3 DEF handleKernelInst
  <2> HIDE DEF env
  <2>4. SameTree
    BY <2>3, NewKernelTree DEF GraphInv
  <2>5. QED
    BY <2>1, <2>2, <2>3, <2>4, QuietInst
<1>4. CASE Add
  <2>1. frames # <<>> /\ Top.code # <<>> /\ Inst.op # "wait"
    BY <1>4 DEF Add, Ready, Inst
  <2>2. frames' = Advance(Top.env) /\ UNCHANGED <<prog, objects, hier_parent, waiting>>
    BY <1>4 DEF Add
  <2>3. SameTree
    BY <2>2, SameObjectsTree
  <2>4. QED
    BY <2>1, <2>2, <2>3, QuietInst
<1>5. QED
  BY <1>2, <1>3, <1>4

(* A work function returns, or main does: then it has kept its promises.   *)
LEMMA WaitLeave ==
  ASSUME StackOK, ChildrenOK, Reached, Leave
  PROVE  StackOK' /\ ChildrenOK' /\ Reached'
<1> DEFINE n == Len(frames)
<1>1. /\ frames # <<>> /\ Top.code = <<>> /\ frames' = Tail(frames)
      /\ hier_parent' = Top.parent /\ waiting = <<>> /\ waiting' = waiting
      /\ UNCHANGED <<prog, objects>>
  BY DEF Leave
<1>2. n \in Nat \ {0} /\ DOMAIN frames = 1 .. n /\ frames \in Seq(ToSet(frames))
  BY <1>1 DEF StackOK
<1>3. /\ Len(frames') = n - 1 /\ DOMAIN frames' = 1 .. n - 1
      /\ \A i \in 1 .. n - 1 : frames'[i] = frames[i + 1]
      /\ frames' \in Seq(ToSet(frames'))
  <2> DEFINE T == ToSet(frames)
  <2>1. frames \in Seq(T)
    BY <1>2
  <2> HIDE DEF T
  <2>2. /\ frames' \in Seq(T) /\ Len(frames') = n - 1 /\ n - 1 \in Nat
        /\ \A i \in 1 .. n - 1 : frames'[i] = frames[i + 1]
    BY <1>1, <1>2, <2>1
  <2>3. frames' = [i \in 1 .. n - 1 |-> frames'[i]]
    BY ONLY <2>2, SeqElim
  <2>4. frames' \in Seq(ToSet(frames')) /\ DOMAIN frames' = 1 .. n - 1
    BY ONLY <2>2, <2>3, SeqIntro
  <2>5. QED
    BY <2>2, <2>4
<1>4. \A i \in 1 .. n - 1 : i + 1 \in 1 .. n
  BY <1>2
<1>5. OnStack' \subseteq OnStack
  <2>1. 1 \in DOMAIN frames
    BY <1>2
  <2>2. \A i \in DOMAIN frames' : \E j \in DOMAIN frames : frames'[i].parent = frames[j].parent
    BY <1>2, <1>3, <1>4
  <2>3. QED
    BY <1>1, <2>1, <2>2 DEF OnStack, Top
<1>6. Promised \subseteq Promised' /\ (frames' # <<>> => frames'[Len(frames')] = frames[n])
  <2>1. CASE n = 1
    <3>1. Promised = FrameWaits(Top)
      BY <1>1, <2>1 DEF Promised, Top
    <3>2. FrameWaits(Top) = {}
      BY <1>1 DEF FrameWaits
    <3>3. frames' = <<>>
      BY <1>3, <2>1
    <3>4. QED
      BY <3>1, <3>2, <3>3
  <2>2. CASE n # 1
    <3>1. n - 1 \in 1 .. n - 1 /\ (n - 1) + 1 = n
      BY <1>2, <2>2
    <3>2. frames'[Len(frames')] = frames[n] /\ frames' # <<>>
      BY <1>3, <3>1
    <3>3. QED
      BY <1>1, <3>2 DEF Promised, FrameWaits
  <2>3. QED
    BY <2>1, <2>2
<1>7. SameTree
  BY <1>1, SameObjectsTree
<1>8. ChildrenOK' /\ Reached'
  BY <1>1, <1>5, <1>6, <1>7, ReachedKept
<1>9. StackKernels'
  BY <1>5, <1>7, StackKernelsKept DEF StackOK
<1>10. ASSUME NEW i \in 1 .. n - 1, i >= (n - 1) - 1 PROVE frames'[i].parent = Null
  <2>1. i + 1 \in DOMAIN frames /\ i + 1 >= n - 1
    BY <1>2, <1>10
  <2>2. QED
    BY <1>3, <2>1 DEF StackOK
<1>11. n - 1 <= 1 => hier_parent' = Null
  <2>1. ASSUME n - 1 <= 1 PROVE 1 \in DOMAIN frames /\ 1 >= n - 1
    BY <1>2, <2>1
  <2>2. QED
    BY <1>1, <2>1 DEF StackOK, Top
<1>12. \A i \in DOMAIN frames' : DOMAIN frames'[i] = {"code", "env", "parent"}
  BY <1>2, <1>3, <1>4 DEF StackOK
<1>13. frames' # <<>> => frames'[Len(frames')].code \in Seq(ToSet(frames'[Len(frames')].code))
  BY <1>1, <1>6 DEF StackOK
<1>14. waiting' = <<>> /\ waiting' \in Seq(DOMAIN kernel')
  BY <1>1
<1>15. StackOK'
  BY <1>3, <1>9, <1>10, <1>11, <1>12, <1>13, <1>14 DEF StackOK
<1>16. QED
  BY <1>8, <1>15

(* skir.wait: what main promised, it now waits for.                        *)
LEMMA WaitWaits ==
  ASSUME StackOK, ChildrenOK, Reached, ProperWait, handleWaitInst
  PROVE  StackOK' /\ ChildrenOK' /\ Reached'
<1> DEFINE x == Top.env[Inst.var]
<1>1. /\ Ready("wait") /\ frames # <<>> /\ Top.code # <<>> /\ waiting = <<>>
      /\ waiting' = <<x>> /\ frames' = Advance(Top.env) /\ UNCHANGED <<prog, objects, hier_parent>>
  BY DEF handleWaitInst, Ready
<1>2. Len(frames) = 1 /\ x \in DOMAIN kernel
  BY <1>1 DEF ProperWait, Callee
<1>3. \A y \in Promised : y # x => y \in Promised'
  BY <1>1, PromisesKept
<1>4. /\ OnStack' = OnStack
      /\ frames' \in Seq(ToSet(frames')) /\ Len(frames') = Len(frames) /\ frames' # <<>>
      /\ \A i \in DOMAIN frames' : DOMAIN frames'[i] = {"code", "env", "parent"}
      /\ frames'[Len(frames')].code \in Seq(ToSet(frames'[Len(frames')].code))
      /\ Len(frames') <= 1 => hier_parent' = Null
      /\ \A i \in DOMAIN frames' : i >= Len(frames') - 1 => frames'[i].parent = Null
  BY <1>1, StackAdvances
<1> HIDE DEF x
<1>5. ToSet(waiting) = {} /\ ToSet(waiting') = {x}
  BY <1>1 DEF ToSet
<1>6. SameTree
  BY <1>1, SameObjectsTree
<1>7. ChildrenOK' /\ Reached'
  BY <1>3, <1>4, <1>5, <1>6, ReachedKept
<1>8. StackKernels'
  BY <1>4, <1>6, StackKernelsKept DEF StackOK
<1>9. kernel' = kernel /\ waiting' \in Seq(DOMAIN kernel')
  BY <1>1, <1>2 DEF objects
<1>10. Len(frames') <= 1
  BY <1>2, <1>4
<1>11. StackOK'
  BY <1>4, <1>8, <1>9, <1>10 DEF StackOK
<1>12. QED
  BY <1>7, <1>11

(* waitKernel replaces a hierarchical kernel by its children, and drops a  *)
(* kernel that is done.                                                    *)
LEMMA WaitForHead ==
  ASSUME StackOK, ChildrenOK, Reached, waiting # <<>>,
         UNCHANGED <<prog, objects, frames, hier_parent>>,
         NEW w \in Seq(DOMAIN kernel), w = waiting', ToSet(Tail(waiting)) \subseteq ToSet(w),
         kernel[waiting[1]].hier => ToSet(kernel[waiting[1]].children) \subseteq ToSet(w),
         ~kernel[waiting[1]].hier => kernel[waiting[1]].status = "done"
  PROVE  StackOK' /\ ChildrenOK' /\ Reached'
<1> DEFINE h == waiting[1]
<1>1. waiting \in Seq(DOMAIN kernel) /\ Len(frames) <= 1
  BY DEF StackOK
<1>2. h \in DOMAIN kernel /\ ToSet(waiting) = {h} \cup ToSet(Tail(waiting))
  BY <1>1, HeadTail
<1>3. OnStack = {}
  BY <1>1, NoStack
<1>4. prog' = prog /\ kernel' = kernel /\ OnStack' = OnStack /\ Promised' = Promised
  BY DEF objects, OnStack, Promised, FrameWaits
<1> HIDE DEF h
<1>5. ASSUME NEW S, Covering(S)'
      PROVE  OnStack' \subseteq S /\ \A k \in DOMAIN kernel' : Undone(k)' => k \in S
  <2>1. Closed(S) /\ ToSet(w) \subseteq S /\ Promised \subseteq S
    BY <1>4, <1>5 DEF Covering, Closed
  <2>2. Closed(S \cup {h})
    BY <1>2, <2>1 DEF Closed, h
  <2>3. Covering(S \cup {h})
    BY <1>2, <2>1, <2>2 DEF Covering
  <2>4. \A k \in DOMAIN kernel : Undone(k) => k \in S \cup {h}
    BY <2>3 DEF Reached
  <2>5. ~Undone(h)
    BY DEF Undone, h
  <2>6. QED
    BY <1>3, <1>4, <2>4, <2>5 DEF Undone
<1>6. Reached'
  BY <1>5 DEF Reached
<1>7. ChildrenOK'
  BY <1>4 DEF ChildrenOK
<1>8. StackKernels'
  BY <1>3, <1>4 DEF StackKernels
<1>9. StackOK'
  BY <1>1, <1>4, <1>8 DEF StackOK
<1>10. QED
  BY <1>6, <1>7, <1>9

LEMMA WaitChildren ==
  ASSUME StackOK, ChildrenOK, Reached, waitChildren
  PROVE  StackOK' /\ ChildrenOK' /\ Reached'
<1> DEFINE h == waiting[1]
           c == kernel[h].children
           t == Tail(waiting)
<1>1. /\ waiting # <<>> /\ kernel[h].hier /\ waiting' = c \o t
      /\ UNCHANGED <<prog, objects, frames, hier_parent>>
  BY DEF waitChildren
<1>2. waiting \in Seq(DOMAIN kernel)
  BY DEF StackOK
<1>3. h \in DOMAIN kernel /\ t \in Seq(DOMAIN kernel)
  BY <1>1, <1>2, HeadTail
<1>4. c \in Seq(DOMAIN kernel)
  BY <1>3 DEF ChildrenOK
<1> HIDE DEF c, t
<1>5. c \o t \in Seq(DOMAIN kernel) /\ ToSet(c \o t) = ToSet(c) \cup ToSet(t)
  BY <1>3, <1>4, ToSetConcat
<1>6. kernel[h].hier \in BOOLEAN
  BY <1>3 DEF ChildrenOK
<1>7. ToSet(Tail(waiting)) \subseteq ToSet(waiting') /\ waiting' \in Seq(DOMAIN kernel)
      /\ ToSet(kernel[waiting[1]].children) \subseteq ToSet(waiting')
  BY <1>1, <1>5 DEF c, t
<1>8. QED
  BY <1>1, <1>6, <1>7, WaitForHead

LEMMA WaitKernel ==
  ASSUME StackOK, ChildrenOK, Reached, waitKernel
  PROVE  StackOK' /\ ChildrenOK' /\ Reached'
<1> DEFINE h == waiting[1]
<1>1. /\ waiting # <<>> /\ ~kernel[h].hier /\ waiting' = Tail(waiting)
      /\ kernel[h].status = "done"
      /\ UNCHANGED <<prog, objects, frames, hier_parent>>
  BY DEF waitKernel, AtLeaf
<1>2. waiting \in Seq(DOMAIN kernel)
  BY DEF StackOK
<1>3. h \in DOMAIN kernel /\ waiting' \in Seq(DOMAIN kernel)
  BY <1>1, <1>2, HeadTail
<1>4. QED
  BY <1>1, <1>3, WaitForHead

(* A client's call is executed in a frame of its own.                      *)
LEMMA WaitRequest ==
  ASSUME StackOK, ChildrenOK, Reached, NEW r, CallRequest(r)
  PROVE  StackOK' /\ ChildrenOK' /\ Reached'
<1>1. PICK c, env : frames' = <<Frame(<<c>>, env, hier_parent)>>
  BY DEF CallRequest
<1>2. frames = <<>> /\ UNCHANGED <<prog, objects, hier_parent, waiting>>
  BY DEF CallRequest, Send
<1>3. hier_parent = Null /\ OnStack = {} /\ Promised = {}
  <2>1. Len(frames) <= 1
    BY <1>2
  <2>2. QED
    BY <1>2, <2>1, NoStack DEF StackOK, Promised
<1> DEFINE f == Frame(<<c>>, env, hier_parent)
<1>4. f.parent = Null /\ DOMAIN f = {"code", "env", "parent"} /\ f.code = <<c>>
  BY <1>3 DEF Frame
<1> HIDE DEF f
<1>5. /\ frames' = <<f>> /\ Len(frames') = 1 /\ DOMAIN frames' = {1} /\ frames'[1] = f
      /\ ToSet(frames') = {f} /\ frames' \in Seq({f})
  BY <1>1 DEF f, ToSet
<1>6. OnStack' = {}
  BY <1>2, <1>3, <1>4, <1>5 DEF OnStack
<1>7. SameTree
  BY <1>2, SameObjectsTree
<1>8. ChildrenOK' /\ Reached'
  BY <1>2, <1>3, <1>6, <1>7, ReachedKept
<1>9. StackKernels'
  BY <1>6 DEF StackKernels
<1>10. ToSet(f.code) = {c} /\ f.code \in Seq({c})
  BY <1>4 DEF ToSet
<1>11. kernel' = kernel
  BY <1>2 DEF objects
<1>12. /\ waiting' \in Seq(DOMAIN kernel') /\ Len(frames') <= 1 /\ hier_parent' = Null
       /\ frames' \in Seq(ToSet(frames'))
       /\ frames'[Len(frames')].code \in Seq(ToSet(frames'[Len(frames')].code))
       /\ \A i \in DOMAIN frames' :
            DOMAIN frames'[i] = {"code", "env", "parent"} /\ frames'[i].parent = Null
  <2>1. waiting' \in Seq(DOMAIN kernel') /\ hier_parent' = Null
    BY <1>2, <1>3, <1>11 DEF StackOK
  <2>2. frames' \in Seq(ToSet(frames')) /\ Len(frames') <= 1
    BY <1>5
  <2>3. frames'[Len(frames')] = f /\ \A i \in DOMAIN frames' : frames'[i] = f
    BY ONLY <1>5
  <2>4. QED
    BY <1>4, <1>10, <2>1, <2>2, <2>3
<1>13. StackOK'
  BY ONLY <1>9, <1>12 DEF StackOK
<1>14. QED
  BY <1>8, <1>13
-----------------------------------------------------------------------------
LEMMA InitWaitInv == MainCode /\ EInit => WaitInv
<1> SUFFICES ASSUME MainCode, EInit PROVE WaitInv
  OBVIOUS
<1> DEFINE f == Frame(prog.code, <<>>, Null)
           c == prog.code
<1>1. /\ kernel = <<>> /\ hier_parent = Null /\ frames = <<f>> /\ waiting = <<>>
      /\ c \in Seq(ToSet(c))
  BY DEF EInit, Init, MainCode
<1>2. f.parent = Null /\ DOMAIN f = {"code", "env", "parent"} /\ f.code = c
  BY DEF Frame
<1> HIDE DEF f, c
<1>3. /\ DOMAIN kernel = {} /\ Len(frames) = 1 /\ DOMAIN frames = {1} /\ frames[1] = f
      /\ ToSet(frames) = {f} /\ frames \in Seq({f})
  BY <1>1 DEF ToSet
<1>4. OnStack = {}
  BY <1>1, <1>2, <1>3 DEF OnStack
<1>5. StackOK
  <2>1. frames[Len(frames)] = f /\ \A i \in DOMAIN frames : frames[i] = f
    BY ONLY <1>3
  <2>2. StackKernels
    BY <1>4 DEF StackKernels
  <2>3. waiting \in Seq(DOMAIN kernel)
    BY <1>1
  <2>4. QED
    BY ONLY <1>1, <1>2, <1>3, <2>1, <2>2, <2>3 DEF StackOK
<1>6. ChildrenOK /\ Reached
  BY <1>3, <1>4 DEF ChildrenOK, Reached
<1>7. QED
  BY <1>5, <1>6 DEF WaitInv

(* Nothing happens after a failed assertion.                               *)
LEMMA Stopped == aborted /\ [ENext]_evars => aborted'
<1> SUFFICES ASSUME aborted, [ENext]_evars PROVE aborted'
  OBVIOUS
<1>1. ~Main
  BY DEF Main, handleStreamInst, handleKernelInst, Add, callHierarchical, Leave, callKernel,
         handleWaitInst, waitChildren, findKernel, waitKernel, AtLeaf, Ready
<1>2. \A k \in DOMAIN kernel : ~Work(k)
  <2>1. \A k : ~(PopElement(k) \/ PushElement(k) \/ handleBecomeInst(k))
    BY DEF PopElement, PushElement, handleBecomeInst, Active, Turn
  <2>2. \A k : ~done(k)
    BY DEF done, MarkEnd, FreeEnd, Signal, Unmap, Leaving, Turn
  <2>3. QED
    BY <2>1, <2>2 DEF Work
<1>3. ~onEvent
  BY DEF onEvent, EchoRequest, IncludeModuleRequest, KernelRequest, StreamRequest, CallRequest,
         ShmRequest, StateRequest, DotRequest, Send
<1>4. QED
  BY <1>1, <1>2, <1>3 DEF ENext, evars, vars

LEMMA NextWaitInv == GraphInv /\ WaitInv /\ Disciplined /\ [ENext]_evars => WaitInv'
<1> SUFFICES ASSUME GraphInv, WaitInv, Disciplined, [ENext]_evars PROVE WaitInv'
  OBVIOUS
<1>1. CASE aborted
  BY <1>1, Stopped DEF WaitInv
<1>2. CASE ~aborted
  <2>1. /\ KernelsOK /\ StreamsOK /\ StackOK /\ ChildrenOK /\ Reached
        /\ ProperCall /\ ProperWait /\ NoBecome
    BY <1>2 DEF GraphInv, WaitInv, Disciplined
  <2>2. SUFFICES StackOK' /\ ChildrenOK' /\ Reached'
    BY DEF WaitInv
  <2>3. ASSUME UNCHANGED <<prog, kernel, frames, hier_parent, waiting>>
        PROVE  StackOK' /\ ChildrenOK' /\ Reached'
    <3>1. SameTree
      BY <2>3 DEF SameTree, Remembers
    <3>2. QED
      BY <2>1, <2>3, <3>1, StackSame
  <2>4. CASE handleStreamInst \/ handleKernelInst \/ Add
    BY <2>1, <2>4, WaitQuiet
  <2>5. CASE callHierarchical
    BY <2>1, <2>5, WaitCallHierarchical
  <2>6. CASE Leave
    BY <2>1, <2>6, WaitLeave
  <2>7. CASE callKernel
    BY <2>1, <2>7, WaitCallKernel
  <2>8. CASE handleWaitInst
    BY <2>1, <2>8, WaitWaits
  <2>9. CASE waitChildren \/ waitKernel
    BY <2>1, <2>9, WaitChildren, WaitKernel
  <2>10. ASSUME NEW k \in DOMAIN kernel, Work(k)
         PROVE  StackOK' /\ ChildrenOK' /\ Reached'
    <3>1. ~handleBecomeInst(k)
      BY <2>1 DEF NoBecome, handleBecomeInst
    <3>2. SameTree /\ UNCHANGED <<frames, hier_parent, waiting>>
      BY <2>1, <2>10, <3>1, WorkTree
    <3>3. QED
      BY <2>1, <3>2, StackSame
  <2>11. ASSUME NEW r, KernelRequest(r)
         PROVE  StackOK' /\ ChildrenOK' /\ Reached'
    <3>1. CASE r.work \notin fns
      BY <2>3, <2>11, <3>1 DEF KernelRequest, vars, objects
    <3>2. CASE r.work \in fns
      <4>1. /\ kernel' = WithKernel(r.work, [state |-> Lookup(r.args)])
            /\ UNCHANGED <<prog, frames, hier_parent, waiting>>
        BY <2>11, <3>2 DEF KernelRequest
      <4>2. SameTree
        BY <2>1, <4>1, NewKernelTree
      <4>3. QED
        BY <2>1, <4>1, <4>2, StackSame
    <3>3. QED
      BY <3>1, <3>2
  <2>12. ASSUME NEW r, CallRequest(r)
         PROVE  StackOK' /\ ChildrenOK' /\ Reached'
    BY <2>1, <2>12, WaitRequest
  <2>13. ASSUME NEW r, \/ EchoRequest(r) \/ IncludeModuleRequest(r) \/ StreamRequest(r)
                       \/ ShmRequest(r) \/ StateRequest(r) \/ DotRequest(r)
         PROVE  StackOK' /\ ChildrenOK' /\ Reached'
    <3>1. UNCHANGED <<prog, kernel, frames, hier_parent, waiting>>
      BY <2>13 DEF EchoRequest, IncludeModuleRequest, StreamRequest, ShmRequest,
                   StateRequest, DotRequest, vars, objects
    <3>2. QED
      BY <2>3, <3>1
  <2>14. CASE UNCHANGED evars \/ findKernel
    BY <2>3, <2>14 DEF evars, vars, objects, findKernel
  <2>15. QED
    BY <2>4, <2>5, <2>6, <2>7, <2>8, <2>9, <2>10, <2>11, <2>12, <2>13, <2>14
       DEF ENext, Main, onEvent
<1>3. QED
  BY <1>1, <1>2

(* While the program runs, waitKernel's walk through children will reach   *)
(* every kernel that is called and not done.                               *)
THEOREM WaitInvariance == MainCode /\ ESpec /\ []Disciplined => []WaitInv
<1>1. Disciplined => ProperCall
  BY DEF Disciplined
<1>2. QED
  BY <1>1, InitGraphInv, NextGraphInv, InitWaitInv, NextWaitInv, PTL DEF ESpec
-----------------------------------------------------------------------------
(* The ends of one thread's streams.                                       *)

(* k has marked its end of the stream it has reached in done, and will     *)
(* look at the other one next.                                             *)
Marked(k) == kernel[k].status = "ending" /\ kernel[k].half
At(k) == Ends(k)[kernel[k].at]
OwnEnd(k) == IF Reads(k) THEN stream[At(k)].dst ELSE stream[At(k)].src
Dead(s) == stream[s].src = Ended /\ stream[s].dst = Ended

(* On one thread, nobody touches that mark before k looks, and a stream    *)
(* with two dead ends is the one that k has just marked.                   *)
EndsInTurn == OneThread =>
  /\ \A k \in DOMAIN kernel : Marked(k) =>
       kernel[k].at <= Len(Ends(k)) /\ OwnEnd(k) = Ended
  /\ \A s \in DOMAIN stream : Dead(s) => \E k \in DOMAIN kernel : Marked(k) /\ At(k) = s

LEMMA MarkedEnds ==
  ASSUME GraphInv, NEW k \in DOMAIN kernel, kernel[k].status = "ending",
         kernel[k].at <= Len(Ends(k))
  PROVE  /\ At(k) \in DOMAIN stream
         /\ Reads(k) => At(k) \in ToSet(kernel[k].ins)
         /\ ~Reads(k) => At(k) \in ToSet(kernel[k].outs)
<1> DEFINE i == kernel[k].ins
           o == kernel[k].outs
           a == kernel[k].at
           T == DOMAIN stream
<1>1. /\ i \in Seq(T) /\ o \in Seq(T) /\ a \in Nat \ {0} /\ a <= Len(i \o o)
      /\ At(k) = (i \o o)[a] /\ (Reads(k) <=> a <= Len(i))
  BY BusyFacts DEF At, Ends, Reads, Busy
<1> HIDE DEF i, o, a, T
<1>2. CASE a <= Len(i)
  <2>1. a \in DOMAIN i /\ At(k) = i[a]
    BY <1>1, <1>2
  <2>2. QED
    BY <1>1, <1>2, <2>1 DEF ToSet, i, T
<1>3. CASE ~(a <= Len(i))
  <2>1. a - Len(i) \in DOMAIN o /\ At(k) = o[a - Len(i)]
    BY <1>1, <1>3
  <2>2. QED
    BY <1>1, <1>3, <2>1 DEF ToSet, o, T
<1>4. QED
  BY <1>2, <1>3

(* Steps that mark nothing and leave the marked ends alone.                *)
EndsAlone ==
  /\ \A k \in DOMAIN kernel' : Marked(k)' => k \in DOMAIN kernel /\ Marked(k)
  /\ \A k \in DOMAIN kernel : Marked(k) =>
       /\ k \in DOMAIN kernel' /\ Marked(k)' /\ kernel'[k].at = kernel[k].at
       /\ kernel'[k].ins = kernel[k].ins /\ kernel'[k].outs = kernel[k].outs
       /\ OwnEnd(k) = Ended => OwnEnd(k)' = Ended
  /\ \A s \in DOMAIN stream' : Dead(s)' => s \in DOMAIN stream /\ Dead(s)

LEMMA EndsKept ==
  ASSUME EndsInTurn, UNCHANGED prog, OneThread => EndsAlone
  PROVE  EndsInTurn'
<1> SUFFICES ASSUME OneThread'
             PROVE  /\ \A k \in DOMAIN kernel' : Marked(k)' =>
                         kernel'[k].at <= Len(Ends(k)') /\ OwnEnd(k)' = Ended
                    /\ \A s \in DOMAIN stream' : Dead(s)' =>
                         \E k \in DOMAIN kernel' : Marked(k)' /\ At(k)' = s
  BY DEF EndsInTurn
<1>1. OneThread
  BY DEF OneThread
<1>2. EndsAlone
  BY <1>1
<1>3. ASSUME NEW k \in DOMAIN kernel', Marked(k)'
      PROVE  kernel'[k].at <= Len(Ends(k)') /\ OwnEnd(k)' = Ended
  <2>1. k \in DOMAIN kernel /\ Marked(k)
    BY <1>2, <1>3 DEF EndsAlone
  <2>2. kernel[k].at <= Len(Ends(k)) /\ OwnEnd(k) = Ended
    BY <1>1, <2>1 DEF EndsInTurn
  <2>3. kernel'[k].at = kernel[k].at /\ Ends(k)' = Ends(k) /\ OwnEnd(k)' = Ended
    BY <1>2, <2>1, <2>2 DEF EndsAlone, Ends
  <2>4. QED
    BY <2>2, <2>3
<1>4. ASSUME NEW s \in DOMAIN stream', Dead(s)'
      PROVE  \E k \in DOMAIN kernel' : Marked(k)' /\ At(k)' = s
  <2>1. s \in DOMAIN stream /\ Dead(s)
    BY <1>2, <1>4 DEF EndsAlone
  <2>2. PICK k \in DOMAIN kernel : Marked(k) /\ At(k) = s
    BY <1>1, <2>1 DEF EndsInTurn
  <2>3. k \in DOMAIN kernel' /\ Marked(k)' /\ At(k)' = At(k)
    BY <1>2, <2>2 DEF EndsAlone, At, Ends
  <2>4. QED
    BY <2>2, <2>3
<1>5. QED
  BY <1>3, <1>4

LEMMA EndsSame ==
  ASSUME EndsInTurn, UNCHANGED <<prog, kernel, stream>>
  PROVE  EndsInTurn'
<1>1. EndsAlone
  BY DEF EndsAlone, Marked, OwnEnd, At, Ends, Reads, Dead
<1>2. QED
  BY <1>1, EndsKept

LEMMA EndsNewStream ==
  ASSUME GraphInv, EndsInTurn, UNCHANGED <<prog, kernel>>, stream' = Append(stream, NewStream)
  PROVE  EndsInTurn'
<1> DEFINE n == Len(stream)
           T == ToSet(stream) \cup {NewStream}
<1>1. stream \in Seq(T) /\ NewStream \in T
  BY DEF GraphInv, StreamsOK
<1> HIDE DEF T
<1>2. /\ n \in Nat /\ DOMAIN stream = 1 .. n /\ DOMAIN stream' = 1 .. n + 1
      /\ stream'[n + 1] = NewStream /\ \A s \in 1 .. n : stream'[s] = stream[s]
  BY <1>1
<1>3. NewStream.src # Ended
  BY NewObjects DEF Null, Ended
<1>4. \A s \in 1 .. n + 1 : s \in 1 .. n \/ s = n + 1
  BY <1>2
<1>5. \A s \in DOMAIN stream' : Dead(s)' => s \in DOMAIN stream /\ Dead(s)
  BY <1>2, <1>3, <1>4 DEF Dead
<1>6. ASSUME OneThread, NEW k \in DOMAIN kernel, Marked(k)
      PROVE  OwnEnd(k) = Ended => OwnEnd(k)' = Ended
  <2>1. kernel[k].at <= Len(Ends(k)) /\ kernel[k].status = "ending"
    BY <1>6 DEF EndsInTurn, Marked
  <2>2. At(k) \in DOMAIN stream
    BY <2>1, MarkedEnds
  <2>3. At(k)' = At(k) /\ Reads(k)' = Reads(k)
    BY DEF At, Ends, Reads
  <2>4. stream'[At(k)] = stream[At(k)]
    BY <1>2, <2>2
  <2>5. QED
    BY <2>3, <2>4 DEF OwnEnd
<1>7. OneThread => EndsAlone
  BY <1>5, <1>6 DEF EndsAlone, Marked
<1>8. QED
  BY <1>7, EndsKept

LEMMA EndsNewKernel ==
  ASSUME GraphInv, EndsInTurn, NEW w, NEW a, kernel' = WithKernel(w, a),
         UNCHANGED <<prog, stream>>
  PROVE  EndsInTurn'
<1> DEFINE n == next_kernel_id
<1>1. n \in Nat /\ DOMAIN kernel = 0 .. n - 1
  BY DEF GraphInv, KernelsOK
<1>2. /\ DOMAIN kernel' = DOMAIN kernel \cup {n} /\ kernel'[n] = NewKernel(w, a)
      /\ \A j \in DOMAIN kernel : kernel'[j] = kernel[j]
  BY <1>1 DEF WithKernel
<1>3. \A j \in DOMAIN kernel' : Marked(j)' => j \in DOMAIN kernel
  <2> HIDE DEF n
  <2>1. kernel'[n].status = "new"
    BY <1>2, NewObjects
  <2>2. QED
    BY <1>2, <2>1 DEF Marked
<1>4. \A k \in DOMAIN kernel : /\ Marked(k)' <=> Marked(k)
                               /\ OwnEnd(k)' = OwnEnd(k)
  BY <1>2 DEF Marked, OwnEnd, At, Ends, Reads
<1>5. EndsAlone
  BY <1>2, <1>3, <1>4 DEF EndsAlone, Dead
<1>6. QED
  BY <1>5, EndsKept

LEMMA EndsHierarchical ==
  ASSUME GraphInv, EndsInTurn, ProperCall, callHierarchical
  PROVE  EndsInTurn'
<1> DEFINE k == Callee
           ins == Value(Inst.ins)
           outs == Value(Inst.outs)
<1>1. Ready("call") /\ kernel' = Called(k, ins, outs) /\ UNCHANGED <<prog, stream>>
  BY DEF callHierarchical, Callee
<1>2. k \in DOMAIN kernel /\ kernel[k].status \notin Busy
  BY <1>1 DEF ProperCall
<1> HIDE DEF k, ins, outs
<1>3. /\ DOMAIN kernel' = DOMAIN kernel
      /\ \A j \in DOMAIN kernel :
           Alike(kernel'[j], kernel[j]) /\ (j # k => SameEnds(kernel'[j], kernel[j]))
  BY <1>1, <1>2, CalledFacts DEF GraphInv
<1>4. ASSUME NEW j \in DOMAIN kernel
      PROVE  /\ Marked(j)' <=> Marked(j)
             /\ Marked(j) => /\ kernel'[j].at = kernel[j].at
                             /\ kernel'[j].ins = kernel[j].ins
                             /\ kernel'[j].outs = kernel[j].outs
  BY <1>2, <1>3 DEF Marked, Alike, SameEnds, Busy
<1>5. \A j \in DOMAIN kernel : Marked(j) => OwnEnd(j)' = OwnEnd(j)
  BY <1>1, <1>4 DEF OwnEnd, At, Ends, Reads
<1>6. EndsAlone
  BY <1>1, <1>3, <1>4, <1>5 DEF EndsAlone, Dead
<1>7. QED
  BY <1>1, <1>6, EndsKept

(* callKernel and handleBecomeInst revive ends, but none of a kernel in    *)
(* done: it still names the streams it has left.                           *)
LEMMA EndsConnect ==
  ASSUME GraphInv, EndsInTurn, UNCHANGED prog,
         NEW k, NEW ins, NEW outs, Connecting(k, ins, outs),
         OneThread => \A j \in DOMAIN kernel : Marked(j) =>
                        /\ ToSet(kernel[j].ins) \cap ToSet(ins) = {}
                        /\ ToSet(kernel[j].outs) \cap ToSet(outs) = {}
  PROVE  EndsInTurn'
<1>1. /\ k \in DOMAIN kernel' /\ KernelsOK' /\ kernel'[k].status = "active"
      /\ ins \in Seq(DOMAIN stream) /\ outs \in Seq(DOMAIN stream)
      /\ stream' = allocateStreams(stream, k, ins, outs)
      /\ DOMAIN kernel \subseteq DOMAIN kernel'
      /\ \A j \in DOMAIN kernel' : j # k /\ kernel'[j].status \in Busy =>
           /\ j \in DOMAIN kernel
           /\ Alike(kernel'[j], kernel[j]) /\ SameEnds(kernel'[j], kernel[j])
      /\ \A j \in DOMAIN kernel : kernel[j].status = "ending" =>
           j # k /\ kernel'[j].status = "ending"
  BY DEF Connecting
<1>2. /\ DOMAIN stream' = DOMAIN stream
      /\ \A s \in DOMAIN stream :
           /\ stream'[s].dst = IF s \in ToSet(ins) THEN k ELSE stream[s].dst
           /\ stream'[s].src = IF s \in ToSet(outs) THEN k ELSE stream[s].src
  BY <1>1, AllocateFacts DEF GraphInv
<1>3. k # Ended
  <2>1. Ended \notin DOMAIN kernel'
    BY <1>1 DEF KernelsOK, Ended
  <2>2. QED
    BY <1>1, <2>1
<1>4. \A s \in DOMAIN stream' : Dead(s)' => s \in DOMAIN stream /\ Dead(s)
  BY <1>2, <1>3 DEF Dead
<1>5. ASSUME NEW j \in DOMAIN kernel', Marked(j)' PROVE j \in DOMAIN kernel /\ Marked(j)
  BY <1>1, <1>5 DEF Marked, Busy, Alike
<1>6. ASSUME NEW j \in DOMAIN kernel, Marked(j)
      PROVE  /\ j \in DOMAIN kernel' /\ Marked(j)' /\ kernel'[j].at = kernel[j].at
             /\ kernel'[j].ins = kernel[j].ins /\ kernel'[j].outs = kernel[j].outs
  BY <1>1, <1>6 DEF Marked, Busy, Alike, SameEnds
<1>7. ASSUME OneThread, NEW j \in DOMAIN kernel, Marked(j) PROVE OwnEnd(j)' = OwnEnd(j)
  <2>1. kernel[j].at <= Len(Ends(j)) /\ kernel[j].status = "ending"
    BY <1>7 DEF EndsInTurn, Marked
  <2>2. /\ At(j) \in DOMAIN stream
        /\ Reads(j) => At(j) \in ToSet(kernel[j].ins)
        /\ ~Reads(j) => At(j) \in ToSet(kernel[j].outs)
    BY <2>1, MarkedEnds
  <2>3. At(j)' = At(j) /\ Reads(j)' = Reads(j)
    BY <1>6, <1>7 DEF At, Ends, Reads
  <2>4. /\ Reads(j) => At(j) \notin ToSet(ins)
        /\ ~Reads(j) => At(j) \notin ToSet(outs)
    BY <1>7, <2>2
  <2>5. QED
    BY <1>2, <2>2, <2>3, <2>4 DEF OwnEnd
<1>8. OneThread => EndsAlone
  BY <1>4, <1>5, <1>6, <1>7 DEF EndsAlone
<1>9. QED
  BY <1>8, EndsKept

LEMMA EndsCall ==
  ASSUME GraphInv, EndsInTurn, ProperCall, callKernel
  PROVE  EndsInTurn'
<1> DEFINE k == Callee
           ins == Value(Inst.ins)
           outs == Value(Inst.outs)
<1>1. Connecting(k, ins, outs) /\ FreeEnds(ins, outs)
  BY CallConnects
<1>2. UNCHANGED prog
  BY DEF callKernel
<1> HIDE DEF k, ins, outs
<1>3. \A j \in DOMAIN kernel : Marked(j) =>
        /\ ToSet(kernel[j].ins) \cap ToSet(ins) = {}
        /\ ToSet(kernel[j].outs) \cap ToSet(outs) = {}
  BY <1>1 DEF FreeEnds, Marked, Busy
<1>4. QED
  BY <1>1, <1>2, <1>3, EndsConnect

LEMMA EndsBecome ==
  ASSUME GraphInv, EndsInTurn, NEW k \in DOMAIN kernel, handleBecomeInst(k)
  PROVE  EndsInTurn'
<1> DEFINE n == next_kernel_id
           ins == kernel[k].ins
           outs == kernel[k].outs
<1>1. Connecting(n, ins, outs)
  BY BecomeConnects
<1>2. UNCHANGED prog /\ Turn(k) /\ kernel[k].status = "active"
  BY DEF handleBecomeInst, Active
<1>3. OneThread => \A j \in DOMAIN kernel : ~Marked(j)
  BY <1>2 DEF Turn, Ending, Marked
<1> HIDE DEF n, ins, outs
<1>4. QED
  BY <1>1, <1>2, <1>3, EndsConnect

(* A kernel's own steps: on one thread, no other kernel is in done.        *)
LEMMA EndsWork ==
  ASSUME GraphInv, EndsInTurn, NEW k \in DOMAIN kernel, Work(k), ~handleBecomeInst(k),
         UNCHANGED prog
  PROVE  EndsInTurn'
<1> SUFFICES ASSUME OneThread'
             PROVE  /\ \A j \in DOMAIN kernel' : Marked(j)' =>
                         kernel'[j].at <= Len(Ends(j)') /\ OwnEnd(j)' = Ended
                    /\ \A s \in DOMAIN stream' : Dead(s)' =>
                         \E j \in DOMAIN kernel' : Marked(j)' /\ At(j)' = s
  BY DEF EndsInTurn
<1>1. OneThread /\ Turn(k)
  <2>1. PopElement(k) \/ PushElement(k) => Turn(k)
    BY ONLY TRUE DEF PopElement, PushElement, Active
  <2>2. done(k) => Turn(k)
    BY ONLY TRUE DEF done, MarkEnd, FreeEnd, Signal, Unmap, Leaving
  <2>3. QED
    BY <2>1, <2>2 DEF Work, OneThread
<1>2. \A j \in DOMAIN kernel : kernel[j].status = "ending" => j = k
  BY <1>1 DEF Turn, Ending
<1>3. OwnStep(k) /\ OneKind(k) /\ KernelsOK /\ StreamsOK
  BY WorkFacts DEF GraphInv
<1>4. /\ DOMAIN kernel' = DOMAIN kernel
      /\ \A j \in DOMAIN kernel : j # k => kernel'[j] = kernel[j]
      /\ kernel'[k].ins = kernel[k].ins /\ kernel'[k].outs = kernel[k].outs
  BY <1>3 DEF OwnStep
<1>5. /\ \A j \in DOMAIN kernel : Marked(j) => j = k
      /\ \A j \in DOMAIN kernel' : Marked(j)' => j = k
  BY <1>2, <1>4 DEF Marked
<1>6. \A s \in DOMAIN stream : Dead(s) => Marked(k) /\ At(k) = s
  BY <1>1, <1>5 DEF EndsInTurn
<1>7. /\ Ends(k)' = Ends(k) /\ (Reads(k)' <=> kernel'[k].at <= Len(kernel[k].ins))
      /\ (Reads(k) <=> kernel[k].at <= Len(kernel[k].ins))
  BY <1>4 DEF Ends, Reads
<1>8. CASE Marks(k)
  <2>1. /\ kernel[k].status = "ending" /\ ~kernel[k].half
        /\ kernel[k].at <= Len(Ends(k)) /\ kernel'[k].at = kernel[k].at
        /\ kernel'[k].status = "ending" /\ kernel'[k].half
        /\ stream' = IF Reads(k) THEN [stream EXCEPT ![At(k)].dst = Ended]
                     ELSE [stream EXCEPT ![At(k)].src = Ended]
    BY <1>8 DEF Marks, MarkEnd, Leaving, At
  <2>2. At(k) \in DOMAIN stream /\ At(k)' = At(k) /\ Reads(k)' = Reads(k)
    BY <1>4, <1>7, <2>1, MarkedEnds DEF At, Reads
  <2>3. DOMAIN stream[At(k)] = SFields
    BY <1>3, <2>2 DEF StreamsOK, StreamOK
  <2>4. OwnEnd(k)' = Ended
    BY <2>1, <2>2, <2>3 DEF OwnEnd, SFields
  <2>5. \A s \in DOMAIN stream : s # At(k) => stream'[s] = stream[s]
    BY <2>1
  <2>6. DOMAIN stream' = DOMAIN stream
    BY <2>1
  <2>7. \A s \in DOMAIN stream : ~Dead(s)
    BY <1>6, <2>1 DEF Marked
  <2>8. \A s \in DOMAIN stream' : Dead(s)' => s = At(k)
    BY <2>5, <2>6, <2>7 DEF Dead
  <2>9. k \in DOMAIN kernel' /\ Marked(k)'
    BY <1>4, <2>1 DEF Marked
  <2>10. kernel'[k].at <= Len(Ends(k)')
    BY <1>7, <2>1
  <2>11. QED
    BY <1>5, <2>2, <2>4, <2>8, <2>9, <2>10
<1>9. CASE Frees(k)
  <2>1. ~kernel'[k].half
    BY <1>9 DEF Frees
  <2>2. \A j \in DOMAIN kernel' : ~Marked(j)'
    BY <1>5, <2>1 DEF Marked
  <2>3. \/ Dead(At(k)) /\ stream' = [stream EXCEPT ![At(k)] = NewStream]
        \/ ~Dead(At(k)) /\ stream' = stream
    BY <1>1, <1>9 DEF Frees, FreeEnd, At, Dead, Unseen
  <2>4. NewStream.src # Ended
    BY NewObjects DEF Null, Ended
  <2>5. \A s \in DOMAIN stream' : ~Dead(s)'
    BY <1>6, <2>3, <2>4 DEF Dead
  <2>6. QED
    BY <2>2, <2>5
<1>10. CASE Moves(k) \/ Returns(k) \/ Signals(k) \/ Unmaps(k)
  <2>1. ~Marked(k)
    <3>1. CASE Signals(k)
      <4>1. kernel[k].status = "ending" /\ kernel[k].at > Len(Ends(k))
        BY <3>1 DEF Signals, Signal
      <4>2. Marked(k) => kernel[k].at <= Len(Ends(k))
        BY <1>1 DEF EndsInTurn
      <4>3. kernel[k].at \in Nat /\ Len(Ends(k)) \in Nat
        <5>1. /\ kernel[k].ins \in Seq(DOMAIN stream) /\ kernel[k].outs \in Seq(DOMAIN stream)
              /\ kernel[k].at \in Nat
          BY <4>1, BusyFacts DEF Busy
        <5> DEFINE i == kernel[k].ins
                   o == kernel[k].outs
                   T == DOMAIN stream
        <5>2. i \in Seq(T) /\ o \in Seq(T) /\ Ends(k) = i \o o
          BY <5>1 DEF Ends
        <5> HIDE DEF i, o, T
        <5>3. QED
          BY <5>1, <5>2
      <4>4. QED
        BY <4>1, <4>2, <4>3
    <3>2. QED
      BY <1>10, <3>1 DEF Moves, Returns, Unmaps, Unmap, Marked
  <2>2. ~Marked(k)'
    BY <1>10 DEF Moves, Returns, Signals, Unmaps, Marked
  <2>3. DOMAIN stream' = DOMAIN stream /\ \A s \in DOMAIN stream : Dead(s)' <=> Dead(s)
    <3>1. SameStreams
      <4>1. CASE Signals(k) \/ Unmaps(k)
        BY <1>3, <4>1, StreamsAlone DEF Signals, Unmaps, Signal, Unmap, Going
      <4>2. QED
        BY <1>10, <4>1 DEF Moves, Returns
    <3>2. QED
      BY <1>3, <3>1 DEF SameStreams, StreamsOK, Dead
  <2>4. QED
    BY <1>5, <1>6, <2>1, <2>2, <2>3
<1>11. QED
  BY <1>3, <1>8, <1>9, <1>10 DEF OneKind

LEMMA NextEnds == GraphInv /\ ProperCall /\ EndsInTurn /\ [ENext]_evars => EndsInTurn'
<1> SUFFICES ASSUME GraphInv, ProperCall, EndsInTurn, [ENext]_evars PROVE EndsInTurn'
  OBVIOUS
<1>1. UNCHANGED prog
  BY SameProgram
<1>2. ASSUME UNCHANGED <<kernel, stream>> PROVE EndsInTurn'
  BY <1>1, <1>2, EndsSame
<1>3. CASE handleStreamInst
  BY <1>1, <1>3, EndsNewStream DEF handleStreamInst
<1>4. CASE handleKernelInst
  BY <1>1, <1>4, EndsNewKernel DEF handleKernelInst
<1>5. CASE callHierarchical
  BY <1>5, EndsHierarchical
<1>6. CASE callKernel
  BY <1>6, EndsCall
<1>7. ASSUME NEW k \in DOMAIN kernel, Work(k) PROVE EndsInTurn'
  BY <1>1, <1>7, EndsWork, EndsBecome
<1>8. CASE Add \/ Leave \/ handleWaitInst \/ waitChildren \/ findKernel \/ waitKernel
  BY <1>2, <1>8 DEF Add, Leave, handleWaitInst, waitChildren, findKernel, waitKernel, objects
<1>9. ASSUME NEW r, StreamRequest(r) PROVE EndsInTurn'
  BY <1>1, <1>9, EndsNewStream DEF StreamRequest
<1>10. ASSUME NEW r, KernelRequest(r) PROVE EndsInTurn'
  <2>1. CASE r.work \notin fns
    BY <1>2, <1>10, <2>1 DEF KernelRequest, vars, objects
  <2>2. CASE r.work \in fns
    BY <1>1, <1>10, <2>2, EndsNewKernel DEF KernelRequest
  <2>3. QED
    BY <2>1, <2>2
<1>11. ASSUME NEW r, \/ EchoRequest(r) \/ IncludeModuleRequest(r) \/ CallRequest(r)
                     \/ ShmRequest(r) \/ StateRequest(r) \/ DotRequest(r)
       PROVE  EndsInTurn'
  <2>1. UNCHANGED <<kernel, stream>>
    BY <1>11 DEF EchoRequest, IncludeModuleRequest, CallRequest, ShmRequest, StateRequest,
                 DotRequest, vars, objects
  <2>2. QED
    BY <1>2, <2>1
<1>12. CASE UNCHANGED evars
  BY <1>2, <1>12 DEF evars, vars, objects
<1>13. QED
  BY <1>3, <1>4, <1>5, <1>6, <1>7, <1>8, <1>9, <1>10, <1>11, <1>12 DEF ENext, Main, onEvent

(* On one thread, streams are freed with their last end, in whatever order *)
(* their kernels are called, become others and finish: the only stream     *)
(* with two dead ends is the one whose end a kernel in done has just       *)
(* marked, and which it looks at next.  (On several threads both kernels   *)
(* can look before they see the other's mark, and free it never.)          *)
THEOREM DeadStreamsFreed == ESpec /\ []ProperCall => []EndsInTurn
<1>1. EInit => EndsInTurn
  BY DEF EInit, Init, EndsInTurn
<1>2. QED
  BY <1>1, InitGraphInv, NextGraphInv, NextEnds, PTL DEF ESpec
-----------------------------------------------------------------------------
(* No assertion fails.                                                     *)

(* One worker of SKIRTbbSched runs everything.                             *)
Sequential == prog.force = "none" /\ prog.workers = 1

(* What waitKernel meets, now or through children, was called.             *)
CalledTree ==
  /\ \A k \in ToSet(waiting) : kernel[k].called
  /\ \A h \in DOMAIN kernel : \A k \in ToSet(kernel[h].children) : kernel[k].called

LEMMA CalledKept ==
  ASSUME StackOK, ChildrenOK, CalledTree, SameTree, ToSet(waiting') \subseteq ToSet(waiting)
  PROVE  CalledTree'
<1>1. ToSet(waiting) \subseteq DOMAIN kernel
  BY SeqElim DEF StackOK
<1>2. \A h \in DOMAIN kernel : ToSet(kernel[h].children) \subseteq DOMAIN kernel
  BY SeqElim DEF ChildrenOK
<1>3. \A k \in ToSet(waiting') : kernel'[k].called
  BY <1>1 DEF CalledTree, SameTree
<1>4. ASSUME NEW h \in DOMAIN kernel', NEW k \in ToSet(kernel'[h].children)
      PROVE  kernel'[k].called
  <2>1. CASE h \in DOMAIN kernel
    <3>1. k \in ToSet(kernel[h].children)
      BY <1>4, <2>1 DEF SameTree
    <3>2. k \in DOMAIN kernel /\ kernel[k].called
      BY <1>2, <2>1, <3>1 DEF CalledTree
    <3>3. QED
      BY <3>2 DEF SameTree
  <2>2. CASE h \notin DOMAIN kernel
    <3>1. kernel'[h].children = <<>>
      BY <2>2 DEF SameTree
    <3>2. QED
      BY <3>1 DEF ToSet
  <2>3. QED
    BY <2>1, <2>2
<1>5. QED
  BY <1>3, <1>4 DEF CalledTree

LEMMA CalledCall ==
  ASSUME GraphInv, StackOK, ChildrenOK, CalledTree, ProperCall, ProperWait,
         callKernel \/ callHierarchical
  PROVE  CalledTree' /\ (~aborted => ~aborted')
<1> DEFINE k == Callee
           ins == Value(Inst.ins)
           outs == Value(Inst.outs)
<1>1. Ready("call")
  BY DEF callKernel, callHierarchical
<1>2. k \in DOMAIN kernel /\ kernel[k].status \notin Busy /\ KernelsOK
  BY <1>1 DEF ProperCall, GraphInv
<1>3. ~kernel[k].impl
  BY <1>2 DEF KernelsOK, KernelOK, Busy
<1>4. /\ \/ kernel' = Called(k, ins, outs) /\ kernel[k].work \in Hierarchical
         \/ kernel' = Start(Called(k, ins, outs), k)
      /\ UNCHANGED <<prog, waiting>>
      /\ ~aborted => ~aborted'
  <2>1. CASE callKernel
    BY ONLY <1>3, <2>1 DEF callKernel, Callee
  <2>2. CASE callHierarchical
    BY ONLY <1>3, <2>2 DEF callHierarchical, Callee
  <2>3. QED
    BY ONLY <2>1, <2>2, callKernel \/ callHierarchical
<1> HIDE DEF ins, outs
<1>5. CallEffect(k)
  BY <1>1, <1>2, <1>4, CallStep
<1> HIDE DEF k
<1>6. ToSet(waiting) \subseteq DOMAIN kernel
  BY SeqElim DEF StackOK
<1>7. \A h \in DOMAIN kernel : ToSet(kernel[h].children) \subseteq DOMAIN kernel
  BY SeqElim DEF ChildrenOK
<1>8. \A j \in DOMAIN kernel : kernel[j].called => kernel'[j].called
  BY <1>5 DEF CallEffect
<1>9. ASSUME NEW h \in DOMAIN kernel, NEW j \in ToSet(kernel'[h].children)
      PROVE  kernel'[j].called
  <2>1. CASE j \in ToSet(kernel[h].children)
    BY <1>7, <1>8, <2>1 DEF CalledTree
  <2>2. CASE j \notin ToSet(kernel[h].children)
    <3>1. h = hier_parent /\ hier_parent # Null
      BY <1>5, <1>9, <2>2 DEF CallEffect
    <3>2. kernel'[h].children = Append(kernel[h].children, k)
      BY <1>5, <3>1 DEF CallEffect
    <3>3. kernel[h].children \in Seq(DOMAIN kernel)
      BY DEF ChildrenOK
    <3>4. ToSet(kernel'[h].children) = ToSet(kernel[h].children) \cup {k}
      BY <3>2, <3>3, ToSetAppend
    <3>5. QED
      BY <1>5, <1>9, <2>2, <3>4 DEF CallEffect
  <2>3. QED
    BY <2>1, <2>2
<1>10. DOMAIN kernel' = DOMAIN kernel
  BY <1>5 DEF CallEffect
<1>11. \A j \in ToSet(waiting') : kernel'[j].called
  BY <1>4, <1>6, <1>8 DEF CalledTree
<1>12. QED
  BY <1>4, <1>9, <1>10, <1>11 DEF CalledTree

LEMMA CalledWait ==
  ASSUME StackOK, ChildrenOK, CalledTree, ProperWait,
         handleWaitInst \/ waitChildren \/ findKernel \/ waitKernel
  PROVE  /\ CalledTree'
         /\ ~aborted /\ prog.force # "koro" => ~aborted'
<1>1. UNCHANGED kernel /\ waiting \in Seq(DOMAIN kernel)
  BY DEF handleWaitInst, waitChildren, findKernel, waitKernel, objects, StackOK
<1>2. SUFFICES /\ ~aborted /\ prog.force # "koro" => ~aborted'
               /\ \A k \in ToSet(waiting') : kernel[k].called
  BY <1>1 DEF CalledTree
<1>3. CASE handleWaitInst
  <2>1. /\ Ready("wait") /\ waiting' = <<Callee>> /\ UNCHANGED aborted
    BY <1>3 DEF handleWaitInst, Callee
  <2>2. kernel[Callee].called
    BY <2>1 DEF ProperWait
  <2>3. ToSet(waiting') = {Callee}
    BY <2>1 DEF ToSet
  <2>4. QED
    BY <2>1, <2>2, <2>3
<1>4. ASSUME waiting # <<>>
      PROVE  /\ waiting[1] \in DOMAIN kernel /\ Tail(waiting) \in Seq(DOMAIN kernel)
             /\ kernel[waiting[1]].called
             /\ \A k \in ToSet(Tail(waiting)) : kernel[k].called
  <2>1. /\ waiting[1] \in DOMAIN kernel /\ Tail(waiting) \in Seq(DOMAIN kernel)
        /\ ToSet(waiting) = {waiting[1]} \cup ToSet(Tail(waiting))
    BY <1>1, <1>4, HeadTail
  <2>2. QED
    BY <2>1 DEF CalledTree
<1>5. CASE waitChildren
  <2> DEFINE c == kernel[waiting[1]].children
             t == Tail(waiting)
  <2>1. waiting # <<>> /\ waiting' = c \o t /\ UNCHANGED aborted
    BY <1>5 DEF waitChildren
  <2>2. c \in Seq(DOMAIN kernel) /\ t \in Seq(DOMAIN kernel)
    BY <1>4, <2>1 DEF ChildrenOK
  <2>3. \A k \in ToSet(c) \cup ToSet(t) : kernel[k].called
    BY <1>4, <2>1 DEF CalledTree
  <2> HIDE DEF c, t
  <2>4. ToSet(waiting') = ToSet(c) \cup ToSet(t)
    BY <2>1, <2>2, ToSetConcat
  <2>5. QED
    BY <2>1, <2>3, <2>4
<1>6. CASE findKernel
  <2>1. /\ waiting # <<>> /\ ~kernel[waiting[1]].hier /\ waiting' = waiting
        /\ aborted' = ~kernel[waiting[1]].mapped
    BY <1>6 DEF findKernel, AtLeaf
  <2>2. prog.force # "koro" => kernel[waiting[1]].mapped
    BY <1>4, <2>1 DEF ChildrenOK
  <2>3. QED
    BY <2>1, <2>2 DEF CalledTree
<1>7. CASE waitKernel
  <2>1. waiting # <<>> /\ waiting' = Tail(waiting) /\ UNCHANGED aborted
    BY <1>7 DEF waitKernel, AtLeaf
  <2>2. QED
    BY <1>4, <2>1
<1>8. QED
  BY <1>3, <1>5, <1>6, <1>7

(* A kernel's own steps fail no assertion, and use no freed stream, while  *)
(* no other kernel of the thread is between two steps of done.             *)
LEMMA WorkSafe ==
  ASSUME GraphInv, EndsInTurn, OneThread, ~aborted, NEW k \in DOMAIN kernel, Work(k)
  PROVE  ~aborted'
<1>1. PopElement(k) \/ PushElement(k) \/ handleBecomeInst(k) => UNCHANGED aborted
  BY ONLY TRUE DEF PopElement, PushElement, handleBecomeInst
<1>2. MarkEnd(k) \/ Signal(k) \/ Unmap(k) => UNCHANGED aborted
  BY ONLY TRUE DEF MarkEnd, Signal, Unmap
<1>3. ASSUME FreeEnd(k) PROVE ~aborted'
  <2>1. Marked(k) /\ aborted' = (OwnEnd(k) # Ended)
    BY <1>3 DEF FreeEnd, Leaving, Marked, OwnEnd, At
  <2>2. OwnEnd(k) = Ended
    BY <2>1 DEF EndsInTurn
  <2>3. QED
    BY <2>1, <2>2
<1>4. QED
  BY <1>1, <1>2, <1>3 DEF Work, done

LEMMA NextCalled ==
  GraphInv /\ WaitInv /\ Disciplined /\ (aborted \/ CalledTree) /\ [ENext]_evars
    => (aborted \/ CalledTree)'
<1> SUFFICES ASSUME GraphInv, WaitInv, Disciplined, aborted \/ CalledTree, [ENext]_evars
             PROVE  aborted' \/ CalledTree'
  OBVIOUS
<1>1. CASE aborted
  BY <1>1, Stopped
<1>2. CASE ~aborted
  <2>1. /\ KernelsOK /\ StreamsOK /\ StackOK /\ ChildrenOK /\ CalledTree
        /\ ProperCall /\ ProperWait /\ NoBecome /\ UNCHANGED prog
    BY <1>2, SameProgram DEF GraphInv, WaitInv, Disciplined
  <2>2. ASSUME SameTree, UNCHANGED waiting PROVE CalledTree'
    BY <2>1, <2>2, CalledKept
  <2>3. ASSUME UNCHANGED <<kernel, waiting>> PROVE CalledTree'
    BY <2>1, <2>3 DEF CalledTree
  <2>4. CASE handleStreamInst \/ Add \/ Leave
    BY <2>3, <2>4 DEF handleStreamInst, Add, Leave, objects
  <2>5. CASE handleKernelInst
    <3>1. kernel' = WithKernel(Inst.work, Inst.args) /\ UNCHANGED waiting
      BY <2>5 DEF handleKernelInst
    <3>2. QED
      BY <2>1, <2>2, <3>1, NewKernelTree
  <2>6. CASE callKernel \/ callHierarchical
    BY <2>1, <2>6, CalledCall
  <2>7. CASE handleWaitInst \/ waitChildren \/ findKernel \/ waitKernel
    BY <2>1, <2>7, CalledWait
  <2>8. ASSUME NEW k \in DOMAIN kernel, Work(k) PROVE CalledTree'
    <3>1. ~handleBecomeInst(k)
      BY <2>1 DEF NoBecome, handleBecomeInst
    <3>2. SameTree /\ UNCHANGED waiting
      BY <2>1, <2>8, <3>1, WorkTree
    <3>3. QED
      BY <2>2, <3>2
  <2>9. ASSUME NEW r, KernelRequest(r) PROVE CalledTree'
    <3>1. UNCHANGED waiting
      BY <2>9 DEF KernelRequest, vars
    <3>2. \/ UNCHANGED kernel
          \/ kernel' = WithKernel(r.work, [state |-> Lookup(r.args)])
      BY <2>9 DEF KernelRequest, vars, objects
    <3>3. ASSUME NEW w, NEW a, kernel' = WithKernel(w, a) PROVE SameTree
      BY ONLY <2>1, <3>3, NewKernelTree
    <3>4. QED
      BY ONLY <2>2, <2>3, <3>1, <3>2, <3>3
  <2>10. ASSUME NEW r, \/ EchoRequest(r) \/ IncludeModuleRequest(r) \/ StreamRequest(r)
                       \/ CallRequest(r) \/ ShmRequest(r) \/ StateRequest(r) \/ DotRequest(r)
         PROVE  CalledTree'
    <3>1. UNCHANGED <<kernel, waiting>>
      BY <2>10 DEF EchoRequest, IncludeModuleRequest, StreamRequest, CallRequest, ShmRequest,
                   StateRequest, DotRequest, vars, objects
    <3>2. QED
      BY <2>3, <3>1
  <2>11. CASE UNCHANGED evars
    BY <2>3, <2>11 DEF evars, vars, objects
  <2>12. QED
    BY <2>4, <2>5, <2>6, <2>7, <2>8, <2>9, <2>10, <2>11 DEF ENext, Main, onEvent
<1>3. QED
  BY <1>1, <1>2

Safe == Sequential => ~aborted

LEMMA NextSafe ==
  GraphInv /\ WaitInv /\ EndsInTurn /\ Disciplined /\ (aborted \/ CalledTree) /\ Safe
    /\ [ENext]_evars => Safe'
<1> SUFFICES ASSUME GraphInv, WaitInv, EndsInTurn, Disciplined, aborted \/ CalledTree, Safe,
                    [ENext]_evars, Sequential'
             PROVE  ~aborted'
  BY DEF Safe
<1>1. Sequential /\ OneThread /\ prog.force # "koro"
  BY SameProgram DEF Sequential, OneThread
<1>2. ~aborted
  BY <1>1 DEF Safe
<1>3. StackOK /\ ChildrenOK /\ CalledTree /\ ProperCall /\ ProperWait
  BY <1>2 DEF WaitInv, Disciplined
<1>4. CASE UNCHANGED aborted
  BY <1>2, <1>4
<1>5. CASE callKernel \/ callHierarchical
  BY <1>2, <1>3, <1>5, CalledCall
<1>6. CASE handleWaitInst \/ waitChildren \/ findKernel \/ waitKernel
  BY <1>1, <1>2, <1>3, <1>6, CalledWait
<1>7. CASE handleStreamInst \/ handleKernelInst \/ Add \/ Leave
  BY <1>4, <1>7 DEF handleStreamInst, handleKernelInst, Add, Leave
<1>8. ASSUME NEW k \in DOMAIN kernel, Work(k) PROVE ~aborted'
  BY <1>1, <1>2, <1>8, WorkSafe
<1>9. CASE onEvent
  <2>1. ASSUME NEW r, \/ EchoRequest(r) \/ IncludeModuleRequest(r) \/ KernelRequest(r)
                      \/ StreamRequest(r) \/ CallRequest(r) \/ ShmRequest(r)
                      \/ StateRequest(r) \/ DotRequest(r)
        PROVE  UNCHANGED aborted
    BY <2>1 DEF EchoRequest, IncludeModuleRequest, KernelRequest, StreamRequest,
                CallRequest, ShmRequest, StateRequest, DotRequest, vars
  <2>2. QED
    BY <1>4, <1>9, <2>1 DEF onEvent
<1>10. CASE UNCHANGED evars
  BY <1>4, <1>10 DEF evars, vars
<1>11. QED
  BY <1>5, <1>6, <1>7, <1>8, <1>9, <1>10 DEF ENext, Main

(* All that holds while a disciplined program runs.                        *)
RunInv == GraphInv /\ WaitInv /\ EndsInTurn /\ (aborted \/ CalledTree) /\ Safe

LEMMA RunInvariance == MainCode /\ ESpec /\ []Disciplined => []RunInv
<1>1. Disciplined => ProperCall
  BY DEF Disciplined
<1>2. EInit => EndsInTurn /\ CalledTree /\ Safe
  BY DEF EInit, Init, EndsInTurn, CalledTree, ToSet, Safe
<1>3. MainCode /\ EInit => RunInv
  BY <1>2, InitGraphInv, InitWaitInv DEF RunInv
<1>4. RunInv /\ Disciplined /\ [ENext]_evars => RunInv'
  BY <1>1, NextGraphInv, NextWaitInv, NextEnds, NextCalled, NextSafe DEF RunInv
<1>5. QED
  BY <1>3, <1>4, PTL DEF ESpec

(* On one worker of SKIRTbbSched, nothing goes wrong that the runtime      *)
(* checks or relies on: callKernel's assertion, that a kernel is not       *)
(* called while it runs; the scheduler's waitKernel's, that it knows what  *)
(* the main thread waits for; and that done meets no stream that has been  *)
(* freed.                                                                  *)
THEOREM NoAssertionFails == MainCode /\ ESpec /\ []Disciplined => []Safe
<1>1. RunInv => Safe
  BY DEF RunInv
<1>2. QED
  BY <1>1, RunInvariance, PTL

(* What WaitedAll says of the kernels.                                     *)
AllDone == MainDone /\ ~aborted => \A k \in Leaves : kernel[k].status = "done"

(* When the program's waits have returned, on any scheduler, every kernel  *)
(* called since it started is done, however deep in the hierarchy it was   *)
(* called: callKernel recorded each of them in the children of the kernel  *)
(* whose work function called it, so no wait that returned has missed one. *)
THEOREM WaitReturnsLast == MainCode /\ ESpec /\ []Disciplined => []AllDone
<1>1. WaitInv => AllDone
  <2> SUFFICES ASSUME WaitInv, MainDone, ~aborted, NEW k \in Leaves
               PROVE  kernel[k].status = "done"
    BY DEF AllDone
  <2>1. Reached /\ frames = <<>> /\ waiting = <<>>
    BY DEF WaitInv, MainDone
  <2>2. ToSet(waiting) = {} /\ Promised = {}
    BY <2>1 DEF ToSet, Promised
  <2>3. Covering({})
    BY <2>2 DEF Covering, Closed
  <2>4. \A j \in DOMAIN kernel : ~Undone(j)
    BY <2>1, <2>3 DEF Reached
  <2>5. QED
    BY <2>4 DEF Leaves, Undone
<1>2. QED
  BY <1>1, WaitInvariance, PTL

-----------------------------------------------------------------------------
(* What runs, or is in done, was called, and is no hierarchical kernel.    *)
Running == \A k \in DOMAIN kernel : kernel[k].status \in Busy =>
             kernel[k].called /\ ~kernel[k].hier

(* No step but a call makes a kernel run.                                  *)
NoneStarts == \A k \in DOMAIN kernel' : kernel'[k].status \in Busy =>
                k \in DOMAIN kernel /\ kernel[k].status \in Busy

LEMMA RunningKept ==
  ASSUME Running, SameTree, NoneStarts
  PROVE  Running'
BY DEF Running, SameTree, NoneStarts

LEMMA NewKernelRunning ==
  ASSUME KernelsOK, Running, NEW w, NEW a, kernel' = WithKernel(w, a), UNCHANGED prog
  PROVE  Running'
<1> DEFINE n == next_kernel_id
<1>1. n \in Nat /\ DOMAIN kernel = 0 .. n - 1
  BY DEF KernelsOK
<1>2. /\ DOMAIN kernel' = DOMAIN kernel \cup {n} /\ kernel'[n] = NewKernel(w, a)
      /\ \A j \in DOMAIN kernel : kernel'[j] = kernel[j]
  BY <1>1 DEF WithKernel
<1>3. kernel'[n].status = "new"
  BY <1>2 DEF NewKernel
<1>4. NoneStarts
  BY <1>2, <1>3 DEF NoneStarts, Busy
<1>5. QED
  BY <1>4, NewKernelTree, RunningKept

LEMMA WorkRunning ==
  ASSUME KernelsOK, StreamsOK, Running, NEW k \in DOMAIN kernel, Work(k),
         ~handleBecomeInst(k)
  PROVE  Running'
<1>1. /\ SameTree
      /\ \A j \in DOMAIN kernel : kernel'[j].status \in Busy => kernel[j].status \in Busy
  BY WorkTree
<1>2. DOMAIN kernel' = DOMAIN kernel
  BY WorkFacts DEF OwnStep
<1>3. NoneStarts
  BY <1>1, <1>2 DEF NoneStarts
<1>4. QED
  BY <1>1, <1>3, RunningKept

LEMMA CallRunning ==
  ASSUME GraphInv, StackOK, ChildrenOK, Running, ProperCall, ProperWait,
         callKernel \/ callHierarchical
  PROVE  Running'
<1> DEFINE k == Callee
           ins == Value(Inst.ins)
           outs == Value(Inst.outs)
<1>1. Ready("call")
  BY DEF callKernel, callHierarchical
<1>2. k \in DOMAIN kernel /\ kernel[k].status \notin Busy /\ KernelsOK
  BY <1>1 DEF ProperCall, GraphInv
<1>3. ~kernel[k].impl
  BY <1>2 DEF KernelsOK, KernelOK, Busy
<1>4. /\ \/ kernel' = Called(k, ins, outs) /\ kernel[k].work \in Hierarchical
         \/ kernel' = Start(Called(k, ins, outs), k) /\ kernel[k].work \notin Hierarchical
      /\ UNCHANGED prog
  <2>1. CASE callKernel
    BY ONLY <1>3, <2>1 DEF callKernel, Callee
  <2>2. CASE callHierarchical
    BY ONLY <1>3, <2>2 DEF callHierarchical, Callee
  <2>3. QED
    BY ONLY <2>1, <2>2, callKernel \/ callHierarchical
<1> HIDE DEF ins, outs
<1>5. CallEffect(k) /\ (kernel'[k].hier <=> kernel[k].work \in Hierarchical)
  BY <1>1, <1>2, <1>4, CallStep
<1> HIDE DEF k
<1>6. ASSUME NEW j \in DOMAIN kernel, j # k, kernel'[j].status \in Busy
      PROVE  kernel'[j].called /\ ~kernel'[j].hier
  BY <1>5, <1>6 DEF Running, CallEffect
<1>7. kernel'[k].status \in Busy => kernel'[k].called /\ ~kernel'[k].hier
  <2>1. CASE kernel' = Called(k, ins, outs)
    <3>1. kernel'[k].status = kernel[k].status
      BY <1>2, <2>1, CalledFacts DEF Alike
    <3>2. QED
      BY <1>2, <3>1
  <2>2. CASE kernel[k].work \notin Hierarchical
    BY <1>5, <2>2 DEF CallEffect
  <2>3. QED
    BY <1>4, <2>1, <2>2
<1>8. DOMAIN kernel' = DOMAIN kernel
  BY <1>5 DEF CallEffect
<1>9. QED
  BY <1>6, <1>7, <1>8 DEF Running

LEMMA NextRunning ==
  GraphInv /\ WaitInv /\ Disciplined /\ (aborted \/ Running) /\ [ENext]_evars
    => (aborted \/ Running)'
<1> SUFFICES ASSUME GraphInv, WaitInv, Disciplined, aborted \/ Running, [ENext]_evars
             PROVE  aborted' \/ Running'
  OBVIOUS
<1>1. CASE aborted
  BY <1>1, Stopped
<1>2. CASE ~aborted
  <2>1. /\ KernelsOK /\ StreamsOK /\ StackOK /\ ChildrenOK /\ Running
        /\ ProperCall /\ ProperWait /\ NoBecome /\ UNCHANGED prog
    BY <1>2, SameProgram DEF GraphInv, WaitInv, Disciplined
  <2>2. ASSUME UNCHANGED kernel PROVE Running'
    BY <2>1, <2>2 DEF Running
  <2>3. CASE handleKernelInst
    BY <2>1, <2>3, NewKernelRunning DEF handleKernelInst
  <2>4. CASE callKernel \/ callHierarchical
    BY <2>1, <2>4, CallRunning
  <2>5. ASSUME NEW k \in DOMAIN kernel, Work(k) PROVE Running'
    <3>1. ~handleBecomeInst(k)
      BY <2>1 DEF NoBecome, handleBecomeInst
    <3>2. QED
      BY <2>1, <2>5, <3>1, WorkRunning
  <2>6. ASSUME NEW r, KernelRequest(r) PROVE Running'
    <3>1. \/ UNCHANGED kernel
          \/ kernel' = WithKernel(r.work, [state |-> Lookup(r.args)])
      BY <2>6 DEF KernelRequest, vars, objects
    <3>2. ASSUME NEW w, NEW a, kernel' = WithKernel(w, a) PROVE Running'
      BY ONLY <2>1, <3>2, NewKernelRunning
    <3>3. QED
      BY ONLY <2>2, <3>1, <3>2
  <2>7. CASE \/ handleStreamInst \/ Add \/ Leave
             \/ handleWaitInst \/ waitChildren \/ findKernel \/ waitKernel
    BY <2>2, <2>7 DEF handleStreamInst, Add, Leave, handleWaitInst, waitChildren,
                      findKernel, waitKernel, objects
  <2>8. ASSUME NEW r, \/ EchoRequest(r) \/ IncludeModuleRequest(r) \/ StreamRequest(r)
                      \/ CallRequest(r) \/ ShmRequest(r) \/ StateRequest(r) \/ DotRequest(r)
        PROVE  Running'
    <3>1. UNCHANGED kernel
      BY <2>8 DEF EchoRequest, IncludeModuleRequest, StreamRequest, CallRequest, ShmRequest,
                  StateRequest, DotRequest, vars, objects
    <3>2. QED
      BY <2>2, <3>1
  <2>9. CASE UNCHANGED evars
    BY <2>2, <2>9 DEF evars, vars, objects
  <2>10. QED
    BY <2>3, <2>4, <2>5, <2>6, <2>7, <2>8, <2>9 DEF ENext, Main, onEvent
<1>3. QED
  BY <1>1, <1>2

(* What WaitedAll says of the streams.                                     *)
AllFreed == OneThread /\ MainDone /\ ~aborted =>
              \A s \in DOMAIN stream : stream[s].si => Null \in {stream[s].src, stream[s].dst}

(* On one thread, when the program's waits have returned, a stream is      *)
(* still allocated only if one of its ends was never called: every stream  *)
(* between two kernels of the graph has been freed.                        *)
THEOREM WaitFrees == MainCode /\ ESpec /\ []Disciplined => []AllFreed
<1>1. EInit => Running
  BY DEF EInit, Init, Running
<1>2. RunInv /\ AllDone /\ (aborted \/ Running) => AllFreed
  <2> SUFFICES ASSUME RunInv, AllDone, aborted \/ Running, OneThread, MainDone, ~aborted,
                      NEW s \in DOMAIN stream
               PROVE  Null \in {stream[s].src, stream[s].dst}
    BY DEF AllFreed
  <2>1. \A k \in DOMAIN kernel : kernel[k].status \notin Busy
    BY DEF AllDone, Leaves, Running, Busy
  <2>2. stream[s].src \in {Null, Ended} /\ stream[s].dst \in {Null, Ended}
    <3>1. ASSUME NEW k \in DOMAIN kernel
          PROVE  HeldIns(kernel[k]) = {} /\ HeldOuts(kernel[k]) = {}
      BY <2>1 DEF HeldIns, HeldOuts
    <3>2. QED
      BY <3>1 DEF RunInv, GraphInv, StreamsOK, StreamOK, Connected
  <2>3. ~Dead(s)
    BY <2>1 DEF RunInv, EndsInTurn, Marked, Busy
  <2>4. QED
    BY <2>2, <2>3 DEF Dead
<1>3. RunInv => GraphInv /\ WaitInv
  BY DEF RunInv
<1>4. MainCode /\ ESpec /\ []Disciplined => [](aborted \/ Running)
  BY <1>1, <1>3, RunInvariance, NextRunning, PTL DEF ESpec
<1>5. QED
  BY <1>2, <1>4, RunInvariance, WaitReturnsLast, PTL
=============================================================================
