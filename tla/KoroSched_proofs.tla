-------------------------- MODULE KoroSched_proofs --------------------------
(***************************************************************************)
(* TLAPS proofs about KoroSched, for every graph, capacity and way to run. *)
(***************************************************************************)
EXTENDS KoroSched, SequenceTheorems, TLAPS

(* The typing invariant.  A blocker may be an end that nobody called yet.  *)
TypeOK ==
  /\ opt \in Options
  /\ runq \in Seq(Kernels)
  /\ next_rtk \in Kernels \cup {None, Unset}
  /\ cur \in Kernels \cup {None}
  /\ mapped \subseteq Kernels /\ done \subseteq Kernels
  /\ src \in [Streams -> Kernels \cup {Unset, Finished}]
  /\ dst \in [Streams -> Kernels \cup {Unset, Finished}]
  /\ cnt \in [Streams -> 0 .. Cap]
  /\ freed \in [Streams -> Nat]
  /\ at \in [Kernels -> Nat \ {0}]
  /\ iter \in [Kernels -> Nat]

(* A kernel is not finished while kernel_map knows it; only such a kernel  *)
(* runs.                                                                   *)
LifeInv == /\ mapped \cap done = {}
           /\ cur # None => cur \in mapped

(* What an end of a stream says of its kernel.                             *)
EndOf(k) == IF k \in done THEN Finished ELSE IF k \in mapped THEN k ELSE Unset

EndsInv == \A s \in Streams :
             /\ src[s] = EndOf(Src[s])
             /\ dst[s] = EndOf(Dst[s])
             /\ freed[s] = IF Src[s] \in done /\ Dst[s] \in done THEN 1 ELSE 0

(* The kernels of the queue were called, run() has used next_rtk when it   *)
(* runs a kernel, and no kernel that can run is missing.  Without stealing *)
(* next_rtk is not used and no kernel has two places.                      *)
QueueInv ==
  /\ Range(runq) \subseteq Called
  /\ cur # None => next_rtk = None
  /\ \A k \in mapped : k \in {cur, next_rtk} \cup Range(runq)
  /\ ~opt.steal => /\ next_rtk = None
                   /\ IsInjective(runq)
                   /\ cur \notin Range(runq)

(* A kernel with one input that was ended by its input has nobody that     *)
(* pushes to it any more.                                                  *)
EndedByInput(s) == /\ Dst[s] \in done /\ opt.iters[Dst[s]] = 0
                   /\ Ins(Dst[s]) = {s} /\ Outs(Dst[s]) = {}

DrainInv == \A s \in Streams : EndedByInput(s) => cnt[s] = 0 /\ Src[s] \in done

SchedInv == TypeOK /\ LifeInv /\ EndsInv /\ QueueInv /\ DrainInv

-----------------------------------------------------------------------------
(* What the queue operations do to the kernels in the queue.               *)

(* push_back adds one kernel to those of the queue.                        *)
LEMMA PushRange ==
  ASSUME NEW S, NEW q \in Seq(S), NEW e \in S
  PROVE  Range(Append(q, e)) = Range(q) \cup {e}
<1>1. Append(q, e) = q \o <<e>> /\ <<e>> \in Seq(S)
  OBVIOUS
<1>2. Range(<<e>>) = {e}
  BY DEF Range
<1>3. Range(q \o <<e>>) = Range(q) \cup Range(<<e>>)
  BY <1>1, RangeConcatenation, Zenon
<1>4. QED
  BY <1>1, <1>2, <1>3, Zenon

(* push_back of a kernel that is not in the queue repeats none.            *)
LEMMA PushOnce ==
  ASSUME NEW S, NEW q \in Seq(S), NEW e \in S, IsInjective(q), e \notin Range(q)
  PROVE  IsInjective(Append(q, e))
<1>1. \A i \in 1 .. Len(q) : q[i] # e
  BY RangeEquality
<1>2. QED
  BY <1>1 DEF IsInjective

(* front and pop take one kernel from those of the queue.                  *)
LEMMA FrontRange ==
  ASSUME NEW S, NEW q \in Seq(S), q # <<>>
  PROVE  /\ Head(q) \in S /\ Tail(q) \in Seq(S)
         /\ Range(q) = {Head(q)} \cup Range(Tail(q))
<1>1. /\ Head(q) \in S /\ Tail(q) \in Seq(S) /\ <<Head(q)>> \in Seq(S)
  OBVIOUS
<1>2. q = <<Head(q)>> \o Tail(q)
  OBVIOUS
<1>3. Range(<<Head(q)>>) = {Head(q)}
  BY DEF Range
<1>4. Range(<<Head(q)>> \o Tail(q)) = Range(<<Head(q)>>) \cup Range(Tail(q))
  <2> DEFINE first == <<Head(q)>>
             rest == Tail(q)
  <2>1. first \in Seq(S) /\ rest \in Seq(S)
    BY <1>1
  <2> HIDE DEF first, rest
  <2>2. Range(first \o rest) = Range(first) \cup Range(rest)
    BY ONLY <2>1, RangeConcatenation, Zenon
  <2>3. QED
    BY <2>2 DEF first, rest
<1>5. QED
  BY <1>1, <1>2, <1>3, <1>4, Zenon

(* After front and pop, a queue without repetitions does not hold the      *)
(* kernel that was taken.                                                  *)
LEMMA FrontOnce ==
  ASSUME NEW S, NEW q \in Seq(S), q # <<>>, IsInjective(q)
  PROVE  IsInjective(Tail(q)) /\ Head(q) \notin Range(Tail(q))
<1>1. IsInjective(Tail(q))
  BY DEF IsInjective
<1>2. Tail(q) \in Seq(S) /\ \A i \in 1 .. Len(Tail(q)) : Tail(q)[i] # Head(q)
  BY DEF IsInjective
<1>3. QED
  BY <1>1, <1>2, RangeEquality

-----------------------------------------------------------------------------
(* The steps of the scheduler and of the program.                          *)

(* The special values of an end or a kernel are not kernels.               *)
LEMMA ConstFacts ==
  /\ None # Unset /\ None # Finished /\ Unset # Finished
  /\ \A k \in Kernels : k # None /\ k # Unset /\ k # Finished
  /\ \A s \in Streams : Src[s] \in Kernels /\ Dst[s] \in Kernels /\ Src[s] # Dst[s]
<1>1. None # Unset /\ None # Finished /\ Unset # Finished
  BY DEF None, Unset, Finished
<1>2. QED
  BY <1>1, KoroAssumption

(* The stream that a running kernel uses is one of its own.                *)
LEMMA StreamFacts ==
  ASSUME TypeOK, InBody
  PROVE  Stream \in Streams /\ cur \in Kernels /\ cur \in {Src[Stream], Dst[Stream]}
<1>1. cur \in Kernels /\ Body[cur] \in Seq(Streams)
  BY KoroAssumption DEF TypeOK, InBody
<1>2. at[cur] \in DOMAIN Body[cur]
  BY <1>1 DEF TypeOK, InBody
<1>3. Stream \in Streams
  BY <1>1, <1>2 DEF Stream
<1>4. cur \in {Src[Stream], Dst[Stream]}
  BY <1>1, <1>2, KoroAssumption DEF Stream
<1>5. QED
  BY <1>1, <1>3, <1>4

(* No kernel is called, so nothing runs.                                   *)
LEMMA InitInv == Init => SchedInv
<1> SUFFICES ASSUME Init PROVE SchedInv
  OBVIOUS
<1>1. Range(runq) = {} /\ IsInjective(runq)
  BY DEF Init, Range, IsInjective
<1>2. TypeOK
  BY KoroAssumption DEF Init, TypeOK
<1>3. QED
  BY <1>1, <1>2, ConstFacts
     DEF Init, SchedInv, LifeInv, EndsInv, EndOf, QueueInv, DrainInv, EndedByInput

(* skir.call connects the ends of a kernel that nobody called before.      *)
LEMMA CallInv ==
  ASSUME SchedInv, NEW k \in Kernels, callKernel(k)
  PROVE  SchedInv'
<1>1. /\ k \notin mapped /\ k \notin done /\ mapped' = mapped \cup {k} /\ done' = done
      /\ runq' = Append(runq, k) /\ opt' = opt /\ next_rtk' = next_rtk /\ cur' = cur
      /\ cnt' = cnt /\ freed' = freed /\ at' = at /\ iter' = iter
  BY DEF callKernel, Called
<1>2. \A s \in Streams : /\ dst'[s] = IF Dst[s] = k THEN k ELSE dst[s]
                         /\ src'[s] = IF Src[s] = k THEN k ELSE src[s]
  BY DEF callKernel, allocateStreams, Ins, Outs
<1>3. /\ src' \in [Streams -> Kernels \cup {Unset, Finished}]
      /\ dst' \in [Streams -> Kernels \cup {Unset, Finished}]
  BY DEF callKernel, allocateStreams, SchedInv, TypeOK
<1>4. TypeOK'
  BY <1>1, <1>3 DEF SchedInv, TypeOK
<1>5. LifeInv'
  BY <1>1 DEF SchedInv, LifeInv
<1>6. EndsInv'
  BY <1>1, <1>2, ConstFacts DEF SchedInv, EndsInv, EndOf
<1>7. QueueInv'
  <2>1. Range(runq') = Range(runq) \cup {k}
    BY <1>1, PushRange DEF SchedInv, TypeOK
  <2>2. k \notin Range(runq)
    BY <1>1 DEF SchedInv, QueueInv, Called
  <2>3. ~opt.steal => IsInjective(runq')
    BY <1>1, <2>2, PushOnce DEF SchedInv, QueueInv, TypeOK
  <2>4. cur # k
    BY <1>1, ConstFacts DEF SchedInv, LifeInv
  <2>5. QED
    BY <1>1, <2>1, <2>3, <2>4 DEF SchedInv, QueueInv, Called
<1>8. DrainInv'
  BY <1>1 DEF SchedInv, DrainInv, EndedByInput
<1>9. QED
  BY <1>4, <1>5, <1>6, <1>7, <1>8 DEF SchedInv

(* run() takes a kernel from next_rtk or from the queue; what it drops is  *)
(* not in kernel_map.                                                      *)
LEMMA DispatchInv == SchedInv /\ Dispatch => SchedInv'
<1> SUFFICES ASSUME SchedInv, Dispatch PROVE SchedInv'
  OBVIOUS
<1>1. /\ opt' = opt /\ mapped' = mapped /\ done' = done /\ src' = src /\ dst' = dst
      /\ cnt' = cnt /\ freed' = freed /\ at' = at /\ iter' = iter
      /\ cur = None /\ next_rtk' = None
      /\ cur' = IF Chosen \in mapped THEN Chosen ELSE None
  BY DEF Dispatch, graph
<1>2. LifeInv' /\ cur' \in Kernels \cup {None}
  BY <1>1 DEF SchedInv, TypeOK, LifeInv
<1>3. EndsInv' /\ DrainInv'
  BY <1>1 DEF SchedInv, EndsInv, EndOf, DrainInv, EndedByInput
<1>4. CASE next_rtk # None
  <2>1. runq' = runq /\ Chosen = next_rtk
    BY <1>4 DEF Dispatch, Chosen
  <2>2. TypeOK'
    BY <1>1, <1>2, <2>1 DEF SchedInv, TypeOK
  <2>3. QueueInv'
    BY <1>1, <1>4, <2>1, ConstFacts DEF SchedInv, TypeOK, QueueInv, Called
  <2>4. QED
    BY <1>2, <1>3, <2>2, <2>3 DEF SchedInv
<1>5. CASE next_rtk = None
  <2>1. runq # <<>> /\ runq' = Tail(runq) /\ Chosen = Head(runq) /\ runq \in Seq(Kernels)
    BY <1>5 DEF Dispatch, Chosen, SchedInv, TypeOK
  <2>2. /\ Head(runq) \in Kernels /\ runq' \in Seq(Kernels)
        /\ Range(runq) = {Head(runq)} \cup Range(runq')
    BY <2>1, FrontRange
  <2>3. TypeOK'
    BY <1>1, <1>2, <2>2 DEF SchedInv, TypeOK
  <2>4. ~opt.steal => IsInjective(runq') /\ Head(runq) \notin Range(runq')
    BY <2>1, FrontOnce DEF SchedInv, QueueInv
  <2>5. None \notin Range(runq)
    BY ConstFacts DEF SchedInv, QueueInv, Called, TypeOK
  <2>6. QueueInv'
    BY <1>1, <1>5, <2>1, <2>2, <2>4, <2>5, ConstFacts DEF SchedInv, QueueInv, Called, TypeOK
  <2>7. QED
    BY <1>2, <1>3, <2>3, <2>6 DEF SchedInv
<1>6. QED
  BY <1>4, <1>5

(* A blocked kernel goes back into the queue before its blocker is run.    *)
LEMMA YieldInv ==
  ASSUME SchedInv, cur # None, NEW b \in Kernels \cup {Unset}, Yield(cur, b),
         UNCHANGED <<opt, cnt, at, iter>>
  PROVE  SchedInv'
<1>1. /\ opt' = opt /\ mapped' = mapped /\ done' = done /\ src' = src /\ dst' = dst
      /\ cnt' = cnt /\ freed' = freed /\ at' = at /\ iter' = iter
      /\ cur' = None /\ next_rtk' = IF opt.steal THEN b ELSE None
  BY DEF Yield, graph
<1>2. /\ runq' \in Seq(Kernels)
      /\ Range(runq') = Range(runq) \cup {cur}
      /\ cur \notin Range(runq) /\ IsInjective(runq) => IsInjective(runq')
  <2>1. runq \in Seq(Kernels) /\ cur \in Kernels
    BY DEF SchedInv, TypeOK
  <2>2. CASE cur \in Range(runq) /\ Len(runq) >= MaxQueue
    BY <2>1, <2>2 DEF Yield
  <2>3. CASE ~(cur \in Range(runq) /\ Len(runq) >= MaxQueue)
    <3>1. runq' = Append(runq, cur)
      BY <2>3 DEF Yield
    <3>2. Append(runq, cur) \in Seq(Kernels)
      BY <2>1
    <3>3. QED
      BY <2>1, <3>1, <3>2, PushRange, PushOnce
  <2>4. QED
    BY <2>2, <2>3
<1>3. TypeOK'
  BY <1>1, <1>2 DEF SchedInv, TypeOK
<1>4. LifeInv' /\ EndsInv' /\ DrainInv'
  BY <1>1 DEF SchedInv, LifeInv, EndsInv, EndOf, DrainInv, EndedByInput
<1>5. QueueInv'
  <2>1. \A k \in Range(runq') : k \in Called /\ k # None
    BY <1>2, ConstFacts DEF SchedInv, QueueInv, LifeInv, Called, TypeOK
  <2>2. QED
    BY <1>1, <1>2, <2>1 DEF SchedInv, QueueInv, Called
<1>6. QED
  BY <1>3, <1>4, <1>5 DEF SchedInv

(* k->done(): the kernel ends by itself, or an end of one of its streams   *)
(* is gone and, if that is an input, nothing is left in it.                *)
LEMMA EndInv ==
  ASSUME SchedInv, cur # None, End(cur), UNCHANGED <<opt, cnt>>,
         at' \in [Kernels -> Nat \ {0}], iter' \in [Kernels -> Nat],
         \/ opt.iters[cur] # 0
         \/ Outs(cur) # {}
         \/ \E t \in Ins(cur) : cnt[t] = 0 /\ Src[t] \in done
  PROVE  SchedInv'
<1>0. cur \in Kernels /\ cur \in mapped /\ cur \notin done
  BY DEF SchedInv, TypeOK, LifeInv
<1>1. /\ opt' = opt /\ cnt' = cnt /\ cur' = None /\ runq' = runq /\ next_rtk' = next_rtk
      /\ mapped' = mapped \ {cur} /\ done' = done \cup {cur}
  BY DEF End, kernel_done
<1>2. \A s \in Streams : /\ dst'[s] = IF Dst[s] = cur THEN Finished ELSE dst[s]
                         /\ src'[s] = IF Src[s] = cur THEN Finished ELSE src[s]
  BY DEF End, kernel_done, Ins, Outs
<1>3. \A s \in Streams :
        freed'[s] = IF (Dst[s] = cur \/ Src[s] = cur)
                       /\ src'[s] = Finished /\ dst'[s] = Finished
                    THEN freed[s] + 1 ELSE freed[s]
  BY DEF End, kernel_done, free_skir_stream_t, Ins, Outs
<1>4. TypeOK'
  <2>1. /\ src' \in [Streams -> Kernels \cup {Unset, Finished}]
        /\ dst' \in [Streams -> Kernels \cup {Unset, Finished}]
    BY DEF End, kernel_done, SchedInv, TypeOK
  <2>2. freed' \in [Streams -> Nat]
    BY DEF End, kernel_done, free_skir_stream_t, SchedInv, TypeOK
  <2>3. QED
    BY <1>0, <1>1, <2>1, <2>2 DEF SchedInv, TypeOK
<1>5. LifeInv'
  BY <1>1 DEF SchedInv, LifeInv
<1>6. EndsInv'
  <2>1. \A s \in Streams : src'[s] = EndOf(Src[s])' /\ dst'[s] = EndOf(Dst[s])'
    BY <1>1, <1>2 DEF SchedInv, EndsInv, EndOf
  <2>2. \A s \in Streams : /\ src'[s] = Finished <=> Src[s] \in done'
                           /\ dst'[s] = Finished <=> Dst[s] \in done'
    BY <2>1, ConstFacts DEF EndOf
  <2>3. \A s \in Streams :
          freed'[s] = IF Src[s] \in done' /\ Dst[s] \in done' THEN 1 ELSE 0
    BY <1>0, <1>1, <1>3, <2>2 DEF SchedInv, EndsInv
  <2>4. QED
    BY <2>1, <2>3 DEF EndsInv
<1>7. QueueInv'
  BY <1>0, <1>1, ConstFacts DEF SchedInv, QueueInv, Called, TypeOK
<1>8. DrainInv'
  <2> SUFFICES ASSUME NEW s \in Streams, EndedByInput(s)'
               PROVE  cnt'[s] = 0 /\ Src[s] \in done'
    BY DEF DrainInv
  <2>1. CASE Dst[s] = cur
    BY <1>1, <2>1 DEF EndedByInput
  <2>2. CASE Dst[s] # cur
    BY <1>1, <2>2 DEF SchedInv, DrainInv, EndedByInput
  <2>3. QED
    BY <2>1, <2>2
<1>9. QED
  BY <1>4, <1>5, <1>6, <1>7, <1>8 DEF SchedInv

(* would_block hands the kernel to the scheduler.                          *)
LEMMA BlockInv ==
  ASSUME SchedInv, InBody,
         \/ Src[Stream] = cur /\ Block(cur, dst[Stream])
         \/ Dst[Stream] = cur /\ cnt[Stream] = 0 /\ Block(cur, src[Stream])
  PROVE  SchedInv'
<1>1. Stream \in Streams /\ cur # None
  BY StreamFacts DEF SchedInv, InBody
<1>2. PICK b \in Kernels \cup {Unset, Finished} :
        /\ Block(cur, b)
        /\ \/ Src[Stream] = cur
           \/ Dst[Stream] = cur /\ cnt[Stream] = 0 /\ b = src[Stream]
  BY <1>1 DEF SchedInv, TypeOK
<1>3. CASE b = Finished
  <2>1. End(cur) /\ UNCHANGED <<opt, cnt, at, iter>>
    BY <1>2, <1>3 DEF Block
  <2>2. Outs(cur) # {} \/ \E t \in Ins(cur) : cnt[t] = 0 /\ Src[t] \in done
    <3>1. CASE Src[Stream] = cur
      BY <1>1, <3>1 DEF Outs
    <3>2. CASE Dst[Stream] = cur /\ cnt[Stream] = 0 /\ src[Stream] = Finished
      BY <1>1, <3>2, ConstFacts DEF SchedInv, EndsInv, EndOf, Ins
    <3>3. QED
      BY <1>2, <1>3, <3>1, <3>2
  <2>3. QED
    BY <1>1, <2>1, <2>2, EndInv DEF SchedInv, TypeOK
<1>4. CASE b # Finished
  <2>1. Yield(cur, b) /\ UNCHANGED <<opt, cnt, at, iter>>
    BY <1>2, <1>4 DEF Block
  <2>2. QED
    BY <1>1, <1>4, <2>1, YieldInv
<1>5. QED
  BY <1>3, <1>4

(* An element goes into or out of a stream that a running kernel uses, so  *)
(* not one of a kernel that has drained its input.                         *)
LEMMA AdvanceInv ==
  ASSUME SchedInv, InBody, NEW n \in {1, -1}, Advance(n),
         cnt[Stream] + n \in 0 .. Cap
  PROVE  SchedInv'
<1>1. Stream \in Streams /\ cur \in Kernels /\ cur \in {Src[Stream], Dst[Stream]}
  BY StreamFacts DEF SchedInv
<1>2. cur \notin done
  BY DEF SchedInv, LifeInv, InBody
<1>3. /\ opt' = opt /\ runq' = runq /\ next_rtk' = next_rtk /\ cur' = cur
      /\ mapped' = mapped /\ done' = done /\ iter' = iter
      /\ src' = src /\ dst' = dst /\ freed' = freed
      /\ cnt' = [cnt EXCEPT ![Stream] = cnt[Stream] + n]
      /\ at' = [at EXCEPT ![cur] = at[cur] + 1]
  BY DEF Advance, graph
<1>4. TypeOK'
  <2>1. cnt' \in [Streams -> 0 .. Cap]
    BY <1>1, <1>3 DEF SchedInv, TypeOK
  <2>2. at[cur] + 1 \in Nat \ {0}
    BY <1>1 DEF SchedInv, TypeOK
  <2>3. at' \in [Kernels -> Nat \ {0}]
    BY <1>1, <1>3, <2>2 DEF SchedInv, TypeOK
  <2>4. QED
    BY <1>3, <2>1, <2>3 DEF SchedInv, TypeOK
<1>5. LifeInv' /\ EndsInv' /\ QueueInv'
  BY <1>3 DEF SchedInv, LifeInv, EndsInv, EndOf, QueueInv, Called
<1>6. DrainInv'
  <2>1. ASSUME NEW s \in Streams, EndedByInput(s)' PROVE cnt'[s] = 0 /\ Src[s] \in done'
    <3>1. EndedByInput(s)
      BY <1>3, <2>1 DEF EndedByInput
    <3>2. cnt[s] = 0 /\ Src[s] \in done /\ Dst[s] \in done
      BY <3>1 DEF SchedInv, DrainInv, EndedByInput
    <3>3. s # Stream
      BY <1>1, <1>2, <3>2
    <3>4. QED
      BY <1>1, <1>3, <3>2, <3>3 DEF SchedInv, TypeOK
  <2>2. QED
    BY <2>1 DEF DrainInv
<1>7. QED
  BY <1>4, <1>5, <1>6 DEF SchedInv

(* The work function returns.                                              *)
LEMMA IterateInv == SchedInv /\ Iterate => SchedInv'
<1> SUFFICES ASSUME SchedInv, Iterate PROVE SchedInv'
  OBVIOUS
<1>1. cur \in Kernels /\ cur # None /\ opt' = opt /\ cnt' = cnt
  BY DEF Iterate, SchedInv, TypeOK
<1>2. at' \in [Kernels -> Nat \ {0}] /\ iter' \in [Kernels -> Nat]
  <2>1. iter[cur] + 1 \in Nat
    BY <1>1 DEF SchedInv, TypeOK
  <2>2. iter' = [iter EXCEPT ![cur] = IF opt.iters[cur] = 0 THEN 0 ELSE iter[cur] + 1]
    BY DEF Iterate
  <2>3. at' = [at EXCEPT ![cur] = 1]
    BY DEF Iterate
  <2>4. QED
    BY <1>1, <2>1, <2>2, <2>3 DEF SchedInv, TypeOK
<1>3. CASE opt.iters[cur] # 0 /\ iter[cur] + 1 = opt.iters[cur]
  BY <1>1, <1>2, <1>3, EndInv DEF Iterate
<1>4. CASE ~(opt.iters[cur] # 0 /\ iter[cur] + 1 = opt.iters[cur])
  <2>1. /\ runq' = runq /\ next_rtk' = next_rtk /\ cur' = cur
        /\ mapped' = mapped /\ done' = done /\ src' = src /\ dst' = dst /\ freed' = freed
    BY <1>4 DEF Iterate, graph
  <2>2. QED
    BY <1>1, <1>2, <2>1 DEF SchedInv, TypeOK, LifeInv, EndsInv, EndOf, QueueInv, Called,
                            DrainInv, EndedByInput
<1>5. QED
  BY <1>3, <1>4

(* Every step of the scheduler and of the program keeps the invariant.     *)
LEMMA NextInv == SchedInv /\ [Next]_vars => SchedInv'
<1> SUFFICES ASSUME SchedInv, [Next]_vars PROVE SchedInv'
  OBVIOUS
<1>1. CASE Push
  <2>1. InBody /\ Src[Stream] = cur /\ Stream \in Streams
    BY <1>1, StreamFacts DEF Push, SchedInv
  <2>2. CASE cnt[Stream] = Cap
    BY <1>1, <2>1, <2>2, BlockInv DEF Push
  <2>3. CASE cnt[Stream] # Cap
    <3>1. Advance(1)
      BY <1>1, <2>3 DEF Push
    <3>2. cnt[Stream] + 1 \in 0 .. Cap
      BY <2>1, <2>3, KoroAssumption DEF SchedInv, TypeOK
    <3>3. QED
      BY <2>1, <3>1, <3>2, AdvanceInv
  <2>4. QED
    BY <2>2, <2>3
<1>2. CASE Pop
  <2>1. InBody /\ Dst[Stream] = cur /\ Stream \in Streams
    BY <1>2, StreamFacts DEF Pop, SchedInv
  <2>2. CASE cnt[Stream] = 0
    BY <1>2, <2>1, <2>2, BlockInv DEF Pop
  <2>3. CASE cnt[Stream] # 0
    <3>1. Advance(-1)
      BY <1>2, <2>3 DEF Pop
    <3>2. cnt[Stream] + (-1) \in 0 .. Cap
      BY <2>1, <2>3, KoroAssumption DEF SchedInv, TypeOK
    <3>3. QED
      BY <2>1, <3>1, <3>2, AdvanceInv
  <2>4. QED
    BY <2>2, <2>3
<1>3. CASE UNCHANGED vars
  BY <1>3 DEF vars, SchedInv, TypeOK, LifeInv, EndsInv, EndOf, QueueInv, Called, DrainInv,
              EndedByInput
<1>4. QED
  BY <1>1, <1>2, <1>3, CallInv, DispatchInv, IterateInv DEF Next, Run, Idle

(* The facts above hold at every step of run() and of skir.call.           *)
THEOREM SchedInvariance == Spec => []SchedInv
<1>1. QED
  BY InitInv, NextInv, PTL DEF Spec

(* run() forgets no kernel, whatever blocks on what and in whichever order *)
(* the kernels are called, and without stealing queues each at most once.  *)
THEOREM KernelsKept == Spec => []NoneForgotten
<1>1. SchedInv => NoneForgotten
  BY DEF SchedInv, QueueInv, NoneForgotten
<1>2. QED
  BY <1>1, SchedInvariance, PTL

(* done() frees every stream once, when both ends have finished, and never *)
(* a stream that a running kernel uses.                                    *)
THEOREM StreamsFreedOnce == Spec => []FreedOnce
<1>1. SchedInv => FreedOnce
  <2> SUFFICES ASSUME SchedInv PROVE FreedOnce
    OBVIOUS
  <2>1. \A s \in Streams : freed[s] = IF {Src[s], Dst[s]} \subseteq done THEN 1 ELSE 0
    BY DEF SchedInv, EndsInv
  <2>2. ASSUME InBody PROVE freed[Stream] = 0
    <3>1. Stream \in Streams /\ cur \in {Src[Stream], Dst[Stream]}
      BY <2>2, StreamFacts DEF SchedInv
    <3>2. cur \notin done
      BY <2>2 DEF SchedInv, LifeInv, InBody
    <3>3. QED
      BY <2>1, <3>1, <3>2
  <2>3. QED
    BY <2>1, <2>2 DEF FreedOnce
<1>2. QED
  BY <1>1, SchedInvariance, PTL

(* No element is left in the only input of a kernel that finished because  *)
(* of that input.                                                          *)
THEOREM InputsDrained == Spec => []Drained
<1>1. SchedInv => Drained
  BY DEF SchedInv, DrainInv, EndedByInput, Drained
<1>2. QED
  BY <1>1, SchedInvariance, PTL
=============================================================================
