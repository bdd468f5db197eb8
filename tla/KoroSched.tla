----------------------------- MODULE KoroSched -----------------------------
(***************************************************************************)
(* The coroutine scheduler (lib/SKIR/SKIRKoroSched.cpp): one thread in     *)
(* run() executes the kernels of a stream graph.  A kernel that cannot go  *)
(* on returns the kernel at the other end of the stream, its blocker, and  *)
(* the scheduler runs that kernel next (unless -disable-coro-steal).  A    *)
(* kernel blocked on a finished kernel is finished itself, so that the end *)
(* of a stream travels through the graph.                                  *)
(*                                                                         *)
(* The program's own thread calls the kernels while the scheduler runs.    *)
(* Pausing and removing kernels is KernelT's subject.  The streams are     *)
(* those of StreamRing, here counters: only the scheduler's thread uses    *)
(* them.                                                                   *)
(***************************************************************************)
EXTENDS Integers, Sequences, FiniteSets, SequencesExt

CONSTANTS
  Kernels, Streams,
  Src, Dst,     \* the kernel that pushes to, and pops from, each stream
  Body,         \* one call of each kernel's work function: the streams it
                \* uses, in order
  Cap,          \* elements a stream can hold
  MaxQueue,     \* bound: a queue this long takes no second copy of a kernel
  Options       \* the ways to run the graph; each has the fields
                \*   iters   calls after which a kernel returns 1 by itself;
                \*           0: never
                \*   steal   FALSE: -disable-coro-steal

None == "none"
Unset == "unset"     \* (void * )-1: no kernel called for this end yet
Finished == "finished"   \* (void * )1

ASSUME KoroAssumption ==
  /\ Src \in [Streams -> Kernels] /\ Dst \in [Streams -> Kernels]
  /\ \A s \in Streams : Src[s] # Dst[s]
  /\ Body \in [Kernels -> Seq(Streams)]
  /\ \A k \in Kernels : \A i \in DOMAIN Body[k] : k \in {Src[Body[k][i]], Dst[Body[k][i]]}
  /\ \A o \in Options : o.iters \in [Kernels -> Nat] /\ o.steal \in BOOLEAN
  /\ Cap \in Nat \ {0} /\ MaxQueue \in Nat
  /\ Kernels \cap {None, Unset, Finished} = {}

VARIABLES
  opt,       \* how this graph is run
  runq,      \* the scheduler's queue of kernels
  next_rtk,  \* the kernel to run before those of the queue
  cur,       \* the kernel whose work function runs
  mapped,    \* kernels that kernel_map knows
  done,      \* kernels whose done() has run
  src, dst,  \* s->src and s->dst
  cnt,       \* elements in each stream
  freed,     \* times each stream was freed
  at,        \* where each coroutine goes on: index in Body
  iter       \* calls of its work function each kernel has completed

vars == <<opt, runq, next_rtk, cur, mapped, done, src, dst, cnt, freed, at,
          iter>>
graph == <<src, dst, freed>>

Ins(k) == {s \in Streams : Dst[s] = k}
Outs(k) == {s \in Streams : Src[s] = k}
Called == mapped \cup done

Init == /\ opt \in Options
        /\ runq = <<>> /\ next_rtk = None /\ cur = None
        /\ mapped = {} /\ done = {}
        /\ src = [s \in Streams |-> Unset] /\ dst = [s \in Streams |-> Unset]
        /\ cnt = [s \in Streams |-> 0] /\ freed = [s \in Streams |-> 0]
        /\ at = [k \in Kernels |-> 1] /\ iter = [k \in Kernels |-> 0]
-----------------------------------------------------------------------------
(* allocateStreams connects the kernel's end of each stream.               *)
allocateStreams(k) ==
  /\ dst' = [s \in Streams |-> IF s \in Ins(k) THEN k ELSE dst[s]]
  /\ src' = [s \in Streams |-> IF s \in Outs(k) THEN k ELSE src[s]]

(* The program executes skir.call for a kernel.                            *)
callKernel(k) == /\ k \notin Called
                 /\ allocateStreams(k)
                 /\ mapped' = mapped \cup {k}
                 /\ runq' = Append(runq, k)
                 /\ UNCHANGED <<opt, next_rtk, cur, done, cnt, freed, at, iter>>
-----------------------------------------------------------------------------
(* run(): take next_rtk or the head of the queue; kernel_map_find drops    *)
(* finished kernels and a blocker that is not called yet.                  *)
Chosen == IF next_rtk # None THEN next_rtk ELSE Head(runq)

Dispatch == /\ cur = None /\ (next_rtk # None \/ runq # <<>>)
            /\ cur' = IF Chosen \in mapped THEN Chosen ELSE None
            /\ runq' = IF next_rtk = None THEN Tail(runq) ELSE runq
            /\ next_rtk' = None
            /\ UNCHANGED <<opt, mapped, done, cnt, at, iter>> /\ UNCHANGED graph

free_EitherEnd(ends) ==
  freed' = [s \in Streams |-> IF s \in ends THEN freed[s] + 1 ELSE freed[s]]

(* free_skir_stream_t, when this end is the second one to finish.          *)
free_skir_stream_t(ends) ==
  freed' = [s \in Streams |->
              IF s \in ends /\ src'[s] = Finished /\ dst'[s] = Finished
              THEN freed[s] + 1 ELSE freed[s]]

(* SKIRRuntimeKernel::done marks the kernel's ends of its streams.         *)
kernel_done(k) ==
  /\ dst' = [s \in Streams |-> IF s \in Ins(k) THEN Finished ELSE dst[s]]
  /\ src' = [s \in Streams |-> IF s \in Outs(k) THEN Finished ELSE src[s]]
  /\ free_skir_stream_t(Ins(k) \cup Outs(k))
  /\ done' = done \cup {k}

(* k->done(), and kernel_map forgets the kernel.                           *)
End(k) == /\ kernel_done(k)
          /\ mapped' = mapped \ {k}
          /\ cur' = None
          /\ UNCHANGED <<runq, next_rtk>>

Yield_NotQueued(k, b) == /\ next_rtk' = IF opt.steal THEN b ELSE None
                         /\ UNCHANGED runq
                         /\ cur' = None
                         /\ UNCHANGED <<mapped, done>> /\ UNCHANGED graph

Yield_Front(k, b) == /\ next_rtk' = IF opt.steal THEN b ELSE None
                     /\ runq' = <<k>> \o runq
                     /\ cur' = None
                     /\ UNCHANGED <<mapped, done>> /\ UNCHANGED graph

(* Blocked on b: run b next and this kernel again later.  b may be in the  *)
(* queue as well, which then grows, without limit if b runs many times.    *)
Yield(k, b) == /\ next_rtk' = IF opt.steal THEN b ELSE None
               /\ runq' = IF k \in Range(runq) /\ Len(runq) >= MaxQueue
                          THEN runq ELSE Append(runq, k)
               /\ cur' = None
               /\ UNCHANGED <<mapped, done>> /\ UNCHANGED graph

Block_Yields(k, b) == /\ Yield(k, IF b = Finished THEN None ELSE b)
                      /\ UNCHANGED <<opt, cnt, at, iter>>

(* would_block returns the other end to the scheduler.                     *)
Block(k, b) == /\ IF b = Finished THEN End(k) ELSE Yield(k, b)
               /\ UNCHANGED <<opt, cnt, at, iter>>

Stream == Body[cur][at[cur]]
InBody == cur # None /\ at[cur] <= Len(Body[cur])

(* One element goes into or out of a stream and the kernel goes on.        *)
Advance(n) == /\ cnt' = [cnt EXCEPT ![Stream] = @ + n]
              /\ at' = [at EXCEPT ![cur] = @ + 1]
              /\ UNCHANGED <<opt, runq, next_rtk, cur, mapped, done, iter>>
              /\ UNCHANGED graph

Push == /\ InBody /\ Src[Stream] = cur
        /\ IF cnt[Stream] = Cap THEN Block(cur, dst[Stream]) ELSE Advance(1)

Pop_EndFirst == /\ InBody /\ Dst[Stream] = cur
                /\ IF cnt[Stream] = 0 \/ src[Stream] = Finished
                   THEN Block(cur, src[Stream]) ELSE Advance(-1)

Pop == /\ InBody /\ Dst[Stream] = cur
       /\ IF cnt[Stream] = 0 THEN Block(cur, src[Stream]) ELSE Advance(-1)

(* The work function returns 0 and is called again, or returns 1.          *)
Iterate == /\ cur # None /\ at[cur] > Len(Body[cur])
           /\ at' = [at EXCEPT ![cur] = 1]
           /\ iter' = [iter EXCEPT ![cur] = IF opt.iters[cur] = 0 THEN 0 ELSE @ + 1]
           /\ IF opt.iters[cur] # 0 /\ iter[cur] + 1 = opt.iters[cur]
              THEN End(cur)
              ELSE /\ UNCHANGED <<runq, next_rtk, cur, mapped, done>>
                   /\ UNCHANGED graph
           /\ UNCHANGED <<opt, cnt>>
-----------------------------------------------------------------------------
Run == Dispatch \/ Push \/ Pop \/ Iterate

(* The queue is empty and every kernel has finished: run() yields.         *)
Idle == /\ done = Kernels /\ runq = <<>> /\ cur = None /\ next_rtk = None
        /\ UNCHANGED vars

Next == Run \/ (\E k \in Kernels : callKernel(k)) \/ Idle

Spec == Init /\ [][Next]_vars

(* The scheduler's thread and the program's thread both keep running.      *)
FairSpec == Spec /\ WF_vars(Run) /\ \A k \in Kernels : WF_vars(callKernel(k))
-----------------------------------------------------------------------------

(***************************************************************************)
(* A kernel that was called and is not finished is always going to run     *)
(* again: it runs, is the next to run or is in the queue, although run()   *)
(* takes it out of the queue to execute it and drops what it cannot find.  *)
(* Without stealing it is in the queue at most once, so the queue does not *)
(* grow however long the kernels run.                                      *)
(***************************************************************************)
NoneForgotten == /\ \A k \in mapped : k \in {cur, next_rtk} \cup Range(runq)
                 /\ ~opt.steal => IsInjective(runq)

(***************************************************************************)
(* done() frees a stream once, when its second end finishes, and no kernel *)
(* uses a stream that was freed.                                           *)
(***************************************************************************)
FreedOnce == /\ \A s \in Streams :
                  freed[s] = IF {Src[s], Dst[s]} \subseteq done THEN 1 ELSE 0
             /\ InBody => freed[Stream] = 0

(***************************************************************************)
(* A kernel with one input that never returns 1 by itself finishes only    *)
(* when its input is drained, or when nobody takes its output any more: no *)
(* element is lost at the end of a stream.                                 *)
(***************************************************************************)
Drained == \A s \in Streams :
             /\ Dst[s] \in done /\ opt.iters[Dst[s]] = 0
             /\ Ins(Dst[s]) = {s} /\ Outs(Dst[s]) = {}
             => cnt[s] = 0

(***************************************************************************)
(* When a kernel of the graph returns 1, all the kernels finish and all    *)
(* the streams are freed.                                                  *)
(***************************************************************************)
Ending == \E k \in Kernels : opt.iters[k] # 0

AllFinish == Ending => <>(done = Kernels /\ \A s \in Streams : freed[s] = 1)

(***************************************************************************)
(* Without stealing, every kernel of a graph that never ends is given the  *)
(* processor again and again.                                              *)
(***************************************************************************)
EveryoneRuns == ~opt.steal /\ ~Ending => \A k \in Kernels : []<>(cur = k)
=============================================================================
