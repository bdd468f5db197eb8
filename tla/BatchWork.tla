----------------------------- MODULE BatchWork -----------------------------
(***************************************************************************)
(* A fixed-rate kernel compiled by SKIROuterLoopPass.  Its stream          *)
(* operations test nothing (the _nocheck variants); instead the work       *)
(* function first asks compute_niters how many iterations the streams      *)
(* allow and then runs them in a batch (lib/runtime/inline_stream_ops.cpp).*)
(*                                                                         *)
(* The kernels at the other end of the streams run on other threads and    *)
(* use the tested operations of StreamRing, here one atomic step each.     *)
(*                                                                         *)
(* The body of one iteration is a sequence of operations [op, s, o, cond]: *)
(* "pop", "peek" or "push" on stream s, o the offset of a peek, cond TRUE  *)
(* when the operation may be skipped; "push_fuse" and "pop_fuse" are those *)
(* of a fused kernel on the buffers between its two parts.                 *)
(***************************************************************************)
EXTENDS Integers, Sequences, SequencesExt

CONSTANTS
  Compiled,  \* the kernels to compile; each has the fields
             \*   ins, outs          its ins[] and outs[]
             \*   ints               the buffers of a fused kernel
             \*   body               what one call of its work function does
             \*   pop, peek, push    pop_rate, peek_rate, push_rate per stream
             \*   esz                elem_size of its streams
             \*   nsz                the element size compute_niters has
             \*   local              TRUE: workfn_nocheck_1_1, which keeps
             \*                      head and tail in locals and stores them
             \*                      after each iteration
             \*   iters              iterations after which it is finished; a
             \*                      bound for the splitter and the joiner
             \*   supply             elements pushed into each input stream
  Names,     \* the names of streams
  SLOTS,     \* elements of the kernel's size in a buffer
  WORD       \* 2^w for the w bits of size_t

ASSUME BatchAssumption ==
  /\ SLOTS \in Nat \ {0, 1} /\ WORD \in Nat /\ WORD % 2 = 0
  /\ \A c \in Compiled :
       /\ c.ins \in Seq(Names) /\ c.outs \in Seq(Names)
       /\ c.body \in Seq(Range(c.body))
       /\ Range(c.ins) \cap Range(c.outs) = {}
       /\ c.esz \in Nat \ {0} /\ c.nsz \in Nat \ {0}
       /\ (SLOTS * c.esz) % c.nsz = 0 /\ 2 * SLOTS * c.esz < WORD
       /\ \A s \in Range(c.ins) : c.pop[s] \in Nat \ {0} /\ c.peek[s] \in Nat
       /\ \A s \in Range(c.outs) : c.push[s] \in Nat \ {0}

VARIABLES
  kernel,       \* the kernel that was compiled
  head, tail,   \* s->head and s->tail of every stream
  lhead, ltail, \* the copies the batch works on (Local)
  pushed,       \* history: elements copied into each stream
  popped,       \* history: elements copied out of each stream
  pc,           \* "idle", "scan", "run", "done"
  i,            \* scan: index in ScanSeq;  run: index in Body
  n,            \* iterations allowed so far / left
  wr, rd,       \* strm_wr_idx and strm_rd_idx of the buffers of a fused kernel
  niter         \* rt_state->niter

ring == <<head, tail, pushed, popped>>
vars == <<kernel, head, tail, lhead, ltail, pushed, popped, pc, i, n, niter,
          wr, rd>>

Ins == Range(kernel.ins)
Outs == Range(kernel.outs)
Body == kernel.body
ESZ == kernel.esz
NSZ == kernel.nsz
BUFSZ == SLOTS * ESZ

zero == [s \in Names |-> 0]

Init == /\ kernel \in Compiled
        /\ head = zero /\ tail = zero /\ lhead = zero /\ ltail = zero
        /\ pushed = zero /\ popped = zero
        /\ pc = "idle" /\ i = 1 /\ n = 0 /\ niter = 0
        /\ wr = zero /\ rd = zero
-----------------------------------------------------------------------------
Wrap(x) == IF x < 0 THEN x + BUFSZ ELSE x

pop_space(s) == Wrap(head[s] - tail[s])

push_space(s) == Wrap(tail[s] - ((head[s] + NSZ) % BUFSZ))

(* A size_t assigned to a long long.                                       *)
Signed(x) == IF x >= WORD \div 2 THEN x - WORD ELSE x

npush_PerElement(s) == push_space(s) \div NSZ
npush(s) == (push_space(s) \div NSZ) \div kernel.push[s]

npop_KeepsOne(s) ==
  ((pop_space(s) \div NSZ) - kernel.peek[s] - 1) \div kernel.pop[s]

(* space, peek_rate and pop_rate are combined as size_t.                   *)
npop(s) ==
  Signed((((pop_space(s) \div NSZ) - kernel.peek[s]) % WORD) \div kernel.pop[s])

ScanSeq == kernel.outs \o kernel.ins

Room(s) == IF s \in Outs THEN npush(s) ELSE npop(s)

(* compute_niters looks at one stream after the other, while the kernels   *)
(* at the other ends keep running.                                         *)
ComputeBegin == /\ pc = "idle"
                /\ pc' = "scan" /\ i' = 1 /\ n' = BUFSZ
                /\ UNCHANGED <<kernel, lhead, ltail, niter, wr, rd>> /\ UNCHANGED ring

ComputeStream ==
  LET s == ScanSeq[i] IN
  /\ pc = "scan" /\ i <= Len(ScanSeq)
  /\ IF Room(s) <= 0
     THEN pc' = "idle" /\ i' = 1 /\ n' = 0    \* *v = s->dst or s->src
     ELSE /\ n' = IF Room(s) < n THEN Room(s) ELSE n
          /\ i' = i + 1 /\ UNCHANGED pc
  /\ UNCHANGED <<kernel, lhead, ltail, niter, wr, rd>> /\ UNCHANGED ring

ComputeEnd == /\ pc = "scan" /\ i > Len(ScanSeq)
              /\ pc' = "run" /\ i' = 1
              /\ lhead' = head /\ ltail' = tail
              /\ UNCHANGED <<kernel, n, niter, wr, rd>> /\ UNCHANGED ring
-----------------------------------------------------------------------------
(* The batch.  A push or pop advances the kernel's own end of the stream,  *)
(* at once or, with local copies, at the end of the iteration.             *)

Running(o) == pc = "run" /\ i <= Len(Body) /\ Body[i].op = o

Pop == LET s == Body[i].s
           t == (ltail[s] + ESZ) % BUFSZ IN
       /\ Running("pop")
       /\ ltail' = [ltail EXCEPT ![s] = t]
       /\ tail' = IF kernel.local THEN tail ELSE [tail EXCEPT ![s] = t]
       /\ popped' = [popped EXCEPT ![s] = @ + 1]
       /\ i' = i + 1
       /\ UNCHANGED <<kernel, head, lhead, pushed, pc, n, niter, wr, rd>>

Peek == /\ Running("peek")
        /\ i' = i + 1
        /\ UNCHANGED <<kernel, lhead, ltail, pc, n, niter, wr, rd>> /\ UNCHANGED ring

Push == LET s == Body[i].s
            h == (lhead[s] + ESZ) % BUFSZ IN
        /\ Running("push")
        /\ lhead' = [lhead EXCEPT ![s] = h]
        /\ head' = IF kernel.local THEN head ELSE [head EXCEPT ![s] = h]
        /\ pushed' = [pushed EXCEPT ![s] = @ + 1]
        /\ i' = i + 1
        /\ UNCHANGED <<kernel, tail, ltail, popped, pc, n, niter, wr, rd>>

(* The element goes to or comes from a buffer on the stack of the fused    *)
(* function, four bytes whatever its size.                                 *)
FUSE == 4

PushFuse == LET s == Body[i].s IN
            /\ Running("push_fuse")
            /\ wr' = [wr EXCEPT ![s] = @ + FUSE]
            /\ i' = i + 1
            /\ UNCHANGED <<kernel, lhead, ltail, pc, n, niter, rd>> /\ UNCHANGED ring

PopFuse == LET s == Body[i].s IN
           /\ Running("pop_fuse")
           /\ rd' = [rd EXCEPT ![s] = @ + FUSE]
           /\ i' = i + 1
           /\ UNCHANGED <<kernel, lhead, ltail, pc, n, niter, wr>> /\ UNCHANGED ring

Skip == /\ pc = "run" /\ i <= Len(Body) /\ Body[i].cond
        /\ i' = i + 1
        /\ UNCHANGED <<kernel, lhead, ltail, pc, n, niter, wr, rd>> /\ UNCHANGED ring

(* End of an iteration.  The work function returns 1 in its last one,      *)
(* which breaks the loop.  The two stores of the local copies belong to    *)
(* different streams and are one step.                                     *)
Iterate == /\ pc = "run" /\ i > Len(Body)
           /\ niter' = niter + 1
           /\ tail' = [s \in Names |-> IF s \in Ins THEN ltail[s] ELSE tail[s]]
           /\ head' = [s \in Names |-> IF s \in Outs THEN lhead[s] ELSE head[s]]
           /\ n' = n - 1 /\ i' = 1
           /\ wr' = zero /\ rd' = zero
           /\ pc' = IF niter + 1 = kernel.iters THEN "done"
                    ELSE IF n = 1 THEN "idle" ELSE "run"
           /\ UNCHANGED <<kernel, lhead, ltail, pushed, popped>>

Kernel == ComputeBegin \/ ComputeStream \/ ComputeEnd
          \/ Pop \/ Peek \/ Push \/ PushFuse \/ PopFuse \/ Skip \/ Iterate
-----------------------------------------------------------------------------
(* The other ends, with the tests of StreamRing.                           *)

EnvPush(s) == /\ s \in Ins /\ pushed[s] < kernel.supply
              /\ (head[s] + ESZ) % BUFSZ # tail[s]
              /\ head' = [head EXCEPT ![s] = (@ + ESZ) % BUFSZ]
              /\ pushed' = [pushed EXCEPT ![s] = @ + 1]
              /\ UNCHANGED <<kernel, tail, lhead, ltail, popped, pc, i, n, niter, wr, rd>>

EnvPop(s) == /\ s \in Outs /\ head[s] # tail[s]
             /\ tail' = [tail EXCEPT ![s] = (@ + ESZ) % BUFSZ]
             /\ popped' = [popped EXCEPT ![s] = @ + 1]
             /\ UNCHANGED <<kernel, head, lhead, ltail, pushed, pc, i, n, niter, wr, rd>>

(* The kernel is finished and the streams are drained.                     *)
Finished == /\ pc = "done" /\ \A s \in Outs : head[s] = tail[s]
            /\ UNCHANGED vars

Next == \/ Kernel
        \/ \E s \in Names : EnvPush(s) \/ EnvPop(s)
        \/ Finished

Spec == Init /\ [][Next]_vars

(* The schedulers run every kernel that is not finished again.             *)
FairSpec == /\ Spec /\ WF_vars(Kernel)
            /\ \A s \in Names : WF_vars(EnvPush(s)) /\ WF_vars(EnvPop(s))
-----------------------------------------------------------------------------

(***************************************************************************)
(* The assertion left in the code as a comment in pop_nocheck,             *)
(* "assert(s->head != s->tail)": no untested pop or peek of the batch      *)
(* reads an element that was not pushed yet.                               *)
(***************************************************************************)
NoUnderrun ==
  pc = "run" /\ i <= Len(Body) /\ Body[i].op \in {"pop", "peek"} =>
    popped[Body[i].s] + Body[i].o < pushed[Body[i].s]

(***************************************************************************)
(* The assertion left in the code as a comment in push_nocheck,            *)
(* "assert(next != s->tail)": no untested push of the batch overwrites an  *)
(* element that was not popped yet.                                        *)
(***************************************************************************)
NoOverrun ==
  Running("push") => pushed[Body[i].s] - popped[Body[i].s] < SLOTS - 1

(***************************************************************************)
(* A fused kernel never writes past a buffer between its two parts, never  *)
(* reads there what its first part did not write in the same iteration,    *)
(* and leaves nothing in it: the next iteration starts with empty buffers, *)
(* so what is left would be lost.                                          *)
(***************************************************************************)
BufferExact ==
  \A s \in Range(kernel.ints) :
       /\ wr[s] <= kernel.push[s] * ESZ
       /\ rd[s] <= wr[s]
       /\ pc = "run" /\ i > Len(Body) => rd[s] = wr[s]

(***************************************************************************)
(* The kernel gets all of its iterations done: compute_niters answers 0    *)
(* only while a neighbour still has something to do.                       *)
(***************************************************************************)
GetsDone == <>(pc = "done")
=============================================================================
