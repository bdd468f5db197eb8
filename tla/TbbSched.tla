------------------------------ MODULE TbbSched ------------------------------
(***************************************************************************)
(* The task scheduler (lib/SKIR/SKIRTbbSched.cpp): the thread in run()     *)
(* makes a TBB task for a kernel that has none and hands it to the pool;   *)
(* workers execute the tasks.  A task whose kernel is blocked makes a task *)
(* for the blocker, or steals the one it has, executes it next and puts    *)
(* itself back into the pool.                                              *)
(*                                                                         *)
(* k->lock is a spin lock that is only ever tried here.  k->running, an    *)
(* atomic, counts the tasks of k that exist.  The pool is TBB's: a task in *)
(* it is executed by some worker; a task that ends may have its memory     *)
(* reused by the next one.  A kernel executes as in KoroSched; the end of  *)
(* a stream is one step here and taken apart in StreamEnd.                 *)
(***************************************************************************)
EXTENDS Integers, Sequences, FiniteSets, SequencesExt

CONSTANTS
  Kernels, Streams, Src, Dst, Body, Iters, Cap,   \* as in KoroSched
  Order,       \* the order in which the program calls the kernels
  Workers,     \* threads that execute tasks, and
  Teams,       \* the sets of them TBB may have
  Tasks,       \* places in memory for tasks
  TbbRetries,
  Steal        \* FALSE: -disable-coro-steal

Main == "run()"
None == "none"
Unset == "unset"
Finished == "finished"
NoTask == 0

ASSUME TbbAssumption ==
  /\ Src \in [Streams -> Kernels] /\ Dst \in [Streams -> Kernels]
  /\ \A s \in Streams : Src[s] # Dst[s]
  /\ Body \in [Kernels -> Seq(Streams)]
  /\ Order \in Seq(Kernels) /\ Range(Order) = Kernels /\ IsInjective(Order)
  /\ Iters \in [Kernels -> Nat] /\ Cap \in Nat \ {0}
  /\ IsFiniteSet(Kernels) /\ IsFiniteSet(Tasks) /\ NoTask \notin Tasks
  /\ Cardinality(Tasks) > Cardinality(Kernels)
  /\ TbbRetries \in Nat /\ Steal \in BOOLEAN
  /\ Kernels \cap {None, Unset, Finished} = {}
  /\ Workers \cap {Main, None} = {} /\ Teams \subseteq SUBSET Workers

VARIABLES
  team,      \* the workers TBB has
  called,    \* number of kernels of Order called so far
  runq,      \* run()'s queue
  mpc, mk,   \* where run() is, and its k
  lock,      \* holder of each k->lock
  running,   \* k->running
  owner,     \* k->owning_task
  done,      \* kernels in state DONE
  kern,      \* the kernel of each task; None: there is no such task
  pool,      \* tasks ready to be executed
  wpc, job,  \* where each worker is, and its task
  blk,       \* the blocker it looks at
  retries,   \* execute's local retries
  cnt, src, dst, at, iter   \* as in KoroSched

tasks == <<kern, pool, owner>>
main == <<team, runq, mpc, mk>>
work == <<team, wpc, job, blk, retries>>
stream == <<cnt, src, dst, at, iter>>
vars == <<team, called, runq, mpc, mk, lock, running, owner, done, kern, pool,
          wpc, job, blk, retries, cnt, src, dst, at, iter>>

Init == /\ team \in Teams
        /\ called = 0 /\ runq = <<>> /\ mpc = "pop" /\ mk = None
        /\ lock = [k \in Kernels |-> None]
        /\ running = [k \in Kernels |-> 0] /\ owner = [k \in Kernels |-> NoTask]
        /\ done = {} /\ kern = [t \in Tasks |-> None] /\ pool = {}
        /\ wpc = [w \in Workers |-> "take"] /\ job = [w \in Workers |-> NoTask]
        /\ blk = [w \in Workers |-> None] /\ retries = [w \in Workers |-> 0]
        /\ cnt = [s \in Streams |-> 0]
        /\ src = [s \in Streams |-> Unset] /\ dst = [s \in Streams |-> Unset]
        /\ at = [k \in Kernels |-> 1] /\ iter = [k \in Kernels |-> 0]

Mapped == {Order[i] : i \in 1 .. called}
Live == {t \in Tasks : kern[t] # None}
-----------------------------------------------------------------------------
(* The program executes skir.call for the next kernel.                     *)
callKernel ==
  /\ called < Len(Order)
  /\ called' = called + 1
  /\ LET k == Order[called + 1] IN
       /\ dst' = [s \in Streams |-> IF Dst[s] = k THEN k ELSE dst[s]]
       /\ src' = [s \in Streams |-> IF Src[s] = k THEN k ELSE src[s]]
       /\ runq' = Append(runq, k)
  /\ UNCHANGED <<mpc, mk, lock, running, done, cnt, at, iter>>
  /\ UNCHANGED tasks /\ UNCHANGED work

(* A new task for kernel k, whose lock the caller holds.                   *)
Fresh == CHOOSE t \in Tasks : t \notin Live

kernel_task(k) == /\ kern' = [kern EXCEPT ![Fresh] = k]
                  /\ owner' = [owner EXCEPT ![k] = Fresh]
                  /\ running' = [running EXCEPT ![k] = @ + 1]
-----------------------------------------------------------------------------
(* run().                                                                  *)

RunPop == /\ mpc = "pop" /\ runq # <<>>
          /\ mk' = Head(runq) /\ runq' = Tail(runq)
          /\ mpc' = IF Head(runq) \notin done /\ running[Head(runq)] = 0
                    THEN "lock" ELSE "requeue"
          /\ UNCHANGED <<called, lock, running, done>>
          /\ UNCHANGED tasks /\ UNCHANGED work /\ UNCHANGED stream

RunLock == /\ mpc = "lock"
           /\ IF lock[mk] = None
              THEN lock' = [lock EXCEPT ![mk] = Main] /\ mpc' = "spawn"
              ELSE UNCHANGED lock /\ mpc' = "requeue"
           /\ UNCHANGED <<called, runq, mk, running, done>>
           /\ UNCHANGED tasks /\ UNCHANGED work /\ UNCHANGED stream

RunSpawn_NoRecheck ==
  /\ mpc = "spawn"
  /\ kernel_task(mk) /\ pool' = pool \cup {Fresh}
  /\ mpc' = IF 2 + Cardinality(Live) >= Len(runq) THEN "waitall" ELSE "requeue"
  /\ lock' = [lock EXCEPT ![mk] = None]
  /\ UNCHANGED <<called, runq, mk, done>>
  /\ UNCHANGED work /\ UNCHANGED stream

(* running is tested again under the lock.  The root task's reference      *)
(* count is one more than the number of tasks.                             *)
RunSpawn ==
  /\ mpc = "spawn"
  /\ IF running[mk] = 0
     THEN /\ kernel_task(mk) /\ pool' = pool \cup {Fresh}
          /\ mpc' = IF 2 + Cardinality(Live) >= Len(runq)
                    THEN "waitall" ELSE "requeue"
     ELSE /\ mpc' = "requeue"
          /\ UNCHANGED running /\ UNCHANGED tasks
  /\ lock' = [lock EXCEPT ![mk] = None]
  /\ UNCHANGED <<called, runq, mk, done>>
  /\ UNCHANGED work /\ UNCHANGED stream

RunWaitAll == /\ mpc = "waitall" /\ Live = {}
              /\ mpc' = "requeue"
              /\ UNCHANGED <<called, runq, mk, lock, running, done>>
              /\ UNCHANGED tasks /\ UNCHANGED work /\ UNCHANGED stream

RunRequeue_Once == /\ mpc = "requeue"
                   /\ mpc' = "pop" /\ mk' = None
                   /\ UNCHANGED <<called, runq, lock, running, done>>
                   /\ UNCHANGED tasks /\ UNCHANGED work /\ UNCHANGED stream

RunRequeue == /\ mpc = "requeue"
              /\ runq' = IF mk \in done THEN runq ELSE Append(runq, mk)
              /\ mpc' = "pop" /\ mk' = None
              /\ UNCHANGED <<called, lock, running, done>>
              /\ UNCHANGED tasks /\ UNCHANGED work /\ UNCHANGED stream

Run == RunPop \/ RunLock \/ RunSpawn \/ RunWaitAll \/ RunRequeue
-----------------------------------------------------------------------------
(* kernel_task::execute, by worker w.                                      *)

K(w) == kern[job[w]]

(* The task ends: running--, the worker's lock, if any, is released.       *)
TaskEnds(w) ==
  /\ running' = [running EXCEPT ![K(w)] = @ - 1]
  /\ kern' = [kern EXCEPT ![job[w]] = None]
  /\ lock' = [lock EXCEPT ![K(w)] = IF @ = w THEN None ELSE @]
  /\ wpc' = [wpc EXCEPT ![w] = "take"] /\ job' = [job EXCEPT ![w] = NoTask]
  /\ UNCHANGED <<owner, pool>>

Goto(w, l) == wpc' = [wpc EXCEPT ![w] = l]

Take(w) == /\ w \in team /\ wpc[w] = "take"
           /\ \E t \in pool : pool' = pool \ {t} /\ job' = [job EXCEPT ![w] = t]
           /\ Goto(w, "lock")
           /\ UNCHANGED <<called, lock, running, done, kern, owner, blk, retries>>
           /\ UNCHANGED main /\ UNCHANGED stream

Lock(w) == /\ wpc[w] = "lock"
           /\ IF lock[K(w)] = None
              THEN /\ lock' = [lock EXCEPT ![K(w)] = w] /\ Goto(w, "check")
                   /\ UNCHANGED <<running, job>> /\ UNCHANGED tasks
              ELSE TaskEnds(w)
           /\ UNCHANGED <<called, done, blk, retries>>
           /\ UNCHANGED main /\ UNCHANGED stream

Check(w) == /\ wpc[w] = "check"
            /\ IF owner[K(w)] = job[w] /\ K(w) \notin done
               THEN /\ Goto(w, "work")
                    /\ retries' = [retries EXCEPT ![w] = TbbRetries]
                    /\ UNCHANGED <<lock, running, job>> /\ UNCHANGED tasks
               ELSE TaskEnds(w) /\ UNCHANGED retries
            /\ UNCHANGED <<called, done, blk>>
            /\ UNCHANGED main /\ UNCHANGED stream

(* k->work(): one stream operation after the other, until one is blocked   *)
(* or the kernel returns 1.                                                *)
Stream(w) == Body[K(w)][at[K(w)]]
InBody(w) == wpc[w] = "work" /\ at[K(w)] <= Len(Body[K(w)])
Stuck(w) == cnt[Stream(w)] = IF Src[Stream(w)] = K(w) THEN Cap ELSE 0

Operate(w) ==
  /\ InBody(w) /\ ~Stuck(w)
  /\ cnt' = [cnt EXCEPT ![Stream(w)] = IF Src[Stream(w)] = K(w) THEN @ + 1 ELSE @ - 1]
  /\ at' = [at EXCEPT ![K(w)] = @ + 1]
  /\ UNCHANGED <<called, lock, running, done, src, dst, iter>>
  /\ UNCHANGED main /\ UNCHANGED work /\ UNCHANGED tasks

Iterate(w) ==
  /\ wpc[w] = "work" /\ at[K(w)] > Len(Body[K(w)])
  /\ at' = [at EXCEPT ![K(w)] = 1]
  /\ iter' = [iter EXCEPT ![K(w)] = IF Iters[K(w)] = 0 THEN 0 ELSE @ + 1]
  /\ Goto(w, IF Iters[K(w)] # 0 /\ iter[K(w)] + 1 = Iters[K(w)]
             THEN "done" ELSE "work")
  /\ UNCHANGED <<called, lock, running, done, cnt, src, dst, job, blk, retries>>
  /\ UNCHANGED main /\ UNCHANGED tasks

Blocked_NeverDone(w) ==
  LET b == IF Src[Stream(w)] = K(w) THEN dst[Stream(w)] ELSE src[Stream(w)] IN
  /\ InBody(w) /\ Stuck(w)
  /\ blk' = [blk EXCEPT ![w] = b]
  /\ Goto(w, IF b = Finished THEN "retry" ELSE "blocker")
  /\ UNCHANGED <<called, lock, running, done, job, retries>>
  /\ UNCHANGED main /\ UNCHANGED tasks /\ UNCHANGED stream

Blocked(w) ==
  LET b == IF Src[Stream(w)] = K(w) THEN dst[Stream(w)] ELSE src[Stream(w)] IN
  /\ InBody(w) /\ Stuck(w)
  /\ blk' = [blk EXCEPT ![w] = b]
  /\ Goto(w, IF b = Finished THEN "done" ELSE "blocker")
  /\ UNCHANGED <<called, lock, running, done, job, retries>>
  /\ UNCHANGED main /\ UNCHANGED tasks /\ UNCHANGED stream

(* k->done(), then the task ends.                                          *)
Done(w) == /\ wpc[w] = "done"
           /\ done' = done \cup {K(w)}
           /\ src' = [s \in Streams |-> IF Src[s] = K(w) THEN Finished ELSE src[s]]
           /\ dst' = [s \in Streams |-> IF Dst[s] = K(w) THEN Finished ELSE dst[s]]
           /\ TaskEnds(w)
           /\ UNCHANGED <<called, blk, retries, cnt, at, iter>>
           /\ UNCHANGED main

(* Still blocked: work again while there are retries left.                 *)
Retry(w) == \/ /\ retries[w] > 0
               /\ retries' = [retries EXCEPT ![w] = @ - 1]
               /\ Goto(w, "work")
               /\ UNCHANGED <<lock, running, job>> /\ UNCHANGED tasks
            \/ retries[w] = 0 /\ UNCHANGED retries /\ TaskEnds(w)

(* kernel_map_find(b) and try_acquire of the blocker's lock.               *)
LockBlocker(w) ==
  /\ wpc[w] = "blocker"
  /\ \/ /\ blk[w] = Unset
        /\ TaskEnds(w) /\ UNCHANGED retries
     \/ /\ blk[w] # Unset /\ lock[blk[w]] # None
        /\ Retry(w)
     \/ /\ blk[w] # Unset /\ lock[blk[w]] = None
        /\ lock' = [lock EXCEPT ![blk[w]] = w] /\ Goto(w, "decide")
        /\ UNCHANGED <<running, job, retries>> /\ UNCHANGED tasks
  /\ UNCHANGED <<called, done, blk>>
  /\ UNCHANGED main /\ UNCHANGED stream

(* Both locks are released; this task goes back to the pool and the worker *)
(* executes t.                                                             *)
Switch(w, t) == /\ lock' = [lock EXCEPT ![K(w)] = None, ![blk[w]] = None]
                /\ job' = [job EXCEPT ![w] = t]
                /\ Goto(w, "lock")

Decide_LeavesStolen(w) ==
  LET b == blk[w] IN
  /\ wpc[w] = "decide"
  /\ \/ /\ running[b] = 0
        /\ kernel_task(b) /\ Switch(w, Fresh) /\ pool' = pool \cup {job[w]}
        /\ UNCHANGED retries
     \/ /\ running[b] # 0 /\ Steal /\ owner[b] \in pool
        /\ Switch(w, owner[b]) /\ pool' = pool \cup {job[w]}
        /\ UNCHANGED <<running, kern, owner, retries>>
     \/ /\ running[b] # 0 /\ ~(Steal /\ owner[b] \in pool)
        /\ lock' = [lock EXCEPT ![b] = None] /\ Goto(w, "retry")
        /\ UNCHANGED <<running, job, retries>> /\ UNCHANGED tasks
  /\ UNCHANGED <<called, done, blk>>
  /\ UNCHANGED main /\ UNCHANGED stream

Decide(w) ==
  LET b == blk[w] IN
  /\ wpc[w] = "decide"
  /\ \/ /\ running[b] = 0
        /\ kernel_task(b) /\ Switch(w, Fresh) /\ pool' = pool \cup {job[w]}
        /\ UNCHANGED retries
     \/ /\ running[b] # 0 /\ Steal /\ owner[b] \in pool
        /\ Switch(w, owner[b]) /\ pool' = (pool \ {owner[b]}) \cup {job[w]}
        /\ UNCHANGED <<running, kern, owner, retries>>
     \/ /\ running[b] # 0 /\ ~(Steal /\ owner[b] \in pool)
        /\ lock' = [lock EXCEPT ![b] = None] /\ Goto(w, "retry")
        /\ UNCHANGED <<running, job, retries>> /\ UNCHANGED tasks
  /\ UNCHANGED <<called, done, blk>>
  /\ UNCHANGED main /\ UNCHANGED stream

RetryAfter(w) == /\ wpc[w] = "retry"
                 /\ Retry(w)
                 /\ UNCHANGED <<called, done, blk>>
                 /\ UNCHANGED main /\ UNCHANGED stream

Worker(w) == \/ Take(w) \/ Lock(w) \/ Check(w) \/ Operate(w) \/ Iterate(w)
             \/ Blocked(w) \/ Done(w) \/ LockBlocker(w) \/ Decide(w)
             \/ RetryAfter(w)
-----------------------------------------------------------------------------
(* All the kernels have finished; run() finds its queue empty.             *)
Idle == done = Kernels /\ runq = <<>> /\ Live = {} /\ UNCHANGED vars

Next == Run \/ callKernel \/ (\E w \in Workers : Worker(w)) \/ Idle

Spec == Init /\ [][Next]_vars

(* The threads keep running, and TBB keeps every worker supplied.          *)
FairSpec == Spec /\ WF_vars(Run) /\ WF_vars(callKernel)
                 /\ \A w \in Workers : WF_vars(Worker(w))
-----------------------------------------------------------------------------

(***************************************************************************)
(* A kernel has at most one task, in the pool or with one worker, and      *)
(* running says whether it has: the tests running == 0 and the assertions  *)
(* running > 0 mean what they are meant to.                                *)
(***************************************************************************)
RunningCounts ==
  \A k \in Kernels :
    /\ running[k] = Cardinality({t \in Live : kern[t] = k})
    /\ running[k] <= 1

(***************************************************************************)
(* A task is either in the pool or in the hands of one worker, also when   *)
(* it is stolen at the moment the pool hands it out: with RunningCounts,   *)
(* no two workers execute the work function of a kernel at the same time.  *)
(***************************************************************************)
OnePlace ==
  \A t \in Live :
    Cardinality({w \in Workers : job[w] = t}) = IF t \in pool THEN 0 ELSE 1

(***************************************************************************)
(* run() never loses a kernel: one that was called and is not finished is  *)
(* in its queue or in its hands, whatever becomes of the kernel's task.    *)
(***************************************************************************)
NoneForgotten == Mapped \ done \subseteq Range(runq) \cup {mk}

(***************************************************************************)
(* With one worker, all the kernels of the graph finish, although a task   *)
(* that fails to get a lock just ends and wait_for_all keeps run() from    *)
(* making new ones.                                                        *)
(***************************************************************************)
AllFinish == Cardinality(team) = 1 => <>(done = Kernels)

=============================================================================
