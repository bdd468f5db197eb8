--------------------------- MODULE TbbSched_proofs ---------------------------
(***************************************************************************)
(* TLAPS proofs about TbbSched, for every graph and any number of workers. *)
(***************************************************************************)
EXTENDS TbbSched, SequenceTheorems, FiniteSetTheorems, TLAPS

(* Where a worker holds the lock of its task's kernel.                     *)
Inside == {"check", "work", "done", "blocker", "decide", "retry"}

(* The typing invariant, for run(), for the kernels and streams, and for   *)
(* the tasks and workers.  An end of a stream names no other kernel.       *)
MainOK ==
  /\ called \in 0 .. Len(Order) /\ runq \in Seq(Kernels)
  /\ mpc \in {"pop", "lock", "spawn", "waitall", "requeue"}
  /\ mk \in Kernels \cup {None} /\ (mk = None <=> mpc = "pop")

StreamsOK ==
  /\ done \subseteq Kernels
  /\ at \in [Kernels -> Nat \ {0}]
  /\ src \in [Streams -> Kernels \cup {Unset, Finished}]
  /\ dst \in [Streams -> Kernels \cup {Unset, Finished}]
  /\ \A s \in Streams : /\ src[s] \in {Src[s], Unset, Finished}
                        /\ dst[s] \in {Dst[s], Unset, Finished}

TasksOK ==
  /\ lock \in [Kernels -> Workers \cup {Main, None}]
  /\ running \in [Kernels -> {0, 1}]
  /\ owner \in [Kernels -> Tasks \cup {NoTask}]
  /\ kern \in [Tasks -> Kernels \cup {None}]
  /\ pool \subseteq Tasks
  /\ wpc \in [Workers -> Inside \cup {"take", "lock"}]
  /\ job \in [Workers -> Tasks \cup {NoTask}]
  /\ blk \in [Workers -> Kernels \cup {None, Unset, Finished}]

TypeOK == MainOK /\ StreamsOK /\ TasksOK

(* running tells whether the kernel has a task, and it has at most one.    *)
CountInv ==
  /\ \A k \in Kernels : running[k] = 0 <=> \A t \in Tasks : kern[t] # k
  /\ \A t, u \in Tasks : kern[t] = kern[u] /\ kern[t] # None => t = u

(* A task that exists is in the pool or with a worker, not with two.       *)
PlaceInv ==
  /\ \A t \in pool : kern[t] # None
  /\ \A w \in Workers : job[w] = NoTask <=> wpc[w] = "take"
  /\ \A w \in Workers : job[w] # NoTask => kern[job[w]] # None /\ job[w] \notin pool
  /\ \A v, w \in Workers : job[v] = job[w] /\ job[v] # NoTask => v = w
  /\ \A t \in Tasks : kern[t] # None => t \in pool \/ \E w \in Workers : job[w] = t

(* Who works on a kernel, or on its blocker's task, holds its lock.        *)
LockInv ==
  /\ \A w \in Workers :
       /\ wpc[w] \in Inside => lock[K(w)] = w
       /\ wpc[w] \in {"blocker", "decide"} => blk[w] \in Kernels \cup {Unset} /\ blk[w] # K(w)
       /\ wpc[w] = "decide" => blk[w] \in Kernels /\ lock[blk[w]] = w
  /\ mpc = "spawn" => lock[mk] = Main

TaskInv == TypeOK /\ CountInv /\ PlaceInv /\ LockInv
-----------------------------------------------------------------------------

(* push_back adds one kernel to those of the queue.                        *)
LEMMA PushRange ==
  ASSUME NEW S, NEW q \in Seq(S), NEW e \in S
  PROVE  Range(Append(q, e)) = Range(q) \cup {e}
<1>1. Append(q, e) = q \o <<e>> /\ <<e>> \in Seq(S)
  OBVIOUS
<1>2. Range(<<e>>) = {e}
  BY DEF Range
<1>3. Range(q \o <<e>>) = Range(q) \cup Range(<<e>>)
  BY <1>1, RangeConcatenation, Zenon
<1>4. QED
  BY <1>1, <1>2, <1>3, Zenon

(* front and pop take one kernel from those of the queue.                  *)
LEMMA FrontRange ==
  ASSUME NEW S, NEW q \in Seq(S), q # <<>>
  PROVE  /\ Head(q) \in S /\ Tail(q) \in Seq(S)
         /\ Range(q) = {Head(q)} \cup Range(Tail(q))
<1>1. /\ Head(q) \in S /\ Tail(q) \in Seq(S) /\ <<Head(q)>> \in Seq(S)
  OBVIOUS
<1>2. q = <<Head(q)>> \o Tail(q)
  OBVIOUS
<1>3. Range(<<Head(q)>>) = {Head(q)}
  BY DEF Range
<1>4. Range(<<Head(q)>> \o Tail(q)) = Range(<<Head(q)>>) \cup Range(Tail(q))
  <2> DEFINE first == <<Head(q)>>
             rest == Tail(q)
  <2>1. first \in Seq(S) /\ rest \in Seq(S)
    BY <1>1
  <2> HIDE DEF first, rest
  <2>2. Range(first \o rest) = Range(first) \cup Range(rest)
    BY ONLY <2>1, RangeConcatenation, Zenon
  <2>3. QED
    BY <2>2 DEF first, rest
<1>5. QED
  BY <1>1, <1>2, <1>3, <1>4, Zenon

(* The special values differ from each other, from the kernels, from the   *)
(* workers and from the tasks.                                             *)
LEMMA ConstFacts ==
  /\ None # Unset /\ None # Finished /\ Unset # Finished /\ Main # None
  /\ \A k \in Kernels : k # None /\ k # Unset /\ k # Finished
  /\ \A w \in Workers : w # None /\ w # Main
  /\ \A t \in Tasks : t # NoTask
  /\ \A s \in Streams : Src[s] \in Kernels /\ Dst[s] \in Kernels /\ Src[s] # Dst[s]
<1>1. None # Unset /\ None # Finished /\ Unset # Finished /\ Main # None
  BY DEF None, Unset, Finished, Main
<1>2. QED
  BY <1>1, TbbAssumption

(* There is always a place for a new task: no kernel has two.              *)
LEMMA FreshFacts ==
  ASSUME TaskInv
  PROVE  /\ Fresh \in Tasks /\ kern[Fresh] = None /\ Fresh \notin pool
         /\ \A w \in Workers : job[w] # Fresh
<1>1. \E t \in Tasks : kern[t] = None
  <2>1. SUFFICES ASSUME \A t \in Tasks : kern[t] # None PROVE FALSE
    OBVIOUS
  <2>2. kern \in [Tasks -> Kernels]
    BY <2>1 DEF TaskInv, TypeOK, TasksOK
  <2>3. Cardinality(Kernels) < Cardinality(Tasks)
    <3>1. Cardinality(Kernels) \in Nat /\ Cardinality(Tasks) \in Nat
      BY TbbAssumption, FS_CardinalityType
    <3>2. QED
      BY <3>1, TbbAssumption
  <2>4. \E t, u \in Tasks : t # u /\ kern[t] = kern[u]
    <3>1. IsFiniteSet(Kernels) /\ IsFiniteSet(Tasks)
      BY TbbAssumption
    <3>2. QED
      BY <2>2, <2>3, <3>1, FS_PigeonHole, Zenon
  <2>5. QED
    BY <2>1, <2>4 DEF TaskInv, CountInv
<1>2. Fresh \in Tasks /\ kern[Fresh] = None
  BY <1>1 DEF Fresh, Live
<1>3. QED
  BY <1>2, ConstFacts DEF TaskInv, PlaceInv

(* A worker that has a task has one of a kernel.                           *)
LEMMA JobFacts ==
  ASSUME TaskInv, NEW w \in Workers, wpc[w] # "take"
  PROVE  /\ job[w] \in Tasks /\ K(w) \in Kernels
         /\ \A v \in Workers : v # w /\ wpc[v] # "take" => K(v) # K(w) /\ job[v] # job[w]
<1>1. \A v \in Workers : wpc[v] # "take" => job[v] \in Tasks /\ K(v) \in Kernels
  BY DEF TaskInv, TypeOK, TasksOK, PlaceInv, K
<1>2. \A v \in Workers : v # w /\ wpc[v] # "take" => K(v) # K(w) /\ job[v] # job[w]
  BY <1>1, ConstFacts DEF TaskInv, CountInv, PlaceInv, K
<1>3. QED
  BY <1>1, <1>2

(* No kernel is called, so there are no tasks.                             *)
LEMMA InitInv == Init => TaskInv
<1> SUFFICES ASSUME Init PROVE TaskInv
  OBVIOUS
<1>1. MainOK
  BY TbbAssumption DEF Init, MainOK
<1>2. StreamsOK
  BY DEF Init, StreamsOK
<1>3. TasksOK
  BY DEF Init, TasksOK
<1>4. CountInv /\ PlaceInv
  BY ConstFacts DEF Init, CountInv, PlaceInv
<1>5. LockInv
  BY DEF Init, LockInv, Inside
<1>6. QED
  BY <1>1, <1>2, <1>3, <1>4, <1>5 DEF TaskInv, TypeOK

(* The end of a task frees its place, and the lock if its worker held it.  *)
LEMMA TaskEndsInv ==
  ASSUME TaskInv, NEW w \in Workers, wpc[w] # "take", TaskEnds(w),
         blk' = blk, mpc' = mpc, mk' = mk, wpc[w] # "decide"
  PROVE  TasksOK' /\ CountInv' /\ PlaceInv' /\ LockInv'
<1>1. /\ job[w] \in Tasks /\ K(w) \in Kernels
      /\ \A v \in Workers : v # w /\ wpc[v] # "take" => K(v) # K(w) /\ job[v] # job[w]
  BY JobFacts
<1>2. running[K(w)] = 1 /\ job[w] \notin pool /\ kern[job[w]] # None
  BY <1>1, ConstFacts DEF TaskInv, TypeOK, TasksOK, CountInv, PlaceInv, K
<1>3. /\ running' = [running EXCEPT ![K(w)] = 0]
      /\ kern' = [kern EXCEPT ![job[w]] = None]
      /\ lock' = [lock EXCEPT ![K(w)] = IF lock[K(w)] = w THEN None ELSE lock[K(w)]]
      /\ wpc' = [wpc EXCEPT ![w] = "take"] /\ job' = [job EXCEPT ![w] = NoTask]
      /\ owner' = owner /\ pool' = pool
  <2>1. running[K(w)] - 1 = 0
    BY <1>2
  <2>2. QED
    BY <2>1 DEF TaskEnds
<1>4. TasksOK'
  BY <1>1, <1>3 DEF TaskInv, TypeOK, TasksOK
<1>5. CountInv'
  <2>1. \A t \in Tasks : kern'[t] = IF t = job[w] THEN None ELSE kern[t]
    BY <1>3 DEF TaskInv, TypeOK, TasksOK
  <2>2. \A t \in Tasks : t # job[w] => kern[t] # K(w)
    BY <1>1, <1>2 DEF TaskInv, CountInv, K
  <2>3. \A k \in Kernels : running'[k] = IF k = K(w) THEN 0 ELSE running[k]
    BY <1>3 DEF TaskInv, TypeOK, TasksOK
  <2>4. \A k \in Kernels : running'[k] = 0 <=> \A t \in Tasks : kern'[t] # k
    <3>1. ASSUME NEW k \in Kernels, k # K(w)
          PROVE  (\A t \in Tasks : kern'[t] # k) <=> (\A t \in Tasks : kern[t] # k)
      BY <2>1, <3>1, ConstFacts DEF K
    <3>2. \A t \in Tasks : kern'[t] # K(w)
      BY <1>1, <2>1, <2>2, ConstFacts
    <3>3. QED
      BY <2>3, <3>1, <3>2 DEF TaskInv, CountInv
  <2>5. QED
    BY <2>1, <2>4 DEF TaskInv, CountInv
<1>6. PlaceInv'
  <2>1. \A t \in Tasks : kern'[t] = IF t = job[w] THEN None ELSE kern[t]
    BY <1>3 DEF TaskInv, TypeOK, TasksOK
  <2>2. \A v \in Workers : /\ job'[v] = IF v = w THEN NoTask ELSE job[v]
                           /\ wpc'[v] = IF v = w THEN "take" ELSE wpc[v]
    BY <1>3 DEF TaskInv, TypeOK, TasksOK
  <2>3. \A v \in Workers : job[v] \in Tasks \cup {NoTask}
    BY DEF TaskInv, TypeOK, TasksOK
  <2>4. \A t \in pool' : kern'[t] # None
    BY <1>2, <1>3, <2>1 DEF TaskInv, TypeOK, TasksOK, PlaceInv
  <2>5. \A v \in Workers : job'[v] = NoTask <=> wpc'[v] = "take"
    BY <2>2 DEF TaskInv, PlaceInv
  <2>6. \A v \in Workers : job'[v] # NoTask => kern'[job'[v]] # None /\ job'[v] \notin pool'
    BY <1>1, <1>3, <2>1, <2>2, <2>3 DEF TaskInv, PlaceInv
  <2>7. \A v, x \in Workers : job'[v] = job'[x] /\ job'[v] # NoTask => v = x
    BY <2>2 DEF TaskInv, PlaceInv
  <2>8. \A t \in Tasks : kern'[t] # None => t \in pool' \/ \E v \in Workers : job'[v] = t
    BY <1>3, <2>1, <2>2 DEF TaskInv, PlaceInv
  <2>9. QED
    BY <2>4, <2>5, <2>6, <2>7, <2>8 DEF PlaceInv
<1>7. LockInv'
  <2>1. \A v \in Workers :
          /\ v # w => wpc'[v] = wpc[v] /\ job'[v] = job[v] /\ blk'[v] = blk[v]
          /\ wpc'[w] = "take"
    BY <1>3 DEF TaskInv, TypeOK, TasksOK
  <2>2. \A v \in Workers : v # w /\ wpc[v] # "take" => K(v)' = K(v)
    BY <1>1, <1>3, <2>1, JobFacts DEF TaskInv, TypeOK, TasksOK, K
  <2>3. \A k \in Kernels : lock'[k] = lock[k] \/ (k = K(w) /\ lock[k] = w)
    BY <1>3 DEF TaskInv, TypeOK, TasksOK
  <2>4. \A v \in Workers : v # w /\ wpc[v] # "take" => K(v) \in Kernels
    BY JobFacts
  <2>5. mpc = "spawn" => lock'[mk] = Main
    <3>1. mpc = "spawn" => mk \in Kernels /\ lock[mk] = Main
      BY DEF TaskInv, TypeOK, MainOK, LockInv
    <3>2. QED
      BY <2>3, <3>1, ConstFacts
  <2>6. ASSUME NEW v \in Workers
        PROVE  /\ wpc'[v] \in Inside => lock'[K(v)'] = v
               /\ wpc'[v] \in {"blocker", "decide"} => blk'[v] \in Kernels \cup {Unset} /\ blk'[v] # K(v)'
               /\ wpc'[v] = "decide" => blk'[v] \in Kernels /\ lock'[blk'[v]] = v
    <3>1. CASE v = w
      BY <2>1, <3>1 DEF Inside
    <3>2. CASE v # w
      BY <2>1, <2>2, <2>3, <2>4, <3>2 DEF TaskInv, LockInv, Inside
    <3>3. QED
      BY <3>1, <3>2
  <2>7. QED
    BY <2>5, <2>6 DEF LockInv
<1>8. QED
  BY <1>4, <1>5, <1>6, <1>7

(* A worker goes on with its task: the tasks stay where they are.          *)
LEMMA GoonInv ==
  ASSUME TaskInv, NEW w \in Workers, wpc[w] # "take",
         NEW l \in Inside, Goto(w, l), UNCHANGED <<kern, pool, owner, running, job>>
  PROVE  CountInv' /\ PlaceInv' /\ wpc' \in [Workers -> Inside \cup {"take", "lock"}]
<1>1. wpc' = [wpc EXCEPT ![w] = l] /\ l # "take"
  BY DEF Goto, Inside
<1>2. wpc' \in [Workers -> Inside \cup {"take", "lock"}]
  BY <1>1 DEF TaskInv, TypeOK, TasksOK
<1>3. \A v \in Workers : wpc'[v] = "take" <=> wpc[v] = "take"
  BY <1>1 DEF TaskInv, TypeOK, TasksOK
<1>4. QED
  BY <1>2, <1>3 DEF TaskInv, CountInv, PlaceInv

(* A worker that keeps its locks goes on with its task.                    *)
LEMMA GoonLock ==
  ASSUME TaskInv, NEW w \in Workers, wpc[w] \in Inside,
         NEW l \in Inside \ {"blocker", "decide"}, Goto(w, l),
         UNCHANGED <<kern, job, lock, mpc, mk>>,
         \A v \in Workers : v # w => blk'[v] = blk[v]
  PROVE  LockInv'
<1>1. \A v \in Workers : wpc'[v] = IF v = w THEN l ELSE wpc[v]
  BY DEF Goto, TaskInv, TypeOK, TasksOK
<1>2. \A v \in Workers : K(v)' = K(v)
  BY DEF K
<1>3. QED
  BY <1>1, <1>2 DEF TaskInv, LockInv, Inside

(* The program calls a kernel.                                             *)
LEMMA CallInv == TaskInv /\ callKernel => TaskInv'
<1> SUFFICES ASSUME TaskInv, callKernel PROVE TaskInv'
  OBVIOUS
<1> DEFINE k == Order[called + 1]
<1>1. k \in Kernels /\ called + 1 \in 0 .. Len(Order)
  BY TbbAssumption DEF callKernel, TaskInv, TypeOK, MainOK
<1>2. MainOK'
  BY <1>1 DEF callKernel, TaskInv, TypeOK, MainOK, work
<1>3. StreamsOK'
  BY <1>1 DEF callKernel, TaskInv, TypeOK, StreamsOK, work
<1>4. /\ lock' = lock /\ running' = running /\ owner' = owner /\ kern' = kern /\ pool' = pool
      /\ wpc' = wpc /\ job' = job /\ blk' = blk /\ mpc' = mpc /\ mk' = mk
  BY DEF callKernel, tasks, work
<1>5. QED
  BY <1>2, <1>3, <1>4 DEF TaskInv, TypeOK, TasksOK, CountInv, PlaceInv, LockInv, K

(* run() takes a kernel, its lock, or puts it back.                        *)
LEMMA RunOtherInv ==
  ASSUME TaskInv, RunPop \/ RunLock \/ RunWaitAll \/ RunRequeue
  PROVE  TaskInv'
<1>1. /\ running' = running /\ owner' = owner /\ kern' = kern /\ pool' = pool
      /\ wpc' = wpc /\ job' = job /\ blk' = blk /\ done' = done /\ at' = at
      /\ src' = src /\ dst' = dst /\ called' = called
  BY DEF RunPop, RunLock, RunWaitAll, RunRequeue, tasks, work, stream
<1>2. StreamsOK' /\ CountInv' /\ PlaceInv'
  BY <1>1 DEF TaskInv, TypeOK, StreamsOK, CountInv, PlaceInv
<1>3. MainOK'
  <2>1. CASE RunPop
    <3>1. Head(runq) \in Kernels /\ Tail(runq) \in Seq(Kernels)
      BY <2>1, FrontRange DEF RunPop, TaskInv, TypeOK, MainOK
    <3>2. QED
      BY <1>1, <2>1, <3>1, ConstFacts DEF RunPop, TaskInv, TypeOK, MainOK
  <2>2. CASE RunLock \/ RunWaitAll
    BY <1>1, <2>2 DEF RunLock, RunWaitAll, TaskInv, TypeOK, MainOK
  <2>3. CASE RunRequeue
    <3>1. mk \in Kernels
      BY <2>3 DEF RunRequeue, TaskInv, TypeOK, MainOK
    <3>2. QED
      BY <1>1, <2>3, <3>1 DEF RunRequeue, TaskInv, TypeOK, MainOK
  <2>4. QED
    BY <2>1, <2>2, <2>3
<1>4. \A v \in Workers : K(v)' = K(v)
  BY <1>1 DEF K
<1>5. TasksOK' /\ LockInv'
  <2>1. CASE RunLock /\ lock[mk] = None
    <3>1. /\ mk \in Kernels /\ mk' = mk /\ mpc' = "spawn"
          /\ lock' = [lock EXCEPT ![mk] = Main]
      BY <2>1 DEF RunLock, TaskInv, TypeOK, MainOK
    <3>2. /\ \A k \in Kernels : k # mk => lock'[k] = lock[k]
          /\ lock'[mk] = Main /\ TasksOK'
      BY <1>1, <3>1 DEF TaskInv, TypeOK, TasksOK
    <3>3. \A k \in Kernels : lock[k] \in Workers => lock'[k] = lock[k]
      BY <2>1, <3>2, ConstFacts
    <3>4. \A v \in Workers : wpc[v] \in Inside => K(v) \in Kernels
      BY JobFacts DEF Inside
    <3>5. QED
      BY <1>1, <1>4, <3>1, <3>2, <3>3, <3>4 DEF TaskInv, LockInv
  <2>2. CASE ~(RunLock /\ lock[mk] = None)
    <3>1. lock' = lock /\ mpc' # "spawn"
      BY <2>2 DEF RunPop, RunLock, RunWaitAll, RunRequeue
    <3>2. QED
      BY <1>1, <1>4, <3>1 DEF TaskInv, TypeOK, TasksOK, LockInv
  <2>3. QED
    BY <2>1, <2>2
<1>6. QED
  BY <1>2, <1>3, <1>5 DEF TaskInv, TypeOK

(* A kernel without a task gets one.                                       *)
LEMMA NewTask ==
  ASSUME TaskInv, NEW k \in Kernels, running[k] = 0, kernel_task(k)
  PROVE  /\ CountInv'
         /\ running' \in [Kernels -> {0, 1}]
         /\ owner' \in [Kernels -> Tasks \cup {NoTask}]
         /\ kern' \in [Tasks -> Kernels \cup {None}]
         /\ \A t \in Tasks : kern'[t] = IF t = Fresh THEN k ELSE kern[t]
<1>1. /\ kern' = [kern EXCEPT ![Fresh] = k] /\ owner' = [owner EXCEPT ![k] = Fresh]
      /\ running' = [running EXCEPT ![k] = 1]
  BY DEF kernel_task
<1>2. Fresh \in Tasks /\ kern[Fresh] = None
  BY FreshFacts
<1>3. /\ running' \in [Kernels -> {0, 1}] /\ owner' \in [Kernels -> Tasks \cup {NoTask}]
      /\ kern' \in [Tasks -> Kernels \cup {None}]
  BY <1>1, <1>2 DEF TaskInv, TypeOK, TasksOK
<1>4. \A t \in Tasks : kern'[t] = IF t = Fresh THEN k ELSE kern[t]
  BY <1>1, <1>2 DEF TaskInv, TypeOK, TasksOK
<1>5. \A x \in Kernels : running'[x] = IF x = k THEN 1 ELSE running[x]
  BY <1>1 DEF TaskInv, TypeOK, TasksOK
<1>6. \A t \in Tasks : kern[t] # k
  BY DEF TaskInv, CountInv
<1>7. \A x \in Kernels : running'[x] = 0 <=> \A t \in Tasks : kern'[t] # x
  <2>1. ASSUME NEW x \in Kernels, x # k
        PROVE  (\A t \in Tasks : kern'[t] # x) <=> (\A t \in Tasks : kern[t] # x)
    BY <1>2, <1>4, <2>1, ConstFacts
  <2>2. kern'[Fresh] = k
    BY <1>2, <1>4
  <2>3. QED
    BY <1>2, <1>5, <2>1, <2>2 DEF TaskInv, CountInv
<1>8. \A t, u \in Tasks : kern'[t] = kern'[u] /\ kern'[t] # None => t = u
  BY <1>4, <1>6 DEF TaskInv, CountInv
<1>9. QED
  BY <1>3, <1>4, <1>7, <1>8 DEF CountInv

(* run() makes a task for its kernel unless a worker was faster.           *)
LEMMA RunSpawnInv == TaskInv /\ RunSpawn => TaskInv'
<1> SUFFICES ASSUME TaskInv, RunSpawn PROVE TaskInv'
  OBVIOUS
<1>1. /\ wpc' = wpc /\ job' = job /\ blk' = blk /\ done' = done /\ at' = at
      /\ src' = src /\ dst' = dst /\ called' = called /\ runq' = runq /\ mk' = mk
      /\ mpc' \in {"waitall", "requeue"} /\ lock' = [lock EXCEPT ![mk] = None]
  BY DEF RunSpawn, work, stream
<1>2. mk \in Kernels /\ lock[mk] = Main
  BY DEF RunSpawn, TaskInv, TypeOK, MainOK, LockInv
<1>3. MainOK' /\ StreamsOK'
  BY <1>1, <1>2, ConstFacts DEF TaskInv, TypeOK, MainOK, StreamsOK
<1>4. /\ lock' \in [Kernels -> Workers \cup {Main, None}]
      /\ \A k \in Kernels : lock[k] \in Workers => lock'[k] = lock[k]
  BY <1>1, <1>2, ConstFacts DEF TaskInv, TypeOK, TasksOK
<1>5. ASSUME \A w \in Workers : wpc[w] # "take" => K(w)' = K(w)
      PROVE  LockInv'
  <2>1. \A v \in Workers : wpc[v] \in Inside => K(v) \in Kernels /\ K(v)' = K(v)
    BY <1>5, JobFacts DEF Inside
  <2>2. QED
    BY <1>1, <1>4, <2>1 DEF TaskInv, LockInv, Inside
<1>6. CASE running[mk] = 0
  <2>1. kernel_task(mk) /\ pool' = pool \cup {Fresh}
    BY <1>6 DEF RunSpawn
  <2>2. /\ CountInv'
        /\ running' \in [Kernels -> {0, 1}]
        /\ owner' \in [Kernels -> Tasks \cup {NoTask}]
        /\ kern' \in [Tasks -> Kernels \cup {None}]
        /\ \A t \in Tasks : kern'[t] = IF t = Fresh THEN mk ELSE kern[t]
    BY <1>2, <1>6, <2>1, NewTask
  <2>3. /\ Fresh \in Tasks /\ kern[Fresh] = None
        /\ \A w \in Workers : job[w] # Fresh
    BY FreshFacts
  <2>4. TasksOK'
    BY <1>1, <1>4, <2>1, <2>2, <2>3 DEF TaskInv, TypeOK, TasksOK
  <2>5. PlaceInv'
    <3>1. \A w \in Workers : job[w] # NoTask => job[w] \in Tasks
      BY DEF TaskInv, TypeOK, TasksOK
    <3>2. \A t \in pool : t \in Tasks
      BY DEF TaskInv, TypeOK, TasksOK
    <3>3. QED
      BY <1>1, <1>2, <2>1, <2>2, <2>3, <3>1, <3>2, ConstFacts DEF TaskInv, PlaceInv
  <2>6. \A w \in Workers : wpc[w] # "take" => K(w)' = K(w)
    BY <1>1, <2>2, <2>3, JobFacts DEF K
  <2>7. QED
    BY <1>3, <1>5, <2>2, <2>4, <2>5, <2>6 DEF TaskInv, TypeOK
<1>7. CASE running[mk] # 0
  <2>1. running' = running /\ kern' = kern /\ pool' = pool /\ owner' = owner
    BY <1>7 DEF RunSpawn, tasks
  <2>2. TasksOK' /\ CountInv' /\ PlaceInv'
    BY <1>1, <1>4, <2>1 DEF TaskInv, TypeOK, TasksOK, CountInv, PlaceInv
  <2>3. QED
    BY <1>1, <1>3, <1>5, <2>1, <2>2 DEF TaskInv, TypeOK, K
<1>8. QED
  BY <1>6, <1>7

(* The pool hands out a task to a worker that has none.                    *)
LEMMA TakeInv ==
  ASSUME TaskInv, NEW w \in Workers, Take(w)
  PROVE  TaskInv'
<1>1. /\ wpc[w] = "take" /\ wpc' = [wpc EXCEPT ![w] = "lock"]
      /\ called' = called /\ lock' = lock /\ running' = running /\ done' = done
      /\ kern' = kern /\ owner' = owner /\ blk' = blk /\ runq' = runq /\ mpc' = mpc
      /\ mk' = mk /\ at' = at /\ src' = src /\ dst' = dst
  BY DEF Take, Goto, main, stream
<1>2. PICK t \in pool : pool' = pool \ {t} /\ job' = [job EXCEPT ![w] = t]
  BY DEF Take
<1>3. t \in Tasks /\ kern[t] # None /\ \A v \in Workers : job[v] # t
  BY ConstFacts DEF TaskInv, TypeOK, TasksOK, PlaceInv
<1>4. \A v \in Workers : /\ job'[v] = IF v = w THEN t ELSE job[v]
                         /\ wpc'[v] = IF v = w THEN "lock" ELSE wpc[v]
  BY <1>1, <1>2 DEF TaskInv, TypeOK, TasksOK
<1>5. MainOK' /\ StreamsOK' /\ TasksOK' /\ CountInv'
  BY <1>1, <1>2, <1>3 DEF TaskInv, TypeOK, MainOK, StreamsOK, TasksOK, CountInv
<1>6. PlaceInv'
  BY <1>1, <1>2, <1>3, <1>4, ConstFacts DEF TaskInv, PlaceInv
<1>7. LockInv'
  BY <1>1, <1>4 DEF TaskInv, LockInv, K, Inside
<1>8. QED
  BY <1>5, <1>6, <1>7 DEF TaskInv, TypeOK

(* The task of a kernel that somebody works on ends at once.               *)
LEMMA TryLockInv ==
  ASSUME TaskInv, NEW w \in Workers, Lock(w)
  PROVE  TaskInv'
<1>1. /\ wpc[w] = "lock" /\ called' = called /\ done' = done /\ blk' = blk /\ runq' = runq
      /\ mpc' = mpc /\ mk' = mk /\ at' = at /\ src' = src /\ dst' = dst
  BY DEF Lock, main, stream
<1>2. MainOK' /\ StreamsOK'
  BY <1>1 DEF TaskInv, TypeOK, MainOK, StreamsOK
<1>3. CASE lock[K(w)] = None
  <2>1. /\ lock' = [lock EXCEPT ![K(w)] = w] /\ Goto(w, "check")
        /\ UNCHANGED <<kern, pool, owner, running, job>>
    BY <1>3 DEF Lock, tasks
  <2>2. CountInv' /\ PlaceInv' /\ wpc' \in [Workers -> Inside \cup {"take", "lock"}]
    BY <1>1, <2>1, GoonInv DEF Inside
  <2>3. K(w) \in Kernels
    BY <1>1, JobFacts
  <2>4. TasksOK'
    BY <1>1, <2>1, <2>2, <2>3 DEF TaskInv, TypeOK, TasksOK
  <2>5. LockInv'
    <3>1. \A v \in Workers : wpc'[v] = IF v = w THEN "check" ELSE wpc[v]
      BY <2>1 DEF Goto, TaskInv, TypeOK, TasksOK
    <3>2. \A v \in Workers : K(v)' = K(v)
      BY <2>1 DEF K
    <3>3. \A k \in Kernels : lock'[k] = IF k = K(w) THEN w ELSE lock[k]
      BY <2>1 DEF TaskInv, TypeOK, TasksOK
    <3>4. \A v \in Workers : wpc[v] \in Inside => K(v) \in Kernels
      BY JobFacts DEF Inside
    <3>5. mpc = "spawn" => mk \in Kernels
      BY DEF TaskInv, TypeOK, MainOK
    <3>6. QED
      BY <1>1, <1>3, <2>3, <3>1, <3>2, <3>3, <3>4, <3>5, ConstFacts DEF TaskInv, LockInv, Inside
  <2>6. QED
    BY <1>2, <2>2, <2>4, <2>5 DEF TaskInv, TypeOK
<1>4. CASE lock[K(w)] # None
  <2>1. TaskEnds(w)
    BY <1>4 DEF Lock
  <2>2. QED
    BY <1>1, <1>2, <2>1, TaskEndsInv DEF TaskInv, TypeOK
<1>5. QED
  BY <1>3, <1>4

(* The steps of a worker that keeps its task and its locks.                *)
LEMMA KeepsLocksInv ==
  ASSUME TaskInv, NEW w \in Workers, wpc[w] \in Inside,
         NEW l \in Inside \ {"blocker", "decide"}, Goto(w, l),
         UNCHANGED <<kern, pool, owner, running, job, lock, mpc, mk, called, runq, blk>>,
         StreamsOK'
  PROVE  TaskInv'
<1>1. CountInv' /\ PlaceInv' /\ wpc' \in [Workers -> Inside \cup {"take", "lock"}]
  BY GoonInv DEF Inside
<1>2. LockInv'
  BY GoonLock
<1>3. MainOK' /\ TasksOK'
  BY <1>1 DEF TaskInv, TypeOK, MainOK, TasksOK
<1>4. QED
  BY <1>1, <1>2, <1>3 DEF TaskInv, TypeOK

(* The stream a kernel uses, and the kernel at its other end.              *)
LEMMA StreamFacts ==
  ASSUME TaskInv, NEW w \in Workers, InBody(w)
  PROVE  Stream(w) \in Streams
<1>1. wpc[w] = "work" /\ at[K(w)] <= Len(Body[K(w)])
  BY DEF InBody
<1>2. K(w) \in Kernels
  BY <1>1, JobFacts
<1>3. Body[K(w)] \in Seq(Streams) /\ at[K(w)] \in Nat \ {0}
  BY <1>2, TbbAssumption DEF TaskInv, TypeOK, StreamsOK
<1>4. at[K(w)] \in 1 .. Len(Body[K(w)])
  BY <1>1, <1>3
<1>5. QED
  BY <1>3, <1>4 DEF Stream

(* The work function runs and returns; the task is checked before.         *)
LEMMA WorkInv ==
  ASSUME TaskInv, NEW w \in Workers, Check(w) \/ Operate(w) \/ Iterate(w)
  PROVE  TaskInv'
<1>1. CASE Check(w)
  <2>1. /\ wpc[w] = "check" /\ called' = called /\ done' = done /\ blk' = blk /\ runq' = runq
        /\ mpc' = mpc /\ mk' = mk /\ at' = at /\ src' = src /\ dst' = dst
    BY <1>1 DEF Check, main, stream
  <2>2. MainOK' /\ StreamsOK'
    BY <2>1 DEF TaskInv, TypeOK, MainOK, StreamsOK
  <2>3. CASE owner[K(w)] = job[w] /\ K(w) \notin done
    BY <1>1, <2>1, <2>2, <2>3, KeepsLocksInv DEF Check, tasks, Inside
  <2>4. CASE ~(owner[K(w)] = job[w] /\ K(w) \notin done)
    <3>1. TaskEnds(w)
      BY <1>1, <2>4 DEF Check
    <3>2. QED
      BY <2>1, <2>2, <3>1, TaskEndsInv DEF TaskInv, TypeOK
  <2>5. QED
    BY <2>3, <2>4
<1>2. CASE Operate(w)
  <2>1. /\ wpc[w] = "work" /\ wpc' = wpc /\ at' = [at EXCEPT ![K(w)] = at[K(w)] + 1]
        /\ done' = done /\ src' = src /\ dst' = dst
        /\ UNCHANGED <<kern, pool, owner, running, job, lock, mpc, mk, called, runq, blk>>
    BY <1>2 DEF Operate, InBody, main, work, tasks
  <2>2. StreamsOK'
    <3>1. K(w) \in Kernels
      BY <2>1, JobFacts
    <3>2. at[K(w)] + 1 \in Nat \ {0}
      BY <3>1 DEF TaskInv, TypeOK, StreamsOK
    <3>3. QED
      BY <2>1, <3>1, <3>2 DEF TaskInv, TypeOK, StreamsOK
  <2>3. Goto(w, "work")
    BY <2>1 DEF Goto, TaskInv, TypeOK, TasksOK
  <2>4. QED
    BY <2>1, <2>2, <2>3, KeepsLocksInv DEF Inside
<1>3. CASE Iterate(w)
  <2>1. /\ wpc[w] = "work" /\ at' = [at EXCEPT ![K(w)] = 1]
        /\ done' = done /\ src' = src /\ dst' = dst
        /\ UNCHANGED <<kern, pool, owner, running, job, lock, mpc, mk, called, runq, blk>>
    BY <1>3 DEF Iterate, main, tasks
  <2>2. StreamsOK'
    <3>1. K(w) \in Kernels
      BY <2>1, JobFacts
    <3>2. QED
      BY <2>1, <3>1 DEF TaskInv, TypeOK, StreamsOK
  <2>3. Goto(w, "done") \/ Goto(w, "work")
    BY <1>3 DEF Iterate
  <2>4. QED
    BY <2>1, <2>2, <2>3, KeepsLocksInv DEF Inside
<1>4. QED
  BY <1>1, <1>2, <1>3

(* A kernel is never its own blocker.                                      *)
LEMMA BlockedInv ==
  ASSUME TaskInv, NEW w \in Workers, Blocked(w)
  PROVE  TaskInv'
<1> DEFINE b == IF Src[Stream(w)] = K(w) THEN dst[Stream(w)] ELSE src[Stream(w)]
<1>1. /\ InBody(w) /\ wpc[w] = "work" /\ blk' = [blk EXCEPT ![w] = b]
      /\ done' = done /\ src' = src /\ dst' = dst /\ at' = at
      /\ UNCHANGED <<kern, pool, owner, running, job, lock, mpc, mk, called, runq>>
  BY DEF Blocked, InBody, main, tasks, stream
<1>2. b \in Kernels \cup {Unset, Finished} /\ b # K(w)
  <2>1. Stream(w) \in Streams /\ K(w) \in Kernels
    BY <1>1, StreamFacts, JobFacts
  <2>2. QED
    BY <2>1, ConstFacts DEF TaskInv, TypeOK, StreamsOK
<1>3. PICK l \in {"done", "blocker"} : Goto(w, l) /\ (l = "blocker" => b # Finished)
  BY DEF Blocked
<1>4. CountInv' /\ PlaceInv' /\ wpc' \in [Workers -> Inside \cup {"take", "lock"}]
  BY <1>1, <1>3, GoonInv DEF Inside
<1>5. MainOK' /\ StreamsOK' /\ TasksOK'
  BY <1>1, <1>2, <1>4 DEF TaskInv, TypeOK, MainOK, StreamsOK, TasksOK
<1>6. LockInv'
  <2>1. \A v \in Workers : /\ wpc'[v] = IF v = w THEN l ELSE wpc[v]
                           /\ blk'[v] = IF v = w THEN b ELSE blk[v]
                           /\ K(v)' = K(v)
    BY <1>1, <1>3 DEF Goto, TaskInv, TypeOK, TasksOK, K
  <2>2. QED
    BY <1>1, <1>2, <1>3, <2>1 DEF TaskInv, LockInv, Inside
<1>7. QED
  BY <1>4, <1>5, <1>6 DEF TaskInv, TypeOK

(* k->done(), then the task ends.                                          *)
LEMMA DoneInv ==
  ASSUME TaskInv, NEW w \in Workers, Done(w)
  PROVE  TaskInv'
<1>1. /\ wpc[w] = "done" /\ called' = called /\ blk' = blk /\ runq' = runq
      /\ mpc' = mpc /\ mk' = mk /\ at' = at /\ done' = done \cup {K(w)} /\ TaskEnds(w)
  BY DEF Done, main
<1>2. K(w) \in Kernels
  BY <1>1, JobFacts
<1>3. MainOK' /\ StreamsOK'
  BY <1>1, <1>2 DEF Done, TaskInv, TypeOK, MainOK, StreamsOK
<1>4. QED
  BY <1>1, <1>3, TaskEndsInv DEF TaskInv, TypeOK

(* Work again, or the task ends.                                           *)
LEMMA RetryInv ==
  ASSUME TaskInv, NEW w \in Workers, wpc[w] \in {"blocker", "retry"}, Retry(w),
         UNCHANGED <<mpc, mk, called, runq, blk, done, at, src, dst>>
  PROVE  TaskInv'
<1>1. MainOK' /\ StreamsOK'
  BY DEF TaskInv, TypeOK, MainOK, StreamsOK
<1>2. CASE TaskEnds(w)
  BY <1>1, <1>2, TaskEndsInv DEF TaskInv, TypeOK
<1>3. CASE Goto(w, "work") /\ UNCHANGED <<lock, running, job>> /\ UNCHANGED tasks
  BY <1>1, <1>3, KeepsLocksInv DEF tasks, Inside
<1>4. QED
  BY <1>2, <1>3 DEF Retry

(* The lock of the blocker is tried, not waited for.                       *)
LEMMA LockBlockerInv ==
  ASSUME TaskInv, NEW w \in Workers, LockBlocker(w)
  PROVE  TaskInv'
<1>1. /\ wpc[w] = "blocker" /\ UNCHANGED <<mpc, mk, called, runq, blk, done, at, src, dst>>
  BY DEF LockBlocker, main, stream
<1>2. MainOK' /\ StreamsOK'
  BY <1>1 DEF TaskInv, TypeOK, MainOK, StreamsOK
<1>3. CASE TaskEnds(w)
  BY <1>1, <1>2, <1>3, TaskEndsInv DEF TaskInv, TypeOK
<1>4. CASE Retry(w)
  BY <1>1, <1>4, RetryInv
<1>5. CASE /\ blk[w] # Unset /\ lock[blk[w]] = None
           /\ lock' = [lock EXCEPT ![blk[w]] = w] /\ Goto(w, "decide")
           /\ UNCHANGED <<running, job, retries>> /\ UNCHANGED tasks
  <2>1. CountInv' /\ PlaceInv' /\ wpc' \in [Workers -> Inside \cup {"take", "lock"}]
    BY <1>1, <1>5, GoonInv DEF Inside, tasks
  <2>2. blk[w] \in Kernels /\ blk[w] # K(w)
    BY <1>1, <1>5 DEF TaskInv, LockInv
  <2>3. TasksOK'
    BY <1>1, <1>5, <2>1, <2>2 DEF tasks, TaskInv, TypeOK, TasksOK
  <2>4. LockInv'
    <3>1. \A v \in Workers : /\ wpc'[v] = IF v = w THEN "decide" ELSE wpc[v]
                             /\ K(v)' = K(v)
      BY <1>5 DEF Goto, tasks, TaskInv, TypeOK, TasksOK, K
    <3>2. \A k \in Kernels : lock'[k] = IF k = blk[w] THEN w ELSE lock[k]
      BY <1>5 DEF TaskInv, TypeOK, TasksOK
    <3>3. \A v \in Workers : wpc[v] \in Inside => K(v) \in Kernels
      BY JobFacts DEF Inside
    <3>4. mpc = "spawn" => mk \in Kernels
      BY DEF TaskInv, TypeOK, MainOK
    <3>5. QED
      BY <1>1, <1>5, <2>2, <3>1, <3>2, <3>3, <3>4, ConstFacts DEF TaskInv, LockInv, Inside
  <2>5. QED
    BY <1>2, <2>1, <2>3, <2>4 DEF TaskInv, TypeOK
<1>6. QED
  BY <1>3, <1>4, <1>5 DEF LockBlocker

(* A worker gives its task to the pool for a task t that no worker has.    *)
LEMMA SwitchInv ==
  ASSUME TaskInv, NEW w \in Workers, wpc[w] = "decide", NEW t \in Tasks, Switch(w, t),
         pool' = (pool \ {t}) \cup {job[w]},
         \A v \in Workers : job[v] # t,
         kern'[t] # None, \A u \in Tasks : u # t => kern'[u] = kern[u],
         UNCHANGED <<mpc, mk, blk>>
  PROVE  /\ PlaceInv' /\ LockInv'
         /\ lock' \in [Kernels -> Workers \cup {Main, None}]
         /\ pool' \subseteq Tasks /\ job' \in [Workers -> Tasks \cup {NoTask}]
         /\ wpc' \in [Workers -> Inside \cup {"take", "lock"}]
<1>1. job[w] \in Tasks /\ K(w) \in Kernels /\ kern[job[w]] # None
  BY JobFacts, ConstFacts DEF K
<1>2. /\ blk[w] \in Kernels /\ lock[blk[w]] = w /\ lock[K(w)] = w
  BY DEF TaskInv, LockInv, Inside
<1>3. /\ \A k \in Kernels : lock'[k] = IF k = K(w) \/ k = blk[w] THEN None ELSE lock[k]
      /\ lock' \in [Kernels -> Workers \cup {Main, None}]
  BY <1>1, <1>2 DEF Switch, TaskInv, TypeOK, TasksOK
<1>4. /\ \A v \in Workers : /\ job'[v] = IF v = w THEN t ELSE job[v]
                            /\ wpc'[v] = IF v = w THEN "lock" ELSE wpc[v]
      /\ job' \in [Workers -> Tasks \cup {NoTask}]
      /\ wpc' \in [Workers -> Inside \cup {"take", "lock"}]
  BY DEF Switch, Goto, TaskInv, TypeOK, TasksOK
<1>5. pool' \subseteq Tasks
  BY <1>1 DEF TaskInv, TypeOK, TasksOK
<1>6. PlaceInv'
  <2>1. \A v \in Workers : job[v] \in Tasks \cup {NoTask}
    BY DEF TaskInv, TypeOK, TasksOK
  <2>2. \A u \in pool' : kern'[u] # None
    BY <1>1, <1>5 DEF TaskInv, PlaceInv
  <2>3. \A v \in Workers : job'[v] = NoTask <=> wpc'[v] = "take"
    BY <1>4, ConstFacts DEF TaskInv, PlaceInv
  <2>4. \A v \in Workers : job'[v] # NoTask => kern'[job'[v]] # None /\ job'[v] \notin pool'
    BY <1>1, <1>4, <2>1, ConstFacts DEF TaskInv, PlaceInv
  <2>5. \A v, x \in Workers : job'[v] = job'[x] /\ job'[v] # NoTask => v = x
    BY <1>4 DEF TaskInv, PlaceInv
  <2>6. \A u \in Tasks : kern'[u] # None => u \in pool' \/ \E v \in Workers : job'[v] = u
    BY <1>4 DEF TaskInv, PlaceInv
  <2>7. QED
    BY <2>2, <2>3, <2>4, <2>5, <2>6 DEF PlaceInv
<1>7. LockInv'
  <2>1. \A v \in Workers : v # w /\ wpc[v] # "take" => K(v)' = K(v) /\ K(v) \in Kernels
    BY <1>4, JobFacts DEF K
  <2>2. \A v \in Workers : \A k \in Kernels : v # w /\ lock[k] = v => lock'[k] = v
    BY <1>2, <1>3
  <2>3. mpc = "spawn" => lock'[mk] = Main
    <3>1. mpc = "spawn" => mk \in Kernels /\ lock[mk] = Main
      BY DEF TaskInv, TypeOK, MainOK, LockInv
    <3>2. QED
      BY <1>2, <1>3, <3>1, ConstFacts
  <2>4. QED
    BY <1>4, <2>1, <2>2, <2>3 DEF TaskInv, LockInv, Inside
<1>8. QED
  BY <1>3, <1>4, <1>5, <1>6, <1>7

(* The blocker gets a task, or its task is taken out of the pool, or the   *)
(* blocker's lock is given back.                                           *)
LEMMA DecideInv ==
  ASSUME TaskInv, NEW w \in Workers, Decide(w)
  PROVE  TaskInv'
<1>1. wpc[w] = "decide" /\ UNCHANGED <<mpc, mk, called, runq, blk, done, at, src, dst>>
  BY DEF Decide, main, stream
<1>2. MainOK' /\ StreamsOK'
  BY <1>1 DEF TaskInv, TypeOK, MainOK, StreamsOK
<1>3. blk[w] \in Kernels /\ lock[blk[w]] = w /\ blk[w] # K(w)
  BY <1>1 DEF TaskInv, LockInv
<1>4. CASE /\ running[blk[w]] = 0 /\ kernel_task(blk[w])
           /\ Switch(w, Fresh) /\ pool' = pool \cup {job[w]}
  <2>1. /\ Fresh \in Tasks /\ kern[Fresh] = None /\ Fresh \notin pool
        /\ \A v \in Workers : job[v] # Fresh
    BY FreshFacts
  <2>2. /\ CountInv'
        /\ running' \in [Kernels -> {0, 1}]
        /\ owner' \in [Kernels -> Tasks \cup {NoTask}]
        /\ kern' \in [Tasks -> Kernels \cup {None}]
        /\ \A t \in Tasks : kern'[t] = IF t = Fresh THEN blk[w] ELSE kern[t]
    BY <1>3, <1>4, NewTask
  <2>3. kern'[Fresh] # None /\ (\A u \in Tasks : u # Fresh => kern'[u] = kern[u])
    BY <1>3, <2>1, <2>2, ConstFacts
  <2>4. pool' = (pool \ {Fresh}) \cup {job[w]}
    BY <1>4, <2>1
  <2>5. /\ PlaceInv' /\ LockInv'
        /\ lock' \in [Kernels -> Workers \cup {Main, None}]
        /\ pool' \subseteq Tasks /\ job' \in [Workers -> Tasks \cup {NoTask}]
        /\ wpc' \in [Workers -> Inside \cup {"take", "lock"}]
    BY <1>1, <1>4, <2>1, <2>3, <2>4, SwitchInv
  <2>6. TasksOK'
    BY <1>1, <2>2, <2>5 DEF TaskInv, TypeOK, TasksOK
  <2>7. QED
    BY <1>2, <2>2, <2>5, <2>6 DEF TaskInv, TypeOK
<1>5. CASE /\ owner[blk[w]] \in pool /\ Switch(w, owner[blk[w]])
           /\ pool' = (pool \ {owner[blk[w]]}) \cup {job[w]}
           /\ UNCHANGED <<running, kern, owner, retries>>
  <2>1. /\ owner[blk[w]] \in Tasks /\ kern[owner[blk[w]]] # None
        /\ \A v \in Workers : job[v] # owner[blk[w]]
    BY <1>5, ConstFacts DEF TaskInv, TypeOK, TasksOK, PlaceInv
  <2>2. /\ PlaceInv' /\ LockInv'
        /\ lock' \in [Kernels -> Workers \cup {Main, None}]
        /\ pool' \subseteq Tasks /\ job' \in [Workers -> Tasks \cup {NoTask}]
        /\ wpc' \in [Workers -> Inside \cup {"take", "lock"}]
    BY <1>1, <1>5, <2>1, SwitchInv
  <2>3. TasksOK' /\ CountInv'
    BY <1>1, <1>5, <2>2 DEF TaskInv, TypeOK, TasksOK, CountInv
  <2>4. QED
    BY <1>2, <2>2, <2>3 DEF TaskInv, TypeOK
<1>6. CASE /\ lock' = [lock EXCEPT ![blk[w]] = None] /\ Goto(w, "retry")
           /\ UNCHANGED <<running, job, retries>> /\ UNCHANGED tasks
  <2>1. CountInv' /\ PlaceInv' /\ wpc' \in [Workers -> Inside \cup {"take", "lock"}]
    BY <1>1, <1>6, GoonInv DEF Inside, tasks
  <2>2. TasksOK'
    BY <1>1, <1>3, <1>6, <2>1 DEF tasks, TaskInv, TypeOK, TasksOK
  <2>3. LockInv'
    <3>1. \A v \in Workers : /\ wpc'[v] = IF v = w THEN "retry" ELSE wpc[v]
                             /\ K(v)' = K(v)
      BY <1>6 DEF Goto, tasks, TaskInv, TypeOK, TasksOK, K
    <3>2. \A k \in Kernels : lock'[k] = IF k = blk[w] THEN None ELSE lock[k]
      BY <1>6 DEF TaskInv, TypeOK, TasksOK
    <3>3. \A v \in Workers : wpc[v] \in Inside => K(v) \in Kernels
      BY JobFacts DEF Inside
    <3>4. mpc = "spawn" => mk \in Kernels
      BY DEF TaskInv, TypeOK, MainOK
    <3>5. QED
      BY <1>1, <1>3, <3>1, <3>2, <3>3, <3>4, ConstFacts DEF TaskInv, LockInv, Inside
  <2>4. QED
    BY <1>2, <2>1, <2>2, <2>3 DEF TaskInv, TypeOK
<1>7. QED
  BY <1>4, <1>5, <1>6 DEF Decide

(* Every step of run(), of the program and of a worker keeps the           *)
(* invariant.                                                              *)
LEMMA NextInv == TaskInv /\ [Next]_vars => TaskInv'
<1> SUFFICES ASSUME TaskInv, [Next]_vars PROVE TaskInv'
  OBVIOUS
<1>1. ASSUME NEW w \in Workers, Worker(w) PROVE TaskInv'
  <2>1. CASE RetryAfter(w)
    BY <2>1, RetryInv DEF RetryAfter, main, stream
  <2>2. QED
    BY <1>1, <2>1, TakeInv, TryLockInv, WorkInv, BlockedInv, DoneInv, LockBlockerInv, DecideInv
       DEF Worker
<1>2. CASE UNCHANGED vars
  BY <1>2 DEF vars, TaskInv, TypeOK, MainOK, StreamsOK, TasksOK, CountInv, PlaceInv, LockInv, K
<1>3. QED
  BY <1>1, <1>2, CallInv, RunSpawnInv, RunOtherInv DEF Next, Run, Idle

(* The facts above hold whenever run(), the program and the workers have   *)
(* taken any number of steps, in any order.                                *)
THEOREM TaskInvariance == Spec => []TaskInv
<1>1. QED
  BY InitInv, NextInv, PTL DEF Spec

(* running counts the tasks of a kernel, and is 0 or 1: the test and the   *)
(* increment are apart in run() and in execute(), and tasks end at any     *)
(* time.                                                                   *)
THEOREM RunningIsExact == Spec => []RunningCounts
<1>1. TaskInv => RunningCounts
  <2> SUFFICES ASSUME TaskInv, NEW k \in Kernels
               PROVE  /\ running[k] = Cardinality({t \in Live : kern[t] = k})
                      /\ running[k] <= 1
    BY DEF RunningCounts
  <2>1. running[k] \in {0, 1}
    BY DEF TaskInv, TypeOK, TasksOK
  <2>2. CASE running[k] = 0
    <3>1. {t \in Live : kern[t] = k} = {}
      BY <2>2 DEF TaskInv, CountInv, Live
    <3>2. QED
      BY <2>2, <3>1, FS_EmptySet
  <2>3. CASE running[k] = 1
    <3>1. PICK t \in Tasks : kern[t] = k
      BY <2>3 DEF TaskInv, CountInv
    <3>2. {u \in Live : kern[u] = k} = {t}
      BY <3>1, ConstFacts DEF TaskInv, CountInv, Live
    <3>3. QED
      BY <2>3, <3>2, FS_Singleton
  <2>4. QED
    BY <2>1, <2>2, <2>3
<1>2. QED
  BY <1>1, TaskInvariance, PTL

(* A task is in the pool or with exactly one worker, also when a worker    *)
(* steals it.                                                              *)
THEOREM TaskHasOnePlace == Spec => []OnePlace
<1>1. TaskInv => OnePlace
  <2> SUFFICES ASSUME TaskInv, NEW t \in Live
               PROVE  Cardinality({w \in Workers : job[w] = t}) = IF t \in pool THEN 0 ELSE 1
    BY DEF OnePlace
  <2>0. t \in Tasks /\ kern[t] # None /\ t # NoTask
    BY ConstFacts DEF Live
  <2>1. CASE t \in pool
    <3>1. {w \in Workers : job[w] = t} = {}
      BY <2>0, <2>1 DEF TaskInv, PlaceInv
    <3>2. QED
      BY <2>1, <3>1, FS_EmptySet
  <2>2. CASE t \notin pool
    <3>1. PICK w \in Workers : job[w] = t
      BY <2>0, <2>2 DEF TaskInv, PlaceInv
    <3>2. {v \in Workers : job[v] = t} = {w}
      BY <2>0, <3>1 DEF TaskInv, PlaceInv
    <3>3. QED
      BY <2>2, <3>2, FS_Singleton
  <2>3. QED
    BY <2>1, <2>2
<1>2. QED
  BY <1>1, TaskInvariance, PTL

(* A worker that executes a kernel's work function holds the kernel's lock *)
(* and no other worker executes it.                                        *)
WorkExclusive ==
  \A w \in Workers : wpc[w] = "work" =>
    /\ lock[K(w)] = w
    /\ \A v \in Workers : wpc[v] = "work" /\ K(v) = K(w) => v = w

(* No two workers run a kernel at the same time, although execute() gives  *)
(* the lock back whenever it changes to another task.                      *)
THEOREM WorkersExclude == Spec => []WorkExclusive
<1>1. TaskInv => WorkExclusive
  BY JobFacts DEF TaskInv, LockInv, WorkExclusive, Inside
<1>2. QED
  BY <1>1, TaskInvariance, PTL
-----------------------------------------------------------------------------

(* run() keeps every kernel that is not finished.                          *)
LEMMA ForgetsNone == TaskInv /\ NoneForgotten /\ [Next]_vars => NoneForgotten'
<1> SUFFICES ASSUME TaskInv, NoneForgotten, [Next]_vars PROVE NoneForgotten'
  OBVIOUS
<1>0. runq \in Seq(Kernels) /\ called \in Nat
  BY DEF TaskInv, TypeOK, MainOK
<1>1. CASE callKernel
  <2>1. /\ called' = called + 1 /\ done' = done /\ mk' = mk
        /\ runq' = Append(runq, Order[called + 1]) /\ called < Len(Order)
    BY <1>1 DEF callKernel
  <2>2. Order[called + 1] \in Kernels
    BY <1>0, <2>1, TbbAssumption
  <2>3. Range(runq') = Range(runq) \cup {Order[called + 1]}
    BY <1>0, <2>1, <2>2, PushRange
  <2>4. Mapped' \subseteq Mapped \cup {Order[called + 1]}
    BY <1>0, <2>1 DEF Mapped
  <2>5. QED
    BY <2>1, <2>3, <2>4 DEF NoneForgotten
<1>2. CASE RunPop
  <2>1. /\ called' = called /\ done' = done /\ runq # <<>> /\ mk' = Head(runq)
        /\ runq' = Tail(runq) /\ mk = None
    BY <1>2 DEF RunPop, TaskInv, TypeOK, MainOK
  <2>2. Range(runq) = {mk'} \cup Range(runq')
    BY <1>0, <2>1, FrontRange
  <2>3. None \notin Mapped
    BY TbbAssumption DEF Mapped, TaskInv, TypeOK, MainOK
  <2>4. Mapped' = Mapped
    BY <2>1 DEF Mapped
  <2>5. QED
    BY <2>1, <2>2, <2>3, <2>4 DEF NoneForgotten
<1>3. CASE RunRequeue
  <2>1. /\ called' = called /\ done' = done /\ mk \in Kernels
        /\ runq' = IF mk \in done THEN runq ELSE Append(runq, mk)
    BY <1>3 DEF RunRequeue, TaskInv, TypeOK, MainOK
  <2>2. mk \notin done => Range(runq') = Range(runq) \cup {mk}
    BY <1>0, <2>1, PushRange
  <2>3. Mapped' = Mapped
    BY <2>1 DEF Mapped
  <2>4. QED
    BY <2>1, <2>2, <2>3 DEF NoneForgotten
<1>4. CASE called' = called /\ runq' = runq /\ mk' = mk /\ done \subseteq done'
  BY <1>4 DEF NoneForgotten, Mapped
<1>5. RunLock \/ RunSpawn \/ RunWaitAll \/ UNCHANGED vars
        => called' = called /\ runq' = runq /\ mk' = mk /\ done \subseteq done'
  BY DEF RunLock, RunSpawn, RunWaitAll, vars
<1>6. ASSUME NEW w \in Workers, Worker(w)
      PROVE  called' = called /\ runq' = runq /\ mk' = mk /\ done \subseteq done'
  BY <1>6 DEF Worker, Take, Lock, Check, Operate, Iterate, Blocked, Done, LockBlocker, Decide,
              RetryAfter, main
<1>7. QED
  BY <1>1, <1>2, <1>3, <1>4, <1>5, <1>6 DEF Next, Run, Idle

(* A kernel that was called and has not finished never leaves run()'s      *)
(* hands, whatever the workers do with its tasks.                          *)
THEOREM KernelsKept == Spec => []NoneForgotten
<1>1. Init => NoneForgotten
  BY DEF Init, NoneForgotten, Mapped
<1>2. QED
  BY <1>1, ForgetsNone, TaskInvariance, PTL DEF Spec
=============================================================================
