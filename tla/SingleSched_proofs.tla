-------------------------- MODULE SingleSched_proofs --------------------------
(***************************************************************************)
(* TLAPS proofs about SingleSched, for any number of calls and of works.   *)
(***************************************************************************)
EXTENDS SingleSched, FiniteSetTheorems, TLAPS

(* The typing invariant; a thread that found the kernel found one that was *)
(* called.                                                                 *)
TypeOK ==
  /\ runq \in {0, 1}
  /\ state \in [Kernels -> {"IDLE", "ACTIVE", "DONE"}]
  /\ works \in [Kernels -> Nat]
  /\ lock \in [Kernels -> Threads \cup {0}]
  /\ mpc \in {"select", "call", "push", "start", "wait"}
  /\ call \in 0 .. Calls
  /\ mpc \in {"push", "start", "wait"} => call # 0
  /\ tpc \in [Threads -> {"unborn", "loop", "pop", "find", "try", "work", "post",
                          "empty", "exit"}]
  /\ k \in [Threads -> 0 .. Calls]
  /\ \A t \in Threads : tpc[t] \in {"try", "work", "post"} => k[t] \in 1 .. call

(* The kernel is in the queue or with a thread.                            *)
Somewhere == runq = 1 \/ \E t \in Threads : Has(t)

(* There is one copy of the kernel at most, of the last call, from         *)
(* run_queue.push until the kernel is done; who works has it.              *)
CopyInv ==
  /\ \A t, u \in Threads : Has(t) /\ Has(u) => t = u
  /\ runq = 1 => \A t \in Threads : ~Has(t)
  /\ Somewhere => mpc \in {"start", "wait"} /\ state[call] # "DONE"
  /\ mpc = "push" => state[call] # "DONE"
  /\ \A t \in Threads :
       /\ tpc[t] \in {"try", "work", "post"} /\ Has(t) => k[t] = call
       /\ tpc[t] = "work" => Has(t)

SingleInv == TypeOK /\ CopyInv
-----------------------------------------------------------------------------

(* The program has not called the kernel.                                  *)
LEMMA InitInv == Init => SingleInv
<1> SUFFICES ASSUME Init PROVE SingleInv
  OBVIOUS
<1>1. TypeOK
  BY SingleAssumption DEF Init, TypeOK, Threads, Kernels
<1>2. \A t \in Threads : ~Has(t)
  BY DEF Init, Has
<1>3. CopyInv
  BY <1>1, <1>2 DEF Init, CopyInv, Somewhere
<1>4. QED
  BY <1>1, <1>3 DEF SingleInv

(* What start() can do to the threads: it takes the kernel from none and   *)
(* gives it to none.                                                       *)
LEMMA StartFacts ==
  ASSUME TypeOK, start
  PROVE  /\ tpc' \in [Threads -> {"unborn", "loop", "pop", "find", "try", "work", "post",
                                  "empty", "exit"}]
         /\ \A t \in Threads : tpc'[t] = tpc[t] \/ tpc'[t] = "loop"
<1>1. CASE running = 0
  <2>1. PICK x : tpc' = [tpc EXCEPT ![x] = "loop"]
    BY <1>1 DEF start, Goto
  <2>2. QED
    BY <2>1 DEF TypeOK
<1>2. CASE running # 0
  BY <1>2 DEF start, TypeOK
<1>3. QED
  BY <1>1, <1>2

(* A step in which no thread and no call touches a kernel that is not      *)
(* done; a thread may go to a place where it has no kernel.                *)
LEMMA QuietInv ==
  ASSUME SingleInv, runq' = runq, k' = k, call' = call,
         state' = state, works' = works, lock' \in [Kernels -> Threads \cup {0}],
         mpc' \in {"select", "call", "push", "start", "wait"},
         mpc' # mpc => mpc' # "push" /\ (Somewhere => mpc' \in {"start", "wait"}),
         mpc' \in {"push", "start", "wait"} => call # 0,
         tpc' \in [Threads -> {"unborn", "loop", "pop", "find", "try", "work", "post",
                               "empty", "exit"}],
         \A t \in Threads : \/ tpc'[t] = tpc[t]
                            \/ tpc'[t] \in {"loop", "pop", "empty", "exit"}
                            \/ tpc[t] = "try" /\ tpc'[t] = "post"
                            \/ /\ tpc[t] = "try" /\ tpc'[t] = "work"
                               /\ state[k[t]] # "DONE"
  PROVE  SingleInv'
<1>1. \A t \in Threads : Has(t)' => Has(t)
  BY DEF Has
<1>2. TypeOK'
  BY DEF SingleInv, TypeOK
<1>3. Somewhere' => Somewhere
  BY <1>1 DEF Somewhere
<1>4. \A t \in Threads :
        /\ tpc'[t] \in {"try", "work", "post"} /\ Has(t)' => k'[t] = call'
        /\ tpc'[t] = "work" => Has(t)'
  BY <1>1 DEF SingleInv, CopyInv, Has
<1>5. CopyInv'
  BY <1>1, <1>3, <1>4 DEF SingleInv, CopyInv
<1>6. QED
  BY <1>2, <1>5 DEF SingleInv

(* The program's steps.                                                    *)
LEMMA MainInv == SingleInv /\ Main => SingleInv'
<1> SUFFICES ASSUME SingleInv, Main PROVE SingleInv'
  OBVIOUS
<1>1. CASE Select \/ CallStart
  <2>1. start /\ UNCHANGED <<runq, call, k, state, works, lock>>
    BY <1>1 DEF Select, CallStart, kern
  <2>2. /\ tpc' \in [Threads -> {"unborn", "loop", "pop", "find", "try", "work", "post",
                                 "empty", "exit"}]
        /\ \A t \in Threads : tpc'[t] = tpc[t] \/ tpc'[t] = "loop"
    BY <2>1, StartFacts DEF SingleInv
  <2>3. /\ mpc' \in {"call", "wait"} /\ (mpc' = "wait" => mpc = "start" /\ call # 0)
        /\ Somewhere => mpc' = "wait"
    BY <1>1 DEF Select, CallStart, SingleInv, CopyInv, TypeOK
  <2>4. QED
    BY <2>1, <2>2, <2>3, QuietInv DEF SingleInv, TypeOK
<1>2. CASE Wait
  <2>1. /\ UNCHANGED <<running, runq, call, tpc, k, state, works, lock>>
        /\ mpc = "wait" /\ mpc' = "call" /\ state[call] = "DONE"
    BY <1>2 DEF Wait, kern
  <2>2. ~Somewhere
    BY <2>1 DEF SingleInv, CopyInv
  <2>3. QED
    BY <2>1, <2>2, QuietInv DEF SingleInv, TypeOK
<1>3. CASE CallInsert
  <2>1. /\ mpc = "call" /\ call < Calls /\ call' = call + 1 /\ mpc' = "push"
        /\ state' = [state EXCEPT ![call + 1] = "ACTIVE"]
        /\ UNCHANGED <<runq, works, lock, tpc, k>>
    BY <1>3 DEF CallInsert
  <2>2. call + 1 \in Kernels /\ call + 1 \in 0 .. Calls /\ call + 1 # 0
    BY <2>1, SingleAssumption DEF SingleInv, TypeOK, Kernels
  <2>3. TypeOK'
    <3>1. state' \in [Kernels -> {"IDLE", "ACTIVE", "DONE"}]
      BY <2>1, <2>2 DEF SingleInv, TypeOK
    <3>2. \A t \in Threads : tpc'[t] \in {"try", "work", "post"} => k'[t] \in 1 .. call'
      BY <2>1, SingleAssumption DEF SingleInv, TypeOK
    <3>3. QED
      BY <2>1, <2>2, <3>1, <3>2 DEF SingleInv, TypeOK
  <2>4. ~Somewhere
    BY <2>1 DEF SingleInv, CopyInv
  <2>5. \A t \in Threads : Has(t)' => Has(t)
    <3>1. \A t \in Threads :
            tpc[t] \in {"try", "work", "post"} => k[t] \in Kernels /\ k[t] # call + 1
      BY SingleAssumption DEF SingleInv, TypeOK, Kernels
    <3>2. QED
      BY <2>1, <2>2, <3>1 DEF Has, SingleInv, TypeOK
  <2>6. state'[call'] = "ACTIVE"
    BY <2>1, <2>2 DEF SingleInv, TypeOK
  <2>7. \A t \in Threads : tpc[t] # "work"
    BY <2>4 DEF SingleInv, CopyInv, Somewhere
  <2>8. CopyInv'
    BY <2>1, <2>4, <2>5, <2>6, <2>7 DEF CopyInv, Somewhere
  <2>9. QED
    BY <2>3, <2>8 DEF SingleInv
<1>4. CASE CallPush
  <2>1. /\ mpc = "push" /\ mpc' = "start" /\ runq' = runq + 1
        /\ UNCHANGED <<call, tpc, k, state, works, lock>>
    BY <1>4 DEF CallPush, kern
  <2>2. ~Somewhere /\ state[call] # "DONE"
    BY <2>1 DEF SingleInv, CopyInv
  <2>3. runq = 0 /\ runq' = 1
    BY <2>1, <2>2 DEF Somewhere, SingleInv, TypeOK
  <2>4. \A t \in Threads : Has(t)' <=> Has(t)
    BY <2>1 DEF Has
  <2>5. QED
    BY <2>1, <2>2, <2>3, <2>4 DEF SingleInv, TypeOK, CopyInv, Somewhere
<1>5. QED
  BY <1>1, <1>2, <1>3, <1>4 DEF Main

(* The steps of a thread in run().                                         *)
LEMMA RunInv ==
  ASSUME SingleInv, NEW t \in Threads, Run(t)
  PROVE  SingleInv'
<1>1. CASE Loop(t) \/ Empty(t)
  <2>1. /\ UNCHANGED <<runq, mpc, call, k, state, works, lock>>
        /\ \E l \in {"loop", "pop", "exit"} : tpc' = [tpc EXCEPT ![t] = l]
    BY <1>1 DEF Loop, Empty, Goto, kern
  <2>2. QED
    BY <2>1, QuietInv DEF SingleInv, TypeOK
<1>2. CASE Pop(t)
  <2>1. /\ tpc[t] = "pop" /\ UNCHANGED <<mpc, call, k, state, works, lock>>
    BY <1>2 DEF Pop, kern
  <2>2. CASE runq = 0
    <3>1. runq' = runq /\ tpc' = [tpc EXCEPT ![t] = "empty"]
      BY <1>2, <2>2 DEF Pop, Goto
    <3>2. QED
      BY <2>1, <3>1, QuietInv DEF SingleInv, TypeOK
  <2>3. CASE runq = 1
    <3>1. runq' = 0 /\ tpc' = [tpc EXCEPT ![t] = "find"]
      BY <1>2, <2>3 DEF Pop, Goto
    <3>2. TypeOK'
      BY <2>1, <3>1 DEF SingleInv, TypeOK
    <3>3. \A u \in Threads : tpc'[u] = IF u = t THEN "find" ELSE tpc[u]
      BY <3>1 DEF SingleInv, TypeOK
    <3>4. \A u \in Threads : Has(u)' <=> u = t
      BY <2>1, <2>3, <3>3 DEF Has, SingleInv, CopyInv
    <3>5. CopyInv'
      BY <2>1, <2>3, <3>1, <3>3, <3>4 DEF SingleInv, CopyInv, Somewhere
    <3>6. QED
      BY <3>2, <3>5 DEF SingleInv
  <2>4. QED
    BY <2>2, <2>3 DEF SingleInv, TypeOK
<1>3. CASE Find(t)
  <2>1. /\ tpc[t] = "find" /\ UNCHANGED <<runq, mpc, call, state, works, lock>>
        /\ k' = [k EXCEPT ![t] = call] /\ tpc' = [tpc EXCEPT ![t] = "try"]
    BY <1>3 DEF Find, Goto, kern
  <2>2. Has(t)
    BY <2>1 DEF Has
  <2>3. state[call] # "DONE" /\ call \in 1 .. Calls /\ runq = 0
    BY <2>2 DEF SingleInv, CopyInv, Somewhere, TypeOK
  <2>4. \A u \in Threads : /\ tpc'[u] = IF u = t THEN "try" ELSE tpc[u]
                           /\ k'[u] = IF u = t THEN call ELSE k[u]
    BY <2>1 DEF SingleInv, TypeOK
  <2>5. TypeOK'
    BY <2>1, <2>3, <2>4 DEF SingleInv, TypeOK
  <2>6. \A u \in Threads : Has(u)' <=> u = t
    BY <2>1, <2>2, <2>3, <2>4 DEF Has, SingleInv, CopyInv
  <2>7. CopyInv'
    BY <2>1, <2>2, <2>3, <2>4, <2>6 DEF SingleInv, CopyInv, Somewhere
  <2>8. QED
    BY <2>5, <2>7 DEF SingleInv
<1>4. CASE Try(t)
  <2>1. /\ tpc[t] = "try" /\ UNCHANGED <<runq, mpc, call, k, state, works>>
        /\ \/ tpc' = [tpc EXCEPT ![t] = "post"]
           \/ tpc' = [tpc EXCEPT ![t] = "work"] /\ state[k[t]] = "ACTIVE"
    BY <1>4 DEF Try, Goto
  <2>2. lock' \in [Kernels -> Threads \cup {0}]
    BY <1>4 DEF Try, SingleInv, TypeOK
  <2>3. QED
    BY <2>1, <2>2, QuietInv DEF SingleInv, TypeOK
<1>5. CASE Work(t)
  <2>1. /\ tpc[t] = "work" /\ UNCHANGED <<runq, mpc, call, k, lock>>
        /\ works' = [works EXCEPT ![k[t]] = works[k[t]] + 1]
        /\ tpc' = [tpc EXCEPT ![t] = "post"]
        /\ state' = state \/ state' = [state EXCEPT ![k[t]] = "DONE"]
    BY <1>5 DEF Work, Goto
  <2>2. Has(t) /\ k[t] = call /\ call \in Kernels
    BY <2>1, SingleAssumption DEF SingleInv, CopyInv, TypeOK, Kernels
  <2>3. TypeOK'
    <3>1. works[k[t]] + 1 \in Nat
      BY <2>2 DEF SingleInv, TypeOK
    <3>2. works' \in [Kernels -> Nat] /\ state' \in [Kernels -> {"IDLE", "ACTIVE", "DONE"}]
      BY <2>1, <2>2, <3>1 DEF SingleInv, TypeOK
    <3>3. QED
      BY <2>1, <3>2 DEF SingleInv, TypeOK
  <2>4. \A u \in Threads : tpc'[u] = IF u = t THEN "post" ELSE tpc[u]
    BY <2>1 DEF SingleInv, TypeOK
  <2>5. \A u \in Threads : tpc[u] \in {"try", "work", "post"} => k[u] \in Kernels
    BY SingleAssumption DEF SingleInv, TypeOK, Kernels
  <2>6. \A j \in Kernels : state[j] = "DONE" => state'[j] = "DONE"
    BY <2>1 DEF SingleInv, TypeOK
  <2>7. \A u \in Threads : Has(u)' => Has(u) /\ u = t /\ state'[k[t]] # "DONE"
    BY <2>1, <2>2, <2>4, <2>5, <2>6 DEF Has, SingleInv, CopyInv
  <2>8. runq = 0 /\ mpc \in {"start", "wait"}
    BY <2>2 DEF SingleInv, CopyInv, Somewhere, TypeOK
  <2>9. CopyInv'
    BY <2>1, <2>2, <2>4, <2>7, <2>8 DEF SingleInv, CopyInv, Somewhere
  <2>10. QED
    BY <2>3, <2>9 DEF SingleInv
<1>6. CASE Post(t)
  <2>1. /\ tpc[t] = "post" /\ UNCHANGED <<mpc, call, k, state, works>>
        /\ tpc' = [tpc EXCEPT ![t] = "loop"]
    BY <1>6 DEF Post, Goto
  <2>2. lock' \in [Kernels -> Threads \cup {0}]
    BY <1>6 DEF Post, Unlock, SingleInv, TypeOK
  <2>3. CASE state[k[t]] = "DONE"
    <3>1. runq' = runq
      BY <1>6, <2>3 DEF Post
    <3>2. QED
      BY <2>1, <2>2, <3>1, QuietInv DEF SingleInv, TypeOK
  <2>4. CASE state[k[t]] # "DONE"
    <3>1. Has(t)
      BY <2>1, <2>4 DEF Has
    <3>2. runq = 0 /\ runq' = 1
      BY <1>6, <2>4, <3>1 DEF Post, SingleInv, CopyInv, TypeOK
    <3>3. TypeOK'
      BY <2>1, <2>2, <3>2 DEF SingleInv, TypeOK
    <3>4. \A u \in Threads : tpc'[u] = IF u = t THEN "loop" ELSE tpc[u]
      BY <2>1 DEF SingleInv, TypeOK
    <3>5. \A u \in Threads : ~Has(u)'
      BY <2>1, <3>1, <3>4 DEF Has, SingleInv, CopyInv
    <3>6. \A u \in Threads : tpc'[u] # "work"
      BY <3>1, <3>4, <2>1 DEF SingleInv, CopyInv
    <3>7. CopyInv'
      BY <2>1, <3>1, <3>2, <3>5, <3>6 DEF SingleInv, CopyInv, Somewhere
    <3>8. QED
      BY <3>3, <3>7 DEF SingleInv
  <2>5. QED
    BY <2>3, <2>4
<1>7. QED
  BY <1>1, <1>2, <1>3, <1>4, <1>5, <1>6 DEF Run

(* Every step keeps the invariant.                                         *)
LEMMA NextInv == SingleInv /\ [Next]_vars => SingleInv'
<1>1. SingleInv /\ UNCHANGED vars => SingleInv'
  BY DEF vars, SingleInv, TypeOK, CopyInv, Somewhere, Has
<1>2. QED
  BY <1>1, MainInv, RunInv DEF Next, Over

(* The facts above hold however many threads start() leaves behind.        *)
THEOREM SingleInvariance == Spec => []SingleInv
<1>1. QED
  BY InitInv, NextInv, PTL DEF Spec

(* The kernel of a call is never in the queue and with a thread, or with   *)
(* two threads, although several threads may be in run() at once.          *)
THEOREM NeverTwoCopies == Spec => []OneCopy
<1>1. SingleInv => OneCopy
  <2> SUFFICES ASSUME SingleInv PROVE OneCopy
    OBVIOUS
  <2>1. CASE \A t \in Threads : ~Has(t)
    <3>1. {t \in Threads : Has(t)} = {}
      BY <2>1
    <3>2. QED
      BY <3>1, FS_EmptySet DEF OneCopy, SingleInv, TypeOK
  <2>2. CASE \E t \in Threads : Has(t)
    <3>1. PICK t \in Threads : Has(t)
      BY <2>2
    <3>2. {u \in Threads : Has(u)} = {t}
      BY <3>1 DEF SingleInv, CopyInv
    <3>3. runq = 0
      BY <3>1 DEF SingleInv, CopyInv, TypeOK
    <3>4. QED
      BY <3>2, <3>3, FS_Singleton DEF OneCopy
  <2>3. QED
    BY <2>1, <2>2
<1>2. QED
  BY <1>1, SingleInvariance, PTL
=============================================================================
