---------------------------- MODULE SingleSched ----------------------------
(***************************************************************************)
(* The SKIRSingleThreadSched that -force-tpk gives to each kernel          *)
(* (lib/SKIR/SKIRSingleThreadSched.cpp).  selectScheduler starts its       *)
(* thread, callKernel queues the kernel and starts the thread again; run() *)
(* gives running back and ends when it finds the queue empty.              *)
(*                                                                         *)
(* The program calls the kernel and waits for it, Calls times.  The wait   *)
(* and the lock are those of KernelT; no other thread takes the lock here  *)
(* than those in run().                                                    *)
(***************************************************************************)
EXTENDS Integers, FiniteSets, FiniteSetsExt

CONSTANTS
  Calls,     \* times the program calls the kernel
  Works      \* calls of work(), to blocked or finished, until it returns 1

ASSUME SingleAssumption == Calls \in Nat \ {0} /\ Works \in Nat \ {0}

(* Each start() makes one thread at most, each callKernel a kernel_t; the  *)
(* kernel_t are numbered from 1.                                           *)
Threads == 1 .. Calls + 1
Kernels == 1 .. Calls

VARIABLES
  running,   \* the scheduler's running
  runq,      \* entries of the queue: the kernel is the only one
  state,     \* wait_state of each kernel_t
  works,     \* calls of its work() so far
  lock,      \* the thread that holds its lock, or 0
  mpc,       \* where the program is
  call,      \* calls made so far: kernel_map has the kernel_t of the last
  tpc,       \* where each thread in run() is
  k          \* its local k

kern == <<state, works, lock>>
vars == <<running, runq, state, works, lock, mpc, call, tpc, k>>

Init == /\ running = 0 /\ runq = 0
        /\ state = [j \in Kernels |-> "IDLE"]
        /\ works = [j \in Kernels |-> 0] /\ lock = [j \in Kernels |-> 0]
        /\ mpc = "select" /\ call = 0
        /\ tpc = [t \in Threads |-> "unborn"] /\ k = [t \in Threads |-> 0]

Goto(t, l) == tpc' = [tpc EXCEPT ![t] = l]
-----------------------------------------------------------------------------
(* The program.                                                            *)

(* start: compare_and_swap, and a new thread if running was 0.             *)
start == IF running = 0
         THEN /\ running' = 1
              /\ Goto(Min({t \in Threads : tpc[t] = "unborn"}), "loop")
         ELSE UNCHANGED <<running, tpc>>

Select == /\ mpc = "select"
          /\ start
          /\ mpc' = "call"
          /\ UNCHANGED <<runq, call, k>> /\ UNCHANGED kern

(* callKernel makes a new kernel_t, active.                                *)
CallInsert == /\ mpc = "call" /\ call < Calls
              /\ call' = call + 1
              /\ state' = [state EXCEPT ![call + 1] = "ACTIVE"]
              /\ mpc' = "push"
              /\ UNCHANGED <<running, runq, works, lock, tpc, k>>

CallPush == /\ mpc = "push"
            /\ runq' = runq + 1
            /\ mpc' = "start"
            /\ UNCHANGED <<running, call, tpc, k>> /\ UNCHANGED kern

CallStart == /\ mpc = "start"
             /\ start
             /\ mpc' = "wait"
             /\ UNCHANGED <<runq, call, k>> /\ UNCHANGED kern

Wait == /\ mpc = "wait" /\ state[call] = "DONE"
        /\ mpc' = "call"
        /\ UNCHANGED <<running, runq, call, tpc, k>> /\ UNCHANGED kern

Main == Select \/ CallInsert \/ CallPush \/ CallStart \/ Wait
-----------------------------------------------------------------------------
(* run(), in thread t.                                                     *)

Loop(t) == /\ tpc[t] = "loop"
           /\ Goto(t, IF running = 1 THEN "pop" ELSE "exit")
           /\ UNCHANGED <<running, runq, mpc, call, k>> /\ UNCHANGED kern

Pop(t) == /\ tpc[t] = "pop"
          /\ IF runq > 0 THEN runq' = runq - 1 /\ Goto(t, "find")
                         ELSE Goto(t, "empty") /\ UNCHANGED runq
          /\ UNCHANGED <<running, mpc, call, k>> /\ UNCHANGED kern

Find(t) == /\ tpc[t] = "find"
           /\ k' = [k EXCEPT ![t] = call]
           /\ Goto(t, "try")
           /\ UNCHANGED <<running, runq, mpc, call>> /\ UNCHANGED kern

Try(t) == /\ tpc[t] = "try"
          /\ IF lock[k[t]] = 0
             THEN /\ lock' = [lock EXCEPT ![k[t]] = t]
                  /\ Goto(t, IF state[k[t]] = "ACTIVE" THEN "work" ELSE "post")
             ELSE Goto(t, "post") /\ UNCHANGED lock
          /\ UNCHANGED <<running, runq, state, works, mpc, call, k>>

Work(t) == /\ tpc[t] = "work"
           /\ works' = [works EXCEPT ![k[t]] = @ + 1]
           /\ state' = IF works[k[t]] + 1 = Works
                       THEN [state EXCEPT ![k[t]] = "DONE"] ELSE state
           /\ Goto(t, "post")
           /\ UNCHANGED <<running, runq, lock, mpc, call, k>>

Unlock(t) == lock' = [j \in Kernels |-> IF lock[j] = t THEN 0 ELSE lock[j]]

Post_Always(t) == /\ tpc[t] = "post"
                  /\ runq' = runq + 1
                  /\ Unlock(t)
                  /\ Goto(t, "loop")
                  /\ UNCHANGED <<running, state, works, mpc, call, k>>

(* Back into the queue unless done.                                        *)
Post(t) == /\ tpc[t] = "post"
           /\ runq' = IF state[k[t]] = "DONE" THEN runq ELSE runq + 1
           /\ Unlock(t)
           /\ Goto(t, "loop")
           /\ UNCHANGED <<running, state, works, mpc, call, k>>

Empty_Yields(t) == /\ tpc[t] = "empty"
                   /\ Goto(t, "loop")
                   /\ UNCHANGED <<running, runq, mpc, call, k>>
                   /\ UNCHANGED kern

Empty(t) == /\ tpc[t] = "empty"
            /\ running' = 0
            /\ Goto(t, "loop")
            /\ UNCHANGED <<runq, mpc, call, k>> /\ UNCHANGED kern

Run(t) == \/ Loop(t) \/ Pop(t) \/ Find(t) \/ Try(t) \/ Work(t) \/ Post(t)
          \/ Empty(t)
-----------------------------------------------------------------------------
(* The program has made its calls, or waits, and no thread is left.        *)
Over == /\ \A t \in Threads : tpc[t] \in {"unborn", "exit"}
        /\ mpc = "wait" \/ (mpc = "call" /\ call = Calls)
        /\ UNCHANGED vars

Next == Main \/ (\E t \in Threads : Run(t)) \/ Over

Spec == Init /\ [][Next]_vars

(* The operating system runs every thread.                                 *)
FairSpec == Spec /\ WF_vars(Main) /\ \A t \in Threads : WF_vars(Run(t))
-----------------------------------------------------------------------------

(***************************************************************************)
(* Although a thread that was about to end goes on beside a new one when   *)
(* start() sets running again, the two never have the kernel both: while   *)
(* it is not done it is in the queue or with one thread, once.             *)
(***************************************************************************)
Has(t) == \/ tpc[t] = "find"
          \/ tpc[t] \in {"try", "work", "post"} /\ state[k[t]] # "DONE"

OneCopy == runq + Cardinality({t \in Threads : Has(t)}) <= 1

(***************************************************************************)
(* The scheduler's threads all end: one that finds the queue empty ends    *)
(* the others with it, whenever start() made them.                         *)
(***************************************************************************)
ThreadsEnd == <>[](\A t \in Threads : tpc[t] \in {"unborn", "exit"})
=============================================================================
