------------------------------ MODULE KernelT ------------------------------
(***************************************************************************)
(* The life of one kernel_t (lib/SKIR/SKIR_kernel_t.h): the scheduler      *)
(* thread that runs it, the threads that call pauseKernel, unPauseKernel,  *)
(* waitKernel and removeKernel on it, and the pause threads these spawn.   *)
(* The entry points and the run loop are those of SKIRKoroSched and        *)
(* SKIRSingleThreadSched; they differ in what they do with kernel_map when *)
(* the kernel finishes (unmap).                                            *)
(*                                                                         *)
(* A critical section of wait_mutex without a wait in it is one step.  The *)
(* spin lock k->lock, the unlocked reads of wait_state and the steps from  *)
(* one kernel_map operation to the next interleave freely.  A pthread      *)
(* signal wakes one waiter, whichever.                                     *)
(***************************************************************************)
EXTENDS Integers, Sequences

CONSTANTS
  Clients,       \* threads that call the scheduler's entry points
  PauseThreads,  \* pause threads that can be spawned
  Sched,         \* the thread in run()
  NoThread,
  Programs       \* the programs; each has the fields
                 \*   calls   the calls each client makes, in order
                 \*   works   calls of work() after which it returns 1;
                 \*           0: never
                 \*   unmap   TRUE: SKIRKoroSched,
                 \*           FALSE: SKIRSingleThreadSched

Threads == Clients \cup PauseThreads \cup {Sched}

ASSUME KernelTAssumption ==
  /\ Clients \cap PauseThreads = {}
  /\ Sched \notin Clients \cup PauseThreads
  /\ NoThread \notin Threads
  /\ \A p \in Programs :
       /\ p.calls \in [Clients -> Seq({"pause", "unpause", "wait", "remove"})]
       /\ p.works \in Nat /\ p.unmap \in BOOLEAN

VARIABLES
  prog,         \* the program
  wait_state,   \* k->wait_state
  waiters,      \* threads blocked in pthread_cond_wait(&k->wait_cond)
  lock,         \* holder of k->lock
  mapped,       \* kernel_map[rtk] is k
  freed,        \* k was deleted
  released,     \* rt_kernel.done() ran: streams released, impl_ins is 0
  calls,        \* calls of work() that returned
  pc,           \* where each thread is
  at            \* index of each client's next call

kstate == <<wait_state, waiters>>
vars == <<prog, wait_state, waiters, lock, mapped, freed, released, calls, pc, at>>

(* callKernel: the kernel is mapped, active and in the run queue.          *)
Init == /\ prog \in Programs
        /\ wait_state = "ACTIVE" /\ waiters = {}
        /\ lock = NoThread /\ mapped = TRUE /\ freed = FALSE
        /\ released = FALSE /\ calls = 0
        /\ pc = [t \in Threads |-> IF t = Sched THEN "find"
                                   ELSE IF t \in Clients THEN "idle"
                                   ELSE "unborn"]
        /\ at = [c \in Clients |-> 1]

Goto(t, l) == pc' = [pc EXCEPT ![t] = l]
-----------------------------------------------------------------------------
(* Operations of kernel_t under wait_mutex.                                *)

Signal == IF waiters = {} THEN UNCHANGED waiters
          ELSE \E w \in waiters : waiters' = waiters \ {w}

active == wait_state' = "ACTIVE" /\ Signal

done == wait_state' = "DONE" /\ released' = TRUE /\ Signal

(* pause on a kernel that is not done; its caller spawns a pause thread.   *)
pause == wait_state' = "PAUSED" /\ Signal

(* The loop of wait(state): return, or wait for the next signal.           *)
WaitOver(state) == wait_state = state \/ wait_state = "DONE"
-----------------------------------------------------------------------------
(* run(), for this kernel.                                                 *)

RunFind == /\ pc[Sched] = "find"
           /\ Goto(Sched, IF mapped THEN "try" ELSE "off")
           /\ UNCHANGED <<prog, lock, mapped, freed, released, calls, at>>
           /\ UNCHANGED kstate

RunTry_Drop == /\ pc[Sched] = "try"
               /\ IF lock = NoThread
                  THEN lock' = Sched /\ Goto(Sched, "check")
                  ELSE Goto(Sched, "off") /\ UNCHANGED lock
               /\ UNCHANGED <<prog, mapped, freed, released, calls, at>>
               /\ UNCHANGED kstate

RunTry_NoLock == /\ pc[Sched] = "try"
                 /\ Goto(Sched, "check")
                 /\ UNCHANGED <<prog, lock, mapped, freed, released, calls, at>>
                 /\ UNCHANGED kstate

(* A kernel whose lock is taken is tried again later: it becomes next_rtk  *)
(* (SKIRKoroSched), or goes back into the queue if it is not done.         *)
RunTry == /\ pc[Sched] = "try"
          /\ IF lock = NoThread
             THEN lock' = Sched /\ Goto(Sched, "check")
             ELSE /\ Goto(Sched, IF prog.unmap THEN "find" ELSE "post")
                  /\ UNCHANGED lock
          /\ UNCHANGED <<prog, mapped, freed, released, calls, at>>
          /\ UNCHANGED kstate

RunCheck == /\ pc[Sched] = "check"
            /\ Goto(Sched, IF wait_state = "ACTIVE" THEN "work" ELSE "post")
            /\ UNCHANGED <<prog, lock, mapped, freed, released, calls, at>>
            /\ UNCHANGED kstate

(* k->work(), in SKIRSingleThreadSched until it returns other than 0:      *)
(* blocked, or finished.                                                   *)
RunWork == /\ pc[Sched] = "work"
           /\ calls' = IF calls < prog.works THEN calls + 1 ELSE calls
           /\ Goto(Sched, IF calls' = prog.works /\ prog.works # 0
                          THEN "done" ELSE "post")
           /\ UNCHANGED <<prog, lock, mapped, freed, released, at>>
           /\ UNCHANGED kstate

RunDone_Unmap == /\ pc[Sched] = "done"
                 /\ done
                 /\ Goto(Sched, "unmap")
                 /\ UNCHANGED <<prog, lock, mapped, freed, calls, at>>

RunDone == /\ pc[Sched] = "done"
           /\ done
           /\ Goto(Sched, IF prog.unmap THEN "unmap" ELSE "post")
           /\ UNCHANGED <<prog, lock, mapped, freed, calls, at>>

RunUnmap == /\ pc[Sched] = "unmap"
            /\ mapped' = FALSE
            /\ Goto(Sched, "post")
            /\ UNCHANGED <<prog, lock, freed, released, calls, at>>
            /\ UNCHANGED kstate

(* Back into the run queue unless done; the scoped lock is released.       *)
RunPost == /\ pc[Sched] = "post"
           /\ lock' = IF lock = Sched THEN NoThread ELSE lock
           /\ Goto(Sched, IF wait_state = "DONE" THEN "off" ELSE "find")
           /\ UNCHANGED <<prog, mapped, freed, released, calls, at>>
           /\ UNCHANGED kstate

Run == RunFind \/ RunTry \/ RunCheck \/ RunWork \/ RunDone \/ RunUnmap \/ RunPost
-----------------------------------------------------------------------------
(* pause_thread::operator().                                               *)

PauseStart(p) == /\ pc[p] = "start"
                 /\ Goto(p, IF wait_state = "PAUSED" THEN "lock" ELSE "exit")
                 /\ UNCHANGED <<prog, lock, mapped, freed, released, calls, at>>
                 /\ UNCHANGED kstate

PauseLock(p) == /\ pc[p] = "lock" /\ lock = NoThread
                /\ lock' = p
                /\ Goto(p, "enter")
                /\ UNCHANGED <<prog, mapped, freed, released, calls, at>>
                /\ UNCHANGED kstate

PauseWait(p) == /\ \/ pc[p] = "enter"
                   \/ pc[p] = "waiting" /\ p \notin waiters
                /\ IF WaitOver("ACTIVE")
                   THEN /\ lock' = NoThread /\ Goto(p, "exit")
                        /\ UNCHANGED waiters
                   ELSE /\ waiters' = waiters \cup {p}
                        /\ Goto(p, "waiting") /\ UNCHANGED lock
                /\ UNCHANGED <<prog, wait_state, mapped, freed, released, calls, at>>

PauseThread(p) == PauseStart(p) \/ PauseLock(p) \/ PauseWait(p)
-----------------------------------------------------------------------------
(* The scheduler's entry points.                                           *)

Call(c) == prog.calls[c][at[c]]
Calling(c, l) == at[c] <= Len(prog.calls[c]) /\ pc[c] = l

Return(c) == /\ at' = [at EXCEPT ![c] = @ + 1]
             /\ Goto(c, "idle")

(* kernel_map_find, and assert(k) except in removeKernel.                  *)
Find(c) == /\ Calling(c, "idle")
           /\ IF mapped THEN Goto(c, Call(c)) /\ UNCHANGED at
              ELSE IF Call(c) = "remove" THEN Return(c)
              ELSE Goto(c, "abort") /\ UNCHANGED at
           /\ UNCHANGED <<prog, lock, mapped, freed, released, calls>>
           /\ UNCHANGED kstate

(* k->pause(), as pauseKernel (then = "idle") or in removeKernel.          *)
DoPause(c, l, then) ==
  /\ pc[c] = l
  /\ at' = [at EXCEPT ![c] = IF then = "idle" THEN @ + 1 ELSE @]
  /\ IF wait_state = "DONE"
     THEN /\ Goto(c, then) /\ UNCHANGED kstate
     ELSE /\ pause
          /\ \E p \in PauseThreads :
               /\ pc[p] = "unborn"
               /\ pc' = [pc EXCEPT ![c] = then, ![p] = "start"]
  /\ UNCHANGED <<prog, lock, mapped, freed, released, calls>>

Pause(c) == DoPause(c, "pause", "idle")

UnPause_NoSignal(c) == /\ pc[c] = "unpause"
                       /\ wait_state' = "ACTIVE"
                       /\ Return(c)
                       /\ UNCHANGED <<prog, waiters, lock, mapped, freed, released, calls>>

UnPause(c) == /\ pc[c] = "unpause"
              /\ active
              /\ Return(c)
              /\ UNCHANGED <<prog, lock, mapped, freed, released, calls>>

Wait(c) == /\ \/ pc[c] = "wait"
              \/ pc[c] = "waiting" /\ c \notin waiters
           /\ IF WaitOver("DONE")
              THEN Return(c) /\ UNCHANGED waiters
              ELSE /\ waiters' = waiters \cup {c}
                   /\ Goto(c, "waiting") /\ UNCHANGED at
           /\ UNCHANGED <<prog, wait_state, lock, mapped, freed, released, calls>>

RemovePause(c) == DoPause(c, "remove", "rm_unmap")

RemoveUnmap(c) == /\ pc[c] = "rm_unmap"
                  /\ mapped' = FALSE
                  /\ Goto(c, "rm_done")
                  /\ UNCHANGED <<prog, lock, freed, released, calls, at>>
                  /\ UNCHANGED kstate

RemoveDone_Skip(c) == /\ pc[c] = "rm_done"
                      /\ Goto(c, "rm_lock")
                      /\ UNCHANGED <<prog, lock, mapped, freed, released, calls, at>>
                      /\ UNCHANGED kstate

RemoveDone(c) == /\ pc[c] = "rm_done"
                 /\ done
                 /\ Goto(c, "rm_lock")
                 /\ UNCHANGED <<prog, lock, mapped, freed, calls, at>>

RemoveLock_NoWait(c) == /\ pc[c] = "rm_lock"
                        /\ Goto(c, "rm_delete")
                        /\ UNCHANGED <<prog, lock, mapped, freed, released, calls, at>>
                        /\ UNCHANGED kstate

(* The lock is taken and given back, then k is deleted.                    *)
RemoveLock(c) == /\ pc[c] = "rm_lock" /\ lock = NoThread
                 /\ Goto(c, "rm_delete")
                 /\ UNCHANGED <<prog, lock, mapped, freed, released, calls, at>>
                 /\ UNCHANGED kstate

RemoveDelete(c) == /\ pc[c] = "rm_delete"
                   /\ freed' = TRUE /\ wait_state' = "IDLE"
                   /\ Return(c)
                   /\ UNCHANGED <<prog, waiters, lock, mapped, released, calls>>

Client(c) == \/ Find(c) \/ Pause(c) \/ UnPause(c) \/ Wait(c) \/ RemovePause(c)
             \/ RemoveUnmap(c) \/ RemoveDone(c) \/ RemoveLock(c)
             \/ RemoveDelete(c)
-----------------------------------------------------------------------------
(* The scheduler's thread goes on without this kernel.                     *)
RunIdle == pc[Sched] = "off" /\ UNCHANGED vars

Next == \/ Run
        \/ \E p \in PauseThreads : PauseThread(p)
        \/ \E c \in Clients : Client(c)
        \/ RunIdle

Spec == Init /\ [][Next]_vars

(* The operating system runs every thread that can run.                    *)
FairSpec == /\ Spec /\ WF_vars(Run)
            /\ \A p \in PauseThreads : WF_vars(PauseThread(p))
            /\ \A c \in Clients : WF_vars(Client(c))
-----------------------------------------------------------------------------

Holding(p) == pc[p] \in {"enter", "waiting"}

(***************************************************************************)
(* "while it waits, it holds the kernel's lock, preventing it from         *)
(* executing": work() never runs while a pause thread waits.               *)
(***************************************************************************)
PausedIsStill == \A p \in PauseThreads : Holding(p) => pc[Sched] # "work"

(***************************************************************************)
(* "a thread that waits until the kernel is active": a pause thread keeps  *)
(* the kernel's lock only until the kernel is made active again.           *)
(***************************************************************************)
WaitsUntilActive ==
  \A p \in PauseThreads :
    [](Holding(p) /\ [](wait_state = "ACTIVE") => <>~Holding(p))

(***************************************************************************)
(* A kernel that is not finished and not paused for good keeps running.    *)
(***************************************************************************)
KeepsRunning == <>[](wait_state = "ACTIVE") => []<>(pc[Sched] = "work")

(* The client is at a call of waitKernel, which has not returned.          *)
AtWait(c) == at[c] <= Len(prog.calls[c]) /\ Call(c) = "wait"

(***************************************************************************)
(* "wait for given state (or DONE)": once the kernel has finished, every   *)
(* waitKernel of SKIRSingleThreadSched returns, whether it was called      *)
(* before or is called after the end: none waits for ever, and none fails  *)
(* its assert(k), "kernel_map has the kernel".  With SKIRKoroSched, which  *)
(* takes a finished kernel off its map, a wait after the end fails it.     *)
(***************************************************************************)
WaitReturns ==
  \A c \in Clients : released /\ ~prog.unmap /\ AtWait(c) ~> ~AtWait(c)

(***************************************************************************)
(* "stop executing rtk": removeKernel returns only when the scheduler has  *)
(* left the kernel's work function, for good.                              *)
(***************************************************************************)
RemovedIsStill == freed => pc[Sched] # "work"

(***************************************************************************)
(* removeKernel ends: whoever holds the lock of the kernel lets go of it.  *)
(***************************************************************************)
RemoveEnds == \A c \in Clients : pc[c] = "remove" ~> freed
=============================================================================
