--------------------------- MODULE KernelT_proofs ---------------------------
(***************************************************************************)
(* TLAPS proofs about KernelT, for any number of threads and any program   *)
(* of calls.                                                               *)
(***************************************************************************)
EXTENDS KernelT, TLAPS

RunPlaces == {"find", "try", "check", "work", "done", "unmap", "post", "off"}
PausePlaces == {"unborn", "start", "lock", "enter", "waiting", "exit"}
ClientPlaces == {"idle", "abort", "pause", "unpause", "wait", "waiting", "remove",
                 "rm_unmap", "rm_done", "rm_lock", "rm_delete"}

(* The scheduler's thread is between its lock of k->lock and its unlock.   *)
InSection == pc[Sched] \in {"check", "work", "done", "unmap"}

(* The kernel was removed, or removeKernel has called k->pause().          *)
Removing == \/ freed
            \/ \E c \in Clients :
                 pc[c] \in {"rm_unmap", "rm_done", "rm_lock", "rm_delete"}

(* The typing invariant: each kind of thread stays in its own code.        *)
TypeOK ==
  /\ prog \in Programs
  /\ wait_state \in {"ACTIVE", "PAUSED", "DONE", "IDLE"}
  /\ waiters \subseteq Clients \cup PauseThreads
  /\ lock \in Threads \cup {NoThread}
  /\ mapped \in BOOLEAN /\ freed \in BOOLEAN /\ released \in BOOLEAN
  /\ calls \in Nat
  /\ pc \in [Threads -> RunPlaces \cup PausePlaces \cup ClientPlaces]
  /\ pc[Sched] \in RunPlaces
  /\ \A p \in PauseThreads : pc[p] \in PausePlaces
  /\ \A c \in Clients : pc[c] \in ClientPlaces
  /\ at \in [Clients -> Nat \ {0}]

(* Who is inside a section that the spin lock protects holds the lock.     *)
Locked ==
  /\ InSection => lock = Sched
  /\ \A p \in PauseThreads : Holding(p) => lock = p

LockInv == TypeOK /\ Locked

(* What removeKernel has established so far.                               *)
RemoveInv ==
  /\ Removing => wait_state # "ACTIVE"
  /\ freed \/ (\E c \in Clients : pc[c] = "rm_delete") => pc[Sched] # "work"

(* The three kinds of thread differ.                                       *)
LEMMA ThreadFacts ==
  /\ Sched \in Threads /\ NoThread \notin Threads
  /\ \A p \in PauseThreads : p \in Threads /\ p # Sched /\ p # NoThread /\ p \notin Clients
  /\ \A c \in Clients : c \in Threads /\ c # Sched /\ c # NoThread /\ c \notin PauseThreads
BY KernelTAssumption DEF Threads

(* What a program's calls are.                                             *)
LEMMA CallFacts ==
  ASSUME TypeOK, NEW c \in Clients, at[c] <= Len(prog.calls[c])
  PROVE  Call(c) \in {"pause", "unpause", "wait", "remove"}
<1>1. prog.calls[c] \in Seq({"pause", "unpause", "wait", "remove"})
  BY KernelTAssumption DEF TypeOK
<1>2. at[c] \in 1 .. Len(prog.calls[c])
  BY <1>1 DEF TypeOK
<1>3. QED
  BY <1>1, <1>2 DEF Call

(* callKernel leaves the kernel unlocked and not running.                  *)
LEMMA InitInv == Init => LockInv /\ RemoveInv
<1> SUFFICES ASSUME Init PROVE LockInv /\ RemoveInv
  OBVIOUS
<1>1. /\ pc \in [Threads -> RunPlaces \cup PausePlaces \cup ClientPlaces]
      /\ pc[Sched] = "find"
      /\ \A p \in PauseThreads : pc[p] = "unborn"
      /\ \A c \in Clients : pc[c] = "idle"
  BY ThreadFacts DEF Init, RunPlaces, PausePlaces, ClientPlaces
<1>2. at \in [Clients -> Nat \ {0}]
  BY DEF Init
<1>3. TypeOK
  BY <1>1, <1>2 DEF Init, TypeOK, RunPlaces, PausePlaces, ClientPlaces
<1>4. QED
  BY <1>1, <1>3 DEF Init, LockInv, Locked, RemoveInv, InSection, Removing, Holding

(* A signal wakes a waiter or nobody.                                      *)
LEMMA SignalFacts == Signal => waiters' \subseteq waiters
BY DEF Signal

(* What a step of run() does to the lock and the other threads.            *)
LEMMA RunLock == LockInv /\ Run => LockInv'
<1> SUFFICES ASSUME LockInv, Run PROVE LockInv'
  OBVIOUS
<1> USE ThreadFacts DEF LockInv, Goto, RunPlaces, PausePlaces, ClientPlaces, kstate
<1>1. /\ pc' = [pc EXCEPT ![Sched] = pc'[Sched]] /\ pc'[Sched] \in RunPlaces
      /\ prog' = prog /\ at' = at /\ freed' = freed
  BY DEF Run, RunFind, RunTry, RunCheck, RunWork, RunDone, RunUnmap, RunPost, TypeOK
<1>2. \A t \in Threads : t # Sched => pc'[t] = pc[t]
  BY <1>1 DEF TypeOK
<1>3. calls' \in Nat
  <2>1. prog.works \in Nat
    BY KernelTAssumption DEF TypeOK
  <2>2. QED
    BY <2>1 DEF Run, RunFind, RunTry, RunCheck, RunWork, RunDone, RunUnmap, RunPost, TypeOK
<1>4. /\ wait_state' \in {"ACTIVE", "PAUSED", "DONE", "IDLE"}
      /\ waiters' \subseteq Clients \cup PauseThreads
      /\ lock' \in Threads \cup {NoThread}
      /\ mapped' \in BOOLEAN /\ released' \in BOOLEAN
  BY SignalFacts
     DEF Run, RunFind, RunTry, RunCheck, RunWork, RunDone, RunUnmap, RunPost, TypeOK, done
<1>5. TypeOK'
  BY <1>1, <1>2, <1>3, <1>4 DEF TypeOK
<1>6. \/ lock' = lock
      \/ lock = NoThread /\ lock' = Sched
      \/ lock = Sched /\ lock' = NoThread
  BY DEF Run, RunFind, RunTry, RunCheck, RunWork, RunDone, RunUnmap, RunPost
<1>7. InSection' => lock' = Sched
  BY <1>1 DEF Run, RunFind, RunTry, RunCheck, RunWork, RunDone, RunUnmap, RunPost,
              TypeOK, Locked, InSection
<1>8. \A p \in PauseThreads : Holding(p)' => lock' = p
  BY <1>2, <1>6 DEF Locked, Holding
<1>9. QED
  BY <1>5, <1>7, <1>8 DEF Locked

(* A pause thread takes the lock when it is free and gives back its own.   *)
LEMMA PauseThreadLock ==
  ASSUME LockInv, NEW p \in PauseThreads, PauseThread(p)
  PROVE  LockInv'
<1> USE ThreadFacts DEF LockInv, Goto, RunPlaces, PausePlaces, ClientPlaces, kstate
<1>1. CASE PauseStart(p)
  BY <1>1 DEF PauseStart, TypeOK, Locked, InSection, Holding
<1>2. CASE PauseLock(p)
  BY <1>2 DEF PauseLock, TypeOK, Locked, InSection, Holding
<1>3. CASE PauseWait(p)
  <2>1. Holding(p) /\ lock = p
    BY <1>3 DEF PauseWait, Holding, Locked
  <2>2. CASE WaitOver("ACTIVE")
    BY <1>3, <2>1, <2>2 DEF PauseWait, TypeOK, Locked, InSection, Holding
  <2>3. CASE ~WaitOver("ACTIVE")
    BY <1>3, <2>1, <2>3 DEF PauseWait, TypeOK, Locked, InSection, Holding
  <2>4. QED
    BY <2>2, <2>3
<1>4. QED
  BY <1>1, <1>2, <1>3 DEF PauseThread

(* k->pause() spawns a pause thread that does not hold the lock yet.       *)
LEMMA DoPauseLock ==
  ASSUME LockInv, NEW c \in Clients, NEW l, NEW then \in {"idle", "rm_unmap"},
         DoPause(c, l, then)
  PROVE  LockInv'
<1> USE ThreadFacts DEF LockInv, Goto, RunPlaces, PausePlaces, ClientPlaces, kstate
<1>1. /\ prog' = prog /\ lock' = lock /\ mapped' = mapped /\ freed' = freed
      /\ released' = released /\ calls' = calls
  BY DEF DoPause
<1>2. at' \in [Clients -> Nat \ {0}]
  <2>1. at[c] + 1 \in Nat \ {0}
    BY DEF TypeOK
  <2>2. at' = [at EXCEPT ![c] = IF then = "idle" THEN at[c] + 1 ELSE at[c]]
    BY DEF DoPause
  <2>3. QED
    BY <2>1, <2>2 DEF TypeOK
<1>3. CASE wait_state = "DONE"
  BY <1>1, <1>2, <1>3 DEF DoPause, TypeOK, Locked, InSection, Holding
<1>4. CASE wait_state # "DONE"
  <2>1. PICK p \in PauseThreads :
          pc[p] = "unborn" /\ pc' = [pc EXCEPT ![c] = then, ![p] = "start"]
    BY <1>4 DEF DoPause
  <2>2. wait_state' = "PAUSED" /\ waiters' \subseteq waiters
    BY <1>4, SignalFacts DEF DoPause, pause
  <2>3. /\ \A t \in Threads : t # c /\ t # p => pc'[t] = pc[t]
        /\ pc'[c] = then /\ pc'[p] = "start"
        /\ pc' \in [Threads -> RunPlaces \cup PausePlaces \cup ClientPlaces]
    BY <2>1 DEF TypeOK
  <2>4. TypeOK'
    BY <1>1, <1>2, <2>2, <2>3 DEF TypeOK
  <2>5. QED
    BY <1>1, <2>3, <2>4 DEF Locked, InSection, Holding
<1>5. QED
  BY <1>3, <1>4

(* The entry points leave the lock alone.                                  *)
LEMMA ClientLock ==
  ASSUME LockInv, NEW c \in Clients, Client(c)
  PROVE  LockInv'
<1> USE ThreadFacts DEF LockInv, Goto, RunPlaces, PausePlaces, ClientPlaces, kstate
<1>0. at[c] + 1 \in Nat \ {0} /\ [at EXCEPT ![c] = @ + 1] \in [Clients -> Nat \ {0}]
  BY DEF TypeOK
<1>1. CASE Find(c)
  BY <1>0, <1>1, CallFacts DEF Find, Calling, Return, TypeOK, Locked, InSection, Holding
<1>2. CASE Pause(c)
  BY <1>2, DoPauseLock DEF Pause
<1>3. CASE UnPause(c)
  BY <1>0, <1>3, SignalFacts
     DEF UnPause, active, Return, TypeOK, Locked, InSection, Holding
<1>4. CASE Wait(c)
  BY <1>0, <1>4 DEF Wait, Return, TypeOK, Locked, InSection, Holding
<1>5. CASE RemovePause(c)
  BY <1>5, DoPauseLock DEF RemovePause
<1>6. CASE RemoveUnmap(c)
  BY <1>6 DEF RemoveUnmap, TypeOK, Locked, InSection, Holding
<1>7. CASE RemoveDone(c)
  BY <1>7, SignalFacts DEF RemoveDone, done, TypeOK, Locked, InSection, Holding
<1>8. CASE RemoveLock(c)
  BY <1>8 DEF RemoveLock, TypeOK, Locked, InSection, Holding
<1>9. CASE RemoveDelete(c)
  BY <1>0, <1>9 DEF RemoveDelete, Return, TypeOK, Locked, InSection, Holding
<1>10. QED
  BY <1>1, <1>2, <1>3, <1>4, <1>5, <1>6, <1>7, <1>8, <1>9 DEF Client

(* Every step keeps the lock discipline.                                   *)
LEMMA NextLock == LockInv /\ [Next]_vars => LockInv'
<1>1. LockInv /\ UNCHANGED vars => LockInv'
  BY DEF vars, LockInv, TypeOK, Locked, InSection, Holding
<1>2. QED
  BY <1>1, RunLock, PauseThreadLock, ClientLock DEF Next, RunIdle

(* The typing invariant and the lock discipline of k->lock hold at every   *)
(* point of run(), of the pause threads and of the entry points.           *)
THEOREM LockDiscipline == Spec => []LockInv
<1>1. QED
  BY InitInv, NextLock, PTL DEF Spec

(* work() never runs while a pause thread waits, for any number of calls,  *)
(* of callers and of pause threads of one kernel.                          *)
THEOREM PauseExcludesWork == Spec => []PausedIsStill
<1>1. LockInv => PausedIsStill
  BY ThreadFacts DEF LockInv, Locked, InSection, PausedIsStill
<1>2. QED
  BY <1>1, LockDiscipline, PTL

-----------------------------------------------------------------------------

(* No unPauseKernel takes effect once removeKernel has begun.              *)
NoLateUnPause == [][\A c \in Clients : UnPause(c) => ~Removing]_vars

(* No step but k->active() makes a kernel active, and the scheduler enters *)
(* work() only with the lock and while the kernel is active.               *)
LEMMA NextRemove ==
  ASSUME LockInv, RemoveInv, [Next]_vars,
         [\A c \in Clients : UnPause(c) => ~Removing]_vars
  PROVE  RemoveInv'
<1> USE ThreadFacts DEF Goto, kstate
<1>1. CASE Run
  <2>1. \A t \in Clients : pc'[t] = pc[t]
    BY <1>1 DEF Run, RunFind, RunTry, RunCheck, RunWork, RunDone, RunUnmap, RunPost,
                LockInv, TypeOK
  <2>2. freed' = freed /\ wait_state' \in {wait_state, "DONE"}
    BY <1>1 DEF Run, RunFind, RunTry, RunCheck, RunWork, RunDone, RunUnmap, RunPost, done
  <2>3. pc'[Sched] = "work" => wait_state = "ACTIVE"
    BY <1>1 DEF Run, RunFind, RunTry, RunCheck, RunWork, RunDone, RunUnmap, RunPost,
                LockInv, TypeOK
  <2>4. QED
    BY <2>1, <2>2, <2>3 DEF RemoveInv, Removing
<1>2. ASSUME NEW p \in PauseThreads, PauseThread(p) PROVE RemoveInv'
  <2>1. /\ \A t \in Clients : pc'[t] = pc[t]
        /\ pc'[Sched] = pc[Sched]
    BY <1>2 DEF PauseThread, PauseStart, PauseLock, PauseWait, LockInv, TypeOK
  <2>2. freed' = freed /\ wait_state' = wait_state
    BY <1>2 DEF PauseThread, PauseStart, PauseLock, PauseWait
  <2>3. QED
    BY <2>1, <2>2 DEF RemoveInv, Removing
<1>3. ASSUME NEW c \in Clients, Client(c) PROVE RemoveInv'
  <2>1. /\ \A t \in Clients : t # c => pc'[t] = pc[t]
        /\ pc'[Sched] = pc[Sched]
    BY <1>3 DEF Client, Find, Pause, UnPause, Wait, RemovePause, RemoveUnmap,
         RemoveDone, RemoveLock, RemoveDelete, DoPause, Return, LockInv, TypeOK
  <2>2. CASE Find(c)
    <3>1. pc'[c] \in {"pause", "unpause", "wait", "remove", "idle", "abort"}
      BY <2>2, CallFacts DEF Find, Calling, Return, LockInv, TypeOK
    <3>2. freed' = freed /\ wait_state' = wait_state
      BY <2>2 DEF Find
    <3>3. QED
      BY <2>1, <3>1, <3>2 DEF RemoveInv, Removing
  <2>3. CASE Pause(c) \/ RemovePause(c)
    <3>1. pc'[c] \in {"idle", "rm_unmap"}
      BY <2>3 DEF Pause, RemovePause, DoPause, LockInv, TypeOK
    <3>2. freed' = freed /\ wait_state' \in {"DONE", "PAUSED"}
      BY <2>3 DEF Pause, RemovePause, DoPause, pause
    <3>3. QED
      BY <2>1, <3>1, <3>2 DEF RemoveInv, Removing
  <2>4. CASE UnPause(c)
    <3>1. pc[c] = "unpause" /\ pc'[c] = "idle" /\ freed' = freed
      BY <2>4 DEF UnPause, Return, LockInv, TypeOK
    <3>2. pc' # pc
      BY <3>1
    <3>3. ~Removing
      BY <2>4, <3>2 DEF vars
    <3>4. QED
      BY <2>1, <3>1, <3>3 DEF RemoveInv, Removing
  <2>5. CASE Wait(c)
    <3>1. pc'[c] \in {"idle", "waiting"} /\ freed' = freed /\ wait_state' = wait_state
      BY <2>5 DEF Wait, Return, LockInv, TypeOK
    <3>2. QED
      BY <2>1, <3>1 DEF RemoveInv, Removing
  <2>6. CASE RemoveUnmap(c) \/ RemoveDone(c)
    <3>1. /\ pc[c] \in {"rm_unmap", "rm_done"}
          /\ pc'[c] \in {"rm_done", "rm_lock"}
          /\ freed' = freed /\ wait_state' \in {wait_state, "DONE"}
      BY <2>6 DEF RemoveUnmap, RemoveDone, done, LockInv, TypeOK
    <3>2. QED
      BY <2>1, <3>1 DEF RemoveInv, Removing
  <2>7. CASE RemoveLock(c)
    <3>1. /\ pc[c] = "rm_lock" /\ pc'[c] = "rm_delete"
          /\ freed' = freed /\ wait_state' = wait_state /\ lock = NoThread
      BY <2>7 DEF RemoveLock, LockInv, TypeOK
    <3>2. pc[Sched] # "work"
      BY <3>1 DEF LockInv, Locked, InSection
    <3>3. QED
      BY <2>1, <3>1, <3>2 DEF RemoveInv, Removing
  <2>8. CASE RemoveDelete(c)
    <3>1. pc[c] = "rm_delete" /\ wait_state' = "IDLE"
      BY <2>8 DEF RemoveDelete
    <3>2. QED
      BY <2>1, <3>1 DEF RemoveInv, Removing
  <2>9. QED
    BY <1>3, <2>2, <2>3, <2>4, <2>5, <2>6, <2>7, <2>8 DEF Client
<1>4. CASE UNCHANGED vars
  BY <1>4 DEF vars, RemoveInv, Removing
<1>5. QED
  BY <1>1, <1>2, <1>3, <1>4 DEF Next, RunIdle

(* After removeKernel the scheduler never runs the kernel's work function  *)
(* again, whatever the other callers do, provided that none of them makes  *)
(* the kernel active once removeKernel has begun.                          *)
THEOREM RemoveExcludesWork == Spec /\ NoLateUnPause => []RemovedIsStill
<1>1. RemoveInv => RemovedIsStill
  BY DEF RemoveInv, RemovedIsStill
<1>2. Spec /\ NoLateUnPause => []RemoveInv
  BY InitInv, NextRemove, LockDiscipline, PTL DEF Spec, NoLateUnPause
<1>3. QED
  BY <1>1, <1>2, PTL
=============================================================================
