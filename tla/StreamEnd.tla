----------------------------- MODULE StreamEnd -----------------------------
(***************************************************************************)
(* The end of a stream whose two kernels run on two threads (the workers   *)
(* of SKIRTbbSched): the stream operations up to the point where they      *)
(* return their blocker, and SKIRRuntimeKernel::done with                  *)
(* free_skir_stream_t, which the finishing kernels run without a common    *)
(* lock.                                                                   *)
(*                                                                         *)
(* The two ends do the same things with the roles of s->src and s->dst     *)
(* exchanged.  The store of (void * )1 into an end's own field may stay in *)
(* the store buffer of its processor while it reads the other field.       *)
(***************************************************************************)
EXTENDS Integers

CONSTANTS
  Cap,     \* elements the stream can hold
  Limits   \* what limit can be

Ends == {"src", "dst"}
Other(r) == IF r = "src" THEN "dst" ELSE "src"

ASSUME StreamEndAssumption == Cap \in Nat \ {0} /\ Limits \subseteq [Ends -> Nat]

VARIABLES
  limit,   \* limit.src, limit.dst: elements after which the kernel at this
           \* end returns 1 by itself; 0: never
  moved,   \* elements pushed (src) and popped (dst) so far
  mark,    \* per end: "live", "buffered" or "dead", the value (void * )1
  pc,      \* where the kernel at each end is
  freed    \* how often the stream was freed

endvars == <<limit, moved, mark, pc, freed>>

EndInit == /\ limit \in Limits
           /\ moved = [r \in Ends |-> 0]
           /\ mark = [r \in Ends |-> "live"]
           /\ pc = [r \in Ends |-> "test"]
           /\ freed = 0
-----------------------------------------------------------------------------
Goto(r, l) == pc' = [pc EXCEPT ![r] = l]

(* push finds the ring full, pop finds it empty.                           *)
Stuck(r) == moved["src"] - moved["dst"] = IF r = "src" THEN Cap ELSE 0

Operate_NoTest(r) == /\ pc[r] = "test"
                     /\ moved' = [moved EXCEPT ![r] = @ + 1]
                     /\ IF moved[r] + 1 = limit[r] THEN Goto(r, "mark")
                        ELSE UNCHANGED pc
                     /\ UNCHANGED <<limit, mark, freed>>

(* One stream operation, tested and completed; the last one of the kernel  *)
(* is followed by its return 1.                                            *)
Operate(r) == /\ pc[r] = "test"
              /\ IF Stuck(r)
                 THEN Goto(r, "blocked") /\ UNCHANGED moved
                 ELSE /\ moved' = [moved EXCEPT ![r] = @ + 1]
                      /\ IF moved[r] + 1 = limit[r] THEN Goto(r, "mark")
                         ELSE UNCHANGED pc
              /\ UNCHANGED <<limit, mark, freed>>

Blocked_Forever(r) == /\ pc[r] = "blocked"
                      /\ Goto(r, "test")
                      /\ UNCHANGED <<limit, moved, mark, freed>>

(* would_block reads the other end's field: a finished kernel there makes  *)
(* this one finish, otherwise the scheduler runs it again at its test.     *)
Blocked(r) == /\ pc[r] = "blocked"
              /\ Goto(r, IF mark[Other(r)] = "dead" THEN "mark" ELSE "test")
              /\ UNCHANGED <<limit, moved, mark, freed>>

(* done: s->src = (void * )1, or s->dst.                                   *)
Mark(r) == /\ pc[r] = "mark"
           /\ mark' = [mark EXCEPT ![r] = "buffered"]
           /\ Goto(r, "check")
           /\ UNCHANGED <<limit, moved, freed>>

(* The store reaches memory.                                               *)
Flush(r) == /\ mark[r] = "buffered"
            /\ mark' = [mark EXCEPT ![r] = "dead"]
            /\ UNCHANGED <<limit, moved, pc, freed>>

Check_EitherDead(r) == /\ pc[r] = "check"
                       /\ Goto(r, "free")
                       /\ UNCHANGED <<limit, moved, mark, freed>>

(* free_skir_stream_t reads both fields, its own with the value it stored. *)
Check(r) == /\ pc[r] = "check"
            /\ Goto(r, IF mark[Other(r)] = "dead" THEN "free" ELSE "unlock")
            /\ UNCHANGED <<limit, moved, mark, freed>>

Free(r) == /\ pc[r] = "free"
           /\ freed' = freed + 1
           /\ Goto(r, "unlock")
           /\ UNCHANGED <<limit, moved, mark>>

(* kernel_t::done releases its kernel's wait_mutex, which waits for the    *)
(* stores of its processor.                                                *)
Unlock(r) == /\ pc[r] = "unlock" /\ mark[r] = "dead"
             /\ Goto(r, "ended")
             /\ UNCHANGED <<limit, moved, mark, freed>>

Kernel(r) == Operate(r) \/ Blocked(r) \/ Mark(r) \/ Check(r) \/ Free(r)
             \/ Unlock(r)

Finished == /\ \A r \in Ends : pc[r] = "ended"
            /\ UNCHANGED endvars

EndNext == (\E r \in Ends : Kernel(r) \/ Flush(r)) \/ Finished

EndSpec == EndInit /\ [][EndNext]_endvars

(* The scheduler runs both kernels; a store is not buffered for ever.      *)
FairEndSpec == EndSpec /\ \A r \in Ends : WF_endvars(Kernel(r)) /\ WF_endvars(Flush(r))
-----------------------------------------------------------------------------
(* The stream holds between none and Cap elements, and each end is at a    *)
(* point of its operations or of done.                                     *)
EndTypeOK == /\ limit \in Limits
             /\ moved \in [Ends -> Nat]
             /\ moved["src"] - moved["dst"] \in 0 .. Cap
             /\ mark \in [Ends -> {"live", "buffered", "dead"}]
             /\ pc \in [Ends -> {"test", "blocked", "mark", "check", "free",
                            "unlock", "ended"}]
             /\ freed \in Nat

(***************************************************************************)
(* Whatever the other end does, a stream is not freed under a kernel that  *)
(* still runs its work function on it.                                     *)
(***************************************************************************)
UsedLive == freed > 0 => \A r \in Ends : pc[r] \notin {"test", "blocked", "mark"}

(***************************************************************************)
(* Why UsedLive holds: a kernel marks its end only after its last stream   *)
(* operation, and decides to free only once it has seen the other mark.    *)
(***************************************************************************)
Past(r) == pc[r] \in {"check", "free", "unlock", "ended"}

Marked == \A r \in Ends : mark[r] # "live" => Past(r)

SeenOther == \A r \in Ends : pc[r] = "free" => mark[Other(r)] = "dead"

EndInv == EndTypeOK /\ Marked /\ SeenOther /\ (freed > 0 => \A r \in Ends : Past(r))

(***************************************************************************)
(* When the kernel at one end finishes, the one at the other end does too. *)
(***************************************************************************)
BothEnd == (\E r \in Ends : pc[r] = "ended") ~> (\A r \in Ends : pc[r] = "ended")
=============================================================================
