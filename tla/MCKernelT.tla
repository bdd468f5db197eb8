----------------------------- MODULE MCKernelT -----------------------------
(* KernelT with the callers the runtime has: the thread of the running     *)
(* program (skir.wait, skir.uncall) and the threads that serve control     *)
(* connections (pause, unpause, uncall events).                            *)
EXTENDS KernelT, TLC

CONSTANTS main, ctl, p1, p2

Prog(m, c, works, unmap) ==
  [calls |-> main :> m @@ ctl :> c, works |-> works, unmap |-> unmap]

(* Both threads pause and unpause a kernel that never finishes.            *)
Toggle(u) == Prog(<<"pause", "unpause">>, <<"pause", "unpause">>, 0, u)
(* A wait for a kernel that is paused and finishes.                        *)
WaitAndStop == Prog(<<"wait">>, <<"pause", "pause">>, 3, FALSE)
(* A kernel is removed, at any point of its life.                          *)
Remove(u) == Prog(<<"remove">>, <<>>, 2, u)

Lives == {Toggle(TRUE), Toggle(FALSE), WaitAndStop, Remove(TRUE), Remove(FALSE)}
=============================================================================
