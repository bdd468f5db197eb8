---------------------------- MODULE BoundedFifo ----------------------------
(***************************************************************************)
(* What a SKIR stream promises the two kernels it connects: a first-in     *)
(* first-out channel of bounded capacity.  The elements are numbered in    *)
(* the order in which the producing kernel pushes them; a kernel cannot    *)
(* look inside an element, so the number stands for any payload.           *)
(***************************************************************************)
EXTENDS Naturals, Sequences

CONSTANTS
  Capacity,   \* elements the channel can hold
  MaxPush     \* elements the producing kernel pushes before it finishes

VARIABLES
  queue,      \* the elements in the channel, oldest first
  sent,       \* how many elements were put so far
  got         \* what the last pop or peek handed to the consuming kernel

vars == <<queue, sent, got>>

None == [op |-> "none", elt |-> 0]

Init == /\ queue = <<>>
        /\ sent = 0
        /\ got = None

Put == /\ sent < MaxPush
       /\ Len(queue) < Capacity
       /\ queue' = Append(queue, sent)
       /\ sent' = sent + 1
       /\ UNCHANGED got

Get == /\ queue # <<>>
       /\ got' = [op |-> "pop", elt |-> Head(queue)]
       /\ queue' = Tail(queue)
       /\ UNCHANGED sent

(* A peek looks at the element o places behind the oldest one.             *)
Look(o) == /\ o < Len(queue)
           /\ got' = [op |-> "peek", elt |-> queue[o + 1]]
           /\ UNCHANGED <<queue, sent>>

Next == Put \/ Get \/ \E o \in 0 .. Capacity - 1 : Look(o)

Spec == Init /\ [][Next]_vars
=============================================================================
