----------------------------- MODULE StreamRing -----------------------------
(***************************************************************************)
(* The ring buffer behind one stream (skir_stream_t) and the three stream  *)
(* operations the compiled work functions run on it:                       *)
(*   __SKIRRT_inline_push, __SKIRRT_inline_pop and __SKIRRT_inline_peek,   *)
(* with their _block variants (lib/runtime/inline_stream_ops.cpp).         *)
(*                                                                         *)
(* One kernel pushes and one kernel pops, on two threads and without a     *)
(* lock.  Every load or store of a field that the other side also          *)
(* accesses is a step of its own.  Stores become visible in program order  *)
(* (the x86 targets of the code generator); head and tail are word sized.  *)
(* would_block gives the processor back to the scheduler, which runs the   *)
(* kernel again later, at the test of its loop: a *Resume step.            *)
(*                                                                         *)
(* Positions are byte offsets in s->buf.  An element is represented by     *)
(* its number in the order of the pushes.                                  *)
(***************************************************************************)
EXTENDS Integers

CONSTANTS
  ELMSZ,     \* bytes of an element
  SLOTS,     \* elements the buffer has room for, one of them always free
  MaxPeek,   \* largest offset the consuming kernel peeks at
  MaxPush    \* elements the producing kernel pushes before it finishes

ASSUME RingAssumption == /\ ELMSZ \in Nat \ {0}
                         /\ SLOTS \in Nat \ {0, 1}
                         /\ MaxPeek \in Nat
                         /\ MaxPush \in Nat

(* STREAM_BUFFER_SIZE.  Every instantiation of the templates (4 or 8 bytes *)
(* in 128 or 32768) is a whole number of elements.                         *)
BUFSZ == SLOTS * ELMSZ

(* The offsets at which an element starts.                                 *)
Offsets == {i * ELMSZ : i \in 0 .. SLOTS - 1}

VARIABLES
  head,      \* s->head, written by the producer only
  tail,      \* s->tail, written by the consumer only
  buf,       \* s->buf: the element that starts at each offset
  num_push,  \* s->num_push
  num_pop,   \* history: pops completed so far
  ppc,       \* where the producer is in push
  pnext,     \* push's local next
  cpc,       \* where the consumer is in peek or pop
  po,        \* peek's argument o
  chead,     \* peek's local copy of head
  elt,       \* the kernel's own buffer e, filled by memcpy
  got        \* what the last pop or peek handed to the consuming kernel

pvars == <<ppc, pnext>>
cvars == <<cpc, po, chead, elt, got, num_pop>>
vars  == <<head, tail, buf, num_push, num_pop,
           ppc, pnext, cpc, po, chead, elt, got>>

NoElt == -1

(* new_skir_stream_t: an empty ring; the buffer itself is not cleared.     *)
Init == /\ head = 0 /\ tail = 0
        /\ buf = [o \in Offsets |-> NoElt]
        /\ num_push = 0 /\ num_pop = 0
        /\ ppc = "idle" /\ pnext = 0
        /\ cpc = "idle" /\ po = 0 /\ chead = 0
        /\ elt = NoElt
        /\ got = [op |-> "none", elt |-> 0]
-----------------------------------------------------------------------------
(* push: the producing kernel.                                             *)

PushBegin_NoWrap == /\ ppc = "idle"
                    /\ num_push < MaxPush
                    /\ pnext' = head + ELMSZ
                    /\ ppc' = "test"
                    /\ UNCHANGED <<head, tail, buf, num_push>>
                    /\ UNCHANGED cvars

PushBegin == /\ ppc = "idle"
             /\ num_push < MaxPush
             /\ pnext' = (head + ELMSZ) % BUFSZ
             /\ ppc' = "test"
             /\ UNCHANGED <<head, tail, buf, num_push>> /\ UNCHANGED cvars

PushTest_LastSlot == /\ ppc = "test"
                     /\ ppc' = IF head = tail /\ num_push > num_pop
                               THEN "blocked" ELSE "copy"
                     /\ UNCHANGED <<head, tail, buf, num_push, pnext>>
                     /\ UNCHANGED cvars

PushTest == /\ ppc = "test"
            /\ ppc' = IF pnext = tail THEN "blocked" ELSE "copy"
            /\ UNCHANGED <<head, tail, buf, num_push, pnext>>
            /\ UNCHANGED cvars

PushResume == /\ ppc = "blocked"
              /\ ppc' = "test"
              /\ UNCHANGED <<head, tail, buf, num_push, pnext>>
              /\ UNCHANGED cvars

PushCopy_AtNext == /\ ppc = "copy"
                   /\ buf' = [buf EXCEPT ![pnext] = num_push]
                   /\ ppc' = "publish"
                   /\ UNCHANGED <<head, tail, num_push, pnext>>
                   /\ UNCHANGED cvars

PushCopy == /\ ppc = "copy"
            /\ buf' = [buf EXCEPT ![head] = num_push]
            /\ ppc' = "publish"
            /\ UNCHANGED <<head, tail, num_push, pnext>> /\ UNCHANGED cvars

PushPublish == /\ ppc = "publish"
               /\ head' = pnext
               /\ num_push' = num_push + 1
               /\ ppc' = "idle"
               /\ UNCHANGED <<tail, buf, pnext>> /\ UNCHANGED cvars
-----------------------------------------------------------------------------
(* pop and peek: the consuming kernel, which may peek once before it pops. *)

PopBegin == /\ cpc \in {"idle", "peeked"}
            /\ cpc' = "test"
            /\ UNCHANGED <<head, tail, buf, num_push, po, chead, elt, got,
                           num_pop>>
            /\ UNCHANGED pvars

PopTest == /\ cpc = "test"
           /\ cpc' = IF head = tail THEN "blocked" ELSE "copy"
           /\ UNCHANGED <<head, tail, buf, num_push, po, chead, elt, got,
                          num_pop>>
           /\ UNCHANGED pvars

PopResume == /\ cpc = "blocked"
             /\ cpc' = "test"
             /\ UNCHANGED <<head, tail, buf, num_push, po, chead, elt, got,
                            num_pop>>
             /\ UNCHANGED pvars

PopCopy == /\ cpc = "copy"
           /\ elt' = buf[tail]
           /\ cpc' = "publish"
           /\ UNCHANGED <<head, tail, buf, num_push, po, chead, got,
                          num_pop>>
           /\ UNCHANGED pvars

PopPublish == /\ cpc = "publish"
              /\ tail' = (tail + ELMSZ) % BUFSZ
              /\ got' = [op |-> "pop", elt |-> elt]
              /\ num_pop' = num_pop + 1
              /\ cpc' = "idle"
              /\ UNCHANGED <<head, buf, num_push, po, chead, elt>>
              /\ UNCHANGED pvars

PeekBegin(o) == /\ cpc = "idle"
                /\ po' = o
                /\ chead' = head
                /\ cpc' = "peektest"
                /\ UNCHANGED <<head, tail, buf, num_push, elt, got, num_pop>>
                /\ UNCHANGED pvars

(* peek's local offset; tail does not change while its owner peeks.        *)
Offset == tail + po * ELMSZ

PeekReady_NoBound(h) == \/ tail < h /\ Offset < h
                        \/ tail > h

(* The test of peek's loop, on the consumer's copy h of head.              *)
PeekReady(h) == \/ tail < h /\ Offset < h
                \/ tail > h /\ Offset < h + BUFSZ

PeekTest == /\ cpc = "peektest"
            /\ cpc' = IF PeekReady(chead) THEN "peekcopy" ELSE "peekblocked"
            /\ UNCHANGED <<head, tail, buf, num_push, po, chead, elt, got,
                           num_pop>>
            /\ UNCHANGED pvars

PeekResume_StaleHead == /\ cpc = "peekblocked"
                        /\ cpc' = "peektest"
                        /\ UNCHANGED <<head, tail, buf, num_push, po, chead,
                                       elt, got, num_pop>>
                        /\ UNCHANGED pvars

PeekResume == /\ cpc = "peekblocked"
              /\ chead' = head
              /\ cpc' = "peektest"
              /\ UNCHANGED <<head, tail, buf, num_push, po, elt, got,
                             num_pop>>
              /\ UNCHANGED pvars

PeekCopy == /\ cpc = "peekcopy"
            /\ elt' = buf[Offset % BUFSZ]
            /\ got' = [op |-> "peek", elt |-> buf[Offset % BUFSZ]]
            /\ cpc' = "peeked"
            /\ UNCHANGED <<head, tail, buf, num_push, po, chead, num_pop>>
            /\ UNCHANGED pvars
-----------------------------------------------------------------------------
Producer == PushBegin \/ PushTest \/ PushResume \/ PushCopy \/ PushPublish

Consumer == \/ PopBegin \/ PopTest \/ PopResume \/ PopCopy \/ PopPublish
            \/ \E o \in 0 .. MaxPeek : PeekBegin(o)
            \/ PeekTest \/ PeekResume \/ PeekCopy

Next == Producer \/ Consumer

Spec == Init /\ [][Next]_vars

(* Every scheduler runs a kernel that is not finished again and again.     *)
Fairness == WF_vars(Producer) /\ WF_vars(Consumer)

FairSpec == Spec /\ Fairness
-----------------------------------------------------------------------------
(* Every position the code computes is the start of an element in s->buf.  *)
TypeOK == /\ head \in Offsets /\ tail \in Offsets
          /\ buf \in [Offsets -> Nat \cup {NoElt}]
          /\ num_push \in 0 .. MaxPush /\ num_pop \in Nat
          /\ ppc \in {"idle", "test", "blocked", "copy", "publish"}
          /\ pnext \in Offsets
          /\ cpc \in {"idle", "test", "blocked", "copy", "publish", "peektest",
                      "peekblocked", "peekcopy", "peeked"}
          /\ po \in 0 .. MaxPeek /\ chead \in Offsets
          /\ elt \in Nat \cup {NoElt}
          /\ got \in [op : {"none", "pop", "peek"}, elt : Nat \cup {NoElt}]

(* The element numbered k lives at this offset.                            *)
SlotOf(k) == (k % SLOTS) * ELMSZ

(***************************************************************************)
(* Every element that was published and not yet popped is still in its     *)
(* place: no push ever overwrites data the consumer has not taken, and the *)
(* ring never holds more than SLOTS - 1 elements.                          *)
(***************************************************************************)
Unread == /\ num_pop <= num_push
          /\ num_push - num_pop < SLOTS
          /\ \A k \in num_pop .. num_push - 1 : buf[SlotOf(k)] = k

(***************************************************************************)
(* The two unlocked memcpy of push and pop or peek never touch the same    *)
(* element at the same time.                                               *)
(***************************************************************************)
ReadsAt == CASE cpc = "copy" -> {tail}
             [] cpc = "peekcopy" -> {Offset % BUFSZ}
             [] OTHER -> {}

NoTornCopy == ppc = "copy" => head \notin ReadsAt

(***************************************************************************)
(* Why the two invariants above hold, as one inductive invariant: where    *)
(* head and tail stand, and what each side has established at each point   *)
(* of its operation and the other side can no longer undo.                 *)
(***************************************************************************)
Positions == head = SlotOf(num_push) /\ tail = SlotOf(num_pop)

PushLocals ==
  /\ ppc # "idle" => num_push < MaxPush /\ pnext = SlotOf(num_push + 1)
  /\ ppc \in {"copy", "publish"} => num_push - num_pop < SLOTS - 1
  /\ ppc = "publish" => buf[head] = num_push

PopLocals ==
  /\ cpc \in {"copy", "publish"} => num_pop < num_push
  /\ cpc = "publish" => elt = num_pop

PeekLocals ==
  /\ cpc = "peektest" =>
       \E h \in num_pop .. num_push : chead = SlotOf(h)
  /\ cpc = "peekcopy" => num_pop + po < num_push

IInv == /\ TypeOK /\ Unread
        /\ Positions /\ PushLocals /\ PopLocals /\ PeekLocals

(***************************************************************************)
(* What the consuming kernel is handed is the oldest element for a pop and *)
(* the o-th oldest for a peek: the ring implements BoundedFifo.            *)
(***************************************************************************)
Contents == [i \in 1 .. num_push - num_pop |->
               buf[(tail + (i - 1) * ELMSZ) % BUFSZ]]

Fifo == INSTANCE BoundedFifo WITH Capacity <- SLOTS - 1,
                                  queue <- Contents, sent <- num_push

ImplementsFifo == Fifo!Spec

(***************************************************************************)
(* A kernel that peeks no further than the ring can hold never leaves the  *)
(* two sides waiting for each other: the producer gets rid of all of its   *)
(* elements, and each one that is followed by enough others to fill the    *)
(* peek window is popped.                                                  *)
(***************************************************************************)
AllPopped == <>(num_push = MaxPush /\ num_pop >= MaxPush - MaxPeek)
=============================================================================
