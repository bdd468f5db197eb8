--------------------------- MODULE Stream_proofs ---------------------------
(***************************************************************************)
(* TLAPS proofs about streams: the ring (StreamRing), for every element    *)
(* size, number of slots, peek window and number of pushes, and the end of *)
(* a stream (StreamEnd), for every capacity.                               *)
(*                                                                         *)
(* The byte offsets of the code are tied to element numbers by SlotOf; the *)
(* arithmetic lemmas reduce every test of the code on head and tail to a   *)
(* comparison of element numbers, and the inductive invariant IInv of the  *)
(* ring is stated in those numbers.                                        *)
(***************************************************************************)
EXTENDS StreamRing, StreamEnd, Sequences, TLAPS
-----------------------------------------------------------------------------
(* Arithmetic of a ring.                                                   *)

(* Division with remainder.                                                *)
LEMMA DivMod ==
  ASSUME NEW k \in Nat, NEW m \in Nat \ {0}
  PROVE  /\ k % m \in 0 .. m - 1
         /\ k = m * (k \div m) + (k % m)
         /\ k \div m \in Nat
OBVIOUS

(* The remainder is determined by the quotient.                            *)
LEMMA ModUnique ==
  ASSUME NEW m \in Nat \ {0}, NEW q \in Nat, NEW r \in 0 .. m - 1
  PROVE  (m * q + r) % m = r
OBVIOUS

(* The remainder of a number that wraps around at most once.               *)
LEMMA ModSmall ==
  ASSUME NEW m \in Nat \ {0}, NEW a \in Nat, a < 2 * m
  PROVE  a % m = IF a < m THEN a ELSE a - m
OBVIOUS

(* Advancing by at most one turn wraps around at most once.                *)
LEMMA ModAdd ==
  ASSUME NEW m \in Nat \ {0}, NEW k \in Nat, NEW d \in 0 .. m
  PROVE  (k + d) % m = IF (k % m) + d < m THEN (k % m) + d
                                          ELSE (k % m) + d - m
<1>1. PICK q \in Nat, r \in 0 .. m - 1 : k = m * q + r /\ r = k % m
  BY DivMod
<1>2. m * (q + 1) = m * q + m
  OBVIOUS
<1>3. CASE r + d < m
  <2>1. k + d = m * q + (r + d)
    BY <1>1
  <2>2. (m * q + (r + d)) % m = r + d
    BY <1>3, ModUnique
  <2>3. QED
    BY <2>1, <2>2, <1>3, <1>1
<1>4. CASE ~(r + d < m)
  <2> DEFINE t == r + d - m
  <2>1. k + d = (m * q + m) + t
    BY <1>1
  <2>2. t \in 0 .. m - 1
    BY <1>1, <1>4
  <2> HIDE DEF t
  <2>3. (m * (q + 1) + t) % m = t
    BY <2>2, ModUnique
  <2>4. (k + d) % m = t
    BY <2>1, <2>3, <1>2
  <2>5. QED
    BY <2>4, <1>4, <1>1 DEF t
<1>5. QED
  BY <1>3, <1>4

(* Scaling by the element size keeps order and equality.                   *)
LEMMA Scale ==
  ASSUME NEW a \in Nat, NEW b \in Nat
  PROVE  /\ a * ELMSZ \in Nat
         /\ (a * ELMSZ < b * ELMSZ) <=> (a < b)
         /\ (a * ELMSZ = b * ELMSZ) <=> (a = b)
         /\ a * ELMSZ + b * ELMSZ = (a + b) * ELMSZ
BY RingAssumption

(* The buffer is not empty.                                                *)
LEMMA BufferSize == BUFSZ \in Nat \ {0} /\ BUFSZ = SLOTS * ELMSZ
BY RingAssumption DEF BUFSZ

(* An element lives at one of the offsets of the buffer.                   *)
LEMMA SlotType ==
  ASSUME NEW k \in Nat
  PROVE  SlotOf(k) \in Offsets /\ SlotOf(k) \in Nat /\ k % SLOTS \in 0 .. SLOTS - 1
<1>1. k % SLOTS \in 0 .. SLOTS - 1
  BY RingAssumption, DivMod
<1>2. QED
  BY <1>1, Scale DEF SlotOf, Offsets

(* The code's (position + d * ELMSZ) % BUFSZ is the position d elements    *)
(* further on.                                                             *)
LEMMA SlotAdd ==
  ASSUME NEW k \in Nat, NEW d \in 0 .. SLOTS
  PROVE  (SlotOf(k) + d * ELMSZ) % BUFSZ = SlotOf(k + d)
<1> DEFINE r == k % SLOTS
<1>1. r \in 0 .. SLOTS - 1
  BY SlotType
<1>2. (k + d) % SLOTS = IF r + d < SLOTS THEN r + d ELSE r + d - SLOTS
  BY ModAdd, RingAssumption
<1> HIDE DEF r
<1>3. SlotOf(k) + d * ELMSZ = (r + d) * ELMSZ
  BY <1>1, Scale, RingAssumption DEF SlotOf, r
<1>4. ((r + d) * ELMSZ) \in Nat /\ (r + d) * ELMSZ < 2 * BUFSZ
  <2>1. r + d < 2 * SLOTS /\ r + d \in Nat /\ 2 * SLOTS \in Nat
    BY <1>1, RingAssumption
  <2>2. (r + d) * ELMSZ < (2 * SLOTS) * ELMSZ
    BY <2>1, Scale
  <2>3. (2 * SLOTS) * ELMSZ = 2 * (SLOTS * ELMSZ)
    BY RingAssumption
  <2>4. QED
    BY <2>1, <2>2, <2>3, Scale, BufferSize
<1>5. ((r + d) * ELMSZ) % BUFSZ =
        IF (r + d) * ELMSZ < BUFSZ THEN (r + d) * ELMSZ
                                   ELSE (r + d) * ELMSZ - BUFSZ
  BY <1>4, BufferSize, ModSmall
<1>6. (r + d) * ELMSZ < BUFSZ <=> r + d < SLOTS
  BY <1>1, Scale, BufferSize, RingAssumption
<1>7. ASSUME ~(r + d < SLOTS)
      PROVE  (r + d) * ELMSZ - BUFSZ = (r + d - SLOTS) * ELMSZ
  <2>1. r + d - SLOTS \in Nat
    BY <1>1, <1>7, RingAssumption
  <2>2. (r + d - SLOTS) * ELMSZ + SLOTS * ELMSZ = (r + d - SLOTS + SLOTS) * ELMSZ
    BY <2>1, Scale, RingAssumption
  <2>3. r + d - SLOTS + SLOTS = r + d
    BY <1>1, RingAssumption
  <2>4. QED
    BY <2>1, <2>2, <2>3, Scale, BufferSize, RingAssumption
<1>8. QED
  BY <1>2, <1>3, <1>5, <1>6, <1>7 DEF SlotOf

(* Two elements less than one turn apart: where they are in the buffer.    *)
LEMMA SlotGap ==
  ASSUME NEW k \in Nat, NEW w \in Nat, k <= w, w - k < SLOTS
  PROVE  w % SLOTS = IF (k % SLOTS) + (w - k) < SLOTS
                     THEN (k % SLOTS) + (w - k)
                     ELSE (k % SLOTS) + (w - k) - SLOTS
<1>1. PICK d \in 0 .. SLOTS : w = k + d /\ d = w - k
  BY RingAssumption
<1>2. (k + d) % SLOTS = IF (k % SLOTS) + d < SLOTS THEN (k % SLOTS) + d
                                                 ELSE (k % SLOTS) + d - SLOTS
  BY ModAdd, RingAssumption
<1>3. QED
  BY ONLY <1>1, <1>2, RingAssumption

(* Two elements less than one turn apart live at different offsets.        *)
LEMMA SlotDistinct ==
  ASSUME NEW k \in Nat, NEW w \in Nat, k < w, w - k < SLOTS
  PROVE  SlotOf(k) # SlotOf(w)
<1>1. k % SLOTS # w % SLOTS
  <2>1. PICK a \in 0 .. SLOTS - 1 : a = k % SLOTS
    BY SlotType
  <2>2. w % SLOTS = IF a + (w - k) < SLOTS THEN a + (w - k)
                                           ELSE a + (w - k) - SLOTS
    BY <2>1, SlotGap
  <2>3. w % SLOTS # a
    BY <2>2, RingAssumption
  <2>4. QED
    BY <2>1, <2>3
<1>2. QED
  BY <1>1, Scale, SlotType DEF SlotOf

(* peek's test on byte positions holds exactly when the element o places   *)
(* behind the tail was pushed, for every head between p and p + SLOTS - 1. *)
LEMMA PeekExact ==
  ASSUME NEW p \in Nat, NEW h \in Nat, p <= h, h - p < SLOTS, NEW o \in Nat
  PROVE  (\/ SlotOf(p) < SlotOf(h) /\ SlotOf(p) + o * ELMSZ < SlotOf(h)
          \/ SlotOf(p) > SlotOf(h) /\ SlotOf(p) + o * ELMSZ < SlotOf(h) + BUFSZ)
         <=> o < h - p
<1>1. PICK a \in 0 .. SLOTS - 1 : a = p % SLOTS /\ SlotOf(p) = a * ELMSZ
  BY SlotType DEF SlotOf
<1>2. PICK b \in 0 .. SLOTS - 1 : b = h % SLOTS /\ SlotOf(h) = b * ELMSZ
  BY SlotType DEF SlotOf
<1>3. b = IF a + (h - p) < SLOTS THEN a + (h - p) ELSE a + (h - p) - SLOTS
  BY <1>1, <1>2, SlotGap
<1>4. /\ SlotOf(p) < SlotOf(h) <=> a < b
      /\ SlotOf(p) > SlotOf(h) <=> a > b
      /\ SlotOf(p) + o * ELMSZ < SlotOf(h) <=> a + o < b
      /\ SlotOf(p) + o * ELMSZ < SlotOf(h) + BUFSZ <=> a + o < b + SLOTS
  <2>1. SlotOf(p) + o * ELMSZ = (a + o) * ELMSZ
    BY <1>1, Scale
  <2>2. SlotOf(h) + BUFSZ = (b + SLOTS) * ELMSZ
    BY <1>2, Scale, BufferSize, RingAssumption
  <2>3. a * ELMSZ \in Nat /\ b * ELMSZ \in Nat
    BY Scale
  <2>4. (a * ELMSZ < b * ELMSZ <=> a < b) /\ (b * ELMSZ < a * ELMSZ <=> b < a)
    BY Scale
  <2>5. (a + o) * ELMSZ < b * ELMSZ <=> a + o < b
    <3>1. a + o \in Nat /\ b \in Nat
      OBVIOUS
    <3>2. QED
      BY ONLY <3>1, Scale
  <2>6. (a + o) * ELMSZ < (b + SLOTS) * ELMSZ <=> a + o < b + SLOTS
    <3>1. a + o \in Nat /\ b + SLOTS \in Nat
      BY RingAssumption
    <3>2. QED
      BY ONLY <3>1, Scale
  <2>7. QED
    BY <1>1, <1>2, <2>1, <2>2, <2>3, <2>4, <2>5, <2>6
<1>5. QED
  BY <1>3, <1>4, RingAssumption
-----------------------------------------------------------------------------
(* The inductive invariant.                                                *)

(* Pushing an element whose slot no unread element occupies keeps them.    *)
LEMMA UnreadSlots ==
  ASSUME IInv, NEW k \in num_pop .. num_push - 1
  PROVE  /\ k \in Nat /\ SlotOf(k) \in Offsets
         /\ SlotOf(k) # head
<1>1. k \in Nat /\ k < num_push /\ num_push - k < SLOTS /\ num_push \in Nat
  BY RingAssumption DEF IInv, TypeOK, Unread
<1>2. QED
  BY <1>1, SlotDistinct, SlotType DEF IInv, Positions

(* The empty ring of new_skir_stream_t satisfies the invariant.            *)
LEMMA InitIInv == Init => IInv
<1> SUFFICES ASSUME Init PROVE IInv
  OBVIOUS
<1>1. 0 % SLOTS = 0 /\ SlotOf(0) = 0 /\ 0 \in Offsets
  <2>1. 0 % SLOTS = 0
    BY RingAssumption
  <2>2. SlotOf(0) = 0
    BY <2>1, RingAssumption DEF SlotOf
  <2>3. QED
    BY <2>1, <2>2, SlotType
<1>2. TypeOK
  BY <1>1, RingAssumption DEF Init, TypeOK, NoElt
<1>3. Unread /\ Positions
  BY <1>1, RingAssumption DEF Init, Unread, Positions
<1>4. PushLocals /\ PopLocals /\ PeekLocals
  BY DEF Init, PushLocals, PopLocals, PeekLocals
<1>5. QED
  BY <1>2, <1>3, <1>4 DEF IInv

(* Every step of push, pop and peek keeps it.                              *)
LEMMA NextIInv == IInv /\ [Next]_vars => IInv'
<1> SUFFICES ASSUME IInv, [Next]_vars PROVE IInv'
  OBVIOUS
<1> USE RingAssumption
<1>0. /\ num_push \in Nat /\ num_pop \in Nat /\ num_push + 1 \in Nat
      /\ num_pop + 1 \in Nat
  BY DEF IInv, TypeOK
<1>1. CASE PushBegin
  <2>1. pnext' = SlotOf(num_push + 1)
    <3>1. 1 \in 0 .. SLOTS /\ 1 * ELMSZ = ELMSZ
      OBVIOUS
    <3>2. (SlotOf(num_push) + 1 * ELMSZ) % BUFSZ = SlotOf(num_push + 1)
      BY <1>0, <3>1, SlotAdd
    <3>3. QED
      BY <1>1, <3>1, <3>2 DEF PushBegin, IInv, Positions
  <2>2. TypeOK'
    BY <1>0, <1>1, <2>1, SlotType DEF PushBegin, cvars, IInv, TypeOK
  <2>3. (Unread /\ Positions)'
    BY <1>1 DEF PushBegin, cvars, IInv, Unread, Positions, SlotOf
  <2>4. (PushLocals /\ PopLocals /\ PeekLocals)'
    BY <1>1, <2>1 DEF PushBegin, cvars, IInv, PushLocals, PopLocals,
                      PeekLocals, SlotOf
  <2>5. QED
    BY <2>2, <2>3, <2>4 DEF IInv
<1>2. CASE PushTest
  <2>1. pnext # tail => num_push - num_pop < SLOTS - 1
    <3> SUFFICES ASSUME ~(num_push - num_pop < SLOTS - 1) PROVE pnext = tail
      OBVIOUS
    <3>1. num_push + 1 = num_pop + SLOTS
      BY <1>0 DEF IInv, Unread
    <3>2. SLOTS \in 0 .. SLOTS /\ (num_pop + SLOTS) % SLOTS = num_pop % SLOTS
      <4>1. (num_pop + SLOTS) % SLOTS =
              IF (num_pop % SLOTS) + SLOTS < SLOTS
              THEN (num_pop % SLOTS) + SLOTS
              ELSE (num_pop % SLOTS) + SLOTS - SLOTS
        <5>1. SLOTS \in Nat \ {0} /\ SLOTS \in 0 .. SLOTS
          OBVIOUS
        <5>2. QED
          BY ONLY <1>0, <5>1, ModAdd
      <4>2. QED
        BY <1>0, <4>1, SlotType
    <3>3. QED
      BY <1>2, <3>1, <3>2 DEF PushTest, IInv, PushLocals, Positions, SlotOf
  <2>2. TypeOK'
    BY <1>2 DEF PushTest, cvars, IInv, TypeOK
  <2>3. (Unread /\ Positions)'
    BY <1>2 DEF PushTest, cvars, IInv, Unread, Positions, SlotOf
  <2>4. PushLocals'
    BY <1>2, <2>1 DEF PushTest, cvars, IInv, PushLocals, SlotOf
  <2>5. (PopLocals /\ PeekLocals)'
    BY <1>2 DEF PushTest, cvars, IInv, PopLocals, PeekLocals, SlotOf
  <2>6. QED
    BY <2>2, <2>3, <2>4, <2>5 DEF IInv
<1>3. CASE PushResume
  <2>1. TypeOK' /\ (Unread /\ Positions)'
    BY <1>3 DEF PushResume, cvars, IInv, TypeOK, Unread, Positions, SlotOf
  <2>2. (PushLocals /\ PopLocals /\ PeekLocals)'
    BY <1>3 DEF PushResume, cvars, IInv, PushLocals, PopLocals, PeekLocals,
                SlotOf
  <2>3. QED
    BY <2>1, <2>2 DEF IInv
<1>4. CASE PushCopy
  <2>1. head \in Offsets /\ buf \in [Offsets -> Nat \cup {NoElt}]
    BY DEF IInv, TypeOK
  <2>2. TypeOK'
    BY <1>0, <1>4, <2>1 DEF PushCopy, cvars, IInv, TypeOK
  <2>3. Unread'
    <3>1. ASSUME NEW k \in num_pop .. num_push - 1
          PROVE  buf'[SlotOf(k)] = k
      BY <1>4, <2>1, <3>1, UnreadSlots DEF PushCopy, IInv, Unread
    <3>2. QED
      BY <1>4, <3>1 DEF PushCopy, cvars, IInv, Unread, SlotOf
  <2>4. PushLocals'
    BY <1>4, <2>1 DEF PushCopy, cvars, IInv, PushLocals, SlotOf
  <2>5. (Positions /\ PopLocals /\ PeekLocals)'
    BY <1>4 DEF PushCopy, cvars, IInv, Positions, PopLocals, PeekLocals,
                SlotOf
  <2>6. QED
    BY <2>2, <2>3, <2>4, <2>5 DEF IInv
<1>5. CASE PushPublish
  <2>1. TypeOK'
    BY <1>0, <1>5 DEF PushPublish, cvars, IInv, TypeOK, PushLocals
  <2>2. Positions'
    BY <1>5 DEF PushPublish, cvars, IInv, Positions, PushLocals, SlotOf
  <2>3. Unread'
    <3>1. ASSUME NEW k \in num_pop .. num_push
          PROVE  buf'[SlotOf(k)] = k
      BY <1>0, <1>5, <3>1 DEF PushPublish, IInv, Unread, Positions, PushLocals
    <3>2. num_push' - 1 = num_push
      BY <1>0, <1>5 DEF PushPublish
    <3>3. QED
      BY <1>0, <1>5, <3>1, <3>2
         DEF PushPublish, cvars, IInv, Unread, PushLocals, SlotOf
  <2>4. (PushLocals /\ PopLocals)'
    BY <1>0, <1>5 DEF PushPublish, cvars, IInv, PushLocals, PopLocals
  <2>5. PeekLocals'
    <3>1. \A h \in num_pop .. num_push : h \in num_pop' .. num_push'
      BY <1>0, <1>5 DEF PushPublish, cvars
    <3>2. ASSUME cpc' = "peektest"
          PROVE  \E h \in num_pop' .. num_push' : chead' = SlotOf(h)
      <4>1. PICK h \in num_pop .. num_push : chead = SlotOf(h)
        BY <1>5, <3>2 DEF PushPublish, cvars, IInv, PeekLocals
      <4>2. h \in num_pop' .. num_push' /\ chead' = SlotOf(h)
        BY <1>5, <3>1, <4>1 DEF PushPublish, cvars
      <4>3. QED
        BY <4>2
    <3>3. cpc' = "peekcopy" => num_pop' + po' < num_push'
      BY <1>0, <1>5 DEF PushPublish, cvars, IInv, PeekLocals, TypeOK
    <3>4. QED
      BY <3>2, <3>3 DEF PeekLocals, SlotOf
  <2>6. QED
    BY <2>1, <2>2, <2>3, <2>4, <2>5 DEF IInv
<1>6. CASE PopBegin
  <2>1. TypeOK' /\ (Unread /\ Positions)'
    BY <1>6 DEF PopBegin, pvars, IInv, TypeOK, Unread, Positions, SlotOf
  <2>2. (PushLocals /\ PopLocals /\ PeekLocals)'
    BY <1>6 DEF PopBegin, pvars, IInv, PushLocals, PopLocals, PeekLocals,
                SlotOf
  <2>3. QED
    BY <2>1, <2>2 DEF IInv
<1>7. CASE PopTest
  <2>1. head # tail => num_pop < num_push
    BY <1>0 DEF IInv, Unread, Positions
  <2>2. TypeOK' /\ (Unread /\ Positions)'
    BY <1>7 DEF PopTest, pvars, IInv, TypeOK, Unread, Positions, SlotOf
  <2>3. (PushLocals /\ PopLocals /\ PeekLocals)'
    BY <1>7, <2>1 DEF PopTest, pvars, IInv, PushLocals, PopLocals, PeekLocals,
                      SlotOf
  <2>4. QED
    BY <2>2, <2>3 DEF IInv
<1>8. CASE PopResume
  <2>1. TypeOK' /\ (Unread /\ Positions)'
    BY <1>8 DEF PopResume, pvars, IInv, TypeOK, Unread, Positions, SlotOf
  <2>2. (PushLocals /\ PopLocals /\ PeekLocals)'
    BY <1>8 DEF PopResume, pvars, IInv, PushLocals, PopLocals, PeekLocals,
                SlotOf
  <2>3. QED
    BY <2>1, <2>2 DEF IInv
<1>9. CASE PopCopy
  <2>1. buf[tail] = num_pop
    BY <1>0, <1>9 DEF PopCopy, IInv, PopLocals, Positions, Unread
  <2>2. TypeOK' /\ (Unread /\ Positions)'
    BY <1>0, <1>9, <2>1 DEF PopCopy, pvars, IInv, TypeOK, Unread, Positions,
                            SlotOf
  <2>3. (PushLocals /\ PopLocals /\ PeekLocals)'
    BY <1>9, <2>1 DEF PopCopy, pvars, IInv, PushLocals, PopLocals, PeekLocals,
                      SlotOf
  <2>4. QED
    BY <2>2, <2>3 DEF IInv
<1>10. CASE PopPublish
  <2>1. tail' = SlotOf(num_pop + 1)
    <3>1. 1 \in 0 .. SLOTS /\ 1 * ELMSZ = ELMSZ
      OBVIOUS
    <3>2. (SlotOf(num_pop) + 1 * ELMSZ) % BUFSZ = SlotOf(num_pop + 1)
      BY <1>0, <3>1, SlotAdd
    <3>3. QED
      BY <1>10, <3>1, <3>2 DEF PopPublish, IInv, Positions
  <2>2. TypeOK'
    BY <1>0, <1>10, <2>1, SlotType DEF PopPublish, pvars, IInv, TypeOK
  <2>3. Unread'
    BY <1>0, <1>10 DEF PopPublish, pvars, IInv, Unread, PopLocals, SlotOf
  <2>4. Positions'
    BY <1>10, <2>1 DEF PopPublish, IInv, Positions, SlotOf
  <2>5. (PushLocals /\ PopLocals /\ PeekLocals)'
    BY <1>0, <1>10 DEF PopPublish, pvars, IInv, PushLocals, PopLocals,
                       PeekLocals, SlotOf
  <2>6. QED
    BY <2>2, <2>3, <2>4, <2>5 DEF IInv
<1>11. ASSUME NEW o \in 0 .. MaxPeek, PeekBegin(o)
       PROVE  IInv'
  <2>1. TypeOK' /\ (Unread /\ Positions)'
    BY <1>11 DEF PeekBegin, pvars, IInv, TypeOK, Unread, Positions, SlotOf
  <2>2. PeekLocals'
    <3>1. num_push \in num_pop .. num_push
      BY <1>0 DEF IInv, Unread
    <3>2. QED
      BY <1>11, <3>1 DEF PeekBegin, IInv, PeekLocals, Positions, SlotOf
  <2>3. (PushLocals /\ PopLocals)'
    BY <1>11 DEF PeekBegin, pvars, IInv, PushLocals, PopLocals, SlotOf
  <2>4. QED
    BY <2>1, <2>2, <2>3 DEF IInv
<1>12. CASE PeekTest
  <2>1. PeekReady(chead) => num_pop + po < num_push
    <3>1. PICK h \in num_pop .. num_push : chead = SlotOf(h)
      BY <1>12 DEF PeekTest, IInv, PeekLocals
    <3>2. h \in Nat /\ num_pop <= h /\ h <= num_push /\ h - num_pop < SLOTS
      BY <1>0, <3>1 DEF IInv, Unread
    <3>3. po \in Nat
      BY DEF IInv, TypeOK
    <3>4. PeekReady(chead) <=> po < h - num_pop
      BY <1>0, <3>1, <3>2, <3>3, PeekExact
         DEF PeekReady, Offset, IInv, Positions
    <3>5. QED
      BY <1>0, <3>2, <3>3, <3>4
  <2>2. TypeOK' /\ (Unread /\ Positions)'
    BY <1>12 DEF PeekTest, pvars, IInv, TypeOK, Unread, Positions, SlotOf
  <2>3. (PushLocals /\ PopLocals /\ PeekLocals)'
    BY <1>12, <2>1 DEF PeekTest, pvars, IInv, PushLocals, PopLocals,
                       PeekLocals, SlotOf
  <2>4. QED
    BY <2>2, <2>3 DEF IInv
<1>13. CASE PeekResume
  <2>1. TypeOK' /\ (Unread /\ Positions)'
    BY <1>13 DEF PeekResume, pvars, IInv, TypeOK, Unread, Positions, SlotOf
  <2>2. PeekLocals'
    <3>1. num_push \in num_pop .. num_push
      BY <1>0 DEF IInv, Unread
    <3>2. QED
      BY <1>13, <3>1 DEF PeekResume, IInv, PeekLocals, Positions, SlotOf
  <2>3. (PushLocals /\ PopLocals)'
    BY <1>13 DEF PeekResume, pvars, IInv, PushLocals, PopLocals, SlotOf
  <2>4. QED
    BY <2>1, <2>2, <2>3 DEF IInv
<1>14. CASE PeekCopy
  <2>1. Offset % BUFSZ \in Offsets
    <3>1. po \in 0 .. SLOTS /\ num_pop + po \in Nat
      BY <1>0, <1>14 DEF PeekCopy, IInv, TypeOK, PeekLocals, Unread
    <3>2. QED
      BY <1>0, <3>1, SlotAdd, SlotType DEF Offset, IInv, Positions
  <2>2. TypeOK'
    BY <1>14, <2>1 DEF PeekCopy, pvars, IInv, TypeOK
  <2>3. (Unread /\ Positions)'
    BY <1>14 DEF PeekCopy, pvars, IInv, Unread, Positions, SlotOf
  <2>4. (PushLocals /\ PopLocals /\ PeekLocals)'
    BY <1>14 DEF PeekCopy, pvars, IInv, PushLocals, PopLocals, PeekLocals,
                 SlotOf
  <2>5. QED
    BY <2>2, <2>3, <2>4 DEF IInv
<1>15. CASE UNCHANGED vars
  <2>1. TypeOK' /\ (Unread /\ Positions)'
    BY <1>15 DEF vars, IInv, TypeOK, Unread, Positions, SlotOf
  <2>2. (PushLocals /\ PopLocals /\ PeekLocals)'
    BY <1>15 DEF vars, IInv, PushLocals, PopLocals, PeekLocals, SlotOf
  <2>3. QED
    BY <2>1, <2>2 DEF IInv
<1>16. QED
  BY <1>1, <1>2, <1>3, <1>4, <1>5, <1>6, <1>7, <1>8, <1>9, <1>10, <1>11,
     <1>12, <1>13, <1>14, <1>15 DEF Next, Producer, Consumer

(* The facts that hold at every point of push, pop and peek hold always.   *)
THEOREM Invariance == Spec => []IInv
<1>1. QED
  BY InitIInv, NextIInv, PTL DEF Spec

(* Every variable of the ring keeps its type: in particular head and tail  *)
(* never leave the buffer and always stand at the start of an element.     *)
THEOREM TypeCorrect == Spec => []TypeOK
<1>1. IInv => TypeOK
  BY DEF IInv
<1>2. QED
  BY <1>1, Invariance, PTL

(* push never overwrites an element that pop has not taken yet.            *)
THEOREM NoOverwrite == Spec => []Unread
<1>1. IInv => Unread
  BY DEF IInv
<1>2. QED
  BY <1>1, Invariance, PTL

(* The unlocked copies of push and of pop or peek never meet in a slot.    *)
THEOREM CopiesApart == Spec => []NoTornCopy
<1>1. IInv => NoTornCopy
  <2> SUFFICES ASSUME IInv, ppc = "copy", head \in ReadsAt PROVE FALSE
    BY DEF NoTornCopy
  <2>1. /\ num_push \in Nat /\ num_pop \in Nat /\ po \in Nat
        /\ num_push - num_pop < SLOTS
    BY RingAssumption DEF IInv, TypeOK, Unread
  <2>2. CASE cpc = "copy"
    <3>1. SlotOf(num_pop) # SlotOf(num_push)
      BY <2>1, <2>2, SlotDistinct DEF IInv, PopLocals
    <3>2. QED
      BY <2>2, <3>1 DEF ReadsAt, IInv, Positions
  <2>3. CASE cpc = "peekcopy"
    <3>1. num_pop + po < num_push /\ num_pop + po \in Nat /\ po \in 0 .. SLOTS
      BY <2>1, <2>3, RingAssumption DEF IInv, PeekLocals
    <3>2. SlotOf(num_pop + po) # SlotOf(num_push)
      <4>1. num_push - (num_pop + po) < SLOTS
        BY <2>1, RingAssumption
      <4>2. QED
        BY <2>1, <3>1, <4>1, SlotDistinct
    <3>3. Offset % BUFSZ = SlotOf(num_pop + po)
      BY <2>1, <3>1, SlotAdd DEF Offset, IInv, Positions
    <3>4. QED
      BY <2>3, <3>2, <3>3 DEF ReadsAt, IInv, Positions
  <2>4. QED
    BY <2>2, <2>3 DEF ReadsAt
<1>2. QED
  BY <1>1, Invariance, PTL
-----------------------------------------------------------------------------
(* The ring implements BoundedFifo.                                        *)

(* The n elements from number a on.                                        *)
Window(a, n) == [i \in 1 .. n |-> a + i - 1]

(* A queue of consecutive numbers.                                         *)
LEMMA WindowFacts ==
  ASSUME NEW a \in Nat, NEW n \in Nat
  PROVE  /\ Window(a, n) \in Seq(Nat) /\ Len(Window(a, n)) = n
         /\ n = 0 => Window(a, n) = <<>>
         /\ n # 0 => Window(a, n) # <<>>
         /\ Append(Window(a, n), a + n) = Window(a, n + 1)
         /\ n > 0 => Head(Window(a, n)) = a /\ Tail(Window(a, n)) = Window(a + 1, n - 1)
         /\ \A o \in 0 .. n - 1 : Window(a, n)[o + 1] = a + o
<1>1. Window(a, n) \in Seq(Nat) /\ Len(Window(a, n)) = n /\ DOMAIN Window(a, n) = 1 .. n
  BY DEF Window
<1>2. n = 0 => Window(a, n) = <<>>
  BY DEF Window
<1>3. n # 0 => Window(a, n) # <<>>
  BY <1>1
<1>4. Append(Window(a, n), a + n) = Window(a, n + 1)
  <2> DEFINE A == Append(Window(a, n), a + n)
  <2>1. Len(A) = n + 1 /\ A \in Seq(Nat) /\ \A i \in 1 .. n + 1 : A[i] = a + i - 1
    BY <1>1 DEF Window
  <2>2. QED
    BY <2>1 DEF Window
<1>5. ASSUME n > 0
      PROVE  Head(Window(a, n)) = a /\ Tail(Window(a, n)) = Window(a + 1, n - 1)
  <2> DEFINE T == Tail(Window(a, n))
  <2>1. Head(Window(a, n)) = a
    BY <1>1, <1>5 DEF Window
  <2>2. T \in Seq(Nat) /\ Len(T) = n - 1 /\ \A i \in 1 .. n - 1 : T[i] = (a + 1) + i - 1
    BY <1>1, <1>5 DEF Window
  <2> HIDE DEF T
  <2>3. T = [i \in 1 .. n - 1 |-> T[i]]
    BY <2>2
  <2>4. T = Window(a + 1, n - 1)
    BY <2>2, <2>3 DEF Window
  <2>5. QED
    BY <2>1, <2>4 DEF T
<1>6. \A o \in 0 .. n - 1 : Window(a, n)[o + 1] = a + o
  BY DEF Window
<1>7. QED
  BY <1>1, <1>2, <1>3, <1>4, <1>5, <1>6

(* The channel of BoundedFifo holds the elements pushed and not popped.    *)
LEMMA ContentsAre ==
  ASSUME IInv
  PROVE  /\ num_pop \in Nat /\ num_push \in Nat /\ num_push - num_pop \in 0 .. SLOTS - 1
         /\ Contents = Window(num_pop, num_push - num_pop)
<1>1. num_pop \in Nat /\ num_push \in Nat /\ num_push - num_pop \in 0 .. SLOTS - 1
  BY RingAssumption DEF IInv, TypeOK, Unread
<1>2. ASSUME NEW i \in 1 .. num_push - num_pop
      PROVE  buf[(tail + (i - 1) * ELMSZ) % BUFSZ] = num_pop + i - 1
  <2>1. PICK d \in 0 .. SLOTS : d = i - 1 /\ d < num_push - num_pop
    BY <1>1, RingAssumption
  <2>2. (tail + d * ELMSZ) % BUFSZ = SlotOf(num_pop + d)
    BY <1>1, SlotAdd DEF IInv, Positions
  <2>3. num_pop + d \in num_pop .. num_push - 1
    BY <1>1, <2>1
  <2>4. buf[SlotOf(num_pop + d)] = num_pop + d
    BY <2>3 DEF IInv, Unread
  <2>5. QED
    BY <1>1, <2>1, <2>2, <2>4
<1>3. QED
  BY <1>1, <1>2 DEF Contents, Window

(* Every step of the ring is a step of the channel or changes nothing in   *)
(* it: push puts at Publish, pop gets at Publish, peek looks when it copies.*)
LEMMA FifoStep == IInv /\ [Next]_vars => [Fifo!Next]_(Fifo!vars)
<1> SUFFICES ASSUME IInv, [Next]_vars PROVE [Fifo!Next]_(Fifo!vars)
  OBVIOUS
<1> DEFINE d == num_push - num_pop
<1>1. IInv'
  BY NextIInv
<1>2. /\ num_pop \in Nat /\ num_push \in Nat /\ d \in 0 .. SLOTS - 1 /\ d \in Nat
      /\ Contents = Window(num_pop, d)
  BY RingAssumption, ContentsAre
<1>3. Contents' = Window(num_pop', num_push' - num_pop')
  <2>1. (IInv => Contents = Window(num_pop, num_push - num_pop))'
    BY ContentsAre, PTL
  <2>2. QED
    BY <1>1, <2>1 DEF Window
<1>4. CASE UNCHANGED <<num_push, num_pop, got>>
  <2>1. Contents' = Contents
    BY <1>2, <1>3, <1>4
  <2>2. QED
    BY <1>4, <2>1 DEF Fifo!vars
<1>5. CASE PushPublish
  <2>1. /\ num_push' = num_push + 1 /\ num_pop' = num_pop /\ got' = got
        /\ num_push < MaxPush /\ d < SLOTS - 1
    BY <1>2, <1>5 DEF PushPublish, cvars, IInv, PushLocals
  <2>2. num_push' - num_pop' = d + 1 /\ num_pop + d = num_push
    BY <1>2, <2>1
  <2>3. Contents' = Append(Contents, num_push)
    <3> HIDE DEF d
    <3>1. Append(Window(num_pop, d), num_pop + d) = Window(num_pop, d + 1)
      BY ONLY <1>2, WindowFacts
    <3>2. Contents' = Window(num_pop, d + 1)
      BY ONLY <1>3, <2>1, <2>2
    <3>3. QED
      BY ONLY <1>2, <2>2, <3>1, <3>2
  <2>4. Len(Contents) < SLOTS - 1
    BY <1>2, <2>1, WindowFacts
  <2>5. QED
    BY <2>1, <2>3, <2>4 DEF Fifo!Next, Fifo!Put
<1>6. CASE PopPublish
  <2>1. /\ num_push' = num_push /\ num_pop' = num_pop + 1 /\ num_pop < num_push
        /\ got' = [op |-> "pop", elt |-> num_pop]
    BY <1>6 DEF PopPublish, IInv, PopLocals
  <2>2. num_push' - num_pop' = d - 1 /\ d > 0
    BY <1>2, <2>1
  <2>3. Contents' = Tail(Contents) /\ Head(Contents) = num_pop /\ Contents # <<>>
    <3> HIDE DEF d
    <3>1. /\ Head(Window(num_pop, d)) = num_pop /\ Window(num_pop, d) # <<>>
          /\ Tail(Window(num_pop, d)) = Window(num_pop + 1, d - 1)
      <4>1. num_pop \in Nat /\ d \in Nat /\ d > 0 /\ d # 0
        BY <1>2, <2>2
      <4>2. QED
        BY ONLY <4>1, WindowFacts
    <3>2. QED
      BY <1>2, <1>3, <2>1, <2>2, <3>1
  <2>4. QED
    BY <2>1, <2>3 DEF Fifo!Next, Fifo!Get
<1>7. CASE PeekCopy
  <2>1. /\ num_push' = num_push /\ num_pop' = num_pop /\ num_pop + po < num_push
        /\ got' = [op |-> "peek", elt |-> buf[Offset % BUFSZ]]
    BY <1>7 DEF PeekCopy, IInv, PeekLocals
  <2>2. po \in Nat /\ po < d /\ po \in 0 .. d - 1
    BY <1>2, <2>1 DEF IInv, TypeOK
  <2>3. buf[Offset % BUFSZ] = num_pop + po
    <3>1. po \in 0 .. SLOTS /\ num_pop + po \in num_pop .. num_push - 1
      BY <1>2, <2>1, <2>2, RingAssumption
    <3>2. Offset % BUFSZ = SlotOf(num_pop + po)
      BY <1>2, <3>1, SlotAdd DEF Offset, IInv, Positions
    <3>3. QED
      BY <3>1, <3>2 DEF IInv, Unread
  <2>4. Contents[po + 1] = num_pop + po /\ po < Len(Contents)
    BY <1>2, <2>2, WindowFacts
  <2>5. Contents' = Contents
    BY <1>2, <1>3, <2>1
  <2>6. po \in 0 .. (SLOTS - 1) - 1
    BY <1>2, <2>2, RingAssumption
  <2>7. Fifo!Look(po)
    BY <2>1, <2>3, <2>4, <2>5 DEF Fifo!Look
  <2>8. QED
    BY <2>6, <2>7 DEF Fifo!Next
<1>8. CASE PushBegin \/ PushTest \/ PushResume \/ PushCopy
  BY <1>4, <1>8 DEF PushBegin, PushTest, PushResume, PushCopy, cvars
<1>9. CASE \/ PopBegin \/ PopTest \/ PopResume \/ PopCopy \/ PeekTest \/ PeekResume
           \/ \E o \in 0 .. MaxPeek : PeekBegin(o)
  BY <1>4, <1>9 DEF PopBegin, PopTest, PopResume, PopCopy, PeekTest, PeekResume, PeekBegin
<1>10. CASE UNCHANGED vars
  BY <1>4, <1>10 DEF vars
<1>11. QED
  BY <1>5, <1>6, <1>7, <1>8, <1>9, <1>10 DEF Next, Producer, Consumer

(***************************************************************************)
(* The ring is a first-in first-out channel of SLOTS - 1 elements: a pop   *)
(* hands out the oldest element and a peek the o-th oldest, although       *)
(* neither side takes a lock and every operation is several steps.         *)
(***************************************************************************)
THEOREM RingIsFifo == Spec => ImplementsFifo
<1>1. Init => Fifo!Init
  <2> SUFFICES ASSUME Init PROVE Fifo!Init
    OBVIOUS
  <2>1. Contents = <<>>
    <3>1. IInv /\ num_pop = 0 /\ num_push - num_pop = 0
      BY InitIInv DEF Init
    <3>2. Contents = Window(0, 0)
      BY <3>1, ContentsAre
    <3>3. QED
      BY <3>2, WindowFacts
  <2>2. QED
    BY <2>1 DEF Init, Fifo!Init, Fifo!None
<1>2. QED
  BY <1>1, FifoStep, Invariance, PTL DEF Spec, ImplementsFifo, Fifo!Spec
-----------------------------------------------------------------------------
(* The end of a stream (StreamEnd), for every capacity and whatever makes  *)
(* the two kernels finish.                                                 *)

(* The two ends of a stream.                                               *)
LEMMA EndsFacts ==
  /\ "src" \in Ends /\ "dst" \in Ends
  /\ \A r \in Ends : r = "src" \/ r = "dst"
  /\ \A r \in Ends : Other(r) \in Ends /\ Other(r) # r
  /\ \A r, t \in Ends : t = r \/ t = Other(r)
BY DEF Ends, Other

(* A stream that was just allocated satisfies the invariant.               *)
LEMMA InitEndInv == EndInit => EndInv
BY StreamEndAssumption, EndsFacts
   DEF EndInit, EndInv, EndTypeOK, Marked, SeenOther, Past

(* A tested stream operation keeps the number of elements between none and *)
(* Cap.                                                                    *)
LEMMA OperateEndTypeOK ==
  ASSUME EndTypeOK, NEW r \in Ends, Operate(r)
  PROVE  EndTypeOK'
<1>1. CASE Stuck(r)
  BY <1>1, StreamEndAssumption, EndsFacts DEF EndTypeOK, Operate, Goto
<1>2. CASE ~Stuck(r)
  <2>1. /\ moved' = [moved EXCEPT ![r] = @ + 1]
        /\ freed' = freed /\ mark' = mark /\ limit' = limit
    BY <1>2 DEF Operate
  <2>2. moved' \in [Ends -> Nat]
    BY <2>1 DEF EndTypeOK
  <2>3. pc' \in [Ends -> {"test", "blocked", "mark", "check", "free",
                          "unlock", "ended"}]
    BY <1>2 DEF Operate, Goto, EndTypeOK
  <2>4. moved'["src"] - moved'["dst"] \in 0 .. Cap
    <3>1. CASE r = "src"
      <4>1. moved'["src"] = moved["src"] + 1 /\ moved'["dst"] = moved["dst"]
        BY <2>1, <3>1, EndsFacts DEF EndTypeOK
      <4>2. moved["src"] - moved["dst"] # Cap
        BY <1>2, <3>1 DEF Stuck
      <4>3. QED
        BY <4>1, <4>2, StreamEndAssumption, EndsFacts DEF EndTypeOK
    <3>2. CASE r = "dst"
      <4>1. moved'["dst"] = moved["dst"] + 1 /\ moved'["src"] = moved["src"]
        BY <2>1, <3>2, EndsFacts DEF EndTypeOK
      <4>2. moved["src"] - moved["dst"] # 0
        BY <1>2, <3>2 DEF Stuck
      <4>3. QED
        BY <4>1, <4>2, StreamEndAssumption, EndsFacts DEF EndTypeOK
    <3>3. QED
      BY <3>1, <3>2, EndsFacts
  <2>5. QED
    BY <2>1, <2>2, <2>3, <2>4 DEF EndTypeOK
<1>3. QED
  BY <1>1, <1>2

(* Every step of either kernel, and every store that reaches memory, keeps *)
(* the invariant.                                                          *)
LEMMA NextEndInv == EndInv /\ [EndNext]_endvars => EndInv'
<1> SUFFICES ASSUME EndInv, [EndNext]_endvars PROVE EndInv'
  OBVIOUS
<1> USE EndsFacts
<1>1. ASSUME NEW r \in Ends, Operate(r) PROVE EndInv'
  <2>1. EndTypeOK'
    BY <1>1, OperateEndTypeOK DEF EndInv
  <2>2. pc[r] = "test" /\ mark' = mark /\ freed' = freed
    BY <1>1 DEF Operate
  <2>3. \A t \in Ends : t # r => pc'[t] = pc[t]
    BY <1>1 DEF Operate, Goto, EndInv, EndTypeOK
  <2>4. pc'[r] \in {"test", "blocked", "mark"}
    BY <1>1 DEF Operate, Goto, EndInv, EndTypeOK
  <2>5. QED
    BY <2>1, <2>2, <2>3, <2>4 DEF EndInv, Marked, SeenOther, Past
<1>2. ASSUME NEW r \in Ends, Blocked(r) PROVE EndInv'
  BY <1>2 DEF Blocked, Goto, EndInv, EndTypeOK, Marked, SeenOther, Past
<1>3. ASSUME NEW r \in Ends, Mark(r) PROVE EndInv'
  <2>1. mark' \in [Ends -> {"live", "buffered", "dead"}] /\ EndTypeOK'
    BY <1>3 DEF Mark, Goto, EndInv, EndTypeOK
  <2>2. mark[r] = "live" /\ ~(freed > 0)
    BY <1>3 DEF Mark, EndInv, Marked, EndTypeOK, Past
  <2>3. QED
    BY <1>3, <2>1, <2>2 DEF Mark, Goto, EndInv, EndTypeOK, Marked, SeenOther, Past
<1>4. ASSUME NEW r \in Ends, Check(r) PROVE EndInv'
  BY <1>4 DEF Check, Goto, EndInv, EndTypeOK, Marked, SeenOther, Past
<1>5. ASSUME NEW r \in Ends, Free(r) PROVE EndInv'
  <2>1. Past(r) /\ Past(Other(r))
    BY <1>5 DEF Free, EndInv, Marked, SeenOther, Past
  <2>2. \A t \in Ends : Past(t)
    BY <2>1
  <2>3. QED
    BY <1>5, <2>2 DEF Free, Goto, EndInv, EndTypeOK, Marked, SeenOther, Past
<1>6. ASSUME NEW r \in Ends, Unlock(r) PROVE EndInv'
  BY <1>6 DEF Unlock, Goto, EndInv, EndTypeOK, Marked, SeenOther, Past
<1>7. ASSUME NEW r \in Ends, Flush(r) PROVE EndInv'
  BY <1>7 DEF Flush, Goto, EndInv, EndTypeOK, Marked, SeenOther, Past
<1>8. CASE UNCHANGED endvars
  BY <1>8 DEF endvars, EndInv, EndTypeOK, Marked, SeenOther, Past
<1>9. QED
  BY <1>1, <1>2, <1>3, <1>4, <1>5, <1>6, <1>7, <1>8
     DEF EndNext, Kernel, Finished

(* The facts above hold at every point of the stream operations, of done   *)
(* and of free_skir_stream_t.                                              *)
THEOREM EndInvariance == EndSpec => []EndInv
<1>1. QED
  BY InitEndInv, NextEndInv, PTL DEF EndSpec

(* No stream holds more than its capacity or less than nothing, also while *)
(* its ends finish.                                                        *)
THEOREM EndTypeCorrect == EndSpec => []EndTypeOK
<1>1. EndInv => EndTypeOK
  BY DEF EndInv
<1>2. QED
  BY <1>1, EndInvariance, PTL

(* free_skir_stream_t never takes a stream away from a kernel that still   *)
(* runs its work function, although the two ends share no lock and a store *)
(* may be delayed.                                                         *)
THEOREM NoUseAfterFree == EndSpec => []UsedLive
<1>1. EndInv => UsedLive
  BY DEF EndInv, UsedLive, Past
<1>2. QED
  BY <1>1, EndInvariance, PTL
=============================================================================
