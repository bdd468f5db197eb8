-------------------------- MODULE BatchWork_proofs --------------------------
(***************************************************************************)
(* TLAPS proofs about BatchWork, for every kernel, number of slots and     *)
(* element size: a batch of the length compute_niters allows needs no test *)
(* of its streams, if the kernel's work function keeps to its rates.       *)
(***************************************************************************)
EXTENDS BatchWork, FiniteSetTheorems, TLAPS
-----------------------------------------------------------------------------
(* What the batch relies on.                                               *)

(* The operations o on stream s among the first j of a work function.      *)
Calls(body, o, s, j) == {m \in 1 .. j : body[m].op = o /\ body[m].s = s}
Count(body, o, s, j) == Cardinality(Calls(body, o, s, j))

(* One iteration pops, peeks and pushes what the rates of the kernel say:  *)
(* what getRate and getPeekRate are for.                                   *)
KeepsRates(c) ==
  LET b == c.body IN
  /\ \A m \in DOMAIN b :
       /\ b[m].op = "pop" => b[m].s \in Range(c.ins) /\ b[m].o = 0
       /\ b[m].op = "push" => b[m].s \in Range(c.outs)
       /\ b[m].op = "peek" =>
            /\ b[m].s \in Range(c.ins) /\ b[m].o \in Nat
            /\ Count(b, "pop", b[m].s, m) + b[m].o < c.pop[b[m].s] + c.peek[b[m].s]
  /\ \A s \in Range(c.ins) : Count(b, "pop", s, Len(b)) <= c.pop[s]
  /\ \A s \in Range(c.outs) : Count(b, "push", s, Len(b)) <= c.push[s]

(* compute_niters has the right element size, and the difference it takes  *)
(* in size_t is not both negative and divided by more than one.            *)
Countable(c) ==
  /\ c.nsz = c.esz
  /\ \A s \in Range(c.ins) :
       (c.peek[s] = 0 \/ c.pop[s] = 1) /\ 2 * c.peek[s] < WORD

Kept == \A c \in Compiled : KeepsRates(c) /\ Countable(c)
-----------------------------------------------------------------------------
(* The invariant.                                                          *)

(* The offset of element number k.                                         *)
At(k, e) == (k % SLOTS) * e

TypeOK == /\ kernel \in Compiled
          /\ head \in [Names -> Nat] /\ tail \in [Names -> Nat]
          /\ lhead \in [Names -> Nat] /\ ltail \in [Names -> Nat]
          /\ pushed \in [Names -> Nat] /\ popped \in [Names -> Nat]
          /\ pc \in {"idle", "scan", "run", "done"}
          /\ i \in Nat \ {0} /\ n \in Nat
          /\ pc \in {"scan", "run"} => n > 0
          /\ pc = "run" => i <= Len(Body) + 1

(* An input stream: the kernel's pops show in tail at the latest at the    *)
(* end of the iteration.                                                   *)
InputOK(s) ==
  /\ head[s] = At(pushed[s], ESZ) /\ popped[s] <= pushed[s]
  /\ \E p \in Nat : /\ tail[s] = At(p, ESZ) /\ p <= popped[s]
                    /\ pushed[s] - p < SLOTS
                    /\ pc # "run" => p = popped[s]
  /\ pc = "run" => ltail[s] = At(popped[s], ESZ)

(* An output stream, likewise.                                             *)
OutputOK(s) ==
  /\ tail[s] = At(popped[s], ESZ) /\ pushed[s] - popped[s] < SLOTS
  /\ \E h \in Nat : /\ head[s] = At(h, ESZ) /\ popped[s] <= h /\ h <= pushed[s]
                    /\ pc # "run" => h = pushed[s]
  /\ pc = "run" => lhead[s] = At(pushed[s], ESZ)

(* The operations that the batch still has to do on a stream, once it has  *)
(* been measured: n iterations, less what this one did.                    *)
Measured(s) == \/ pc = "run"
               \/ pc = "scan" /\ \E j \in 1 .. i - 1 : j <= Len(ScanSeq) /\ ScanSeq[j] = s
Past(o, s) == IF pc = "run" THEN Count(Body, o, s, i - 1) ELSE 0

Enough == \A s \in Ins : Measured(s) =>
  n * kernel.pop[s] + kernel.peek[s] <= pushed[s] - popped[s] + Past("pop", s)
Roomy == \A s \in Outs : Measured(s) =>
  n * kernel.push[s] <= SLOTS - 1 - (pushed[s] - popped[s]) + Past("push", s)

BatchInv == /\ TypeOK
            /\ \A s \in Ins : InputOK(s)
            /\ \A s \in Outs : OutputOK(s)
            /\ Enough /\ Roomy
-----------------------------------------------------------------------------
(* Arithmetic of a ring of SLOTS elements of size e.                       *)

(* Division with remainder.                                                *)
LEMMA Division ==
  ASSUME NEW k \in Nat, NEW m \in Nat \ {0}
  PROVE  /\ k % m \in 0 .. m - 1 /\ k \div m \in Nat
         /\ k = m * (k \div m) + (k % m)
OBVIOUS

(* Quotient and remainder are unique.                                      *)
LEMMA QuotientUnique ==
  ASSUME NEW m \in Nat \ {0}, NEW q \in Nat, NEW r \in 0 .. m - 1
  PROVE  (m * q + r) % m = r /\ (m * q + r) \div m = q
OBVIOUS

(* One step further.                                                       *)
LEMMA StepOn ==
  ASSUME NEW m \in Nat \ {0}, NEW k \in Nat
  PROVE  /\ (k + 1) % m = IF (k % m) + 1 = m THEN 0 ELSE (k % m) + 1
         /\ (k + m) % m = k % m
<1> DEFINE q == k \div m
           r == k % m
<1>1. q \in Nat /\ r \in 0 .. m - 1 /\ k = m * q + r
  BY Division
<1> HIDE DEF q, r
<1>2. m * (q + 1) = m * q + m
  BY <1>1
<1>3. (m * (q + 1) + 0) % m = 0 /\ (m * (q + 1) + r) % m = r
  BY <1>1, QuotientUnique
<1>4. ASSUME r + 1 # m PROVE (m * q + (r + 1)) % m = r + 1
  <2>1. r + 1 \in 0 .. m - 1
    BY <1>1, <1>4
  <2>2. QED
    BY <1>1, <2>1, QuotientUnique
<1>5. (k + m) % m = r
  BY <1>1, <1>2, <1>3
<1>6. (k + 1) % m = IF r + 1 = m THEN 0 ELSE r + 1
  BY <1>1, <1>2, <1>3, <1>4
<1>7. QED
  BY <1>5, <1>6 DEF r

(* Numbers less than m apart and their remainders.                         *)
LEMMA Apart ==
  ASSUME NEW m \in Nat \ {0}, NEW a \in Nat, NEW d \in 0 .. m - 1
  PROVE  (a + d) % m = IF (a % m) + d < m THEN (a % m) + d ELSE (a % m) + d - m
<1> DEFINE q == a \div m
           r == a % m
<1>1. q \in Nat /\ r \in 0 .. m - 1 /\ a = m * q + r
  BY Division
<1> HIDE DEF q, r
<1>2. m * (q + 1) = m * q + m
  BY <1>1
<1>3. CASE r + d < m
  <2>1. (m * q + (r + d)) % m = r + d
    BY <1>1, <1>3, QuotientUnique
  <2>2. QED
    BY <1>1, <1>3, <2>1 DEF r
<1>4. CASE ~(r + d < m)
  <2> DEFINE x == r + d - m
  <2>1. x \in 0 .. m - 1 /\ q + 1 \in Nat
    BY <1>1, <1>4
  <2>2. a + d = (m * q + m) + x
    BY <1>1
  <2> HIDE DEF x
  <2>3. (m * (q + 1) + x) % m = x
    BY <2>1, QuotientUnique
  <2>4. (a + d) % m = x
    BY <1>2, <2>2, <2>3
  <2>5. QED
    BY <1>4, <2>4 DEF r, x
<1>5. QED
  BY <1>3, <1>4

(* Scaling by a size keeps the order.                                      *)
LEMMA Scaled ==
  ASSUME NEW e \in Nat \ {0}, NEW a \in Int, NEW b \in Int
  PROVE  /\ (a * e < b * e) <=> (a < b)
         /\ (a * e = b * e) <=> (a = b)
         /\ a * e - b * e = (a - b) * e /\ a * e + b * e = (a + b) * e
         /\ a * e \in Int /\ (a \in Nat => a * e \in Nat)
OBVIOUS

(* (head + elem_size) % size is the next slot.                             *)
LEMMA NextSlot ==
  ASSUME NEW e \in Nat \ {0}, NEW k \in Nat
  PROVE  ((k % SLOTS) * e + e) % (SLOTS * e) = ((k + 1) % SLOTS) * e
<1> DEFINE r == k % SLOTS
<1>1. SLOTS \in Nat \ {0} /\ r \in 0 .. SLOTS - 1
  BY BatchAssumption, Division
<1>2. (k + 1) % SLOTS = IF r + 1 = SLOTS THEN 0 ELSE r + 1
  BY <1>1, StepOn
<1> HIDE DEF r
<1>3. r * e + e = (r + 1) * e
  BY <1>1
<1>4. SLOTS * e \in Nat \ {0}
  BY <1>1, Scaled
<1>5. CASE r + 1 = SLOTS
  <2>1. ((SLOTS * e) * 1 + 0) % (SLOTS * e) = 0
    BY <1>4, QuotientUnique
  <2>2. r * e + e = (SLOTS * e) * 1 + 0
    BY <1>3, <1>4, <1>5
  <2>3. 0 * e = 0
    OBVIOUS
  <2>4. QED
    BY <1>2, <1>5, <2>1, <2>2, <2>3 DEF r
<1>6. CASE r + 1 # SLOTS
  <2>1. (r + 1) * e < SLOTS * e /\ (r + 1) * e \in Nat
    BY <1>1, <1>6, Scaled
  <2>2. ((SLOTS * e) * 0 + (r + 1) * e) % (SLOTS * e) = (r + 1) * e
    BY <1>4, <2>1, QuotientUnique
  <2>3. (SLOTS * e) * 0 + (r + 1) * e = (r + 1) * e
    BY <1>4, <2>1
  <2>4. QED
    BY <1>2, <1>3, <1>6, <2>2, <2>3 DEF r
<1>7. QED
  BY <1>5, <1>6

(* What pop_space and push_space compute from two offsets.                 *)
LEMMA Distance ==
  ASSUME NEW e \in Nat \ {0}, NEW a \in Nat, NEW b \in Nat, a <= b, b - a < SLOTS
  PROVE  LET d == (b % SLOTS) * e - (a % SLOTS) * e
         IN (IF d < 0 THEN d + SLOTS * e ELSE d) = (b - a) * e
<1> DEFINE ra == a % SLOTS
           rb == b % SLOTS
<1>1. SLOTS \in Nat \ {0} /\ ra \in 0 .. SLOTS - 1 /\ rb \in 0 .. SLOTS - 1
  BY BatchAssumption, Division
<1>2. b - a \in 0 .. SLOTS - 1 /\ a + (b - a) = b
  BY <1>1
<1>3. rb = IF ra + (b - a) < SLOTS THEN ra + (b - a) ELSE ra + (b - a) - SLOTS
  <2> DEFINE d == b - a
  <2>1. d \in 0 .. SLOTS - 1 /\ a + d = b
    BY <1>2
  <2> HIDE DEF d
  <2>2. (a + d) % SLOTS = IF ra + d < SLOTS THEN ra + d ELSE ra + d - SLOTS
    BY <1>1, <2>1, Apart
  <2>3. QED
    BY <2>1, <2>2 DEF d
<1> HIDE DEF ra, rb
<1>4. rb * e - ra * e = (rb - ra) * e /\ 0 * e = 0
  BY <1>1, Scaled
<1>5. (rb - ra) * e < 0 <=> rb - ra < 0
  BY <1>1, <1>4, Scaled
<1>6. (rb - ra) * e + SLOTS * e = (rb - ra + SLOTS) * e
  BY <1>1, Scaled
<1>7. QED
  BY <1>1, <1>2, <1>3, <1>4, <1>5, <1>6 DEF ra, rb

(* An exact quotient.                                                      *)
LEMMA Exact ==
  ASSUME NEW e \in Nat \ {0}, NEW a \in Nat
  PROVE  (a * e) \div e = a
<1>1. (e * a + 0) \div e = a
  BY QuotientUnique
<1>2. a * e = e * a + 0
  OBVIOUS
<1>3. QED
  BY <1>1, <1>2

(* As many iterations as the quotient says.                                *)
LEMMA Quotient ==
  ASSUME NEW k \in Nat, NEW p \in Nat \ {0}, NEW v \in Nat, v <= k \div p
  PROVE  v * p <= k
<1> DEFINE q == k \div p
<1>1. q \in Nat /\ p * q <= k
  BY Division
<1> HIDE DEF q
<1>2. v <= q
  BY DEF q
<1>3. v * p <= q * p
  BY <1>1, <1>2, Scaled
<1>4. q * p = p * q /\ v * p \in Nat /\ q * p \in Nat
  BY <1>1
<1>5. QED
  BY <1>1, <1>3, <1>4

(* The signed value of (space - peek_rate) / pop_rate, when it is positive.*)
LEMMA SizeT ==
  ASSUME NEW a \in Nat, NEW k \in Nat, NEW p \in Nat \ {0}, WORD \in Nat, WORD % 2 = 0,
         2 * a < WORD, 2 * k < WORD, k = 0 \/ p = 1,
         Signed(((a - k) % WORD) \div p) > 0
  PROVE  k <= a /\ Signed(((a - k) % WORD) \div p) = (a - k) \div p
<1>1. CASE k <= a
  <2> DEFINE d == a - k
             q == d \div p
  <2>1. d \in Nat /\ 2 * d < WORD
    BY <1>1
  <2> HIDE DEF d
  <2>2. d % WORD = d
    BY <2>1
  <2>3. q \in Nat /\ d = p * q + (d % p) /\ d % p \in Nat
    BY <2>1, Division
  <2> HIDE DEF q
  <2>4. p * q >= q /\ p * q \in Nat
    BY <2>3
  <2>5. q <= d
    BY <2>1, <2>3, <2>4
  <2>6. q < WORD \div 2
    BY <2>1, <2>3, <2>5
  <2>7. Signed(q) = q
    BY <2>3, <2>6 DEF Signed
  <2>8. QED
    BY <1>1, <2>2, <2>7 DEF d, q
<1>2. CASE ~(k <= a)
  <2>1. p = 1 /\ k > a
    BY <1>2
  <2> DEFINE x == a - k + WORD
  <2>2. x \in Nat /\ x < WORD /\ x >= WORD \div 2 /\ x \in Int
    BY <2>1
  <2>3. (a - k) % WORD = x
    <3>1. a - k \in Int /\ a - k < 0 /\ a - k + WORD > 0
      BY <2>1
    <3>2. QED
      BY <3>1
  <2> HIDE DEF x
  <2>4. x \div p = x
    BY <2>1, <2>2
  <2>5. Signed(x) = x - WORD
    BY <2>2 DEF Signed
  <2>6. QED
    BY <2>2, <2>3, <2>4, <2>5
<1>3. QED
  BY <1>1, <1>2
-----------------------------------------------------------------------------
(* Operations of a work function.                                          *)

(* One operation more.                                                     *)
LEMMA CountStep ==
  ASSUME NEW body, NEW o, NEW s, NEW j \in Nat
  PROVE  /\ Count(body, o, s, j) \in Nat
         /\ Count(body, o, s, 0) = 0
         /\ Count(body, o, s, j + 1) = Count(body, o, s, j)
              + IF body[j + 1].op = o /\ body[j + 1].s = s THEN 1 ELSE 0
<1> DEFINE C(x) == Calls(body, o, s, x)
<1>1. IsFiniteSet(1 .. j)
  BY FS_Interval
<1>2. IsFiniteSet(C(j)) /\ Cardinality(C(j)) \in Nat
  BY <1>1, FS_Subset, FS_CardinalityType DEF Calls
<1>3. C(0) = {}
  BY DEF Calls
<1>4. C(j + 1) = IF body[j + 1].op = o /\ body[j + 1].s = s THEN C(j) \cup {j + 1} ELSE C(j)
  BY DEF Calls
<1>5. j + 1 \notin C(j)
  BY DEF Calls
<1>6. Cardinality(C(j) \cup {j + 1}) = Cardinality(C(j)) + 1
  BY <1>2, <1>5, FS_AddElement
<1>7. Cardinality(C(0)) = 0
  BY <1>3, FS_EmptySet
<1>8. QED
  BY <1>2, <1>4, <1>6, <1>7 DEF Count

(* The same, seen from the operation.                                      *)
LEMMA CountAt ==
  ASSUME NEW body, NEW o, NEW s, NEW j \in Nat \ {0}
  PROVE  /\ Count(body, o, s, j - 1) \in Nat /\ Count(body, o, s, j) \in Nat
         /\ Count(body, o, s, j) = Count(body, o, s, j - 1)
              + IF body[j].op = o /\ body[j].s = s THEN 1 ELSE 0
<1> DEFINE k == j - 1
<1>1. k \in Nat /\ k + 1 = j
  OBVIOUS
<1> HIDE DEF k
<1>2. /\ Count(body, o, s, k) \in Nat
      /\ Count(body, o, s, k + 1) = Count(body, o, s, k)
           + IF body[k + 1].op = o /\ body[k + 1].s = s THEN 1 ELSE 0
  BY <1>1, CountStep
<1>3. QED
  BY <1>1, <1>2 DEF k

(* The whole has no fewer than a part.                                     *)
LEMMA CountGrows ==
  ASSUME NEW body, NEW o, NEW s, NEW j \in Nat, NEW k \in Nat, j <= k
  PROVE  Count(body, o, s, j) <= Count(body, o, s, k)
<1>1. Calls(body, o, s, k) \in SUBSET (1 .. k) /\ IsFiniteSet(1 .. k)
  BY FS_Interval DEF Calls
<1>2. IsFiniteSet(Calls(body, o, s, k))
  BY <1>1, FS_Subset
<1>3. Calls(body, o, s, j) \in SUBSET Calls(body, o, s, k)
  BY DEF Calls
<1>4. QED
  BY <1>2, <1>3, FS_Subset DEF Count

(* Two lists of streams, one after the other.                              *)
LEMMA Joined ==
  ASSUME NEW S, NEW a \in Seq(S), NEW b \in Seq(S)
  PROVE  /\ Len(a \o b) \in Nat
         /\ \A j \in 1 .. Len(a \o b) : (a \o b)[j] \in Range(b) \cup Range(a)
         /\ \A s \in Range(b) \cup Range(a) : \E j \in 1 .. Len(a \o b) : (a \o b)[j] = s
<1>1. /\ Len(a) \in Nat /\ Len(b) \in Nat /\ Len(a \o b) = Len(a) + Len(b)
      /\ DOMAIN a = 1 .. Len(a) /\ DOMAIN b = 1 .. Len(b)
  OBVIOUS
<1>2. \A j \in 1 .. Len(a) : (a \o b)[j] = a[j]
  OBVIOUS
<1>3. \A j \in 1 .. Len(b) : (a \o b)[Len(a) + j] = b[j]
  OBVIOUS
<1>4. ASSUME NEW j \in 1 .. Len(a \o b) PROVE (a \o b)[j] \in Range(b) \cup Range(a)
  <2>1. CASE j <= Len(a)
    BY <1>1, <1>2, <2>1 DEF Range
  <2>2. CASE j > Len(a)
    <3>1. (j - Len(a)) \in 1 .. Len(b) /\ j = Len(a) + (j - Len(a))
      BY <1>1, <2>2
    <3>2. (a \o b)[j] = b[j - Len(a)]
      BY <1>3, <3>1
    <3>3. QED
      BY <1>1, <3>1, <3>2 DEF Range
  <2>3. QED
    BY <1>1, <2>1, <2>2
<1>5. ASSUME NEW s \in Range(b) PROVE \E j \in 1 .. Len(a \o b) : (a \o b)[j] = s
  <2>1. PICK m \in 1 .. Len(b) : b[m] = s
    BY <1>1 DEF Range
  <2>2. Len(a) + m \in 1 .. Len(a \o b)
    BY <1>1
  <2>3. QED
    BY <1>3, <2>1, <2>2
<1>6. ASSUME NEW s \in Range(a) PROVE \E j \in 1 .. Len(a \o b) : (a \o b)[j] = s
  <2>1. PICK m \in 1 .. Len(a) : a[m] = s
    BY <1>1 DEF Range
  <2>2. QED
    BY <1>1, <1>2, <2>1
<1>7. QED
  BY <1>1, <1>4, <1>5, <1>6

(* The kernel that was compiled.                                           *)
LEMMA KernelFacts ==
  ASSUME kernel \in Compiled, Kept
  PROVE  /\ ESZ \in Nat \ {0} /\ NSZ = ESZ /\ BUFSZ \in Nat \ {0}
         /\ Len(Body) \in Nat /\ DOMAIN Body = 1 .. Len(Body)
         /\ Ins \subseteq Names /\ Outs \subseteq Names /\ Ins \cap Outs = {}
         /\ Len(ScanSeq) \in Nat
         /\ \A j \in 1 .. Len(ScanSeq) : ScanSeq[j] \in Ins \cup Outs
         /\ \A s \in Ins \cup Outs : \E j \in 1 .. Len(ScanSeq) : ScanSeq[j] = s
         /\ \A s \in Ins : kernel.pop[s] \in Nat \ {0} /\ kernel.peek[s] \in Nat
         /\ \A s \in Outs : kernel.push[s] \in Nat \ {0}
         /\ SLOTS \in Nat \ {0, 1} /\ WORD \in Nat /\ WORD % 2 = 0
         /\ 2 * SLOTS < WORD
<1>1. /\ kernel.ins \in Seq(Names) /\ kernel.outs \in Seq(Names)
      /\ kernel.body \in Seq(Range(kernel.body))
  BY BatchAssumption
<1>2. /\ Ins \cap Outs = {}
      /\ \A s \in Ins : kernel.pop[s] \in Nat \ {0} /\ kernel.peek[s] \in Nat
      /\ \A s \in Outs : kernel.push[s] \in Nat \ {0}
      /\ SLOTS \in Nat \ {0, 1} /\ WORD \in Nat /\ WORD % 2 = 0 /\ ESZ \in Nat \ {0}
      /\ 2 * SLOTS * ESZ < WORD
  BY BatchAssumption DEF Ins, Outs, ESZ
<1>3. NSZ = ESZ
  BY DEF NSZ, ESZ, Kept, Countable
<1>4. BUFSZ \in Nat \ {0} /\ 2 * SLOTS < WORD
  <2>1. SLOTS * ESZ >= SLOTS /\ SLOTS * ESZ \in Nat
    BY <1>2
  <2>2. 2 * SLOTS * ESZ = 2 * (SLOTS * ESZ)
    BY <1>2
  <2>3. QED
    BY <1>2, <2>1, <2>2 DEF BUFSZ
<1>5. Len(Body) \in Nat /\ DOMAIN Body = 1 .. Len(Body)
  BY <1>1 DEF Body
<1>6. Ins \subseteq Names /\ Outs \subseteq Names
  BY <1>1 DEF Ins, Outs, Range
<1>7. /\ Len(ScanSeq) \in Nat
      /\ \A j \in 1 .. Len(ScanSeq) : ScanSeq[j] \in Ins \cup Outs
      /\ \A s \in Ins \cup Outs : \E j \in 1 .. Len(ScanSeq) : ScanSeq[j] = s
  <2> DEFINE a == kernel.outs
             b == kernel.ins
  <2>1. a \in Seq(Names) /\ b \in Seq(Names) /\ Ins = Range(b) /\ Outs = Range(a)
        /\ ScanSeq = a \o b
    BY <1>1 DEF ScanSeq, Ins, Outs
  <2> HIDE DEF a, b
  <2>2. /\ Len(a \o b) \in Nat
        /\ \A j \in 1 .. Len(a \o b) : (a \o b)[j] \in Range(b) \cup Range(a)
        /\ \A s \in Range(b) \cup Range(a) : \E j \in 1 .. Len(a \o b) : (a \o b)[j] = s
    BY <2>1, Joined
  <2>3. QED
    BY <2>1, <2>2
<1>8. QED
  BY <1>2, <1>3, <1>4, <1>5, <1>6, <1>7
-----------------------------------------------------------------------------
(* What compute_niters measures.                                           *)

(* The elements in an input stream.                                        *)
LEMMA PopSpace ==
  ASSUME BatchInv, Kept, pc = "scan", NEW s \in Ins
  PROVE  /\ pushed[s] - popped[s] \in 0 .. SLOTS - 1
         /\ pop_space(s) \div NSZ = pushed[s] - popped[s]
<1> DEFINE a == popped[s]
           b == pushed[s]
<1>1. ESZ \in Nat \ {0} /\ NSZ = ESZ /\ s \in Names /\ SLOTS \in Nat
  BY KernelFacts DEF BatchInv, TypeOK
<1>2. a \in Nat /\ b \in Nat /\ a <= b /\ b - a < SLOTS
  BY <1>1 DEF BatchInv, TypeOK, InputOK
<1>3. head[s] = (b % SLOTS) * ESZ /\ tail[s] = (a % SLOTS) * ESZ
  BY DEF BatchInv, InputOK, At
<1> HIDE DEF a, b
<1>4. pop_space(s) = (b - a) * ESZ
  BY <1>1, <1>2, <1>3, Distance DEF pop_space, Wrap, BUFSZ
<1>5. b - a \in Nat
  BY <1>2
<1>6. ((b - a) * ESZ) \div ESZ = b - a
  BY <1>1, <1>5, Exact
<1>7. QED
  BY <1>1, <1>2, <1>4, <1>5, <1>6 DEF a, b

(* The free slots of an output stream, one of which stays empty.           *)
LEMMA PushSpace ==
  ASSUME BatchInv, Kept, pc = "scan", NEW s \in Outs
  PROVE  /\ SLOTS - 1 - (pushed[s] - popped[s]) \in 0 .. SLOTS - 1
         /\ push_space(s) \div NSZ = SLOTS - 1 - (pushed[s] - popped[s])
<1> DEFINE a == pushed[s] + 1
           b == popped[s] + SLOTS
<1>1. ESZ \in Nat \ {0} /\ NSZ = ESZ /\ s \in Names /\ SLOTS \in Nat \ {0}
  BY KernelFacts DEF BatchInv, TypeOK
<1>2. /\ pushed[s] \in Nat /\ popped[s] \in Nat /\ popped[s] <= pushed[s]
      /\ pushed[s] - popped[s] < SLOTS
  BY <1>1 DEF BatchInv, TypeOK, OutputOK
<1>3. head[s] = (pushed[s] % SLOTS) * ESZ /\ tail[s] = (popped[s] % SLOTS) * ESZ
  BY DEF BatchInv, OutputOK, At
<1>4. (head[s] + NSZ) % BUFSZ = (a % SLOTS) * ESZ
  BY <1>1, <1>2, <1>3, NextSlot DEF BUFSZ
<1>5. tail[s] = (b % SLOTS) * ESZ
  BY <1>1, <1>2, <1>3, StepOn
<1>6. a \in Nat /\ b \in Nat /\ a <= b /\ b - a < SLOTS
      /\ b - a = SLOTS - 1 - (pushed[s] - popped[s])
  BY <1>1, <1>2
<1> HIDE DEF a, b
<1>7. push_space(s) = (b - a) * ESZ
  <2>1. push_space(s) = Wrap((b % SLOTS) * ESZ - (a % SLOTS) * ESZ)
    BY <1>4, <1>5 DEF push_space
  <2>2. QED
    BY <1>1, <1>6, <2>1, Distance DEF Wrap, BUFSZ
<1>8. b - a \in Nat
  BY <1>6
<1>9. ((b - a) * ESZ) \div ESZ = b - a
  BY <1>1, <1>8, Exact
<1>10. QED
  BY <1>1, <1>6, <1>7, <1>8, <1>9

(* npop and npush are integers.                                            *)
LEMMA RoomType ==
  ASSUME BatchInv, Kept, pc = "scan", NEW s \in Ins \cup Outs
  PROVE  Room(s) \in Int
<1>1. CASE s \in Ins
  <2>1. /\ pop_space(s) \div NSZ \in Int /\ kernel.peek[s] \in Nat
        /\ kernel.pop[s] \in Nat \ {0} /\ WORD \in Nat /\ 2 * SLOTS < WORD
        /\ SLOTS \in Nat /\ s \notin Outs
    <3>1. pushed[s] - popped[s] \in Int /\ pop_space(s) \div NSZ = pushed[s] - popped[s]
      BY <1>1, PopSpace
    <3>2. QED
      BY <1>1, <3>1, KernelFacts DEF BatchInv, TypeOK
  <2> DEFINE a == (pop_space(s) \div NSZ) - kernel.peek[s]
             p == kernel.pop[s]
  <2>2. a \in Int /\ WORD > 0 /\ p \in Nat \ {0}
    BY <2>1
  <2>3. Room(s) = Signed((a % WORD) \div p)
    BY <2>1 DEF Room, npop
  <2> HIDE DEF a, p
  <2>4. (a % WORD) \div p \in Int
    <3>1. a % WORD \in Int
      BY <2>1, <2>2
    <3>2. QED
      BY <2>2, <3>1
  <2>5. QED
    BY <2>1, <2>3, <2>4 DEF Signed
<1>2. CASE s \in Outs
  <2>1. push_space(s) \div NSZ \in Int /\ kernel.push[s] \in Nat \ {0}
    <3> DEFINE a == SLOTS - 1 - (pushed[s] - popped[s])
    <3>1. a \in Int /\ push_space(s) \div NSZ = a
      BY <1>2, PushSpace
    <3> HIDE DEF a
    <3>2. QED
      BY <1>2, <3>1, KernelFacts DEF BatchInv, TypeOK
  <2>2. QED
    BY <1>2, <2>1 DEF Room, npush
<1>3. QED
  BY <1>1, <1>2

(* As many iterations as npop and npush say can be run.                    *)
LEMMA RoomIsEnough ==
  ASSUME BatchInv, Kept, pc = "scan", NEW s \in Ins \cup Outs, Room(s) > 0
  PROVE  /\ Room(s) \in Nat
         /\ \A v \in Nat : v <= Room(s) =>
              /\ s \in Ins => v * kernel.pop[s] + kernel.peek[s] <= pushed[s] - popped[s]
              /\ s \in Outs => v * kernel.push[s] <= SLOTS - 1 - (pushed[s] - popped[s])
<1>1. CASE s \in Ins
  <2> DEFINE a == pushed[s] - popped[s]
             k == kernel.peek[s]
             p == kernel.pop[s]
  <2>1. /\ k \in Nat /\ p \in Nat \ {0} /\ s \notin Outs
        /\ SLOTS \in Nat /\ 2 * SLOTS < WORD /\ WORD \in Nat /\ WORD % 2 = 0
    BY <1>1, KernelFacts DEF BatchInv, TypeOK
  <2>2. (k = 0 \/ p = 1) /\ 2 * k < WORD
    BY <1>1 DEF Kept, Countable, BatchInv, TypeOK, Ins
  <2>3. a \in Nat /\ a < SLOTS /\ pop_space(s) \div NSZ = a
    BY <1>1, <2>1, PopSpace
  <2>4. Room(s) = Signed(((a - k) % WORD) \div p)
    BY <2>1, <2>3 DEF Room, npop
  <2> HIDE DEF a, k, p
  <2>5. 2 * a < WORD
    BY <2>1, <2>3
  <2>6. k <= a /\ Room(s) = (a - k) \div p
    <3>1. Signed(((a - k) % WORD) \div p) > 0
      BY ONLY <2>4, Room(s) > 0
    <3>2. k <= a /\ Signed(((a - k) % WORD) \div p) = (a - k) \div p
      BY ONLY <2>1, <2>2, <2>3, <2>5, <3>1, SizeT
    <3>3. QED
      BY ONLY <2>4, <3>2
  <2>7. a - k \in Nat /\ (a - k) \div p \in Nat
    BY <2>1, <2>3, <2>6, Division
  <2>8. ASSUME NEW v \in Nat, v <= Room(s) PROVE v * p + k <= a
    <3>1. v * p <= a - k
      BY <2>1, <2>6, <2>7, <2>8, Quotient
    <3>2. v * p \in Nat
      BY <2>1
    <3>3. QED
      BY <2>1, <2>3, <3>1, <3>2
  <2>9. QED
    BY <2>1, <2>6, <2>7, <2>8 DEF a, k, p
<1>2. CASE s \in Outs
  <2> DEFINE a == SLOTS - 1 - (pushed[s] - popped[s])
             p == kernel.push[s]
  <2>1. p \in Nat \ {0} /\ s \notin Ins /\ SLOTS \in Nat
    BY <1>2, KernelFacts DEF BatchInv, TypeOK
  <2>2. a \in Nat /\ push_space(s) \div NSZ = a
    BY <1>2, <2>1, PushSpace
  <2>3. Room(s) = a \div p
    BY <1>2, <2>2 DEF Room, npush
  <2> HIDE DEF a, p
  <2>4. a \div p \in Nat
    BY <2>1, <2>2, Division
  <2>5. ASSUME NEW v \in Nat, v <= Room(s) PROVE v * p <= a
    BY <2>1, <2>2, <2>3, <2>5, Quotient
  <2>6. QED
    BY <2>1, <2>3, <2>4, <2>5 DEF a, p
<1>3. QED
  BY <1>1, <1>2
-----------------------------------------------------------------------------
(* A step of the batch finds what it needs.                                *)

(* One of several iterations.                                              *)
LEMMA OneOf ==
  ASSUME NEW v \in Nat \ {0}, NEW p \in Nat
  PROVE  v * p \in Nat /\ v * p >= p /\ (v - 1) * p = v * p - p
OBVIOUS

(* Fewer iterations need less.                                             *)
LEMMA Fewer ==
  ASSUME NEW v \in Nat, NEW w \in Nat, v <= w, NEW p \in Nat
  PROVE  v * p <= w * p /\ v * p \in Nat /\ w * p \in Nat
OBVIOUS

(* What a batch needs is a number.                                         *)
LEMMA NeedTypes ==
  ASSUME BatchInv, Kept
  PROVE  /\ \A s \in Ins : /\ n * kernel.pop[s] \in Nat /\ kernel.pop[s] \in Nat
                           /\ kernel.peek[s] \in Nat /\ pushed[s] \in Nat /\ popped[s] \in Nat
         /\ \A s \in Outs : /\ n * kernel.push[s] \in Nat /\ kernel.push[s] \in Nat
                            /\ pushed[s] \in Nat /\ popped[s] \in Nat
<1>1. n \in Nat /\ n <= n
  BY DEF BatchInv, TypeOK
<1>2. ASSUME NEW s \in Ins
      PROVE  /\ kernel.pop[s] \in Nat /\ kernel.peek[s] \in Nat
             /\ pushed[s] \in Nat /\ popped[s] \in Nat
  BY KernelFacts DEF BatchInv, TypeOK
<1>3. ASSUME NEW s \in Outs
      PROVE  kernel.push[s] \in Nat /\ pushed[s] \in Nat /\ popped[s] \in Nat
  BY KernelFacts DEF BatchInv, TypeOK
<1>4. \A p \in Nat : n * p \in Nat
  BY <1>1
<1>5. QED
  BY <1>2, <1>3, <1>4

(* So is what an iteration has done.                                       *)
LEMMA PastType == ASSUME TypeOK, NEW o, NEW s PROVE Past(o, s) \in Nat
<1>1. i - 1 \in Nat
  BY DEF TypeOK
<1>2. QED
  BY <1>1, CountStep DEF Past

(* Every pop and peek of the batch finds its element.                      *)
LEMMA SafeRead ==
  ASSUME BatchInv, Kept, pc = "run", i <= Len(Body), Body[i].op \in {"pop", "peek"}
  PROVE  /\ Body[i].s \in Ins /\ Body[i].o \in Nat
         /\ popped[Body[i].s] + Body[i].o < pushed[Body[i].s]
<1> DEFINE s == Body[i].s
           o == Body[i].o
           pop == kernel.pop[s]
           peek == kernel.peek[s]
           c0 == Count(Body, "pop", s, i - 1)
           c == Count(Body, "pop", s, i)
           all == Count(Body, "pop", s, Len(Body))
<1>1. /\ i \in Nat \ {0} /\ i \in DOMAIN Body /\ Len(Body) \in Nat /\ n \in Nat \ {0}
      /\ KeepsRates(kernel)
  BY KernelFacts DEF BatchInv, TypeOK, Kept
<1>2. /\ s \in Ins /\ o \in Nat
      /\ Body[i].op = "pop" => o = 0
      /\ Body[i].op = "peek" => c + o < pop + peek
      /\ all <= pop
  BY <1>1 DEF KeepsRates, Ins, Body
<1>3. /\ pop \in Nat /\ peek \in Nat /\ pushed[s] \in Nat /\ popped[s] \in Nat
  BY <1>2, KernelFacts DEF BatchInv, TypeOK
<1>4. n * pop + peek <= pushed[s] - popped[s] + c0
  BY <1>2 DEF BatchInv, Enough, Measured, Past
<1>5. /\ c0 \in Nat /\ c \in Nat /\ all \in Nat
      /\ c = c0 + IF Body[i].op = "pop" THEN 1 ELSE 0
  <2>1. all \in Nat
    BY <1>1, CountStep
  <2>2. QED
    BY <1>1, <2>1, CountAt
<1>6. c <= all
  BY <1>1, CountGrows
<1> HIDE DEF s, o, pop, peek, c0, c, all
<1>7. n * pop \in Nat /\ n * pop >= pop
  BY <1>1, <1>3, OneOf
<1>8. c0 + o < pop + peek
  BY <1>2, <1>3, <1>5, <1>6
<1>9. popped[s] + o < pushed[s]
  BY <1>2, <1>3, <1>4, <1>5, <1>7, <1>8
<1>10. QED
  BY <1>2, <1>9 DEF s, o

(* Every push of the batch finds a free slot.                              *)
LEMMA SafeWrite ==
  ASSUME BatchInv, Kept, Running("push")
  PROVE  Body[i].s \in Outs /\ pushed[Body[i].s] - popped[Body[i].s] < SLOTS - 1
<1> DEFINE s == Body[i].s
           push == kernel.push[s]
           c0 == Count(Body, "push", s, i - 1)
           c == Count(Body, "push", s, i)
           all == Count(Body, "push", s, Len(Body))
<1>1. /\ i \in Nat \ {0} /\ i \in DOMAIN Body /\ Len(Body) \in Nat /\ n \in Nat \ {0}
      /\ KeepsRates(kernel) /\ SLOTS \in Nat /\ pc = "run" /\ i <= Len(Body)
      /\ Body[i].op = "push"
  BY KernelFacts DEF BatchInv, TypeOK, Kept, Running
<1>2. s \in Outs /\ all <= push
  BY <1>1 DEF KeepsRates, Outs, Body
<1>3. push \in Nat /\ pushed[s] \in Nat /\ popped[s] \in Nat
  BY <1>2, KernelFacts DEF BatchInv, TypeOK
<1>4. n * push <= SLOTS - 1 - (pushed[s] - popped[s]) + c0
  BY <1>1, <1>2 DEF BatchInv, Roomy, Measured, Past
<1>5. /\ c0 \in Nat /\ c \in Nat /\ all \in Nat
      /\ c = c0 + 1
  <2>1. all \in Nat
    BY <1>1, CountStep
  <2>2. QED
    BY <1>1, <2>1, CountAt
<1>6. c <= all
  BY <1>1, CountGrows
<1> HIDE DEF s, push, c0, c, all
<1>7. n * push \in Nat /\ n * push >= push
  BY <1>1, <1>3, OneOf
<1>8. pushed[s] - popped[s] < SLOTS - 1
  <2>1. c0 + 1 <= n * push
    BY <1>2, <1>3, <1>5, <1>6, <1>7
  <2>2. SLOTS \in Nat
    BY <1>1
  <2>3. QED
    BY <1>3, <1>4, <1>5, <1>7, <2>1, <2>2
<1>9. QED
  BY <1>2, <1>8 DEF s
-----------------------------------------------------------------------------
(* Steps that leave the streams alone.                                     *)

(* What belongs to the kernel that was compiled stays.                     *)
LEMMA SameKernel ==
  ASSUME kernel' = kernel
  PROVE  /\ Ins' = Ins /\ Outs' = Outs /\ Body' = Body /\ ESZ' = ESZ
         /\ NSZ' = NSZ /\ BUFSZ' = BUFSZ /\ ScanSeq' = ScanSeq
BY DEF Ins, Outs, Body, ESZ, NSZ, BUFSZ, ScanSeq

(* The offsets stay tied to the element numbers; a batch starts with       *)
(* copies of them.                                                         *)
LEMMA RingStays ==
  ASSUME BatchInv, Kept, kernel' = kernel, UNCHANGED ring, pc = "run" => pc' = "run",
         \/ pc' # "run"
         \/ pc = "run" /\ lhead' = lhead /\ ltail' = ltail
         \/ lhead' = head /\ ltail' = tail /\ pc # "run"
  PROVE  (\A s \in Ins : InputOK(s))' /\ (\A s \in Outs : OutputOK(s))'
<1>1. head' = head /\ tail' = tail /\ pushed' = pushed /\ popped' = popped
  BY DEF ring
<1>2. Ins' = Ins /\ Outs' = Outs /\ ESZ' = ESZ
  BY SameKernel
<1>3. \A s \in Ins : InputOK(s)'
  BY <1>1, <1>2 DEF BatchInv, InputOK
<1>4. \A s \in Outs : OutputOK(s)'
  BY <1>1, <1>2 DEF BatchInv, OutputOK
<1>5. QED
  BY <1>2, <1>3, <1>4

(* Passing an operation takes nothing away from what is needed.            *)
LEMMA PassOn ==
  ASSUME BatchInv, Kept, pc = "run", i <= Len(Body), kernel' = kernel, pc' = pc,
         i' = i + 1, n' = n
  PROVE  /\ \A s \in Names : Measured(s)' /\ Measured(s)
         /\ \A o, s : /\ Past(o, s) \in Nat
                      /\ Past(o, s)' = Past(o, s)
                           + IF Body[i].op = o /\ Body[i].s = s THEN 1 ELSE 0
<1>1. i \in Nat \ {0} /\ i - 1 \in Nat /\ (i - 1) + 1 = i /\ i' - 1 = i
  BY DEF BatchInv, TypeOK
<1>2. Body' = Body
  BY SameKernel
<1>3. ASSUME NEW o, NEW s
      PROVE  /\ Past(o, s) = Count(Body, o, s, i - 1) /\ Past(o, s)' = Count(Body, o, s, i)
             /\ Past(o, s) \in Nat
             /\ Past(o, s)' = Past(o, s) + IF Body[i].op = o /\ Body[i].s = s THEN 1 ELSE 0
  <2>1. Past(o, s) = Count(Body, o, s, i - 1)
    BY DEF Past
  <2>2. Past(o, s)' = Count(Body, o, s, i)
    BY <1>1, <1>2 DEF Past
  <2>3. QED
    BY <1>1, <2>1, <2>2, CountAt
<1>4. \A s \in Names : Measured(s)' /\ Measured(s)
  BY DEF Measured
<1>5. QED
  BY <1>3, <1>4
-----------------------------------------------------------------------------
(* The steps of the kernel and of its neighbours.                          *)

(* Initially everything is empty.                                          *)
LEMMA InitInv == ASSUME Init, Kept PROVE BatchInv
<1>1. TypeOK
  BY DEF Init, TypeOK, zero
<1>2. /\ Ins \subseteq Names /\ Outs \subseteq Names /\ SLOTS \in Nat \ {0} /\ ESZ \in Nat
  BY <1>1, KernelFacts DEF TypeOK
<1>3. At(0, ESZ) = 0
  <2>1. 0 % SLOTS = 0 /\ 0 * ESZ = 0
    BY <1>2
  <2>2. QED
    BY <2>1 DEF At
<1>4. \A s \in Ins : InputOK(s)
  BY <1>2, <1>3 DEF Init, zero, InputOK
<1>5. \A s \in Outs : OutputOK(s)
  BY <1>2, <1>3 DEF Init, zero, OutputOK
<1>6. Enough /\ Roomy
  BY DEF Init, Enough, Roomy, Measured
<1>7. QED
  BY <1>1, <1>4, <1>5, <1>6 DEF BatchInv

(* compute_niters.                                                         *)
LEMMA ScanStep ==
  ASSUME BatchInv, Kept, ComputeBegin \/ ComputeStream \/ ComputeEnd
  PROVE  BatchInv'
<1>1. TypeOK /\ kernel \in Compiled /\ n \in Nat /\ i \in Nat \ {0}
  BY DEF BatchInv, TypeOK
<1>2. /\ kernel' = kernel /\ pushed' = pushed /\ popped' = popped /\ head' = head
      /\ tail' = tail
  BY DEF ComputeBegin, ComputeStream, ComputeEnd, ring
<1>3. /\ Ins' = Ins /\ Outs' = Outs /\ Body' = Body /\ ESZ' = ESZ /\ ScanSeq' = ScanSeq
  BY <1>2, SameKernel
<1>4. \/ pc' # "run" /\ pc # "run"
      \/ lhead' = head /\ ltail' = tail /\ pc # "run"
  BY DEF ComputeBegin, ComputeStream, ComputeEnd
<1>5. (\A s \in Ins : InputOK(s))' /\ (\A s \in Outs : OutputOK(s))'
  BY <1>2, <1>4, RingStays DEF ring
<1>6. CASE ComputeBegin
  <2>1. TypeOK'
    BY <1>1, <1>2, <1>6, KernelFacts DEF ComputeBegin, TypeOK
  <2>2. \A s : ~Measured(s)'
    BY <1>6 DEF ComputeBegin, Measured
  <2>3. QED
    BY <1>5, <2>1, <2>2 DEF BatchInv, Enough, Roomy
<1>7. CASE ComputeStream
  <2> DEFINE s0 == ScanSeq[i]
  <2>1. pc = "scan" /\ i \in 1 .. Len(ScanSeq) /\ s0 \in Ins \cup Outs
    BY <1>1, <1>7, KernelFacts DEF ComputeStream
  <2>2. CASE Room(s0) <= 0
    <3>1. pc' = "idle" /\ i' = 1 /\ n' = 0
      BY <1>7, <2>2 DEF ComputeStream
    <3>2. TypeOK'
      BY <1>1, <1>2, <1>7, <3>1 DEF ComputeStream, TypeOK
    <3>3. \A s : ~Measured(s)'
      BY <3>1 DEF Measured
    <3>4. QED
      BY <1>5, <3>2, <3>3 DEF BatchInv, Enough, Roomy
  <2>3. CASE ~(Room(s0) <= 0)
    <3>1. /\ n' = IF Room(s0) < n THEN Room(s0) ELSE n
          /\ i' = i + 1 /\ pc' = pc /\ lhead' = lhead /\ ltail' = ltail
      BY <1>7, <2>3 DEF ComputeStream
    <3>2. Room(s0) \in Int
      BY <1>1, <2>1, RoomType
    <3>3. Room(s0) > 0
      BY <2>3, <3>2
    <3>4. Room(s0) \in Nat /\ n > 0
      BY <2>1, <3>3, RoomIsEnough DEF BatchInv, TypeOK
    <3>5. n' \in Nat \ {0} /\ n' <= n /\ n' <= Room(s0)
      BY <1>1, <3>1, <3>3, <3>4
    <3>6. TypeOK'
      BY <1>1, <1>2, <2>1, <3>1, <3>5 DEF TypeOK
    <3>7. /\ s0 \in Ins => n' * kernel.pop[s0] + kernel.peek[s0] <= pushed[s0] - popped[s0]
          /\ s0 \in Outs => n' * kernel.push[s0] <= SLOTS - 1 - (pushed[s0] - popped[s0])
      BY <2>1, <3>3, <3>5, RoomIsEnough
    <3>8. \A s : Measured(s)' => Measured(s) \/ s = s0
      BY <1>1, <1>3, <2>1, <3>1 DEF Measured
    <3>9. \A o, s : Past(o, s)' = 0 /\ Past(o, s) = 0
      BY <2>1, <3>1 DEF Past
    <3>10. ASSUME NEW s \in Ins, Measured(s)'
           PROVE  n' * kernel.pop[s] + kernel.peek[s] <= pushed[s] - popped[s]
      <4>1. /\ kernel.pop[s] \in Nat /\ kernel.peek[s] \in Nat /\ pushed[s] \in Nat
            /\ popped[s] \in Nat
        BY <1>1, KernelFacts DEF TypeOK
      <4>2. CASE Measured(s)
        <5>1. n * kernel.pop[s] + kernel.peek[s] <= pushed[s] - popped[s]
          BY <3>9, <4>1, <4>2 DEF BatchInv, Enough
        <5>2. n' * kernel.pop[s] <= n * kernel.pop[s]
          BY <1>1, <3>5, <4>1, Fewer
        <5>3. n * kernel.pop[s] \in Nat /\ n' * kernel.pop[s] \in Nat
          BY <1>1, <3>5, <4>1, Fewer
        <5>4. QED
          BY <4>1, <5>1, <5>2, <5>3
      <4>3. QED
        BY <3>7, <3>8, <3>10, <4>2
    <3>11. ASSUME NEW s \in Outs, Measured(s)'
           PROVE  n' * kernel.push[s] <= SLOTS - 1 - (pushed[s] - popped[s])
      <4>1. kernel.push[s] \in Nat /\ pushed[s] \in Nat /\ popped[s] \in Nat /\ SLOTS \in Nat
        BY <1>1, KernelFacts DEF TypeOK
      <4>2. CASE Measured(s)
        <5>1. n * kernel.push[s] <= SLOTS - 1 - (pushed[s] - popped[s])
          BY <3>9, <4>1, <4>2 DEF BatchInv, Roomy
        <5>2. n' * kernel.push[s] <= n * kernel.push[s]
          BY <1>1, <3>5, <4>1, Fewer
        <5>3. n * kernel.push[s] \in Nat /\ n' * kernel.push[s] \in Nat
          BY <1>1, <3>5, <4>1, Fewer
        <5>4. QED
          BY <4>1, <5>1, <5>2, <5>3
      <4>3. QED
        BY <3>7, <3>8, <3>11, <4>2
    <3>12. Enough'
      <4>1. ASSUME NEW s \in Ins PROVE pushed[s] - popped[s] + 0 = pushed[s] - popped[s]
        <5>1. pushed[s] \in Nat /\ popped[s] \in Nat
          BY <1>1, KernelFacts DEF TypeOK
        <5>2. QED
          BY ONLY <5>1
      <4>2. QED
        BY <1>2, <1>3, <3>9, <3>10, <4>1 DEF Enough
    <3>13. Roomy'
      <4>1. ASSUME NEW s \in Outs
            PROVE  SLOTS - 1 - (pushed[s] - popped[s]) + 0
                     = SLOTS - 1 - (pushed[s] - popped[s])
        <5>1. pushed[s] \in Nat /\ popped[s] \in Nat /\ SLOTS \in Nat
          BY <1>1, KernelFacts DEF TypeOK
        <5>2. QED
          BY ONLY <5>1
      <4>2. QED
        BY <1>2, <1>3, <3>9, <3>11, <4>1 DEF Roomy
    <3>14. QED
      BY <1>5, <3>6, <3>12, <3>13 DEF BatchInv
  <2>4. QED
    BY <2>2, <2>3
<1>8. CASE ComputeEnd
  <2>1. /\ pc = "scan" /\ i > Len(ScanSeq) /\ pc' = "run" /\ i' = 1 /\ n' = n
        /\ lhead' = head /\ ltail' = tail
    BY <1>8 DEF ComputeEnd
  <2>2. TypeOK'
    BY <1>1, <1>2, <1>3, <2>1, KernelFacts DEF TypeOK
  <2>3. \A s \in Ins \cup Outs : Measured(s)
    BY <1>1, <2>1, KernelFacts DEF Measured
  <2>4. \A o, s : Past(o, s)' = 0 /\ Past(o, s) = 0
    <3>1. i' - 1 = 0
      BY <2>1
    <3>2. QED
      BY <2>1, <3>1, CountStep DEF Past
  <2>5. Enough' /\ Roomy'
    BY <1>2, <1>3, <2>1, <2>3, <2>4 DEF Enough, Roomy, BatchInv
  <2>6. QED
    BY <1>5, <2>2, <2>5 DEF BatchInv
<1>9. QED
  BY <1>6, <1>7, <1>8

(* The operations that move no element of a stream.                        *)
LEMMA IdleStep ==
  ASSUME BatchInv, Kept, Peek \/ PushFuse \/ PopFuse \/ Skip
  PROVE  BatchInv'
<1>1. /\ pc = "run" /\ i <= Len(Body) /\ kernel' = kernel /\ pc' = pc /\ i' = i + 1
      /\ n' = n /\ lhead' = lhead /\ ltail' = ltail /\ UNCHANGED ring
  BY DEF Peek, PushFuse, PopFuse, Skip, Running
<1>2. /\ pushed' = pushed /\ popped' = popped /\ head' = head /\ tail' = tail
  BY <1>1 DEF ring
<1>3. Ins' = Ins /\ Outs' = Outs /\ Body' = Body
  BY <1>1, SameKernel
<1>4. (\A s \in Ins : InputOK(s))' /\ (\A s \in Outs : OutputOK(s))'
  BY <1>1, RingStays
<1>5. TypeOK'
  BY <1>1, <1>2, <1>3, KernelFacts DEF BatchInv, TypeOK
<1>6. /\ \A s \in Names : Measured(s)' /\ Measured(s)
      /\ \A o, s : Past(o, s) \in Nat /\ Past(o, s)' \in Nat /\ Past(o, s) <= Past(o, s)'
  BY <1>1, PassOn
<1>7. Ins \subseteq Names /\ Outs \subseteq Names /\ SLOTS \in Nat
  BY KernelFacts DEF BatchInv, TypeOK
<1>8. Enough'
  <2>1. SUFFICES ASSUME NEW s \in Ins
                 PROVE  n * kernel.pop[s] + kernel.peek[s]
                          <= pushed[s] - popped[s] + Past("pop", s)'
    BY <1>1, <1>2, <1>3 DEF Enough
  <2>2. n * kernel.pop[s] + kernel.peek[s] <= pushed[s] - popped[s] + Past("pop", s)
    BY <1>6, <1>7 DEF BatchInv, Enough
  <2>3. /\ n * kernel.pop[s] \in Nat /\ kernel.peek[s] \in Nat
        /\ pushed[s] \in Nat /\ popped[s] \in Nat
    BY NeedTypes
  <2>4. QED
    BY <1>6, <2>2, <2>3
<1>9. Roomy'
  <2>1. SUFFICES ASSUME NEW s \in Outs
                 PROVE  n * kernel.push[s]
                          <= SLOTS - 1 - (pushed[s] - popped[s]) + Past("push", s)'
    BY <1>1, <1>2, <1>3 DEF Roomy
  <2>2. n * kernel.push[s] <= SLOTS - 1 - (pushed[s] - popped[s]) + Past("push", s)
    BY <1>6, <1>7 DEF BatchInv, Roomy
  <2>3. n * kernel.push[s] \in Nat /\ pushed[s] \in Nat /\ popped[s] \in Nat
    BY NeedTypes
  <2>4. QED
    BY <1>6, <1>7, <2>2, <2>3
<1>10. QED
  BY <1>4, <1>5, <1>8, <1>9 DEF BatchInv

(* pop_nocheck.                                                            *)
LEMMA PopStep ==
  ASSUME BatchInv, Kept, Pop
  PROVE  BatchInv'
<1> DEFINE s0 == Body[i].s
           t == (ltail[s0] + ESZ) % BUFSZ
<1>1. /\ pc = "run" /\ i <= Len(Body) /\ Body[i].op = "pop"
      /\ kernel' = kernel /\ pc' = pc /\ i' = i + 1 /\ n' = n
      /\ lhead' = lhead /\ head' = head /\ pushed' = pushed
      /\ ltail' = [ltail EXCEPT ![s0] = t]
      /\ tail' = tail \/ tail' = [tail EXCEPT ![s0] = t]
      /\ popped' = [popped EXCEPT ![s0] = @ + 1]
  BY DEF Pop, Running
<1>2. Ins' = Ins /\ Outs' = Outs /\ Body' = Body /\ ESZ' = ESZ
  BY <1>1, SameKernel
<1>3. /\ Ins \subseteq Names /\ Outs \subseteq Names /\ Ins \cap Outs = {}
      /\ SLOTS \in Nat /\ ESZ \in Nat \ {0} /\ Len(Body) \in Nat
  BY KernelFacts DEF BatchInv, TypeOK
<1>4. TypeOK
  BY DEF BatchInv
<1>5. s0 \in Ins /\ popped[s0] < pushed[s0]
  <2>1. Body[i].o = 0
    BY <1>1, <1>4, KernelFacts DEF Kept, KeepsRates, Body, TypeOK
  <2>2. popped[s0] \in Nat /\ s0 \in Ins
    BY <1>1, <1>3, <1>4, SafeRead DEF TypeOK
  <2>3. QED
    BY <1>1, <2>1, <2>2, SafeRead
<1>6. t = At(popped[s0] + 1, ESZ) /\ t \in Nat
  <2>1. ltail[s0] = At(popped[s0], ESZ) /\ popped[s0] \in Nat
    BY <1>1, <1>3, <1>4, <1>5 DEF BatchInv, InputOK, TypeOK
  <2>2. t = At(popped[s0] + 1, ESZ)
    BY <1>3, <2>1, NextSlot DEF At, BUFSZ
  <2>3. (popped[s0] + 1) % SLOTS \in Nat
    BY <2>1, BatchAssumption, Division
  <2>4. QED
    BY <1>3, <2>2, <2>3 DEF At
<1> HIDE DEF s0, t
<1>7. TypeOK'
  <2>1. ltail' \in [Names -> Nat] /\ tail' \in [Names -> Nat]
    BY <1>1, <1>4, <1>6 DEF TypeOK
  <2>2. popped' \in [Names -> Nat]
    BY <1>1, <1>3, <1>4, <1>5 DEF TypeOK
  <2>3. i' \in Nat \ {0} /\ i' <= Len(Body) + 1
    BY <1>1, <1>3, <1>4 DEF TypeOK
  <2>4. QED
    BY <1>1, <1>2, <1>4, <2>1, <2>2, <2>3 DEF TypeOK
<1>8. ASSUME NEW s \in Ins PROVE InputOK(s)'
  <2>1. InputOK(s) /\ s \in Names /\ pushed[s] \in Nat /\ popped[s] \in Nat
    BY <1>3, <1>4 DEF BatchInv, TypeOK
  <2>2. CASE s = s0
    <3>1. PICK p \in Nat : tail[s] = At(p, ESZ) /\ p <= popped[s] /\ pushed[s] - p < SLOTS
      BY <2>1 DEF InputOK
    <3>2. popped'[s] = popped[s] + 1 /\ ltail'[s] = t
      BY <1>1, <1>4, <2>1, <2>2 DEF TypeOK
    <3>3. \E x \in Nat : /\ tail'[s] = At(x, ESZ) /\ x <= popped[s] + 1
                         /\ pushed[s] - x < SLOTS
      <4>1. CASE tail' = tail
        BY <2>1, <3>1, <4>1
      <4>2. CASE tail' = [tail EXCEPT ![s0] = t]
        <5>1. tail'[s] = At(popped[s] + 1, ESZ)
          BY <1>4, <1>6, <2>1, <2>2, <4>2 DEF TypeOK
        <5>2. popped[s] + 1 \in Nat /\ pushed[s] - (popped[s] + 1) < SLOTS
          BY <1>3, <2>1, <3>1
        <5>3. QED
          BY <5>1, <5>2
      <4>3. QED
        BY <1>1, <4>1, <4>2
    <3>4. popped[s] + 1 <= pushed[s]
      BY <1>5, <2>1, <2>2
    <3>5. ltail'[s] = At(popped'[s], ESZ)
      BY <1>6, <2>2, <3>2
    <3>6. QED
      BY <1>1, <1>2, <2>1, <3>2, <3>3, <3>4, <3>5 DEF InputOK
  <2>3. CASE s # s0
    <3>1. popped'[s] = popped[s] /\ ltail'[s] = ltail[s] /\ tail'[s] = tail[s]
      BY <1>1, <1>4, <2>1, <2>3 DEF TypeOK
    <3>2. QED
      BY <1>1, <1>2, <2>1, <3>1 DEF InputOK
  <2>4. QED
    BY <2>2, <2>3
<1>9. ASSUME NEW s \in Outs PROVE OutputOK(s)'
  <2>1. OutputOK(s) /\ s \in Names /\ s # s0
    BY <1>3, <1>5 DEF BatchInv
  <2>2. popped'[s] = popped[s] /\ tail'[s] = tail[s]
    BY <1>1, <1>4, <2>1 DEF TypeOK
  <2>3. QED
    BY <1>1, <1>2, <2>1, <2>2 DEF OutputOK
<1>10. /\ \A s \in Names : Measured(s)' /\ Measured(s)
       /\ \A o, s : /\ Past(o, s) \in Nat
                    /\ Past(o, s)' = Past(o, s)
                         + IF Body[i].op = o /\ Body[i].s = s THEN 1 ELSE 0
  BY <1>1, PassOn
<1>11. Enough'
  <2>1. SUFFICES ASSUME NEW s \in Ins
                 PROVE  n * kernel.pop[s] + kernel.peek[s]
                          <= pushed[s] - popped'[s] + Past("pop", s)'
    BY <1>1, <1>2 DEF Enough
  <2>2. n * kernel.pop[s] + kernel.peek[s] <= pushed[s] - popped[s] + Past("pop", s)
    BY <1>3, <1>10 DEF BatchInv, Enough
  <2>3. /\ n * kernel.pop[s] \in Nat /\ kernel.peek[s] \in Nat
        /\ pushed[s] \in Nat /\ popped[s] \in Nat
    BY NeedTypes
  <2>4. popped'[s] = popped[s] + IF s = s0 THEN 1 ELSE 0
    BY <1>1, <1>3, <1>4, <2>3 DEF TypeOK
  <2>5. Past("pop", s)' = Past("pop", s) + IF s = s0 THEN 1 ELSE 0
    BY <1>1, <1>10 DEF s0
  <2>6. Past("pop", s) \in Nat
    BY <1>10
  <2>7. QED
    BY <2>2, <2>3, <2>4, <2>5, <2>6
<1>12. Roomy'
  <2>1. SUFFICES ASSUME NEW s \in Outs
                 PROVE  n * kernel.push[s]
                          <= SLOTS - 1 - (pushed[s] - popped'[s]) + Past("push", s)'
    BY <1>1, <1>2 DEF Roomy
  <2>2. n * kernel.push[s] <= SLOTS - 1 - (pushed[s] - popped[s]) + Past("push", s)
    BY <1>3, <1>10 DEF BatchInv, Roomy
  <2>3. Past("push", s) = Past("push", s)' /\ popped'[s] = popped[s]
    <3>1. Past("push", s)' = Past("push", s) + 0 /\ Past("push", s) \in Nat
      BY <1>1, <1>10
    <3>2. s # s0 /\ s \in Names
      BY <1>3, <1>5
    <3>3. QED
      BY <1>1, <1>4, <3>1, <3>2 DEF TypeOK
  <2>4. QED
    BY <2>2, <2>3
<1>13. QED
  BY <1>2, <1>7, <1>8, <1>9, <1>11, <1>12 DEF BatchInv

(* push_nocheck.                                                           *)
LEMMA PushStep ==
  ASSUME BatchInv, Kept, Push
  PROVE  BatchInv'
<1> DEFINE s0 == Body[i].s
           t == (lhead[s0] + ESZ) % BUFSZ
<1>1. /\ pc = "run" /\ i <= Len(Body) /\ Body[i].op = "push" /\ Running("push")
      /\ kernel' = kernel /\ pc' = pc /\ i' = i + 1 /\ n' = n
      /\ ltail' = ltail /\ tail' = tail /\ popped' = popped
      /\ lhead' = [lhead EXCEPT ![s0] = t]
      /\ head' = head \/ head' = [head EXCEPT ![s0] = t]
      /\ pushed' = [pushed EXCEPT ![s0] = @ + 1]
  BY DEF Push, Running
<1>2. Ins' = Ins /\ Outs' = Outs /\ Body' = Body /\ ESZ' = ESZ
  BY <1>1, SameKernel
<1>3. /\ Ins \subseteq Names /\ Outs \subseteq Names /\ Ins \cap Outs = {}
      /\ SLOTS \in Nat /\ ESZ \in Nat \ {0} /\ Len(Body) \in Nat
  BY KernelFacts DEF BatchInv, TypeOK
<1>4. TypeOK
  BY DEF BatchInv
<1>5. s0 \in Outs /\ pushed[s0] - popped[s0] < SLOTS - 1
  BY <1>1, SafeWrite
<1>6. t = At(pushed[s0] + 1, ESZ) /\ t \in Nat
  <2>1. lhead[s0] = At(pushed[s0], ESZ) /\ pushed[s0] \in Nat
    BY <1>1, <1>3, <1>4, <1>5 DEF BatchInv, OutputOK, TypeOK
  <2>2. t = At(pushed[s0] + 1, ESZ)
    BY <1>3, <2>1, NextSlot DEF At, BUFSZ
  <2>3. (pushed[s0] + 1) % SLOTS \in Nat
    BY <2>1, BatchAssumption, Division
  <2>4. QED
    BY <1>3, <2>2, <2>3 DEF At
<1> HIDE DEF s0, t
<1>7. TypeOK'
  <2>1. lhead' \in [Names -> Nat] /\ head' \in [Names -> Nat]
    BY <1>1, <1>4, <1>6 DEF TypeOK
  <2>2. pushed' \in [Names -> Nat]
    BY <1>1, <1>3, <1>4, <1>5 DEF TypeOK
  <2>3. i' \in Nat \ {0} /\ i' <= Len(Body) + 1
    BY <1>1, <1>3, <1>4 DEF TypeOK
  <2>4. QED
    BY <1>1, <1>2, <1>4, <2>1, <2>2, <2>3 DEF TypeOK
<1>8. ASSUME NEW s \in Outs PROVE OutputOK(s)'
  <2>1. OutputOK(s) /\ s \in Names /\ pushed[s] \in Nat /\ popped[s] \in Nat
    BY <1>3, <1>4 DEF BatchInv, TypeOK
  <2>2. CASE s = s0
    <3>1. PICK h \in Nat : head[s] = At(h, ESZ) /\ popped[s] <= h /\ h <= pushed[s]
      BY <2>1 DEF OutputOK
    <3>2. pushed'[s] = pushed[s] + 1 /\ lhead'[s] = t
      BY <1>1, <1>4, <2>1, <2>2 DEF TypeOK
    <3>3. \E x \in Nat : head'[s] = At(x, ESZ) /\ popped[s] <= x /\ x <= pushed[s] + 1
      <4>1. CASE head' = head
        BY <2>1, <3>1, <4>1
      <4>2. CASE head' = [head EXCEPT ![s0] = t]
        <5>1. head'[s] = At(pushed[s] + 1, ESZ)
          BY <1>4, <1>6, <2>1, <2>2, <4>2 DEF TypeOK
        <5>2. pushed[s] + 1 \in Nat /\ popped[s] <= pushed[s] + 1
          BY <2>1, <3>1
        <5>3. QED
          BY <5>1, <5>2
      <4>3. QED
        BY <1>1, <4>1, <4>2
    <3>4. pushed[s] + 1 - popped[s] < SLOTS
      BY <1>3, <1>5, <2>1, <2>2
    <3>5. lhead'[s] = At(pushed'[s], ESZ)
      BY <1>6, <2>2, <3>2
    <3>6. QED
      BY <1>1, <1>2, <2>1, <3>2, <3>3, <3>4, <3>5 DEF OutputOK
  <2>3. CASE s # s0
    <3>1. pushed'[s] = pushed[s] /\ lhead'[s] = lhead[s] /\ head'[s] = head[s]
      BY <1>1, <1>4, <2>1, <2>3 DEF TypeOK
    <3>2. QED
      BY <1>1, <1>2, <2>1, <3>1 DEF OutputOK
  <2>4. QED
    BY <2>2, <2>3
<1>9. ASSUME NEW s \in Ins PROVE InputOK(s)'
  <2>1. InputOK(s) /\ s \in Names /\ s # s0
    BY <1>3, <1>5 DEF BatchInv
  <2>2. pushed'[s] = pushed[s] /\ head'[s] = head[s]
    BY <1>1, <1>4, <2>1 DEF TypeOK
  <2>3. QED
    BY <1>1, <1>2, <2>1, <2>2 DEF InputOK
<1>10. /\ \A s \in Names : Measured(s)' /\ Measured(s)
       /\ \A o, s : /\ Past(o, s) \in Nat
                    /\ Past(o, s)' = Past(o, s)
                         + IF Body[i].op = o /\ Body[i].s = s THEN 1 ELSE 0
  BY <1>1, PassOn
<1>11. Roomy'
  <2>1. SUFFICES ASSUME NEW s \in Outs
                 PROVE  n * kernel.push[s]
                          <= SLOTS - 1 - (pushed'[s] - popped[s]) + Past("push", s)'
    BY <1>1, <1>2 DEF Roomy
  <2>2. n * kernel.push[s] <= SLOTS - 1 - (pushed[s] - popped[s]) + Past("push", s)
    BY <1>3, <1>10 DEF BatchInv, Roomy
  <2>3. n * kernel.push[s] \in Nat /\ pushed[s] \in Nat /\ popped[s] \in Nat
    BY NeedTypes
  <2>4. pushed'[s] = pushed[s] + IF s = s0 THEN 1 ELSE 0
    BY <1>1, <1>3, <1>4, <2>3 DEF TypeOK
  <2>5. Past("push", s)' = Past("push", s) + IF s = s0 THEN 1 ELSE 0
    BY <1>1, <1>10 DEF s0
  <2>6. Past("push", s) \in Nat
    BY <1>10
  <2> DEFINE need == n * kernel.push[s]
             a == pushed[s]
             b == popped[s]
             c == Past("push", s)
             more == IF s = s0 THEN 1 ELSE 0
  <2>7. /\ SLOTS \in Nat /\ need \in Nat /\ a \in Nat /\ b \in Nat /\ c \in Nat
        /\ more \in Nat /\ need <= SLOTS - 1 - (a - b) + c
    BY <1>3, <2>2, <2>3, <2>6
  <2>8. pushed'[s] = a + more /\ Past("push", s)' = c + more
    BY ONLY <2>4, <2>5
  <2> HIDE DEF need, a, b, c, more
  <2>9. need <= SLOTS - 1 - ((a + more) - b) + (c + more)
    BY ONLY <2>7
  <2>10. need <= SLOTS - 1 - (pushed'[s] - b) + Past("push", s)'
    BY ONLY <2>8, <2>9
  <2>11. QED
    BY ONLY <2>10 DEF need, b
<1>12. Enough'
  <2>1. SUFFICES ASSUME NEW s \in Ins
                 PROVE  n * kernel.pop[s] + kernel.peek[s]
                          <= pushed'[s] - popped[s] + Past("pop", s)'
    BY <1>1, <1>2 DEF Enough
  <2>2. n * kernel.pop[s] + kernel.peek[s] <= pushed[s] - popped[s] + Past("pop", s)
    BY <1>3, <1>10 DEF BatchInv, Enough
  <2>3. Past("pop", s) = Past("pop", s)' /\ pushed'[s] = pushed[s]
    <3>1. Past("pop", s)' = Past("pop", s) + 0 /\ Past("pop", s) \in Nat
      BY <1>1, <1>10
    <3>2. s # s0 /\ s \in Names
      BY <1>3, <1>5
    <3>3. QED
      BY <1>1, <1>4, <3>1, <3>2 DEF TypeOK
  <2>4. QED
    BY <2>2, <2>3
<1>13. QED
  BY <1>2, <1>7, <1>8, <1>9, <1>11, <1>12 DEF BatchInv

(* The end of an iteration: what it did is at most its rates.              *)
LEMMA IterateStep ==
  ASSUME BatchInv, Kept, Iterate
  PROVE  BatchInv'
<1>1. /\ pc = "run" /\ i > Len(Body) /\ kernel' = kernel /\ n' = n - 1 /\ i' = 1
      /\ tail' = [s \in Names |-> IF s \in Ins THEN ltail[s] ELSE tail[s]]
      /\ head' = [s \in Names |-> IF s \in Outs THEN lhead[s] ELSE head[s]]
      /\ lhead' = lhead /\ ltail' = ltail /\ pushed' = pushed /\ popped' = popped
      /\ pc' \in {"done", "idle", "run"} /\ (pc' = "run" => n # 1)
  BY DEF Iterate
<1>2. Ins' = Ins /\ Outs' = Outs /\ Body' = Body /\ ESZ' = ESZ
  BY <1>1, SameKernel
<1>3. /\ Ins \subseteq Names /\ Outs \subseteq Names /\ Ins \cap Outs = {}
      /\ SLOTS \in Nat /\ Len(Body) \in Nat
  BY KernelFacts DEF BatchInv, TypeOK
<1>4. TypeOK /\ n \in Nat \ {0} /\ i = Len(Body) + 1
  BY <1>1, <1>3 DEF BatchInv, TypeOK
<1>5. TypeOK'
  <2>1. head' \in [Names -> Nat] /\ tail' \in [Names -> Nat]
    BY <1>1, <1>4 DEF TypeOK
  <2>2. i' \in Nat \ {0} /\ n' \in Nat /\ (pc' = "run" => n' > 0) /\ i' <= Len(Body) + 1
    BY <1>1, <1>3, <1>4
  <2>3. QED
    BY <1>1, <1>2, <1>4, <2>1, <2>2 DEF TypeOK
<1>6. ASSUME NEW s \in Ins PROVE InputOK(s)'
  <2>1. InputOK(s) /\ pushed[s] \in Nat /\ popped[s] \in Nat
    BY NeedTypes DEF BatchInv
  <2>2. head'[s] = head[s] /\ tail'[s] = At(popped[s], ESZ)
    BY <1>1, <1>3, <2>1 DEF InputOK
  <2>3. pushed[s] - popped[s] < SLOTS
    BY <1>3, <2>1 DEF InputOK
  <2>4. QED
    BY <1>1, <1>2, <2>1, <2>2, <2>3 DEF InputOK
<1>7. ASSUME NEW s \in Outs PROVE OutputOK(s)'
  <2>1. OutputOK(s) /\ pushed[s] \in Nat /\ popped[s] \in Nat
    BY NeedTypes DEF BatchInv
  <2>2. tail'[s] = tail[s] /\ head'[s] = At(pushed[s], ESZ)
    BY <1>1, <1>3, <2>1 DEF OutputOK
  <2>3. popped[s] <= pushed[s]
    BY <2>1 DEF OutputOK
  <2>4. QED
    BY <1>1, <1>2, <2>1, <2>2, <2>3 DEF OutputOK
<1>8. KeepsRates(kernel)
  BY <1>4 DEF TypeOK, Kept
<1>9. ASSUME pc' = "run" PROVE Enough' /\ Roomy'
  <2>1. i - 1 = Len(Body) /\ i' - 1 = 0
    BY <1>1, <1>3, <1>4
  <2>2. \A o, s : /\ Past(o, s) = Count(Body, o, s, Len(Body))
                  /\ Past(o, s)' = Count(Body, o, s, 0)
    BY <1>1, <1>2, <1>9, <2>1 DEF Past
  <2>3. \A o, s : Past(o, s)' = 0 /\ Past(o, s) \in Nat
    BY <1>3, <2>2, CountStep
  <2>4. \A s : Measured(s)
    BY <1>1 DEF Measured
  <2>5. ASSUME NEW s \in Ins
        PROVE  (n - 1) * kernel.pop[s] + kernel.peek[s] <= pushed[s] - popped[s] + 0
    <3>1. Past("pop", s) <= kernel.pop[s]
      BY <1>8, <2>2 DEF KeepsRates, Ins, Body
    <3>2. n * kernel.pop[s] + kernel.peek[s] <= pushed[s] - popped[s] + Past("pop", s)
      BY <2>4 DEF BatchInv, Enough
    <3>3. /\ n * kernel.pop[s] \in Nat /\ kernel.peek[s] \in Nat /\ kernel.pop[s] \in Nat
          /\ pushed[s] \in Nat /\ popped[s] \in Nat
      BY NeedTypes
    <3>4. (n - 1) * kernel.pop[s] = n * kernel.pop[s] - kernel.pop[s]
      BY <1>4, <3>3, OneOf
    <3>5. QED
      BY <2>3, <3>1, <3>2, <3>3, <3>4
  <2>6. ASSUME NEW s \in Outs
        PROVE  (n - 1) * kernel.push[s] <= SLOTS - 1 - (pushed[s] - popped[s]) + 0
    <3>1. Past("push", s) <= kernel.push[s]
      BY <1>8, <2>2 DEF KeepsRates, Outs, Body
    <3>2. n * kernel.push[s] <= SLOTS - 1 - (pushed[s] - popped[s]) + Past("push", s)
      BY <2>4 DEF BatchInv, Roomy
    <3>3. /\ n * kernel.push[s] \in Nat /\ kernel.push[s] \in Nat
          /\ pushed[s] \in Nat /\ popped[s] \in Nat
      BY NeedTypes
    <3>4. (n - 1) * kernel.push[s] = n * kernel.push[s] - kernel.push[s]
      BY <1>4, <3>3, OneOf
    <3>5. QED
      BY <1>3, <2>3, <3>1, <3>2, <3>3, <3>4
  <2>7. QED
    BY <1>1, <1>2, <2>3, <2>5, <2>6 DEF Enough, Roomy
<1>10. ASSUME pc' # "run" PROVE Enough' /\ Roomy'
  <2>1. \A s : ~Measured(s)'
    BY <1>1, <1>10 DEF Measured
  <2>2. QED
    BY <2>1 DEF Enough, Roomy
<1>11. QED
  BY <1>2, <1>5, <1>6, <1>7, <1>9, <1>10 DEF BatchInv

(* A push of the kernel at the other end of an input.                      *)
LEMMA EnvPushStep ==
  ASSUME BatchInv, Kept, NEW s0 \in Names, EnvPush(s0)
  PROVE  BatchInv'
<1>1. /\ s0 \in Ins /\ (head[s0] + ESZ) % BUFSZ # tail[s0]
      /\ head' = [head EXCEPT ![s0] = (head[s0] + ESZ) % BUFSZ]
      /\ pushed' = [pushed EXCEPT ![s0] = @ + 1]
      /\ kernel' = kernel /\ tail' = tail /\ lhead' = lhead /\ ltail' = ltail
      /\ popped' = popped /\ pc' = pc /\ i' = i /\ n' = n
  BY DEF EnvPush
<1>2. /\ Ins' = Ins /\ Outs' = Outs /\ Body' = Body /\ ESZ' = ESZ /\ ScanSeq' = ScanSeq
  BY <1>1, SameKernel
<1>3. /\ Ins \subseteq Names /\ Outs \subseteq Names /\ Ins \cap Outs = {}
      /\ SLOTS \in Nat \ {0} /\ ESZ \in Nat \ {0}
  BY KernelFacts DEF BatchInv, TypeOK
<1>4. TypeOK /\ pushed[s0] \in Nat /\ popped[s0] \in Nat /\ InputOK(s0)
  BY <1>1, <1>3 DEF BatchInv, TypeOK
<1>5. (head[s0] + ESZ) % BUFSZ = At(pushed[s0] + 1, ESZ)
  BY <1>3, <1>4, NextSlot DEF At, BUFSZ, InputOK
<1>6. At(pushed[s0] + 1, ESZ) \in Nat
  <2>1. pushed[s0] + 1 \in Nat
    BY <1>4
  <2>2. (pushed[s0] + 1) % SLOTS \in Nat
    BY <1>3, <2>1, Division
  <2>3. QED
    BY <1>3, <2>2 DEF At
<1>7. TypeOK'
  <2>1. head' \in [Names -> Nat] /\ pushed' \in [Names -> Nat]
    BY <1>1, <1>4, <1>5, <1>6 DEF TypeOK
  <2>2. QED
    BY <1>1, <1>2, <1>4, <2>1 DEF TypeOK
<1>8. ASSUME NEW s \in Ins PROVE InputOK(s)'
  <2>1. InputOK(s) /\ s \in Names
    BY <1>3 DEF BatchInv
  <2>2. CASE s = s0
    <3>1. PICK p \in Nat : /\ tail[s0] = At(p, ESZ) /\ p <= popped[s0]
                           /\ pushed[s0] - p < SLOTS /\ (pc # "run" => p = popped[s0])
      BY <1>4 DEF InputOK
    <3>2. pushed[s0] + 1 # p + SLOTS
      <4>1. (p + SLOTS) % SLOTS = p % SLOTS
        BY <1>3, StepOn
      <4>2. QED
        BY <1>1, <1>5, <3>1, <4>1 DEF At
    <3>3. pushed[s0] + 1 - p < SLOTS
      BY <1>3, <1>4, <3>1, <3>2
    <3>4. pushed'[s] = pushed[s0] + 1 /\ head'[s] = At(pushed[s0] + 1, ESZ)
      BY <1>1, <1>4, <1>5, <2>1, <2>2 DEF TypeOK
    <3>5. popped[s0] <= pushed[s0] + 1
      BY <1>4 DEF InputOK
    <3>6. QED
      BY <1>1, <1>2, <1>4, <2>2, <3>1, <3>3, <3>4, <3>5 DEF InputOK
  <2>3. CASE s # s0
    <3>1. pushed'[s] = pushed[s] /\ head'[s] = head[s]
      BY <1>1, <1>4, <2>1, <2>3 DEF TypeOK
    <3>2. QED
      BY <1>1, <1>2, <2>1, <3>1 DEF InputOK
  <2>4. QED
    BY <2>2, <2>3
<1>9. \A s \in Outs : pushed'[s] = pushed[s] /\ head'[s] = head[s]
  BY <1>1, <1>3, <1>4 DEF TypeOK
<1>10. ASSUME NEW s \in Outs PROVE OutputOK(s)'
  BY <1>1, <1>2, <1>9 DEF OutputOK, BatchInv
<1>11. \A o, s : Past(o, s)' = Past(o, s) /\ (Measured(s)' <=> Measured(s))
  BY <1>1, <1>2 DEF Past, Measured
<1>12. Roomy'
  BY <1>1, <1>2, <1>9, <1>11 DEF BatchInv, Roomy
<1>13. Enough'
  <2>1. SUFFICES ASSUME NEW s \in Ins, Measured(s)
                 PROVE  n * kernel.pop[s] + kernel.peek[s]
                          <= pushed'[s] - popped[s] + Past("pop", s)
    BY <1>1, <1>2, <1>11 DEF Enough
  <2>2. n * kernel.pop[s] + kernel.peek[s] <= pushed[s] - popped[s] + Past("pop", s)
    BY <2>1 DEF BatchInv, Enough
  <2>3. /\ n * kernel.pop[s] \in Nat /\ kernel.peek[s] \in Nat
        /\ pushed[s] \in Nat /\ popped[s] \in Nat
    BY NeedTypes
  <2>4. pushed'[s] \in Nat /\ pushed'[s] >= pushed[s]
    <3>1. pushed \in [Names -> Nat] /\ s \in Names
      BY ONLY <1>3, <1>4, s \in Ins DEF TypeOK
    <3>2. pushed'[s] = IF s = s0 THEN pushed[s] + 1 ELSE pushed[s]
      BY ONLY <1>1, <3>1
    <3>3. QED
      BY ONLY <2>3, <3>2
  <2>5. Past("pop", s) \in Nat
    BY <1>4, PastType
  <2>6. QED
    BY <2>2, <2>3, <2>4, <2>5
<1>14. QED
  BY <1>2, <1>7, <1>8, <1>10, <1>12, <1>13 DEF BatchInv

(* A pop of the kernel at the other end of an output.                      *)
LEMMA EnvPopStep ==
  ASSUME BatchInv, Kept, NEW s0 \in Names, EnvPop(s0)
  PROVE  BatchInv'
<1>1. /\ s0 \in Outs /\ head[s0] # tail[s0]
      /\ tail' = [tail EXCEPT ![s0] = (tail[s0] + ESZ) % BUFSZ]
      /\ popped' = [popped EXCEPT ![s0] = @ + 1]
      /\ kernel' = kernel /\ head' = head /\ lhead' = lhead /\ ltail' = ltail
      /\ pushed' = pushed /\ pc' = pc /\ i' = i /\ n' = n
  BY DEF EnvPop
<1>2. /\ Ins' = Ins /\ Outs' = Outs /\ Body' = Body /\ ESZ' = ESZ /\ ScanSeq' = ScanSeq
  BY <1>1, SameKernel
<1>3. /\ Ins \subseteq Names /\ Outs \subseteq Names /\ Ins \cap Outs = {}
      /\ SLOTS \in Nat \ {0} /\ ESZ \in Nat \ {0}
  BY KernelFacts DEF BatchInv, TypeOK
<1>4. TypeOK /\ pushed[s0] \in Nat /\ popped[s0] \in Nat /\ OutputOK(s0)
  BY <1>1, <1>3 DEF BatchInv, TypeOK
<1>5. (tail[s0] + ESZ) % BUFSZ = At(popped[s0] + 1, ESZ)
  BY <1>3, <1>4, NextSlot DEF At, BUFSZ, OutputOK
<1>6. At(popped[s0] + 1, ESZ) \in Nat
  <2>1. (popped[s0] + 1) % SLOTS \in Nat
    BY <1>3, <1>4, Division
  <2>2. QED
    BY <1>3, <2>1 DEF At
<1>7. TypeOK'
  <2>1. tail' \in [Names -> Nat] /\ popped' \in [Names -> Nat]
    BY <1>1, <1>4, <1>5, <1>6 DEF TypeOK
  <2>2. QED
    BY <1>1, <1>2, <1>4, <2>1 DEF TypeOK
<1>8. ASSUME NEW s \in Outs PROVE OutputOK(s)'
  <2>1. OutputOK(s) /\ s \in Names
    BY <1>3 DEF BatchInv
  <2>2. CASE s = s0
    <3>1. PICK h \in Nat : /\ head[s0] = At(h, ESZ) /\ popped[s0] <= h /\ h <= pushed[s0]
                           /\ (pc # "run" => h = pushed[s0])
      BY <1>4 DEF OutputOK
    <3>2. h # popped[s0]
      BY <1>1, <1>4, <3>1 DEF OutputOK
    <3>3. popped[s0] + 1 <= h /\ pushed[s0] - (popped[s0] + 1) < SLOTS
      BY <1>3, <1>4, <3>1, <3>2 DEF OutputOK
    <3>4. popped'[s] = popped[s0] + 1 /\ tail'[s] = At(popped[s0] + 1, ESZ)
      BY <1>1, <1>4, <1>5, <2>1, <2>2 DEF TypeOK
    <3>5. QED
      BY <1>1, <1>2, <1>4, <2>2, <3>1, <3>3, <3>4 DEF OutputOK
  <2>3. CASE s # s0
    <3>1. popped'[s] = popped[s] /\ tail'[s] = tail[s]
      BY <1>1, <1>4, <2>1, <2>3 DEF TypeOK
    <3>2. QED
      BY <1>1, <1>2, <2>1, <3>1 DEF OutputOK
  <2>4. QED
    BY <2>2, <2>3
<1>9. \A s \in Ins : popped'[s] = popped[s] /\ tail'[s] = tail[s]
  BY <1>1, <1>3, <1>4 DEF TypeOK
<1>10. ASSUME NEW s \in Ins PROVE InputOK(s)'
  BY <1>1, <1>2, <1>9 DEF InputOK, BatchInv
<1>11. \A o, s : Past(o, s)' = Past(o, s) /\ (Measured(s)' <=> Measured(s))
  BY <1>1, <1>2 DEF Past, Measured
<1>12. Enough'
  BY <1>1, <1>2, <1>9, <1>11 DEF BatchInv, Enough
<1>13. Roomy'
  <2>1. SUFFICES ASSUME NEW s \in Outs, Measured(s)
                 PROVE  n * kernel.push[s]
                          <= SLOTS - 1 - (pushed[s] - popped'[s]) + Past("push", s)
    BY <1>1, <1>2, <1>11 DEF Roomy
  <2>2. n * kernel.push[s] <= SLOTS - 1 - (pushed[s] - popped[s]) + Past("push", s)
    BY <2>1 DEF BatchInv, Roomy
  <2>3. n * kernel.push[s] \in Nat /\ pushed[s] \in Nat /\ popped[s] \in Nat
    BY NeedTypes
  <2>4. popped'[s] \in Nat /\ popped'[s] >= popped[s]
    BY <1>1, <1>3, <1>4, <2>3 DEF TypeOK
  <2>5. Past("push", s) \in Nat
    BY <1>4, PastType
  <2>6. QED
    BY <1>3, <2>2, <2>3, <2>4, <2>5
<1>14. QED
  BY <1>2, <1>7, <1>8, <1>10, <1>12, <1>13 DEF BatchInv

(* Every step preserves the invariant.                                     *)
LEMMA StepInv ==
  ASSUME BatchInv, Kept, [Next]_vars
  PROVE  BatchInv'
<1>1. CASE ComputeBegin \/ ComputeStream \/ ComputeEnd
  BY <1>1, ScanStep
<1>2. CASE Peek \/ PushFuse \/ PopFuse \/ Skip
  BY <1>2, IdleStep
<1>3. CASE Pop
  BY <1>3, PopStep
<1>4. CASE Push
  BY <1>4, PushStep
<1>5. CASE Iterate
  BY <1>5, IterateStep
<1>6. CASE \E s \in Names : EnvPush(s) \/ EnvPop(s)
  BY <1>6, EnvPushStep, EnvPopStep
<1>7. CASE Finished \/ UNCHANGED vars
  <2>1. UNCHANGED vars
    BY <1>7 DEF Finished
  <2>2. /\ kernel' = kernel /\ head' = head /\ tail' = tail /\ lhead' = lhead
        /\ ltail' = ltail /\ pushed' = pushed /\ popped' = popped /\ pc' = pc
        /\ i' = i /\ n' = n
    BY <2>1 DEF vars
  <2>3. Ins' = Ins /\ Outs' = Outs /\ Body' = Body /\ ESZ' = ESZ /\ ScanSeq' = ScanSeq
    BY <2>2, SameKernel
  <2>4. (\A s \in Ins : InputOK(s))' /\ (\A s \in Outs : OutputOK(s))'
    BY <2>2, RingStays DEF ring
  <2>5. \A o, s : Past(o, s)' = Past(o, s) /\ (Measured(s)' <=> Measured(s))
    BY <2>2, <2>3 DEF Past, Measured
  <2>6. Enough' /\ Roomy'
    BY <2>2, <2>3, <2>5 DEF BatchInv, Enough, Roomy
  <2>7. TypeOK'
    BY <2>2, <2>3 DEF BatchInv, TypeOK
  <2>8. QED
    BY <2>4, <2>6, <2>7 DEF BatchInv
<1>8. QED
  BY <1>1, <1>2, <1>3, <1>4, <1>5, <1>6, <1>7 DEF Next, Kernel
-----------------------------------------------------------------------------
(***************************************************************************)
(* The invariant of a batch: at every moment each stream that              *)
(* compute_niters has looked at holds the elements, or the free slots, of  *)
(* the iterations still to run, whatever the neighbours did since.         *)
(***************************************************************************)
THEOREM BatchInvariance == ASSUME Kept PROVE Spec => []BatchInv
<1>1. Init => BatchInv
  BY InitInv
<1>2. BatchInv /\ [Next]_vars => BatchInv'
  BY StepInv
<1>3. QED
  BY <1>1, <1>2, PTL DEF Spec

(***************************************************************************)
(* The untested pop_nocheck and peek_nocheck of a batch never read an      *)
(* element that was not pushed yet.                                        *)
(***************************************************************************)
THEOREM ReadsArePushed == ASSUME Kept PROVE Spec => []NoUnderrun
<1>1. BatchInv => NoUnderrun
  BY SafeRead DEF NoUnderrun
<1>2. QED
  BY <1>1, BatchInvariance, PTL

(***************************************************************************)
(* The untested push_nocheck of a batch never overwrites an element that   *)
(* was not popped yet.                                                     *)
(***************************************************************************)
THEOREM WritesAreFree == ASSUME Kept PROVE Spec => []NoOverrun
<1>1. BatchInv => NoOverrun
  BY SafeWrite DEF NoOverrun
<1>2. QED
  BY <1>1, BatchInvariance, PTL
-----------------------------------------------------------------------------
(* The buffers of a fused kernel.                                          *)

(* The first part of a fused body writes no more than a buffer holds, the  *)
(* second reads only what was written, and all of it; none of it depends   *)
(* on a condition.  What niters in SKIRFusion is for.                      *)
Balanced(c) ==
  LET b == c.body IN
  /\ Range(c.ints) \subseteq Names
  /\ \A m \in DOMAIN b : b[m].op \in {"push_fuse", "pop_fuse"} => ~b[m].cond
  /\ \A s \in Range(c.ints) :
       /\ FUSE * Count(b, "push_fuse", s, Len(b)) <= c.push[s] * c.esz
       /\ c.push[s] * c.esz \in Nat
       /\ Count(b, "pop_fuse", s, Len(b)) = Count(b, "push_fuse", s, Len(b))
       /\ \A j \in 0 .. Len(b) :
            Count(b, "pop_fuse", s, j) <= Count(b, "push_fuse", s, j)

(* What is written and read is what the iteration has passed.              *)
FuseInv ==
  /\ wr \in [Names -> Nat] /\ rd \in [Names -> Nat]
  /\ \A s \in Range(kernel.ints) : /\ wr[s] = FUSE * Past("push_fuse", s)
                                   /\ rd[s] = FUSE * Past("pop_fuse", s)

(* Every step keeps it so.                                                 *)
LEMMA FuseStep ==
  ASSUME BatchInv, Kept, \A c \in Compiled : Balanced(c), FuseInv, [Next]_vars
  PROVE  FuseInv'
<1> DEFINE Ints == Range(kernel.ints)
<1>1. kernel' = kernel
  BY DEF Next, Kernel, ComputeBegin, ComputeStream, ComputeEnd, Pop, Peek, Push, PushFuse,
         PopFuse, Skip, Iterate, EnvPush, EnvPop, Finished, vars
<1>2. Body' = Body /\ Ints' = Ints
  BY <1>1, SameKernel
<1>3. /\ i \in Nat \ {0} /\ kernel \in Compiled /\ Len(Body) \in Nat
      /\ DOMAIN Body = 1 .. Len(Body) /\ Balanced(kernel)
  BY KernelFacts DEF BatchInv, TypeOK
<1>4. Ints \subseteq Names
  BY <1>3 DEF Balanced
<1>5. CASE UNCHANGED <<wr, rd, i>> /\ (pc' = "run" <=> pc = "run")
  <2>1. \A o, s : Past(o, s)' = Past(o, s)
    BY <1>2, <1>5 DEF Past
  <2>2. QED
    BY <1>2, <1>5, <2>1 DEF FuseInv
<1>6. CASE UNCHANGED <<wr, rd>> /\ pc # "run" /\ pc' # "run"
  <2>1. \A o, s : Past(o, s)' = Past(o, s)
    BY <1>6 DEF Past
  <2>2. QED
    BY <1>2, <1>6, <2>1 DEF FuseInv
<1>7. CASE ComputeEnd
  <2>1. \A o, s : Past(o, s)' = Past(o, s)
    <3>1. i' - 1 = 0 /\ pc' = "run" /\ pc # "run"
      BY <1>7 DEF ComputeEnd
    <3>2. QED
      BY <1>2, <3>1, CountStep DEF Past
  <2>2. wr' = wr /\ rd' = rd
    BY <1>7 DEF ComputeEnd
  <2>3. QED
    BY <1>2, <2>1, <2>2 DEF FuseInv
<1>8. CASE Iterate
  <2>1. wr' = zero /\ rd' = zero /\ i' = 1
    BY <1>8 DEF Iterate
  <2>2. \A o, s : Past(o, s)' = 0
    <3>1. i' - 1 = 0
      BY <2>1
    <3>2. QED
      BY <1>2, <3>1, CountStep DEF Past
  <2>3. FUSE * 0 = 0
    BY DEF FUSE
  <2>4. QED
    BY <1>2, <1>4, <2>1, <2>2, <2>3 DEF FuseInv, zero
<1>9. ASSUME pc = "run", i <= Len(Body), pc' = pc, i' = i + 1, n' = n
      PROVE  \A o, s : /\ Past(o, s) \in Nat
                       /\ Past(o, s)' = Past(o, s)
                            + IF Body[i].op = o /\ Body[i].s = s THEN 1 ELSE 0
  BY <1>1, <1>9, PassOn
<1>10. CASE Pop \/ Push \/ Peek \/ Skip
  <2>1. /\ pc = "run" /\ i <= Len(Body) /\ pc' = pc /\ i' = i + 1 /\ n' = n
        /\ wr' = wr /\ rd' = rd
        /\ Body[i].op \in {"pop", "push", "peek"} \/ Body[i].cond
    BY <1>10 DEF Pop, Push, Peek, Skip, Running
  <2>2. Body[i].op \notin {"push_fuse", "pop_fuse"}
    BY <1>3, <2>1 DEF Balanced, Body
  <2>3. \A s : /\ Past("push_fuse", s)' = Past("push_fuse", s)
               /\ Past("pop_fuse", s)' = Past("pop_fuse", s)
    BY <1>9, <2>1, <2>2
  <2>4. QED
    BY <1>2, <2>1, <2>3 DEF FuseInv
<1>11. CASE PushFuse
  <2>1. /\ pc = "run" /\ i <= Len(Body) /\ pc' = pc /\ i' = i + 1 /\ n' = n
        /\ wr' = [wr EXCEPT ![Body[i].s] = @ + FUSE] /\ rd' = rd
        /\ Body[i].op = "push_fuse"
    BY <1>11 DEF PushFuse, Running
  <2>2. ASSUME NEW s \in Ints
        PROVE  wr'[s] = FUSE * Past("push_fuse", s)' /\ rd'[s] = FUSE * Past("pop_fuse", s)'
    <3>1. /\ Past("push_fuse", s) \in Nat /\ Past("pop_fuse", s)' = Past("pop_fuse", s)
          /\ Past("push_fuse", s)' = Past("push_fuse", s) + IF Body[i].s = s THEN 1 ELSE 0
      BY <1>9, <2>1
    <3>2. wr'[s] = wr[s] + IF Body[i].s = s THEN FUSE ELSE 0
      BY <1>4, <2>1 DEF FuseInv, FUSE
    <3>3. wr[s] = FUSE * Past("push_fuse", s) /\ rd[s] = FUSE * Past("pop_fuse", s)
      BY DEF FuseInv
    <3>4. QED
      BY <2>1, <3>1, <3>2, <3>3 DEF FUSE
  <2>3. wr' \in [Names -> Nat] /\ rd' \in [Names -> Nat]
    <3>1. wr \in [Names -> Nat] /\ rd \in [Names -> Nat]
      BY DEF FuseInv
    <3>2. \A x \in Nat : x + FUSE \in Nat
      BY DEF FUSE
    <3>3. wr' = [s \in Names |-> IF s = Body[i].s THEN wr[s] + FUSE ELSE wr[s]]
      BY <2>1, <3>1
    <3>4. wr' \in [Names -> Nat]
      BY <3>1, <3>2, <3>3
    <3>5. QED
      BY <2>1, <3>1, <3>4
  <2>4. QED
    BY <1>2, <2>2, <2>3 DEF FuseInv
<1>12. CASE PopFuse
  <2>1. /\ pc = "run" /\ i <= Len(Body) /\ pc' = pc /\ i' = i + 1 /\ n' = n
        /\ rd' = [rd EXCEPT ![Body[i].s] = @ + FUSE] /\ wr' = wr
        /\ Body[i].op = "pop_fuse"
    BY <1>12 DEF PopFuse, Running
  <2>2. ASSUME NEW s \in Ints
        PROVE  wr'[s] = FUSE * Past("push_fuse", s)' /\ rd'[s] = FUSE * Past("pop_fuse", s)'
    <3>1. /\ Past("pop_fuse", s) \in Nat /\ Past("push_fuse", s)' = Past("push_fuse", s)
          /\ Past("pop_fuse", s)' = Past("pop_fuse", s) + IF Body[i].s = s THEN 1 ELSE 0
      BY <1>9, <2>1
    <3>2. rd'[s] = rd[s] + IF Body[i].s = s THEN FUSE ELSE 0
      BY <1>4, <2>1 DEF FuseInv, FUSE
    <3>3. wr[s] = FUSE * Past("push_fuse", s) /\ rd[s] = FUSE * Past("pop_fuse", s)
      BY DEF FuseInv
    <3>4. QED
      BY <2>1, <3>1, <3>2, <3>3 DEF FUSE
  <2>3. wr' \in [Names -> Nat] /\ rd' \in [Names -> Nat]
    <3>1. wr \in [Names -> Nat] /\ rd \in [Names -> Nat]
      BY DEF FuseInv
    <3>2. \A x \in Nat : x + FUSE \in Nat
      BY DEF FUSE
    <3>3. rd' = [s \in Names |-> IF s = Body[i].s THEN rd[s] + FUSE ELSE rd[s]]
      BY <2>1, <3>1
    <3>4. rd' \in [Names -> Nat]
      BY <3>1, <3>2, <3>3
    <3>5. QED
      BY <2>1, <3>1, <3>4
  <2>4. QED
    BY <1>2, <2>2, <2>3 DEF FuseInv
<1>13. CASE ComputeBegin \/ ComputeStream
  BY <1>6, <1>13 DEF ComputeBegin, ComputeStream
<1>14. CASE (\E s \in Names : EnvPush(s) \/ EnvPop(s)) \/ Finished \/ UNCHANGED vars
  BY <1>5, <1>14 DEF EnvPush, EnvPop, Finished, vars
<1>15. QED
  BY <1>7, <1>8, <1>10, <1>11, <1>12, <1>13, <1>14 DEF Next, Kernel

(***************************************************************************)
(* A fused kernel whose two parts are balanced in one iteration never      *)
(* writes past a buffer between them, reads only what it wrote, and leaves *)
(* nothing behind.                                                         *)
(***************************************************************************)
THEOREM BuffersAreExact ==
  ASSUME Kept, \A c \in Compiled : Balanced(c) PROVE Spec => []BufferExact
<1>1. Init => FuseInv
  <2>1. SUFFICES ASSUME Init PROVE FuseInv
    OBVIOUS
  <2>2. \A o, s : Past(o, s) = 0
    BY <2>1 DEF Init, Past
  <2>3. Range(kernel.ints) \subseteq Names
    BY <2>1 DEF Init, Balanced
  <2>4. FUSE * 0 = 0
    BY DEF FUSE
  <2>5. QED
    BY <2>1, <2>2, <2>3, <2>4 DEF Init, zero, FuseInv
<1>2. BatchInv /\ FuseInv /\ [Next]_vars => FuseInv'
  BY FuseStep
<1>3. BatchInv /\ FuseInv => BufferExact
  <2>1. SUFFICES ASSUME BatchInv, FuseInv, NEW s \in Range(kernel.ints)
                 PROVE  /\ wr[s] <= kernel.push[s] * ESZ /\ rd[s] <= wr[s]
                        /\ pc = "run" /\ i > Len(Body) => rd[s] = wr[s]
    BY DEF BufferExact
  <2> DEFINE w == Past("push_fuse", s)
             r == Past("pop_fuse", s)
             all == Count(Body, "push_fuse", s, Len(Body))
             size == kernel.push[s] * ESZ
  <2>2. Balanced(kernel) /\ Len(Body) \in Nat /\ TypeOK
    BY <2>1, KernelFacts DEF BatchInv, TypeOK
  <2>3. /\ FUSE * all <= size /\ size \in Nat
        /\ Count(Body, "pop_fuse", s, Len(Body)) = all
        /\ \A j \in 0 .. Len(Body) :
             Count(Body, "pop_fuse", s, j) <= Count(Body, "push_fuse", s, j)
    BY <2>1, <2>2 DEF Balanced, Body, ESZ
  <2>4. w \in Nat /\ r \in Nat /\ all \in Nat
    BY <2>2, PastType, CountStep
  <2>5. r <= w /\ w <= all
    <3>1. CASE pc = "run"
      <4>1. i - 1 \in 0 .. Len(Body) /\ i - 1 \in Nat
        BY <2>2, <3>1 DEF TypeOK
      <4>2. Count(Body, "push_fuse", s, i - 1) <= all
        BY <2>2, <4>1, CountGrows
      <4>3. QED
        BY <2>3, <3>1, <4>1, <4>2 DEF Past
    <3>2. CASE pc # "run"
      BY <2>4, <3>2 DEF Past
    <3>3. QED
      BY <3>1, <3>2
  <2>6. pc = "run" /\ i > Len(Body) => r = w
    <3>1. SUFFICES ASSUME pc = "run", i > Len(Body) PROVE r = w
      OBVIOUS
    <3>2. i - 1 = Len(Body)
      BY <2>2, <3>1 DEF TypeOK
    <3>3. QED
      BY <2>3, <3>1, <3>2 DEF Past
  <2>7. wr[s] = FUSE * w /\ rd[s] = FUSE * r
    BY <2>1 DEF FuseInv
  <2> HIDE DEF w, r, all, size
  <2>8. FUSE * r <= FUSE * w /\ FUSE * w <= FUSE * all
    BY <2>4, <2>5 DEF FUSE
  <2>9. wr[s] <= size /\ rd[s] <= wr[s]
    BY <2>3, <2>4, <2>7, <2>8 DEF FUSE
  <2>10. QED
    BY <2>6, <2>7, <2>9 DEF size
<1>4. QED
  BY <1>1, <1>2, <1>3, BatchInvariance, PTL DEF Spec
=============================================================================
