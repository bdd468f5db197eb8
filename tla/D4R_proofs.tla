----------------------------- MODULE D4R_proofs -----------------------------
(***************************************************************************)
(* TLAPS proofs about D4R, for every network of kernels.                   *)
(***************************************************************************)
EXTENDS D4R, TLAPS

Pairs == Nat \X Nat
Tags == [count : Nat, key : Nat, qsize : Nat, qkey : Nat]
Places == {"work", "locate", "publish", "tell", "compare", "min", "load", "store",
           "set", "signal", "done"}

(* The typing invariant.  In d4r_cb a kernel has a blocker, and it is at   *)
(* the words of the priority when it is at "min" or "set".                 *)
TypeOK ==
  /\ net \in Networks
  /\ pc \in [Kernels -> Nat]
  /\ at \in [Kernels -> Places]
  /\ word \in [Kernels -> 1 .. 4]
  /\ \A k \in Kernels : at[k] \in {"min", "set"} => word[k] \in {3, 4}
  /\ loaded \in [Kernels -> Nat]
  /\ r \in [Kernels -> Kernels \cup {None}]
  /\ \A k \in Kernels : at[k] \notin {"work", "done"} => r[k] \in Kernels
  /\ priority \in [Kernels -> Pairs]
  /\ privateTag \in [Kernels -> Tags]
  /\ publicTag \in [Kernels -> Tags]

(* A kernel has seen that its blocker's count is not below its own, and    *)
(* has not stored a count since.                                           *)
Seen(place, w) == \/ place = "compare" /\ w > 1
                  \/ place = "min"
                  \/ place = "load" /\ w = 1

(* What d4r_cb has found out of two counts stays so until it stores one,   *)
(* while the others load and store words of their tags.                    *)
OrderInv ==
  \A k \in Kernels :
    /\ at[k] = "publish" /\ word[k] = 1 => publicTag[k].count <= privateTag[k].count
    /\ Seen(at[k], word[k]) => publicTag[k].count <= publicTag[r[k]].count
    /\ at[k] = "store" /\ word[k] = 1 => publicTag[k].count <= loaded[k]

CountInv == TypeOK /\ OrderInv

(* No count in a public tag gets smaller in a step.                        *)
Grow == \A k \in Kernels : publicTag'[k].count >= publicTag[k].count

(* The words of a tag.                                                     *)
LEMMA TagFacts ==
  ASSUME TypeOK, NEW k \in Kernels
  PROVE  /\ publicTag[k] \in Tags /\ privateTag[k] \in Tags
         /\ publicTag[k].count \in Nat /\ privateTag[k].count \in Nat
         /\ Priority(privateTag[k]) \in Pairs
         /\ priority[k] \in Pairs
BY DEF TypeOK, Tags, Pairs, Priority

(* The words of a tag in their order.                                      *)
LEMMA WordFacts ==
  /\ Len(Words) = 4
  /\ \A w \in 1 .. 4 : Words[w] \in {"count", "key", "qsize", "qkey"}
  /\ \A w \in 1 .. 4 : w = 1 <=> Words[w] = "count"
  /\ \A t \in Tags : \A w \in 1 .. 4 : t[Words[w]] \in Nat
<1>1. /\ Len(Words) = 4 /\ Words[1] = "count" /\ Words[2] = "key"
      /\ Words[3] = "qsize" /\ Words[4] = "qkey"
  BY DEF Words
<1>2. \A w \in 1 .. 4 : w = 1 \/ w = 2 \/ w = 3 \/ w = 4
  OBVIOUS
<1>3. \A t \in Tags : /\ t["count"] \in Nat /\ t["key"] \in Nat
                     /\ t["qsize"] \in Nat /\ t["qkey"] \in Nat
  BY DEF Tags
<1>4. QED
  BY <1>1, <1>2, <1>3

(* A tag in which a word is stored.                                        *)
LEMMA StoreFacts ==
  ASSUME NEW t \in Tags, NEW w \in 1 .. 4, NEW x \in Nat
  PROVE  /\ [t EXCEPT ![Words[w]] = x] \in Tags
         /\ [t EXCEPT ![Words[w]] = x].count = IF w = 1 THEN x ELSE t.count
<1>1. /\ Words[w] \in {"count", "key", "qsize", "qkey"}
      /\ w = 1 <=> Words[w] = "count"
  BY WordFacts
<1>2. QED
  BY <1>1 DEF Tags

(* A kernel's id is a number, and its peer is a kernel.                    *)
LEMMA NetFacts ==
  ASSUME TypeOK, NEW k \in Kernels
  PROVE  /\ k \in Nat /\ Peer(k) \in Kernels
         /\ qsize(k) \in Nat
<1>1. /\ net.body[k] \in Seq([op : {"pop", "push"}, s : Streams]) \ {<<>>}
      /\ k \in Nat
  BY D4RAssumption DEF TypeOK, Kernels, Streams
<1>2. (pc[k] % Len(net.body[k])) + 1 \in 1 .. Len(net.body[k])
  <2>1. pc[k] \in Nat /\ Len(net.body[k]) \in Nat \ {0}
    BY <1>1 DEF TypeOK
  <2>2. QED
    BY <2>1
<1>3. Op(k) \in [op : {"pop", "push"}, s : Streams]
  <2>1. \A S : \A q \in Seq(S) : \A i \in 1 .. Len(q) : q[i] \in S
    OBVIOUS
  <2>2. QED
    BY <1>1, <1>2, <2>1, Zenon DEF Op
<1>4. Op(k).s \in Streams
  BY <1>3
<1>5. Peer(k) \in Kernels
  BY <1>4, D4RAssumption DEF Peer, TypeOK, Streams, Kernels
<1>6. qsize(k) \in Nat
  BY D4RAssumption DEF qsize, READ
<1>7. QED
  BY <1>1, <1>5, <1>6

(* Nobody is in d4r_cb.                                                    *)
LEMMA InitInv == Init => CountInv
<1> SUFFICES ASSUME Init PROVE CountInv
  OBVIOUS
<1>1. \A k \in Kernels : k \in Nat
  BY D4RAssumption DEF Init, Kernels
<1>2. \A k \in Kernels : Tag(k) \in Tags
  BY <1>1, D4RAssumption DEF Tag, READ, Tags
<1>3. TypeOK
  BY <1>2 DEF Init, TypeOK, Places, Pairs
<1>4. QED
  BY <1>3 DEF Init, CountInv, OrderInv, Seen

(* A step of a kernel that knows its blocker and has its private tag: its  *)
(* public tag becomes t, and it goes to word w at place l.                 *)
LEMMA TagStep ==
  ASSUME CountInv, NEW k \in Kernels, net' = net, pc' \in [Kernels -> Nat],
         NEW l \in Places, at' = [at EXCEPT ![k] = l],
         NEW w \in 1 .. 4, word' = [word EXCEPT ![k] = w],
         l \in {"min", "set"} => w \in {3, 4},
         NEW x \in Nat, loaded' = [loaded EXCEPT ![k] = x],
         r' = r, l \notin {"work", "done"} => r[k] \in Kernels,
         priority' \in [Kernels -> Pairs], privateTag' = privateTag,
         NEW t \in Tags, publicTag' = [publicTag EXCEPT ![k] = t],
         publicTag[k].count <= t.count,
         ~(l = "publish" /\ w = 1),
         Seen(l, w) => t.count <= publicTag[r[k]].count,
         l = "store" /\ w = 1 => t.count <= x
  PROVE  CountInv' /\ Grow
<1>1. Kernels' = Kernels
  BY DEF Kernels
<1>2. \A j \in Kernels : /\ at'[j] = IF j = k THEN l ELSE at[j]
                         /\ word'[j] = IF j = k THEN w ELSE word[j]
                         /\ loaded'[j] = IF j = k THEN x ELSE loaded[j]
                         /\ publicTag'[j] = IF j = k THEN t ELSE publicTag[j]
  BY DEF CountInv, TypeOK
<1>3. TypeOK'
  BY <1>1, <1>2 DEF CountInv, TypeOK
<1>4. \A j \in Kernels : publicTag[j].count \in Nat /\ publicTag'[j].count \in Nat
  BY <1>2, TagFacts DEF CountInv, Tags
<1>5. Grow
  BY <1>2, <1>4 DEF Grow
<1>6. OrderInv'
  <2>1. ASSUME NEW j \in Kernels, at'[j] = "publish", word'[j] = 1
        PROVE  publicTag'[j].count <= privateTag'[j].count
    BY <1>2, <2>1 DEF CountInv, OrderInv
  <2>2. ASSUME NEW j \in Kernels, Seen(at'[j], word'[j])
        PROVE  publicTag'[j].count <= publicTag'[r'[j]].count
    <3>1. r[j] \in Kernels
      BY <1>2, <2>2 DEF Seen, CountInv, TypeOK
    <3>2. publicTag'[j].count <= publicTag[r[j]].count
      BY <1>2, <2>2 DEF CountInv, OrderInv
    <3>3. publicTag[r[j]].count <= publicTag'[r[j]].count
      BY <1>5, <1>4, <3>1 DEF Grow
    <3>4. QED
      BY <1>4, <3>1, <3>2, <3>3
  <2>3. ASSUME NEW j \in Kernels, at'[j] = "store", word'[j] = 1
        PROVE  publicTag'[j].count <= loaded'[j]
    BY <1>2, <2>3 DEF CountInv, OrderInv
  <2>4. QED
    BY <1>1, <2>1, <2>2, <2>3 DEF OrderInv
<1>7. QED
  BY <1>3, <1>5, <1>6 DEF CountInv

(* A step that leaves the public tag alone.                                *)
LEMMA PlainStep ==
  ASSUME CountInv, NEW k \in Kernels, net' = net, pc' \in [Kernels -> Nat],
         NEW l \in Places, at' = [at EXCEPT ![k] = l],
         NEW w \in 1 .. 4, word' = [word EXCEPT ![k] = w],
         l \in {"min", "set"} => w \in {3, 4},
         NEW x \in Nat, loaded' = [loaded EXCEPT ![k] = x],
         r' = r, l \notin {"work", "done"} => r[k] \in Kernels,
         priority' \in [Kernels -> Pairs], privateTag' = privateTag,
         publicTag' = publicTag,
         ~(l = "publish" /\ w = 1),
         Seen(l, w) => publicTag[k].count <= publicTag[r[k]].count,
         l = "store" /\ w = 1 => publicTag[k].count <= x
  PROVE  CountInv' /\ Grow
<1>1. /\ publicTag' = [publicTag EXCEPT ![k] = publicTag[k]]
      /\ publicTag[k] \in Tags /\ publicTag[k].count <= publicTag[k].count
  BY TagFacts DEF CountInv, TypeOK
<1>2. QED
  BY ONLY <1>1, TagStep, CountInv, k \in Kernels, net' = net, pc' \in [Kernels -> Nat],
         l \in Places, at' = [at EXCEPT ![k] = l],
         w \in 1 .. 4, word' = [word EXCEPT ![k] = w],
         l \in {"min", "set"} => w \in {3, 4},
         x \in Nat, loaded' = [loaded EXCEPT ![k] = x],
         r' = r, l \notin {"work", "done"} => r[k] \in Kernels,
         priority' \in [Kernels -> Pairs], privateTag' = privateTag,
         ~(l = "publish" /\ w = 1),
         Seen(l, w) => publicTag[k].count <= publicTag[r[k]].count,
         l = "store" /\ w = 1 => publicTag[k].count <= x

(* Every step keeps the invariant and makes no count in a public tag       *)
(* smaller.                                                                *)
LEMMA StepInv ==
  ASSUME CountInv, NEW k \in Kernels, Step(k)
  PROVE  CountInv' /\ Grow
<1> USE DEF Go, GoTo, work, last, tags, flags
<1>0. /\ at[k] \in Places /\ pc \in [Kernels -> Nat] /\ priority \in [Kernels -> Pairs]
      /\ at[k] \notin {"work", "done"} => r[k] \in Kernels
      /\ word[k] \in 1 .. 4 /\ loaded[k] \in Nat
      /\ at = [at EXCEPT ![k] = at[k]] /\ word = [word EXCEPT ![k] = word[k]]
      /\ loaded = [loaded EXCEPT ![k] = loaded[k]]
  BY DEF CountInv, TypeOK
<1>t. /\ publicTag[k] \in Tags /\ privateTag[k] \in Tags
      /\ publicTag[k].count \in Nat /\ privateTag[k].count \in Nat
      /\ Priority(privateTag[k]) \in Pairs /\ priority[k] \in Pairs
  BY TagFacts DEF CountInv
<1>o. r[k] \in Kernels => /\ Other(k) \in Nat
                          /\ word[k] = 1 => Other(k) = publicTag[r[k]].count
  <2>1. Words[1] = "count"
    BY DEF Words
  <2>2. QED
    BY <1>0, <2>1, WordFacts, TagFacts DEF CountInv, Other
<1>n. Own(k) \in Nat /\ (word[k] = 1 => Own(k) = publicTag[k].count)
  <2>1. Words[1] = "count"
    BY DEF Words
  <2>2. QED
    BY <1>0, <1>t, <2>1, WordFacts DEF Own
<1>w. 1 \in 1 .. 4 /\ 3 \in 1 .. 4 /\ 4 \in 1 .. 4
  OBVIOUS
<1>1. CASE Operate(k)
  <2>1. pc' \in [Kernels -> Nat]
    <3>1. pc[k] + 1 \in Nat
      BY <1>0
    <3>2. pc' = [pc EXCEPT ![k] = pc[k] + 1]
      BY <1>1 DEF Operate
    <3>3. QED
      BY <1>0, <3>1, <3>2
  <2>2. /\ at[k] = "work" /\ at' = [at EXCEPT ![k] = "work"]
        /\ word' = [word EXCEPT ![k] = word[k]] /\ loaded' = [loaded EXCEPT ![k] = loaded[k]]
        /\ net' = net /\ r' = r /\ priority' = priority
        /\ privateTag' = privateTag /\ publicTag' = publicTag
    BY <1>0, <1>1 DEF Operate
  <2>3. QED
    BY <1>0, <1>w, <2>1, <2>2, PlainStep DEF Places, Seen
<1>2. CASE Finish(k) \/ Leave(k)
  <2>1. PICK l \in {"work", "done"} : /\ at' = [at EXCEPT ![k] = l]
                                     /\ word' = [word EXCEPT ![k] = 1]
    BY <1>2 DEF Finish, Leave
  <2>2. /\ net' = net /\ pc' = pc /\ r' = r /\ priority' = priority /\ loaded' = [loaded EXCEPT ![k] = loaded[k]]
        /\ privateTag' = privateTag /\ publicTag' = publicTag
    BY <1>0, <1>2 DEF Finish, Leave
  <2>3. QED
    BY <1>0, <1>w, <2>1, <2>2, PlainStep DEF Places, Seen
<1>3. CASE Blocked(k)
  <2>1. /\ r' = [r EXCEPT ![k] = Peer(k)] /\ at' = [at EXCEPT ![k] = "locate"]
        /\ word' = [word EXCEPT ![k] = 1] /\ loaded' = loaded
        /\ net' = net /\ pc' = pc /\ priority' = priority
        /\ privateTag' = privateTag /\ publicTag' = publicTag
    BY <1>3 DEF Blocked
  <2>2. Peer(k) \in Kernels /\ Kernels' = Kernels
    BY <2>1, NetFacts DEF CountInv, Kernels
  <2>3. \A j \in Kernels : /\ at'[j] = IF j = k THEN "locate" ELSE at[j]
                           /\ word'[j] = IF j = k THEN 1 ELSE word[j]
                           /\ r'[j] = IF j = k THEN Peer(k) ELSE r[j]
    BY <2>1 DEF CountInv, TypeOK
  <2>4. TypeOK'
    BY <2>1, <2>2, <2>3 DEF CountInv, TypeOK, Places
  <2>5. OrderInv'
    BY <2>1, <2>2, <2>3 DEF CountInv, OrderInv, Seen
  <2>6. Grow
    BY <2>1, TagFacts DEF Grow, CountInv
  <2>7. QED
    BY <2>4, <2>5, <2>6 DEF CountInv
<1>4. CASE Block(k)
  <2> DEFINE t == [count |-> NextCount(k), key |-> k, qsize |-> qsize(k), qkey |-> k]
  <2>1. /\ privateTag' = [privateTag EXCEPT ![k] = t] /\ at' = [at EXCEPT ![k] = "publish"]
        /\ word' = [word EXCEPT ![k] = 1] /\ loaded' = loaded
        /\ net' = net /\ pc' = pc /\ priority' = priority /\ r' = r
        /\ publicTag' = publicTag /\ at[k] = "locate"
    BY <1>4 DEF Block
  <2>2. NextCount(k) \in Nat /\ publicTag[k].count <= NextCount(k)
    <3>1. publicTag[r[k]].count \in Nat
      BY <1>0, <2>1, TagFacts DEF CountInv
    <3>2. QED
      BY <1>t, <3>1 DEF NextCount
  <2>3. t \in Tags /\ t.count = NextCount(k)
    <3>1. k \in Nat /\ qsize(k) \in Nat
      BY NetFacts DEF CountInv
    <3>2. QED
      BY <2>2, <3>1 DEF Tags
  <2> HIDE DEF t
  <2>4. Kernels' = Kernels /\ \A j \in Kernels :
          /\ at'[j] = IF j = k THEN "publish" ELSE at[j]
          /\ word'[j] = IF j = k THEN 1 ELSE word[j]
          /\ privateTag'[j] = IF j = k THEN t ELSE privateTag[j]
    BY <2>1 DEF CountInv, TypeOK, Kernels
  <2>5. TypeOK'
    BY <1>0, <2>1, <2>3, <2>4 DEF CountInv, TypeOK, Places
  <2>6. OrderInv'
    BY <2>1, <2>2, <2>3, <2>4 DEF CountInv, OrderInv, Seen
  <2>7. Grow
    BY <2>1, TagFacts DEF Grow, CountInv
  <2>8. QED
    BY <2>5, <2>6, <2>7 DEF CountInv
<1>5. CASE Publish(k)
  <2> DEFINE t == [publicTag[k] EXCEPT ![Words[word[k]]] = privateTag[k][Words[word[k]]]]
  <2>1. /\ at[k] = "publish" /\ publicTag' = [publicTag EXCEPT ![k] = t]
        /\ net' = net /\ pc' = pc /\ priority' = priority /\ r' = r
        /\ privateTag' = privateTag /\ loaded' = [loaded EXCEPT ![k] = loaded[k]]
    BY <1>0, <1>5 DEF Publish, Store
  <2>2. /\ t \in Tags
        /\ t.count = IF word[k] = 1 THEN privateTag[k].count ELSE publicTag[k].count
    <3>1. privateTag[k][Words[word[k]]] \in Nat /\ Words[1] = "count"
      BY <1>0, <1>t, WordFacts DEF Words
    <3>2. QED
      BY <1>0, <1>t, <3>1, StoreFacts
  <2>3. publicTag[k].count <= t.count
    BY <1>t, <2>1, <2>2 DEF CountInv, OrderInv
  <2>4. \E l \in {"tell", "publish"}, w \in 1 .. 4 :
          /\ at' = [at EXCEPT ![k] = l] /\ word' = [word EXCEPT ![k] = w]
          /\ l = "publish" => w # 1
    <3>1. NewWords(k) \subseteq 2 .. 4
      BY <1>0, WordFacts DEF NewWords
    <3>2. QED
      BY <1>5, <3>1 DEF Publish
  <2> HIDE DEF t
  <2>5. QED
    BY <1>0, <1>w, <2>1, <2>2, <2>3, <2>4, TagStep DEF Places, Seen
<1>6. CASE Tell(k) \/ TransmitSignal(k)
  <2>1. /\ net' = net /\ pc' = pc /\ r' = r /\ priority' = priority /\ loaded' = [loaded EXCEPT ![k] = loaded[k]]
        /\ privateTag' = privateTag /\ publicTag' = publicTag
        /\ at' = [at EXCEPT ![k] = "work"] /\ word' = [word EXCEPT ![k] = 1]
    BY <1>0, <1>6 DEF Tell, TransmitSignal
  <2>2. QED
    BY <1>0, <1>w, <2>1, PlainStep DEF Places, Seen
<1>7. CASE Transmit(k)
  <2>1. /\ at[k] = "locate" /\ net' = net /\ pc' = pc /\ r' = r /\ priority' = priority
        /\ privateTag' = privateTag /\ publicTag' = publicTag /\ loaded' = [loaded EXCEPT ![k] = loaded[k]]
        /\ word' = [word EXCEPT ![k] = 1]
    BY <1>0, <1>7 DEF Transmit
  <2>2. PICK l \in {"work", "compare"} : at' = [at EXCEPT ![k] = l]
    BY <1>7 DEF Transmit
  <2>3. CASE l = "work"
    BY <1>0, <1>w, <2>1, <2>2, <2>3, PlainStep DEF Places, Seen
  <2>4. CASE l = "compare"
    <3>1. r[k] \in Kernels /\ ~Seen("compare", 1)
      BY <1>0, <2>1 DEF Seen
    <3>2. QED
      BY <1>0, <1>w, <2>1, <2>2, <2>4, <3>1, PlainStep DEF Places
  <2>5. QED
    BY <2>2, <2>3, <2>4
<1>8. CASE TransmitCompare(k)
  <2>1. /\ at[k] = "compare" /\ net' = net /\ pc' = pc /\ r' = r /\ priority' = priority
        /\ privateTag' = privateTag /\ publicTag' = publicTag /\ loaded' = [loaded EXCEPT ![k] = loaded[k]]
        /\ r[k] \in Kernels
    BY <1>0, <1>8 DEF TransmitCompare
  <2>2. publicTag[r[k]].count \in Nat
    BY <2>1, TagFacts DEF CountInv
  <2>3. CASE Own(k) = Other(k)
    <3>1. publicTag[k].count <= publicTag[r[k]].count
      BY <1>0, <1>t, <1>o, <1>n, <2>1, <2>2, <2>3 DEF CountInv, OrderInv, Seen
    <3>2. \E l \in {"compare", "signal"}, w \in 1 .. 4 :
            at' = [at EXCEPT ![k] = l] /\ word' = [word EXCEPT ![k] = w]
      BY <1>0, <1>8, <2>1, <2>3, WordFacts DEF TransmitCompare, NextWord
    <3>3. QED
      BY <1>0, <1>w, <2>1, <3>1, <3>2, PlainStep DEF Places, Seen
  <2>4. CASE Own(k) # Other(k) /\ Below(word[k], Own(k), Other(k))
    <3>1. publicTag[k].count <= publicTag[r[k]].count
      BY <1>0, <1>t, <1>o, <1>n, <2>1, <2>2, <2>4 DEF CountInv, OrderInv, Seen, Below
    <3>2. at' = [at EXCEPT ![k] = "min"] /\ word' = [word EXCEPT ![k] = 3]
      BY <1>8, <2>4 DEF TransmitCompare
    <3>3. QED
      BY <1>0, <1>w, <2>1, <3>1, <3>2, PlainStep DEF Places, Seen
  <2>5. CASE Own(k) # Other(k) /\ ~Below(word[k], Own(k), Other(k))
    <3>1. at' = [at EXCEPT ![k] = "signal"] /\ word' = [word EXCEPT ![k] = 1]
      BY <1>8, <2>5 DEF TransmitCompare
    <3>2. QED
      BY <1>0, <1>w, <2>1, <3>1, PlainStep DEF Places, Seen
  <2>6. QED
    BY <2>3, <2>4, <2>5
<1>9. CASE TransmitMin(k)
  <2>1. /\ at[k] = "min" /\ net' = net /\ pc' = pc /\ r' = r /\ loaded' = [loaded EXCEPT ![k] = loaded[k]]
        /\ privateTag' = privateTag /\ publicTag' = publicTag
        /\ r[k] \in Kernels /\ word[k] \in {3, 4}
        /\ publicTag[k].count <= publicTag[r[k]].count
    BY <1>0, <1>9 DEF TransmitMin, CountInv, TypeOK, OrderInv, Seen
  <2>2. priority' \in [Kernels -> Pairs]
    <3>0. Other(k) \in Nat
      BY <1>o, <2>1
    <3>1. <<Other(k), 0>> \in Pairs
      BY <3>0 DEF Pairs
    <3>2. <<priority[k][1], Other(k)>> \in Pairs
      BY <1>t, <3>0 DEF Pairs
    <3>3. Minimum(Priority(privateTag[k]), <<priority[k][1], Other(k)>>) \in Pairs
      BY <1>t, <3>2 DEF Minimum
    <3>4. QED
      BY <1>0, <1>9, <3>1, <3>3 DEF TransmitMin
  <2>3. \/ at' = [at EXCEPT ![k] = "min"] /\ word' = [word EXCEPT ![k] = 4]
        \/ at' = [at EXCEPT ![k] = "load"] /\ word' = [word EXCEPT ![k] = 1]
    BY <1>9, <2>1, WordFacts DEF TransmitMin, NextWord
  <2>4. QED
    BY <1>0, <1>w, <2>1, <2>2, <2>3, PlainStep DEF Places, Seen
<1>10. CASE TransmitLoad(k)
  <2>1. /\ at[k] = "load" /\ net' = net /\ pc' = pc /\ r' = r /\ priority' = priority
        /\ privateTag' = privateTag /\ publicTag' = publicTag /\ r[k] \in Kernels
    BY <1>0, <1>10 DEF TransmitLoad
  <2>2. CASE Own(k) # Other(k)
    <3>1. /\ at' = [at EXCEPT ![k] = "store"] /\ word' = [word EXCEPT ![k] = word[k]]
          /\ loaded' = [loaded EXCEPT ![k] = Other(k)]
      BY <1>10, <2>2 DEF TransmitLoad
    <3>2. word[k] = 1 => publicTag[k].count <= Other(k)
      BY <1>o, <2>1 DEF CountInv, OrderInv, Seen
    <3>3. QED
      BY <1>0, <1>o, <2>1, <3>1, <3>2, PlainStep DEF Places, Seen
  <2>3. CASE Own(k) = Other(k)
    <3>1. /\ \E l \in {"load", "set"}, w \in 1 .. 4 :
               /\ at' = [at EXCEPT ![k] = l] /\ word' = [word EXCEPT ![k] = w]
               /\ l = "load" => w # 1
               /\ l = "set" => w = 3
          /\ loaded' = [loaded EXCEPT ![k] = loaded[k]]
      BY <1>0, <1>10, <2>3, WordFacts DEF TransmitLoad, Copied
    <3>2. QED
      BY <1>0, <1>w, <2>1, <3>1, PlainStep DEF Places, Seen
  <2>4. QED
    BY <2>2, <2>3
<1>11. CASE TransmitStore(k)
  <2> DEFINE t == [publicTag[k] EXCEPT ![Words[word[k]]] = loaded[k]]
  <2>1. /\ at[k] = "store" /\ publicTag' = [publicTag EXCEPT ![k] = t]
        /\ net' = net /\ pc' = pc /\ priority' = priority /\ r' = r
        /\ privateTag' = privateTag /\ loaded' = [loaded EXCEPT ![k] = 0]
        /\ r[k] \in Kernels
    BY <1>0, <1>11 DEF TransmitStore, Store
  <2>2. /\ t \in Tags
        /\ t.count = IF word[k] = 1 THEN loaded[k] ELSE publicTag[k].count
    BY <1>0, <1>t, StoreFacts
  <2>3. publicTag[k].count <= t.count
    BY <1>t, <2>1, <2>2 DEF CountInv, OrderInv
  <2>4. \E l \in {"load", "set"}, w \in 1 .. 4 :
          /\ at' = [at EXCEPT ![k] = l] /\ word' = [word EXCEPT ![k] = w]
          /\ l = "load" => w # 1
          /\ l = "set" => w = 3
    BY <1>0, <1>11, WordFacts DEF TransmitStore, Copied
  <2> HIDE DEF t
  <2>5. QED
    BY <1>0, <1>w, <2>1, <2>2, <2>3, <2>4, TagStep DEF Places, Seen
<1>12. CASE TransmitSet(k)
  <2> DEFINE t == [publicTag[k] EXCEPT ![Words[word[k]]] = priority[k][word[k] - 2]]
  <2>1. /\ at[k] = "set" /\ publicTag' = [publicTag EXCEPT ![k] = t]
        /\ net' = net /\ pc' = pc /\ r' = r /\ privateTag' = privateTag /\ loaded' = [loaded EXCEPT ![k] = loaded[k]]
        /\ r[k] \in Kernels /\ word[k] \in {3, 4}
    BY <1>0, <1>12 DEF TransmitSet, Store, CountInv, TypeOK
  <2>2. t \in Tags /\ t.count = publicTag[k].count /\ publicTag[k].count <= t.count
    <3>1. priority[k][word[k] - 2] \in Nat
      BY <1>t, <2>1 DEF Pairs
    <3>2. QED
      BY <1>0, <1>t, <2>1, <3>1, StoreFacts
  <2> HIDE DEF t
  <2>3. priority' \in [Kernels -> Pairs]
    BY <1>0, <1>12 DEF TransmitSet, Pairs
  <2>4. \E l \in {"set", "signal"}, w \in 1 .. 4 :
          /\ at' = [at EXCEPT ![k] = l] /\ word' = [word EXCEPT ![k] = w]
          /\ l = "set" => w = 4
    BY <1>12 DEF TransmitSet
  <2>5. QED
    BY <1>0, <1>w, <2>1, <2>2, <2>3, <2>4, TagStep DEF Places, Seen
<1>13. QED
  BY <1>1, <1>2, <1>3, <1>4, <1>5, <1>6, <1>7, <1>8, <1>9, <1>10, <1>11, <1>12 DEF Step

(* Every step keeps the invariant.                                         *)
LEMMA NextInv == CountInv /\ [Next]_vars => CountInv' /\ [Grow]_vars
<1> SUFFICES ASSUME CountInv, [Next]_vars PROVE CountInv' /\ [Grow]_vars
  OBVIOUS
<1>1. CASE Next
  BY <1>1, StepInv DEF Next
<1>2. CASE UNCHANGED vars
  BY <1>2 DEF vars, CountInv, TypeOK, OrderInv, Kernels
<1>3. QED
  BY <1>1, <1>2

(* What d4r_cb finds out of two counts stays true until it stores one,     *)
(* although the tags are read and written word by word without a lock.     *)
THEOREM CountInvariance == Spec => []CountInv
<1>1. QED
  BY InitInv, NextInv, PTL DEF Spec

(* The counts of public tags only grow, in every network and every         *)
(* interleaving of the loads and stores of d4r_cb.                         *)
THEOREM CountsOnlyGrow == Spec => CountsGrow
<1>1. CountInv /\ [Next]_vars
        => [\A k \in Kernels : publicTag'[k].count >= publicTag[k].count]_vars
  BY NextInv DEF Grow
<1>2. QED
  BY <1>1, CountInvariance, PTL DEF Spec, CountsGrow
=============================================================================
