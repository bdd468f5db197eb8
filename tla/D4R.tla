-------------------------------- MODULE D4R --------------------------------
(***************************************************************************)
(* Deadlock detection between the kernels of the work-stealing scheduler   *)
(* (-tbb-d4r): kernel_t::work calls d4r_cb after every 256th call of a     *)
(* work function (lib/SKIR/SKIR_kernel_t.h, lib/SKIR/SKIRTbbSched.cpp),    *)
(* with the tags of deps/d4r/D4RTag.h.                                     *)
(*                                                                         *)
(* Tags are read and written without a lock (taglock is commented out) and *)
(* are four 64-bit words (uint128_t.h), so each load and each store of a   *)
(* word of a public tag is a step: a kernel can see half of another's tag. *)
(* Words are accessed in the order of the members, and a comparison loads  *)
(* a word of the blocker's tag once.  A call without a callback changes    *)
(* nothing here when the kernel is blocked, and is left out.               *)
(***************************************************************************)
EXTENDS Integers, Sequences, FiniteSets

CONSTANTS
  Networks, \* the networks of kernels, each a record of
            \*   body   kernel -> operations of an iteration, [op, s]
            \*   iters  kernel -> iterations after which it returns 1
            \*   src, dst  stream -> the kernel at its ends
            \*   left   what last_blocker, not initialised, may hold at first
  QSIZE,    \* rt_outs[j]->qsize, the same for every stream
  CAP,      \* elements that fit in a stream
  Keys,     \* the ids of kernels
  None

ASSUME D4RAssumption ==
  /\ QSIZE \in Nat /\ CAP \in Nat \ {0}
  /\ Keys \subseteq Nat /\ None \notin Keys
  /\ \A w \in Networks :
       /\ DOMAIN w.body \subseteq Keys /\ DOMAIN w.iters = DOMAIN w.body
       /\ DOMAIN w.src = DOMAIN w.dst
       /\ \A s \in DOMAIN w.src : {w.src[s], w.dst[s]} \subseteq DOMAIN w.body
       /\ \A k \in DOMAIN w.body :
            w.body[k] \in Seq([op : {"pop", "push"}, s : DOMAIN w.src]) \ {<<>>}

VARIABLES
  net,                  \* the network that runs
  fill,                 \* elements in each stream
  pc,                   \* operations each kernel has completed
  at,                   \* where each kernel is in work() and d4r_cb
  word,                 \* the word of the tags it is at there
  loaded,               \* the word it has loaded and not stored yet
  r,                    \* what the work function returned: the blocker
  priority,             \* the local variable of d4r_cb
  last_blocker, last_niter, privateTag, publicTag,   \* SKIRRuntimeKernel
  readtagchanged, writetagchanged,                   \* SKIRRuntimeStream
  alarm                 \* the assertion that stopped the program

tags == <<privateTag, publicTag>>
last == <<last_blocker, last_niter>>
flags == <<readtagchanged, writetagchanged>>
work == <<net, fill, pc>>
vars == <<net, fill, pc, at, word, loaded, r, priority, last_blocker, last_niter,
          privateTag, publicTag, readtagchanged, writetagchanged, alarm>>

Kernels == DOMAIN net.body
Streams == DOMAIN net.src
-----------------------------------------------------------------------------
(* A 128-bit number is <<high, low>>.                                      *)
Less(x, y) == x[1] < y[1] \/ (x[1] = y[1] /\ x[2] < y[2])

Minimum(x, y) == IF Less(y, x) THEN y ELSE x

(* -1 as the uint64_t of a queue size: larger than that of any queue.      *)
READ == QSIZE + 1

(* A tag's words in memory.                                                *)
Words == <<"count", "key", "qsize", "qkey">>

Tag(k) == [count |-> 0, key |-> k, qsize |-> READ, qkey |-> k]

Priority(t) == <<t.qsize, t.qkey>>

(* The part of Tag::operator< at a word in which two tags differ: the      *)
(* greater label, and of equal labels the smaller priority, is the greater *)
(* tag.                                                                    *)
Below_LabelOnly(w, x, y) == w \in {1, 2} /\ x < y

Below(w, x, y) == IF w \in {1, 2} THEN x < y ELSE y < x
-----------------------------------------------------------------------------
niter(k) == pc[k] \div Len(net.body[k])

Op(k) == net.body[k][(pc[k] % Len(net.body[k])) + 1]

Over(k) == niter(k) = net.iters[k]

Peer(k) == IF Op(k).op = "pop" THEN net.src[Op(k).s] ELSE net.dst[Op(k).s]

Can(k) == IF Op(k).op = "pop" THEN fill[Op(k).s] > 0 ELSE fill[Op(k).s] < CAP

(* last_blocker is not initialised; last_niter neither (it is 0 here).     *)
Init ==
  /\ net \in Networks
  /\ fill = [s \in Streams |-> 0]
  /\ pc = [k \in Kernels |-> 0]
  /\ at = [k \in Kernels |-> "work"]
  /\ word = [k \in Kernels |-> 1]
  /\ loaded = [k \in Kernels |-> 0]
  /\ r = [k \in Kernels |-> None]
  /\ priority = [k \in Kernels |-> <<0, 0>>]
  /\ last_blocker \in [Kernels -> net.left]
  /\ last_niter = [k \in Kernels |-> 0]
  /\ privateTag = [k \in Kernels |-> Tag(k)]
  /\ publicTag = [k \in Kernels |-> Tag(k)]
  /\ readtagchanged = [s \in Streams |-> FALSE]
  /\ writetagchanged = [s \in Streams |-> FALSE]
  /\ alarm = None

GoTo(k, place, w) == at' = [at EXCEPT ![k] = place] /\ word' = [word EXCEPT ![k] = w]

Go(k, place) == GoTo(k, place, 1)

(* On to the next word, or after the last one to another place.            *)
NextWord(k, place) == IF word[k] < Len(Words) THEN GoTo(k, at[k], word[k] + 1)
                                              ELSE Go(k, place)

Operate(k) ==
  /\ at[k] = "work" /\ ~Over(k) /\ Can(k)
  /\ fill' = [fill EXCEPT ![Op(k).s] = @ + (IF Op(k).op = "pop" THEN -1 ELSE 1)]
  /\ pc' = [pc EXCEPT ![k] = @ + 1]
  /\ UNCHANGED <<net, at, word, loaded, r, priority, alarm>>
  /\ UNCHANGED last /\ UNCHANGED tags /\ UNCHANGED flags

(* Its program is over, or the other end of the stream has gone.           *)
Finish(k) ==
  /\ at[k] = "work"
  /\ Over(k) \/ (~Can(k) /\ at[Peer(k)] = "done")
  /\ Go(k, "done")
  /\ UNCHANGED <<loaded, r, priority, alarm>> /\ UNCHANGED work
  /\ UNCHANGED last /\ UNCHANGED tags /\ UNCHANGED flags

Blocked(k) ==
  /\ at[k] = "work" /\ ~Over(k) /\ ~Can(k) /\ at[Peer(k)] # "done"
  /\ r' = [r EXCEPT ![k] = Peer(k)]
  /\ Go(k, "locate")
  /\ UNCHANGED <<loaded, priority, alarm>> /\ UNCHANGED work
  /\ UNCHANGED last /\ UNCHANGED tags /\ UNCHANGED flags
-----------------------------------------------------------------------------
(* The stream d4r_cb takes for the blocking one: an output to the blocker  *)
(* before an input from it.  Ends of finished kernels are gone.            *)
WriteStream(k) == {s \in Streams : net.src[s] = k /\ net.dst[s] = r[k]}
ReadStream(k) == {s \in Streams : net.dst[s] = k /\ net.src[s] = r[k]}

Stream(k) == IF WriteStream(k) # {} THEN CHOOSE s \in WriteStream(k) : TRUE
                                    ELSE CHOOSE s \in ReadStream(k) : TRUE

qsize(k) == IF WriteStream(k) # {} THEN QSIZE ELSE READ

Same(k) == r[k] = last_blocker[k] /\ niter(k) = last_niter[k]

Leave(k) ==
  /\ at[k] = "locate"
  /\ at[r[k]] = "done"
  /\ Go(k, "work")
  /\ UNCHANGED <<loaded, r, priority, alarm>> /\ UNCHANGED work
  /\ UNCHANGED last /\ UNCHANGED tags /\ UNCHANGED flags

(* Block: a label above every label seen.                                  *)
NextCount_OfBlocker(k) == publicTag[r[k]].count + 1

NextCount(k) == 1 + IF publicTag[k].count > publicTag[r[k]].count
                    THEN publicTag[k].count ELSE publicTag[r[k]].count

Block(k) ==
  /\ at[k] = "locate" /\ at[r[k]] # "done" /\ ~Same(k)
  /\ privateTag' = [privateTag EXCEPT
       ![k] = [count |-> NextCount(k), key |-> k, qsize |-> qsize(k), qkey |-> k]]
  /\ Go(k, "publish")
  /\ UNCHANGED <<loaded, r, priority, publicTag, alarm>> /\ UNCHANGED work
  /\ UNCHANGED last /\ UNCHANGED flags

Store(k, x) == publicTag' = [publicTag EXCEPT ![k][Words[word[k]]] = x]

(* The words still to be stored.  To store what is there changes nothing,  *)
(* and no step is made of it, here and in TransmitLoad.                    *)
NewWords(k) ==
  {w \in word[k] + 1 .. Len(Words) : privateTag[k][Words[w]] # publicTag[k][Words[w]]}

Publish(k) ==
  /\ at[k] = "publish"
  /\ Store(k, privateTag[k][Words[word[k]]])
  /\ \/ NewWords(k) = {} /\ Go(k, "tell")
     \/ \E w \in NewWords(k) :
          (\A v \in NewWords(k) : w <= v) /\ GoTo(k, "publish", w)
  /\ UNCHANGED <<loaded, r, priority, privateTag, alarm>> /\ UNCHANGED work
  /\ UNCHANGED last /\ UNCHANGED flags

Tell(k) ==
  /\ at[k] = "tell"
  /\ readtagchanged' = [s \in Streams |-> readtagchanged[s] \/ net.dst[s] = k]
  /\ writetagchanged' = [s \in Streams |-> writetagchanged[s] \/ net.src[s] = k]
  /\ last_niter' = [last_niter EXCEPT ![k] = niter(k)]
  /\ last_blocker' = [last_blocker EXCEPT ![k] = r[k]]
  /\ Go(k, "work")
  /\ UNCHANGED <<loaded, r, priority, alarm>> /\ UNCHANGED work /\ UNCHANGED tags

(* Transmit: take over the blocker's label when it is the greater one.     *)
Changed(k) == IF qsize(k) # READ /\ writetagchanged[Stream(k)]
              THEN "write" ELSE IF readtagchanged[Stream(k)] THEN "read" ELSE "no"

Transmit(k) ==
  /\ at[k] = "locate" /\ at[r[k]] # "done" /\ Same(k)
  /\ writetagchanged' =
       [s \in Streams |-> writetagchanged[s] /\ ~(s = Stream(k) /\ Changed(k) = "write")]
  /\ readtagchanged' =
       [s \in Streams |-> readtagchanged[s] /\ ~(s = Stream(k) /\ Changed(k) = "read")]
  /\ Go(k, IF Changed(k) = "no" THEN "work" ELSE "compare")
  /\ UNCHANGED <<loaded, r, priority, alarm>> /\ UNCHANGED work
  /\ UNCHANGED last /\ UNCHANGED tags

(* The word it is at, of its blocker's tag and of its own.                 *)
Other(k) == publicTag[r[k]][Words[word[k]]]

Own(k) == publicTag[k][Words[word[k]]]

(* The same tag has come round: whoever it names reports the deadlock.     *)
Detects(k) == /\ Own(k) = Other(k) /\ word[k] = Len(Words)
              /\ Priority(publicTag[k]) = Priority(privateTag[k])

TransmitCompare(k) ==
  /\ at[k] = "compare"
  /\ IF Detects(k)
     THEN alarm' = [by |-> k, kind |-> IF qsize(k) = READ THEN "True"
                                                          ELSE "Artificial"]
     ELSE UNCHANGED alarm
  /\ \/ Own(k) = Other(k) /\ NextWord(k, "signal")
     \/ /\ Own(k) # Other(k)
        /\ IF Below(word[k], Own(k), Other(k)) THEN GoTo(k, "min", 3)
                                               ELSE Go(k, "signal")
  /\ UNCHANGED <<loaded, r, priority>> /\ UNCHANGED work
  /\ UNCHANGED last /\ UNCHANGED tags /\ UNCHANGED flags

TransmitMin(k) ==
  /\ at[k] = "min"
  /\ priority' = [priority EXCEPT
       ![k] = IF word[k] = 3 THEN <<Other(k), 0>>
              ELSE Minimum(Priority(privateTag[k]), <<priority[k][1], Other(k)>>)]
  /\ NextWord(k, "load")
  /\ UNCHANGED <<loaded, r, alarm>> /\ UNCHANGED work
  /\ UNCHANGED last /\ UNCHANGED tags /\ UNCHANGED flags

(* A word is copied; after the last one the priority is stored.            *)
Copied(k) == IF word[k] < Len(Words) THEN GoTo(k, "load", word[k] + 1)
                                     ELSE GoTo(k, "set", 3)

TransmitLoad(k) ==
  /\ at[k] = "load"
  /\ \/ /\ Own(k) # Other(k)
        /\ loaded' = [loaded EXCEPT ![k] = Other(k)]
        /\ GoTo(k, "store", word[k])
     \/ /\ Own(k) = Other(k)
        /\ UNCHANGED loaded
        /\ Copied(k)
  /\ UNCHANGED <<r, priority, alarm>> /\ UNCHANGED work
  /\ UNCHANGED last /\ UNCHANGED tags /\ UNCHANGED flags

TransmitStore(k) ==
  /\ at[k] = "store"
  /\ Store(k, loaded[k])
  /\ loaded' = [loaded EXCEPT ![k] = 0]
  /\ Copied(k)
  /\ UNCHANGED <<r, priority, privateTag, alarm>> /\ UNCHANGED work
  /\ UNCHANGED last /\ UNCHANGED flags

TransmitSet(k) ==
  /\ at[k] = "set"
  /\ Store(k, priority[k][word[k] - 2])
  /\ IF word[k] = 3 THEN GoTo(k, "set", 4) /\ UNCHANGED priority
                    ELSE Go(k, "signal") /\ priority' = [priority EXCEPT ![k] = <<0, 0>>]
  /\ UNCHANGED <<loaded, r, privateTag, alarm>> /\ UNCHANGED work
  /\ UNCHANGED last /\ UNCHANGED flags

TransmitSignal(k) ==
  /\ at[k] = "signal"
  /\ IF qsize(k) = READ
     THEN readtagchanged' = [readtagchanged EXCEPT ![Stream(k)] = TRUE]
          /\ UNCHANGED writetagchanged
     ELSE writetagchanged' = [writetagchanged EXCEPT ![Stream(k)] = TRUE]
          /\ UNCHANGED readtagchanged
  /\ Go(k, "work")
  /\ UNCHANGED <<loaded, r, priority, alarm>> /\ UNCHANGED work
  /\ UNCHANGED last /\ UNCHANGED tags

Step(k) ==
  /\ alarm = None
  /\ \/ Operate(k) \/ Finish(k) \/ Blocked(k) \/ Leave(k)
     \/ Block(k) \/ Publish(k) \/ Tell(k)
     \/ Transmit(k) \/ TransmitCompare(k) \/ TransmitMin(k)
     \/ TransmitLoad(k) \/ TransmitStore(k) \/ TransmitSet(k)
     \/ TransmitSignal(k)

Next == \E k \in Kernels : Step(k)

(* The scheduler runs a blocked kernel again and again, and every 256th    *)
(* run comes to d4r_cb.                                                    *)
Spec == Init /\ [][Next]_vars /\ \A k \in Keys : WF_vars(k \in Kernels /\ Step(k))
-----------------------------------------------------------------------------

(***************************************************************************)
(* The count in a kernel's public tag never gets smaller, whatever halves  *)
(* of tags the others show between the accesses of d4r_cb: a label that    *)
(* Block makes is above every label the kernel has seen, which is what the *)
(* detection rests on.  (The key under the count does get smaller, also    *)
(* with the same count.)                                                   *)
(***************************************************************************)
CountsGrow ==
  [][\A k \in Kernels : publicTag'[k].count >= publicTag[k].count]_vars

Stuck(k) == at[k] # "done" /\ ~Over(k) /\ ~Can(k)

Cycle(D) == D # {} /\ \A k \in D : Stuck(k) /\ Peer(k) \in D

Deadlock == \E D \in SUBSET Kernels : Cycle(D)

(* A kernel has taken part once it has executed the block branch; one      *)
(* whose uninitialised last_blocker happens to be its blocker never does.  *)
TakesPart(k) == privateTag[k].count > 0

(***************************************************************************)
(* A cycle of kernels that wait for each other for ever is reported.       *)
(***************************************************************************)
Detected ==
  (\E D \in SUBSET Kernels : Cycle(D) /\ \A k \in D : TakesPart(k))
    ~> (alarm # None)

(***************************************************************************)
(* "True deadlock detected" and "Artificial deadlock detected": when one   *)
(* of the assertions of d4r_cb stops the program, some kernels do wait for *)
(* each other for ever.                                                    *)
(***************************************************************************)
NoFalseAlarm == alarm # None => Deadlock
=============================================================================
