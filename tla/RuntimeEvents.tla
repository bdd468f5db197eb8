--------------------------- MODULE RuntimeEvents ---------------------------
(***************************************************************************)
(* The event interface of the runtime (SKIRRuntime::onEvent): a client     *)
(* builds a stream graph with requests, each of which names the objects of *)
(* earlier ones by handles of the client's choice.  The server's thread    *)
(* handles one request at a time (tools/skir-lli/main.cpp); the kernels a  *)
(* CallRequest starts run while the next requests arrive.                  *)
(*                                                                         *)
(* The client sends the requests of its script in any order in which it    *)
(* knows the handles it uses, and may repeat a KernelRequest or a          *)
(* StreamRequest whose answer it lost.  PauseRequest, which dereferences   *)
(* its handle, and StateRequest GET, which fails an assertion, are never   *)
(* sent.                                                                   *)
(***************************************************************************)
EXTENDS SKIRRuntime

VARIABLES
  fns,        \* the functions of the runtime's module
  addr_map,   \* handle -> object
  sent,       \* requests of the script handled so far
  repeats,    \* how often one was repeated
  response,   \* the last response
  given       \* handle -> the object the client was told it stands for

CONSTANTS
  MAXREPEAT,  \* bound: repeated requests
  MAXKERNEL   \* bound: kernels the programs create

client == <<fns, addr_map, sent, repeats, response, given>>
evars == <<vars, client>>

Obj(kind, id) == [kind |-> kind, id |-> id]
NullObj == Obj("null", 0)
Ok == "OK"
Err == "ERR"
Answer(r, type, data) == response' = [id |-> r.id, type |-> type, data |-> data]

EInit == /\ Init
         /\ fns = prog.fns /\ addr_map = <<>> /\ sent = {} /\ repeats = 0
         /\ response = <<>> /\ given = <<>>
-----------------------------------------------------------------------------
Put(f, x, y) == [a \in DOMAIN f \cup {x} |-> IF a = x THEN y ELSE f[a]]

(* addr_map[h]: operator[] inserts a null pointer for an unknown handle.   *)
Lookup(h) == IF h \in DOMAIN addr_map THEN addr_map[h] ELSE NullObj

Uses(r) == IF r.type = "call" THEN {r.kernel} \cup ToSet(r.ins \o r.outs)
           ELSE IF r.type = "kernel" THEN {r.args} \ {0}
           ELSE IF r.type = "state" THEN {r.data_id} \ {0}
           ELSE {}

(* What the client knows when it sends r; a repeated request is one whose  *)
(* handle it has not used.                                                 *)
Knows(r) == /\ Uses(r) \subseteq DOMAIN given
            /\ r.type = "kernel" => ("include" \in {x.type : x \in prog.requests}
                                       => "include" \in {x.type : x \in sent})
Send(r) ==
  /\ ~aborted /\ frames = <<>> /\ Knows(r)
  /\ \/ r \notin sent /\ UNCHANGED repeats
     \/ /\ r \in sent /\ r.type \in {"kernel", "stream"} /\ repeats < MAXREPEAT
        /\ \A x \in sent : r.id \notin Uses(x)
        /\ repeats' = repeats + 1
  /\ sent' = sent \cup {r}

EchoRequest(r) ==
  /\ r.type = "echo" /\ Send(r)
  /\ Answer(r, "STRING", r.id)
  /\ UNCHANGED <<vars, fns, addr_map, given>>

(* A module that does not parse is answered OK as well.                    *)
IncludeModuleRequest(r) ==
  /\ r.type = "include" /\ Send(r)
  /\ fns' = fns \cup r.fns
  /\ Answer(r, Ok, 0)
  /\ UNCHANGED <<vars, addr_map, given>>

KernelRequest(r) ==
  /\ r.type = "kernel" /\ Send(r)
  /\ IF r.work \notin fns
     THEN /\ Answer(r, Err, 0)
          /\ UNCHANGED <<vars, addr_map, given>>
     ELSE /\ kernel' = WithKernel(r.work, [state |-> Lookup(r.args)])
          /\ next_kernel_id' = next_kernel_id + 1
          /\ addr_map' = Put(Put(addr_map, r.args, Lookup(r.args)),
                             r.id, Obj("kernel", next_kernel_id))
          /\ given' = Put(given, r.id, Obj("kernel", next_kernel_id))
          /\ Answer(r, "UINT32", r.id)
          /\ UNCHANGED <<prog, next_stream_id, stream, mem, id2kernel, hier_parent,
                         frames, waiting, found, out, aborted>>
  /\ UNCHANGED fns

StreamRequest_ByStream(r) ==
  /\ r.type = "stream" /\ Send(r)
  /\ stream' = Append(stream, NewStream)
  /\ next_stream_id' = next_stream_id + 1
  /\ addr_map' = Put(addr_map, next_stream_id, Obj("stream", next_stream_id))
  /\ given' = Put(given, r.id, Obj("stream", next_stream_id))
  /\ Answer(r, "UINT32", r.id)
  /\ UNCHANGED <<prog, next_kernel_id, kernel, mem, id2kernel, hier_parent,
                 frames, waiting, found, out, aborted, fns>>

StreamRequest(r) ==
  /\ r.type = "stream" /\ Send(r)
  /\ stream' = Append(stream, NewStream)
  /\ next_stream_id' = next_stream_id + 1
  /\ addr_map' = Put(addr_map, r.id, Obj("stream", next_stream_id))
  /\ given' = Put(given, r.id, Obj("stream", next_stream_id))
  /\ Answer(r, "UINT32", r.id)
  /\ UNCHANGED <<prog, next_kernel_id, kernel, mem, id2kernel, hier_parent,
                 frames, waiting, found, out, aborted, fns>>

(* handleCallInst reads each list up to its first null pointer.            *)
Streams(hs) ==
  LET os == [i \in DOMAIN hs |-> Lookup(hs[i])]
      n == Min({i \in DOMAIN hs : os[i] = NullObj} \cup {Len(hs) + 1})
  IN [i \in 1 .. n - 1 |-> os[i].id]

CallRequest(r) ==
  /\ r.type = "call" /\ Send(r)
  /\ LET ins == Streams(r.ins)
         outs == Streams(r.outs)
         env == [n \in {K} \cup {In(i) : i \in DOMAIN ins}
                           \cup {Out(i) : i \in DOMAIN outs} |->
                   CASE n = K -> Lookup(r.kernel).id
                     [] n[1] = "in" -> ins[n[2]]
                     [] OTHER -> outs[n[2]]]
     IN frames' = <<Frame(<<Call(K, Ins(Len(ins)), Outs(Len(outs)))>>, env, hier_parent)>>
  /\ Answer(r, Ok, 0)
  /\ UNCHANGED <<prog, objects, mem, id2kernel, hier_parent, waiting, found, out, aborted,
                 fns, addr_map, given>>

ShmRequest(r) ==
  /\ r.type = "shm" /\ Send(r)
  /\ addr_map' = Put(addr_map, r.shm, Obj("data", r.shm))
  /\ given' = Put(given, r.shm, Obj("data", r.shm))
  /\ Answer(r, "UINT32", r.shm)
  /\ UNCHANGED <<vars, fns>>

(* PUT with data_bytes: a new object; with data_id: one that exists.       *)
StateRequest(r) ==
  /\ r.type = "state" /\ Send(r)
  /\ IF r.data_id # 0
     THEN /\ addr_map' = Put(addr_map, r.data_id, Lookup(r.data_id))
          /\ Answer(r, "UINT32", r.data_id) /\ UNCHANGED given
     ELSE /\ addr_map' = Put(addr_map, r.id, Obj("data", r.id))
          /\ given' = Put(given, r.id, Obj("data", r.id))
          /\ Answer(r, "UINT32", r.id)
  /\ UNCHANGED <<vars, fns>>

(* dot: the kernels of the graph.                                          *)
DotRequest(r) ==
  /\ r.type = "dot" /\ Send(r)
  /\ Answer(r, Ok, id2kernel)
  /\ UNCHANGED <<vars, fns, addr_map, given>>

onEvent == \E r \in prog.requests :
             \/ EchoRequest(r) \/ IncludeModuleRequest(r) \/ KernelRequest(r)
             \/ StreamRequest(r) \/ CallRequest(r) \/ ShmRequest(r)
             \/ StateRequest(r) \/ DotRequest(r)

ENext == \/ onEvent
         \/ Main /\ UNCHANGED client
         \/ \E k \in DOMAIN kernel : Work(k) /\ UNCHANGED client

ESpec == EInit /\ [][ENext]_evars

(* The client sends its requests, and every kernel that can move does, in  *)
(* the end: run() takes the kernels from the front of its queue and puts   *)
(* those that are not finished back at the end.                            *)
FairESpec ==
  /\ ESpec /\ WF_evars(onEvent) /\ WF_evars(Main /\ UNCHANGED client)
  /\ \A k \in 0 .. MAXKERNEL - 1 : WF_evars(k \in DOMAIN kernel /\ Work(k) /\ UNCHANGED client)
-----------------------------------------------------------------------------
Leaves == {k \in DOMAIN kernel : kernel[k].called /\ ~kernel[k].hier}
MainDone == frames = <<>> /\ waiting = <<>> /\ sent = prog.requests

(* The ends a kernel holds: all of its own while it runs, and those it has *)
(* not yet marked dead while it is in done.                                *)
Busy == {"active", "ending"}
FirstHeld(c) == IF c.status = "active" THEN 1 ELSE IF c.half THEN c.at + 1 ELSE c.at
HeldIns(c) == {c.ins[i] : i \in {j \in DOMAIN c.ins :
                                   c.status \in Busy /\ FirstHeld(c) <= j}}
HeldOuts(c) == {c.outs[i] : i \in {j \in DOMAIN c.outs :
                                     c.status \in Busy /\ FirstHeld(c) <= Len(c.ins) + j}}

(* The streams and the kernels agree on who is connected to whom, whatever *)
(* the order in which the two ends are called, finish (done) or are        *)
(* replaced (handleBecomeInst), and however the steps of two threads       *)
(* interleave: a kernel is the end of each stream it holds, which is not   *)
(* freed under it, and an end that a stream names is a kernel that has not *)
(* given it up.                                                            *)
Connected ==
  /\ \A k \in DOMAIN kernel :
       /\ \A s \in HeldIns(kernel[k]) : stream[s].si /\ stream[s].dst = k
       /\ \A s \in HeldOuts(kernel[k]) : stream[s].si /\ stream[s].src = k
  /\ \A s \in DOMAIN stream :
       /\ stream[s].src \in DOMAIN kernel => s \in HeldOuts(kernel[stream[s].src])
       /\ stream[s].dst \in DOMAIN kernel => s \in HeldIns(kernel[stream[s].dst])

(* The network that pipeline_work, splitjoin_work and the splitters and    *)
(* joiners build delivers, element by element, what the StreamIt program   *)
(* denotes for the file it reads: no order of calls, ends or become loses, *)
(* repeats or reorders an element.                                         *)
Faithful == IsPrefix(out, prog.expect)

(* When wait has returned for the outermost stream, everything called      *)
(* under it is done (callKernel recorded every child in hier_parent's      *)
(* children); and if one thread ran it, its streams are freed and the      *)
(* output is complete, which several threads do not promise.               *)
WaitedAll == (MainDone /\ prog.waits) =>
  /\ \A k \in Leaves : kernel[k].status \in {"done", "replaced"}
  /\ OneThread => /\ \A s \in DOMAIN stream : ~stream[s].si
                  /\ out = prog.expect

(* A handle the server has answered with stands for the same object in     *)
(* every later request, so each CallRequest connects the kernel to the     *)
(* streams its client meant.                                               *)
CallsConnect ==
  /\ \A h \in DOMAIN given : Lookup(h) = given[h]
  /\ frames = <<>> => \A r \in {x \in sent : x.type = "call"} :
       LET k == kernel[given[r.kernel].id] IN
       /\ k.ins = [i \in DOMAIN r.ins |-> given[r.ins[i]].id]
       /\ k.outs = [i \in DOMAIN r.outs |-> given[r.outs[i]].id]

(* A program on one worker of SKIRTbbSched ends: its wait returns,         *)
(* whatever was called first, and no assertion stops it (a kernel called   *)
(* twice, a wait for a kernel that its scheduler does not know).           *)
(* SKIRKoroSched forgets a finished kernel, so that a wait may come too    *)
(* late for its assertion; the blocked kernels of SKIRSingleThreadSched    *)
(* spin for ever.                                                          *)
Terminates == (prog.waits /\ prog.force = "none" /\ OneThread)
                => <>(MainDone /\ ~aborted)
=============================================================================
