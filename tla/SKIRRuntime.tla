---------------------------- MODULE SKIRRuntime ----------------------------
(***************************************************************************)
(* The runtime's instructions (lib/SKIR/SKIRRuntime.cpp), the stream graph *)
(* they build (SKIRRuntimeGraph.cpp) and the kernels of the StreamIt       *)
(* library that run in it.                                                 *)
(*                                                                         *)
(* The main thread executes a program: it creates streams and kernels,     *)
(* calls kernels and waits for them.  A call of a hierarchical kernel runs *)
(* its work function at once, on the caller's thread, in a new frame.  A   *)
(* call of any other kernel connects its streams and hands it to the       *)
(* scheduler, whose threads execute it one stream operation at a time,     *)
(* interleaved with the main thread: what a scheduler decides is in        *)
(* KoroSched, TbbSched and SingleSched, how a stream works in StreamRing.  *)
(*                                                                         *)
(* A scheduler has one thread (SKIRKoroSched, SKIRTbbSched with a single   *)
(* worker) or several (SKIRTbbSched with more, a thread per kernel of      *)
(* SKIRSingleThreadSched).  One thread is never between two steps of a     *)
(* stream operation, or in done, while another kernel does anything; with  *)
(* several, these steps interleave.                                        *)
(***************************************************************************)
EXTENDS StreamItLib, FiniteSets, FiniteSetsExt

CONSTANTS
  Programs,  \* [code |-> main's instructions, user |-> the work functions of
             \*  its own, file |-> what FileReader reads, force |-> options,
             \*  workers |-> the threads of SKIRTbbSched]
  Cap,       \* elements a stream can hold
  MAXOUT,    \* bound: elements written
  Junk       \* what the uninitialized e of FileReader holds

Null == -1       \* no kernel; si->src and si->dst before a call, (void* )-1
Ended == -2      \* (void* )1

VARIABLES
  prog,            \* the program
  next_kernel_id, next_stream_id,
  kernel,          \* SKIRRuntimeKernel objects
  stream,          \* SKIRRuntimeStream objects with their si
  mem,             \* the children of each pipeline and split-join
  id2kernel,       \* the kernels in the graph
  hier_parent,
  frames,          \* the main thread's stack
  waiting,         \* what its waitKernel has still to wait for
  found,           \* the scheduler's waitKernel has found the first of them
  out,             \* the file of the FileWriter
  aborted          \* an assertion failed, or a freed stream was used

objects == <<next_kernel_id, next_stream_id, kernel, stream>>
vars == <<prog, objects, mem, id2kernel, hier_parent, frames, waiting, found, out,
          aborted>>

Frame(code, env, parent) == [code |-> code, env |-> env, parent |-> parent]

Init == /\ prog \in Programs
        /\ next_kernel_id = 0 /\ next_stream_id = 1
        /\ kernel = <<>> /\ stream = <<>>
        /\ mem = [c \in prog.cells |-> <<>>]
        /\ id2kernel = {} /\ hier_parent = Null
        /\ frames = <<Frame(prog.code, <<>>, Null)>>
        /\ waiting = <<>> /\ found = FALSE /\ out = <<>> /\ aborted = FALSE
-----------------------------------------------------------------------------
(* SKIRRuntimeKernel's constructor, after the work function's init.        *)
NewKernel(work, args) ==
  [work |-> work, args |-> args, called |-> FALSE, hier |-> FALSE,
   sched |-> "none", ins |-> <<>>, outs |-> <<>>, impl |-> FALSE,
   children |-> <<>>, mapped |-> FALSE, status |-> "new",
   code |-> <<>>, at |-> 1, half |-> FALSE, e |-> Junk, off |-> 0]

(* SKIRRuntimeStream's constructor; si is not allocated yet.               *)
NewStream == [si |-> FALSE, src |-> Null, dst |-> Null, q |-> <<>>]

Children(a) == IF "cell" \in DOMAIN a THEN mem[a.cell] ELSE <<>>

(* The work function w with state a, called with ni and no streams.        *)
Code(w, a, ni, no) ==
  LET num == Len(Children(a))
  IN CASE w = "pipeline"   -> pipeline_work(num, ni, no)
       [] w = "splitjoin"  -> splitjoin_work(num, ni, no)
       [] w = "splitdupN"  -> splitdupN_work(num, ni, no)
       [] w = "splitrrN"   -> splitrrN_work(num, a.arg, ni, no)
       [] w = "splitrrW"   -> splitrrW_work(a.weights, ni, no)
       [] w = "splitrr0"   -> <<>>
       [] w = "joinrrN"    -> joinrrN_work(num, a.arg, ni, no)
       [] w = "joinrrW"    -> joinrrW_work(a.weights, ni, no)
       [] w = "splitdup"   -> splitdup_work(num)
       [] w = "splitrr1"   -> splitrr1_work(num, a.arg)
       [] w = "joinrr1"    -> joinrr1_work(num, a.arg)
       [] w = "split_dup"  -> split_dup_work(a.n)
       [] w = "split_rr"   -> split_rr_work(a.n, a.arg)
       [] w = "split_rrW"  -> split_rr_work_A_B_C_(a.weights)
       [] w = "join_rr"    -> join_rr_work(a.n, a.arg)
       [] w = "join_rrW"   -> join_rr_work_A_B_C_(a.weights)
       [] w = "Identity"   -> Identity_work
       [] w \in {"FileReaderInt32", "FileReaderFloat"} -> FileReader_work
       [] w = "FileWriter" -> FileWriter_work
       [] w = "DummySink"  -> DummySink_work
       [] OTHER            -> prog.user[w]

(* What SKIRKernelInfoPass finds: calls and no stream operation.           *)
Hierarchical == {"pipeline", "splitjoin", "splitdupN", "splitrrN", "splitrrW",
                 "joinrrN", "joinrrW"}

(* selectScheduler without -dp and -opencl.                                *)
selectScheduler == CASE prog.force = "koro" -> "koro"
                     [] prog.force = "tpk"  -> "single"
                     [] OTHER               -> "tbb"

OneThread == prog.force = "koro" \/ (prog.force = "none" /\ prog.workers = 1)
-----------------------------------------------------------------------------
(* callKernel's setup of a kernel that was not called before (base_work =  *)
(* work): clone and analyse, addKernel, choose a scheduler, and become a   *)
(* child of the hierarchical kernel whose work function is running.        *)
Setup_NoParent(ks, k, parent) ==
  [ks EXCEPT ![k].called = TRUE, ![k].hier = ks[k].work \in Hierarchical,
             ![k].sched = selectScheduler]

Setup(ks, k, parent) ==
  IF ks[k].called THEN ks
  ELSE LET hier == ks[k].work \in Hierarchical
           set == [ks EXCEPT ![k].called = TRUE, ![k].hier = hier,
                             ![k].sched = IF hier THEN @ ELSE selectScheduler]
       IN IF parent = Null THEN set
          ELSE [set EXCEPT ![parent].children = Append(@, k)]

addKernel(g, ks, k) == IF ks[k].called THEN g ELSE g \cup {k}

(* allocateStreams: the implementation of a stream is made when its first  *)
(* end is called.                                                          *)
allocateStreams(ss, k, ins, outs) ==
  [s \in DOMAIN ss |->
     LET si == IF ss[s].si THEN ss[s] ELSE [NewStream EXCEPT !.si = TRUE]
         read == IF s \in ToSet(ins) THEN [si EXCEPT !.dst = k] ELSE si
     IN IF s \notin ToSet(ins \o outs) THEN ss[s]
        ELSE IF s \in ToSet(outs) THEN [read EXCEPT !.src = k] ELSE read]

(* The scheduler's callKernel.                                             *)
Start(ks, k) ==
  [ks EXCEPT ![k].impl = TRUE, ![k].mapped = TRUE, ![k].status = "active", ![k].at = 1,
             ![k].half = FALSE,
             ![k].code = Code(ks[k].work, ks[k].args, Len(ks[k].ins), Len(ks[k].outs))]
-----------------------------------------------------------------------------
(* The main thread.                                                        *)
Top == frames[1]
Ready(op) == /\ ~aborted /\ waiting = <<>> /\ frames # <<>>
             /\ Top.code # <<>> /\ Top.code[1].op = op
Inst == Top.code[1]
Advance(env) == <<[Top EXCEPT !.code = Tail(@), !.env = env]>> \o Tail(frames)
Bind(env, v, x) == [n \in DOMAIN env \cup {v} |-> IF n = v THEN x ELSE env[n]]
Value(names) == [i \in DOMAIN names |-> Top.env[names[i]]]

(* skir.stream *)
handleStreamInst ==
  /\ Ready("stream")
  /\ stream' = Append(stream, NewStream)
  /\ next_stream_id' = next_stream_id + 1
  /\ frames' = Advance(Bind(Top.env, Inst.var, next_stream_id))
  /\ UNCHANGED <<prog, next_kernel_id, kernel, mem, id2kernel, hier_parent,
                 waiting, found, out, aborted>>

(* skir.kernel: the new object, indexed by its id.                         *)
WithKernel(work, args) ==
  [k \in 0 .. next_kernel_id |->
     IF k = next_kernel_id THEN NewKernel(work, args) ELSE kernel[k]]

handleKernelInst ==
  /\ Ready("kernel")
  /\ kernel' = WithKernel(Inst.work, Inst.args)
  /\ next_kernel_id' = next_kernel_id + 1
  /\ frames' = Advance(Bind(Top.env, Inst.var, next_kernel_id))
  /\ UNCHANGED <<prog, next_stream_id, stream, mem, id2kernel, hier_parent,
                 waiting, found, out, aborted>>

(* The program's own code: children[num_children++] = k.                   *)
Add ==
  /\ Ready("add")
  /\ mem' = [mem EXCEPT ![Inst.cell] = Append(@, Top.env[Inst.var])]
  /\ frames' = Advance(Top.env)
  /\ UNCHANGED <<prog, objects, id2kernel, hier_parent, waiting, found, out,
                 aborted>>

(* A hierarchical kernel's frame: its streams and its children.            *)
WorkEnv(k, ins, outs) ==
  LET ch == Children(kernel[k].args)
  IN [n \in {In(i) : i \in DOMAIN ins} \cup {Out(i) : i \in DOMAIN outs}
            \cup {Child(i) : i \in DOMAIN ch} |->
        CASE n[1] = "in" -> ins[n[2]] [] n[1] = "out" -> outs[n[2]]
          [] OTHER -> ch[n[2]]]

(* skir.call, first part: the arguments become rt_ins and rt_outs, and a   *)
(* new kernel is set up.                                                   *)
Called(k, ins, outs) ==
  [Setup(kernel, k, hier_parent) EXCEPT ![k].ins = ins, ![k].outs = outs]

(* skir.call of a hierarchical kernel runs its work function now.          *)
callHierarchical ==
  /\ Ready("call") /\ kernel[Top.env[Inst.var]].work \in Hierarchical
  /\ LET k == Top.env[Inst.var]
         ins == Value(Inst.ins)
         outs == Value(Inst.outs)
     IN /\ kernel' = Called(k, ins, outs)
        /\ id2kernel' = addKernel(id2kernel, kernel, k)
        /\ hier_parent' = k
        /\ frames' = <<Frame(Code(kernel[k].work, kernel[k].args, Len(ins), Len(outs)),
                             WorkEnv(k, ins, outs), hier_parent)>>
                     \o Advance(Top.env)
  /\ UNCHANGED <<prog, next_kernel_id, next_stream_id, stream, mem, waiting, found, out,
                 aborted>>

(* Its work function returns.                                              *)
Leave ==
  /\ ~aborted /\ frames # <<>> /\ Top.code = <<>> /\ waiting = <<>>
  /\ frames' = Tail(frames)
  /\ hier_parent' = Top.parent
  /\ UNCHANGED <<prog, objects, mem, id2kernel, waiting, found, out, aborted>>

(* skir.call of any other kernel: one call per kernel at a time.           *)
callKernel ==
  /\ Ready("call") /\ kernel[Top.env[Inst.var]].work \notin Hierarchical
  /\ LET k == Top.env[Inst.var]
         ins == Value(Inst.ins)
         outs == Value(Inst.outs)
     IN /\ id2kernel' = addKernel(id2kernel, kernel, k)
        /\ aborted' = kernel[k].impl
        /\ kernel' = IF kernel[k].impl THEN Called(k, ins, outs)
                     ELSE Start(Called(k, ins, outs), k)
        /\ stream' = IF kernel[k].impl THEN stream
                     ELSE allocateStreams(stream, k, ins, outs)
  /\ frames' = Advance(Top.env)
  /\ UNCHANGED <<prog, next_kernel_id, next_stream_id, mem, hier_parent, waiting, found,
                 out>>

(* skir.wait: waitKernel of a hierarchical kernel waits for its children,  *)
(* one after the other.                                                    *)
handleWaitInst ==
  /\ Ready("wait")
  /\ waiting' = <<Top.env[Inst.var]>>
  /\ frames' = Advance(Top.env)
  /\ UNCHANGED <<prog, objects, mem, id2kernel, hier_parent, found, out, aborted>>

waitChildren ==
  /\ ~aborted /\ waiting # <<>> /\ kernel[waiting[1]].hier
  /\ waiting' = kernel[waiting[1]].children \o Tail(waiting)
  /\ UNCHANGED <<prog, objects, mem, id2kernel, hier_parent, frames, found, out, aborted>>

(* The scheduler's waitKernel finds the kernel, which must be one of its   *)
(* own, and waits until it is done.                                        *)
AtLeaf == ~aborted /\ waiting # <<>> /\ ~kernel[waiting[1]].hier

findKernel ==
  /\ AtLeaf /\ ~found
  /\ found' = TRUE
  /\ aborted' = ~kernel[waiting[1]].mapped
  /\ UNCHANGED <<prog, objects, mem, id2kernel, hier_parent, frames, waiting, out>>

waitKernel ==
  /\ AtLeaf /\ found /\ kernel[waiting[1]].status = "done"
  /\ waiting' = Tail(waiting)
  /\ found' = FALSE
  /\ UNCHANGED <<prog, objects, mem, id2kernel, hier_parent, frames, out, aborted>>

Main == \/ handleStreamInst \/ handleKernelInst \/ Add \/ callHierarchical
        \/ Leave \/ callKernel \/ handleWaitInst \/ waitChildren \/ findKernel
        \/ waitKernel
-----------------------------------------------------------------------------
(* The schedulers' threads: one stream operation of kernel k, with the     *)
(* code after it up to the next one.                                       *)
Ending(k) == \/ kernel[k].status = "ending"
             \/ prog.force = "koro" /\ kernel[k].status = "done" /\ kernel[k].mapped

(* The only thread is in done, or in run() after it, for no other kernel.  *)
Turn(k) == ~aborted /\ (OneThread => \A j \in DOMAIN kernel : Ending(j) => j = k)

Op(k) == kernel[k].code[kernel[k].at]
Active(k, op) == Turn(k) /\ kernel[k].status = "active" /\ Op(k).op = op

Going == <<prog, next_kernel_id, next_stream_id, mem, id2kernel, hier_parent,
           frames, waiting, found>>

(* The work function returns 1, and the scheduler calls done, which takes  *)
(* the kernel's implementation first.                                      *)
Finish(k) == [kernel EXCEPT ![k].status = "ending", ![k].impl = FALSE,
                            ![k].at = 1, ![k].half = FALSE]

AtEnd(k) == kernel[k].at = Len(kernel[k].code)
Step(k) == [kernel EXCEPT ![k].at = IF AtEnd(k) THEN 1 ELSE @ + 1]

(* while (ring test) would_block(...): the look at the stream's other end  *)
(* is a step after the test that failed (half), and a dead end finishes    *)
(* the kernel whatever the ring holds by then.  A look that finds it       *)
(* living is followed by the next test, of interest only once it succeeds. *)
(* The operations of SKIRSingleThreadSched spin on the test and never look.*)
would_block(k, stuck, other) ==
  /\ \/ /\ stuck /\ ~kernel[k].half /\ ~OneThread /\ prog.force # "tpk"
        /\ kernel' = [kernel EXCEPT ![k].half = TRUE]
     \/ /\ kernel[k].half /\ ~stuck /\ other # Ended
        /\ kernel' = [kernel EXCEPT ![k].half = FALSE]
     \/ /\ kernel[k].half \/ (stuck /\ OneThread)
        /\ other = Ended
        /\ kernel' = Finish(k)
  /\ UNCHANGED stream

PopElement_Blocks(k) ==
  /\ Active(k, "pop")
  /\ LET s == kernel[k].ins[Op(k).port] IN
     /\ stream[s].q # <<>>
     /\ stream' = [stream EXCEPT ![s].q = Tail(@)]
     /\ kernel' = [Step(k) EXCEPT ![k].e = Head(stream[s].q)]
     /\ out' = IF kernel[k].work = "FileWriter" THEN Append(out, Head(stream[s].q)) ELSE out
  /\ UNCHANGED <<Going, aborted>>

PopElement(k) ==
  /\ Active(k, "pop")
  /\ LET s == kernel[k].ins[Op(k).port]
         writes == kernel[k].work = "FileWriter"
     IN \/ /\ stream[s].q # <<>> /\ ~kernel[k].half /\ (writes => Len(out) < MAXOUT)
           /\ stream' = [stream EXCEPT ![s].q = Tail(@)]
           /\ kernel' = [Step(k) EXCEPT ![k].e = Head(stream[s].q)]
           /\ out' = IF writes THEN Append(out, Head(stream[s].q)) ELSE out
        \/ would_block(k, stream[s].q = <<>>, stream[s].src) /\ UNCHANGED out
  /\ UNCHANGED <<Going, aborted>>

(* FileReader's pread: at the end of the file e keeps what it held.  Then  *)
(* FileReaderFloat returns 1 and FileReaderInt32 starts again.             *)
Readers == {"FileReaderInt32", "FileReaderFloat"}
Eof(k) == kernel[k].off = Len(prog.file)
Element(k) == IF kernel[k].work \notin Readers THEN kernel[k].e
              ELSE IF Eof(k) THEN Junk ELSE prog.file[kernel[k].off + 1]
NextOffset(k) == IF kernel[k].work \notin Readers \/ Eof(k) THEN 0
                 ELSE kernel[k].off + 1

PushElement(k) ==
  /\ Active(k, "push")
  /\ LET s == kernel[k].outs[Op(k).port]
         last == kernel[k].work = "FileReaderFloat" /\ Eof(k)
     IN \/ /\ Len(stream[s].q) < Cap /\ ~kernel[k].half
           /\ kernel' = IF last THEN Finish(k)
                        ELSE [Step(k) EXCEPT ![k].off = NextOffset(k)]
           /\ stream' = [stream EXCEPT ![s].q = Append(@, Element(k))]
        \/ would_block(k, Len(stream[s].q) = Cap, stream[s].dst)
  /\ UNCHANGED <<Going, out, aborted>>

(* skir.kernel and skir.become: the new kernel takes over the streams of   *)
(* the one that executes them, which leaves its scheduler and the graph    *)
(* and returns 1.  Nobody will find it done.  Only SKIRTbbSched removes a  *)
(* kernel without waiting for its lock, which here its own thread holds.   *)
handleBecomeInst(k) ==
  /\ Active(k, "become") /\ prog.force = "none"
  /\ LET new == next_kernel_id
         made == WithKernel(Op(k).work, Op(k).args)
         left == [made EXCEPT ![k].mapped = FALSE, ![k].impl = FALSE,
                              ![k].ins = <<>>, ![k].outs = <<>>,
                              ![k].status = "replaced"]
         set == [Setup(left, new, hier_parent) EXCEPT
                    ![new].ins = kernel[k].ins, ![new].outs = kernel[k].outs]
     IN /\ kernel' = Start(set, new)
        /\ stream' = allocateStreams(stream, new, kernel[k].ins, kernel[k].outs)
        /\ id2kernel' = (id2kernel \ {k}) \cup {new}
        /\ next_kernel_id' = next_kernel_id + 1
  /\ UNCHANGED <<prog, next_stream_id, mem, hier_parent, frames, waiting, found, out,
                 aborted>>
-----------------------------------------------------------------------------
(* kernel_t::done of kernel k: SKIRRuntimeKernel::done goes over its       *)
(* streams, first those it reads.                                          *)
Ends(k) == kernel[k].ins \o kernel[k].outs
Reads(k) == kernel[k].at <= Len(kernel[k].ins)
Leaving(k) == Turn(k) /\ kernel[k].status = "ending" /\ kernel[k].at <= Len(Ends(k))
NextEnd(k) == [kernel EXCEPT ![k].at = @ + 1, ![k].half = FALSE]

(* s->dst = (void * )1, or s->src.                                         *)
MarkEnd(k) ==
  /\ Leaving(k) /\ ~kernel[k].half
  /\ LET s == Ends(k)[kernel[k].at] IN
     stream' = IF Reads(k) THEN [stream EXCEPT ![s].dst = Ended]
               ELSE [stream EXCEPT ![s].src = Ended]
  /\ kernel' = [kernel EXCEPT ![k].half = TRUE]
  /\ UNCHANGED <<Going, out, aborted>>

(* free_skir_stream_t frees a stream with two dead ends.  On another       *)
(* processor, the mark of a kernel that is in done can still be in its     *)
(* store buffer; and the stream can have been freed by that kernel.        *)
Unseen(k, s) == /\ ~OneThread
                /\ \E j \in DOMAIN kernel \ {k} :
                     kernel[j].status = "ending" /\ s \in ToSet(Ends(j))

FreeEnd_OneEnd(k) ==
  /\ Leaving(k) /\ kernel[k].half
  /\ stream' = [stream EXCEPT ![Ends(k)[kernel[k].at]] = NewStream]
  /\ kernel' = NextEnd(k)
  /\ UNCHANGED <<Going, out, aborted>>

FreeEnd(k) ==
  /\ Leaving(k) /\ kernel[k].half
  /\ LET s == Ends(k)[kernel[k].at]
         own == IF Reads(k) THEN stream[s].dst ELSE stream[s].src
         dead == stream[s].src = Ended /\ stream[s].dst = Ended
     IN /\ \/ dead /\ stream' = [stream EXCEPT ![s] = NewStream]
           \/ (dead => Unseen(k, s)) /\ UNCHANGED stream
        /\ aborted' = (own # Ended)
  /\ kernel' = NextEnd(k)
  /\ UNCHANGED <<Going, out>>

(* The kernel is done, and who waits for it goes on.  SKIRKoroSched::run   *)
(* forgets it after that.                                                  *)
Signal(k) ==
  /\ Turn(k) /\ kernel[k].status = "ending" /\ kernel[k].at > Len(Ends(k))
  /\ kernel' = [kernel EXCEPT ![k].status = "done"]
  /\ UNCHANGED <<Going, stream, out, aborted>>

Unmap(k) ==
  /\ Turn(k) /\ prog.force = "koro" /\ kernel[k].status = "done" /\ kernel[k].mapped
  /\ kernel' = [kernel EXCEPT ![k].mapped = FALSE]
  /\ UNCHANGED <<Going, stream, out, aborted>>

done(k) == MarkEnd(k) \/ FreeEnd(k) \/ Signal(k) \/ Unmap(k)

Work(k) == PopElement(k) \/ PushElement(k) \/ handleBecomeInst(k) \/ done(k)

Next == Main \/ \E k \in DOMAIN kernel : Work(k)
=============================================================================
