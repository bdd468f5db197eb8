------------------------------- MODULE MCD4R -------------------------------
(* D4R for networks of two and three kernels that do or do not deadlock.   *)
EXTENDS D4R

P(s) == [op |-> "pop", s |-> s]
U(s) == [op |-> "push", s |-> s]

(* 3 takes two elements from 1 and then one from 2.                        *)
Merge == [body |-> <<<<U("a"), U("a")>>, <<U("b")>>, <<P("a"), P("a"), P("b")>>>>,
          iters |-> <<1, 1, 1>>, left |-> {None},
          src |-> [a |-> 1, b |-> 2], dst |-> [a |-> 3, b |-> 3]]

(* A loop that nothing is put into (true).                                 *)
Loop == [body |-> <<<<P("c"), U("a")>>, <<P("a"), U("b")>>, <<P("b"), U("c")>>>>,
         iters |-> <<1, 1, 1>>, left |-> {None},
         src |-> [a |-> 1, b |-> 2, c |-> 3],
         dst |-> [a |-> 2, b |-> 3, c |-> 1]]

(* Two streams from 1 to 2, read in another order than they are written.   *)
Pair(one, two) == [body |-> <<one, two>>, iters |-> <<2, 2>>, left |-> {1, 2, None},
                   src |-> [a |-> 1, b |-> 1], dst |-> [a |-> 2, b |-> 2]]
Crossed == Pair(<<U("a"), U("a"), U("b")>>, <<P("b"), P("a"), P("a")>>)
Healthy == Pair(<<U("a"), U("b")>>, <<P("b"), P("a")>>)

Small == {Merge, Loop, Crossed, Healthy}
Sound == {Healthy}
=============================================================================
