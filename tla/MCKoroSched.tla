---------------------------- MODULE MCKoroSched ----------------------------
(* KoroSched for a graph with two branches.                                *)
EXTENDS KoroSched, TLC

(* source -in-> split -left, right-> join -out-> sink                      *)
GraphSrc == "in" :> "source" @@ "left" :> "split" @@ "right" :> "split"
            @@ "out" :> "join"
GraphDst == "in" :> "split" @@ "left" :> "join" @@ "right" :> "join"
            @@ "out" :> "sink"
GraphBody == "source" :> <<"in">> @@ "split" :> <<"in", "left", "in", "right">>
             @@ "join" :> <<"left", "out", "right", "out">> @@ "sink" :> <<"out">>

EndsAfter(e, n) == [k \in Kernels |-> IF k = e THEN n ELSE 0]
Endless == [k \in Kernels |-> 0]

Ways == {[iters |-> EndsAfter("source", 5), steal |-> TRUE],
         [iters |-> EndsAfter("sink", 3), steal |-> TRUE],
         [iters |-> EndsAfter("split", 2), steal |-> FALSE],
         [iters |-> Endless, steal |-> FALSE]}
=============================================================================
