----------------------------- MODULE MCTbbSched -----------------------------
(* TbbSched for four kernels and one worker or two.                        *)
EXTENDS TbbSched, TLC

CONSTANTS w1, w2

(* Two producers with a consumer each.                                     *)
TwinSrc == "x" :> "p1" @@ "y" :> "p2"
TwinDst == "x" :> "c1" @@ "y" :> "c2"
TwinBody == "p1" :> <<"x">> @@ "c1" :> <<"x">> @@ "p2" :> <<"y">> @@ "c2" :> <<"y">>
TwinEnds == "p1" :> 2 @@ "c1" :> 0 @@ "p2" :> 1 @@ "c2" :> 0
TwinOrder == <<"c1", "p2", "p1", "c2">>
=============================================================================
