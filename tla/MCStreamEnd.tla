---------------------------- MODULE MCStreamEnd ----------------------------
(* StreamEnd for kernels that end by themselves or follow the other one.   *)
EXTENDS StreamEnd

ProducerEnds == [r \in Ends |-> IF r = "src" THEN 6 ELSE 0]
ConsumerEnds == [r \in Ends |-> IF r = "src" THEN 0 ELSE 6]
ConsumerFirst == [r \in Ends |-> IF r = "src" THEN 9 ELSE 4]
Together == [r \in Ends |-> 6]

AnyEnds == {ProducerEnds, ConsumerEnds, ConsumerFirst, Together}
=============================================================================
