-------------------------- MODULE MCChannelWriter --------------------------
(* Two messages of one type that differ in their OSI version, and one of   *)
(* another type; two helpers that name the same two topics.                *)
EXTENDS MCAPChannel

CONSTANTS GroundTruth, SensorView, gtOld, gtNew, aSv, v1, v2, mcapPath, osiPath, t1

MCTypeOf    == [m \in Messages |-> IF m = aSv THEN SensorView ELSE GroundTruth]
MCVersionOf == [m \in Messages |-> IF m = gtOld THEN v1 ELSE v2]
MCStem      == [p \in Paths |-> GroundTruth]

=============================================================================
