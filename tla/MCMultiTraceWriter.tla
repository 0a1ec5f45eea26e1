------------------------- MODULE MCMultiTraceWriter -------------------------
(* A message of each of two types, two topics, and one path to write to.   *)
EXTENDS MultiTraceWriter

CONSTANTS GroundTruth, SensorView, aGt, aSv, mcapPath, textPath

MCTypeOf == [m \in Messages |-> IF m = aGt THEN GroundTruth ELSE SensorView]

=============================================================================
