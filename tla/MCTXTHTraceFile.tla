--------------------------- MODULE MCTXTHTraceFile ---------------------------
(***************************************************************************)
(* Messages that start with a line that tells them apart, that repeat      *)
(* their first line, that have the first line of another inside, and that  *)
(* are empty; and texts that somebody edited: an empty line in front, a    *)
(* comment in front, no newline at the end.                                *)
(***************************************************************************)
EXTENDS TXTHTraceFile

CONSTANTS GroundTruth, SensorView, version, moving, comment, GtName, PlainName, OtherName

MCMessages == [t \in MessageTypes |->
                 IF t = GroundTruth THEN {<<>>, <<version, moving>>, <<moving, moving>>,
                                          <<moving, version, moving>>} ELSE {}]
MCTypeOfName == [p \in Paths |-> IF p = GtName THEN GroundTruth ELSE Unknown]

Two    == <<version, moving, version, moving>>
Edited == {None, Text(<<Blank>> \o Two, TRUE), Text(<<comment>> \o Two, TRUE),
           Text(<<version, Blank, moving>>, FALSE), Text(<<moving, moving>>, FALSE),
           Text(<<version>>, FALSE), Text(<<>>, TRUE)}

MCDisks == {[p \in Paths |-> IF p = GtName THEN text ELSE Text(<<>>, TRUE)] : text \in Edited}

=============================================================================
