-------------------------- MODULE MCTextTraceFile --------------------------
(***************************************************************************)
(* Messages with and without a field to tell them apart by, and texts that *)
(* somebody edited: a comment in front of two messages, a field no class   *)
(* has, a line without a name, and a name that is nowhere.                 *)
(***************************************************************************)
EXTENDS TextTraceFile

CONSTANTS GroundTruth, SensorView, version, moving, mounting, GtName, PlainName

MCFieldsOf   == [t \in MessageTypes |-> IF t = GroundTruth THEN {version, moving}
                                        ELSE {version, mounting}]
MCTypeOfName == [p \in Paths |-> IF p = GtName THEN GroundTruth ELSE Unknown]

MCMessages == {<<>>, <<version>>, <<version, moving>>, <<moving, moving>>}

Nameless == [name |-> None, sound |-> FALSE]
Two      == TextOf(<<version, moving, version, moving>>)

Edited == {None, <<>>, <<Comment>>, <<Comment>> \o Two, Two \o <<Comment, Nameless>>,
           <<Nameless>> \o Two, TextOf(<<mounting, moving, mounting>>)}

MCDisks == {[p \in Paths |-> IF p = GtName THEN text ELSE None] : text \in Edited}

=============================================================================
