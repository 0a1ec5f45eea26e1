--------------------------- MODULE MCBinaryExchange ---------------------------
(***************************************************************************)
(* Names with a type, without one, and with another extension, and         *)
(* messages of three lengths in one type, of none, of as many bytes as     *)
(* readers accept, and of one more.  Before anything is written there may  *)
(* be a file that is whole, cut in a header, or out of step with its       *)
(* frames; the other names have a file with nothing in it.                 *)
(***************************************************************************)
EXTENDS BinaryExchange

CONSTANTS GroundTruth, SensorView, empty, short, long, GtName, PlainName, TextName

MCSizeOf     == [m \in Messages |-> CASE m = empty -> 0 [] m = short -> 2 [] OTHER -> 3]
MCTypeOf     == [m \in Messages |-> GroundTruth]
MCTypeOfName == [p \in Paths |-> IF p = GtName THEN GroundTruth ELSE Unknown]

Whole     == Frame(short) \o Frame(empty) \o Frame(short)
CutHeader == Frame(short) \o SubSeq(Frame(short), 1, 1)
OutOfStep == SubSeq(Frame(short), 2, 4) \o Frame(short) \o Frame(long)

MCDisks == {[p \in Paths |-> IF p = GtName THEN c ELSE <<>>] :
               c \in {None, Whole, CutHeader, OutOfStep}}

=============================================================================
