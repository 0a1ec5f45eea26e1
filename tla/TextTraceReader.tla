--------------------------- MODULE TextTraceReader ---------------------------
(***************************************************************************)
(* The Python reader of text trace files,                                  *)
(* python/osi_utilities/tracefile/readers/textformat.py.  It reads the     *)
(* whole text on open and cuts one message after the other from it.        *)
(***************************************************************************)
EXTENDS TextTraceFormat

VARIABLES
    message_type,   \* _message_type
    message_class,  \* _message_class: the type whose class is used, or None
    buffer,         \* _buffer: the text not read so far
    has_next,       \* _has_next
    ret,            \* what the last open, close or read_message answered
    source,         \* history: the path whose text is being read, or None
    got             \* history: the messages returned as OK since open

readerVars == <<message_type, message_class, buffer, has_next, ret, source, got>>

Answers == {"NONE", "OPENED", "REFUSED", "RAISED", "CLOSED", "OK", "ERROR", "EOF"}

ReaderInit ==
    /\ message_type = Unknown /\ message_class = None
    /\ buffer = <<>> /\ has_next = FALSE
    /\ ret = "NONE" /\ source = None /\ got = <<>>

SetMessageType(t) ==
    /\ message_type' = t
    /\ UNCHANGED <<message_class, buffer, has_next, ret, source, got>>

-----------------------------------------------------------------------------
(* open(p)                                                                 *)

TypeFor(p) == IF message_type = Unknown THEN TypeOfName[p] ELSE message_type

Refuse == ret' = "REFUSED" /\ UNCHANGED <<buffer, has_next, source, got>>

OpenAgain ==
    /\ message_class # None
    /\ Refuse
    /\ UNCHANGED <<message_type, message_class>>

OpenUnknown(p) ==
    /\ message_class = None /\ TypeFor(p) = Unknown
    /\ Refuse
    /\ UNCHANGED <<message_type, message_class>>

(* Mutant: a type that could not be inferred is taken all the same.        *)
OpenMissingUntyped(p) ==
    /\ message_class = None /\ disk[p] = None
    /\ message_type' = TypeFor(p) /\ message_class' = TypeFor(p)
    /\ Refuse

(* The class is set before the text is read, and stays.                    *)
OpenMissing(p) ==
    /\ message_class = None /\ TypeFor(p) # Unknown /\ disk[p] = None
    /\ message_type' = TypeFor(p) /\ message_class' = TypeFor(p)
    /\ Refuse

(* Bytes that are no UTF-8, which a field that does not parse may hold,     *)
(* raise what open does not catch: no file is open, but the class stays.   *)
OpenUndecodable(p) ==
    /\ message_class = None /\ TypeFor(p) # Unknown /\ disk[p] # None
    /\ \E i \in DOMAIN disk[p] : ~disk[p][i].sound
    /\ message_type' = TypeFor(p) /\ message_class' = TypeFor(p)
    /\ ret' = "RAISED" /\ UNCHANGED <<buffer, has_next, source, got>>

OpenPresent(p) ==
    /\ message_class = None /\ TypeFor(p) # Unknown /\ disk[p] # None
    /\ message_type' = TypeFor(p) /\ message_class' = TypeFor(p)
    /\ buffer' = disk[p] /\ has_next' = (disk[p] # <<>>)
    /\ ret' = "OPENED" /\ source' = p /\ got' = <<>>

Open(p) == \/ OpenAgain \/ OpenUnknown(p) \/ OpenMissing(p)
           \/ OpenUndecodable(p) \/ OpenPresent(p)

Close ==
    /\ message_type' = Unknown /\ message_class' = None
    /\ buffer' = <<>> /\ has_next' = FALSE
    /\ ret' = "CLOSED" /\ source' = None /\ got' = <<>>

-----------------------------------------------------------------------------
(* read_message()                                                          *)

KeepSetup == UNCHANGED <<message_type, message_class, source>>

End == /\ has_next' = FALSE
       /\ ret' = "EOF"
       /\ KeepSetup /\ UNCHANGED <<buffer, got>>

Give(text, rest) ==
    /\ buffer' = rest /\ has_next' = (rest # <<>>)
    /\ ret' = "OK" /\ got' = Append(got, NamesIn(text))
    /\ KeepSetup

ReadNothing ==
    /\ message_class = None \/ buffer = <<>>
    /\ End

(* All that is left is one message, or passes for one.                     *)
ReadWhole ==
    /\ message_class # None /\ buffer # <<>>
    /\ Parses(buffer, message_class)
    /\ Give(buffer, <<>>)

Divisible == message_class # None /\ buffer # <<>> /\ ~Parses(buffer, message_class)

IsComment(item) == item = Comment
FirstField ==
    LET fields == {i \in DOMAIN buffer : ~IsComment(buffer[i])}
    IN buffer[CHOOSE i \in fields : \A j \in fields : i <= j].name

(* The first line that is no comment names no field.                       *)
ReadNameless ==
    /\ Divisible /\ FirstField = None
    /\ End

(* Mutant: the last line that starts with the field ends the message.      *)
MessageEndLast ==
    LET starts == {i \in DOMAIN buffer : i > 1 /\ buffer[i].name = FirstField}
    IN IF starts = {} THEN Len(buffer)
       ELSE (CHOOSE i \in starts : \A j \in starts : i >= j) - 1

(* The message ends before the next item with the name of the first field, *)
(* the first line of the text not counted.                                 *)
MessageEnd ==
    LET starts == {i \in DOMAIN buffer : i > 1 /\ buffer[i].name = FirstField}
    IN IF starts = {} THEN Len(buffer)
       ELSE (CHOOSE i \in starts : \A j \in starts : i <= j) - 1

Piece     == SubSeq(buffer, 1, MessageEnd)
Remainder == SubSeq(buffer, MessageEnd + 1, Len(buffer))

(* Mutant: the line at which the text is cut is lost.                      *)
ReadPieceLossy ==
    /\ Divisible /\ FirstField # None
    /\ Parses(Piece, message_class)
    /\ Give(Piece, IF Remainder = <<>> THEN <<>> ELSE Tail(Remainder))

ReadPiece ==
    /\ Divisible /\ FirstField # None
    /\ Parses(Piece, message_class)
    /\ Give(Piece, Remainder)

(* Mutants: the flag keeps what it said of the text that is given up; the  *)
(* text is not given up.                                                   *)
ReadMalformedStays ==
    /\ Divisible /\ FirstField # None
    /\ ~Parses(Piece, message_class)
    /\ ret' = "ERROR"
    /\ KeepSetup /\ UNCHANGED <<got, buffer, has_next>>

ReadMalformedKeepsFlag ==
    /\ Divisible /\ FirstField # None
    /\ ~Parses(Piece, message_class)
    /\ buffer' = <<>>
    /\ ret' = "ERROR"
    /\ KeepSetup /\ UNCHANGED <<got, has_next>>

ReadMalformed ==
    /\ Divisible /\ FirstField # None
    /\ ~Parses(Piece, message_class)
    /\ buffer' = <<>> /\ has_next' = FALSE
    /\ ret' = "ERROR"
    /\ KeepSetup /\ UNCHANGED got

ReadMessage == ReadNothing \/ ReadWhole \/ ReadNameless \/ ReadPiece \/ ReadMalformed

-----------------------------------------------------------------------------
(* Properties                                                              *)

ReaderTypeOK ==
    /\ disk \in DiskValues
    /\ message_type \in MessageTypes \union {Unknown}
    /\ message_class \in MessageTypes \union {None}
    /\ buffer \in Seq(Items) /\ has_next \in BOOLEAN
    /\ ret \in Answers /\ source \in Paths \union {None}
    /\ got \in Seq(Seq(Fields))

(* has_next and the text agree, although each return of read_message keeps *)
(* the flag on its own: nothing is announced of a text that is used up,    *)
(* and the flag never falls on a read that leaves some of the text behind. *)
FlagAgrees ==
    /\ has_next => message_class # None /\ buffer # <<>>
    /\ ~has_next /\ ret \in {"OPENED", "OK", "ERROR"} => buffer = <<>>

(* No field of the file is doubled or moved between or within messages,    *)
(* wherever the text was cut; and as long as a read may still be tried, or *)
(* the last one was successful, none is lost.                              *)
Conserved ==
    source # None =>
        LET accounted == FlattenSeq(got) \o NamesIn(buffer) IN
        /\ IsPrefix(accounted, NamesIn(disk[source]))
        /\ buffer # <<>> \/ ret = "OK" => accounted = NamesIn(disk[source])

=============================================================================
