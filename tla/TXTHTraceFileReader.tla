------------------------- MODULE TXTHTraceFileReader -------------------------
(***************************************************************************)
(* The C++ reader of text trace files,                                     *)
(* cpp/src/tracefile/reader/TXTHTraceFileReader.cpp.  It divides a text by *)
(* its lines: a message lasts up to the next line that is the same as the  *)
(* first line of the file.                                                 *)
(***************************************************************************)
EXTENDS Integers, Sequences, SequencesExt

CONSTANTS
    MessageTypes,   \* the OSI top-level message types
    Unknown,        \* ReaderTopLevelMessage::kUnknown
    None,           \* nothing
    Lines,          \* what may stand in a line
    Blank,          \* the line with nothing in it
    Fragment,       \* the beginning of a line that is cut off
    Messages,       \* type -> the messages that are written, as lines
    Paths,          \* file names
    TxthPaths,      \* those with the extension .txth
    TypeOfName,     \* path -> the type found in the name
    Disks           \* what the disk may hold at the start

ASSUME LinesAssumption ==
    /\ Blank \in Lines /\ Fragment \in Lines /\ Fragment # Blank
    /\ \A t \in MessageTypes : Messages[t] \subseteq Seq(Lines \ {Blank, Fragment})
    /\ TxthPaths \subseteq Paths /\ None \notin Paths
    /\ TypeOfName \in [Paths -> MessageTypes \union {Unknown}]
    /\ Unknown \notin MessageTypes /\ None \notin MessageTypes

(* A text is its lines and whether the last one ends with a newline.       *)
Text(s, e) == [lines |-> s, ended |-> e]
Texts      == [lines : Seq(Lines), ended : BOOLEAN]

ASSUME TextsAssumption == Disks \subseteq [Paths -> Texts \union {None}]

VARIABLES
    disk,           \* path -> its text, or None if there is no file
    source,         \* trace_file_: the path that is open, or None
    at,             \* the lines that have been read of it
    delimiter,      \* line_indicating_msg_start_
    message_type,   \* message_type_
    parser,         \* parser_: the type it parses, or None before any open
    ret,            \* what the last Open, Close or ReadMessage answered
    pieces          \* history: what was cut off the text since Open

readerVars == <<source, at, delimiter, message_type, parser, ret, pieces>>

ReaderInit ==
    /\ source = None /\ at = 0 /\ delimiter = Blank
    /\ message_type = Unknown /\ parser = None
    /\ ret = "none" /\ pieces = <<>>

-----------------------------------------------------------------------------
(* Open(p), with t = None, and Open(p, t)                                  *)

Given(t) == IF t = None THEN message_type ELSE t
Settled(p, t) == IF Given(t) # Unknown THEN Given(t) ELSE TypeOfName[p]

Refuse == ret' = "false" /\ UNCHANGED <<source, at, delimiter, pieces>>

OpenRefused(p, t) ==
    /\ source # None \/ p \notin TxthPaths \/ disk[p] = None
    /\ message_type' = Given(t)
    /\ Refuse /\ UNCHANGED parser

(* Mutant: any extension will do.                                          *)
OpenableAnyName(p) == source = None /\ disk[p] # None

Openable(p) == source = None /\ p \in TxthPaths /\ disk[p] # None

OpenUntyped(p, t) ==
    /\ Openable(p) /\ Settled(p, t) = Unknown
    /\ message_type' = Unknown
    /\ Refuse /\ UNCHANGED parser

(* The operating system does not let it be opened: there is no first line. *)
OpenFails(p, t) ==
    /\ Openable(p) /\ Settled(p, t) # Unknown
    /\ message_type' = Settled(p, t) /\ parser' = Settled(p, t)
    /\ Refuse

FirstLine(p) == IF disk[p].lines = <<>> THEN Blank ELSE disk[p].lines[1]

(* Mutant: the first line is not read again.                               *)
OpensBehindFirst(p, t) ==
    /\ Openable(p) /\ Settled(p, t) # Unknown
    /\ message_type' = Settled(p, t) /\ parser' = Settled(p, t)
    /\ source' = p /\ delimiter' = FirstLine(p)
    /\ at' = IF disk[p].lines = <<>> THEN 0 ELSE 1
    /\ ret' = "true" /\ pieces' = <<>>

Opens(p, t) ==
    /\ Openable(p) /\ Settled(p, t) # Unknown
    /\ message_type' = Settled(p, t) /\ parser' = Settled(p, t)
    /\ source' = p /\ delimiter' = FirstLine(p) /\ at' = 0
    /\ ret' = "true" /\ pieces' = <<>>

Open(p, t) == OpenRefused(p, t) \/ OpenUntyped(p, t) \/ OpenFails(p, t) \/ Opens(p, t)

(* Close(): the type stays.                                                *)
Close ==
    /\ source' = None /\ at' = 0
    /\ ret' = "closed" /\ pieces' = <<>>
    /\ UNCHANGED <<delimiter, message_type, parser>>

-----------------------------------------------------------------------------
(* ReadMessage()                                                           *)

Held  == disk[source].lines
Ended == disk[source].ended

HasNext == source # None /\ at < Len(Held)

(* The lines that getline returns without meeting the end of the file.     *)
Complete == IF Ended THEN Len(Held) ELSE Len(Held) - 1

(* The line before the next one that starts a message, or the last.        *)
PieceEnd ==
    LET starts == {n \in at + 2..Complete : Held[n] = delimiter}
    IN IF starts = {} THEN Complete ELSE (CHOOSE n \in starts : \A k \in starts : n <= k) - 1

(* TextFormat::ParseFromString takes what was printed from a message of    *)
(* the type; anything else may parse as well.                              *)
ParseOutcomes(piece) == IF piece \in Messages[parser] THEN {"ok"} ELSE {"ok", "threw"}

Cut(piece, next) ==
    /\ at' = next
    /\ ret' \in ParseOutcomes(piece)
    /\ pieces' = Append(pieces, piece)
    /\ UNCHANGED <<source, delimiter, message_type, parser>>

ReadNothing ==
    /\ ~HasNext
    /\ ret' = "nullopt"
    /\ UNCHANGED <<source, at, delimiter, message_type, parser, pieces>>

(* A first line without an end is a message of its own.                    *)
ReadUnended ==
    /\ HasNext /\ at + 1 > Complete
    /\ Cut(<<Held[at + 1]>>, Len(Held))

(* The empty line that the loop starts from is the delimiter: the text is  *)
(* empty, and the position goes back to the beginning of the file.         *)
ReadBlank ==
    /\ HasNext /\ at + 1 <= Complete /\ delimiter = Blank
    /\ at' = 0
    /\ ret' = "nullopt"
    /\ UNCHANGED <<source, delimiter, message_type, parser, pieces>>

(* Mutants: the line that starts the next message is not given back; the   *)
(* position goes back to the line this message starts with.                *)
ReadPieceGreedy ==
    /\ HasNext /\ at + 1 <= Complete /\ delimiter # Blank
    /\ Cut(SubSeq(Held, at + 1, PieceEnd),
           IF PieceEnd = Complete THEN Len(Held) ELSE PieceEnd + 1)

ReadPieceStays ==
    /\ HasNext /\ at + 1 <= Complete /\ delimiter # Blank
    /\ at' = at
    /\ ret' \in ParseOutcomes(SubSeq(Held, at + 1, PieceEnd))
    /\ UNCHANGED <<source, delimiter, message_type, parser, pieces>>

(* At the end of the file a last line without an end is read and dropped.  *)
ReadPiece ==
    /\ HasNext /\ at + 1 <= Complete /\ delimiter # Blank
    /\ Cut(SubSeq(Held, at + 1, PieceEnd),
           IF PieceEnd = Complete THEN Len(Held) ELSE PieceEnd)

ReadMessage == ReadNothing \/ ReadUnended \/ ReadBlank \/ ReadPiece

=============================================================================
