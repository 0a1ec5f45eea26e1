---------------------------- MODULE TXTHTraceFile ----------------------------
(***************************************************************************)
(* The C++ writer and reader of text trace files on one disk.  A reader    *)
(* opens a file when no writer has it open, and files are written before   *)
(* the reader is used.                                                     *)
(***************************************************************************)
EXTENDS TXTHTraceFileWriter

CONSTANT Targets    \* bound: the names that files are written under

allVars == <<disk, readerVars, writerVars>>

FileInit == disk \in Disks /\ ReaderInit /\ WriterInit

Fresh == source = None /\ message_type = Unknown /\ parser = None

Writing == /\ Fresh
           /\ WriterNext /\ target' \in Targets \union {None}
           /\ UNCHANGED readerVars

Reading == /\ out = None
           /\ \/ \E p \in Paths, t \in MessageTypes \union {Unknown, None} : Open(p, t)
              \/ Close
              \/ ReadMessage
           /\ UNCHANGED <<disk, writerVars>>

FileNext == Writing \/ Reading

(* A client that reads on until it gets nothing, through the exceptions.   *)
ReadingOn == source # None /\ ReadMessage /\ UNCHANGED <<disk, writerVars>>

FileSpec == FileInit /\ [][FileNext]_allVars /\ WF_allVars(ReadingOn)

-----------------------------------------------------------------------------
(* Properties                                                              *)

TxthTypeOK ==
    /\ disk \in [Paths -> Texts \union {None}]
    /\ source \in TxthPaths \union {None} /\ at \in Nat /\ delimiter \in Lines
    /\ message_type \in MessageTypes \union {Unknown}
    /\ parser \in MessageTypes \union {None}
    /\ ret \in {"none", "true", "false", "closed", "nullopt", "ok", "threw"}
    /\ pieces \in Seq(Seq(Lines))
    /\ out \in TxthPaths \union {None} /\ good \in BOOLEAN
    /\ answer \in {"none", "true", "false"}
    /\ target \in TxthPaths \union {None} /\ damage \in BOOLEAN
    /\ accepted \in Seq(Seq(Lines)) /\ begun \in Seq(Seq(Lines))

Read == FlattenSeq(pieces)

(* Wherever the text is divided, what has been cut off it is its beginning *)
(* up to the position, every line once and in place; only a last line that *)
(* has no newline may be missing.                                          *)
LinesInPlace ==
    source # None =>
        \/ Read = SubSeq(Held, 1, at)
        \/ at = Len(Held) /\ ~Ended /\ Read = Front(Held)

(* Messages that can be told apart by this reader: all start with the same *)
(* line, and that line is nowhere else in them.  One that was refused may  *)
(* have left its beginning in the file, and counts.                        *)
Delimited ==
    \A n \in DOMAIN begun :
        LET m == begun[n] IN
        m # <<>> /\ m[1] = begun[1][1] /\ \A k \in 2..Len(m) : m[k] # m[1]

(* Such messages read back one by one as they were written, and all of     *)
(* them; of a text whose end is missing the last may be short.             *)
ReadsBackDelimited ==
    source # None /\ source = target /\ Delimited =>
        /\ \A n \in 1..Len(pieces) - 1 : n \in DOMAIN accepted /\ pieces[n] = accepted[n]
        /\ ~damage => /\ IsPrefix(pieces, accepted)
                      /\ ret = "nullopt" => pieces = accepted

(* Reading on ends, unless the file starts with an empty line.             *)
TxthDrains == source # None /\ delimiter # Blank ~> ret \in {"nullopt", "closed"}

=============================================================================
