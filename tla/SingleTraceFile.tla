--------------------------- MODULE SingleTraceFile ---------------------------
(***************************************************************************)
(* A writer and a reader of binary trace files on one disk: what is read   *)
(* back of what was written, through failed writes and crashes.  A reader  *)
(* opens a file when no writer has it open.                                *)
(***************************************************************************)
EXTENDS SingleTraceReader, SingleTraceWriter

allVars == <<disk, readerVars, writerVars>>

FileInit == disk \in Disks /\ ReaderInit /\ WriterInit

(* While a file is open a new type would only change the label of results. *)
SettingType == file = None /\ \E t \in MessageTypes \union {Unknown} : SetMessageType(t)

Playing == (\E p \in Paths : Open(p)) \/ Close \/ ReadMessage

Reading == /\ out = None
           /\ SettingType \/ Playing
           /\ UNCHANGED <<disk, writerVars>>

(* A client that reads on until there is nothing left, errors or not.      *)
ReadingOn == out = None /\ ReadMessage /\ UNCHANGED <<disk, writerVars>>

-----------------------------------------------------------------------------
(* Properties                                                              *)

FileTypeOK == ReaderTypeOK /\ WriterTypeOK

(* The file written last is being read, with the class all its messages    *)
(* have, and none of them is larger than readers accept.                   *)
ReadingBack ==
    /\ file # None /\ file = target
    /\ \A n \in DOMAIN accepted : /\ TypeOf[accepted[n]] = message_class
                                  /\ Readable(accepted[n])

(* What the reader returns as OK is what was written, in that order and    *)
(* from the first message on: for a whole file, for one that lost its end  *)
(* in a crash or a failed close, and up to the first torn frame otherwise. *)
(* A file that met no failure shows no error, and nothing is missing at    *)
(* its end.                                                                *)
ReadsBack ==
    ReadingBack =>
        /\ \A n \in DOMAIN got : n <= intact => got[n] = accepted[n]
        /\ "torn" \notin damage => Len(got) <= Len(accepted)
        /\ damage = {} => ret.status # "ERROR"
        /\ damage = {} /\ ret.status = "EOF" => got = accepted

(* Reading on ends: even in a misread file every read moves forward.       *)
Drains == file # None ~> ret.status \in {"EOF", "CLOSED"}

(* write_message of writers/base.py returns True if the message was        *)
(* written successfully: then it is read back from a file that was closed  *)
(* in order.                                                               *)
AcceptedIsRead ==
    ReadingBack /\ "cut" \notin damage /\ ret.status = "EOF"
        => \A n \in DOMAIN accepted : \E k \in DOMAIN got : got[k] = accepted[n]

=============================================================================
