---------------------------- MODULE TextTraceFile ----------------------------
(***************************************************************************)
(* A writer and a reader of text trace files on one disk: what is read     *)
(* back of what was written.  A reader opens a file when no writer has it  *)
(* open, and the next is written when the reader is closed.                *)
(***************************************************************************)
EXTENDS TextTraceReader, TextTraceWriter

allVars == <<disk, readerVars, writerVars>>

FileInit == disk \in Disks /\ ReaderInit /\ WriterInit

(* The reader is closed and no type was set.                              *)
Idle == message_type = Unknown /\ message_class = None

Writing == /\ Idle
           /\ WriterNext
           /\ UNCHANGED readerVars

(* While a text is read a new type would only change the label of results. *)
SettingType == source = None /\ \E t \in MessageTypes \union {Unknown} : SetMessageType(t)

Reading == /\ out = None
           /\ \/ \E p \in Paths : Open(p)
              \/ SettingType
              \/ Close
              \/ ReadMessage
           /\ UNCHANGED <<disk, writerVars>>

FileNext == Writing \/ Reading

(* A client that reads on until the reader reports the end, errors or not. *)
ReadingOn == out = None /\ ReadMessage /\ UNCHANGED <<disk, writerVars>>

FileSpec == FileInit /\ [][FileNext]_allVars /\ WF_allVars(source # None /\ ReadingOn)

-----------------------------------------------------------------------------
(* Properties                                                              *)

TextTypeOK == ReaderTypeOK /\ WriterTypeOK

(* The file written last is being read, with a class that knows the fields *)
(* of its messages, and no write tore a message.                           *)
ReadingBack ==
    /\ source # None /\ source = target /\ "torn" \notin damage
    /\ \A n \in DOMAIN accepted : ToSet(accepted[n]) \subseteq FieldsOf[message_class]

(* Messages that can be told apart in a text: all start with the same      *)
(* field, and that field is not a repeated one.                            *)
Delimited ==
    \A n \in DOMAIN accepted :
        accepted[n] # <<>> /\ Head(accepted[n]) \in Singular
                           /\ Head(accepted[n]) = Head(accepted[1])

(* Such messages read back one by one as they were written, and all of     *)
(* them; after a crash or a failed close the last one read may be short.   *)
ReadsBackDelimited ==
    ReadingBack /\ Delimited =>
        /\ \A n \in DOMAIN got :
              /\ n \in DOMAIN accepted /\ IsPrefix(got[n], accepted[n])
              /\ n < Len(got) \/ damage = {} => got[n] = accepted[n]
        /\ damage = {} /\ ret = "EOF" => got = accepted

(* Reading on ends: each read takes something off the text, or reports the *)
(* end with what cannot be divided left over.                              *)
TextDrains == source # None ~> ret \in {"EOF", "CLOSED"}

=============================================================================
