-------------------------- MODULE SingleTraceReader --------------------------
(***************************************************************************)
(* The Python reader of binary single-channel trace files,                 *)
(* python/osi_utilities/tracefile/readers/single.py.                       *)
(***************************************************************************)
EXTENDS SingleTraceFormat

VARIABLES
    infer,          \* _enable_message_type_inference
    file,           \* _file: the path that is open, or None
    pos,            \* the position in it
    message_type,   \* _message_type
    message_class,  \* _message_class: the type whose class is used, or None
    has_next,       \* _has_next
    ret,            \* what the last open, close or read_message answered
    got             \* history: the messages returned as OK since open

readerVars == <<infer, file, pos, message_type, message_class, has_next, ret, got>>

Answers == [status : {"NONE", "OPENED", "REFUSED", "CLOSED", "OK", "ERROR", "EOF"},
            type : MessageTypes \union {Unknown, None}]

Answer(s) == [status |-> s, type |-> None]
Result(s) == [status |-> s, type |-> message_type]

Unset == IF infer THEN Unknown ELSE None

ReaderInit ==
    /\ infer \in BOOLEAN
    /\ file = None /\ pos = 0
    /\ message_type = Unset /\ message_class = None
    /\ has_next = FALSE
    /\ ret = Answer("NONE") /\ got = <<>>

SetMessageType(t) ==
    /\ message_type' = t
    /\ UNCHANGED <<infer, file, pos, message_class, has_next, ret, got>>

-----------------------------------------------------------------------------
(* open(p)                                                                 *)

Refuse == ret' = Answer("REFUSED")

OpenAgain ==
    /\ file # None
    /\ Refuse
    /\ UNCHANGED <<infer, file, pos, message_type, message_class, has_next, got>>

OpenUntyped ==
    /\ file = None /\ message_type = None
    /\ Refuse
    /\ UNCHANGED <<infer, file, pos, message_type, message_class, has_next, got>>

TypeFor(p) == IF message_type = Unknown THEN TypeOfName[p] ELSE message_type

OpenUnknown(p) ==
    /\ file = None /\ message_type # None
    /\ TypeFor(p) = Unknown
    /\ message_type' = Unknown
    /\ Refuse
    /\ UNCHANGED <<infer, file, pos, message_class, has_next, got>>

(* The type is settled, and stays so, before the file turns out missing.   *)
OpenMissing(p) ==
    /\ file = None /\ message_type # None
    /\ TypeFor(p) # Unknown /\ disk[p] = None
    /\ message_type' = TypeFor(p) /\ message_class' = TypeFor(p)
    /\ Refuse
    /\ UNCHANGED <<infer, file, pos, has_next, got>>

(* Mutant: what is not longer than a header does not count.                *)
HasDataForFrame(p, at) == at + HeaderSize < Len(disk[p])

(* _peek_has_data: another byte can be read at the position.               *)
HasData(p, at) == at < Len(disk[p])

OpenPresent(p) ==
    /\ file = None /\ message_type # None
    /\ TypeFor(p) # Unknown /\ disk[p] # None
    /\ message_type' = TypeFor(p) /\ message_class' = TypeFor(p)
    /\ file' = p /\ pos' = 0
    /\ has_next' = HasData(p, 0)
    /\ ret' = Answer("OPENED") /\ got' = <<>>
    /\ UNCHANGED infer

Open(p) == OpenAgain \/ OpenUntyped \/ OpenUnknown(p) \/ OpenMissing(p) \/ OpenPresent(p)

Close ==
    /\ file' = None /\ pos' = 0
    /\ message_class' = None /\ message_type' = Unset
    /\ has_next' = FALSE
    /\ ret' = Answer("CLOSED") /\ got' = <<>>
    /\ UNCHANGED infer

-----------------------------------------------------------------------------
(* read_message()                                                          *)

End        == Len(disk[file])
Ahead(n)   == End - pos >= n
Next_(n, m) == SubSeq(disk[file], pos + n + 1, pos + n + m)

KeepSetup == UNCHANGED <<infer, file, message_type, message_class>>

Fail(at) ==
    /\ pos' = at
    /\ has_next' = FALSE
    /\ ret' = Result("ERROR")
    /\ KeepSetup /\ UNCHANGED got

ReadClosed ==
    /\ file = None
    /\ ret' = Answer("EOF")
    /\ KeepSetup /\ UNCHANGED <<pos, has_next, got>>

ReadAtEnd ==
    /\ file # None /\ pos = End
    /\ has_next' = FALSE
    /\ ret' = Answer("EOF")
    /\ KeepSetup /\ UNCHANGED <<pos, got>>

ReadTruncatedHeader ==
    /\ file # None /\ pos < End /\ ~Ahead(HeaderSize)
    /\ Fail(End)

(* Mutant: the reader goes back to the header of a frame that is too large.*)
ReadOversizedStays(n) == n > MaxExpectedMessageSize /\ Fail(pos)

(* A frame whose header announces n bytes.                                 *)
ReadOversized(n) ==
    /\ n > MaxExpectedMessageSize
    /\ Fail(pos + HeaderSize)

ReadTruncatedBody(n) ==
    /\ n <= MaxExpectedMessageSize /\ ~Ahead(HeaderSize + n)
    /\ Fail(End)

ReadBody(n) ==
    /\ n <= MaxExpectedMessageSize /\ Ahead(HeaderSize + n)
    /\ \E m \in ParsesOf(Next_(HeaderSize, n), message_class) :
          \/ m = None /\ Fail(pos + HeaderSize + n)
          \/ /\ m # None
             /\ pos' = pos + HeaderSize + n
             /\ has_next' = HasData(file, pos')
             /\ ret' = Result("OK") /\ got' = Append(got, m)
             /\ KeepSetup

ReadFrame ==
    /\ file # None /\ Ahead(HeaderSize)
    /\ \E n \in LengthsIn(Next_(0, HeaderSize)) :
          ReadOversized(n) \/ ReadTruncatedBody(n) \/ ReadBody(n)

ReadMessage == ReadClosed \/ ReadAtEnd \/ ReadTruncatedHeader \/ ReadFrame

-----------------------------------------------------------------------------
(* Properties                                                              *)

ReaderTypeOK ==
    /\ disk \in DiskValues
    /\ infer \in BOOLEAN
    /\ file \in Paths \union {None} /\ pos \in Nat
    /\ message_type \in MessageTypes \union {Unknown, None}
    /\ message_class \in MessageTypes \union {None}
    /\ has_next \in BOOLEAN
    /\ ret \in Answers
    /\ got \in Seq(Messages \union {Garbage})

(* What has_next announces is there: a file is open, its class resolved    *)
(* and a byte left, so the next read_message does not come back empty      *)
(* (single.py keeps the answer in a flag that every other method has to    *)
(* maintain).  Up to the first error the other direction holds as well:    *)
(* has_next turns false only at the very end of the file.                  *)
HasNextExact ==
    /\ has_next => file # None /\ message_class # None /\ pos < End
    /\ file # None /\ ~has_next /\ ret.status \in {"OPENED", "OK", "EOF"} => pos = End

=============================================================================
