------------------ MODULE SingleChannelBinaryTraceFileReader ------------------
(***************************************************************************)
(* The C++ reader of binary single-channel trace files,                    *)
(* cpp/src/tracefile/reader/SingleChannelBinaryTraceFileReader.cpp, on a   *)
(* std::ifstream.  What the Python reader answers with a result of status  *)
(* ERROR leaves this one as an exception.                                  *)
(***************************************************************************)
EXTENDS SingleTraceFormat

VARIABLES
    stream,         \* trace_file_: the path that is open, or None
    good,           \* trace_file_ has not failed
    at,             \* the position in it
    stream_type,    \* message_type_
    parser,         \* parser_: the type it parses, or None before any open
    reply,          \* what the last Open, Close or ReadMessage answered
    taken           \* history: the messages returned since Open

streamVars == <<stream, good, at, stream_type, parser, reply, taken>>

StreamInit ==
    /\ stream = None /\ good = TRUE /\ at = 0
    /\ stream_type = Unknown /\ parser = None
    /\ reply = "none" /\ taken = <<>>

-----------------------------------------------------------------------------
(* Open(p), with t = None, and Open(p, t), which takes the type over       *)
(* before anything is checked.                                             *)

Given(t) == IF t = None THEN stream_type ELSE t

Settled(p, t) == IF Given(t) # Unknown THEN Given(t) ELSE TypeOfName[p]

RefuseStream == /\ reply' = "false"
                /\ UNCHANGED <<stream, good, at, taken>>

(* Already open, another extension, or no such file.                       *)
OpenStreamRefused(p, t) ==
    /\ stream # None \/ p \notin OsiPaths \/ disk[p] = None
    /\ stream_type' = Given(t)
    /\ RefuseStream
    /\ UNCHANGED parser

Openable(p) == stream = None /\ p \in OsiPaths /\ disk[p] # None

OpenStreamUntyped(p, t) ==
    /\ Openable(p) /\ Settled(p, t) = Unknown
    /\ stream_type' = Unknown
    /\ RefuseStream
    /\ UNCHANGED parser

(* The operating system does not let it be opened.                         *)
OpenStreamFails(p, t) ==
    /\ Openable(p) /\ Settled(p, t) # Unknown
    /\ stream_type' = Settled(p, t) /\ parser' = Settled(p, t)
    /\ RefuseStream

(* Mutant: whatever the name, a file that is there is opened.              *)
OpenStreamAnyName(p, t) ==
    /\ stream = None /\ disk[p] # None /\ Settled(p, t) # Unknown
    /\ stream_type' = Settled(p, t) /\ parser' = Settled(p, t)
    /\ stream' = p /\ good' = TRUE /\ at' = 0
    /\ reply' = "true" /\ taken' = <<>>

OpenStreamSucceeds(p, t) ==
    /\ Openable(p) /\ Settled(p, t) # Unknown
    /\ stream_type' = Settled(p, t) /\ parser' = Settled(p, t)
    /\ stream' = p /\ good' = TRUE /\ at' = 0
    /\ reply' = "true" /\ taken' = <<>>

OpenStream(p, t) ==
    \/ OpenStreamRefused(p, t) \/ OpenStreamUntyped(p, t)
    \/ OpenStreamFails(p, t) \/ OpenStreamSucceeds(p, t)

(* Close(): the type stays.                                                *)
CloseStream ==
    /\ stream' = None /\ at' = 0 /\ good' = TRUE
    /\ reply' = "closed" /\ taken' = <<>>
    /\ UNCHANGED <<stream_type, parser>>

-----------------------------------------------------------------------------
(* ReadMessage()                                                           *)

StreamEnd      == Len(disk[stream])
StreamAhead(n) == StreamEnd - at >= n
StreamPart(n, m) == SubSeq(disk[stream], at + n + 1, at + n + m)

(* HasNext(): the look at the next byte reports the end of the file.       *)
StreamHasNext == stream # None /\ good /\ at < StreamEnd

KeepStream == UNCHANGED <<stream, stream_type, parser>>

Throw(pos, stays) == /\ at' = pos /\ good' = stays
                     /\ reply' = "threw"
                     /\ KeepStream /\ UNCHANGED taken

ReadNothing ==
    /\ ~StreamHasNext
    /\ reply' = "nullopt"
    /\ KeepStream /\ UNCHANGED <<good, at, taken>>

(* A read that meets the end of the file fails the stream.                 *)
ReadCutHeader ==
    /\ StreamHasNext /\ ~StreamAhead(HeaderSize)
    /\ Throw(StreamEnd, FALSE)

Valid(n) == n # 0 /\ n <= MaxExpectedMessageSize

(* Mutant: back to the header of the frame that has been refused.          *)
ReadInvalidStays(n) == ~Valid(n) /\ Throw(at, TRUE)

(* A frame whose header announces n bytes.                                 *)
ReadInvalid(n) == ~Valid(n) /\ Throw(at + HeaderSize, TRUE)

Take(m, pos) ==
    /\ at' = pos
    /\ reply' = "ok" /\ taken' = Append(taken, m)
    /\ KeepStream /\ UNCHANGED good

(* Mutant: the bytes in the buffer are parsed, however many there are.     *)
ReadCutBodyParses(n) ==
    /\ Valid(n) /\ ~StreamAhead(HeaderSize + n)
    /\ \E m \in ParsesOf(StreamPart(HeaderSize, StreamEnd - at - HeaderSize), parser) :
          IF m = None THEN Throw(StreamEnd, FALSE) ELSE Take(m, StreamEnd)

ReadCutBody(n) ==
    /\ Valid(n) /\ ~StreamAhead(HeaderSize + n)
    /\ Throw(StreamEnd, FALSE)

ReadWholeBody(n) ==
    /\ Valid(n) /\ StreamAhead(HeaderSize + n)
    /\ \E m \in ParsesOf(StreamPart(HeaderSize, n), parser) :
          IF m = None THEN Throw(at + HeaderSize + n, TRUE)
                      ELSE Take(m, at + HeaderSize + n)

ReadStreamFrame ==
    /\ StreamHasNext /\ StreamAhead(HeaderSize)
    /\ \E n \in LengthsIn(StreamPart(0, HeaderSize)) :
          ReadInvalid(n) \/ ReadCutBody(n) \/ ReadWholeBody(n)

ReadStream == ReadNothing \/ ReadCutHeader \/ ReadStreamFrame

StreamTypeOK ==
    /\ stream \in OsiPaths \union {None} /\ good \in BOOLEAN /\ at \in Nat
    /\ stream_type \in MessageTypes \union {Unknown}
    /\ parser \in MessageTypes \union {None}
    /\ reply \in {"none", "true", "false", "closed", "nullopt", "ok", "threw"}
    /\ taken \in Seq(Messages \union {Garbage})

=============================================================================
