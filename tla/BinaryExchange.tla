---------------------------- MODULE BinaryExchange ----------------------------
(***************************************************************************)
(* Binary trace files between the languages: what a writer of Python or    *)
(* of C++ leaves on the disk, read by the reader of either.  One program   *)
(* at a time has files open.                                               *)
(***************************************************************************)
EXTENDS SingleTraceFile, SingleChannelBinaryTraceFileReader,
        SingleChannelBinaryTraceFileWriter, SequencesExt

CONSTANT Targets    \* bound: the names that files are written under

VARIABLE maker      \* the language of the writer

exchangeVars == <<allVars, streamVars, maker>>

ExchangeInit == /\ FileInit /\ StreamInit
                /\ maker \in (IF infer THEN {"Python", "C++"} ELSE {"Python"})

(* A reader that has not been used: what one keeps of earlier files does   *)
(* not matter to a writer or to the other reader.                          *)
PythonFresh == ret.status = "NONE" /\ message_type = Unset
StreamFresh == reply = "none"

ExchangeWriting ==
    /\ PythonFresh /\ StreamFresh
    /\ \/ maker = "Python" /\ WriterNext
       \/ maker = "C++" /\ OutputNext
    /\ target' \in Targets \union {None}
    /\ UNCHANGED <<readerVars, streamVars, maker>>

(* The type is set for files of Python only: those of C++ are no different.*)
PythonReading == /\ StreamFresh
                 /\ Reading /\ (maker = "C++" => Playing)
                 /\ UNCHANGED <<streamVars, maker>>

(* The setting of the Python reader is no matter of the C++ reader.        *)
StreamReading ==
    /\ out = None /\ PythonFresh /\ infer
    /\ \/ \E p \in Paths, t \in MessageTypes \union {Unknown, None} : OpenStream(p, t)
       \/ CloseStream
       \/ ReadStream
    /\ UNCHANGED <<allVars, maker>>

ExchangeNext == ExchangeWriting \/ PythonReading \/ StreamReading

(* Clients that read on, through errors and through exceptions.            *)
PythonReadingOn == file # None /\ ReadingOn /\ UNCHANGED <<streamVars, maker>>
StreamReadingOn == stream # None /\ ReadStream /\ UNCHANGED <<allVars, maker>>

ExchangeSpec == /\ ExchangeInit /\ [][ExchangeNext]_exchangeVars
                /\ WF_exchangeVars(PythonReadingOn)
                /\ WF_exchangeVars(StreamReadingOn)

-----------------------------------------------------------------------------
(* Properties                                                              *)

ExchangeTypeOK == FileTypeOK /\ StreamTypeOK /\ maker \in {"Python", "C++"}

(* The C++ reader has the file that was written last, with the parser for  *)
(* all its messages, and none is larger than readers accept.               *)
StreamReadingBack ==
    /\ stream # None /\ stream = target
    /\ \A n \in DOMAIN accepted : TypeOf[accepted[n]] = parser /\ Readable(accepted[n])

(* Frames of length zero are the one thing the C++ reader does not take.   *)
Bodied(m) == IF SizeOf[m] = 0 THEN <<>> ELSE <<m>>
Carried(messages) == FlattenSeq([n \in 1..Len(messages) |-> Bodied(messages[n])])

(* Whichever language wrote a file, what the C++ reader returns is what    *)
(* was written, from the first message on and but for the empty ones: up   *)
(* to the first torn frame, and to the end that a failure or a crash has   *)
(* left of the file.  It returns nothing twice and makes nothing up,       *)
(* although it goes on after its exceptions; and of a file that met no     *)
(* failure it returns all but the empty messages.                          *)
StreamReadsBack ==
    StreamReadingBack =>
        LET whole == Carried(SubSeq(accepted, 1, intact)) IN
        /\ \A n \in DOMAIN taken : n <= Len(whole) => taken[n] = whole[n]
        /\ "torn" \notin damage => Len(taken) <= Len(whole)
        /\ damage = {} /\ reply = "nullopt" => taken = Carried(accepted)

(* A loop that goes on after exceptions ends, in a misread file as well:   *)
(* a stream that fails has nothing more, and one that does not moves on.   *)
StreamDrains == stream # None ~> reply \in {"nullopt", "closed"}

=============================================================================
