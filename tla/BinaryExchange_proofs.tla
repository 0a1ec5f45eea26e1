------------------------ MODULE BinaryExchange_proofs ------------------------
(***************************************************************************)
(* Proofs about the binary trace files.  First the types and has_next, by  *)
(* the invariant Kept: an open file exists, and what a reader that nobody  *)
(* has used yet says of itself, which is what keeps readers and writers    *)
(* apart.  Then what the Python reader reads back, by the invariant Read:  *)
(* where in the file the frame of every accepted message lies, and how far *)
(* the reader has followed them.  Last the same of the C++ reader, which   *)
(* passes over empty messages, by the invariant StreamRead.                *)
(***************************************************************************)
EXTENDS BinaryExchange, SequenceLemmas

-----------------------------------------------------------------------------
(* The bytes of frames and of files                                        *)

LEMMA FileBytes ==
    ASSUME disk \in DiskValues, NEW p \in Paths, disk[p] # None
    PROVE  disk[p] \in Seq(Bytes)
BY DEF DiskValues

LEMMA FrameBytes ==
    ASSUME NEW m \in Messages
    PROVE  /\ Frame(m) \in Seq(Bytes)
           /\ Len(Frame(m)) = HeaderSize + SizeOf[m]
           /\ HeaderSize + SizeOf[m] \in Nat \ {0}
           /\ \A k \in 1..(HeaderSize + SizeOf[m]) : Frame(m)[k] = [msg |-> m, at |-> k]
<1>1. SizeOf[m] \in Nat /\ HeaderSize + SizeOf[m] \in Nat \ {0}
  BY FormatAssumption
<1>2. \A k \in 1..(HeaderSize + SizeOf[m]) : [msg |-> m, at |-> k] \in Bytes
  BY <1>1 DEF Bytes
<1>3. Frame(m) \in [1..(HeaderSize + SizeOf[m]) -> Bytes]
  BY <1>2 DEF Frame
<1>4. Frame(m) \in Seq(Bytes) /\ Len(Frame(m)) = HeaderSize + SizeOf[m]
  BY <1>1, <1>3
<1> QED
  BY <1>1, <1>4 DEF Frame

(* What is written after the end of a file, and what is left of a file,    *)
(* are bytes again, each at its place.                                     *)
LEMMA LongerBytes ==
    ASSUME NEW s \in Seq(Bytes), NEW t \in Seq(Bytes)
    PROVE  /\ s \o t \in Seq(Bytes)
           /\ Len(s \o t) = Len(s) + Len(t)
           /\ \A k \in 1..Len(s) : (s \o t)[k] = s[k]
           /\ \A k \in 1..Len(t) : (s \o t)[Len(s) + k] = t[k]
BY ConcatProperties

LEMMA ShorterBytes ==
    ASSUME NEW s \in Seq(Bytes), NEW k \in 0..Len(s)
    PROVE  /\ SubSeq(s, 1, k) \in Seq(Bytes)
           /\ Len(SubSeq(s, 1, k)) = k
           /\ \A n \in 1..k : SubSeq(s, 1, k)[n] = s[n]
<1>1. \A n \in 1..k : s[n] \in Bytes
  BY ElementOfSeq
<1> QED
  BY <1>1, SubSeqProperties

-----------------------------------------------------------------------------
(* Types and has_next                                                      *)

Opened ==
    /\ out # None => disk[out] \in Seq(Bytes)
    /\ file # None => disk[file] \in Seq(Bytes) /\ message_class # None
    /\ stream # None => disk[stream] \in Seq(Bytes) /\ parser # None

Unused ==
    /\ ret.status = "NONE" => file = None
    /\ reply = "none" => stream = None

Kept == ExchangeTypeOK /\ Opened /\ Unused /\ HasNextExact

LEMMA KeptInit == ExchangeInit => Kept
<1> SUFFICES ASSUME ExchangeInit PROVE Kept
  OBVIOUS
<1> USE DEF ExchangeInit, FileInit, ReaderInit, WriterInit, StreamInit
<1>0. disk \in DiskValues /\ <<>> \in Seq(Messages)
      /\ <<>> \in Seq(Messages \union {Garbage})
  BY DisksAssumption
<1>1. ReaderTypeOK
  <2>1. ret \in Answers
    BY DEF Answer, Answers
  <2>2. message_type \in {Unknown, None} /\ message_class = None
    BY DEF Unset
  <2> QED
    BY <1>0, <2>1, <2>2 DEF ReaderTypeOK
<1>2. WriterTypeOK
  BY <1>0 DEF WriterTypeOK, Damages
<1>3. StreamTypeOK
  BY DEF StreamTypeOK
<1>4. Opened /\ Unused /\ HasNextExact
  BY DEF Opened, Unused, HasNextExact, Answer
<1> QED
  BY <1>1, <1>2, <1>3, <1>4 DEF Kept, ExchangeTypeOK, FileTypeOK

LEMMA FilePut ==
    ASSUME disk \in DiskValues, NEW p \in Paths, NEW s \in Seq(Bytes),
           disk' = [disk EXCEPT ![p] = s]
    PROVE  disk' \in DiskValues /\ disk'[p] = s
BY DEF DiskValues

(* What the writers keep of types, and of the file they have open.         *)
WriterKept == WriterTypeOK /\ (out # None => disk[out] \in Seq(Bytes))

LEMMA CutKept ==
    ASSUME WriterKept, out # None, Cut(out)
    PROVE  disk' \in DiskValues /\ damage' \in Damages /\ disk'[out] \in Seq(Bytes)
<1>1. out \in Paths /\ disk[out] \in Seq(Bytes) /\ disk \in DiskValues
  BY FormatAssumption DEF WriterKept, WriterTypeOK
<1>2. PICK k \in 0..Len(disk[out]) :
        /\ disk' = [disk EXCEPT ![out] = SubSeq(disk[out], 1, k)]
        /\ damage' = IF k = Len(disk[out]) THEN damage ELSE damage \union {"cut"}
  BY <1>1 DEF Cut, DiskValues
<1>3. damage' \in Damages
  BY <1>2 DEF WriterKept, WriterTypeOK, Damages
<1>4. SubSeq(disk[out], 1, k) \in Seq(Bytes)
  BY <1>1, ShorterBytes
<1> QED
  BY <1>1, <1>2, <1>3, <1>4, FilePut

LEMMA ExtendKept ==
    ASSUME WriterKept, out # None, NEW s \in Seq(Bytes), Extend(s)
    PROVE  disk' \in DiskValues /\ disk'[out] \in Seq(Bytes)
           /\ disk'[out] = disk[out] \o s
<1>1. out \in Paths /\ disk[out] \in Seq(Bytes) /\ disk \in DiskValues
  BY FormatAssumption DEF WriterKept, WriterTypeOK
<1>2. disk' = [disk EXCEPT ![out] = disk[out] \o s]
  BY <1>1 DEF Extend, DiskValues
<1>3. disk[out] \o s \in Seq(Bytes)
  BY <1>1, LongerBytes
<1> QED
  BY <1>1, <1>2, <1>3, FilePut

LEMMA PythonWriterKept == WriterKept /\ WriterNext => WriterKept'
<1> SUFFICES ASSUME WriterKept, WriterNext PROVE WriterKept'
  OBVIOUS
<1> USE DEF WriterKept, WriterTypeOK
<1>1. CASE \E p \in Paths : OpenWriter(p)
  <2>1. PICK p \in Paths : OpenWriter(p)
    BY <1>1
  <2>2. <<>> \in Seq(Bytes) /\ <<>> \in Seq(Messages)
    OBVIOUS
  <2>3. disk' \in DiskValues /\ disk'[p] = <<>>
    BY <2>1, <2>2, FilePut DEF OpenWriter
  <2> QED
    BY <2>1, <2>2, <2>3 DEF OpenWriter, Damages
<1>2. CASE OpenWriterRefused
  BY <1>2 DEF OpenWriterRefused
<1>3. CASE \E m \in Messages : Write(m)
  <2>1. PICK m \in Messages : Write(m)
    BY <1>3
  <2>2. disk' \in DiskValues /\ disk'[out] \in Seq(Bytes)
    BY <2>1, ExtendKept, FrameBytes DEF Write, MayWrite
  <2>3. accepted' \in Seq(Messages) /\ intact' \in Nat
    BY <2>1 DEF Write
  <2> QED
    BY <2>1, <2>2, <2>3 DEF Write
<1>4. CASE \E m \in Messages : WriteFails(m)
  <2>1. PICK m \in Messages : WriteFails(m)
    BY <1>4
  <2>2. PICK k \in {0} \union HeaderSize..(Len(Frame(m)) - 1) :
          /\ Extend(SubSeq(Frame(m), 1, k))
          /\ damage' = IF k = 0 THEN damage ELSE damage \union {"torn"}
    BY <2>1 DEF WriteFails
  <2>3. k \in 0..Len(Frame(m))
    BY FormatAssumption, FrameBytes
  <2>4. disk' \in DiskValues /\ disk'[out] \in Seq(Bytes)
    BY <2>1, <2>2, <2>3, ExtendKept, FrameBytes, ShorterBytes DEF WriteFails, MayWrite
  <2>5. damage' \in Damages
    BY <2>2 DEF Damages
  <2> QED
    BY <2>1, <2>4, <2>5 DEF WriteFails
<1>5. CASE WriteRefused
  BY <1>5 DEF WriteRefused
<1>6. CASE CloseWriter
  BY <1>6 DEF CloseWriter
<1>7. CASE CloseWriterFails
  BY <1>7, CutKept DEF CloseWriterFails
<1>8. CASE CrashWriter
  BY <1>8, CutKept DEF CrashWriter
<1> QED
  BY <1>1, <1>2, <1>3, <1>4, <1>5, <1>6, <1>7, <1>8 DEF WriterNext

LEMMA StreamWriterKept == WriterKept /\ OutputNext => WriterKept'
<1> SUFFICES ASSUME WriterKept, OutputNext PROVE WriterKept'
  OBVIOUS
<1>1. CASE \E p \in Paths : OpenOutput(p)
  BY <1>1, PythonWriterKept DEF OpenOutput, WriterNext
<1>2. CASE OpenOutputRefused
  BY <1>2, PythonWriterKept DEF OpenOutputRefused, WriterNext
<1>3. CASE CrashOutput
  BY <1>3, PythonWriterKept DEF CrashOutput, WriterNext
<1> USE DEF WriterKept, WriterTypeOK
<1>4. CASE \E m \in Messages : Put(m)
  <2>1. PICK m \in Messages : Put(m)
    BY <1>4
  <2>2. disk' \in DiskValues /\ disk'[out] \in Seq(Bytes)
    BY <2>1, ExtendKept, FrameBytes DEF Put, MayWrite
  <2>3. accepted' \in Seq(Messages) /\ intact' \in Nat
    BY <2>1 DEF Put
  <2> QED
    BY <2>1, <2>2, <2>3 DEF Put
<1>5. CASE \E m \in Messages : PutFails(m)
  <2>1. PICK m \in Messages : PutFails(m)
    BY <1>5
  <2>2. PICK k \in 0..(Len(disk[out] \o Frame(m)) - 1) :
          /\ disk' = [disk EXCEPT ![out] = SubSeq(disk[out] \o Frame(m), 1, k)]
          /\ damage' = damage \union Loss(m, k)
    BY <2>1 DEF PutFails
  <2>3. disk[out] \o Frame(m) \in Seq(Bytes)
    BY <2>1, FrameBytes, LongerBytes DEF PutFails, MayWrite
  <2>4. SubSeq(disk[out] \o Frame(m), 1, k) \in Seq(Bytes)
    BY <2>2, <2>3, ShorterBytes
  <2>5. out \in Paths
    BY <2>1, FormatAssumption DEF PutFails, MayWrite
  <2>6. disk' \in DiskValues /\ disk'[out] \in Seq(Bytes)
    BY <2>2, <2>4, <2>5, FilePut
  <2>7. damage' \in Damages
    BY <2>2 DEF Damages, Loss
  <2> QED
    BY <2>1, <2>6, <2>7 DEF PutFails
<1>6. CASE PutRefused
  BY <1>6 DEF PutRefused
<1>7. CASE CloseOutput
  BY <1>7 DEF CloseOutput
<1>8. CASE CloseOutputLoses
  BY <1>8, CutKept DEF CloseOutputLoses
<1> QED
  BY <1>1, <1>2, <1>3, <1>4, <1>5, <1>6, <1>7, <1>8 DEF OutputNext

LEMMA WritingKept == Kept /\ ExchangeWriting => Kept'
<1> SUFFICES ASSUME Kept, ExchangeWriting PROVE Kept'
  OBVIOUS
<1>1. WriterKept'
  BY PythonWriterKept, StreamWriterKept
     DEF Kept, ExchangeTypeOK, FileTypeOK, Opened, WriterKept, ExchangeWriting
<1>2. file = None /\ stream = None
  BY DEF Kept, Unused, ExchangeWriting, PythonFresh, StreamFresh
<1>3. UNCHANGED <<readerVars, streamVars, maker>>
  BY DEF ExchangeWriting
<1>4. ExchangeTypeOK'
  BY <1>1, <1>3 DEF Kept, ExchangeTypeOK, FileTypeOK, WriterKept, WriterTypeOK,
     ReaderTypeOK, StreamTypeOK, readerVars, streamVars
<1>5. Opened' /\ Unused' /\ HasNextExact'
  BY <1>1, <1>2, <1>3
     DEF Kept, WriterKept, Opened, Unused, HasNextExact, readerVars, streamVars
<1> QED
  BY <1>4, <1>5 DEF Kept

LEMMA Headers ==
    ASSUME NEW h, NEW n \in LengthsIn(h)
    PROVE  n \in Nat
BY FormatAssumption DEF LengthsIn

LEMMA Parses ==
    ASSUME NEW data, NEW t, NEW m \in ParsesOf(data, t), m # None
    PROVE  m \in Messages \union {Garbage}
BY DEF ParsesOf

(* What the Python reader keeps of types, its file and has_next.           *)
ReaderKept ==
    /\ ReaderTypeOK
    /\ file # None => disk[file] \in Seq(Bytes) /\ message_class # None
    /\ ret.status = "NONE" => file = None
    /\ HasNextExact

LEMMA SettingKept == ReaderKept /\ SettingType /\ UNCHANGED disk => ReaderKept'
BY DEF ReaderKept, ReaderTypeOK, SettingType, SetMessageType, HasNextExact

LEMMA AnswerTyped ==
    ASSUME NEW s \in {"NONE", "OPENED", "REFUSED", "CLOSED", "OK", "ERROR", "EOF"},
           message_type \in MessageTypes \union {Unknown, None}
    PROVE  /\ Answer(s) \in Answers /\ Answer(s).status = s
           /\ Result(s) \in Answers /\ Result(s).status = s
BY DEF Answer, Result, Answers

LEMMA OpeningKept ==
    ASSUME ReaderKept, NEW p \in Paths, Open(p), UNCHANGED disk
    PROVE  ReaderKept'
<1> USE DEF ReaderKept, ReaderTypeOK, HasNextExact
<1>1. CASE OpenAgain
  BY <1>1, AnswerTyped DEF OpenAgain, Refuse, End
<1>2. CASE OpenUntyped
  BY <1>2, AnswerTyped DEF OpenUntyped, Refuse
<1>3. CASE OpenUnknown(p)
  <2>1. ret' \in Answers /\ ret'.status = "REFUSED" /\ message_type' = Unknown
        /\ file' = None /\ UNCHANGED <<infer, file, pos, message_class, has_next, got, disk>>
    BY <1>3, AnswerTyped DEF OpenUnknown, Refuse
  <2> HIDE <1>3
  <2> QED
    BY <2>1
<1>4. TypeFor(p) \in MessageTypes \union {Unknown, None}
  BY FormatAssumption DEF TypeFor
<1>5. message_type # None /\ TypeFor(p) # Unknown => TypeFor(p) \in MessageTypes
  BY FormatAssumption DEF TypeFor
<1>6. CASE OpenMissing(p)
  BY <1>5, <1>6, AnswerTyped DEF OpenMissing, Refuse
<1>7. CASE OpenPresent(p)
  <2>1. disk[p] \in Seq(Bytes) /\ Len(disk[p]) \in Nat
    BY <1>7, FileBytes, LenProperties DEF OpenPresent
  <2>2. message_class' \in MessageTypes /\ message_type' \in MessageTypes
        /\ message_class' # None /\ file' = p /\ pos' = 0
        /\ has_next' = (0 < Len(disk[p]))
    BY <1>5, <1>7, FormatAssumption DEF OpenPresent, HasData
  <2>3. ret' \in Answers /\ ret'.status = "OPENED"
        /\ got' \in Seq(Messages \union {Garbage})
    BY <1>7, AnswerTyped DEF OpenPresent
  <2>4. UNCHANGED <<disk, infer>>
    BY <1>7 DEF OpenPresent
  <2>5. ReaderTypeOK'
    BY <2>2, <2>3, <2>4
  <2>6. HasNextExact'
    <3>1. /\ file' # None /\ ret'.status = "OPENED" /\ End' = Len(disk[p])
          /\ pos' = 0 /\ message_class' # None
          /\ has_next' => 0 < Len(disk[p])
          /\ ~has_next' => ~(0 < Len(disk[p]))
      BY <2>2, <2>3, <2>4, FormatAssumption DEF End
    <3> QED
      BY <2>1, <3>1
  <2> QED
    BY <2>1, <2>2, <2>3, <2>4, <2>5, <2>6
<1> QED
  BY <1>1, <1>2, <1>3, <1>6, <1>7 DEF Open

LEMMA ClosingKept == ReaderKept /\ Close /\ UNCHANGED disk => ReaderKept'
<1> SUFFICES ASSUME ReaderKept, Close, UNCHANGED disk PROVE ReaderKept'
  OBVIOUS
<1>1. ret' \in Answers /\ ret'.status = "CLOSED"
  BY AnswerTyped DEF ReaderKept, ReaderTypeOK, Close
<1>2. /\ file' = None /\ pos' = 0 /\ message_class' = None /\ has_next' = FALSE
      /\ message_type' \in {Unknown, None} /\ UNCHANGED <<infer, disk>>
      /\ got' \in Seq(Messages \union {Garbage})
  BY DEF Close, Unset
<1> QED
  BY <1>1, <1>2 DEF ReaderKept, ReaderTypeOK, HasNextExact

(* Where a read may leave the position.                                    *)
LEMMA FailingKept ==
    ASSUME ReaderKept, file # None, NEW n \in Nat, Fail(n), UNCHANGED disk
    PROVE  ReaderKept'
BY AnswerTyped DEF ReaderKept, ReaderTypeOK, HasNextExact, Fail, KeepSetup

LEMMA ReadingOneKept == ReaderKept /\ ReadMessage /\ UNCHANGED disk => ReaderKept'
<1> SUFFICES ASSUME ReaderKept, ReadMessage, UNCHANGED disk PROVE ReaderKept'
  OBVIOUS
<1>1. CASE ReadClosed
  BY <1>1, AnswerTyped DEF ReadClosed, KeepSetup, ReaderKept, ReaderTypeOK, HasNextExact
<1>2. file # None => Len(disk[file]) \in Nat
  BY LenProperties DEF ReaderKept
<1>3. CASE ReadAtEnd
  BY <1>2, <1>3, AnswerTyped
     DEF ReadAtEnd, KeepSetup, ReaderKept, ReaderTypeOK, HasNextExact, End
<1>4. CASE ReadTruncatedHeader
  BY <1>2, <1>4, FailingKept DEF ReadTruncatedHeader, End
<1>5. CASE ReadFrame
  <2>1. PICK n \in LengthsIn(Next_(0, HeaderSize)) :
               ReadOversized(n) \/ ReadTruncatedBody(n) \/ ReadBody(n)
    BY <1>5 DEF ReadFrame
  <2>2. n \in Nat /\ HeaderSize \in Nat /\ pos \in Nat /\ file # None
    BY <1>5, Headers, FormatAssumption DEF ReadFrame, ReaderKept, ReaderTypeOK
  <2>3. CASE ReadOversized(n)
    BY <2>2, <2>3, FailingKept DEF ReadOversized
  <2>4. CASE ReadTruncatedBody(n)
    BY <1>2, <2>2, <2>4, FailingKept DEF ReadTruncatedBody, End
  <2>5. CASE ReadBody(n)
    <3>1. PICK m \in ParsesOf(Next_(HeaderSize, n), message_class) :
             \/ m = None /\ Fail(pos + HeaderSize + n)
             \/ /\ m # None
                /\ pos' = pos + HeaderSize + n
                /\ has_next' = HasData(file, pos')
                /\ ret' = Result("OK") /\ got' = Append(got, m)
                /\ KeepSetup
      BY <2>5 DEF ReadBody
    <3>2. CASE m = None /\ Fail(pos + HeaderSize + n)
      BY <2>2, <3>2, FailingKept
    <3>3. CASE /\ m # None
               /\ pos' = pos + HeaderSize + n
               /\ has_next' = HasData(file, pos')
               /\ ret' = Result("OK") /\ got' = Append(got, m)
               /\ KeepSetup
      <4>1. m \in Messages \union {Garbage}
        BY <3>3, Parses
      <4>2. got' \in Seq(Messages \union {Garbage})
        BY <3>3, <4>1 DEF ReaderKept, ReaderTypeOK
      <4>3. ret' \in Answers /\ ret'.status = "OK"
        BY <3>3, AnswerTyped DEF ReaderKept, ReaderTypeOK
      <4>4. pos' \in Nat /\ pos' <= Len(disk[file])
        BY <1>2, <2>2, <2>5, <3>3 DEF ReadBody, Ahead, End
      <4>5. has_next' = (pos' < Len(disk[file])) /\ has_next' \in BOOLEAN
        BY <3>3 DEF HasData
      <4>6. UNCHANGED <<disk, infer, file, message_type, message_class>>
        BY <3>3 DEF KeepSetup
      <4> HIDE <3>3
      <4>7. ReaderTypeOK'
        BY <4>2, <4>3, <4>4, <4>5, <4>6 DEF ReaderKept, ReaderTypeOK
      <4>8. HasNextExact'
        <5>1. /\ file' # None /\ End' = Len(disk[file]) /\ message_class' # None
              /\ has_next' => pos' < Len(disk[file])
              /\ ~has_next' => ~(pos' < Len(disk[file]))
          BY <2>2, <4>5, <4>6 DEF ReaderKept, End
        <5> QED
          BY <1>2, <2>2, <4>4, <5>1 DEF HasNextExact
      <4> QED
        BY <4>3, <4>6, <4>7, <4>8 DEF ReaderKept
    <3> QED
      BY <3>1, <3>2, <3>3
  <2> QED
    BY <2>1, <2>3, <2>4, <2>5
<1> QED
  BY <1>1, <1>3, <1>4, <1>5 DEF ReadMessage

LEMMA PythonReadingKept == Kept /\ PythonReading => Kept'
<1> SUFFICES ASSUME Kept, PythonReading PROVE Kept'
  OBVIOUS
<1>1. UNCHANGED <<disk, writerVars, streamVars, maker>>
  BY DEF PythonReading, Reading
<1>2. ReaderKept
  BY DEF Kept, ReaderKept, ExchangeTypeOK, FileTypeOK, Opened, Unused
<1>3. ReaderKept'
  BY <1>1, <1>2, SettingKept, OpeningKept, ClosingKept, ReadingOneKept
     DEF PythonReading, Reading, Playing
<1>4. WriterTypeOK' /\ StreamTypeOK' /\ maker' \in {"Python", "C++"}
  BY <1>1, <1>3 DEF Kept, ExchangeTypeOK, FileTypeOK, WriterTypeOK, StreamTypeOK,
     ReaderKept, ReaderTypeOK, writerVars, streamVars
<1>5. /\ out' = out /\ stream' = stream /\ reply' = reply /\ parser' = parser
      /\ disk' = disk
  BY <1>1 DEF writerVars, streamVars
<1> QED
  BY <1>3, <1>4, <1>5
     DEF Kept, ExchangeTypeOK, FileTypeOK, Opened, Unused, ReaderKept

(* What the C++ reader keeps of types and of its file.                     *)
StreamKept ==
    /\ disk \in DiskValues /\ StreamTypeOK
    /\ stream # None => disk[stream] \in Seq(Bytes) /\ parser # None
    /\ reply = "none" => stream = None

LEMMA OpenStreamKept ==
    ASSUME StreamKept, NEW p \in Paths, NEW t \in MessageTypes \union {Unknown, None},
           OpenStream(p, t), UNCHANGED disk
    PROVE  StreamKept'
<1> USE DEF StreamKept, StreamTypeOK
<1>1. Given(t) \in MessageTypes \union {Unknown}
  BY DEF Given
<1>2. Settled(p, t) # Unknown => Settled(p, t) \in MessageTypes /\ Settled(p, t) # None
  BY <1>1, FormatAssumption DEF Settled
<1>3. CASE OpenStreamRefused(p, t)
  BY <1>1, <1>3 DEF OpenStreamRefused, RefuseStream
<1>4. CASE OpenStreamUntyped(p, t)
  BY <1>4 DEF OpenStreamUntyped, RefuseStream
<1>5. CASE OpenStreamFails(p, t)
  BY <1>2, <1>5 DEF OpenStreamFails, RefuseStream
<1>6. CASE OpenStreamSucceeds(p, t)
  <2>1. disk[p] \in Seq(Bytes) /\ p \in OsiPaths
    BY <1>6, FileBytes DEF OpenStreamSucceeds, Openable
  <2> QED
    BY <1>2, <1>6, <2>1 DEF OpenStreamSucceeds
<1> QED
  BY <1>3, <1>4, <1>5, <1>6 DEF OpenStream

LEMMA ThrowKept ==
    ASSUME StreamKept, NEW n \in Nat, NEW stays \in BOOLEAN, Throw(n, stays),
           UNCHANGED disk
    PROVE  StreamKept'
BY DEF StreamKept, StreamTypeOK, Throw, KeepStream

LEMMA ReadStreamKept == StreamKept /\ ReadStream /\ UNCHANGED disk => StreamKept'
<1> SUFFICES ASSUME StreamKept, ReadStream, UNCHANGED disk PROVE StreamKept'
  OBVIOUS
<1>1. CASE ReadNothing
  BY <1>1 DEF ReadNothing, KeepStream, StreamKept, StreamTypeOK
<1>2. stream # None => StreamEnd \in Nat
  BY LenProperties DEF StreamKept, StreamEnd
<1>3. CASE ReadCutHeader
  BY <1>2, <1>3, ThrowKept DEF ReadCutHeader, StreamHasNext
<1>4. CASE ReadStreamFrame
  <2>1. PICK n \in LengthsIn(StreamPart(0, HeaderSize)) :
               ReadInvalid(n) \/ ReadCutBody(n) \/ ReadWholeBody(n)
    BY <1>4 DEF ReadStreamFrame
  <2>2. n \in Nat /\ HeaderSize \in Nat /\ at \in Nat /\ StreamEnd \in Nat
    BY <1>2, <1>4, Headers, FormatAssumption
       DEF ReadStreamFrame, StreamHasNext, StreamKept, StreamTypeOK
  <2>3. at + HeaderSize \in Nat /\ at + HeaderSize + n \in Nat
    BY <2>2
  <2>4. CASE ReadInvalid(n)
    BY <2>3, <2>4, ThrowKept DEF ReadInvalid
  <2>5. CASE ReadCutBody(n)
    BY <2>2, <2>5, ThrowKept DEF ReadCutBody
  <2>6. CASE ReadWholeBody(n)
    <3>1. PICK m \in ParsesOf(StreamPart(HeaderSize, n), parser) :
             IF m = None THEN Throw(at + HeaderSize + n, TRUE)
                         ELSE Take(m, at + HeaderSize + n)
      BY <2>6 DEF ReadWholeBody
    <3>2. CASE m = None
      BY <2>3, <3>1, <3>2, ThrowKept
    <3>3. CASE m # None
      <4>1. m \in Messages \union {Garbage}
        BY <3>3, Parses
      <4>2. Append(taken, m) \in Seq(Messages \union {Garbage})
        BY <4>1 DEF StreamKept, StreamTypeOK
      <4> QED
        BY <2>3, <3>1, <3>3, <4>2 DEF Take, KeepStream, StreamKept, StreamTypeOK
    <3> QED
      BY <3>2, <3>3
  <2> QED
    BY <2>1, <2>4, <2>5, <2>6
<1> QED
  BY <1>1, <1>3, <1>4 DEF ReadStream

LEMMA StreamReadingKept == Kept /\ StreamReading => Kept'
<1> SUFFICES ASSUME Kept, StreamReading PROVE Kept'
  OBVIOUS
<1>1. UNCHANGED <<disk, readerVars, writerVars, maker>>
  BY DEF StreamReading, allVars
<1>2. StreamKept
  BY DEF Kept, StreamKept, ExchangeTypeOK, FileTypeOK, ReaderTypeOK, Opened, Unused
<1>3. StreamKept'
  <2>1. CASE CloseStream
    BY <1>1, <1>2, <2>1 DEF CloseStream, StreamKept, StreamTypeOK
  <2> QED
    BY <1>1, <1>2, <2>1, OpenStreamKept, ReadStreamKept DEF StreamReading
<1>4. ReaderTypeOK' /\ WriterTypeOK' /\ HasNextExact' /\ maker' \in {"Python", "C++"}
  BY <1>1 DEF Kept, ExchangeTypeOK, FileTypeOK, ReaderTypeOK, WriterTypeOK,
     HasNextExact, End, readerVars, writerVars
<1>5. /\ out' = out /\ file' = file /\ ret' = ret /\ message_class' = message_class
      /\ disk' = disk
  BY <1>1 DEF readerVars, writerVars
<1> QED
  BY <1>3, <1>4, <1>5 DEF Kept, ExchangeTypeOK, FileTypeOK, Opened, Unused, StreamKept

LEMMA KeptStutter == Kept /\ UNCHANGED exchangeVars => Kept'
BY DEF Kept, ExchangeTypeOK, FileTypeOK, ReaderTypeOK, WriterTypeOK, StreamTypeOK,
   Opened, Unused, HasNextExact, End, exchangeVars, allVars, readerVars, writerVars,
   streamVars

THEOREM KeptAlways == ExchangeSpec => []Kept
<1>1. Kept /\ [ExchangeNext]_exchangeVars => Kept'
  BY WritingKept, PythonReadingKept, StreamReadingKept, KeptStutter DEF ExchangeNext
<1> QED
  BY <1>1, KeptInit, PTL DEF ExchangeSpec

(* Both readers and both writers keep to their types, whatever files there *)
(* are, whatever is written and whatever of it a failure leaves.           *)
THEOREM ExchangeTyped == ExchangeSpec => []ExchangeTypeOK
<1>1. Kept => ExchangeTypeOK
  BY DEF Kept
<1> QED
  BY <1>1, KeptAlways, PTL

(* The flag of the Python reader tells the truth at every moment: after    *)
(* opening, reading, failing and closing files of any content.             *)
THEOREM FlagTrue == ExchangeSpec => []HasNextExact
<1>1. Kept => HasNextExact
  BY DEF Kept
<1> QED
  BY <1>1, KeptAlways, PTL

-----------------------------------------------------------------------------
(* What is read back                                                       *)

(* As much as a file s has of the frame of m lies behind its first o bytes.*)
Placed(s, m, o) ==
    \A k \in 1..(HeaderSize + SizeOf[m]) :
       o + k <= Len(s) => s[o + k] = [msg |-> m, at |-> k]

(* Where both files have a byte, it is the same.                           *)
Agree(s, u) == \A k \in 1..Len(s) : k <= Len(u) => u[k] = s[k]

(* offs[n] is the length of the first n frames.                            *)
Frames(offs) ==
    /\ offs[0] = 0
    /\ \A n \in 1..intact : offs[n] = offs[n - 1] + HeaderSize + SizeOf[accepted[n]]
    /\ \A i, j \in 0..intact : i < j => offs[i] < offs[j]
    /\ \A n \in 1..intact : Placed(disk[target], accepted[n], offs[n - 1])

(* A frame that is there in part only, and that readers take for one.      *)
Begun(s, o) ==
    \E m \in Messages : /\ Readable(m) /\ Placed(s, m, o)
                        /\ Len(s) < o + HeaderSize + SizeOf[m]

(* Where the file ends, for each kind of damage.                           *)
Ends(offs) ==
    LET s == disk[target]
        o == offs[intact] IN
    /\ intact <= Len(accepted)
    /\ "cut" \notin damage => o <= Len(s)
    /\ damage = {} => Len(s) = o
    /\ "torn" \notin damage => intact = Len(accepted)
    /\ "torn" \notin damage /\ Len(s) > o => Begun(s, o)

(* How far the reader is: at the end of a frame; at the end of a file that *)
(* is not what was written; or somewhere behind a torn frame.              *)
InStep(offs) == Len(got) <= intact /\ pos = offs[Len(got)]
AtTheEnd     == Len(got) <= intact /\ pos = End /\ damage # {}
Astray       == Len(got) >= intact /\ "torn" \in damage

Follows(offs) ==
    /\ \A n \in 1..Len(got) : n <= intact => got[n] = accepted[n]
    /\ InStep(offs) \/ AtTheEnd \/ Astray
    /\ damage = {} => ret.status # "ERROR"
    /\ ret.status = "EOF" => pos = End

Written(offs) == Frames(offs) /\ Ends(offs)

(* A stream that failed takes no more, and a file has one end only.        *)
Using ==
    /\ usable => out # None /\ "cut" \notin damage /\ (maker = "C++" => damage = {})
    /\ out # None => out = target

Read ==
    target # None =>
       \E offs \in Marks : Written(offs) /\ (ReadingBack => Follows(offs))

LEMMA PlacedKept ==
    ASSUME NEW s \in Seq(Bytes), NEW u \in Seq(Bytes), NEW m \in Messages, NEW o \in Nat,
           Placed(s, m, o),
           Len(u) <= Len(s) \/ o + HeaderSize + SizeOf[m] <= Len(s),
           Agree(s, u)
    PROVE  Placed(u, m, o)
<1>1. Len(s) \in Nat /\ Len(u) \in Nat /\ HeaderSize + SizeOf[m] \in Nat
  BY FormatAssumption, LenProperties
<1> SUFFICES ASSUME NEW k \in 1..(HeaderSize + SizeOf[m]), o + k <= Len(u)
             PROVE  u[o + k] = [msg |-> m, at |-> k]
  BY DEF Placed
<1>2. o + k \in 1..Len(s)
  BY <1>1, FormatAssumption
<1> QED
  BY <1>2 DEF Placed, Agree

LEMMA MarksRise ==
    ASSUME NEW offs \in Marks, Frames(offs), intact \in Nat,
           NEW i \in 0..intact, NEW j \in 0..intact, i <= j
    PROVE  /\ offs[i] \in Nat /\ offs[j] \in Nat
           /\ offs[i] <= offs[j]
           /\ i # j => offs[i] < offs[j]
<1>1. offs[i] \in Nat /\ offs[j] \in Nat
  BY DEF Marks
<1>2. i < j => offs[i] < offs[j]
  BY DEF Frames
<1>3. i = j \/ i < j
  OBVIOUS
<1>4. i = j => offs[i] = offs[j]
  OBVIOUS
<1> QED
  BY <1>1, <1>2, <1>3, <1>4

LEMMA PastFrame ==
    ASSUME NEW a \in Nat, NEW b \in Nat \ {0}, NEW c \in Nat
    PROVE  a + (b + c) \in Nat /\ a + (b + c) = a + b + c /\ a < a + (b + c)
OBVIOUS

(* The frames stay in place while the file is cut, or grows behind them.   *)
LEMMA PlacesKept ==
    ASSUME Kept, disk[target] \in Seq(Bytes), disk'[target] \in Seq(Bytes),
           Agree(disk[target], disk'[target]),
           NEW offs \in Marks, Frames(offs), intact <= Len(accepted),
           \/ Len(disk'[target]) <= Len(disk[target])
           \/ offs[intact] <= Len(disk[target])
    PROVE  \A n \in 1..intact : Placed(disk'[target], accepted[n], offs[n - 1])
<1>1. intact \in Nat /\ accepted \in Seq(Messages)
  BY DEF Kept, ExchangeTypeOK, FileTypeOK, WriterTypeOK
<1> SUFFICES ASSUME NEW n \in 1..intact
             PROVE  Placed(disk'[target], accepted[n], offs[n - 1])
  OBVIOUS
<1>2. accepted[n] \in Messages /\ n - 1 \in 0..intact /\ n \in 0..intact
  BY <1>1, LenProperties
<1>3. Placed(disk[target], accepted[n], offs[n - 1])
  BY DEF Frames
<1>4. offs[n] = offs[n - 1] + HeaderSize + SizeOf[accepted[n]]
  BY DEF Frames
<1>5. offs[n - 1] \in Nat /\ offs[n] \in Nat /\ offs[intact] \in Nat
  BY <1>1, <1>2, MarksRise
<1>6. offs[n] <= offs[intact]
  BY <1>1, <1>2, MarksRise
<1>7. \/ Len(disk'[target]) <= Len(disk[target])
      \/ offs[n - 1] + HeaderSize + SizeOf[accepted[n]] <= Len(disk[target])
  <2>1. CASE Len(disk'[target]) <= Len(disk[target])
    BY <2>1
  <2>2. CASE offs[intact] <= Len(disk[target])
    <3>1. Len(disk[target]) \in Nat
      BY LenProperties
    <3>2. offs[n] <= Len(disk[target])
      BY <1>5, <1>6, <2>2, <3>1
    <3> QED
      BY <1>4, <3>2
  <2> QED
    BY <2>1, <2>2
<1> QED
  BY <1>2, <1>3, <1>5, <1>7, PlacedKept

LEMMA FramesKept ==
    ASSUME Kept, disk[target] \in Seq(Bytes), disk'[target] \in Seq(Bytes),
           Agree(disk[target], disk'[target]),
           NEW offs \in Marks, Frames(offs), intact <= Len(accepted),
           \/ Len(disk'[target]) <= Len(disk[target])
           \/ offs[intact] <= Len(disk[target]),
           target' = target, intact' = intact,
           Agree(accepted, accepted'), intact <= Len(accepted')
    PROVE  Frames(offs)'
<1>1. intact \in Nat /\ accepted \in Seq(Messages)
  BY DEF Kept, ExchangeTypeOK, FileTypeOK, WriterTypeOK
<1>2. \A n \in 1..intact : Placed(disk'[target], accepted[n], offs[n - 1])
  BY PlacesKept
<1>3. offs[0] = 0 /\ \A i, j \in 0..intact : i < j => offs[i] < offs[j]
  BY DEF Frames
<1>4. \A n \in 1..intact : offs[n] = offs[n - 1] + HeaderSize + SizeOf[accepted[n]]
  BY DEF Frames
<1>5. \A n \in 1..intact : accepted'[n] = accepted[n]
  BY <1>1, LenProperties DEF Agree
<1> QED
  BY <1>2, <1>3, <1>4, <1>5 DEF Frames

(* Of the file a writer is using.                                          *)
LEMMA InUse ==
    ASSUME Kept, Using, usable, NEW offs \in Marks, Written(offs)
    PROVE  /\ out = target /\ target # None /\ target \in Paths
           /\ disk \in DiskValues /\ disk[target] \in Seq(Bytes)
           /\ Len(disk[target]) \in Nat
           /\ damage \in Damages /\ "cut" \notin damage
           /\ "torn" \notin damage => damage = {}
           /\ intact \in Nat /\ offs[intact] \in Nat
           /\ accepted \in Seq(Messages) /\ Len(accepted) \in Nat
           /\ intact <= Len(accepted) /\ offs[intact] <= Len(disk[target])
           /\ damage = {} => intact = Len(accepted) /\ Len(disk[target]) = offs[intact]
<1>1. out = target /\ target # None /\ "cut" \notin damage
  BY DEF Using
<1>2. /\ target \in Paths /\ disk \in DiskValues /\ disk[target] \in Seq(Bytes)
      /\ damage \in Damages /\ intact \in Nat /\ accepted \in Seq(Messages)
  BY <1>1, FormatAssumption DEF Kept, ExchangeTypeOK, FileTypeOK, WriterTypeOK, Opened
<1>3. "torn" \notin damage => damage = {}
  BY <1>1, <1>2 DEF Damages
<1>4. offs[intact] \in Nat
  BY <1>2 DEF Marks
<1>5. Len(disk[target]) \in Nat /\ Len(accepted) \in Nat
  BY <1>2, LenProperties
<1>6. intact <= Len(accepted) /\ offs[intact] <= Len(disk[target])
  BY <1>1 DEF Written, Ends
<1>7. ASSUME damage = {}
      PROVE  intact = Len(accepted) /\ Len(disk[target]) = offs[intact]
  <2>1. "torn" \notin damage
    BY <1>7
  <2>2. Ends(offs)
    BY DEF Written
  <2>3. intact = Len(accepted)
    BY <2>1, <2>2 DEF Ends
  <2>4. Len(disk[target]) = offs[intact]
    BY <1>7, <2>2 DEF Ends
  <2> QED
    BY <2>3, <2>4
<1> QED
  BY <1>1, <1>2, <1>3, <1>4, <1>5, <1>6, <1>7

LEMMA CutWritten ==
    ASSUME Kept, Using, usable, NEW offs \in Marks, Written(offs),
           Cut(out), UNCHANGED <<target, accepted, intact>>
    PROVE  Written(offs)'
<1>1. PICK k \in 0..Len(disk[target]) :
        /\ disk' = [disk EXCEPT ![target] = SubSeq(disk[target], 1, k)]
        /\ damage' = IF k = Len(disk[target]) THEN damage ELSE damage \union {"cut"}
  BY InUse DEF Cut, DiskValues
<1>2. disk[target] \in Seq(Bytes) /\ SubSeq(disk[target], 1, k) \in Seq(Bytes)
  BY InUse, ShorterBytes
<1>3. disk'[target] = SubSeq(disk[target], 1, k)
  BY <1>1, <1>2, InUse, FilePut
<1>4. Len(disk'[target]) = k /\ Agree(disk[target], disk'[target])
  BY <1>2, <1>3, ShorterBytes DEF Agree
<1>5. Agree(accepted, accepted') /\ intact <= Len(accepted')
  BY InUse DEF Agree
<1>6. Len(disk'[target]) <= Len(disk[target])
  BY <1>4, InUse
<1>7. target' = target /\ intact' = intact /\ accepted' = accepted
  OBVIOUS
<1>8. Frames(offs)'
  BY <1>2, <1>3, <1>4, <1>5, <1>6, <1>7, InUse, FramesKept DEF Written
<1>9. Ends(offs)'
  <2>1. CASE k = Len(disk[target])
    BY <1>1, <1>4, <1>7, <2>1, InUse DEF Ends
  <2>2. CASE k # Len(disk[target])
    <3>1. damage' = damage \union {"cut"}
      BY <1>1, <2>2
    <3>2. "torn" \notin damage' => intact = Len(accepted) /\ ~(k > offs[intact])
      BY <1>4, <1>6, <3>1, InUse
    <3> QED
      BY <1>4, <1>7, <3>1, <3>2, InUse DEF Ends
  <2> QED
    BY <2>1, <2>2
<1> QED
  BY <1>8, <1>9 DEF Written

(* Bytes are added behind the end of a file that is torn, or is now.       *)
LEMMA TornWritten ==
    ASSUME Kept, Using, usable, NEW offs \in Marks, Written(offs),
           NEW t \in Seq(Bytes), disk'[target] = disk[target] \o t,
           target' = target, intact' = intact,
           Agree(accepted, accepted'), intact <= Len(accepted'),
           "torn" \in damage', "cut" \notin damage'
    PROVE  Written(offs)'
<1>1. disk'[target] \in Seq(Bytes) /\ Len(disk'[target]) = Len(disk[target]) + Len(t)
      /\ Agree(disk[target], disk'[target])
  BY InUse, LongerBytes DEF Agree
<1>2. Frames(offs)'
  BY <1>1, InUse, FramesKept DEF Written
<1>3. offs[intact] <= Len(disk'[target])
  BY <1>1, InUse, LenProperties
<1>4. Ends(offs)'
  BY <1>3 DEF Ends
<1> QED
  BY <1>2, <1>4 DEF Written

(* A whole frame behind the last one of a file without damage.             *)
LEMMA FrameWritten ==
    ASSUME Kept, Using, usable, NEW offs \in Marks, Written(offs), damage = {},
           NEW m \in Messages, disk'[target] = disk[target] \o Frame(m),
           target' = target, damage' = damage,
           accepted' = Append(accepted, m), intact' = intact + 1
    PROVE  \E o \in Marks : Written(o)'
<1>1. HeaderSize + SizeOf[m] \in Nat \ {0} /\ offs[intact] \in Nat
      /\ intact + 1 \in Nat /\ intact \in Nat /\ intact = Len(accepted)
      /\ Len(disk[target]) = offs[intact]
  BY InUse, FormatAssumption
<1>2. PICK next \in Nat : /\ next = offs[intact] + (HeaderSize + SizeOf[m])
                         /\ next = offs[intact] + HeaderSize + SizeOf[m]
                         /\ offs[intact] < next
  <2>1. /\ offs[intact] + (HeaderSize + SizeOf[m]) \in Nat
        /\ offs[intact] + (HeaderSize + SizeOf[m]) = offs[intact] + HeaderSize + SizeOf[m]
        /\ offs[intact] < offs[intact] + (HeaderSize + SizeOf[m])
    <3>1. HeaderSize \in Nat \ {0} /\ SizeOf[m] \in Nat
      BY FormatAssumption
    <3> QED
      BY <1>1, <3>1, PastFrame, SMTT(60)
  <2> QED
    BY <2>1
<1>3. PICK o \in Marks : o[intact + 1] = next /\ \A n \in 0..intact : o[n] = offs[n]
  <2> DEFINE w == [offs EXCEPT ![intact + 1] = next]
  <2>1. w \in Marks /\ w[intact + 1] = next
    BY <1>1, <1>2 DEF Marks
  <2>2. \A n \in 0..intact : w[n] = offs[n]
    BY <1>1 DEF Marks
  <2> QED
    BY <2>1, <2>2
<1>4. \A n \in 0..intact : o[n] = offs[n]
  BY <1>3
<1>5. /\ disk'[target] \in Seq(Bytes) /\ Len(disk'[target]) = next
      /\ Agree(disk[target], disk'[target])
      /\ \A k \in 1..(HeaderSize + SizeOf[m]) :
            disk'[target][offs[intact] + k] = [msg |-> m, at |-> k]
  <2>1. Frame(m) \in Seq(Bytes) /\ Len(Frame(m)) = HeaderSize + SizeOf[m]
    BY FrameBytes
  <2>2. disk'[target] \in Seq(Bytes) /\ Len(disk'[target]) = next
    <3>1. disk[target] \in Seq(Bytes)
      BY InUse
    <3> QED
      BY <1>1, <1>2, <2>1, <3>1, LongerBytes
  <2>3. Agree(disk[target], disk'[target])
    BY <2>1, InUse, LongerBytes DEF Agree
  <2>4. \A k \in 1..(HeaderSize + SizeOf[m]) :
            disk'[target][offs[intact] + k] = Frame(m)[k]
    <3>1. disk[target] \in Seq(Bytes)
      BY InUse
    <3>2. \A k \in 1..Len(Frame(m)) :
             (disk[target] \o Frame(m))[Len(disk[target]) + k] = Frame(m)[k]
      BY <2>1, <3>1, LongerBytes
    <3> QED
      BY <1>1, <2>1, <3>2
  <2> QED
    BY <2>2, <2>3, <2>4, FrameBytes
<1>6. /\ accepted \in Seq(Messages) /\ accepted' \in Seq(Messages)
      /\ Len(accepted') = intact + 1
      /\ accepted'[intact + 1] = m
      /\ \A n \in 1..intact : accepted'[n] = accepted[n]
  BY <1>1, InUse, AppendProperties
<1>7. ASSUME NEW n \in 1..intact'
      PROVE  /\ o[n] = o[n - 1] + HeaderSize + SizeOf[accepted'[n]]
             /\ Placed(disk'[target], accepted'[n], o[n - 1])
  <2>1. CASE n = intact + 1
    <3>1. n - 1 = intact /\ accepted'[n] = m /\ o[n - 1] = offs[intact] /\ o[n] = next
      BY <1>1, <1>3, <1>4, <1>6, <2>1
    <3>2. Placed(disk'[target], m, offs[intact])
      BY <1>5 DEF Placed
    <3> QED
      BY <1>2, <3>1, <3>2
  <2>2. CASE n # intact + 1
    <3>1. n \in 1..intact /\ n \in 0..intact /\ n - 1 \in 0..intact
      BY <1>1, <2>2
    <3>2. o[n] = offs[n] /\ o[n - 1] = offs[n - 1] /\ accepted'[n] = accepted[n]
      BY <1>4, <1>6, <3>1
    <3>3. offs[n] = offs[n - 1] + HeaderSize + SizeOf[accepted[n]]
      BY <3>1 DEF Written, Frames
    <3>4. Placed(disk'[target], accepted[n], offs[n - 1])
      BY <1>5, <3>1, InUse, PlacesKept DEF Written
    <3> QED
      BY <3>2, <3>3, <3>4
  <2> QED
    BY <2>1, <2>2
<1>8. ASSUME NEW i \in 0..intact', NEW j \in 0..intact', i < j
      PROVE  o[i] < o[j]
  <2>1. i \in 0..intact /\ o[i] = offs[i]
    BY <1>1, <1>4, <1>8
  <2>2. CASE j = intact + 1
    <3>1. offs[i] <= offs[intact] /\ offs[i] \in Nat /\ offs[intact] \in Nat
      BY <1>1, <2>1, MarksRise DEF Written
    <3> QED
      BY <1>1, <1>2, <1>3, <2>1, <2>2, <3>1
  <2>3. CASE j # intact + 1
    <3>1. j \in 0..intact /\ o[j] = offs[j]
      BY <1>1, <1>4, <2>3
    <3> QED
      BY <2>1, <3>1, <1>8 DEF Written, Frames
  <2> QED
    BY <2>2, <2>3
<1>9. o[0] = 0
  <2>1. 0 \in 0..intact
    BY <1>1
  <2> QED
    BY <1>4, <2>1 DEF Written, Frames
<1>10. Frames(o)'
  BY <1>7, <1>8, <1>9 DEF Frames
<1>11. Ends(o)'
  <2>1. o[intact'] = next /\ Len(disk'[target']) = next /\ intact' = Len(accepted')
    BY <1>1, <1>3, <1>5, <1>6
  <2>2. next <= next /\ ~(next > next) /\ intact' <= Len(accepted')
    BY <1>1, <1>2, <2>1
  <2> QED
    BY <2>1, <2>2 DEF Ends
<1> QED
  BY <1>3, <1>10, <1>11 DEF Written

(* A stream that fails while it holds whole frames and a new one.          *)
LEMMA PartWritten ==
    ASSUME Kept, Using, usable, NEW offs \in Marks, Written(offs), damage = {},
           NEW m \in Messages, NEW k \in 0..(Len(disk[target] \o Frame(m)) - 1),
           disk'[target] = SubSeq(disk[target] \o Frame(m), 1, k),
           target' = target, accepted' = accepted, intact' = intact,
           damage' = damage \union Loss(m, k)
    PROVE  Written(offs)'
<1>1. /\ disk[target] \in Seq(Bytes) /\ Len(disk[target]) = offs[intact]
      /\ offs[intact] \in Nat /\ intact = Len(accepted) /\ out = target
      /\ intact \in Nat
  BY InUse
<1>2. /\ Frame(m) \in Seq(Bytes) /\ Len(Frame(m)) = HeaderSize + SizeOf[m]
      /\ HeaderSize + SizeOf[m] \in Nat \ {0}
  BY FrameBytes
<1> DEFINE whole == disk[target] \o Frame(m)
<1>3. /\ whole \in Seq(Bytes) /\ Len(whole) = offs[intact] + (HeaderSize + SizeOf[m])
      /\ \A n \in 1..Len(disk[target]) : whole[n] = disk[target][n]
      /\ \A n \in 1..(HeaderSize + SizeOf[m]) :
            whole[offs[intact] + n] = [msg |-> m, at |-> n]
  <2>1. /\ whole \in Seq(Bytes) /\ Len(whole) = Len(disk[target]) + Len(Frame(m))
        /\ \A n \in 1..Len(disk[target]) : whole[n] = disk[target][n]
        /\ \A n \in 1..Len(Frame(m)) : whole[Len(disk[target]) + n] = Frame(m)[n]
    BY <1>1, <1>2, LongerBytes
  <2>2. \A n \in 1..(HeaderSize + SizeOf[m]) : Frame(m)[n] = [msg |-> m, at |-> n]
    BY FrameBytes
  <2> HIDE DEF whole
  <2> QED
    BY <1>1, <1>2, <2>1, <2>2, ZenonT(60)
<1>4. k \in 0..Len(whole) /\ k \in Nat /\ k < offs[intact] + (HeaderSize + SizeOf[m])
  <2>1. k \in 0..(Len(whole) - 1)
    OBVIOUS
  <2> HIDE DEF whole
  <2> QED
    BY <1>1, <1>2, <1>3, <2>1
<1>5. disk'[target] = SubSeq(whole, 1, k)
  OBVIOUS
<1> HIDE DEF whole
<1>6. /\ disk'[target] \in Seq(Bytes) /\ Len(disk'[target]) = k
      /\ \A n \in 1..k : disk'[target][n] = whole[n]
  BY <1>3, <1>4, <1>5, ShorterBytes, SMTT(60)
<1>7. Agree(disk[target], disk'[target])
  BY <1>1, <1>3, <1>4, <1>6 DEF Agree
<1>8. Agree(accepted, accepted') /\ intact <= Len(accepted) /\ intact <= Len(accepted')
      /\ offs[intact] <= Len(disk[target])
  BY <1>1 DEF Agree
<1>9. Frames(offs)'
  BY <1>1, <1>6, <1>7, <1>8, FramesKept DEF Written
<1>10. Ends(offs)'
  <2>1. CASE k = offs[intact]
    <3>1. Loss(m, k) = {} /\ damage' = {}
      BY <1>1, <2>1 DEF Loss
    <3> QED
      BY <1>1, <1>6, <1>8, <2>1, <3>1 DEF Ends
  <2>2. CASE k < offs[intact]
    <3>1. Loss(m, k) = {"cut"} /\ damage' = {"cut"} /\ ~(k > offs[intact])
      BY <1>1, <1>4, <2>2 DEF Loss
    <3> QED
      BY <1>1, <1>6, <1>8, <3>1 DEF Ends
  <2>3. CASE k > offs[intact] /\ ~Readable(m)
    <3>1. Loss(m, k) = {"torn"} /\ damage' = {"torn"} /\ offs[intact] <= k
      BY <1>1, <1>4, <2>3 DEF Loss
    <3> QED
      BY <1>1, <1>6, <1>8, <3>1 DEF Ends
  <2>4. CASE k > offs[intact] /\ Readable(m)
    <3>1. Loss(m, k) = {"cut"} /\ damage' = {"cut"}
      BY <1>1, <1>4, <2>4 DEF Loss
    <3>2. Placed(disk'[target], m, offs[intact])
      <4>1. SUFFICES ASSUME NEW n \in 1..(HeaderSize + SizeOf[m]), offs[intact] + n <= k
                     PROVE  disk'[target][offs[intact] + n] = [msg |-> m, at |-> n]
        BY <1>6 DEF Placed
      <4>2. offs[intact] + n \in 1..k
        BY <1>1, <1>2, <1>4, <4>1
      <4> QED
        BY <1>3, <1>6, <4>2
    <3>3. k < offs[intact] + HeaderSize + SizeOf[m]
      <4>1. HeaderSize \in Nat \ {0} /\ SizeOf[m] \in Nat
        BY FormatAssumption
      <4> QED
        BY <1>1, <1>4, <4>1, PastFrame
    <3>4. Begun(disk'[target], offs[intact])
      BY <1>6, <2>4, <3>2, <3>3 DEF Begun
    <3> QED
      BY <1>1, <1>8, <3>1, <3>4 DEF Ends
  <2> QED
    BY <1>1, <1>4, <2>1, <2>2, <2>3, <2>4
<1> QED
  BY <1>9, <1>10 DEF Written

(* What holds of the file that is written, or was written last.            *)
Laying == Using /\ (target # None => \E offs \in Marks : Written(offs))

LEMMA BlankWritten ==
    ASSUME Kept, NEW p \in OsiPaths, OpenWriter(p)
    PROVE  Laying'
<1>1. PICK offs \in Marks : offs[0] = 0
  <2>1. [n \in Nat |-> 0] \in Marks
    BY DEF Marks
  <2> QED
    BY <2>1
<1>2. disk'[p] = <<>> /\ target' = p /\ out' = p /\ accepted' = <<>> /\ intact' = 0
      /\ damage' = {}
  <2>1. <<>> \in Seq(Bytes) /\ p \in Paths /\ disk \in DiskValues
    BY FormatAssumption DEF Kept, ExchangeTypeOK, FileTypeOK, WriterTypeOK
  <2>2. disk'[p] = <<>>
    BY <2>1, FilePut DEF OpenWriter
  <2> QED
    BY <2>2 DEF OpenWriter
<1>3. Frames(offs)' /\ Ends(offs)'
  BY <1>1, <1>2 DEF Frames, Ends
<1>4. p # None
  BY FormatAssumption
<1> QED
  BY <1>2, <1>3, <1>4 DEF Laying, Using, Written

LEMMA SameWritten ==
    ASSUME NEW offs \in Marks, Written(offs),
           UNCHANGED <<disk, target, accepted, intact, damage>>
    PROVE  Written(offs)'
BY DEF Written, Frames, Ends

LEMMA WriteWritten ==
    ASSUME Kept, Using, NEW offs \in Marks, Written(offs), maker' = maker,
           NEW m \in Messages, Write(m), maker = "Python"
    PROVE  Laying'
<1>1. usable /\ out # None
  BY DEF Write, MayWrite
<1>2. disk'[target] = disk[target] \o Frame(m) /\ Frame(m) \in Seq(Bytes)
  <2>1. WriterKept /\ out = target
    BY <1>1, InUse
       DEF Kept, ExchangeTypeOK, FileTypeOK, Opened, WriterKept
  <2> QED
    BY <1>1, <2>1, ExtendKept, FrameBytes DEF Write
<1>3. Using'
  BY <1>1 DEF Using, Write
<1>4. accepted' = Append(accepted, m) /\ target' = target /\ damage' = damage
  BY DEF Write
<1>5. CASE damage = {}
  <2>1. intact' = intact + 1
    BY <1>5 DEF Write
  <2>2. \E o \in Marks : Written(o)'
    BY <1>1, <1>2, <1>4, <1>5, <2>1, FrameWritten
  <2> QED
    BY <1>3, <2>2 DEF Laying
<1>6. CASE damage # {}
  <2>1. "torn" \in damage' /\ "cut" \notin damage' /\ intact' = intact
    BY <1>1, <1>4, <1>6, InUse DEF Write
  <2>2. /\ accepted \in Seq(Messages) /\ intact <= Len(accepted)
        /\ intact \in Nat /\ Len(accepted) \in Nat
    BY <1>1, InUse
  <2>3. /\ Len(accepted') = Len(accepted) + 1
        /\ \A i \in 1..Len(accepted) : accepted'[i] = accepted[i]
    BY <1>4, <2>2, AppendProperties
  <2>4. Agree(accepted, accepted') /\ intact <= Len(accepted')
    BY <2>2, <2>3 DEF Agree
  <2>5. Written(offs)'
    BY <1>1, <1>2, <1>4, <2>1, <2>4, TornWritten
  <2> QED
    BY <1>3, <2>5 DEF Laying
<1> QED
  BY <1>5, <1>6

LEMMA WriteFailsWritten ==
    ASSUME Kept, Using, NEW offs \in Marks, Written(offs), maker' = maker,
           NEW m \in Messages, WriteFails(m), maker = "Python"
    PROVE  Laying'
<1>1. usable /\ out # None
  BY DEF WriteFails, MayWrite
<1>2. PICK k \in {0} \union HeaderSize..(Len(Frame(m)) - 1) :
        /\ Extend(SubSeq(Frame(m), 1, k))
        /\ damage' = IF k = 0 THEN damage ELSE damage \union {"torn"}
  BY DEF WriteFails
<1>3. k \in 0..Len(Frame(m))
  BY FormatAssumption, FrameBytes
<1>4. /\ SubSeq(Frame(m), 1, k) \in Seq(Bytes)
      /\ Len(SubSeq(Frame(m), 1, k)) = k
      /\ disk'[target] = disk[target] \o SubSeq(Frame(m), 1, k)
  <2>1. WriterKept /\ out = target
    BY <1>1, InUse
       DEF Kept, ExchangeTypeOK, FileTypeOK, Opened, WriterKept
  <2>2. SubSeq(Frame(m), 1, k) \in Seq(Bytes) /\ Len(SubSeq(Frame(m), 1, k)) = k
    BY <1>3, FrameBytes, ShorterBytes
  <2> QED
    BY <1>1, <1>2, <2>1, <2>2, ExtendKept
<1>5. "cut" \notin damage' /\ Using'
  BY <1>1, <1>2 DEF Using, WriteFails
<1>6. accepted' = accepted /\ target' = target /\ intact' = intact
  BY DEF WriteFails
<1>7. CASE k = 0
  <2>1. damage' = damage
    BY <1>2, <1>7
  <2>2. disk'[target] = disk[target]
    <3>1. SubSeq(Frame(m), 1, k) = <<>>
      BY <1>4, <1>7, EmptySeq
    <3> QED
      BY <1>1, <1>4, <3>1, InUse, ConcatEmptySeq
  <2>3. Written(offs)'
    BY <1>6, <2>1, <2>2 DEF Written, Frames, Ends
  <2> QED
    BY <1>5, <2>3 DEF Laying
<1>8. CASE k # 0
  <2>1. "torn" \in damage'
    BY <1>2, <1>8
  <2>2. Agree(accepted, accepted') /\ intact <= Len(accepted')
    BY <1>1, <1>6, InUse DEF Agree
  <2>3. Written(offs)'
    BY <1>1, <1>4, <1>5, <1>6, <2>1, <2>2, TornWritten
  <2> QED
    BY <1>5, <2>3 DEF Laying
<1> QED
  BY <1>7, <1>8

LEMMA PutWritten ==
    ASSUME Kept, Using, NEW offs \in Marks, Written(offs), maker' = maker,
           NEW m \in Messages, Put(m) \/ PutFails(m), maker = "C++"
    PROVE  Laying'
<1>1. usable /\ out # None /\ damage = {}
  BY DEF Put, PutFails, MayWrite, Using
<1>2. out = target /\ target \in Paths /\ disk[target] \in Seq(Bytes)
      /\ disk \in DiskValues
  BY <1>1, InUse
<1>3. CASE Put(m)
  <2>1. disk'[target] = disk[target] \o Frame(m)
    <3>1. WriterKept
      BY DEF Kept, ExchangeTypeOK, FileTypeOK, Opened, WriterKept
    <3> QED
      BY <1>1, <1>2, <1>3, <3>1, ExtendKept, FrameBytes DEF Put
  <2>2. \E o \in Marks : Written(o)'
    BY <1>1, <1>3, <2>1, FrameWritten DEF Put
  <2>3. Using'
    BY <1>1, <1>3 DEF Using, Put
  <2> QED
    BY <2>2, <2>3 DEF Laying
<1>4. CASE PutFails(m)
  <2>1. PICK k \in 0..(Len(disk[out] \o Frame(m)) - 1) :
          /\ disk' = [disk EXCEPT ![out] = SubSeq(disk[out] \o Frame(m), 1, k)]
          /\ damage' = damage \union Loss(m, k)
    BY <1>4 DEF PutFails
  <2>2. disk'[target] = SubSeq(disk[target] \o Frame(m), 1, k)
    <3>1. target \in DOMAIN disk
      BY <1>2 DEF DiskValues
    <3> QED
      BY <1>2, <2>1, <3>1
  <2>3. k \in 0..(Len(disk[target] \o Frame(m)) - 1)
    BY <1>2, <2>1
  <2>4. Written(offs)'
    BY <1>1, <1>4, <2>1, <2>2, <2>3, PartWritten DEF PutFails
  <2>5. Using'
    BY <1>4 DEF Using, PutFails
  <2> QED
    BY <2>4, <2>5 DEF Laying
<1> QED
  BY <1>3, <1>4

LEMMA LostWritten ==
    ASSUME Kept, Laying, maker' = maker,
           CloseWriterFails \/ CrashWriter \/ CloseOutputLoses
    PROVE  Laying'
<1>1. usable /\ out # None /\ Using /\ target # None
  BY FormatAssumption DEF CloseWriterFails, CrashWriter, CloseOutputLoses, Laying, Using
<1>2. PICK offs \in Marks : Written(offs)
  BY <1>1 DEF Laying
<1>3. Cut(out) /\ UNCHANGED <<target, accepted, intact>>
  BY DEF CloseWriterFails, CrashWriter, CloseOutputLoses
<1>4. Written(offs)'
  BY <1>1, <1>2, <1>3, CutWritten
<1>5. Using'
  BY <1>1 DEF Using, CloseWriterFails, CrashWriter, CloseOutputLoses
<1> QED
  BY <1>4, <1>5 DEF Laying

LEMMA QuietWritten ==
    ASSUME Laying, UNCHANGED <<disk, target, accepted, intact, damage, maker>>,
           \/ out' = out /\ usable' = usable
           \/ out' = None /\ usable' = FALSE
    PROVE  Laying'
<1>1. Using'
  BY DEF Laying, Using
<1>2. ASSUME target' # None PROVE \E offs \in Marks : Written(offs)'
  <2>1. PICK offs \in Marks : Written(offs)
    BY <1>2 DEF Laying
  <2> QED
    BY <2>1, SameWritten
<1> QED
  BY <1>1, <1>2 DEF Laying

LEMMA LayingKept == Kept /\ Laying /\ ExchangeWriting => Laying'
<1> SUFFICES ASSUME Kept, Laying, ExchangeWriting PROVE Laying'
  OBVIOUS
<1>1. maker' = maker
  BY DEF ExchangeWriting
<1>2. Using
  BY DEF Laying
<1>3. ASSUME NEW m \in Messages,
             (maker = "Python" /\ (Write(m) \/ WriteFails(m)))
             \/ (maker = "C++" /\ (Put(m) \/ PutFails(m)))
      PROVE  Laying'
  <2>1. out # None
    BY <1>3 DEF Write, WriteFails, Put, PutFails, MayWrite
  <2>2. target # None
    BY <1>2, <2>1 DEF Using
  <2>3. PICK offs \in Marks : Written(offs)
    BY <2>2 DEF Laying
  <2> QED
    BY <1>1, <1>2, <1>3, <2>3, WriteWritten, WriteFailsWritten, PutWritten
<1>4. ASSUME NEW p \in Paths, OpenWriter(p)
      PROVE  Laying'
  BY <1>4, BlankWritten DEF OpenWriter
<1>5. CASE OpenWriterRefused \/ WriteRefused \/ CloseWriter
  BY <1>1, <1>5, QuietWritten DEF OpenWriterRefused, WriteRefused, CloseWriter
<1>6. CASE PutRefused \/ CloseOutput
  BY <1>1, <1>6, QuietWritten DEF PutRefused, CloseOutput
<1>7. CASE CloseWriterFails \/ CrashWriter \/ CloseOutputLoses
  BY <1>1, <1>7, LostWritten
<1>8. CASE maker = "Python" /\ WriterNext
  BY <1>3, <1>4, <1>5, <1>7, <1>8 DEF WriterNext
<1>9. CASE maker = "C++" /\ OutputNext
  BY <1>3, <1>4, <1>5, <1>6, <1>7, <1>9
     DEF OutputNext, OpenOutput, OpenOutputRefused, CrashOutput
<1> QED
  BY <1>8, <1>9 DEF ExchangeWriting

(* A reader at the beginning of a frame knows its length, if the header is *)
(* there, and its message, if all of it is there.                          *)
LEMMA PartBytes ==
    ASSUME NEW s \in Seq(Bytes), NEW o \in Nat, NEW n \in Nat, o + n <= Len(s)
    PROVE  /\ Len(SubSeq(s, o + 1, o + n)) = n
           /\ SubSeq(s, o + 1, o + n) \in Seq(Bytes)
           /\ \A k \in 1..n : SubSeq(s, o + 1, o + n)[k] = s[o + k]
<1>1. Len(s) \in Nat
  BY LenProperties
<1>2. \A i \in (o + 1)..(o + n) : s[i] \in Bytes
  BY <1>1, ElementOfSeq
<1>3. SubSeq(s, o + 1, o + n) \in Seq(Bytes)
  BY <1>2, SubSeqProperties
<1>4. Len(SubSeq(s, o + 1, o + n)) = n
  BY <1>2, SubSeqProperties
<1>5. \A k \in 1..n : SubSeq(s, o + 1, o + n)[k] = s[o + k]
  BY <1>2, SubSeqProperties
<1> QED
  BY <1>3, <1>4, <1>5

LEMMA HeaderBytes ==
    ASSUME NEW m \in Messages
    PROVE  /\ Header(m) \in Seq(Bytes) /\ Len(Header(m)) = HeaderSize
           /\ \A k \in 1..HeaderSize : Header(m)[k] = [msg |-> m, at |-> k]
<1>1. Frame(m) \in Seq(Bytes) /\ HeaderSize \in Nat /\ HeaderSize \in 0..Len(Frame(m))
      /\ \A k \in 1..HeaderSize : k \in 1..(HeaderSize + SizeOf[m])
  BY FrameBytes, FormatAssumption
<1>2. /\ Header(m) \in Seq(Bytes) /\ Len(Header(m)) = HeaderSize
      /\ \A k \in 1..HeaderSize : Header(m)[k] = Frame(m)[k]
  BY <1>1, ShorterBytes DEF Header
<1> QED
  BY <1>1, <1>2, FrameBytes

LEMMA BodyBytes ==
    ASSUME NEW m \in Messages
    PROVE  /\ Body(m) \in Seq(Bytes) /\ Len(Body(m)) = SizeOf[m]
           /\ \A k \in 1..SizeOf[m] : Body(m)[k] = [msg |-> m, at |-> HeaderSize + k]
<1>1. /\ Frame(m) \in Seq(Bytes) /\ HeaderSize \in Nat /\ SizeOf[m] \in Nat
      /\ HeaderSize + SizeOf[m] <= Len(Frame(m))
  BY FrameBytes, FormatAssumption
<1>2. /\ Body(m) \in Seq(Bytes) /\ Len(Body(m)) = SizeOf[m]
      /\ \A k \in 1..SizeOf[m] : Body(m)[k] = Frame(m)[HeaderSize + k]
  BY <1>1, PartBytes DEF Body
<1>3. \A k \in 1..SizeOf[m] : HeaderSize + k \in 1..(HeaderSize + SizeOf[m])
  BY <1>1
<1> QED
  BY <1>2, <1>3, FrameBytes

LEMMA SameBytes ==
    ASSUME NEW s \in Seq(Bytes), NEW t \in Seq(Bytes), Len(s) = Len(t),
           \A k \in 1..Len(s) : s[k] = t[k]
    PROVE  s = t
BY SeqEqual

LEMMA HeaderKnown ==
    ASSUME NEW s \in Seq(Bytes), NEW m \in Messages, NEW o \in Nat,
           Placed(s, m, o), o + HeaderSize <= Len(s)
    PROVE  LengthsIn(SubSeq(s, o + 1, o + HeaderSize)) = {SizeOf[m]}
<1>1. HeaderSize \in Nat \ {0} /\ SizeOf[m] \in Nat /\ Len(s) \in Nat
  BY FormatAssumption, LenProperties
<1> DEFINE h == SubSeq(s, o + 1, o + HeaderSize)
<1>2. /\ h \in Seq(Bytes) /\ Len(h) = HeaderSize
      /\ \A k \in 1..HeaderSize : h[k] = s[o + k]
  BY <1>1, PartBytes
<1>3. \A k \in 1..HeaderSize : s[o + k] = [msg |-> m, at |-> k]
  <2>1. SUFFICES ASSUME NEW k \in 1..HeaderSize PROVE s[o + k] = [msg |-> m, at |-> k]
    OBVIOUS
  <2>2. k \in 1..(HeaderSize + SizeOf[m]) /\ o + k <= Len(s)
    BY <1>1
  <2> QED
    BY <2>2 DEF Placed
<1> HIDE DEF h
<1>4. h = Header(m)
  <2>1. Header(m) \in Seq(Bytes) /\ Len(Header(m)) = Len(h)
    BY <1>2, HeaderBytes
  <2>2. \A k \in 1..Len(h) : h[k] = Header(m)[k]
    BY <1>2, <1>3, HeaderBytes, ZenonT(60)
  <2> QED
    BY <1>2, <2>1, <2>2, SameBytes
<1>5. ASSUME NEW n \in Messages, h = Header(n) PROVE n = m
  <2>1. 1 \in 1..HeaderSize
    BY <1>1
  <2>2. Header(n)[1] = [msg |-> n, at |-> 1]
    BY ONLY n \in Messages, <2>1, HeaderBytes
  <2>3. Header(m)[1] = [msg |-> m, at |-> 1]
    BY ONLY m \in Messages, <2>1, HeaderBytes
  <2> QED
    BY <1>4, <1>5, <2>2, <2>3
<1>6. LengthsIn(h) = {SizeOf[m]}
  <2>1. LengthsIn(h) = {SizeOf[i] : i \in {n \in Messages : h = Header(n)}}
    BY <1>4 DEF LengthsIn
  <2>2. {n \in Messages : h = Header(n)} = {m}
    BY <1>4, <1>5
  <2> QED
    BY <2>1, <2>2
<1> QED
  BY <1>6 DEF h

LEMMA BodyKnown ==
    ASSUME NEW s \in Seq(Bytes), NEW m \in Messages, NEW o \in Nat,
           Placed(s, m, o), o + HeaderSize + SizeOf[m] <= Len(s)
    PROVE  ParsesOf(SubSeq(s, o + HeaderSize + 1, o + HeaderSize + SizeOf[m]), TypeOf[m]) = {m}
<1>1. HeaderSize \in Nat \ {0} /\ SizeOf[m] \in Nat /\ Len(s) \in Nat
      /\ o + HeaderSize \in Nat
  BY FormatAssumption, LenProperties
<1> DEFINE b == SubSeq(s, o + HeaderSize + 1, o + HeaderSize + SizeOf[m])
<1>2. /\ b \in Seq(Bytes) /\ Len(b) = SizeOf[m]
      /\ \A k \in 1..SizeOf[m] : b[k] = s[o + HeaderSize + k]
  BY <1>1, PartBytes, ZenonT(60)
<1>3. \A k \in 1..SizeOf[m] : s[o + HeaderSize + k] = [msg |-> m, at |-> HeaderSize + k]
  <2>1. SUFFICES ASSUME NEW k \in 1..SizeOf[m]
                 PROVE  s[o + HeaderSize + k] = [msg |-> m, at |-> HeaderSize + k]
    OBVIOUS
  <2>2. HeaderSize + k \in 1..(HeaderSize + SizeOf[m]) /\ o + (HeaderSize + k) <= Len(s)
        /\ o + (HeaderSize + k) = o + HeaderSize + k
    BY <1>1
  <2>3. s[o + (HeaderSize + k)] = [msg |-> m, at |-> HeaderSize + k]
    BY <2>2 DEF Placed
  <2> QED
    BY <2>2, <2>3
<1> HIDE DEF b
<1>4. b = Body(m)
  <2>1. Body(m) \in Seq(Bytes) /\ Len(Body(m)) = Len(b)
    BY <1>2, BodyBytes
  <2>2. \A k \in 1..Len(b) : b[k] = Body(m)[k]
    BY <1>2, <1>3, BodyBytes, ZenonT(60)
  <2> QED
    BY <1>2, <2>1, <2>2, SameBytes
<1>5. ASSUME NEW n \in Messages, b = Body(n), TypeOf[n] = TypeOf[m] PROVE n = m
  <2>1. SizeOf[n] = SizeOf[m]
    BY <1>2, <1>5, BodyBytes
  <2>2. CASE SizeOf[m] = 0
    BY <1>5, <2>1, <2>2, DefaultAssumption
  <2>3. CASE SizeOf[m] # 0
    <3>1. 1 \in 1..SizeOf[m]
      BY <1>1, <2>3
    <3>2. Body(n)[1] = [msg |-> n, at |-> HeaderSize + 1]
          /\ Body(m)[1] = [msg |-> m, at |-> HeaderSize + 1]
      BY <2>1, <3>1, BodyBytes
    <3> QED
      BY <1>4, <1>5, <3>2
  <2> QED
    BY <2>2, <2>3
<1>6. {n \in Messages : b = Body(n) /\ TypeOf[n] = TypeOf[m]} = {m}
  BY <1>4, <1>5
<1>7. ParsesOf(b, TypeOf[m]) = {m}
  BY <1>6 DEF ParsesOf
<1> QED
  BY <1>7 DEF b

(* What one call of read_message may do to what has been read.             *)
LEMMA OneRead ==
    ASSUME Kept, file # None, ReadMessage, UNCHANGED disk
    PROVE  /\ file' = file /\ message_class' = message_class /\ End' = End
           /\ \/ pos = End /\ pos' = pos /\ got' = got /\ ret'.status = "EOF"
              \/ got' = got /\ ret'.status = "ERROR"
              \/ /\ ret'.status = "OK" /\ Len(got') = Len(got) + 1
                 /\ \A n \in 1..Len(got) : got'[n] = got[n]
<1>1. file' = file /\ message_class' = message_class
  BY DEF ReadMessage, ReadClosed, ReadAtEnd, ReadTruncatedHeader, ReadFrame,
     ReadOversized, ReadTruncatedBody, ReadBody, Fail, KeepSetup
<1>2. got \in Seq(Messages \union {Garbage})
      /\ message_type \in MessageTypes \union {Unknown, None}
  BY DEF Kept, ExchangeTypeOK, FileTypeOK, ReaderTypeOK
<1>3. CASE ReadAtEnd
  BY <1>1, <1>3 DEF ReadAtEnd, Answer, End
<1>4. ASSUME NEW n, Fail(n) PROVE got' = got /\ ret'.status = "ERROR"
  BY <1>4 DEF Fail, Result
<1>5. CASE ReadTruncatedHeader
  BY <1>1, <1>4, <1>5 DEF ReadTruncatedHeader, End
<1>6. CASE ReadFrame
  <2>1. PICK n \in LengthsIn(Next_(0, HeaderSize)) :
               ReadOversized(n) \/ ReadTruncatedBody(n) \/ ReadBody(n)
    BY <1>6 DEF ReadFrame
  <2>2. CASE ReadOversized(n) \/ ReadTruncatedBody(n)
    BY <1>1, <1>4, <2>2 DEF ReadOversized, ReadTruncatedBody, End
  <2>3. CASE ReadBody(n)
    <3>1. PICK m \in ParsesOf(Next_(HeaderSize, n), message_class) :
             \/ m = None /\ Fail(pos + HeaderSize + n)
             \/ m # None /\ ret' = Result("OK") /\ got' = Append(got, m)
      BY <2>3 DEF ReadBody
    <3>2. CASE m = None /\ Fail(pos + HeaderSize + n)
      BY <1>1, <1>4, <3>2 DEF End
    <3>3. CASE m # None /\ ret' = Result("OK") /\ got' = Append(got, m)
      <4>1. m \in Messages \union {Garbage}
        BY <3>3, Parses
      <4>2. Len(got') = Len(got) + 1 /\ \A i \in 1..Len(got) : got'[i] = got[i]
        BY <1>2, <3>3, <4>1, AppendProperties
      <4> QED
        BY <1>1, <3>3, <4>2 DEF Result, End
    <3> QED
      BY <3>1, <3>2, <3>3
  <2> QED
    BY <2>1, <2>2, <2>3
<1> QED
  BY <1>3, <1>5, <1>6 DEF ReadMessage, ReadClosed

(* What is known wherever the file that was written last is read.          *)
LEMMA ReadingFacts ==
    ASSUME Kept, NEW offs \in Marks, Written(offs), ReadingBack
    PROVE  /\ file # None /\ file = target /\ target # None
           /\ disk[file] \in Seq(Bytes) /\ End = Len(disk[target]) /\ End \in Nat
           /\ pos \in Nat /\ got \in Seq(Messages \union {Garbage}) /\ Len(got) \in Nat
           /\ intact \in Nat /\ intact <= Len(accepted)
           /\ accepted \in Seq(Messages) /\ Len(accepted) \in Nat
           /\ HeaderSize \in Nat \ {0} /\ MaxExpectedMessageSize \in Nat
           /\ offs[intact] \in Nat
           /\ damage = {} => intact = Len(accepted) /\ End = offs[intact]
<1>1. file # None /\ file = target
  BY DEF ReadingBack
<1>2. disk[file] \in Seq(Bytes) /\ pos \in Nat /\ got \in Seq(Messages \union {Garbage})
      /\ intact \in Nat /\ accepted \in Seq(Messages)
  BY <1>1 DEF Kept, ExchangeTypeOK, FileTypeOK, ReaderTypeOK, WriterTypeOK, Opened
<1>3. End = Len(disk[target]) /\ End \in Nat /\ Len(got) \in Nat /\ Len(accepted) \in Nat
  BY <1>1, <1>2, LenProperties DEF End
<1>4. offs[intact] \in Nat
  BY <1>2 DEF Marks
<1>5. intact <= Len(accepted) /\ (damage = {} => End = offs[intact])
  BY <1>3 DEF Written, Ends
<1>6. ASSUME damage = {} PROVE intact = Len(accepted)
  <2>1. "torn" \notin damage
    BY <1>6
  <2> QED
    BY <2>1 DEF Written, Ends
<1> QED
  BY <1>1, <1>2, <1>3, <1>4, <1>5, <1>6, FormatAssumption

(* The frame at a place decides what a read does there.                    *)
LEMMA ReadPlaced ==
    ASSUME Kept, NEW offs \in Marks, Written(offs), ReadingBack, ReadFrame,
           NEW m \in Messages, Readable(m), Placed(disk[target], m, pos)
    PROVE  \/ ~Ahead(HeaderSize + SizeOf[m]) /\ Fail(End)
           \/ /\ Ahead(HeaderSize + SizeOf[m])
              /\ TypeOf[m] = message_class =>
                    /\ pos' = pos + HeaderSize + SizeOf[m]
                    /\ ret' = Result("OK") /\ got' = Append(got, m)
<1>1. /\ file # None /\ file = target /\ disk[file] \in Seq(Bytes) /\ pos \in Nat
      /\ End = Len(disk[target]) /\ End \in Nat
      /\ HeaderSize \in Nat \ {0} /\ MaxExpectedMessageSize \in Nat
  BY ReadingFacts
<1>2. SizeOf[m] \in Nat /\ ~(SizeOf[m] > MaxExpectedMessageSize)
  BY <1>1, FormatAssumption DEF Readable
<1>3. pos + HeaderSize <= Len(disk[target]) /\ Ahead(HeaderSize)
  BY <1>1 DEF ReadFrame, Ahead
<1>4. Next_(0, HeaderSize) = SubSeq(disk[target], pos + 1, pos + HeaderSize)
  BY <1>1 DEF Next_
<1>5. LengthsIn(Next_(0, HeaderSize)) = {SizeOf[m]}
  BY <1>1, <1>3, <1>4, HeaderKnown
<1>6. ReadTruncatedBody(SizeOf[m]) \/ ReadBody(SizeOf[m])
  BY <1>2, <1>5 DEF ReadFrame, ReadOversized
<1>7. CASE ReadTruncatedBody(SizeOf[m])
  BY <1>7 DEF ReadTruncatedBody
<1>8. CASE ReadBody(SizeOf[m])
  <2>1. Ahead(HeaderSize + SizeOf[m])
    BY <1>8 DEF ReadBody
  <2>2. ASSUME TypeOf[m] = message_class
        PROVE  /\ pos' = pos + HeaderSize + SizeOf[m]
               /\ ret' = Result("OK") /\ got' = Append(got, m)
    <3>1. pos + HeaderSize + SizeOf[m] <= Len(disk[target])
      BY <1>1, <1>2, <2>1 DEF Ahead
    <3>2. Next_(HeaderSize, SizeOf[m])
            = SubSeq(disk[target], pos + HeaderSize + 1, pos + HeaderSize + SizeOf[m])
      BY <1>1 DEF Next_
    <3>3. ParsesOf(Next_(HeaderSize, SizeOf[m]), message_class) = {m}
      BY <1>1, <2>2, <3>1, <3>2, BodyKnown, ZenonT(60)
    <3>4. m # None
      BY FormatAssumption
    <3> QED
      BY <1>8, <3>3, <3>4 DEF ReadBody
  <2> QED
    BY <2>1, <2>2
<1> QED
  BY <1>6, <1>7, <1>8

LEMMA FollowsAstray ==
    ASSUME Kept, NEW offs \in Marks, Written(offs), ReadingBack, Follows(offs),
           ReadMessage, UNCHANGED <<disk, writerVars>>,
           Astray \/ (Len(got) = intact /\ "torn" \in damage)
    PROVE  Follows(offs)'
<1>1. /\ file # None /\ Len(got) \in Nat /\ intact \in Nat
      /\ accepted' = accepted /\ intact' = intact /\ damage' = damage
  BY ReadingFacts DEF writerVars
<1>2. /\ End' = End
      /\ \/ pos = End /\ pos' = pos /\ got' = got /\ ret'.status = "EOF"
         \/ got' = got /\ ret'.status = "ERROR"
         \/ /\ ret'.status = "OK" /\ Len(got') = Len(got) + 1
            /\ \A n \in 1..Len(got) : got'[n] = got[n]
  BY <1>1, OneRead
<1>3. Len(got) >= intact /\ "torn" \in damage
  BY <1>1 DEF Astray
<1>4. \A n \in 1..Len(got) : n <= intact => got[n] = accepted[n]
  BY DEF Follows
<1>5. Len(got') \in Nat /\ Len(got') >= Len(got) /\ \A n \in 1..Len(got) : got'[n] = got[n]
  BY <1>1, <1>2
<1>6. ASSUME NEW n \in 1..Len(got'), n <= intact PROVE got'[n] = accepted[n]
  <2>1. n \in 1..Len(got)
    BY <1>1, <1>3, <1>5, <1>6
  <2> QED
    BY <1>4, <1>5, <1>6, <2>1
<1>7. Len(got') >= intact
  BY <1>1, <1>3, <1>5
<1>8. ret'.status = "EOF" => pos' = End'
  BY <1>2
<1>9. damage' # {} /\ "torn" \in damage'
  BY <1>1, <1>3
<1> QED
  BY <1>1, <1>6, <1>7, <1>8, <1>9 DEF Follows, Astray

(* Nothing moves at the end of a file.                                     *)
LEMMA FollowsAtEnd ==
    ASSUME Kept, NEW offs \in Marks, Written(offs), ReadingBack, Follows(offs),
           ReadMessage, UNCHANGED <<disk, writerVars>>, pos = End
    PROVE  Follows(offs)'
<1>1. /\ file # None /\ pos \in Nat /\ End \in Nat /\ HeaderSize \in Nat \ {0}
      /\ accepted' = accepted /\ intact' = intact /\ damage' = damage
  BY ReadingFacts DEF writerVars
<1>2. ~ReadTruncatedHeader /\ ~ReadFrame /\ ~ReadClosed
  BY <1>1 DEF ReadTruncatedHeader, ReadFrame, ReadClosed, Ahead
<1>3. pos' = pos /\ got' = got /\ ret'.status = "EOF" /\ End' = End
  BY <1>2 DEF ReadMessage, ReadAtEnd, Answer, End, KeepSetup
<1> QED
  BY <1>1, <1>3 DEF Follows, InStep, AtTheEnd, Astray

(* A read that finds the file cut short: of a file that met no failure     *)
(* nothing is missing.                                                     *)
LEMMA FollowsCut ==
    ASSUME Kept, NEW offs \in Marks, Written(offs), ReadingBack, Follows(offs),
           UNCHANGED <<disk, writerVars>>, InStep(offs), Fail(End), damage # {}
    PROVE  Follows(offs)'
<1>1. /\ accepted' = accepted /\ intact' = intact /\ damage' = damage
      /\ got' = got /\ ret'.status = "ERROR" /\ pos' = End /\ End' = End
  BY DEF writerVars, Fail, KeepSetup, Result, End
<1> QED
  BY <1>1 DEF Follows, InStep, AtTheEnd

(* The next frame is one of those that were written.                       *)
LEMMA FollowsFrame ==
    ASSUME Kept, NEW offs \in Marks, Written(offs), ReadingBack, Follows(offs),
           ReadMessage, UNCHANGED <<disk, writerVars>>, InStep(offs), Len(got) < intact
    PROVE  Follows(offs)'
<1>1. /\ file # None /\ pos \in Nat /\ End \in Nat /\ HeaderSize \in Nat \ {0}
      /\ accepted' = accepted /\ intact' = intact /\ damage' = damage
      /\ Len(got) \in Nat /\ intact \in Nat /\ intact <= Len(accepted)
      /\ accepted \in Seq(Messages) /\ Len(accepted) \in Nat
      /\ got \in Seq(Messages \union {Garbage})
      /\ End = Len(disk[target])
  BY ReadingFacts DEF writerVars
<1> DEFINE g == Len(got) + 1
           m == accepted[g]
<1>2. g \in 1..intact /\ g \in DOMAIN accepted /\ g - 1 = Len(got) /\ m \in Messages
      /\ g \in 0..intact /\ intact \in 0..intact
  BY <1>1
<1>3. TypeOf[m] = message_class /\ Readable(m)
  BY <1>2 DEF ReadingBack
<1>4. Placed(disk[target], m, pos) /\ offs[g] = pos + HeaderSize + SizeOf[m]
  <2>1. Placed(disk[target], accepted[g], offs[g - 1])
        /\ offs[g] = offs[g - 1] + HeaderSize + SizeOf[accepted[g]]
    BY <1>2 DEF Written, Frames
  <2> QED
    BY <1>2, <2>1 DEF InStep
<1>5. offs[g] \in Nat /\ offs[intact] \in Nat /\ offs[g] <= offs[intact]
  BY <1>1, <1>2, MarksRise DEF Written
<1>6. SizeOf[m] \in Nat
  BY <1>2, FormatAssumption
<1>7. damage = {} => Ahead(HeaderSize + SizeOf[m]) /\ Ahead(HeaderSize)
  <2>1. damage = {} => End = offs[intact]
    BY ReadingFacts
  <2> HIDE DEF m, g
  <2> QED
    BY <1>1, <1>4, <1>5, <1>6, <2>1 DEF Ahead
<1> HIDE DEF m
<1>8. CASE ReadAtEnd
  BY <1>8, FollowsAtEnd DEF ReadAtEnd
<1>9. CASE ReadTruncatedHeader
  BY <1>7, <1>9, FollowsCut DEF ReadTruncatedHeader
<1>10. CASE ReadFrame
  <2>1. \/ ~Ahead(HeaderSize + SizeOf[m]) /\ Fail(End)
        \/ /\ pos' = pos + HeaderSize + SizeOf[m]
           /\ ret' = Result("OK") /\ got' = Append(got, m)
    BY <1>2, <1>3, <1>4, <1>10, ReadPlaced
  <2>2. CASE ~Ahead(HeaderSize + SizeOf[m]) /\ Fail(End)
    BY <1>7, <2>2, FollowsCut
  <2>3. CASE /\ pos' = pos + HeaderSize + SizeOf[m]
             /\ ret' = Result("OK") /\ got' = Append(got, m)
    <3>1. /\ Len(got') = g /\ got'[g] = m
          /\ \A n \in 1..Len(got) : got'[n] = got[n]
      BY <1>1, <1>2, <2>3, AppendProperties
    <3>2. ret'.status = "OK" /\ pos' = offs[g]
      BY <1>4, <2>3 DEF Result
    <3>3. ASSUME NEW n \in 1..Len(got'), n <= intact PROVE got'[n] = accepted[n]
      <4>1. CASE n = g
        BY <3>1, <4>1 DEF m
      <4>2. CASE n # g
        <5>1. n \in 1..Len(got)
          BY <1>1, <3>1, <4>2
        <5> QED
          BY <3>1, <3>3, <5>1 DEF Follows
      <4> QED
        BY <4>1, <4>2
    <3>4. InStep(offs)'
      BY <1>1, <1>2, <3>1, <3>2 DEF InStep
    <3> QED
      BY <1>1, <3>2, <3>3, <3>4 DEF Follows
  <2> QED
    BY <2>1, <2>2, <2>3
<1> QED
  BY <1>1, <1>8, <1>9, <1>10 DEF ReadMessage, ReadClosed

(* All the frames have been read, and what follows is the end of the file  *)
(* or the part of a frame that a failure has left.                         *)
LEMMA FollowsLast ==
    ASSUME Kept, NEW offs \in Marks, Written(offs), ReadingBack, Follows(offs),
           ReadMessage, UNCHANGED <<disk, writerVars>>, InStep(offs), Len(got) = intact,
           "torn" \notin damage
    PROVE  Follows(offs)'
<1>1. /\ file # None /\ pos \in Nat /\ End \in Nat /\ HeaderSize \in Nat \ {0}
      /\ End = Len(disk[target]) /\ pos = offs[intact]
      /\ damage = {} => End = pos
  BY ReadingFacts DEF InStep
<1>2. CASE ReadAtEnd
  BY <1>2, FollowsAtEnd DEF ReadAtEnd
<1>3. CASE ReadTruncatedHeader
  BY <1>1, <1>3, FollowsCut DEF ReadTruncatedHeader
<1>4. CASE ReadFrame
  <2>1. End > pos
    BY <1>1, <1>4 DEF ReadFrame, Ahead
  <2>2. Begun(disk[target], pos)
    BY <1>1, <2>1 DEF Written, Ends
  <2>3. PICK m \in Messages : /\ Readable(m) /\ Placed(disk[target], m, pos)
                             /\ Len(disk[target]) < pos + HeaderSize + SizeOf[m]
    BY <2>2 DEF Begun
  <2>4. ~Ahead(HeaderSize + SizeOf[m])
    BY <1>1, <2>3, FormatAssumption DEF Ahead
  <2>5. Fail(End)
    BY <1>4, <2>3, <2>4, ReadPlaced
  <2>6. damage # {}
    BY <1>1, <2>1
  <2> QED
    BY <2>5, <2>6, FollowsCut
<1> QED
  BY <1>1, <1>2, <1>3, <1>4 DEF ReadMessage, ReadClosed

LEMMA FollowsRead ==
    ASSUME Kept, NEW offs \in Marks, Written(offs), ReadingBack, Follows(offs),
           ReadMessage, UNCHANGED <<disk, writerVars>>
    PROVE  Follows(offs)'
<1>1. Len(got) \in Nat /\ intact \in Nat
  BY ReadingFacts
<1>2. CASE Astray
  BY <1>2, FollowsAstray
<1>3. CASE AtTheEnd
  BY <1>3, FollowsAtEnd DEF AtTheEnd
<1>4. CASE InStep(offs)
  <2>1. CASE Len(got) < intact
    BY <1>4, <2>1, FollowsFrame
  <2>2. CASE Len(got) = intact
    BY <1>4, <2>2, FollowsAstray, FollowsLast
  <2> QED
    BY <1>1, <1>4, <2>1, <2>2 DEF InStep
<1> QED
  BY <1>2, <1>3, <1>4 DEF Follows

(* Opening the file puts the reader at its first frame.                    *)
LEMMA FollowsOpen ==
    ASSUME Kept, NEW offs \in Marks, Written(offs), NEW p \in Paths, OpenPresent(p),
           UNCHANGED <<disk, writerVars>>
    PROVE  Follows(offs)'
<1>1. /\ got' = <<>> /\ pos' = 0 /\ ret'.status = "OPENED" /\ intact' = intact
      /\ intact \in Nat /\ offs[0] = 0
  BY DEF OpenPresent, Answer, writerVars, Kept, ExchangeTypeOK, FileTypeOK, WriterTypeOK,
     Written, Frames
<1>2. Len(got') = 0
  BY <1>1
<1>3. InStep(offs)'
  BY <1>1, <1>2 DEF InStep
<1> QED
  BY <1>1, <1>2, <1>3 DEF Follows

LEMMA FollowsPython ==
    ASSUME Kept, NEW offs \in Marks, Written(offs), ReadingBack => Follows(offs),
           PythonReading, ReadingBack'
    PROVE  Follows(offs)'
<1>1. UNCHANGED <<disk, writerVars>>
  BY DEF PythonReading, Reading
<1>2. file' # None
  BY DEF ReadingBack
<1>3. CASE \E p \in Paths : OpenPresent(p)
  BY <1>1, <1>3, FollowsOpen
<1>4. CASE OpenAgain
  <2>1. /\ file' = file /\ message_class' = message_class /\ pos' = pos /\ got' = got
        /\ ret'.status = "REFUSED" /\ End' = End
        /\ accepted' = accepted /\ intact' = intact /\ damage' = damage /\ target' = target
    BY <1>1, <1>4 DEF OpenAgain, Refuse, Answer, End, writerVars
  <2>2. ReadingBack
    BY <2>1 DEF ReadingBack
  <2>3. Follows(offs)
    BY <2>2
  <2> QED
    BY <2>1, <2>3 DEF Follows, InStep, AtTheEnd, Astray
<1>5. CASE ReadMessage /\ file # None
  <2>1. file' = file /\ message_class' = message_class
    BY <1>1, <1>5, OneRead
  <2>2. accepted' = accepted /\ target' = target
    BY <1>1 DEF writerVars
  <2>3. ReadingBack
    BY <2>1, <2>2 DEF ReadingBack
  <2> QED
    BY <1>1, <1>5, <2>3, FollowsRead
<1>6. ~SettingType /\ ~Close
  BY <1>2 DEF SettingType, SetMessageType, Close
<1>7. ReadMessage => file # None
  BY <1>2 DEF ReadMessage, ReadClosed, ReadAtEnd, ReadTruncatedHeader, ReadFrame, KeepSetup
<1>8. \A p \in Paths : Open(p) => OpenAgain \/ OpenPresent(p)
  BY <1>2 DEF Open, OpenUntyped, OpenUnknown, OpenMissing
<1> QED
  BY <1>3, <1>4, <1>5, <1>6, <1>7, <1>8 DEF PythonReading, Reading, Playing

ReadInv == Kept /\ Using /\ Read

LEMMA ReadLaying == Using /\ Read => Laying
BY DEF Read, Laying

LEMMA ReadInvStep == ReadInv /\ [ExchangeNext]_exchangeVars => ReadInv'
<1> SUFFICES ASSUME ReadInv, [ExchangeNext]_exchangeVars PROVE ReadInv'
  OBVIOUS
<1>1. Kept'
  BY WritingKept, PythonReadingKept, StreamReadingKept, KeptStutter DEF ReadInv, ExchangeNext
<1>2. CASE ExchangeWriting
  <2>1. Laying'
    BY <1>2, ReadLaying, LayingKept DEF ReadInv
  <2>2. file' = None
    BY <1>2 DEF ReadInv, Kept, Unused, ExchangeWriting, PythonFresh, readerVars
  <2>3. ~ReadingBack'
    BY <2>2 DEF ReadingBack
  <2>4. Read'
    BY <2>1, <2>3 DEF Laying, Read
  <2> QED
    BY <1>1, <2>1, <2>4 DEF Laying, ReadInv
<1>3. CASE PythonReading
  <2>1. UNCHANGED <<disk, target, accepted, intact, damage, maker, out, usable>>
    BY <1>3 DEF PythonReading, Reading, writerVars
  <2>2. Using'
    BY <2>1 DEF ReadInv, Using
  <2>3. ASSUME target' # None
        PROVE  \E offs \in Marks : Written(offs)' /\ (ReadingBack' => Follows(offs)')
    <3>1. PICK offs \in Marks : Written(offs) /\ (ReadingBack => Follows(offs))
      BY <2>1, <2>3 DEF ReadInv, Read
    <3>2. Written(offs)'
      BY <2>1, <3>1, SameWritten
    <3>3. ReadingBack' => Follows(offs)'
      BY <1>3, <3>1, FollowsPython DEF ReadInv
    <3> QED
      BY <3>2, <3>3
  <2> QED
    BY <1>1, <2>2, <2>3 DEF ReadInv, Read
<1>4. CASE StreamReading \/ UNCHANGED exchangeVars
  <2>1. UNCHANGED <<disk, readerVars, writerVars, maker>>
    BY <1>4 DEF StreamReading, exchangeVars, allVars
  <2>2. Using' /\ Read'
    BY <2>1 DEF ReadInv, Using, Read, Written, Frames, Ends, ReadingBack, Follows,
       InStep, AtTheEnd, Astray, End, readerVars, writerVars
  <2> QED
    BY <1>1, <2>2 DEF ReadInv
<1> QED
  BY <1>2, <1>3, <1>4 DEF ExchangeNext

LEMMA ReadInvReadsBack == ReadInv => ReadsBack
<1> SUFFICES ASSUME ReadInv, ReadingBack
             PROVE  /\ \A n \in DOMAIN got : n <= intact => got[n] = accepted[n]
                    /\ "torn" \notin damage => Len(got) <= Len(accepted)
                    /\ damage = {} => ret.status # "ERROR"
                    /\ damage = {} /\ ret.status = "EOF" => got = accepted
  BY DEF ReadsBack
<1>1. Kept /\ target # None
  BY DEF ReadInv, ReadingBack
<1>2. PICK offs \in Marks : Written(offs) /\ Follows(offs)
  BY <1>1 DEF ReadInv, Read
<1>3. /\ got \in Seq(Messages \union {Garbage}) /\ Len(got) \in Nat
      /\ intact \in Nat /\ intact <= Len(accepted)
      /\ accepted \in Seq(Messages) /\ Len(accepted) \in Nat
      /\ damage = {} => intact = Len(accepted) /\ End = offs[intact]
  BY <1>1, <1>2, ReadingFacts
<1>4. \A n \in 1..Len(got) : n <= intact => got[n] = accepted[n]
  BY <1>2 DEF Follows
<1>5. "torn" \notin damage => Len(got) <= intact
  BY <1>2 DEF Follows, InStep, AtTheEnd, Astray
<1>6. ASSUME damage = {}, ret.status = "EOF" PROVE got = accepted
  <2>1. "torn" \notin damage
    BY <1>6
  <2>2. InStep(offs) /\ pos = End
    BY <1>2, <1>6, <2>1 DEF Follows, AtTheEnd, Astray
  <2>3. offs[Len(got)] = offs[intact] /\ Len(got) <= intact
    BY <1>3, <1>6, <2>2 DEF InStep
  <2>4. Len(got) = intact
    <3>1. Len(got) \in 0..intact /\ intact \in 0..intact
      BY <1>3, <2>3
    <3>2. /\ offs[Len(got)] \in Nat
          /\ Len(got) # intact => offs[Len(got)] < offs[intact]
      BY <1>2, <1>3, <2>3, <3>1, MarksRise DEF Written
    <3> QED
      BY <2>3, <3>2
  <2>5. Len(got) = Len(accepted) /\ \A n \in 1..Len(got) : got[n] = accepted[n]
    BY <1>3, <1>4, <1>6, <2>4
  <2>6. accepted \in Seq(Messages \union {Garbage})
    BY <1>3
  <2> QED
    BY <1>3, <2>5, <2>6, SeqEqual
<1>7. DOMAIN got = 1..Len(got)
  BY <1>3
<1>8. damage = {} => ret.status # "ERROR"
  BY <1>2 DEF Follows
<1> QED
  BY <1>3, <1>4, <1>5, <1>6, <1>7, <1>8

(* What the Python reader returns of a file is what was written to it,     *)
(* message by message and from the first one on, whichever language wrote  *)
(* it and whatever failed while it was written or closed: only a torn      *)
(* frame leads the reader to anything else.                                *)
THEOREM WrittenIsRead == ExchangeSpec => []ReadsBack
<1>1. ExchangeInit => ReadInv
  <2>1. ExchangeInit => Using /\ Read
    BY DEF ExchangeInit, FileInit, WriterInit, Using, Read
  <2> QED
    BY <2>1, KeptInit DEF ReadInv
<1> QED
  BY <1>1, ReadInvStep, ReadInvReadsBack, PTL DEF ExchangeSpec

-----------------------------------------------------------------------------
(* What the C++ reader reads back                                          *)

(* What it returns of the first n messages of a file.                      *)
First(n) == Carried(SubSeq(accepted, 1, n))

LEMMA BodiedTyped == ASSUME NEW m \in Messages PROVE Bodied(m) \in Seq(Messages)
BY DEF Bodied

LEMMA CarriedTyped ==
    ASSUME NEW ms \in Seq(Messages)
    PROVE  /\ [n \in 1..Len(ms) |-> Bodied(ms[n])] \in Seq(Seq(Messages))
           /\ Len([n \in 1..Len(ms) |-> Bodied(ms[n])]) = Len(ms)
           /\ Carried(ms) \in Seq(Messages)
<1> DEFINE f == [n \in 1..Len(ms) |-> Bodied(ms[n])]
<1>1. Len(ms) \in Nat /\ \A n \in 1..Len(ms) : Bodied(ms[n]) \in Seq(Messages)
  BY BodiedTyped
<1>2. f \in Seq(Seq(Messages)) /\ Len(f) = Len(ms)
  BY <1>1
<1>3. FlattenSeq(f) \in Seq(Messages)
  BY <1>2, FlattenTyped
<1> QED
  BY <1>2, <1>3 DEF Carried

(* Of one message more it returns that message, if it is not empty.        *)
LEMMA FirstNext ==
    ASSUME NEW k \in Nat, accepted \in Seq(Messages), k + 1 <= Len(accepted)
    PROVE  First(k + 1) = First(k) \o Bodied(accepted[k + 1])
<1> DEFINE s == SubSeq(accepted, 1, k)
           t == SubSeq(accepted, 1, k + 1)
           f == [n \in 1..Len(s) |-> Bodied(s[n])]
           g == [n \in 1..Len(t) |-> Bodied(t[n])]
<1>1. /\ k + 1 \in Nat /\ k <= Len(accepted)
      /\ s \in Seq(Messages) /\ Len(s) = k /\ \A n \in 1..k : s[n] = accepted[n]
  BY HeadFacts
<1>2. /\ t \in Seq(Messages) /\ Len(t) = k + 1
      /\ \A n \in 1..(k + 1) : t[n] = accepted[n]
  BY <1>1, HeadFacts
<1> HIDE DEF s, t
<1>3. /\ f \in Seq(Seq(Messages)) /\ Len(f) = k
      /\ g \in Seq(Seq(Messages)) /\ Len(g) = k + 1
  BY <1>1, <1>2, CarriedTyped
<1>4. /\ \A n \in 1..k : g[n] = f[n]
      /\ g[k + 1] = Bodied(accepted[k + 1])
  BY <1>1, <1>2
<1> HIDE DEF f, g
<1>5. FlattenSeq(g) = FlattenSeq(f) \o g[k + 1]
  BY <1>1, <1>3, <1>4, FlattenLonger
<1> QED
  BY <1>4, <1>5 DEF First, Carried, f, g, s, t

LEMMA FirstTyped ==
    ASSUME NEW k \in Nat, accepted \in Seq(Messages), k <= Len(accepted)
    PROVE  First(k) \in Seq(Messages)
<1>1. SubSeq(accepted, 1, k) \in Seq(Messages)
  BY HeadFacts
<1> QED
  BY <1>1, CarriedTyped DEF First

LEMMA FirstNone == accepted \in Seq(Messages) => First(0) = <<>>
<1> SUFFICES ASSUME accepted \in Seq(Messages) PROVE First(0) = <<>>
  OBVIOUS
<1> DEFINE s == SubSeq(accepted, 1, 0)
           f == [n \in 1..Len(s) |-> Bodied(s[n])]
<1>1. s \in Seq(Messages) /\ Len(s) = 0
  BY HeadFacts
<1>2. f \in Seq(Seq(Messages)) /\ Len(f) = 0
  BY <1>1, CarriedTyped
<1>3. f = <<>>
  BY <1>2, EmptySeq
<1> QED
  BY <1>3, FlattenNone DEF First, Carried

(* More messages: what is returned of the first ones stays in front.       *)
LEMMA FirstBegins ==
    ASSUME NEW k \in Nat, NEW j \in Nat, k <= j,
           accepted \in Seq(Messages), j <= Len(accepted)
    PROVE  \E x \in Seq(Messages) : First(j) = First(k) \o x
<1> DEFINE Holds(d) == k + d <= Len(accepted) =>
                          \E x \in Seq(Messages) : First(k + d) = First(k) \o x
           G == {d \in Nat : Holds(d)}
<1>1. First(k) \in Seq(Messages) /\ Len(accepted) \in Nat
  BY FirstTyped
<1>2. 0 \in G
  <2>1. First(k + 0) = First(k) \o <<>> /\ <<>> \in Seq(Messages)
    BY <1>1, ConcatEmptySeq
  <2> QED
    BY <2>1
<1>3. ASSUME NEW d \in Nat, Holds(d) PROVE Holds(d + 1)
  <2> SUFFICES ASSUME k + (d + 1) <= Len(accepted)
               PROVE  \E x \in Seq(Messages) : First(k + (d + 1)) = First(k) \o x
    OBVIOUS
  <2>1. k + d \in Nat /\ (k + d) + 1 <= Len(accepted) /\ k + (d + 1) = (k + d) + 1
        /\ k + d <= Len(accepted) /\ (k + d) + 1 \in 1..Len(accepted)
    BY <1>1
  <2>2. PICK x \in Seq(Messages) : First(k + d) = First(k) \o x
    BY <1>3, <2>1
  <2> DEFINE b == Bodied(accepted[(k + d) + 1])
  <2>3. b \in Seq(Messages)
    BY <2>1, BodiedTyped
  <2>4. First(k + (d + 1)) = First(k + d) \o b
    BY <2>1, FirstNext
  <2> HIDE DEF b
  <2>5. (First(k) \o x) \o b = First(k) \o (x \o b) /\ x \o b \in Seq(Messages)
    <3>1. \A u, v, w \in Seq(Messages) : (u \o v) \o w = u \o (v \o w)
      BY ONLY Associative, SMTT(60)
    <3>2. x \o b \in Seq(Messages)
      BY <2>3, ConcatAt
    <3> QED
      BY <1>1, <2>3, <3>1, <3>2, ZenonT(60)
  <2> QED
    BY <2>2, <2>4, <2>5
<1> HIDE DEF Holds
<1>4. \A d \in Nat : d \in G
  <2>1. G \in SUBSET Nat /\ \A d \in G : d + 1 \in G
    BY <1>3
  <2> HIDE DEF G
  <2> QED
    BY <1>2, <2>1, AllNumbers
<1>5. j - k \in Nat /\ k + (j - k) = j
  OBVIOUS
<1> QED
  BY <1>4, <1>5 DEF Holds

(* How far the reader is: at the end of a frame; at the end of a file that *)
(* is not what was written; or somewhere behind a torn frame.              *)
StreamInStep(offs) ==
    good /\ \E k \in 0..intact : at = offs[k] /\ taken = First(k)
StreamAtTheEnd ==
    at = StreamEnd /\ damage # {} /\ \E k \in 0..intact : taken = First(k)
StreamAstray ==
    /\ "torn" \in damage
    /\ \E x \in Seq(Messages \union {Garbage}) : taken = First(intact) \o x

StreamFollows(offs) ==
    /\ StreamInStep(offs) \/ StreamAtTheEnd \/ StreamAstray
    /\ reply = "nullopt" => ~StreamHasNext

StreamRead ==
    target # None =>
       \E offs \in Marks : Written(offs) /\ (StreamReadingBack => StreamFollows(offs))

(* What is known wherever the file that was written last is read.          *)
LEMMA StreamFacts ==
    ASSUME Kept, NEW offs \in Marks, Written(offs), StreamReadingBack
    PROVE  /\ stream # None /\ stream = target /\ target # None
           /\ disk[target] \in Seq(Bytes)
           /\ StreamEnd = Len(disk[target]) /\ StreamEnd \in Nat
           /\ at \in Nat /\ taken \in Seq(Messages \union {Garbage})
           /\ intact \in Nat /\ intact <= Len(accepted)
           /\ accepted \in Seq(Messages) /\ Len(accepted) \in Nat
           /\ HeaderSize \in Nat \ {0} /\ MaxExpectedMessageSize \in Nat
           /\ offs[intact] \in Nat
           /\ damage = {} => intact = Len(accepted) /\ StreamEnd = offs[intact]
<1>1. stream # None /\ stream = target
  BY DEF StreamReadingBack
<1>2. disk[stream] \in Seq(Bytes) /\ at \in Nat /\ taken \in Seq(Messages \union {Garbage})
      /\ intact \in Nat /\ accepted \in Seq(Messages)
  BY <1>1 DEF Kept, ExchangeTypeOK, FileTypeOK, StreamTypeOK, WriterTypeOK, Opened
<1>3. StreamEnd = Len(disk[target]) /\ StreamEnd \in Nat /\ Len(accepted) \in Nat
  BY <1>1, <1>2, LenProperties DEF StreamEnd
<1>4. offs[intact] \in Nat
  BY <1>2, MarkFacts
<1>5. intact <= Len(accepted) /\ (damage = {} => StreamEnd = offs[intact])
  BY <1>3 DEF Written, Ends
<1>6. ASSUME damage = {} PROVE intact = Len(accepted)
  <2>1. "torn" \notin damage
    BY <1>6
  <2> QED
    BY <2>1 DEF Written, Ends
<1> QED
  BY <1>1, <1>2, <1>3, <1>4, <1>5, <1>6, FormatAssumption

LEMMA AppendTaken ==
    \A s, t \in Seq(Messages \union {Garbage}) : \A x \in Messages \union {Garbage} :
       Append(s \o t, x) = s \o Append(t, x)
<1> DEFINE T == Messages \union {Garbage}
<1> HIDE DEF T
<1> SUFFICES ASSUME NEW s \in Seq(T), NEW t \in Seq(T), NEW x \in T
             PROVE  Append(s \o t, x) = s \o Append(t, x)
  BY DEF T
<1>1. s \o t \in Seq(T) /\ Len(s \o t) = Len(s) + Len(t)
  BY ConcatAt
<1>2. Append(t, x) \in Seq(T) /\ Len(Append(t, x)) = Len(t) + 1
  BY AppendFacts
<1> QED
  BY <1>1, <1>2, SMTT(60)

(* The frame at a place decides what a read does there.                    *)
LEMMA StreamPlaced ==
    ASSUME Kept, NEW offs \in Marks, Written(offs), StreamReadingBack, ReadStreamFrame,
           NEW m \in Messages, Readable(m), Placed(disk[target], m, at)
    PROVE  \/ ~StreamAhead(HeaderSize + SizeOf[m]) /\ Throw(StreamEnd, FALSE)
           \/ /\ SizeOf[m] = 0 /\ StreamAhead(HeaderSize + SizeOf[m])
              /\ Throw(at + HeaderSize, TRUE)
           \/ /\ SizeOf[m] # 0 /\ StreamAhead(HeaderSize + SizeOf[m])
              /\ TypeOf[m] = parser => Take(m, at + HeaderSize + SizeOf[m])
<1>1. /\ stream = target /\ disk[target] \in Seq(Bytes) /\ at \in Nat
      /\ StreamEnd = Len(disk[target]) /\ StreamEnd \in Nat
      /\ HeaderSize \in Nat \ {0} /\ MaxExpectedMessageSize \in Nat
  BY StreamFacts
<1>2. SizeOf[m] \in Nat /\ SizeOf[m] <= MaxExpectedMessageSize
  BY FormatAssumption DEF Readable
<1>3. at + HeaderSize <= Len(disk[target]) /\ StreamAhead(HeaderSize)
  BY <1>1 DEF ReadStreamFrame, StreamAhead
<1>4. StreamPart(0, HeaderSize) = SubSeq(disk[target], at + 1, at + HeaderSize)
  BY <1>1 DEF StreamPart
<1>5. LengthsIn(StreamPart(0, HeaderSize)) = {SizeOf[m]}
  BY <1>1, <1>3, <1>4, HeaderKnown
<1>6. ReadInvalid(SizeOf[m]) \/ ReadCutBody(SizeOf[m]) \/ ReadWholeBody(SizeOf[m])
  BY <1>5 DEF ReadStreamFrame
<1>7. CASE ReadInvalid(SizeOf[m])
  <2>1. SizeOf[m] = 0
    BY <1>2, <1>7 DEF ReadInvalid, Valid
  <2>2. StreamAhead(HeaderSize + SizeOf[m])
    BY <1>1, <1>3, <2>1
  <2> QED
    BY <1>7, <2>1, <2>2 DEF ReadInvalid
<1>8. CASE ReadCutBody(SizeOf[m])
  BY <1>8 DEF ReadCutBody
<1>9. CASE ReadWholeBody(SizeOf[m])
  <2>1. SizeOf[m] # 0 /\ StreamAhead(HeaderSize + SizeOf[m])
    BY <1>9 DEF ReadWholeBody, Valid
  <2>2. ASSUME TypeOf[m] = parser PROVE Take(m, at + HeaderSize + SizeOf[m])
    <3>1. at + HeaderSize + SizeOf[m] <= Len(disk[target])
      BY <1>1, <1>2, <2>1 DEF StreamAhead
    <3>2. StreamPart(HeaderSize, SizeOf[m])
            = SubSeq(disk[target], at + HeaderSize + 1, at + HeaderSize + SizeOf[m])
      BY <1>1 DEF StreamPart
    <3>3. ParsesOf(StreamPart(HeaderSize, SizeOf[m]), parser) = {m}
      BY <1>1, <2>2, <3>1, <3>2, BodyKnown, ZenonT(60)
    <3>4. m # None
      BY FormatAssumption
    <3> QED
      BY <1>9, <3>3, <3>4 DEF ReadWholeBody
  <2> QED
    BY <2>1, <2>2
<1> QED
  BY <1>6, <1>7, <1>8, <1>9

(* What any read may do to what has been taken.                            *)
LEMMA OneStreamRead ==
    ASSUME Kept, stream # None, ReadStream, UNCHANGED disk
    PROVE  /\ StreamEnd' = StreamEnd
           /\ taken' = taken \/ \E m \in Messages \union {Garbage} : taken' = Append(taken, m)
           /\ reply' = "nullopt" => ~StreamHasNext'
<1>1. stream' = stream /\ StreamEnd' = StreamEnd
  BY DEF ReadStream, ReadNothing, ReadCutHeader, ReadStreamFrame, ReadInvalid, ReadCutBody,
     ReadWholeBody, Throw, Take, KeepStream, StreamEnd
<1>2. CASE ReadNothing
  BY <1>1, <1>2 DEF ReadNothing, StreamHasNext
<1>3. ASSUME NEW n, NEW b, Throw(n, b) PROVE taken' = taken /\ reply' = "threw"
  BY <1>3 DEF Throw
<1>4. CASE ReadCutHeader
  BY <1>1, <1>3, <1>4 DEF ReadCutHeader
<1>5. CASE ReadStreamFrame
  <2>1. PICK n \in LengthsIn(StreamPart(0, HeaderSize)) :
               ReadInvalid(n) \/ ReadCutBody(n) \/ ReadWholeBody(n)
    BY <1>5 DEF ReadStreamFrame
  <2>2. CASE ReadInvalid(n) \/ ReadCutBody(n)
    BY <1>1, <1>3, <2>2 DEF ReadInvalid, ReadCutBody
  <2>3. CASE ReadWholeBody(n)
    <3>1. PICK m \in ParsesOf(StreamPart(HeaderSize, n), parser) :
             IF m = None THEN Throw(at + HeaderSize + n, TRUE)
                         ELSE Take(m, at + HeaderSize + n)
      BY <2>3 DEF ReadWholeBody
    <3>2. CASE m = None
      BY <1>1, <1>3, <3>1, <3>2
    <3>3. CASE m # None
      <4>1. m \in Messages \union {Garbage}
        BY <3>3, Parses
      <4> QED
        BY <1>1, <3>1, <3>3, <4>1 DEF Take
    <3> QED
      BY <3>2, <3>3
  <2> QED
    BY <2>1, <2>2, <2>3
<1> QED
  BY <1>2, <1>4, <1>5 DEF ReadStream

LEMMA StreamFollowsAstray ==
    ASSUME Kept, NEW offs \in Marks, Written(offs), StreamReadingBack, StreamAstray,
           ReadStream, UNCHANGED <<disk, writerVars>>
    PROVE  StreamFollows(offs)'
<1>1. /\ intact \in Nat /\ intact <= Len(accepted) /\ accepted \in Seq(Messages)
      /\ stream # None
      /\ accepted' = accepted /\ intact' = intact /\ damage' = damage
  BY StreamFacts DEF writerVars
<1>2. First(intact) \in Seq(Messages \union {Garbage}) /\ First(intact)' = First(intact)
  BY <1>1, FirstTyped DEF First
<1>3. PICK x \in Seq(Messages \union {Garbage}) : taken = First(intact) \o x
  BY DEF StreamAstray
<1>4. /\ taken' = taken \/ \E m \in Messages \union {Garbage} : taken' = Append(taken, m)
      /\ reply' = "nullopt" => ~StreamHasNext'
  BY <1>1, OneStreamRead
<1>5. \E y \in Seq(Messages \union {Garbage}) : taken' = First(intact) \o y
  <2>1. ASSUME NEW m \in Messages \union {Garbage}, taken' = Append(taken, m)
        PROVE  \E y \in Seq(Messages \union {Garbage}) : taken' = First(intact) \o y
    <3>1. Append(First(intact) \o x, m) = First(intact) \o Append(x, m)
      BY <1>2, AppendTaken
    <3>2. Append(x, m) \in Seq(Messages \union {Garbage})
      BY AppendFacts
    <3> QED
      BY <1>3, <2>1, <3>1, <3>2
  <2> QED
    BY <1>3, <1>4, <2>1
<1> QED
  BY <1>1, <1>2, <1>4, <1>5 DEF StreamFollows, StreamAstray

(* Nothing moves at the end of a file.                                     *)
LEMMA StreamFollowsNothing ==
    ASSUME NEW offs \in Marks, StreamFollows(offs), ReadNothing, UNCHANGED <<disk, writerVars>>
    PROVE  StreamFollows(offs)'
<1>1. /\ at' = at /\ good' = good /\ taken' = taken /\ stream' = stream /\ disk' = disk
      /\ accepted' = accepted /\ intact' = intact /\ damage' = damage /\ ~StreamHasNext
  BY DEF ReadNothing, KeepStream, writerVars
<1> QED
  BY <1>1 DEF StreamFollows, StreamInStep, StreamAtTheEnd, StreamAstray, StreamHasNext,
     StreamEnd, First

(* A read that finds the file cut short: of a file that met no failure     *)
(* nothing is missing.                                                     *)
LEMMA StreamFollowsCut ==
    ASSUME NEW offs \in Marks, StreamInStep(offs), Throw(StreamEnd, FALSE), damage # {},
           UNCHANGED <<disk, writerVars>>
    PROVE  StreamFollows(offs)'
<1>1. /\ at' = StreamEnd /\ taken' = taken /\ StreamEnd' = StreamEnd /\ reply' = "threw"
      /\ accepted' = accepted /\ intact' = intact /\ damage' = damage
  BY DEF Throw, KeepStream, writerVars, StreamEnd
<1> QED
  BY <1>1 DEF StreamFollows, StreamInStep, StreamAtTheEnd, First

(* The next frame is one of those that were written.                       *)
LEMMA StreamFollowsFrame ==
    ASSUME Kept, NEW offs \in Marks, Written(offs), StreamReadingBack,
           ReadStream, ~ReadNothing, UNCHANGED <<disk, writerVars>>,
           good, NEW k \in Nat, k < intact, at = offs[k], taken = First(k)
    PROVE  StreamFollows(offs)'
<1>1. /\ stream = target /\ at \in Nat /\ StreamEnd \in Nat /\ HeaderSize \in Nat \ {0}
      /\ accepted' = accepted /\ intact' = intact /\ damage' = damage
      /\ intact \in Nat /\ intact <= Len(accepted)
      /\ accepted \in Seq(Messages) /\ Len(accepted) \in Nat
  BY StreamFacts DEF writerVars
<1> DEFINE m == accepted[k + 1]
<1>2. /\ k + 1 \in 1..intact /\ k + 1 \in 1..Len(accepted) /\ k + 1 <= Len(accepted)
      /\ m \in Messages /\ k \in 0..intact
      /\ k + 1 \in 0..intact /\ intact \in 0..intact /\ (k + 1) - 1 = k
  BY <1>1
<1>3. TypeOf[m] = parser /\ Readable(m)
  BY <1>1, <1>2 DEF StreamReadingBack
<1>4. Placed(disk[target], m, at) /\ offs[k + 1] = at + HeaderSize + SizeOf[m]
  <2>1. Placed(disk[target], accepted[k + 1], offs[(k + 1) - 1])
        /\ offs[k + 1] = offs[(k + 1) - 1] + HeaderSize + SizeOf[accepted[k + 1]]
    BY <1>2 DEF Written, Frames
  <2> QED
    BY <1>2, <2>1
<1>5. offs[k + 1] \in Nat /\ offs[intact] \in Nat /\ offs[k + 1] <= offs[intact]
  BY <1>1, <1>2, MarksRise DEF Written
<1>6. SizeOf[m] \in Nat
  BY <1>2, FormatAssumption
<1>7. damage = {} => StreamAhead(HeaderSize + SizeOf[m]) /\ StreamAhead(HeaderSize)
  <2>1. damage = {} => StreamEnd = offs[intact]
    BY StreamFacts
  <2> DEFINE o == offs[k + 1]
             z == SizeOf[m]
  <2>2. o \in Nat /\ z \in Nat /\ o = at + HeaderSize + z /\ (damage = {} => o <= StreamEnd)
    BY <1>4, <1>5, <1>6, <2>1
  <2> HIDE DEF m, o, z
  <2>3. damage = {} => StreamEnd - at >= HeaderSize + z /\ StreamEnd - at >= HeaderSize
    BY <1>1, <2>2, SMTT(60)
  <2> QED
    BY <2>3 DEF StreamAhead, z
<1>8. First(k + 1) = First(k) \o Bodied(m) /\ First(k) \in Seq(Messages)
  <2>1. First(k + 1) = First(k) \o Bodied(accepted[k + 1])
    BY <1>1, <1>2, FirstNext
  <2>2. First(k) \in Seq(Messages)
    BY <1>1, FirstTyped
  <2> QED
    BY <2>1, <2>2
<1> HIDE DEF m
<1>9. StreamInStep(offs)
  BY <1>2 DEF StreamInStep
<1>10. ASSUME at' = offs[k + 1], good', taken' = First(k + 1), reply' # "nullopt"
       PROVE  StreamFollows(offs)'
  BY <1>1, <1>2, <1>10 DEF StreamFollows, StreamInStep, First
<1>11. CASE ReadCutHeader
  BY <1>7, <1>9, <1>11, StreamFollowsCut DEF ReadCutHeader
<1>12. CASE ReadStreamFrame
  <2>1. \/ ~StreamAhead(HeaderSize + SizeOf[m]) /\ Throw(StreamEnd, FALSE)
        \/ SizeOf[m] = 0 /\ Throw(at + HeaderSize, TRUE)
        \/ SizeOf[m] # 0 /\ Take(m, at + HeaderSize + SizeOf[m])
    BY <1>2, <1>3, <1>4, <1>12, StreamPlaced
  <2>2. CASE ~StreamAhead(HeaderSize + SizeOf[m]) /\ Throw(StreamEnd, FALSE)
    BY <1>7, <1>9, <2>2, StreamFollowsCut
  <2>3. CASE SizeOf[m] = 0 /\ Throw(at + HeaderSize, TRUE)
    <3>1. First(k + 1) = First(k)
      BY <1>8, <2>3, ConcatEmptySeq DEF Bodied
    <3>2. at + HeaderSize = offs[k + 1]
      BY <1>1, <1>4, <2>3
    <3> QED
      BY <1>10, <2>3, <3>1, <3>2 DEF Throw
  <2>4. CASE SizeOf[m] # 0 /\ Take(m, at + HeaderSize + SizeOf[m])
    <3>1. Bodied(m) = <<m>>
      BY <2>4 DEF Bodied
    <3>2. First(k + 1) = Append(First(k), m)
      BY <1>2, <1>8, <3>1, AppendIsConcat
    <3> QED
      BY <1>4, <1>10, <2>4, <3>2 DEF Take
  <2> QED
    BY <2>1, <2>2, <2>3, <2>4
<1> QED
  BY <1>11, <1>12 DEF ReadStream

(* All the frames have been read, and what follows is the end of the file  *)
(* or the part of a frame that a failure has left.                         *)
LEMMA StreamFollowsLast ==
    ASSUME Kept, NEW offs \in Marks, Written(offs), StreamReadingBack, "torn" \notin damage,
           ReadStream, ~ReadNothing, UNCHANGED <<disk, writerVars>>,
           good, at = offs[intact], taken = First(intact)
    PROVE  StreamFollows(offs)'
<1>1. /\ at \in Nat /\ StreamEnd \in Nat /\ HeaderSize \in Nat \ {0} /\ intact \in Nat
      /\ StreamEnd = Len(disk[target])
      /\ damage = {} => StreamEnd = at
  BY StreamFacts
<1>2. StreamHasNext
  BY DEF ReadStream, ReadNothing, ReadCutHeader, ReadStreamFrame
<1>3. StreamEnd > at /\ damage # {}
  BY <1>1, <1>2 DEF StreamHasNext
<1>4. StreamInStep(offs)
  BY <1>1 DEF StreamInStep
<1>5. CASE ReadCutHeader
  BY <1>3, <1>4, <1>5, StreamFollowsCut DEF ReadCutHeader
<1>6. CASE ReadStreamFrame
  <2>1. Begun(disk[target], at)
    BY <1>1, <1>3 DEF Written, Ends
  <2>2. PICK m \in Messages : /\ Readable(m) /\ Placed(disk[target], m, at)
                             /\ Len(disk[target]) < at + HeaderSize + SizeOf[m]
    BY <2>1 DEF Begun
  <2>3. ~StreamAhead(HeaderSize + SizeOf[m])
    BY <1>1, <2>2, FormatAssumption DEF StreamAhead
  <2>4. Throw(StreamEnd, FALSE)
    BY <1>6, <2>2, <2>3, StreamPlaced
  <2> QED
    BY <1>3, <1>4, <2>4, StreamFollowsCut
<1> QED
  BY <1>5, <1>6 DEF ReadStream

LEMMA StreamFollowsRead ==
    ASSUME Kept, NEW offs \in Marks, Written(offs), StreamReadingBack, StreamFollows(offs),
           ReadStream, UNCHANGED <<disk, writerVars>>
    PROVE  StreamFollows(offs)'
<1>1. /\ intact \in Nat /\ intact <= Len(accepted) /\ accepted \in Seq(Messages)
      /\ at \in Nat /\ StreamEnd \in Nat /\ HeaderSize \in Nat \ {0}
  BY StreamFacts
<1>2. CASE ReadNothing
  BY <1>2, StreamFollowsNothing
<1>3. CASE StreamAstray
  BY <1>3, StreamFollowsAstray
<1>4. CASE StreamAtTheEnd
  <2>1. ~StreamHasNext
    BY <1>1, <1>4 DEF StreamAtTheEnd, StreamHasNext
  <2>2. ReadNothing
    BY <2>1 DEF ReadStream, ReadCutHeader, ReadStreamFrame
  <2> QED
    BY <1>2, <2>2
<1>5. CASE StreamInStep(offs) /\ ~ReadNothing
  <2>1. PICK k \in 0..intact : at = offs[k] /\ taken = First(k)
    BY <1>5 DEF StreamInStep
  <2>2. good
    BY <1>5 DEF StreamInStep
  <2>3. CASE k < intact
    BY <1>1, <1>5, <2>1, <2>2, <2>3, StreamFollowsFrame
  <2>4. CASE k = intact /\ "torn" \in damage
    <3>1. First(intact) \o <<>> = First(intact) /\ <<>> \in Seq(Messages \union {Garbage})
      BY <1>1, FirstTyped, ConcatEmptySeq
    <3>2. StreamAstray
      BY <2>1, <2>4, <3>1 DEF StreamAstray
    <3> QED
      BY <3>2, StreamFollowsAstray
  <2>5. CASE k = intact /\ "torn" \notin damage
    BY <1>5, <2>1, <2>2, <2>5, StreamFollowsLast
  <2> QED
    BY <1>1, <2>1, <2>3, <2>4, <2>5
<1> QED
  BY <1>2, <1>3, <1>4, <1>5 DEF StreamFollows

LEMMA StreamFollowsOpen ==
    ASSUME Kept, NEW offs \in Marks, Written(offs), NEW p \in Paths,
           NEW t \in MessageTypes \union {Unknown, None}, OpenStreamSucceeds(p, t),
           UNCHANGED <<disk, writerVars>>
    PROVE  StreamFollows(offs)'
<1>1. /\ good' = TRUE /\ at' = 0 /\ taken' = <<>> /\ reply' = "true"
      /\ accepted' = accepted /\ intact' = intact
      /\ accepted \in Seq(Messages) /\ intact \in Nat /\ offs[0] = 0
  BY DEF OpenStreamSucceeds, writerVars, Kept, ExchangeTypeOK, FileTypeOK, WriterTypeOK,
     Written, Frames
<1>2. First(0)' = <<>>
  BY <1>1, FirstNone DEF First
<1> HIDE DEF First
<1>3. 0 \in 0..intact' /\ at' = offs[0] /\ taken' = First(0)'
  BY <1>1, <1>2
<1>4. StreamInStep(offs)'
  BY <1>1, <1>3 DEF StreamInStep, First
<1> QED
  BY <1>1, <1>4 DEF StreamFollows

LEMMA StreamFollowsStep ==
    ASSUME Kept, NEW offs \in Marks, Written(offs),
           StreamReadingBack => StreamFollows(offs), StreamReading, StreamReadingBack'
    PROVE  StreamFollows(offs)'
<1>1. UNCHANGED <<disk, writerVars>>
  BY DEF StreamReading, allVars
<1>2. /\ accepted' = accepted /\ target' = target /\ intact' = intact /\ damage' = damage
      /\ disk' = disk /\ stream' # None
  BY <1>1 DEF writerVars, StreamReadingBack
<1>3. CASE ReadStream
  <2>1. stream' = stream /\ parser' = parser
    BY <1>3 DEF ReadStream, ReadNothing, ReadCutHeader, ReadStreamFrame, ReadInvalid,
       ReadCutBody, ReadWholeBody, Throw, Take, KeepStream
  <2>2. StreamReadingBack
    BY <1>2, <2>1 DEF StreamReadingBack
  <2> QED
    BY <1>1, <1>3, <2>2, StreamFollowsRead
<1>4. ASSUME NEW p \in Paths, NEW t \in MessageTypes \union {Unknown, None}, OpenStream(p, t)
      PROVE  StreamFollows(offs)'
  <2>1. CASE OpenStreamSucceeds(p, t)
    BY <1>1, <2>1, StreamFollowsOpen
  <2>2. CASE OpenStreamRefused(p, t)
    <3>1. /\ stream' = stream /\ parser' = parser /\ good' = good /\ at' = at
          /\ taken' = taken /\ reply' = "false"
      BY <2>2 DEF OpenStreamRefused, RefuseStream
    <3>2. StreamReadingBack
      BY <1>2, <3>1 DEF StreamReadingBack
    <3>3. StreamFollows(offs)
      BY <3>2
    <3> QED
      BY <1>2, <3>1, <3>3 DEF StreamFollows, StreamInStep, StreamAtTheEnd, StreamAstray,
         StreamEnd, First
  <2>3. ~OpenStreamUntyped(p, t) /\ ~OpenStreamFails(p, t)
    BY <1>2 DEF OpenStreamUntyped, OpenStreamFails, Openable, RefuseStream
  <2> QED
    BY <1>4, <2>1, <2>2, <2>3 DEF OpenStream
<1>5. ~CloseStream
  BY <1>2 DEF CloseStream
<1> QED
  BY <1>3, <1>4, <1>5 DEF StreamReading

StreamInv == ReadInv /\ StreamRead

LEMMA StreamInvStep == StreamInv /\ [ExchangeNext]_exchangeVars => StreamInv'
<1> SUFFICES ASSUME StreamInv, [ExchangeNext]_exchangeVars PROVE StreamInv'
  OBVIOUS
<1>1. ReadInv' /\ ReadInv
  BY ReadInvStep DEF StreamInv
<1>2. Kept /\ Kept'
  BY <1>1 DEF ReadInv
<1>3. CASE ExchangeWriting
  <2>1. stream' = None
    BY <1>2, <1>3 DEF Kept, Unused, ExchangeWriting, StreamFresh, streamVars
  <2>2. ~StreamReadingBack'
    BY <2>1 DEF StreamReadingBack
  <2>3. StreamRead'
    BY <1>1, <2>2 DEF ReadInv, Read, StreamRead
  <2> QED
    BY <1>1, <2>3 DEF StreamInv
<1>4. CASE PythonReading
  <2>1. stream' = None
    BY <1>2, <1>4 DEF Kept, Unused, PythonReading, StreamFresh, streamVars
  <2>2. ~StreamReadingBack'
    BY <2>1 DEF StreamReadingBack
  <2>3. StreamRead'
    BY <1>1, <2>2 DEF ReadInv, Read, StreamRead
  <2> QED
    BY <1>1, <2>3 DEF StreamInv
<1>5. CASE StreamReading
  <2>1. UNCHANGED <<disk, target, accepted, intact, damage, maker>>
    BY <1>5 DEF StreamReading, allVars, writerVars
  <2>2. ASSUME target' # None
        PROVE  \E offs \in Marks : Written(offs)' /\ (StreamReadingBack' => StreamFollows(offs)')
    <3>1. PICK offs \in Marks : Written(offs) /\ (StreamReadingBack => StreamFollows(offs))
      BY <2>1, <2>2 DEF StreamInv, StreamRead
    <3>2. Written(offs)'
      BY <2>1, <3>1, SameWritten
    <3>3. StreamReadingBack' => StreamFollows(offs)'
      BY <1>2, <1>5, <3>1, StreamFollowsStep
    <3> QED
      BY <3>2, <3>3
  <2> QED
    BY <1>1, <2>2 DEF StreamInv, StreamRead
<1>6. CASE UNCHANGED exchangeVars
  <2>1. StreamRead'
    BY <1>6 DEF StreamInv, StreamRead, exchangeVars, allVars, writerVars, streamVars, Written,
       Frames, Ends, StreamReadingBack, StreamFollows, StreamInStep, StreamAtTheEnd,
       StreamAstray, StreamHasNext, StreamEnd, First
  <2> QED
    BY <1>1, <2>1 DEF StreamInv
<1> QED
  BY <1>3, <1>4, <1>5, <1>6 DEF ExchangeNext

LEMMA StreamInvReadsBack == StreamInv => StreamReadsBack
<1> DEFINE whole == First(intact)
<1> SUFFICES ASSUME StreamInv, StreamReadingBack
             PROVE  /\ \A n \in DOMAIN taken : n <= Len(whole) => taken[n] = whole[n]
                    /\ "torn" \notin damage => Len(taken) <= Len(whole)
                    /\ damage = {} /\ reply = "nullopt" => taken = Carried(accepted)
  BY DEF StreamReadsBack, First
<1>1. Kept /\ target # None
  BY DEF StreamInv, ReadInv, Kept, Opened, StreamReadingBack
<1>2. PICK offs \in Marks : Written(offs) /\ StreamFollows(offs)
  BY <1>1 DEF StreamInv, StreamRead
<1>3. /\ intact \in Nat /\ intact <= Len(accepted) /\ accepted \in Seq(Messages)
      /\ taken \in Seq(Messages \union {Garbage})
      /\ damage = {} => intact = Len(accepted) /\ StreamEnd = offs[intact]
      /\ at \in Nat /\ StreamEnd \in Nat
  BY <1>1, <1>2, StreamFacts
<1>4. whole \in Seq(Messages) /\ Len(whole) \in Nat
  BY <1>3, FirstTyped
<1>5. ASSUME NEW k \in 0..intact, taken = First(k)
      PROVE  Len(taken) <= Len(whole) /\ \A n \in DOMAIN taken : taken[n] = whole[n]
  <2>1. First(k) \in Seq(Messages) /\ k \in Nat /\ k <= intact
    BY <1>3, FirstTyped
  <2>2. PICK x \in Seq(Messages) : whole = First(k) \o x
    BY <1>3, <2>1, FirstBegins
  <2> HIDE DEF First, whole
  <2> QED
    BY <1>5, <2>1, <2>2, ConcatProperties
<1>6. ASSUME NEW x \in Seq(Messages \union {Garbage}), taken = whole \o x
      PROVE  \A n \in DOMAIN taken : n <= Len(whole) => taken[n] = whole[n]
  <2>1. whole \in Seq(Messages \union {Garbage})
    BY <1>4
  <2> HIDE DEF whole
  <2> QED
    BY <1>3, <1>4, <1>6, <2>1, ConcatProperties
<1>7. ASSUME damage = {}, reply = "nullopt" PROVE taken = Carried(accepted)
  <2>1. ~StreamAtTheEnd /\ ~StreamAstray
    BY <1>7 DEF StreamAtTheEnd, StreamAstray
  <2>2. good /\ \E k \in 0..intact : at = offs[k] /\ taken = First(k)
    BY <1>2, <2>1 DEF StreamFollows, StreamInStep
  <2>3. PICK k \in 0..intact : at = offs[k] /\ taken = First(k)
    BY <2>2
  <2>4. ~(at < StreamEnd)
    BY <1>2, <1>7, <2>2 DEF StreamFollows, StreamHasNext, StreamReadingBack
  <2>5. intact \in 0..intact /\ k <= intact
    BY <1>3
  <2>6. k # intact => offs[k] < offs[intact]
    BY <1>2, <1>3, <2>5, MarksRise DEF Written
  <2>7. k = intact
    BY <1>3, <1>7, <2>3, <2>4, <2>6
  <2>8. SubSeq(accepted, 1, intact) = accepted
    BY <1>3, <1>7, SubSeqFull
  <2> QED
    BY <2>3, <2>7, <2>8 DEF First
<1>8. CASE StreamInStep(offs) \/ StreamAtTheEnd
  <2>1. PICK k \in 0..intact : taken = First(k)
    BY <1>8 DEF StreamInStep, StreamAtTheEnd
  <2> QED
    BY <1>5, <1>7, <2>1
<1>9. CASE StreamAstray
  BY <1>6, <1>7, <1>9 DEF StreamAstray
<1> QED
  BY <1>2, <1>8, <1>9 DEF StreamFollows

(* What the C++ reader returns is what was written, without the empty      *)
(* messages and from the first one on, whichever language wrote the file;  *)
(* it returns all of them if nothing failed, and its exceptions make it    *)
(* lose or repeat none.                                                    *)
THEOREM StreamWrittenIsRead == ExchangeSpec => []StreamReadsBack
<1>1. ExchangeInit => StreamInv
  <2>1. ExchangeInit => Using /\ Read /\ StreamRead
    BY DEF ExchangeInit, FileInit, WriterInit, Using, Read, StreamRead
  <2> QED
    BY <2>1, KeptInit DEF StreamInv, ReadInv
<1> QED
  BY <1>1, StreamInvStep, StreamInvReadsBack, PTL DEF ExchangeSpec

=============================================================================
