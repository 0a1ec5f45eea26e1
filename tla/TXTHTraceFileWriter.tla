------------------------- MODULE TXTHTraceFileWriter -------------------------
(***************************************************************************)
(* The C++ writer of text trace files,                                     *)
(* cpp/src/tracefile/writer/TXTHTraceFileWriter.cpp, on the disk of the    *)
(* reader.                                                                 *)
(***************************************************************************)
EXTENDS TXTHTraceFileReader

CONSTANT MaxLines   \* bound: no write starts on a text as long, or after as many writes

VARIABLES
    out,        \* trace_file_: the path that is open, or None
    good,       \* trace_file_ has not failed
    answer,     \* what the last call answered
    target,     \* history: the path opened last
    accepted,   \* history: the messages WriteMessage returned true for
    begun,      \* history: those and the one that was refused while it was written
    damage      \* history: whether part of the text is missing

writerVars == <<out, good, answer, target, accepted, begun, damage>>

WriterInit == /\ out = None /\ good = TRUE /\ answer = "none"
              /\ target = None /\ accepted = <<>> /\ begun = <<>> /\ damage = FALSE

OpenWriter(p) ==
    /\ out = None /\ p \in TxthPaths
    /\ disk' = [disk EXCEPT ![p] = Text(<<>>, TRUE)]
    /\ out' = p /\ good' = TRUE /\ answer' = "true"
    /\ target' = p /\ accepted' = <<>> /\ begun' = <<>> /\ damage' = FALSE

(* Already open, another extension, or the operating system refuses.       *)
OpenWriterRefused ==
    /\ answer' = "false"
    /\ UNCHANGED <<disk, out, good, target, accepted, begun, damage>>

MayWrite == /\ out # None /\ good
            /\ Len(disk[out].lines) < MaxLines /\ Len(accepted) < MaxLines

Written(m) == Text(disk[out].lines \o m, TRUE)

(* WriteMessage(m), either overload                                        *)
Put(m) ==
    /\ MayWrite
    /\ disk' = [disk EXCEPT ![out] = Written(m)]
    /\ answer' = "true" /\ accepted' = Append(accepted, m)
    /\ begun' = Append(begun, m)
    /\ UNCHANGED <<out, good, target, damage>>

(* What may have reached the disk of a text: some of its lines, of which   *)
(* the last may be without its end, or the beginning of one only.          *)
Beginnings(text) ==
    {text} \union {Text(SubSeq(text.lines, 1, n), TRUE) : n \in 0..Len(text.lines)}
           \union {Text(SubSeq(text.lines, 1, n), FALSE) : n \in 1..Len(text.lines)}
           \union {Text(Append(SubSeq(text.lines, 1, n - 1), Fragment), FALSE) :
                     n \in 1..Len(text.lines)}

LeftOf(p, text) == /\ disk' = [disk EXCEPT ![p] = text]
                   /\ damage' = (damage \/ text # disk[p])

(* The stream fails.  If it does so while Print fills it, that is seen;    *)
(* what OstreamOutputStream writes when it goes out of scope comes after   *)
(* the look at the stream, and the answer is true.                         *)
PutFails(m) ==
    /\ MayWrite
    /\ good' = FALSE
    /\ \E text \in Beginnings(Written(m)) \ {Written(m)} :
          disk' = [disk EXCEPT ![out] = text]
    /\ damage' = TRUE /\ begun' = Append(begun, m)
    /\ \/ answer' = "false" /\ UNCHANGED accepted
       \/ answer' = "true" /\ accepted' = Append(accepted, m)
    /\ UNCHANGED <<out, target>>

(* No file is open, or the stream has failed before.                       *)
PutRefused ==
    /\ out = None \/ ~good
    /\ answer' = "false"
    /\ UNCHANGED <<disk, out, good, target, accepted, begun, damage>>

CloseWriter ==
    /\ out' = None /\ answer' = "none"
    /\ UNCHANGED <<disk, good, target, accepted, begun, damage>>

(* Close() does not report that the last flush failed, and a process that  *)
(* ends has no flush at all.                                               *)
CloseWriterLoses ==
    /\ out # None /\ good
    /\ \E text \in Beginnings(disk[out]) : LeftOf(out, text)
    /\ out' = None /\ answer' = "none"
    /\ UNCHANGED <<good, target, accepted, begun>>

WriterNext ==
    \/ \E p \in Paths : OpenWriter(p)
    \/ OpenWriterRefused
    \/ \E t \in MessageTypes : \E m \in Messages[t] : Put(m) \/ PutFails(m)
    \/ PutRefused
    \/ CloseWriter \/ CloseWriterLoses

=============================================================================
