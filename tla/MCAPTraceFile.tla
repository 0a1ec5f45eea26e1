---------------------------- MODULE MCAPTraceFile ----------------------------
(***************************************************************************)
(* The C++ writer and reader of MCAP trace files on one disk: what the     *)
(* reader finds of what was written, after the writer was closed, with or  *)
(* without a stream that failed under it, or its process ended.            *)
(***************************************************************************)
EXTENDS FiniteSets, MCAPTraceFileReader, MCAPTraceFileWriter

CONSTANT Target     \* the path that is written

ASSUME TargetAssumption == Target \in Paths

(* None is not a schema, and not a set of messages still to be read.       *)
ASSUME NoneAssumption ==
    /\ None \notin Schemas
    /\ \A d \in Disks, p \in Paths : \A s \in SUBSET DOMAIN d[p].messages : s # None
    /\ \A s \in SUBSET (1..MaxMessages) : s # None

VARIABLE left       \* history: what was written to the first file of a writer
                    \* object, once that file is closed, or None

allVars == <<disk, readerVars, writerVars, left>>

FileInit == disk \in Disks /\ ReaderInit /\ WriterInit /\ left = None

-----------------------------------------------------------------------------
(* Writing                                                                 *)

(* The reader has not been used.                                           *)
Fresh == file = None /\ result.status = "NONE" /\ filtered = {} /\ ~skip

(* A message in a file, with the topic and the schema of its channel.      *)
RecordOf(w, x) == LET c == w.channels[x.channel]
                  IN [topic   |-> c.topic,
                      schema  |-> [encoding |-> "protobuf", type |-> w.schemas[c.schema]],
                      payload |-> "good"]

(* The first n messages of w, and so many net.asam.osi.trace records.      *)
Stored(w, n, records) == [state    |-> "readable",
                          trace    |-> records,
                          messages |-> [k \in 1..n |-> RecordOf(w, w.messages[k])]]

Empty == [state |-> "damaged", trace |-> 0, messages |-> <<>>]

Whole(w) == Stored(w, Len(w.messages), Len(w.trace))

(* What may be on the disk when the end is missing: a number of messages   *)
(* with the records before them, and those before the next one or not, or  *)
(* nothing that can be opened.                                             *)
Before(w, n) == Cardinality({k \in DOMAIN w.trace : w.trace[k] < n})

CutShort(w) ==
    {Empty} \union {Stored(w, n, Before(w, n + b)) : n \in 0..Len(w.messages), b \in {0, 1}}

(* The file as it is left behind, and what the writer says it has in it.   *)
(* The later files of a writer object are not looked at.                   *)
LeaveFile(f, whole) ==
    /\ disk' = [disk EXCEPT ![Target] = IF opens = 1 THEN f ELSE Empty]
    /\ left' = IF opens = 1
                 THEN [accepted |-> accepted, types |-> topic_to_schema_name,
                       whole |-> whole, titled |-> ~premature]
                 ELSE None

(* Close() of an open file: neither the library nor the stream is asked    *)
(* whether the last of it was written.                                     *)
CloseFile ==
    /\ is_open /\ Close
    /\ \/ good /\ LeaveFile(Whole(mcap), TRUE)
       \/ \E f \in CutShort(mcap) : LeaveFile(f, FALSE)

(* The process ends, and another one makes a writer object.                *)
Crash ==
    /\ is_open
    /\ \E f \in CutShort(mcap) : LeaveFile(f, FALSE)
    /\ is_open' = FALSE /\ good' = TRUE /\ required_metadata_added' = FALSE
    /\ topic_to_channel_id' = [t \in Topics |-> 0]
    /\ topic_to_schema_name' = [t \in Topics |-> None]
    /\ schemas' = [type \in MessageTypes |-> 0]
    /\ mcap' = EmptyFile
    /\ ret' = "none" /\ accepted' = <<>> /\ opens' = 0 /\ premature' = FALSE

(* Bounds: a writer object starts where there is no file, and after its    *)
(* first file it goes on with the next.                                    *)
MayGoOn == /\ opens = 0 => disk[Target].state = "missing"
           /\ left = None

OpenFile == /\ OpenSucceeds
            /\ disk' = [disk EXCEPT ![Target] = Empty] /\ left' = None

Writing ==
    /\ Fresh
    /\ \/ (MayGoOn \/ opens > 0) /\ OpenFile
       \/ MayGoOn /\ WriterNext /\ is_open' = is_open /\ UNCHANGED <<disk, left>>
       \/ CloseFile
       \/ Crash
    /\ UNCHANGED readerVars

-----------------------------------------------------------------------------
(* Reading                                                                 *)

(* The first file of a writer object is read, or what was there before.    *)
(* Bound: of what was written nothing can be skipped, and only it is read. *)
Reading ==
    /\ left # None \/ (opens = 0 /\ ret = "none")
    /\ ReaderNext
    /\ left # None => UNCHANGED skip /\ file' \in {Target, None}
    /\ UNCHANGED <<disk, writerVars, left>>

FileNext == Writing \/ Reading

(* A client that reads a file to its end and catches what is thrown.       *)
ReadingOn == file # None /\ ReadMessage /\ UNCHANGED <<disk, writerVars, left>>

FileSpec == FileInit /\ [][FileNext]_allVars /\ WF_allVars(ReadingOn)

-----------------------------------------------------------------------------
(* Properties                                                              *)

FileTypeOK ==
    /\ ReaderTypeOK /\ WriterTypeOK
    /\ left \in {None} \union [accepted : Seq([topic : Topics, message : Messages, at : Nat]),
                               types : [Topics -> MessageTypes \union {None}],
                               whole : BOOLEAN, titled : BOOLEAN]

(* The messages of the first file that the filter of the reader selects.   *)
Wanted == {n \in DOMAIN left.accepted : Passes(viewing, filtered, left.accepted[n].topic)}

(* Of the first file of a writer object the reader returns the messages    *)
(* WriteMessage answered true for, each with its topic and the type of its *)
(* topic, and nothing else, in the order of the calls; all that the filter *)
(* selects if no failure cut the file short, and then the file has the     *)
(* required record once if it has messages, whichever overloads were mixed *)
(* and whatever channels were asked for in between.  (The type is that of  *)
(* the channel: the type of a message is not compared with it.)            *)
FirstFileReadsBack ==
    file = Target /\ left # None =>
        /\ \A k \in DOMAIN delivered :
              LET n == delivered[k]
                  t == left.accepted[n].topic
              IN /\ n \in Wanted
                 /\ Message(file, n).topic = t
                 /\ Message(file, n).schema.type = left.types[t]
        /\ result.status \notin {"kError", "kIncompatible", "thrown"}
        /\ left.whole => /\ iterator \union Output = Wanted
                         /\ left.titled /\ left.accepted # <<>> => file_metadata = 1

=============================================================================
