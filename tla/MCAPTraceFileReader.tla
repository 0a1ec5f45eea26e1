------------------------- MODULE MCAPTraceFileReader -------------------------
(***************************************************************************)
(* The C++ reader of MCAP trace files,                                     *)
(* cpp/src/tracefile/reader/MCAPTraceFileReader.cpp.  It yields messages   *)
(* in file order and looks at a message only when it is read, so HasNext   *)
(* knows nothing of what will be skipped.                                  *)
(***************************************************************************)
EXTENDS MCAPTraceFormat

CONSTANTS
    Paths,          \* the paths Open is called with
    Disks,          \* what the disk may hold at the start: a file at each path
    GivenTopics     \* what a topic filter in options that a caller gives to Open
                    \* lets through

(* A message: its topic, its schema and whether its payload parses.        *)
Schemas == [encoding : {"protobuf", "other"}, type : MessageTypes \union {None}]
Records == [topic : Topics, schema : Schemas \union {None}, payload : {"good", "bad"}]

(* A file: whether it can be opened, how many net.asam.osi.trace records   *)
(* it has, and its messages.                                               *)
Files == [state : {"readable", "missing", "damaged"}, trace : Nat, messages : Seq(Records)]

ASSUME FilesAssumption == /\ Disks \subseteq [Paths -> Files]
                          /\ None \notin Paths \union MessageTypes
                          /\ GivenTopics \subseteq Topics

VARIABLES
    disk,       \* path -> the file at it
    file,       \* trace_file_ and mcap_reader_: the path that is open, or None
    file_metadata, \* file_metadata_: its net.asam.osi.trace records
    iterator,   \* message_view_ and message_iterator_: what is to come, or None
    filtered,   \* filtered_topics_, which the filter consults when it is asked
    filtering,  \* mcap_options_.topicFilter: "none", its "own", or one "given" to Open
    viewing,    \* the filter in the copy of the options that message_view_ made
    skip,       \* skip_incompatible_msgs_
    result,     \* what the last call answered, and for which message
    delivered,  \* history: the messages returned since the iteration started
    skipped     \* history: the messages passed over as incompatible

readerVars == <<file, file_metadata, iterator, filtered, filtering, viewing, skip,
                result, delivered, skipped>>

Filters == {"none", "own", "given"}

Answers == [status : {"NONE", "OPENED", "REFUSED", "CLOSED", "EOF",
                      "kOk", "kError", "kIncompatible", "thrown"},
            msg : Nat]
Answer(s) == [status |-> s, msg |-> 0]

ReaderInit ==
    /\ file = None /\ file_metadata = 0 /\ iterator = None
    /\ filtered = {} /\ filtering = "none" /\ viewing = "none" /\ skip = FALSE
    /\ result = Answer("NONE") /\ delivered = <<>> /\ skipped = {}

Message(p, i) == disk[p].messages[i]

(* ResetMessageIteration on the open file p.                               *)
Passes(on, ts, topic) == \/ on = "none"
                         \/ on = "own" /\ topic \in ts
                         \/ on = "given" /\ topic \in GivenTopics

Selected(p, on, ts) == {i \in DOMAIN disk[p].messages : Passes(on, ts, Message(p, i).topic)}

Reset(p, on, ts) == /\ iterator' = Selected(p, on, ts) /\ viewing' = on
                    /\ delivered' = <<>> /\ skipped' = {}

(* Options that come with the call are taken over before it is refused.    *)
OpenRefused(p, on) ==
    /\ iterator # None \/ disk[p].state # "readable"
    /\ filtering' = on
    /\ result' = Answer("REFUSED")
    /\ UNCHANGED <<file, file_metadata, iterator, filtered, viewing, skip, delivered, skipped>>

OpenReadable(p, on) ==
    /\ iterator = None /\ disk[p].state = "readable"
    /\ file' = p /\ file_metadata' = disk[p].trace /\ filtering' = on
    /\ Reset(p, on, filtered)
    /\ result' = Answer("OPENED")
    /\ UNCHANGED <<filtered, skip>>

(* Open with the options of the reader, or with given ones, which have a   *)
(* topic filter or none.                                                   *)
OpenTrace(p) == \E on \in {filtering, "none", "given"} : OpenRefused(p, on) \/ OpenReadable(p, on)

CloseTrace ==
    /\ file' = None /\ file_metadata' = 0 /\ iterator' = None
    /\ result' = Answer("CLOSED") /\ delivered' = <<>> /\ skipped' = {}
    /\ UNCHANGED <<filtered, filtering, viewing, skip>>

(* A filter that was given gives way to the topics, or to none.            *)
FilterFor(ts) == IF ts = {} THEN "none" ELSE "own"

(* Mutant: the iteration goes on with the old topics.                      *)
SetTopicsLater(ts) ==
    /\ filtered' = ts /\ filtering' = FilterFor(ts)
    /\ result' = Answer("NONE")
    /\ UNCHANGED <<file, file_metadata, iterator, viewing, skip, delivered, skipped>>

SetTopics(ts) ==
    /\ filtered' = ts /\ filtering' = FilterFor(ts)
    /\ IF file = None THEN UNCHANGED <<iterator, viewing, delivered, skipped>>
                      ELSE Reset(file, FilterFor(ts), ts)
    /\ result' = Answer("NONE")
    /\ UNCHANGED <<file, file_metadata, skip>>

SetSkipIncompatibleMessages(b) ==
    /\ skip' = b
    /\ UNCHANGED <<file, file_metadata, iterator, filtered, filtering, viewing, result, delivered, skipped>>

-----------------------------------------------------------------------------
HasNext == file # None /\ iterator # None /\ iterator # {}

IsFirst(i, S) == i \in S /\ \A j \in S : i <= j

(* ProcessMessageView: no schema throws, what is not a known OSI message is*)
(* incompatible.                                                           *)
Schemaless(i)   == Message(file, i).schema = None
Incompatible(i) == /\ ~Schemaless(i)
                   /\ \/ Message(file, i).schema.encoding # "protobuf"
                      \/ Message(file, i).schema.type = None

StatusOf(i) == CASE Incompatible(i)                   -> "kIncompatible"
                 [] Message(file, i).payload = "good" -> "kOk"
                 [] OTHER                             -> "kError"

(* The loop of ReadMessage stops at the first message not skipped.         *)
Stops == {i \in iterator : ~(skip /\ Incompatible(i))}

ReadNothing ==
    /\ ~HasNext
    /\ result' = Answer("EOF")
    /\ UNCHANGED <<file, file_metadata, iterator, filtered, filtering, viewing, skip, delivered, skipped>>

ReadSkipsAll ==
    /\ HasNext /\ Stops = {}
    /\ iterator' = {} /\ skipped' = skipped \union iterator
    /\ result' = Answer("EOF")
    /\ UNCHANGED <<file, file_metadata, filtered, filtering, viewing, skip, delivered>>

(* The exception leaves the iterator where it is, past what was skipped.   *)
ReadThrows ==
    /\ HasNext
    /\ \E i \in Stops :
          /\ IsFirst(i, Stops) /\ Schemaless(i)
          /\ iterator' = {j \in iterator : j >= i}
          /\ skipped' = skipped \union {j \in iterator : j < i}
    /\ result' = Answer("thrown")
    /\ UNCHANGED <<file, file_metadata, filtered, filtering, viewing, skip, delivered>>

(* Mutant: a message that does not parse stays first in line.              *)
ReadYieldsStays ==
    /\ HasNext
    /\ \E i \in Stops :
          /\ IsFirst(i, Stops) /\ ~Schemaless(i)
          /\ skipped' = skipped \union {j \in iterator : j < i}
          /\ IF StatusOf(i) = "kError"
               THEN iterator' = {j \in iterator : j >= i} /\ UNCHANGED delivered
               ELSE /\ iterator' = {j \in iterator : j > i}
                    /\ delivered' = Append(delivered, i)
          /\ result' = [status |-> StatusOf(i), msg |-> i]
    /\ UNCHANGED <<file, file_metadata, filtered, filtering, viewing, skip>>

ReadYields ==
    /\ HasNext
    /\ \E i \in Stops :
          /\ IsFirst(i, Stops) /\ ~Schemaless(i)
          /\ iterator' = {j \in iterator : j > i}
          /\ skipped' = skipped \union {j \in iterator : j < i}
          /\ delivered' = Append(delivered, i)
          /\ result' = [status |-> StatusOf(i), msg |-> i]
    /\ UNCHANGED <<file, file_metadata, filtered, filtering, viewing, skip>>

ReadMessage == ReadNothing \/ ReadSkipsAll \/ ReadThrows \/ ReadYields

ReaderNext ==
    \/ \E p \in Paths : OpenTrace(p)
    \/ CloseTrace
    \/ \E ts \in SUBSET Topics : SetTopics(ts)
    \/ \E b \in BOOLEAN : SetSkipIncompatibleMessages(b)
    \/ ReadMessage

-----------------------------------------------------------------------------
(* Properties                                                              *)

ReaderTypeOK ==
    /\ disk \in [Paths -> Files]
    /\ file \in Paths \union {None} /\ file_metadata \in Nat
    /\ iterator \in {None} \union SUBSET Nat /\ (iterator = None) = (file = None)
    /\ filtered \in SUBSET Topics /\ filtering \in Filters
    /\ viewing \in Filters /\ skip \in BOOLEAN
    /\ result \in Answers /\ delivered \in Seq(Nat) /\ skipped \in SUBSET Nat

Output == {delivered[n] : n \in DOMAIN delivered}

(* Every message the filter lets through is still to come, was delivered,  *)
(* or was skipped - in exactly one of these places, in file order, and only*)
(* if it is incompatible in the last case; a SetTopics in between starts   *)
(* over with the new filter.                                               *)
Accounted ==
    file # None =>
        /\ iterator \union Output \union skipped = Selected(file, viewing, filtered)
        /\ iterator \intersect (Output \union skipped) = {}
        /\ Output \intersect skipped = {}
        /\ \A i \in skipped : Incompatible(i)
        /\ \A m, n \in DOMAIN delivered : m < n => delivered[m] < delivered[n]
        /\ \A i \in iterator, j \in Output \union skipped : j < i

(* An error in one message is not the end: if every message has a schema, a*)
(* client that reads on comes to the end of the file, unless it closes the *)
(* file or starts over.                                                    *)
Drains == file # None /\ (\A i \in iterator : ~Schemaless(i))
             ~> result.status \in {"EOF", "CLOSED", "NONE"}

(* SetSkipIncompatibleMessages is documented to skip messages of a foreign *)
(* encoding, which are the ones that may lack a schema, silently.          *)
SkipNeverThrows == [][ReadMessage /\ skip => result'.status # "thrown"]_readerVars

=============================================================================
