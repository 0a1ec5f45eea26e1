-------------------------- MODULE MultiTraceReader --------------------------
(***************************************************************************)
(* The Python reader of multi-channel MCAP trace files,                    *)
(* python/osi_utilities/tracefile/readers/multi.py.                        *)
(*                                                                         *)
(* One action per public method; a method runs to its end before the next  *)
(* one starts (the class is not thread-safe).  The interesting part is     *)
(* what the calls leave behind for each other: a peeked result, an         *)
(* iterator bound to a reader object, caches keyed by channel id, a        *)
(* decoder factory that lives as long as the reader, and settings that may *)
(* change at any time.                                                     *)
(*                                                                         *)
(* A file is abstracted to its channels and its messages in file order;    *)
(* a message to its channel, its log time and what happens when its bytes  *)
(* are touched.                                                            *)
(***************************************************************************)
EXTENDS Integers, Sequences, FiniteSets

CONSTANTS
    Paths,          \* the paths open() is called with
    FileAt,         \* what is found at each path
    ChannelIds,     \* the channel ids that occur in the files
    SchemaIds,      \* the schema ids that occur in the files
    Topics,         \* topic names
    MessageTypes,   \* the OSI top-level message types
    Expectations,   \* bound: what set_topic_message_types is called with
    Unknown,        \* MessageType.UNKNOWN
    None            \* Python's None

Modes     == {"precompiled", "mcap-contained"}
Encodings == {"protobuf", "other"}

(* The schema of a channel: its id, the message type its name stands for,  *)
(* and what the embedded descriptor set is good for: usable, in a schema   *)
(* encoding the decoder factory does not know, or damaged.                 *)
Schemas == [id : SchemaIds, type : MessageTypes \union {Unknown},
            descriptor : {"usable", "foreign", "damaged"}]

Channels == [topic : Topics, encoding : Encodings,
             schema : Schemas \union {None}]

(* payload "broken" is a record at which the MCAP library itself fails.    *)
Records == [channel : ChannelIds, time : Nat, payload : {"good", "bad", "broken"}]

(* A file is damaged if the library says so, with a McapError, when it is  *)
(* opened, and malformed if the library fails over it in any other way.    *)
Files == [state : {"readable", "missing", "damaged", "malformed"}, summary : BOOLEAN,
          channels : [ChannelIds -> Channels \union {None}],
          messages : Seq(Records)]

ASSUME NamesAssumption == /\ None \notin Paths \union Topics \union MessageTypes \union {Unknown}
                          /\ Unknown \notin MessageTypes

ASSUME ExpectationsAssumption == Expectations \subseteq [Topics -> MessageTypes \union {None}]

(* The schemas of the channels of a file; an id stands for one of them.    *)
SchemasIn(p) == {c.schema : c \in {FileAt[p].channels[id] : id \in ChannelIds} \ {None}} \ {None}

ASSUME FilesAssumption ==
    /\ FileAt \in [Paths -> Files]
    /\ \A p \in Paths : \A i \in DOMAIN FileAt[p].messages :
          FileAt[p].channels[FileAt[p].messages[i].channel] # None
    /\ \A p \in Paths : \A s, t \in SchemasIn(p) : s.id = t.id => s = t

VARIABLES
    file,       \* _file: the path of the open file, or None
    reader,     \* _reader: the path its reader object was made for, or None
    path,       \* _path
    summary,    \* _summary: the path it was read from, or None
    iterator,   \* _message_iterator: the messages still to come, or None
    topics,     \* _topics: the topics asked for; {} stands for all of them
    expected,   \* _topic_message_types
    skip,       \* _skip_incompatible_messages
    mode,       \* _decoder_mode
    classes,    \* _precompiled_message_classes: channel id -> message type
    decoders,   \* _mcap_contained_decoders: channel id -> message type
    types,      \* _types of the _decoder_factory: schema id -> message type
    peeked,     \* _peeked_result
    exhausted,  \* _peek_exhausted
    ret,        \* what the last open, close, has_next or read_message answered
    delivered,  \* history: the messages read_message has returned, in order
    skipped,    \* history: the messages passed over as incompatible
    raised      \* history: the messages at which a call left with an exception

handle   == <<file, reader, path, summary>>
settings == <<topics, expected, skip, mode>>
caches   == <<classes, decoders, types>>
cursor   == <<iterator, peeked, exhausted>>
history  == <<delivered, skipped, raised>>
vars     == <<handle, settings, caches, cursor, ret, history>>

-----------------------------------------------------------------------------
(* The contents of a file.                                                 *)

Message(p, i) == FileAt[p].messages[i]
ChannelOf(p, i) == FileAt[p].channels[Message(p, i).channel]
SchemaType(p, i) == ChannelOf(p, i).schema.type
SchemaId(p, i)   == ChannelOf(p, i).schema.id

(* The open file is one that open() got through.                           *)
Readable == file # None /\ FileAt[file].state = "readable"

(* iter_messages of the MCAP library: the messages of the topics asked     *)
(* for, by log time, those of one time in file order.                      *)
Selected(p, ts) == {i \in DOMAIN FileAt[p].messages :
                       ts = {} \/ ChannelOf(p, i).topic \in ts}

Before(p, i, j) == \/ Message(p, i).time < Message(p, j).time
                   \/ Message(p, i).time = Message(p, j).time /\ i < j

IsFirst(p, i, S) == i \in S /\ \A j \in S \ {i} : Before(p, i, j)

(* The answers of the calls.  msg is the message the answer is about, as   *)
(* the type of the class it was decoded with, by the mode that chose it.   *)
Statuses == {"NONE", "OPENED", "REFUSED", "OPEN RAISED", "CLOSED", "MORE", "END",
             "OK", "INCOMPATIBLE", "ERROR", "EOF", "RAISED"}
Answers  == [status : Statuses, msg : Nat,
             type : MessageTypes \union {Unknown, None},
             as : MessageTypes \union {None}, by : Modes \union {None}]

(* None is none of the values it stands in for.                            *)
ASSUME NoneAssumption ==
    /\ None \notin Answers
    /\ \A p \in Paths : \A S \in SUBSET (DOMAIN FileAt[p].messages) : S # None

Answer(s)            == [status |-> s, msg |-> 0, type |-> None, as |-> None, by |-> None]
Failure(s, i, t)     == [status |-> s, msg |-> i, type |-> t, as |-> None, by |-> None]
Decoded(i, t, class) == [status |-> "OK", msg |-> i, type |-> t, as |-> class, by |-> mode]

-----------------------------------------------------------------------------
(* The fate of one message under the current settings.                     *)

(* Mutant: the check that the schema names an OSI message is missing.      *)
MismatchKnowsAll(p, i) ==
    LET c == ChannelOf(p, i) IN
    c.encoding # "protobuf" \/ c.schema = None \/ expected[c.topic] \notin {None, c.schema.type}

(* The checks read_message makes before decoding, in its order.            *)
Mismatch(p, i) ==
    LET c == ChannelOf(p, i) IN
    \/ c.encoding # "protobuf"
    \/ c.schema = None
    \/ c.schema.type = Unknown
    \/ expected[c.topic] \notin {None, c.schema.type}

(* decoder_for of the decoder factory knows no decoder for the schema.     *)
NoDecoder(p, i) == /\ mode = "mcap-contained"
                   /\ decoders[Message(p, i).channel] = None
                   /\ ChannelOf(p, i).schema.descriptor = "foreign"

Broken(p, i)       == Message(p, i).payload = "broken"
Incompatible(p, i) == ~Broken(p, i) /\ (Mismatch(p, i) \/ NoDecoder(p, i))

(* The type an INCOMPATIBLE result names: only a schema that was resolved  *)
(* has one.                                                                *)
NamedType(p, i) ==
    LET c == ChannelOf(p, i) IN
    IF c.encoding # "protobuf" \/ c.schema = None THEN Unknown ELSE c.schema.type

(* decoder_for raises on a damaged descriptor set, unless the factory has  *)
(* a type for the id of the schema and does not look; nothing catches it.  *)
Raises(p, i) == /\ ~Broken(p, i) /\ ~Incompatible(p, i)
                /\ mode = "mcap-contained"
                /\ decoders[Message(p, i).channel] = None
                /\ types[SchemaId(p, i)] = None
                /\ ChannelOf(p, i).schema.descriptor = "damaged"

Cached(cache, key, type) == IF cache[key] # None THEN cache[key] ELSE type

(* The factory is made once and remembers by schema id, in whichever file  *)
(* it met the id first.                                                    *)
FactoryClass(p, i) == Cached(types, SchemaId(p, i), SchemaType(p, i))

ClassUsed(p, i) ==
    IF mode = "precompiled" THEN Cached(classes, Message(p, i).channel, SchemaType(p, i))
                            ELSE Cached(decoders, Message(p, i).channel, FactoryClass(p, i))

(* What read_message may return for the message at which its loop stops.   *)
(* Bytes given to the class of another type may parse all the same.        *)
ResultsOf(p, i) ==
    IF Broken(p, i)            THEN {Failure("ERROR", i, Unknown)}
    ELSE IF Incompatible(p, i) THEN {Failure("INCOMPATIBLE", i, NamedType(p, i))}
    ELSE IF Raises(p, i)       THEN {Failure("RAISED", i, None)}
    ELSE {res \in {Decoded(i, SchemaType(p, i), ClassUsed(p, i)),
                   Failure("ERROR", i, SchemaType(p, i))} :
             \/ ClassUsed(p, i) # SchemaType(p, i)
             \/ res.status = "OK" <=> Message(p, i).payload = "good"}

-----------------------------------------------------------------------------
NoCache        == [c \in ChannelIds |-> None]
NoTypes        == [s \in SchemaIds |-> None]
NoExpectations == [t \in Topics |-> None]

Init ==
    /\ file = None /\ reader = None /\ path = None /\ summary = None
    /\ topics = {} /\ expected = NoExpectations
    /\ skip \in BOOLEAN /\ mode \in Modes
    /\ classes = NoCache /\ decoders = NoCache /\ types = NoTypes
    /\ iterator = None /\ peeked = None /\ exhausted = FALSE
    /\ ret = Answer("NONE")
    /\ delivered = <<>> /\ skipped = {} /\ raised = {}

ForgetHistory == delivered' = <<>> /\ skipped' = {} /\ raised' = {}

(* _start_iteration, for the reader object made for p.                     *)
StartIteration(p, ts) ==
    /\ peeked' = None /\ exhausted' = FALSE
    /\ iterator' = IF p = None THEN iterator ELSE Selected(p, ts)
    /\ ForgetHistory

(* open(p)                                                                 *)
OpenAgain(p) ==
    /\ file # None
    /\ ret' = Answer("REFUSED")
    /\ UNCHANGED <<handle, settings, caches, cursor, history>>

(* The operating system refuses: only the attempt is left.                 *)
OpenMissing(p) ==
    /\ file = None /\ FileAt[p].state = "missing"
    /\ ret' = Answer("REFUSED")
    /\ UNCHANGED <<handle, settings, caches, cursor, history>>

(* get_summary fails: the file is closed again, and the reader object made *)
(* for it stays behind.                                                    *)
OpenDamaged(p) ==
    /\ file = None /\ FileAt[p].state = "damaged"
    /\ reader' = p /\ path' = p
    /\ ret' = Answer("REFUSED")
    /\ UNCHANGED <<file, summary, settings, caches, cursor, history>>

(* make_reader or get_summary leaves with an exception open() does not     *)
(* catch: the file stays open, and until close() the reader counts as open.*)
OpenRaises(p) ==
    /\ file = None /\ FileAt[p].state = "malformed"
    /\ file' = p /\ path' = p /\ reader' \in {reader, p}
    /\ ret' = Answer("OPEN RAISED")
    /\ UNCHANGED <<summary, settings, caches, cursor, history>>

(* Mutant: the caches of the last file are kept.                           *)
OpenReadableKeepsCaches(p) ==
    /\ file = None /\ FileAt[p].state = "readable"
    /\ file' = p /\ reader' = p /\ path' = p
    /\ summary' = IF FileAt[p].summary THEN p ELSE None
    /\ StartIteration(p, topics)
    /\ ret' = Answer("OPENED")
    /\ UNCHANGED <<settings, caches>>

OpenReadable(p) ==
    /\ file = None /\ FileAt[p].state = "readable"
    /\ file' = p /\ reader' = p /\ path' = p
    /\ summary' = IF FileAt[p].summary THEN p ELSE None
    /\ classes' = NoCache /\ decoders' = NoCache
    /\ StartIteration(p, topics)
    /\ ret' = Answer("OPENED")
    /\ UNCHANGED <<settings, types>>

Open(p) == \/ OpenAgain(p) \/ OpenMissing(p) \/ OpenDamaged(p) \/ OpenRaises(p)
           \/ OpenReadable(p)

(* Mutant: the peeked result outlives the file.                            *)
CloseKeepsPeeked ==
    /\ file' = None /\ reader' = None /\ path' = None /\ summary' = None
    /\ iterator' = None
    /\ ret' = Answer("CLOSED")
    /\ ForgetHistory
    /\ UNCHANGED <<settings, caches, peeked, exhausted>>

Close ==
    /\ file' = None /\ reader' = None /\ path' = None /\ summary' = None
    /\ iterator' = None /\ peeked' = None /\ exhausted' = FALSE
    /\ ret' = Answer("CLOSED")
    /\ ForgetHistory
    /\ UNCHANGED <<settings, caches>>

SetTopics(ts) ==
    /\ topics' = ts
    /\ StartIteration(reader, ts)
    /\ ret' = Answer("NONE")
    /\ UNCHANGED <<handle, expected, skip, mode, caches>>

(* The other settings take effect without touching the iteration.          *)
SetTopicMessageTypes(e) ==
    /\ expected' = e
    /\ UNCHANGED <<handle, topics, skip, mode, caches, cursor, ret, history>>

(* Mutant: the setting applies at once, by dropping what was peeked.       *)
SetSkipDropsPeeked(b) ==
    /\ skip' = b /\ peeked' = None
    /\ UNCHANGED <<handle, topics, expected, mode, caches, iterator, exhausted, ret, history>>

SetSkipIncompatibleMessages(b) ==
    /\ skip' = b
    /\ UNCHANGED <<handle, topics, expected, mode, caches, cursor, ret, history>>

SetDecoderMode(m) ==
    /\ mode' = m
    /\ UNCHANGED <<handle, topics, expected, skip, caches, cursor, ret, history>>

-----------------------------------------------------------------------------
Delivered(res) == IF res.msg = 0 THEN delivered ELSE Append(delivered, res.msg)

GiveResult(res) ==
    /\ ret' = res
    /\ IF res.status = "RAISED"
         THEN raised' = raised \union {res.msg} /\ UNCHANGED delivered
         ELSE delivered' = Delivered(res) /\ UNCHANGED raised
    /\ UNCHANGED <<peeked, exhausted>>

GivePeek(res) ==
    /\ UNCHANGED delivered
    /\ \/ /\ res.status = "RAISED"
          /\ raised' = raised \union {res.msg}
          /\ ret' = res
          /\ UNCHANGED <<peeked, exhausted>>
       \/ /\ res.status = "EOF"
          /\ exhausted' = TRUE
          /\ ret' = Answer("END")
          /\ UNCHANGED <<peeked, raised>>
       \/ /\ res.status \notin {"RAISED", "EOF"}
          /\ peeked' = res
          /\ ret' = Answer("MORE")
          /\ UNCHANGED <<exhausted, raised>>

(* What is done with the outcome of the loop, in a read or in a peek.      *)
Give(peeking, res) == \/ ~peeking /\ GiveResult(res)
                      \/ peeking /\ GivePeek(res)

(* The loop of read_message, which has_next also runs to peek.             *)

FetchNothing(peeking) ==
    /\ iterator = None
    /\ Give(peeking, Answer("EOF"))
    /\ UNCHANGED <<iterator, caches, skipped>>

(* The iterator belongs to a reader object whose file is closed, or one    *)
(* that looks at the summary of a malformed file again, and fails again.   *)
FetchFromClosed(peeking) ==
    /\ iterator # None /\ ~Readable
    /\ iterator' = None
    /\ Give(peeking, Failure("ERROR", 0, Unknown))
    /\ UNCHANGED <<caches, skipped>>

Passed(i) == skip /\ Incompatible(reader, i)
Stops     == {i \in iterator : ~Passed(i)}

FetchExhausts(peeking) ==
    /\ iterator # None /\ Readable
    /\ Stops = {}
    /\ iterator' = None
    /\ skipped' = skipped \union iterator
    /\ Give(peeking, Answer("EOF"))
    /\ UNCHANGED caches

(* A decoder enters its cache when it is resolved, whether it can decode   *)
(* the message or not; the factory has then remembered its type.           *)
Remember(i) ==
    LET decodes  == ~Broken(reader, i) /\ ~Incompatible(reader, i) /\ ~Raises(reader, i)
        c        == Message(reader, i).channel
        resolves == decodes /\ mode = "mcap-contained" /\ decoders[c] = None
        class    == FactoryClass(reader, i)
    IN
    /\ classes'  = IF decodes /\ mode = "precompiled"
                     THEN [classes EXCEPT ![c] = ClassUsed(reader, i)] ELSE classes
    /\ decoders' = IF resolves THEN [decoders EXCEPT ![c] = class] ELSE decoders
    /\ types'    = IF resolves THEN [types EXCEPT ![SchemaId(reader, i)] = class] ELSE types

(* Mutant: a message that makes the call raise stays first in line.        *)
RestWithRaising(i) ==
    IF Broken(reader, i) THEN None
    ELSE {j \in iterator : Before(reader, i, j) \/ (j = i /\ Raises(reader, i))}

(* What is to come after message i; a stream that broke is given up.       *)
Rest(i) == IF Broken(reader, i) THEN None
           ELSE {j \in iterator : Before(reader, i, j)}

FetchStops(peeking) ==
    /\ iterator # None /\ Readable
    /\ \E i \in Stops :
          /\ IsFirst(reader, i, Stops)
          /\ iterator' = Rest(i)
          /\ skipped' = skipped \union {j \in iterator : Before(reader, j, i)}
          /\ Remember(i)
          /\ \E res \in ResultsOf(reader, i) : Give(peeking, res)

Fetch(peeking) == \/ FetchNothing(peeking) \/ FetchFromClosed(peeking)
                  \/ FetchExhausts(peeking) \/ FetchStops(peeking)

(* read_message()                                                          *)
ReadPeeked ==
    /\ peeked # None
    /\ ret' = peeked
    /\ peeked' = None /\ exhausted' = FALSE
    /\ delivered' = Delivered(peeked)
    /\ UNCHANGED <<handle, settings, caches, iterator, skipped, raised>>

ReadExhausted ==
    /\ peeked = None /\ exhausted
    /\ ret' = Answer("EOF")
    /\ UNCHANGED <<handle, settings, caches, cursor, history>>

(* Mutant: a read does not look for a peeked result.                       *)
ReadOnPastPeeked ==
    /\ ~exhausted
    /\ Fetch(FALSE)
    /\ UNCHANGED <<handle, settings>>

ReadOn ==
    /\ peeked = None /\ ~exhausted
    /\ Fetch(FALSE)
    /\ UNCHANGED <<handle, settings>>

ReadMessage == ReadPeeked \/ ReadExhausted \/ ReadOn

(* has_next()                                                              *)
HasNextKnown ==
    /\ peeked # None \/ exhausted
    /\ ret' = Answer(IF peeked # None THEN "MORE" ELSE "END")
    /\ UNCHANGED <<handle, settings, caches, cursor, history>>

(* Mutant: has_next peeks although a result is waiting.                    *)
HasNextPeeksAgain ==
    /\ ~exhausted
    /\ Fetch(TRUE)
    /\ UNCHANGED <<handle, settings>>

HasNextPeeks ==
    /\ peeked = None /\ ~exhausted
    /\ Fetch(TRUE)
    /\ UNCHANGED <<handle, settings>>

HasNext == HasNextKnown \/ HasNextPeeks

Next ==
    \/ \E p \in Paths : Open(p)
    \/ Close
    \/ \E ts \in SUBSET Topics : SetTopics(ts)
    \/ \E e \in Expectations : SetTopicMessageTypes(e)
    \/ \E b \in BOOLEAN : SetSkipIncompatibleMessages(b)
    \/ \E m \in Modes : SetDecoderMode(m)
    \/ ReadMessage
    \/ HasNext

Spec == Init /\ [][Next]_vars

(* A client reads an open file on and on, as the loops over a reader do,    *)
(* whatever else it calls between the reads.                               *)
FairSpec == Spec /\ WF_vars(file # None /\ ReadMessage)

-----------------------------------------------------------------------------
(* Properties                                                              *)

TypeOK ==
    /\ file \in Paths \union {None} /\ reader \in Paths \union {None}
    /\ path \in Paths \union {None} /\ summary \in Paths \union {None}
    /\ iterator \in {None} \union SUBSET Nat
    /\ topics \in SUBSET Topics
    /\ expected \in [Topics -> MessageTypes \union {None}]
    /\ skip \in BOOLEAN /\ mode \in Modes
    /\ classes \in [ChannelIds -> MessageTypes \union {None}]
    /\ decoders \in [ChannelIds -> MessageTypes \union {None}]
    /\ types \in [SchemaIds -> MessageTypes \union {None}]
    /\ peeked \in Answers \union {None} /\ exhausted \in BOOLEAN
    /\ ret \in Answers
    /\ delivered \in Seq(Nat) /\ skipped \in SUBSET Nat /\ raised \in SUBSET Nat


(* What the caller has, or will get with the next read.                    *)
Pending == IF peeked = None \/ peeked.msg = 0 THEN <<>> ELSE <<peeked.msg>>
Output  == delivered \o Pending
Seen    == {Output[n] : n \in DOMAIN Output}
Left    == IF iterator = None THEN {} ELSE iterator

(* Everything a reader holds belongs to the file that is open: the reader  *)
(* object, the path reported in channel specifications, the summary they   *)
(* are made from and the peeked result.  A reader that is not open, or that*)
(* open() left with an exception, holds no summary and no message (open and*)
(* close of multi.py; a failed open keeps the reader object and the path,  *)
(* so set_topics after it can still make has_next find an error).          *)
BoundToOpenFile ==
    /\ Readable => reader = file /\ summary \in {file, None}
    /\ file # None => path = file
    /\ ~Readable => summary = None
    /\ ~Readable /\ peeked # None => peeked.status = "ERROR" /\ peeked.msg = 0

(* Messages are delivered in the order of the iteration, each at most once,*)
(* however reads and peeks alternate and whatever settings change between  *)
(* them.                                                                   *)
InOrder ==
    Readable => \A m, n \in DOMAIN Output :
                   m < n => Before(file, Output[m], Output[n])

(* No message is lost: every message of the selected topics is still to    *)
(* come, delivered or peeked, was skipped as incompatible, made the call   *)
(* raise, or lies behind a record at which the stream broke; and none is   *)
(* in two of these places.                                                 *)
Accounted ==
    Readable =>
        /\ \A i \in Selected(file, topics) :
              \/ i \in Left \union Seen \union skipped \union raised
              \/ \E b \in Seen : Broken(file, b) /\ Before(file, b, i)
        /\ Left \union Seen \union skipped \union raised \subseteq Selected(file, topics)
        /\ Left \intersect (Seen \union skipped \union raised) = {}
        /\ Seen \intersect (skipped \union raised) = {}
        /\ skipped \intersect raised = {}

(* A message handed out as OK is of the file that is open and is called    *)
(* what its schema there says.  It was decoded with the class of that      *)
(* schema, although classes and decoders are cached by channel id and ids  *)
(* mean something else in the next file - except for a decoder of the      *)
(* factory, which may be that of another file's schema of the same id.  So *)
(* a precompiled class is always right, and a contained one if the files a *)
(* reader opens agree on their schema ids.                                 *)
SchemaElsewhere(p, id, type) ==
    \E q \in Paths \ {p} : \E s \in SchemasIn(q) : s.id = id /\ s.type = type

DecodedBySchema ==
    \A r \in {ret, peeked} \ {None} :
        r.status = "OK" =>
            /\ Readable
            /\ r.msg \in DOMAIN FileAt[file].messages
            /\ r.type = SchemaType(file, r.msg)
            /\ \/ r.as = r.type
               \/ /\ r.by = "mcap-contained"
                  /\ types[SchemaId(file, r.msg)] = r.as
                  /\ SchemaElsewhere(file, SchemaId(file, r.msg), r.as)

(* The reader keeps the contract of base.py: what has_next has announced   *)
(* the next read_message delivers, also when settings change in between,   *)
(* and the end of the file is final until open, close or set_topics.       *)
Outlook == IF peeked # None THEN "MORE"
           ELSE IF exhausted \/ iterator = None THEN "END" ELSE "open"

Contract == INSTANCE TraceReader WITH outlook <- Outlook, last <- ret.status

ContractSpec == Contract!Spec

(* A client that keeps reading an open file comes to its end, unless it    *)
(* closes the file or starts over with set_topics: incompatible messages,  *)
(* undecodable ones, a broken stream, peeks and changes of the other       *)
(* settings never hold it up.                                              *)
Drains == file # None ~> ret.status \in {"EOF", "CLOSED", "NONE"}

(* The docstring of set_decoder_mode: "mcap-contained" decodes by the      *)
(* descriptor sets embedded in the file, so what is handed out as OK has   *)
(* the type its schema names.                                              *)
DecodedAsEmbedded == ret.status = "OK" => ret.as = ret.type

=============================================================================
