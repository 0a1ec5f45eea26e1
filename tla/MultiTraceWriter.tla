-------------------------- MODULE MultiTraceWriter --------------------------
(***************************************************************************)
(* The Python writer of multi-channel MCAP trace files,                    *)
(* python/osi_utilities/tracefile/writers/multi.py, on top of the raw      *)
(* writer of the MCAP library.                                             *)
(*                                                                         *)
(* The library's writer is external: it numbers schemas and channels from  *)
(* 1, takes messages for any channel id without a question, and collects   *)
(* them in chunks, so that an error of the operating system can show in a  *)
(* later call than the one whose data it concerns.                         *)
(***************************************************************************)
EXTENDS Integers, Sequences

CONSTANTS
    MessageTypes,   \* the OSI top-level message types
    None,           \* Python's None; as a topic, the empty string
    Topics,         \* the topics callers name; a type name is a topic as well
    Messages,       \* the messages that are written
    TypeOf,         \* message -> its type
    OsiVersions,    \* values of the channel metadata key osi_version
    Paths,          \* the paths open() is called with
    McapPaths,      \* those with the extension .mcap
    MaxMessages,    \* bound: messages taken by one writer object or counted
    MaxMetadata     \* bound: metadata records taken by one writer object

ASSUME WriterAssumption ==
    /\ TypeOf \in [Messages -> MessageTypes]
    /\ McapPaths \subseteq Paths
    /\ None \notin Topics \union MessageTypes \union Paths
    /\ MaxMessages \in Nat /\ MaxMetadata \in Nat

AllTopics == Topics \union MessageTypes

VARIABLES
    file,            \* _file: the path, or None
    usable,          \* whether that file object is still open
    mcap,            \* _mcap_writer: what it has been given so far, or None
    active_channels, \* _active_channels: topic -> channel id, 0 for none
    schema_cache,    \* _schema_cache: type -> schema id, 0 for none
    written,         \* _written_count
    ret,             \* what the last call answered
    accepted,        \* history: the writes answered with True since open
    stale            \* history: open() met a registry filled for another writer object

registry   == <<active_channels, schema_cache>>
writerVars == <<file, usable, mcap, registry, written, ret, accepted, stale>>

Answers == {"none", "true", "false", "raised", "closed", "close raised"}

(* The records a writer object has been given.                             *)
Schemas  == MessageTypes
Channels == [topic : AllTopics, schema : Nat \ {0}, osi_version : OsiVersions \union {None}]
Mcaps    == [schemas : Seq(Schemas), channels : Seq(Channels),
             messages : Seq([channel : Nat \ {0}, message : Messages]),
             metadata : Nat]

(* A new writer object, once the head of the file is written: the          *)
(* net.asam.osi.trace record is its first metadata record.                 *)
Started == [schemas |-> <<>>, channels |-> <<>>, messages |-> <<>>, metadata |-> 1]

NoChannels == [t \in AllTopics |-> 0]
NoSchemas  == [t \in MessageTypes |-> 0]

WriterInit ==
    /\ file = None /\ usable = FALSE /\ mcap = None
    /\ active_channels = NoChannels /\ schema_cache = NoSchemas
    /\ written = 0 /\ ret = "none" /\ accepted = <<>> /\ stale = FALSE

IsLive == file # None /\ usable

Registered == {t \in AllTopics : active_channels[t] # 0}

-----------------------------------------------------------------------------
(* open(path, metadata, compression, chunk_size)                           *)

(* Already open, wrong extension, bad options, the operating system        *)
(* refuses the file, or the library its options: nothing has changed.      *)
OpenRefused(p) ==
    /\ ret' = "false"
    /\ UNCHANGED <<file, usable, mcap, registry, written, accepted, stale>>

(* open() does not touch the registry: only close() empties it.            *)
OnRegistry == stale' = (stale \/ Registered # {})

OpenStarted(p) ==
    /\ file = None /\ p \in McapPaths
    /\ file' = p /\ usable' = TRUE
    /\ mcap' = Started
    /\ written' = 0
    /\ ret' = "true" /\ accepted' = <<>>
    /\ OnRegistry
    /\ UNCHANGED registry

(* The head cannot be written: the file is closed again, the writer object *)
(* stays.                                                                  *)
OpenStartFails(p) ==
    /\ file = None /\ p \in McapPaths
    /\ mcap' = Started
    /\ ret' = "false" /\ accepted' = <<>>
    /\ OnRegistry
    /\ UNCHANGED <<file, usable, registry, written>>

(* Nor can what is buffered be written when it is closed: the handler      *)
(* itself leaves with an exception.                                        *)
OpenCleanupFails(p) ==
    /\ file = None /\ p \in McapPaths
    /\ file' = p /\ usable' = FALSE
    /\ mcap' = Started
    /\ ret' = "raised" /\ accepted' = <<>>
    /\ OnRegistry
    /\ UNCHANGED <<registry, written>>

Open(p) == OpenRefused(p) \/ OpenStarted(p) \/ OpenStartFails(p) \/ OpenCleanupFails(p)

-----------------------------------------------------------------------------
(* add_channel(topic, message_class, metadata): w is the writer object and *)
(* cache the schema cache before the call, v the version in the metadata.  *)

Schemed(w, cache, type) ==
    IF cache[type] = 0 THEN Append(w.schemas, type) ELSE w.schemas

(* Mutant: the id of a new schema is not kept.                             *)
CacheWithout(w, cache, type) == cache

CacheWith(w, cache, type) ==
    IF cache[type] = 0 THEN [cache EXCEPT ![type] = Len(w.schemas) + 1] ELSE cache

WithChannel(w, cache, topic, type, v) ==
    [w EXCEPT !.schemas = Schemed(w, cache, type),
              !.channels = Append(@, [topic |-> topic,
                                      schema |-> CacheWith(w, cache, type)[type],
                                      osi_version |-> v])]

Register(topic, type, v) ==
    /\ mcap' = WithChannel(mcap, schema_cache, topic, type, v)
    /\ schema_cache' = CacheWith(mcap, schema_cache, type)
    /\ active_channels' = [active_channels EXCEPT ![topic] = Len(mcap.channels) + 1]

AddChannelRaises(topic) ==
    /\ mcap = None \/ active_channels[topic] # 0
    /\ ret' = "raised"
    /\ UNCHANGED <<file, usable, mcap, registry, written, accepted, stale>>

AddChannelRegisters(topic, type, v) ==
    /\ mcap # None /\ active_channels[topic] = 0
    /\ Register(topic, type, v)
    /\ ret' = "true"
    /\ UNCHANGED <<file, usable, written, accepted, stale>>

AddChannel(topic, type, v) == AddChannelRaises(topic) \/ AddChannelRegisters(topic, type, v)

-----------------------------------------------------------------------------
(* write_message(message, topic)                                           *)

(* The topic the message goes to: with no channel registered one is made,  *)
(* named after the type if the caller names none; a single one is the      *)
(* default.                                                                *)
IsTopicFor(m, topic, t) ==
    \/ topic # None /\ t = topic
    \/ topic = None /\ Registered = {} /\ t = TypeOf[m]
    \/ topic = None /\ Registered = {t}

NoTopicFor(m, topic) ==
    /\ Registered # {}
    /\ \/ topic # None /\ topic \notin Registered
       \/ topic = None /\ \A t \in AllTopics : Registered # {t}

WriteRefused(m, topic) ==
    /\ mcap = None \/ NoTopicFor(m, topic)
    /\ ret' = "false"
    /\ UNCHANGED <<file, usable, mcap, registry, written, accepted, stale>>

(* The writer object and the registry once the channel is there.           *)
Prepared(m, t) ==
    IF Registered = {} THEN WithChannel(mcap, schema_cache, t, TypeOf[m], None) ELSE mcap
(* Mutant: the channel registered last is used.                            *)
ChannelForAny(t) == Len(mcap.channels) + (IF Registered = {} THEN 1 ELSE 0)

ChannelFor(t) ==
    IF Registered = {} THEN Len(mcap.channels) + 1 ELSE active_channels[t]

PrepareRegistry(m, t) ==
    IF Registered = {}
      THEN /\ schema_cache' = CacheWith(mcap, schema_cache, TypeOf[m])
           /\ active_channels' = [active_channels EXCEPT ![t] = ChannelFor(t)]
      ELSE UNCHANGED registry

(* add_message of the MCAP library, for channel id c.                      *)
WithMessage(w, c, m) ==
    [w EXCEPT !.messages = Append(@, [channel |-> c, message |-> m])]

Taken(m, t) == WithMessage(Prepared(m, t), ChannelFor(t), m)

MayWrite == /\ mcap # None
            /\ Len(mcap.messages) < MaxMessages /\ written < MaxMessages

WriteTaken(m, topic) ==
    /\ MayWrite /\ ~NoTopicFor(m, topic)
    /\ \E t \in AllTopics :
          /\ IsTopicFor(m, topic, t)
          /\ mcap' = Taken(m, t)
          /\ PrepareRegistry(m, t)
          /\ accepted' = Append(accepted, [topic |-> t, message |-> m,
                                           at |-> Len(mcap.messages) + 1])
    /\ written' = written + 1
    /\ ret' = "true"
    /\ UNCHANGED <<file, usable, stale>>

(* An error of the encoder or of the operating system is answered with     *)
(* False; one the code does not expect (a time stamp that does not fit, a  *)
(* file object that is closed) with an exception.  A chunk that could not  *)
(* be written keeps the message, so it may be taken all the same.          *)
WriteFails(m, topic) ==
    /\ MayWrite /\ ~NoTopicFor(m, topic)
    /\ \E t \in AllTopics :
          /\ IsTopicFor(m, topic, t)
          /\ mcap' \in {Prepared(m, t), Taken(m, t)}
          /\ PrepareRegistry(m, t)
    /\ ret' \in {"false", "raised"}
    /\ UNCHANGED <<file, usable, written, accepted, stale>>

WriteMessage(m, topic) ==
    WriteRefused(m, topic) \/ WriteTaken(m, topic) \/ WriteFails(m, topic)

(* add_file_metadata(name, data): no error of the library is caught.       *)
AddFileMetadata ==
    /\ IF mcap = None
         THEN ret' = "false" /\ UNCHANGED mcap
         ELSE \/ ret' = "raised" /\ UNCHANGED mcap
              \/ /\ mcap.metadata < MaxMetadata
                 /\ ret' \in {"true", "raised"}
                 /\ mcap' = [mcap EXCEPT !.metadata = @ + 1]
    /\ UNCHANGED <<file, usable, registry, written, accepted, stale>>

(* Mutant: the schemas are remembered.                                     *)
CloseKeepsSchemas ==
    /\ file' = None /\ usable' = FALSE /\ mcap' = None
    /\ active_channels' = NoChannels
    /\ ret' = "closed" /\ accepted' = <<>> /\ stale' = FALSE
    /\ UNCHANGED <<schema_cache, written>>

(* close(): finish() cannot complete on a closed file object and may fail  *)
(* on an open one; the reset follows in any case.                          *)
Close ==
    /\ file' = None /\ usable' = FALSE /\ mcap' = None
    /\ active_channels' = NoChannels /\ schema_cache' = NoSchemas
    /\ ret' \in (IF mcap = None \/ IsLive THEN {"closed"} ELSE {})
                \union (IF mcap # None THEN {"close raised"} ELSE {})
    /\ accepted' = <<>> /\ stale' = FALSE
    /\ UNCHANGED written

WriterNext ==
    \/ \E p \in Paths : Open(p)
    \/ \E t \in Topics, type \in MessageTypes, v \in OsiVersions \union {None} :
          AddChannel(t, type, v)
    \/ \E m \in Messages, t \in Topics \union {None} : WriteMessage(m, t)
    \/ AddFileMetadata
    \/ Close

WriterSpec == WriterInit /\ [][WriterNext]_writerVars

-----------------------------------------------------------------------------
(* Properties                                                              *)

WriterTypeOK ==
    /\ file \in Paths \union {None} /\ usable \in BOOLEAN
    /\ mcap \in Mcaps \union {None}
    /\ active_channels \in [AllTopics -> Nat]
    /\ schema_cache \in [MessageTypes -> Nat]
    /\ written \in Nat /\ ret \in Answers
    /\ accepted \in Seq([topic : AllTopics, message : Messages, at : Nat])
    /\ stale \in BOOLEAN

(* The registry of the Python class mirrors that of the MCAP writer: the   *)
(* id kept for a topic is that of a channel with that topic, the id kept   *)
(* for a type that of a schema of that type, no schema is stored twice,    *)
(* and no two channels share a topic - unless open() came upon a registry  *)
(* that was filled after an earlier open() had failed.                     *)
RegistryMirrors ==
    mcap # None /\ ~stale =>
        /\ \A t \in Registered :
              /\ active_channels[t] \in DOMAIN mcap.channels
              /\ mcap.channels[active_channels[t]].topic = t
        /\ \A c \in DOMAIN mcap.channels :
              /\ active_channels[mcap.channels[c].topic] = c
              /\ mcap.channels[c].schema \in DOMAIN mcap.schemas
        /\ \A s \in DOMAIN mcap.schemas : schema_cache[mcap.schemas[s]] = s

(* A message an open writer accepted for a topic is in the file for this   *)
(* call, on a channel with that topic, in the order of the calls, whatever *)
(* failed writes lie between them, and written_count counts them; the one  *)
(* exception is that of RegistryMirrors.                                   *)
AcceptedOnTopic ==
    IsLive /\ ~stale =>
        /\ written = Len(accepted)
        /\ \A n \in DOMAIN accepted :
              LET a == accepted[n] IN
              /\ a.at \in DOMAIN mcap.messages
              /\ mcap.messages[a.at].message = a.message
              /\ mcap.messages[a.at].channel \in DOMAIN mcap.channels
              /\ mcap.channels[mcap.messages[a.at].channel].topic = a.topic
        /\ \A m, n \in DOMAIN accepted : m < n => accepted[m].at < accepted[n].at

=============================================================================
