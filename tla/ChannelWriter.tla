---------------------------- MODULE ChannelWriter ----------------------------
(***************************************************************************)
(* The channel writer of the Python API,                                   *)
(* python/osi_utilities/api/channel_writer.py: one logical channel on top  *)
(* of a trace writer, of MultiTraceWriter for .mcap files and of a single- *)
(* channel writer, of which only success and failure matter here, for      *)
(* .osi and .txth files.                                                   *)
(***************************************************************************)
EXTENDS MultiTraceWriter

CONSTANTS
    VersionOf,      \* message -> the OSI version in it
    Stem            \* path -> the topic made of its file name

ASSUME ChannelAssumption == /\ VersionOf \in [Messages -> OsiVersions]
                            /\ Stem \in [Paths -> AllTopics]
                            /\ None \notin OsiVersions

VARIABLES
    adapter,            \* the kind of writer below: "none", "single" or "mcap"
    message_type,       \* _channel_spec.message_type
    topic,              \* _channel_spec.topic
    osi_version,        \* the OSI version in _channel_metadata, or None
    channel_registered, \* _channel_registered
    single_open,        \* the file object of the single-channel writer: "open",
                        \* "closed", or "broken" once its close has failed
    answered,           \* what the last call of the adapter answered
    configured,         \* history: the message type of the requested spec
    taken               \* history: the messages written with True

adapterVars == <<adapter, message_type, topic, osi_version, channel_registered,
                 single_open, answered, configured, taken>>
vars == <<writerVars, adapterVars>>

Init ==
    /\ WriterInit
    /\ adapter = "none" /\ message_type = None /\ topic = None /\ osi_version = None
    /\ channel_registered = FALSE /\ single_open = "closed"
    /\ answered = "none" /\ configured = None /\ taken = <<>>

-----------------------------------------------------------------------------
(* open_channel_writer, once the adapter opened last is closed, be it in   *)
(* failure.                                                                *)

Idle == file = None /\ mcap = None /\ single_open # "open"

(* The fields of a new adapter, for the spec (type, v) and its topic.      *)
NewAdapter(kind, type, t, v) ==
    /\ adapter' = kind /\ single_open' = IF kind = "single" THEN "open" ELSE "closed"
    /\ message_type' = type /\ configured' = type
    /\ topic' = t /\ osi_version' = v
    /\ channel_registered' = FALSE
    /\ answered' = "true" /\ taken' = <<>>

OpenMcap(p, type, t, v) ==
    /\ Idle
    /\ OpenStarted(p)
    /\ NewAdapter("mcap", type, IF t = None THEN Stem[p] ELSE t, v)

OpenSingle(p, type, t, v) ==
    /\ Idle /\ p \notin McapPaths
    /\ NewAdapter("single", type, t, v)
    /\ UNCHANGED writerVars

(* The writer's open() answers False: RuntimeError, and no adapter.        *)
OpenFails ==
    /\ Idle
    /\ adapter' = "none" /\ single_open' = "closed"
    /\ message_type' = None /\ configured' = None /\ topic' = None
    /\ osi_version' = None /\ channel_registered' = FALSE
    /\ answered' = "raised" /\ taken' = <<>>
    /\ UNCHANGED writerVars

-----------------------------------------------------------------------------
(* write_message(m)                                                        *)

KeepAdapter == UNCHANGED <<adapter, topic, single_open, configured>>

(* Mutant: the type of a message is not compared.                          *)
AnyTypeAccepted(m) == TRUE

(* _ensure_message_type: a type not configured is taken from the message.  *)
TypeAccepted(m) == message_type \in {None, TypeOf[m]}

(* Mutant: the type is taken over before it is compared.                   *)
WriteOtherTypeTaken(m) ==
    /\ adapter # "none" /\ ~TypeAccepted(m)
    /\ message_type' = TypeOf[m]
    /\ answered' = "false"
    /\ KeepAdapter
    /\ UNCHANGED <<osi_version, channel_registered, taken, writerVars>>

WriteOtherType(m) ==
    /\ adapter # "none" /\ ~TypeAccepted(m)
    /\ answered' = "false"
    /\ KeepAdapter
    /\ UNCHANGED <<message_type, osi_version, channel_registered, taken, writerVars>>

(* _ensure_mcap_channel compares the OSI version, or takes it over, as long*)
(* as the channel is not registered.                                       *)
VersionAccepted(m) == osi_version \in {None, VersionOf[m]}

Registering == adapter = "mcap" /\ ~channel_registered

WriteOtherVersion(m) ==
    /\ Registering
    /\ TypeAccepted(m) /\ ~VersionAccepted(m)
    /\ message_type' = TypeOf[m]
    /\ answered' = "false"
    /\ KeepAdapter
    /\ UNCHANGED <<osi_version, channel_registered, taken, writerVars>>

(* add_channel raises: the writer is closed.                               *)
WriteUnregistrable(m) ==
    /\ Registering
    /\ TypeAccepted(m) /\ VersionAccepted(m)
    /\ AddChannelRaises(topic)
    /\ message_type' = TypeOf[m] /\ osi_version' = VersionOf[m]
    /\ answered' = "false"
    /\ KeepAdapter
    /\ UNCHANGED <<channel_registered, taken>>

(* Mutant: the answer of the writer below is ignored.                      *)
HandBlindly(w, c, m) ==
    /\ MayWrite
    /\ mcap' \in {w, WithMessage(w, c, m)}
    /\ ret' = "false" /\ answered' = "true"
    /\ taken' = Append(taken, m)
    /\ UNCHANGED <<written, accepted>>

(* What the MCAP writer below does with the message on channel c of w.     *)
Hand(w, c, m) ==
    /\ MayWrite
    /\ \/ /\ mcap' = WithMessage(w, c, m)
          /\ written' = written + 1
          /\ accepted' = Append(accepted, [topic |-> topic, message |-> m,
                                           at |-> Len(mcap.messages) + 1])
          /\ taken' = Append(taken, m)
          /\ ret' = "true" /\ answered' = "true"
       \/ /\ mcap' \in {w, WithMessage(w, c, m)}
          /\ ret' \in {"false", "raised"} /\ answered' = ret'
          /\ UNCHANGED <<written, accepted, taken>>

WriteRegistering(m) ==
    /\ Registering
    /\ TypeAccepted(m) /\ VersionAccepted(m)
    /\ mcap # None /\ active_channels[topic] = 0
    /\ message_type' = TypeOf[m] /\ osi_version' = VersionOf[m]
    /\ channel_registered' = TRUE
    /\ Hand(WithChannel(mcap, schema_cache, topic, TypeOf[m], VersionOf[m]),
            Len(mcap.channels) + 1, m)
    /\ schema_cache' = CacheWith(mcap, schema_cache, TypeOf[m])
    /\ active_channels' = [active_channels EXCEPT ![topic] = Len(mcap.channels) + 1]
    /\ KeepAdapter
    /\ UNCHANGED <<file, usable, stale>>

WriteRegistered(m) ==
    /\ adapter = "mcap" /\ channel_registered
    /\ TypeAccepted(m)
    /\ message_type' = TypeOf[m]
    /\ \/ /\ WriteRefused(m, topic)
          /\ answered' = "false" /\ UNCHANGED taken
       \/ /\ topic \in Registered
          /\ Hand(mcap, active_channels[topic], m)
          /\ UNCHANGED <<file, usable, registry, stale>>
    /\ KeepAdapter
    /\ UNCHANGED <<osi_version, channel_registered>>

(* The single-channel writer below takes the message, or does not; or it   *)
(* still has the file object whose close failed, and leaves with the       *)
(* ValueError of a write to a closed file.                                 *)
WriteSingle(m) ==
    /\ adapter = "single"
    /\ TypeAccepted(m)
    /\ message_type' = TypeOf[m]
    /\ \/ /\ single_open = "open" /\ Len(taken) < MaxMessages
          /\ taken' = Append(taken, m) /\ answered' = "true"
       \/ single_open # "broken" /\ answered' = "false" /\ UNCHANGED taken
       \/ single_open = "broken" /\ answered' = "raised" /\ UNCHANGED taken
    /\ KeepAdapter
    /\ UNCHANGED <<osi_version, channel_registered, writerVars>>

Write(m) ==
    \/ WriteOtherType(m) \/ WriteOtherVersion(m) \/ WriteUnregistrable(m)
    \/ WriteRegistering(m) \/ WriteRegistered(m) \/ WriteSingle(m)

(* A single-channel writer forgets its file object only after a close that *)
(* did not raise; to close a closed one again never does.                  *)
CloseChannel ==
    /\ adapter # "none"
    /\ IF adapter = "mcap" THEN Close ELSE UNCHANGED writerVars
    /\ \/ single_open' = "closed" /\ answered' = "none"
       \/ single_open = "open" /\ single_open' = "broken" /\ answered' = "raised"
    /\ taken' = <<>>
    /\ UNCHANGED <<adapter, message_type, topic, osi_version, channel_registered, configured>>

Specs == (MessageTypes \union {None}) \X (Topics \union {None})
                                      \X (OsiVersions \union {None})

Next ==
    \/ \E p \in Paths, s \in Specs : OpenMcap(p, s[1], s[2], s[3])
    \/ \E p \in Paths, s \in Specs : OpenSingle(p, s[1], s[2], s[3])
    \/ OpenFails
    \/ \E m \in Messages : Write(m)
    \/ CloseChannel

Spec == Init /\ [][Next]_vars

-----------------------------------------------------------------------------
(* Properties                                                              *)

TypeOK ==
    /\ WriterTypeOK
    /\ adapter \in {"none", "single", "mcap"}
    /\ message_type \in MessageTypes \union {None}
    /\ topic \in AllTopics \union {None}
    /\ osi_version \in OsiVersions \union {None}
    /\ channel_registered \in BOOLEAN /\ single_open \in {"closed", "open", "broken"}
    /\ answered \in Answers /\ configured \in MessageTypes \union {None}
    /\ taken \in Seq(Messages)

(* "Write exactly one logical channel": whatever is handed to the adapter, *)
(* accepted or not, the MCAP file gets at most one channel, on the topic   *)
(* the adapter reports, and every message in it is on that channel and of  *)
(* the type of its schema - which the writer below does not look at.       *)
OneChannel ==
    adapter = "mcap" /\ mcap # None =>
        /\ Len(mcap.channels) <= 1
        /\ \A c \in DOMAIN mcap.channels : mcap.channels[c].topic = topic
        /\ \A n \in DOMAIN mcap.messages :
              LET x == mcap.messages[n] IN
              /\ x.channel \in DOMAIN mcap.channels
              /\ mcap.schemas[mcap.channels[x.channel].schema] = TypeOf[x.message]

(* get_channel_specification reports the type of every message written and *)
(* a configured type throughout; the OSI version it reports is the one in  *)
(* the file.                                                               *)
SpecificationTrue ==
    /\ configured # None => message_type = configured
    /\ \A n \in DOMAIN taken : TypeOf[taken[n]] = message_type
    /\ adapter = "mcap" /\ mcap # None =>
          \A c \in DOMAIN mcap.channels : mcap.channels[c].osi_version = osi_version

(* A message the adapter answered True for is in the file, and those are   *)
(* there in the order of the calls.                                        *)
TakenInFile ==
    adapter = "mcap" /\ mcap # None =>
        /\ Len(accepted) = Len(taken)
        /\ \A n \in DOMAIN taken :
              /\ accepted[n].message = taken[n]
              /\ mcap.messages[accepted[n].at].message = taken[n]
        /\ \A m, n \in DOMAIN accepted : m < n => accepted[m].at < accepted[n].at

=============================================================================
