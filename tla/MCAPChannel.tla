----------------------------- MODULE MCAPChannel -----------------------------
(***************************************************************************)
(* The MCAP channel helper of the Python API,                              *)
(* python/osi_utilities/tracefile/mcap_channel.py: it writes OSI channels  *)
(* to a writer of the MCAP library that its caller owns, and several of    *)
(* them may share one.  Each keeps a registry of its own, while the writer *)
(* numbers the schemas and channels of all of them together.               *)
(*                                                                         *)
(* The process runs either the channel writer or helpers on a raw writer;  *)
(* mcap is that writer in both cases.                                      *)
(***************************************************************************)
EXTENDS ChannelWriter, FiniteSets

CONSTANTS
    Helpers,        \* the MCAPChannel objects on the writer
    HelperTopics,   \* the topics their callers name
    MaxHelped       \* bound: messages they add to the writer

ASSUME HelperAssumption == HelperTopics \subseteq AllTopics /\ MaxHelped \in Nat

VARIABLES
    helping,        \* whether the process runs helpers
    channels,       \* helper -> its _channels
    schemas         \* helper -> its _schema_cache

helperVars == <<helping, channels, schemas>>

HelperInit ==
    /\ Init
    /\ helping = FALSE
    /\ channels = [h \in Helpers |-> NoChannels]
    /\ schemas = [h \in Helpers |-> NoSchemas]

(* The caller starts a writer of the library and makes the helpers.        *)
StartHelping ==
    /\ ~helping /\ adapter = "none" /\ ret = "none" /\ answered = "none"
    /\ helping' = TRUE
    /\ mcap' = [Started EXCEPT !.metadata = 0]
    /\ UNCHANGED <<channels, schemas, file, usable, registry, written, ret, accepted,
                   stale, adapterVars>>

KeepOthers == UNCHANGED <<helping, file, usable, registry, written, stale, adapterVars>>

(* add_channel(topic, message_class, metadata)                             *)
HelperAddRaises(h, t) ==
    /\ helping /\ channels[h][t] # 0
    /\ ret' = "raised"
    /\ UNCHANGED <<mcap, channels, schemas, accepted>> /\ KeepOthers

HelperAdds(h, t, type) ==
    /\ helping /\ channels[h][t] = 0
    /\ mcap' = WithChannel(mcap, schemas[h], t, type, None)
    /\ channels' = [channels EXCEPT ![h][t] = Len(mcap.channels) + 1]
    /\ schemas' = [schemas EXCEPT ![h] = CacheWith(mcap, schemas[h], type)]
    /\ ret' = "true"
    /\ UNCHANGED accepted /\ KeepOthers

(* write_message(message, topic)                                           *)
HelperRefuses(h, t) ==
    /\ helping /\ channels[h][t] = 0
    /\ ret' = "false"
    /\ UNCHANGED <<mcap, channels, schemas, accepted>> /\ KeepOthers

(* Mutant: the number of a topic in the registry of the helper is taken    *)
(* for the channel id.                                                     *)
HelperChannelByCount(h, t) == Cardinality({u \in AllTopics : channels[h][u] \in 1..channels[h][t]})

HelperChannel(h, t) == channels[h][t]

HelperWrites(h, m, t) ==
    /\ helping /\ channels[h][t] # 0 /\ Len(mcap.messages) < MaxHelped
    /\ mcap' = WithMessage(mcap, HelperChannel(h, t), m)
    /\ accepted' = Append(accepted, [topic |-> t, message |-> m,
                                     at |-> Len(mcap.messages) + 1])
    /\ ret' = "true"
    /\ UNCHANGED <<channels, schemas>> /\ KeepOthers

(* As for MultiTraceWriter, a message of a failed write may be taken.      *)
HelperFails(h, m, t) ==
    /\ helping /\ channels[h][t] # 0 /\ Len(mcap.messages) < MaxHelped
    /\ mcap' \in {mcap, WithMessage(mcap, HelperChannel(h, t), m)}
    /\ ret' \in {"false", "raised"}
    /\ UNCHANGED <<channels, schemas, accepted>> /\ KeepOthers

Help ==
    \E h \in Helpers, t \in HelperTopics :
        \/ HelperAddRaises(h, t) \/ HelperRefuses(h, t)
        \/ \E type \in MessageTypes : HelperAdds(h, t, type)
        \/ \E m \in Messages : HelperWrites(h, m, t) \/ HelperFails(h, m, t)

HelperNext ==
    \/ StartHelping
    \/ Help
    \/ ~helping /\ Next /\ UNCHANGED helperVars

HelperSpec == HelperInit /\ [][HelperNext]_<<vars, helperVars>>

-----------------------------------------------------------------------------
(* Properties                                                              *)

(* Helpers that share a writer stay out of each other's channels: the ids  *)
(* a helper keeps are those of channels with its topic and of schemas of   *)
(* the type, no id is kept by two of them although they name the same      *)
(* topics and types, and a message one of them accepted is in the file, on *)
(* a channel of the topic it was given, in the order of the calls.         *)
HelpersApart ==
    helping =>
        /\ \A h \in Helpers, t \in AllTopics : channels[h][t] # 0 =>
              /\ channels[h][t] \in DOMAIN mcap.channels
              /\ mcap.channels[channels[h][t]].topic = t
              /\ \A g \in Helpers, u \in AllTopics :
                    channels[g][u] = channels[h][t] => g = h /\ u = t
        /\ \A h \in Helpers, type \in MessageTypes : schemas[h][type] # 0 =>
              mcap.schemas[schemas[h][type]] = type
        /\ \A n \in DOMAIN accepted :
              LET a == accepted[n] IN
              /\ mcap.messages[a.at].message = a.message
              /\ mcap.channels[mcap.messages[a.at].channel].topic = a.topic
        /\ \A m, n \in DOMAIN accepted : m < n => accepted[m].at < accepted[n].at

=============================================================================
