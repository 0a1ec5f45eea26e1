------------------------- MODULE MCAPTraceFileWriter -------------------------
(***************************************************************************)
(* The C++ writer of MCAP trace files with the channel helper it uses,     *)
(* cpp/src/tracefile/writer/MCAPTraceFileWriter.cpp and                    *)
(* MCAPTraceFileChannel.cpp.                                               *)
(*                                                                         *)
(* The writer of the MCAP library is external: it numbers the schemas and  *)
(* channels of a file from 1, refuses messages while it is not open or for *)
(* ids it has not given out, and forgets all of it when closed.            *)
(***************************************************************************)
EXTENDS MCAPTraceFormat

CONSTANTS
    Messages,       \* the messages that are written
    TypeOf,         \* message -> its type
    MaxMessages,    \* bound: messages in one file
    MaxOpens        \* bound: files opened by one writer object

ASSUME WriterAssumption == /\ TypeOf \in [Messages -> MessageTypes]
                           /\ None \notin Topics \union MessageTypes
                           /\ MaxMessages \in Nat /\ MaxOpens \in Nat

VARIABLES
    is_open,                 \* trace_file_.is_open()
    good,                    \* whether the stream trace_file_ is free of errors
    required_metadata_added, \* required_metadata_added_
    topic_to_channel_id,     \* topic_to_channel_id_, 0 for none
    topic_to_schema_name,    \* topic_to_schema_name_
    schemas,                 \* schemas_: type -> schema id, 0 for none
    mcap,                    \* what mcap_writer_ has been given for its file
    ret,                     \* what the last call answered
    accepted,                \* history: the writes answered with true, per file
    opens,                   \* history: how many files were opened
    premature                \* history: trace metadata was added while closed

channelVars == <<topic_to_channel_id, topic_to_schema_name, schemas>>
writerVars == <<is_open, good, required_metadata_added, channelVars, mcap, ret,
                accepted, opens, premature>>

(* trace has, for each net.asam.osi.trace record, the number of messages   *)
(* that were written before it.                                            *)
Mcaps == [schemas : Seq(MessageTypes),
          channels : Seq([topic : Topics, schema : Nat \ {0}]),
          messages : Seq([channel : Nat, message : Messages]),
          trace : Seq(Nat)]

EmptyFile == [schemas |-> <<>>, channels |-> <<>>, messages |-> <<>>, trace |-> <<>>]

WriterInit ==
    /\ is_open = FALSE /\ good = TRUE
    /\ required_metadata_added = FALSE
    /\ topic_to_channel_id = [t \in Topics |-> 0]
    /\ topic_to_schema_name = [t \in Topics |-> None]
    /\ schemas = [type \in MessageTypes |-> 0]
    /\ mcap = EmptyFile
    /\ ret = "none" /\ accepted = <<>> /\ opens = 0 /\ premature = FALSE

-----------------------------------------------------------------------------
(* Open                                                                    *)

OpenAgain ==
    /\ is_open
    /\ ret' = "false"
    /\ UNCHANGED <<is_open, good, required_metadata_added, channelVars, mcap,
                   accepted, opens, premature>>

OpenFails ==
    /\ ~is_open
    /\ good' = FALSE
    /\ ret' = "false"
    /\ UNCHANGED <<is_open, required_metadata_added, channelVars, mcap,
                   accepted, opens, premature>>

OpenSucceeds ==
    /\ ~is_open /\ opens < MaxOpens
    /\ is_open' = TRUE /\ good' = TRUE
    /\ ret' = "true" /\ opens' = opens + 1
    /\ UNCHANGED <<required_metadata_added, channelVars, mcap, accepted, premature>>

Open == OpenAgain \/ OpenFails \/ OpenSucceeds

(* Close() and the destructor.                                             *)
Close ==
    /\ is_open' = FALSE
    /\ mcap' = IF is_open THEN EmptyFile ELSE mcap
    /\ ret' = "none" /\ accepted' = <<>>
    /\ UNCHANGED <<good, required_metadata_added, channelVars, opens, premature>>

-----------------------------------------------------------------------------
(* AddFileMetadata: kind says whether the record is net.asam.osi.trace and *)
(* has all its required fields.                                            *)

WithTrace(w) == [w EXCEPT !.trace = Append(@, Len(w.messages))]

AddRefused(kind) ==
    /\ kind # "other"
    /\ required_metadata_added \/ kind = "incomplete"
    /\ ret' = "false"
    /\ UNCHANGED <<is_open, good, required_metadata_added, channelVars, mcap,
                   accepted, opens, premature>>

AddTrace(kind) ==
    /\ kind = "complete" /\ ~required_metadata_added
    /\ required_metadata_added' = TRUE
    /\ mcap' = IF is_open THEN WithTrace(mcap) ELSE mcap
    /\ premature' = (premature \/ ~is_open)
    /\ ret' = IF is_open THEN "true" ELSE "false"
    /\ UNCHANGED <<is_open, good, channelVars, accepted, opens>>

AddOther(kind) ==
    /\ kind = "other"
    /\ ret' = IF is_open THEN "true" ELSE "false"
    /\ UNCHANGED <<is_open, good, required_metadata_added, channelVars, mcap,
                   accepted, opens, premature>>

AddFileMetadata(kind) == AddRefused(kind) \/ AddTrace(kind) \/ AddOther(kind)

-----------------------------------------------------------------------------
(* AddChannel: w is the file before the call.                              *)

(* Mutant: the id is taken from the schema before the library has set it.  *)
SchemaIdUnset(w, type) == schemas[type]

SchemaId(w, type) == IF schemas[type] = 0 THEN Len(w.schemas) + 1 ELSE schemas[type]

WithChannel(w, topic, type) ==
    [w EXCEPT !.schemas = IF schemas[type] = 0 THEN Append(@, type) ELSE @,
              !.channels = Append(@, [topic |-> topic, schema |-> SchemaId(w, type)])]

Register(w, topic, type) ==
    /\ schemas' = [schemas EXCEPT ![type] = SchemaId(w, type)]
    /\ topic_to_channel_id' = [topic_to_channel_id EXCEPT ![topic] = Len(w.channels) + 1]
    /\ topic_to_schema_name' = [topic_to_schema_name EXCEPT ![topic] = type]

AddKnownChannel(topic, type) ==
    /\ topic_to_channel_id[topic] # 0
    /\ ret' = IF topic_to_schema_name[topic] = type THEN "true" ELSE "thrown"
    /\ UNCHANGED <<is_open, good, required_metadata_added, channelVars, mcap,
                   accepted, opens, premature>>

(* Mutant: a topic is registered again.                                    *)
AddNewChannelAgain(topic, type) ==
    /\ Register(mcap, topic, type)
    /\ mcap' = WithChannel(mcap, topic, type)
    /\ ret' = "true"
    /\ UNCHANGED <<is_open, good, required_metadata_added, accepted, opens, premature>>

AddNewChannel(topic, type) ==
    /\ topic_to_channel_id[topic] = 0
    /\ Register(mcap, topic, type)
    /\ mcap' = WithChannel(mcap, topic, type)
    /\ ret' = "true"
    /\ UNCHANGED <<is_open, good, required_metadata_added, accepted, opens, premature>>

AddChannel(topic, type) == AddKnownChannel(topic, type) \/ AddNewChannel(topic, type)

-----------------------------------------------------------------------------
(* WriteMessage                                                            *)

(* The library takes the message on channel id c; the stream may fail under*)
(* it, which only the next call notices.                                   *)
Take(w, c, m, topic) ==
    /\ c \in DOMAIN w.channels /\ w.channels[c].schema \in DOMAIN w.schemas
    /\ Len(w.messages) < MaxMessages
    /\ mcap' = [w EXCEPT !.messages = Append(@, [channel |-> c, message |-> m])]
    /\ accepted' = Append(accepted, [topic |-> topic, message |-> m,
                                     at |-> Len(w.messages) + 1])
    /\ ret' = "true"
    /\ good' \in BOOLEAN

(* Serialization fails, the time stamp is out of range, or the library does*)
(* not know the channel.                                                   *)
Decline(w) == mcap' = w /\ ret' = "false" /\ UNCHANGED <<accepted, good>>

WriteClosed ==
    /\ ~(is_open /\ good)
    /\ ret' = "false"
    /\ UNCHANGED <<is_open, good, required_metadata_added, channelVars, mcap,
                   accepted, opens, premature>>

(* The type-erased overload adds what is missing: metadata, then channel.  *)
WithRequired == IF required_metadata_added THEN mcap ELSE WithTrace(mcap)

WriteUntitled ==
    /\ is_open /\ good
    /\ required_metadata_added' = TRUE
    /\ Decline(WithRequired)
    /\ UNCHANGED <<is_open, channelVars, opens, premature>>

WriteNewTopic(m, topic) ==
    /\ is_open /\ good /\ topic_to_channel_id[topic] = 0
    /\ required_metadata_added' = TRUE
    /\ LET w == WithRequired IN
       /\ Register(w, topic, TypeOf[m])
       /\ \/ Take(WithChannel(w, topic, TypeOf[m]), Len(w.channels) + 1, m, topic)
          \/ Decline(WithChannel(w, topic, TypeOf[m]))
    /\ UNCHANGED <<is_open, opens, premature>>

WriteKnownTopic(m, topic) ==
    /\ is_open /\ good /\ topic_to_channel_id[topic] # 0
    /\ required_metadata_added' = TRUE
    /\ \/ Take(WithRequired, topic_to_channel_id[topic], m, topic)
       \/ Decline(WithRequired)
    /\ UNCHANGED <<is_open, channelVars, opens, premature>>

(* The typed overload insists on both.                                     *)
WriteTyped(m, topic) ==
    /\ is_open /\ good
    /\ \/ /\ required_metadata_added /\ topic # None
          /\ topic_to_channel_id[topic] # 0
          /\ Take(mcap, topic_to_channel_id[topic], m, topic)
       \/ Decline(mcap)
    /\ UNCHANGED <<is_open, required_metadata_added, channelVars, opens, premature>>

WriterNext ==
    \/ Open \/ Close
    \/ \E kind \in {"complete", "incomplete", "other"} : AddFileMetadata(kind)
    \/ \E topic \in Topics, type \in MessageTypes : AddChannel(topic, type)
    \/ WriteClosed \/ WriteUntitled
    \/ \E m \in Messages, topic \in Topics :
          WriteNewTopic(m, topic) \/ WriteKnownTopic(m, topic)
    \/ \E m \in Messages, topic \in Topics \union {None} : WriteTyped(m, topic)

-----------------------------------------------------------------------------
(* Properties                                                              *)

WriterTypeOK ==
    /\ is_open \in BOOLEAN /\ good \in BOOLEAN
    /\ required_metadata_added \in BOOLEAN
    /\ topic_to_channel_id \in [Topics -> Nat]
    /\ topic_to_schema_name \in [Topics -> MessageTypes \union {None}]
    /\ schemas \in [MessageTypes -> Nat]
    /\ mcap \in Mcaps
    /\ ret \in {"none", "true", "false", "thrown"}
    /\ accepted \in Seq([topic : Topics, message : Messages, at : Nat])
    /\ opens \in Nat /\ premature \in BOOLEAN

(* WriteMessage is documented to add the required file metadata on first   *)
(* write if it was not set before: so a file with messages has it, a second*)
(* file of the same writer object included.                                *)
EveryFileMetadata == ~premature /\ mcap.messages # <<>> => mcap.trace # <<>>

=============================================================================
