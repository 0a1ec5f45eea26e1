---------------------------- MODULE ChannelReader ----------------------------
(***************************************************************************)
(* The channel reader of the Python API,                                   *)
(* python/osi_utilities/api/channel_reader.py: open_channel resolves a     *)
(* requested channel specification.  In an MCAP file it looks for a        *)
(* channel that fits and narrows a MultiTraceReader to its topic; a single-*)
(* channel file is one channel, whose type its name may tell.  The adapter *)
(* it returns reads from that reader.                                      *)
(*                                                                         *)
(* open_channel is a sequence of calls of the reader, each with its own    *)
(* way to fail, so it is one action per call; nothing comes between them.  *)
(* A client that reads several channels of one file through one reader,    *)
(* configured with configure_reader_for_channels, is here as well.         *)
(***************************************************************************)
EXTENDS Configure

CONSTANT Wants  \* the sets of specifications asked for together

ASSUME WantsAssumption == /\ Wants \subseteq (SUBSET Requests) \ {{}}
                          /\ \A specs \in Wants : IsFiniteSet(specs)

VARIABLES
    step,       \* the call made next; "idle", "ready" or "several" outside
    asked,      \* channel_spec, as requested of open_channel last
    wanted,     \* channel_specs, as requested of one reader last
    spec,       \* _channel_spec of the adapter, or None if there is none
    answer      \* what the last call of open_channel or the adapter came to

request     == <<asked, wanted>>
channelVars == <<step, request, spec, answer>>
readerVars  == <<vars, single>>
allVars     == <<readerVars, channelVars>>

Resolved == [path : Paths, topic : Topics \union {None}, type : MessageTypes]

ASSUME ResolvedAssumption == None \notin Resolved

ChannelInit ==
    /\ Init /\ skip = TRUE /\ mode = "precompiled"
    /\ single = None
    /\ step = "idle" /\ asked = None /\ wanted = {} /\ spec = None /\ answer = "none"

-----------------------------------------------------------------------------
(* open_channel, once the channel opened last is closed.                   *)

Fail(error) == step' = "idle" /\ answer' = error /\ spec' = None
Go(to)      == step' = to /\ UNCHANGED <<spec, answer>>

(* open() of the MCAP reader is called outside of any try: an exception it *)
(* leaves with goes on to the caller.                                      *)
AfterOpen(to) ==
    \/ ret'.status = "OPENED"      /\ Go(to)
    \/ ret'.status = "REFUSED"     /\ Fail("RuntimeError")
    \/ ret'.status = "OPEN RAISED" /\ Fail("Raised")

(* A caller that holds a reader closes it before it starts again; a call   *)
(* that failed has left it none to close.                                  *)
Startable == \/ step = "idle"
             \/ step \in {"ready", "several"} /\ NothingOpen

Request(s) == asked' = s /\ wanted' = {}

OpenChannelMissing(s) ==
    /\ Startable /\ ~Present(s.path)
    /\ Request(s)
    /\ Fail("FileNotFoundError")
    /\ UNCHANGED readerVars

OpenChannelUnsupported(s) ==
    /\ Startable /\ Present(s.path)
    /\ \/ Format(s.path) = "unsupported"
       \/ Format(s.path) = "single" /\ s.type = Unknown
    /\ Request(s)
    /\ Fail("ValueError")
    /\ UNCHANGED readerVars

OpenChannel(s) ==
    /\ Startable /\ Present(s.path) /\ Format(s.path) = "multi"
    /\ Request(s) /\ spec' = None /\ answer' = "none" /\ step' = "topics"
    /\ CreateReader(s.path)

(* A single-channel file.  The type asked for, or else the one its name    *)
(* tells, is given to the reader and comes to be part of the specification.*)
TypeFor(s) == IF s.type = None THEN Autodetected(NameOf[s.path]) ELSE s.type

OpenSingle(s) ==
    /\ Startable /\ Present(s.path) /\ Format(s.path) = "single" /\ s.type # Unknown
    /\ Request(s) /\ spec' = None /\ answer' = "none" /\ step' = "type"
    /\ CreateReader(s.path)

ConfigureSingle ==
    /\ step = "type"
    /\ IF Concrete(TypeFor(asked)) THEN ReadsAs(TypeFor(asked)) ELSE UNCHANGED single
    /\ Go("single")
    /\ UNCHANGED <<vars, request>>

(* open() refuses, or leaves with an exception: no file stays open then.   *)
SingleFails(p) ==
    /\ SingleOpenFails(p)
    /\ \E error \in {"RuntimeError", "Raised"} : Fail(error)

OpenSingleFails ==
    /\ step = "single"
    /\ SingleFails(asked.path)
    /\ UNCHANGED <<vars, request>>

OpenSingleSucceeds ==
    /\ step = "single"
    /\ SingleOpens(asked.path)
    /\ spec' = [path |-> asked.path, topic |-> asked.topic, type |-> TypeFor(asked)]
    /\ step' = "ready" /\ answer' = "OPENED"
    /\ UNCHANGED <<vars, request>>

(* configure_reader                                                        *)
ConfigureTopics ==
    /\ step = "topics"
    /\ IF asked.topic = None THEN UNCHANGED vars ELSE SetTopics({asked.topic})
    /\ Go("types") /\ UNCHANGED <<single, request>>

ConfigureTypes ==
    /\ step = "types"
    /\ \/ /\ asked.topic = None \/ asked.type = None
          /\ UNCHANGED vars
          /\ Go("open")
       \/ /\ asked.topic # None /\ asked.type = Unknown
          /\ UNCHANGED vars
          /\ Fail("ValueError")
       \/ /\ asked.topic # None /\ asked.type \in MessageTypes
          /\ SetTopicMessageTypes([NoExpectations EXCEPT ![asked.topic] = asked.type])
          /\ Go("open")
    /\ UNCHANGED <<single, request>>

OpenReader ==
    /\ step = "open"
    /\ Open(asked.path)
    /\ AfterOpen("narrow")
    /\ UNCHANGED <<single, request>>

(* get_available_topics and get_channel_specification look at the summary; *)
(* the channel that comes first in it, on the topic asked for if any,      *)
(* decides.  The order of a summary is left open.                          *)
Available  == IF summary = None THEN {}
              ELSE {FileAt[summary].channels[c] : c \in ChannelIds} \ {None}
Candidates == {c \in Available : asked.topic \in {None, c.topic}}

(* Mutant: a schema that names no OSI message will do.                     *)
SuitsUnknown(c) == c.schema # None /\ asked.type \in {None, c.schema.type}

Suits(c) == /\ c.schema # None /\ c.schema.type # Unknown
            /\ asked.type \in {None, c.schema.type}

(* Mutant: the reader is not closed when narrowing fails.                  *)
NarrowFailsOpen ==
    /\ step = "narrow"
    /\ Candidates = {} \/ \E c \in Candidates : ~Suits(c)
    /\ Fail("ValueError")
    /\ UNCHANGED <<readerVars, request>>

NarrowFails ==
    /\ step = "narrow"
    /\ Candidates = {} \/ \E c \in Candidates : ~Suits(c)
    /\ Close
    /\ Fail("ValueError")
    /\ UNCHANGED <<single, request>>

Resolve(c) == spec' = [path |-> path, topic |-> c.topic, type |-> c.schema.type]

(* Mutant: the reader is left with the topics it was configured with.      *)
NarrowNot ==
    /\ step = "narrow"
    /\ \E c \in Candidates : Suits(c) /\ Resolve(c)
    /\ step' = "ready" /\ answer' = "OPENED"
    /\ UNCHANGED <<readerVars, request>>

Narrow ==
    /\ step = "narrow"
    /\ \E c \in Candidates : Suits(c) /\ SetTopics({c.topic}) /\ Resolve(c)
    /\ step' = "ready" /\ answer' = "OPENED"
    /\ UNCHANGED <<single, request>>

-----------------------------------------------------------------------------
(* The adapter: read_result, the strict read_message, and close.           *)

KeepChannel == UNCHANGED <<step, request, spec>>

ReadResult ==
    /\ step = "ready"
    /\ \E status \in {"OK", "INCOMPATIBLE", "ERROR", "EOF"} :
          ReadWith(status) /\ answer' = status
    /\ KeepChannel

(* Mutant: a message that cannot be read passes for the end of the file.   *)
StrictEndsAtError(status) == IF status = "OK" THEN "OK" ELSE "EOF"

Strict(status) == CASE status = "INCOMPATIBLE" -> "ValueError"
                    [] status = "ERROR"        -> "RuntimeError"
                    [] OTHER                   -> status

ReadStrict ==
    /\ step = "ready"
    /\ \E status \in {"OK", "INCOMPATIBLE", "ERROR", "EOF"} :
          ReadWith(status) /\ answer' = Strict(status)
    /\ KeepChannel

CloseChannel ==
    /\ step = "ready"
    /\ CloseReader
    /\ answer' = "CLOSED"
    /\ KeepChannel

-----------------------------------------------------------------------------
(* Several channels through one reader: the caller makes it, configures it *)
(* for them, opens it and reads from it directly.                          *)

WantSeveral(specs) ==
    /\ Startable
    /\ \E s \in specs : Format(s.path) # "unsupported" /\ CreateReader(s.path)
    /\ asked' = None /\ wanted' = specs
    /\ spec' = None /\ answer' = "none" /\ step' = "configure"

ConfigureSeveral ==
    /\ step = "configure"
    /\ IF Unfit(wanted)
         THEN Fail("ValueError") /\ UNCHANGED readerVars
         ELSE Go("open several") /\ ConfigureFor(wanted)
    /\ UNCHANGED request

OpenSeveral ==
    /\ step = "open several"
    /\ \E s \in wanted :
          \/ /\ single = None
             /\ Open(s.path) /\ UNCHANGED single
             /\ \/ ret'.status = "OPENED" /\ Go("several")
                \/ ret'.status = "REFUSED" /\ Fail("RuntimeError")
                \/ /\ ret'.status = "OPEN RAISED"
                   /\ step' = "several" /\ answer' = "Raised" /\ UNCHANGED spec
          \/ /\ single # None
             /\ SingleFails(s.path) /\ UNCHANGED vars
          \/ /\ single # None
             /\ SingleOpens(s.path) /\ UNCHANGED vars /\ Go("several")
    /\ UNCHANGED request

ReadSeveral ==
    /\ step = "several"
    /\ \E status \in {"OK", "INCOMPATIBLE", "ERROR", "EOF"} :
          ReadWith(status) /\ answer' = status
    /\ KeepChannel

CloseSeveral ==
    /\ step = "several"
    /\ CloseReader
    /\ answer' = "CLOSED"
    /\ KeepChannel

ChannelNext ==
    \/ \E s \in Requests : \/ OpenChannelMissing(s) \/ OpenChannelUnsupported(s)
                           \/ OpenChannel(s) \/ OpenSingle(s)
    \/ ConfigureSingle \/ OpenSingleFails \/ OpenSingleSucceeds
    \/ ConfigureTopics \/ ConfigureTypes \/ OpenReader
    \/ NarrowFails \/ Narrow
    \/ ReadResult \/ ReadStrict \/ CloseChannel
    \/ \E specs \in Wants : WantSeveral(specs)
    \/ ConfigureSeveral \/ OpenSeveral \/ ReadSeveral \/ CloseSeveral

ChannelSpec == ChannelInit /\ [][ChannelNext]_allVars

-----------------------------------------------------------------------------
(* Properties                                                              *)

ChannelTypeOK ==
    /\ TypeOK
    /\ single \in SingleReaders \union {None} /\ (single # None => file = None)
    /\ step \in {"idle", "type", "single", "topics", "types", "open", "narrow", "ready",
                "configure", "open several", "several"}
    /\ asked \in Requests \union {None} /\ wanted \in Wants \union {{}}
    /\ spec \in Resolved \union {None} /\ (spec # None <=> step = "ready")
    /\ answer \in {"none", "OPENED", "CLOSED", "OK", "INCOMPATIBLE", "ERROR", "EOF",
                   "FileNotFoundError", "ValueError", "RuntimeError", "Raised"}

(* open_channel and convert_gt2sv open the file before they know whether   *)
(* they can serve the request.  Whichever of their calls fails from there  *)
(* on, no file stays open that nobody could close any more.  Of open()     *)
(* itself that is true of every refusal, and not of an exception: it then  *)
(* keeps the file, and its reader object is lost with the caller's call.   *)
(* So a file left open is one the library failed over in a way that open() *)
(* does not catch.                                                         *)
NoOrphanedFile ==
    step = "idle" => NothingOpen \/ (file # None /\ FileAt[file].state = "malformed")

(* get_channel_specification of the adapter agrees with all that was asked *)
(* for, and with the file: in an MCAP file it describes a channel that is  *)
(* there, elsewhere it names the type the reader decodes with - and that   *)
(* is the one at its place in the name, if nothing was asked for and the   *)
(* name follows the convention.                                            *)
ResolvedAsAsked ==
    step = "ready" =>
        /\ spec.path = asked.path
        /\ asked.topic \in {None, spec.topic} /\ asked.type \in {None, spec.type}
        /\ single = None =>
              \E c \in ChannelIds : LET ch == FileAt[spec.path].channels[c] IN
                 ch # None /\ ch.topic = spec.topic /\ ch.schema # None
                           /\ ch.schema.type = spec.type
        /\ single # None =>
              /\ single.type = spec.type
              /\ asked.type = None /\ Conventional(NameOf[spec.path])
                    => CodeType[NameOf[spec.path].parts[2]] = spec.type

(* "Read exactly one logical OSI channel": what the adapter hands out is on *)
(* the topic it reports, in a file with several; and when topic and type   *)
(* were asked for, also of that type, in a file where channels of several  *)
(* types share the topic.                                                  *)
OnlyItsChannel ==
    step = "ready" /\ Readable =>
        \A n \in DOMAIN Output :
            /\ ChannelOf(file, Output[n]).topic = spec.topic
            /\ asked.topic # None /\ asked.type # None /\ ~Broken(file, Output[n])
                  => SchemaType(file, Output[n]) = spec.type

(* None of its messages is withheld, although the reader underneath skips  *)
(* in silence what does not match: when a read, strict or not, reports the *)
(* end, every message of the reported topic and type was handed out, or    *)
(* lies behind a record at which the stream broke.                         *)
AllOfItsChannel ==
    step = "ready" /\ Readable /\ answer = "EOF" =>
        \A i \in Selected(file, {spec.topic}) :
            \/ Incompatible(file, i) \/ SchemaType(file, i) # spec.type
            \/ i \in Seen
            \/ \E b \in Seen : Broken(file, b) /\ Before(file, b, i)

(* A reader configured for several channels hands out nothing that none of *)
(* them asked for, and nothing that contradicts one of them: specifications*)
(* that disagree about a topic, or about the type of a single-channel file,*)
(* never lead to an open reader.                                           *)
OnlyTheirChannels ==
    step = "several" =>
        /\ Readable => \A n \in DOMAIN Output :
              LET topic == ChannelOf(file, Output[n]).topic IN
              /\ TopicsOf(wanted) # {} => topic \in TopicsOf(wanted)
              /\ ~Broken(file, Output[n]) => \A type \in TypesOn(wanted, topic) :
                    SchemaType(file, Output[n]) = type
        /\ file # None => \A s \in wanted : s.path = file
        /\ single # None => TypesOf(wanted) \subseteq {single.type}

=============================================================================
