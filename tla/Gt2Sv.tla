-------------------------------- MODULE Gt2Sv --------------------------------
(***************************************************************************)
(* The converter of ground truth traces into sensor view traces,           *)
(* convert_gt2sv of python/osi_utilities/converters/gt2sv.py: a second     *)
(* client of the readers, which hands what it reads to a writer.           *)
(*                                                                         *)
(* The process runs either the clients of ChannelReader or conversions.    *)
(* The writers are modelled in modules of their own; here an operation of  *)
(* a writer succeeds or fails.  One action per call of reader or writer.   *)
(***************************************************************************)
EXTENDS ChannelReader

CONSTANTS
    ConvertedType,  \* MessageType.GROUND_TRUTH
    OutputNames     \* the file names of outputs; never that of the input

ASSUME ConvertAssumption ==
    /\ ConvertedType \in MessageTypes
    /\ OutputNames \subseteq [parts : Seq(DOMAIN Lower) \ {<<>>}, ext : DOMAIN Lower]

VARIABLES
    converting,     \* whether the process runs conversions
    output_name,    \* output_path
    output,         \* the output: "none", "open", "abandoned" while open,
                    \* "closed", or "short" where closing could not write it all
    converted       \* history: the messages whose sensor view was written

convertVars == <<converting, output_name, output, converted>>

\* frame_count is the length of converted.
ConvertInit ==
    /\ ChannelInit
    /\ converting \in BOOLEAN
    /\ output_name = None /\ output = "none" /\ converted = <<>>

-----------------------------------------------------------------------------
(* The input: a reader of that type, on the topic if one is given.         *)

Start(s, name) ==
    /\ Startable
    /\ Request(s)
    /\ output_name' = name /\ output' = "none" /\ converted' = <<>>

ConvertRefused(s, name) ==
    /\ Start(s, name)
    /\ \/ ~Present(s.path) /\ Fail("FileNotFoundError")
       \/ Present(s.path) /\ Format(s.path) = "unsupported" /\ Fail("ValueError")
    /\ UNCHANGED readerVars

ConvertStarts(s, name) ==
    /\ Present(s.path) /\ Format(s.path) # "unsupported"
    /\ Start(s, name)
    /\ CreateReader(s.path)
    /\ step' = (IF Format(s.path) = "single" THEN "type" ELSE "topics")
    /\ spec' = None /\ answer' = "none"

(* create_reader and configure_reader are those of open_channel.           *)
ConfigureInput ==
    /\ ConfigureSingle \/ ConfigureTopics \/ ConfigureTypes
    /\ UNCHANGED <<output_name, output, converted>>

OpenInput ==
    /\ \/ /\ step = "open"
          /\ Open(asked.path) /\ UNCHANGED single
          /\ AfterOpen("output")
       \/ /\ step = "single"
          /\ SingleFails(asked.path) /\ UNCHANGED vars
       \/ /\ step = "single"
          /\ SingleOpens(asked.path) /\ UNCHANGED vars /\ Go("output")
    /\ UNCHANGED <<request, output_name, output, converted>>

-----------------------------------------------------------------------------
(* The output, chosen by the extension; the binary writer takes .osi only. *)

Writable == \/ FormatOf(output_name) = "multi"
            \/ Lower[output_name.ext] = ".osi"

OutputFails ==
    /\ step = "output"
    /\ CloseReader
    /\ IF FormatOf(output_name) = "unsupported" THEN Fail("ValueError")
                                                ELSE Fail("RuntimeError")
    /\ UNCHANGED <<request, output_name, output, converted>>

(* add_channel leaves with an exception of the library: the handler closes *)
(* the reader, and nobody the writer.                                      *)
OutputAbandoned ==
    /\ step = "output" /\ FormatOf(output_name) = "multi"
    /\ CloseReader
    /\ output' = "abandoned"
    /\ Fail("RuntimeError")
    /\ UNCHANGED <<request, output_name, converted>>

OutputOpens ==
    /\ step = "output" /\ Writable
    /\ output' = "open"
    /\ Go("frames")
    /\ UNCHANGED <<readerVars, request, output_name, converted>>

-----------------------------------------------------------------------------
(* The loop over the reader, whose iterator is strict.                     *)

FrameType == IF single = None THEN ret'.type ELSE single.type

(* Mutant: a message of another type ends the loop.                        *)
ReadFrameEnds ==
    /\ step = "frames"
    /\ \E status \in {"OK", "INCOMPATIBLE", "ERROR", "EOF"} :
          /\ ReadWith(status)
          /\ step' = IF status = "OK" /\ FrameType = ConvertedType THEN "write" ELSE "leave"
          /\ answer' = IF status = "OK" THEN "EOF" ELSE Strict(status)
    /\ UNCHANGED <<request, spec, output_name, output, converted>>

(* A message of another type is passed over.                               *)
ReadFrame ==
    /\ step = "frames"
    /\ \E status \in {"OK", "INCOMPATIBLE", "ERROR", "EOF"} :
          /\ ReadWith(status)
          /\ step' = CASE status = "OK" /\ FrameType = ConvertedType -> "write"
                       [] status = "OK" /\ FrameType # ConvertedType -> "frames"
                       [] OTHER                                      -> "leave"
          /\ answer' = Strict(status)
    /\ UNCHANGED <<request, spec, output_name, output, converted>>

(* The message read last: its number in the file, or the count of them.    *)
Frame == IF single = None THEN ret.msg ELSE single.frames

(* _wrap_gt_in_sv, and write_message of the writer.                        *)
WriteFrame ==
    /\ step = "write"
    /\ converted' = Append(converted, Frame)
    /\ Go("frames")
    /\ UNCHANGED <<readerVars, request, output_name, output>>

WriteFrameFails ==
    /\ step = "write"
    /\ step' = "leave" /\ answer' = "RuntimeError"
    /\ UNCHANGED <<readerVars, request, spec, output_name, output, converted>>

(* The end of the with statement: the reader is closed, then the writer,   *)
(* which writes what is buffered and may fail.  The MCAP writer raises what*)
(* finish() raises, and swallows the OSError of closing its file.          *)
Outcome == IF answer = "EOF" THEN "DONE" ELSE answer

Leave ==
    /\ step = "leave"
    /\ CloseReader
    /\ \/ output' = "closed" /\ answer' = Outcome
       \/ output' = "short" /\ answer' = "OSError"
       \/ output' = "short" /\ answer' = Outcome /\ FormatOf(output_name) = "multi"
    /\ step' = "idle" /\ spec' = None
    /\ UNCHANGED <<request, output_name, converted>>

Inputs == {s \in Requests : s.type = ConvertedType}

Convert ==
    \/ \E s \in Inputs, name \in OutputNames : ConvertRefused(s, name) \/ ConvertStarts(s, name)
    \/ ConfigureInput \/ OpenInput
    \/ OutputFails \/ OutputAbandoned \/ OutputOpens
    \/ ReadFrame \/ WriteFrame \/ WriteFrameFails \/ Leave

ClientsNext ==
    \/ converting /\ Convert /\ UNCHANGED converting
    \/ ~converting /\ ChannelNext /\ UNCHANGED convertVars

ClientsSpec == ConvertInit /\ [][ClientsNext]_<<allVars, convertVars>>

-----------------------------------------------------------------------------
(* Properties                                                              *)

ConvertTypeOK ==
    /\ ~converting => ChannelTypeOK
    /\ converting =>
          /\ TypeOK
          /\ single \in SingleReaders \union {None} /\ (single # None => file = None)
          /\ step \in {"idle", "type", "single", "topics", "types", "open", "output",
                      "frames", "write", "leave"}
          /\ asked \in Inputs \union {None} /\ spec = None /\ wanted = {}
    /\ converting \in BOOLEAN /\ output_name \in OutputNames \union {None}
    /\ output \in {"none", "open", "abandoned", "closed", "short"}
    /\ converted \in Seq(Nat)

(* "Returns: Number of frames converted": a conversion that ends without an*)
(* exception has handed the sensor view of every ground truth message on   *)
(* the topics asked for to the writer, which took it, once and in the order*)
(* of their time, whatever lay between them, and the input had nothing     *)
(* unreadable among them - the reader skips in silence and a broken stream *)
(* looks like the end to its next read.  A single-channel file is converted*)
(* from end to end.  The count is that of the frames handed over.  They are*)
(* all in a single-channel output, whose failed close is an exception; an  *)
(* MCAP output may be short of some, and the caller is not told.           *)
ConvertedAll ==
    answer = "DONE" =>
        /\ output = "closed" \/ (output = "short" /\ FormatOf(output_name) = "multi")
        /\ single # None => converted = [n \in 1..single.frames |-> n]
        /\ single = None =>
              LET p == asked.path
                  S == Selected(p, topics)
              IN
              /\ \A i \in S : ~Broken(p, i)
              /\ {converted[n] : n \in DOMAIN converted}
                    = {i \in S : ~Incompatible(p, i) /\ SchemaType(p, i) = ConvertedType}
              /\ \A m, n \in DOMAIN converted : m < n => Before(p, converted[m], converted[n])
              /\ \A n \in DOMAIN converted : Message(p, converted[n]).payload = "good"

=============================================================================
