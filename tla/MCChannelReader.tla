--------------------------- MODULE MCChannelReader ---------------------------
(***************************************************************************)
(* Files for TLC: those of MCMultiTraceReader, one in which channels of    *)
(* two types share a topic, a payload is bad and the stream breaks, and    *)
(* single-channel files: one whose name follows the convention and has a   *)
(* second type code in its free part, one that matches a pattern only, one *)
(* whose code comes last, one that tells nothing, and a file of no format. *)
(* Conversions run on the same files.                                      *)
(***************************************************************************)
EXTENDS Gt2Sv, MCMultiTraceReader

Shared == "shared.mcap"

SharedFile ==
    [state |-> "readable", summary |-> TRUE,
     channels |-> <<Channel(gt, "protobuf", Schema(1, GroundTruth, "usable")),
                    Channel(gt, "protobuf", Schema(2, SensorView, "usable")),
                    Channel(sv, "protobuf", Schema(3, Unknown, "usable")), None>>,
     messages |-> <<Record(1, 1, "bad"), Record(2, 1, "good"), Record(3, 1, "good"),
                    Record(1, 2, "good"), Record(2, 3, "broken"), Record(1, 4, "good")>>]

(* Two ground truth channels and one of another type, all readable.        *)
Plain == "plain.mcap"

PlainFile ==
    [state |-> "readable", summary |-> TRUE,
     channels |-> <<Channel(gt, "protobuf", Schema(1, GroundTruth, "usable")),
                    Channel(sv, "protobuf", Schema(2, SensorView, "usable")),
                    Channel(sv, "protobuf", Schema(1, GroundTruth, "usable")), None>>,
     messages |-> <<Record(1, 2, "good"), Record(2, 1, "good"), Record(3, 1, "good"),
                    Record(1, 3, "good")>>]

McapPaths   == MCPaths \union {Shared, Plain}
SinglePaths == {"convention", "pattern", "last", "silent"}
ChannelPaths == McapPaths \union SinglePaths \union {"notes.txt"}

ChannelFiles ==
    [p \in ChannelPaths |-> IF p = Shared THEN SharedFile
                            ELSE IF p = Plain THEN PlainFile
                            ELSE IF p \in MCPaths THEN MCFiles[p]
                            ELSE Unreadable("readable")]

(* Of the table of short codes the first and the third entry.              *)
MCCodes    == <<"sv", "gt">>
MCCodeType == [c \in {"sv", "gt"} |-> IF c = "sv" THEN SensorView ELSE GroundTruth]

MCLower == [t \in {"20260101T000000Z", "gt", "sv", "GT", "3.7.0", "100", "my", "trace", "out",
                   ".osi", ".OSI", ".mcap", ".txth", ".txt"} |->
               CASE t = "GT" -> "gt" [] t = ".OSI" -> ".osi" [] OTHER -> t]

Name(parts, ext) == [parts |-> parts, ext |-> ext]

MCNames ==
    [p \in ChannelPaths |->
        CASE p = "convention" -> Name(<<"20260101T000000Z", "gt", "3.7.0", "3.7.0", "100",
                                        "my", "sv", "trace">>, ".osi")
          [] p = "pattern"    -> Name(<<"my", "GT", "sv", "trace">>, ".txth")
          [] p = "last"       -> Name(<<"trace", "GT">>, ".OSI")
          [] p = "silent"     -> Name(<<"trace">>, ".osi")
          [] p \in McapPaths  -> Name(<<"trace">>, ".mcap")
          [] OTHER            -> Name(<<"trace">>, ".txt")]

Ask(p, t, m) == [path |-> p, topic |-> t, type |-> m]

(* Two specifications at a time, of one path or of two.                    *)
MCWants ==
    {{Ask(Shared, gt, a), Ask(Shared, t, b)} :
        t \in {gt, sv, None}, a, b \in {GroundTruth, SensorView, Unknown, None}}
    \union {{Ask("silent", None, a), Ask(p, t, b)} :
        p \in {"silent", "last"}, t \in {gt, None}, a, b \in {GroundTruth, SensorView, Unknown, None}}
    \union {{Ask(p, None, None)} : p \in ChannelPaths}

Outputs == {Name(<<"out">>, e) : e \in {".mcap", ".osi", ".txth", ".txt"}}

=============================================================================
