------------------------ MODULE MCMultiTraceReader ------------------------
(***************************************************************************)
(* Five files for TLC: one with a message of every kind on two topics, one *)
(* whose channel and schema ids stand for other types, with a damaged      *)
(* schema and a stream that breaks, and three that cannot be opened: one   *)
(* damaged, one at which the library fails unexpectedly, one not there.    *)
(***************************************************************************)
EXTENDS MultiTraceReader

CONSTANTS GroundTruth, SensorView, gt, sv

Ids    == 1..4
MCSchemaIds == 1..3
Bad    == "bad.mcap"
Odd    == "odd.mcap"
Gone   == "gone.mcap"
Mixed  == "mixed.mcap"
Other  == "other.mcap"

Channel(t, e, s) == [topic |-> t, encoding |-> e, schema |-> s]
Schema(i, t, d)  == [id |-> i, type |-> t, descriptor |-> d]
Record(c, t, p)  == [channel |-> c, time |-> t, payload |-> p]

Unreadable(s) == [state |-> s, summary |-> FALSE,
                  channels |-> [c \in Ids |-> None], messages |-> <<>>]

(* Written out of log-time order; a JSON channel shares the topic gt.      *)
MixedFile ==
    [state |-> "readable", summary |-> TRUE,
     channels |-> <<Channel(gt, "protobuf", Schema(1, GroundTruth, "usable")),
                    Channel(gt, "other", None),
                    Channel(sv, "protobuf", Schema(2, SensorView, "foreign")), None>>,
     messages |-> <<Record(1, 2, "good"), Record(2, 1, "good"),
                    Record(3, 2, "good"), Record(1, 3, "bad")>>]

OtherFile ==
    [state |-> "readable", summary |-> FALSE,
     channels |-> <<Channel(sv, "protobuf", Schema(1, SensorView, "usable")),
                    Channel(gt, "protobuf", None),
                    Channel(gt, "protobuf", Schema(2, Unknown, "usable")),
                    Channel(gt, "protobuf", Schema(3, GroundTruth, "damaged"))>>,
     messages |-> <<Record(1, 1, "good"), Record(4, 1, "good"), Record(2, 1, "good"),
                    Record(1, 2, "broken"), Record(3, 3, "good")>>]

(* Nothing expected, what the files have, and what they do not have.       *)
MCExpectations == {[t \in Topics |-> None], [t \in Topics |-> IF t = gt THEN GroundTruth ELSE None],
                   [t \in Topics |-> SensorView]}

MCPaths == {Mixed, Other, Bad, Odd, Gone}

MCFiles == [p \in MCPaths |->
              CASE p = Mixed -> MixedFile
                [] p = Other -> OtherFile
                [] p = Bad   -> Unreadable("damaged")
                [] p = Odd   -> Unreadable("malformed")
                [] p = Gone  -> Unreadable("missing")]

=============================================================================
