--------------------------- MODULE MCMCAPTraceFile ---------------------------
(* Two topics and a message of each of two types.  At the start there is a *)
(* file with a message of every kind, or one without a schema-less one, at *)
(* the path that is written, and at the other a file that cannot be opened *)
(* or one that was written elsewhere.  A filter given to Open lets the     *)
(* second topic through.                                                   *)
EXTENDS MCAPTraceFile, TLC

CONSTANTS GroundTruth, SensorView, aGt, aSv, t1, t2

MCTypeOf == [m \in Messages |-> IF m = aGt THEN GroundTruth ELSE SensorView]

Record(t, s, p) == [topic |-> t, schema |-> s, payload |-> p]
Schema(e, type) == [encoding |-> e, type |-> type]
Osi             == Schema("protobuf", GroundTruth)

Every == <<Record(t1, Osi, "good"), Record(t2, Schema("other", None), "good"),
           Record(t2, None, "good"), Record(t1, Osi, "bad")>>
Usual == <<Record(t2, Schema("protobuf", None), "good"), Record(t1, Osi, "bad"),
           Record(t2, Osi, "good"), Record(t1, Schema("other", None), "good")>>

With(messages) == [state |-> "readable", trace |-> 1, messages |-> messages]
Without(state) == [state |-> state, trace |-> 0, messages |-> <<>>]

MCDisks == {("trace" :> With(Every)) @@ ("other" :> Without("damaged")),
            ("trace" :> With(Usual)) @@ ("other" :> Without("missing")),
            ("trace" :> Without("missing")) @@ ("other" :> With(SubSeq(Usual, 2, 3)))}

=============================================================================
