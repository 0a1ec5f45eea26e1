------------------------------ MODULE Configure ------------------------------
(***************************************************************************)
(* Making a reader for a file and configuring it,                          *)
(* python/osi_utilities/tracefile/configure.py.                            *)
(*                                                                         *)
(* The reader is a MultiTraceReader for a file name that ends in .mcap and *)
(* a single-channel reader for .osi and .txth; of that only the type it    *)
(* decodes with and the status of its answers matter here.                 *)
(***************************************************************************)
EXTENDS MultiTraceReader

CONSTANTS
    NameOf,     \* path -> file name
    Codes, CodeType, Stamps, Numbers, Lower,
    MaxFrames   \* bound: messages a single-channel reader delivers

INSTANCE FileNames

ASSUME ConfigureAssumption ==
    /\ Codes \in Seq(DOMAIN CodeType) /\ CodeType \in [DOMAIN CodeType -> MessageTypes]
    /\ NameOf \in [Paths -> [parts : Seq(DOMAIN Lower) \ {<<>>}, ext : DOMAIN Lower]]
    /\ MaxFrames \in Nat

VARIABLE
    single      \* the single-channel reader, or None if the reader is another one

(* type is its _message_type, frames counts the messages it has delivered. *)
SingleReaders == [type : MessageTypes \union {Unknown}, open : BOOLEAN, frames : 0..MaxFrames]

ASSUME SingleAssumption == None \notin SingleReaders

(* A channel specification; the metadata is left out.                      *)
Requests == [path : Paths, topic : Topics \union {None},
             type : MessageTypes \union {Unknown, None}]

(* require_message_type                                                    *)
Concrete(type) == type \notin {None, Unknown}

Present(p)   == FileAt[p].state # "missing"
Format(p)    == FormatOf(NameOf[p])

(* create_reader: a new reader object with the settings it starts with.    *)
CreateReader(p) ==
    /\ single' = IF Format(p) = "single"
                   THEN [type |-> Unknown, open |-> FALSE, frames |-> 0] ELSE None
    /\ file' = None /\ reader' = None /\ path' = None /\ summary' = None
    /\ topics' = {} /\ expected' = NoExpectations
    /\ skip' = TRUE /\ mode' = "precompiled"
    /\ classes' = NoCache /\ decoders' = NoCache /\ types' = NoTypes
    /\ iterator' = None /\ peeked' = None /\ exhausted' = FALSE
    /\ ret' = Answer("NONE")
    /\ ForgetHistory

-----------------------------------------------------------------------------
(* The single-channel reader.                                              *)

ReadsAs(type) == single' = [single EXCEPT !.type = type]

(* open(p): a type that was not set is inferred from the file name.        *)
TypeToOpen(p) == IF single.type = Unknown THEN Infer(NameOf[p]) ELSE single.type

SingleOpenFails(p) == ReadsAs(TypeToOpen(p))

SingleOpens(p) ==
    /\ TypeToOpen(p) # Unknown
    /\ single' = [single EXCEPT !.type = TypeToOpen(p), !.open = TRUE]

ReadSingle(status) ==
    \/ /\ status = "OK" /\ single.open /\ single.frames < MaxFrames
       /\ single' = [single EXCEPT !.frames = @ + 1]
    \/ /\ status = "ERROR" /\ single.open
       /\ UNCHANGED single
    \/ /\ status = "EOF"
       /\ UNCHANGED single

(* Reading and closing whichever reader there is.                          *)
ReadWith(status) ==
    \/ /\ single = None
       /\ ReadMessage /\ ret'.status = status
       /\ UNCHANGED single
    \/ /\ single # None
       /\ ReadSingle(status)
       /\ UNCHANGED vars

CloseReader ==
    \/ /\ single = None
       /\ Close /\ UNCHANGED single
    \/ /\ single # None
       /\ single' = [single EXCEPT !.open = FALSE]
       /\ UNCHANGED vars

NothingOpen == file = None /\ (single # None => ~single.open)

-----------------------------------------------------------------------------
(* configure_reader_for_channels(reader, specs)                            *)

TopicsOf(specs)    == {s.topic : s \in specs} \ {None}
TypesOn(specs, t)  == {s.type : s \in {r \in specs : r.topic = t}} \ {None}
TypesOf(specs)     == {s.type : s \in specs} \ {None}

(* Mutant: a second type on a topic replaces the first.                    *)
NoConflict(specs) == FALSE

Conflict(specs) == \E t \in TopicsOf(specs) : Cardinality(TypesOn(specs, t)) > 1

(* What makes the call leave with a ValueError.  A type without a topic is *)
(* looked at for a single-channel reader alone.                            *)
Unfit(specs) ==
    \/ Cardinality({s.path : s \in specs}) > 1
    \/ \E t \in TopicsOf(specs) : Unknown \in TypesOn(specs, t)
    \/ Conflict(specs)
    \/ /\ single # None
       /\ Unknown \in TypesOf(specs) \/ Cardinality(TypesOf(specs)) > 1

Expectation(specs) ==
    [t \in Topics |-> IF TypesOn(specs, t) = {} THEN None
                      ELSE CHOOSE type \in TypesOn(specs, t) : TRUE]

(* On a reader that is not open yet: nothing is iterated that set_topics   *)
(* would have to start again.                                              *)
ConfigureFor(specs) ==
    IF single = None
      THEN /\ topics' = TopicsOf(specs)
           /\ expected' = Expectation(specs)
           /\ UNCHANGED <<handle, skip, mode, caches, cursor, ret, history, single>>
      ELSE /\ \/ TypesOf(specs) = {} /\ UNCHANGED single
              \/ \E type \in TypesOf(specs) : ReadsAs(type)
           /\ UNCHANGED vars

=============================================================================
