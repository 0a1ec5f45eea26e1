--------------------------- MODULE TextTraceFormat ---------------------------
(***************************************************************************)
(* The text format of single-channel trace files (.txth): the top-level    *)
(* fields of one message after the other, in protobuf's text format, and   *)
(* nothing between two messages.                                           *)
(*                                                                         *)
(* An item of a text is what starts at a line that is not indented and     *)
(* lasts up to the next: a field with all that is nested in it, or a       *)
(* comment, which has no name.  An item that is not sound does not parse;  *)
(* its first line may be without a name as well.  Blank lines are left out.*)
(***************************************************************************)
EXTENDS Integers, Sequences, SequencesExt

CONSTANTS
    MessageTypes,   \* the OSI top-level message types
    Unknown,        \* MessageType.UNKNOWN
    None,           \* Python's None
    Fields,         \* names of top-level fields
    FieldsOf,       \* type -> the names its class has
    Singular,       \* the names that are not repeated fields
    Garbled,        \* a name no class has
    Messages,       \* the messages that are written: sequences of names
    Paths,          \* file names
    TypeOfName,     \* infer_message_type_from_filename on them
    Disks           \* what the disk may hold at the start

ASSUME TextAssumption ==
    /\ FieldsOf \in [MessageTypes -> SUBSET Fields]
    /\ Singular \subseteq Fields
    /\ Messages \subseteq Seq(Fields)
    /\ TypeOfName \in [Paths -> MessageTypes \union {Unknown}]
    /\ Unknown \notin MessageTypes /\ None \notin MessageTypes \union {Unknown}
    /\ None \notin Paths /\ Garbled \notin Fields
    /\ None \notin Fields \union {Garbled}

(* Only a repeated field may be there more than once.                      *)
ASSUME MessagesAssumption ==
    \A m \in Messages : \A i, j \in DOMAIN m : i # j /\ m[i] = m[j] => m[i] \notin Singular

VARIABLE disk   \* path -> the text of the file, or None if there is none

Items == [name : Fields \union {Garbled, None}, sound : BOOLEAN]

Field(f) == [name |-> f, sound |-> TRUE]
Comment  == [name |-> None, sound |-> TRUE]

DiskValues == [Paths -> {None} \union Seq(Items)]

ASSUME TextDisksAssumption == \A d \in Disks : d \in DiskValues

(* MessageToString: the fields of a message in the order of their numbers. *)
TextOf(m) == [n \in DOMAIN m |-> Field(m[n])]

(* The fields of a text, which are those of the message it parses as.      *)
NameIn(item)  == IF item.name = None THEN <<>> ELSE <<item.name>>
NamesIn(text) == FlattenSeq([n \in DOMAIN text |-> NameIn(text[n])])

(* text_format.Parse takes a text in which every item is sound, every name *)
(* is one of the class, and no field that is not repeated comes twice.     *)
Parses(text, type) ==
    /\ \A i \in DOMAIN text : text[i].sound /\ text[i].name \in FieldsOf[type] \union {None}
    /\ \A i, j \in DOMAIN text : i # j /\ text[i].name = text[j].name
                                    => text[i].name \notin Singular

(* What may be left of a text that is cut short: of an item that is cut,   *)
(* the name or not even that.                                              *)
Torn(item) == {[name |-> n, sound |-> FALSE] : n \in {item.name, None}}
CutShort(text) ==
    {SubSeq(text, 1, k) : k \in 0..Len(text)}
        \union UNION {{Append(SubSeq(text, 1, k - 1), t) : t \in Torn(text[k])} : k \in DOMAIN text}

(* Text put behind an item that was cut starts in the middle of its line.  *)
Glued(item) == IF item.name = None THEN [item EXCEPT !.name = Garbled] ELSE item
Join(text, more) ==
    IF text = <<>> \/ more = <<>> THEN text \o more
    ELSE IF Last(text).sound THEN text \o more
    ELSE Front(text) \o <<Glued(Last(text))>> \o Tail(more)

=============================================================================
