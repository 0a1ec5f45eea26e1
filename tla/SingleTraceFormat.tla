-------------------------- MODULE SingleTraceFormat --------------------------
(***************************************************************************)
(* The binary single-channel format (.osi): a file is a sequence of        *)
(* frames, each a little-endian length of HeaderSize bytes followed by as  *)
(* many bytes of a serialized message.                                     *)
(*                                                                         *)
(* A byte is known by the message it was written for and its place in that *)
(* message's frame.  A reader that looks at the bytes of one frame in      *)
(* place understands them; any other run of bytes reads as an arbitrary    *)
(* length, or parses as some message or not at all.                        *)
(***************************************************************************)
EXTENDS Integers, Sequences

CONSTANTS
    MessageTypes,           \* the OSI top-level message types
    Unknown,                \* MessageType.UNKNOWN
    None,                   \* Python's None
    Messages,               \* the messages that are written
    SizeOf,                 \* message -> length of its serialization
    TypeOf,                 \* message -> its type
    Garbage,                \* whatever foreign bytes happen to parse as
    HeaderSize,             \* BINARY_MESSAGE_LENGTH_PREFIX_SIZE
    MaxExpectedMessageSize, \* MAX_EXPECTED_MESSAGE_SIZE, which readers enforce
    Paths,                  \* file names
    OsiPaths,               \* those with the extension .osi
    TypeOfName,             \* infer_message_type_from_filename on them
    Disks                   \* what the disk may hold at the start

ASSUME FormatAssumption ==
    /\ HeaderSize \in Nat \ {0}
    /\ MaxExpectedMessageSize \in Nat
    /\ SizeOf \in [Messages -> Nat]
    /\ TypeOf \in [Messages -> MessageTypes]
    /\ TypeOfName \in [Paths -> MessageTypes \union {Unknown}]
    /\ Unknown \notin MessageTypes /\ None \notin MessageTypes \union {Unknown}
    /\ None \notin Paths /\ OsiPaths \subseteq Paths
    /\ None \notin Messages /\ Garbage \notin Messages

(* A message is what it serializes to: of each type only the default       *)
(* message, with no field set, serializes to no bytes.                     *)
ASSUME DefaultAssumption ==
    \A m, n \in Messages :
       SizeOf[m] = 0 /\ SizeOf[n] = 0 /\ TypeOf[m] = TypeOf[n] => m = n

VARIABLE disk   \* path -> the bytes of the file, or None if there is none

Bytes == [msg : Messages, at : Nat \ {0}]

Frame(m) == [k \in 1..(HeaderSize + SizeOf[m]) |-> [msg |-> m, at |-> k]]
Header(m) == SubSeq(Frame(m), 1, HeaderSize)
Body(m)   == SubSeq(Frame(m), HeaderSize + 1, HeaderSize + SizeOf[m])

Readable(m) == SizeOf[m] <= MaxExpectedMessageSize

DiskValues == [Paths -> {None} \union Seq(Bytes)]

ASSUME DisksAssumption == \A d \in Disks : d \in DiskValues

(* struct.unpack of a header: the length it was packed from, or any length *)
(* at all; one above the limit stands for all of them.                     *)
LengthsIn(header) ==
    IF \E m \in Messages : header = Header(m)
      THEN {SizeOf[m] : m \in {n \in Messages : header = Header(n)}}
      ELSE 0..(MaxExpectedMessageSize + 1)

(* ParseFromString with the class of a type: the message serialized there; *)
(* other bytes, or the bytes of another type, may parse or not.            *)
ParsesOf(data, type) ==
    LET own == {m \in Messages : data = Body(m) /\ TypeOf[m] = type} IN
    IF own # {} THEN own
    ELSE IF data = <<>> THEN {Garbage} ELSE {Garbage, None}

=============================================================================
