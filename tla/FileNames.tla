------------------------------ MODULE FileNames ------------------------------
(***************************************************************************)
(* What the name of a trace file says about it: filename.py, the detection *)
(* in api/types.py and tracefile/format.py of python/osi_utilities.        *)
(*                                                                         *)
(* A file name is its extension and the parts between the underscores of   *)
(* its stem, none of them empty.  The two ways to find the message type    *)
(* look at different parts: the naming convention at the second one, the   *)
(* patterns "_gt_" at every part that has another one on either side.      *)
(***************************************************************************)
EXTENDS Integers, Sequences

CONSTANTS
    MessageTypes, Unknown, None,
    Codes,      \* the short codes, in the order of their table
    CodeType,   \* short code -> message type
    Stamps,     \* the parts that are a time stamp
    Numbers,    \* the parts that are a number
    Lower       \* part -> the part in lower case

(* infer_message_type_from_filename                                        *)

InnerParts(name) == {Lower[name.parts[i]] : i \in 2..(Len(name.parts) - 1)}
LastPart(name)   == Lower[name.parts[Len(name.parts)]]

(* The entries of the table that match the name at one of these parts.     *)
Entries(parts) == {k \in DOMAIN Codes : Codes[k] \in parts}

FirstEntry(entries) == CHOOSE k \in entries : \A j \in entries : k <= j

(* The patterns first, the end of the stem if none of them matches.        *)
Matches(name) == IF Entries(InnerParts(name)) # {}
                   THEN Entries(InnerParts(name))
                   ELSE Entries({LastPart(name)})

Infer(name) == IF Matches(name) = {} THEN Unknown
               ELSE CodeType[Codes[FirstEntry(Matches(name))]]

(* parse_osi_trace_filename: a name that follows the convention            *)
(* <time stamp>_<type>_<version>_<version>_<frames>_<name>.osi             *)
Conventional(name) ==
    /\ name.ext = ".osi"
    /\ Len(name.parts) >= 6
    /\ name.parts[1] \in Stamps
    /\ \E k \in DOMAIN Codes : Codes[k] = name.parts[2]
    /\ name.parts[5] \in Numbers

ParsedType(name) == CodeType[name.parts[2]]

(* Mutant: the patterns are tried before the convention.                   *)
AutodetectedByPattern(name) == IF Infer(name) # Unknown THEN Infer(name) ELSE None

(* ChannelSpecification.autodetected_message_type                          *)
Autodetected(name) == IF Conventional(name) THEN ParsedType(name)
                      ELSE IF Infer(name) # Unknown THEN Infer(name)
                      ELSE None

(* get_trace_file_format                                                   *)
FormatOf(name) == CASE Lower[name.ext] = ".mcap"             -> "multi"
                    [] Lower[name.ext] \in {".osi", ".txth"} -> "single"
                    [] OTHER                                 -> "unsupported"

=============================================================================
