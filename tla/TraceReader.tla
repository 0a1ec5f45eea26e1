---------------------------- MODULE TraceReader ----------------------------
(***************************************************************************)
(* What python/osi_utilities/tracefile/readers/base.py promises of every   *)
(* trace file reader, whatever the format of the file: read_message()      *)
(* answers with a result or with the end of the file, has_next() announces *)
(* which of the two the next read will be, and the end of the file is      *)
(* final until the reader is pointed at something else.                    *)
(*                                                                         *)
(* The reader of MCAP files is shown to implement this specification by a  *)
(* refinement mapping for outlook.                                         *)
(***************************************************************************)

VARIABLES
    outlook,    \* what is settled about the next read: "MORE", "END" or "open"
    last        \* the status of the last call that has answered

vars == <<outlook, last>>

Results == {"OK", "INCOMPATIBLE", "ERROR"}

Init == outlook \in {"END", "open"} /\ last = "NONE"

(* has_next() settles an open outlook and never revises a settled one.     *)
HasNext == \E answer \in {"MORE", "END"} :
              /\ outlook \in {"open", answer}
              /\ outlook' = answer
              /\ last' = answer

(* A read that delivers something is possible unless the end was announced;*)
(* what comes after it is open, or already known to the reader.            *)
ReadResult == /\ outlook # "END"
              /\ last' \in Results
              /\ outlook' \in {"MORE", "END", "open"}

(* The end of the file is reported only if no message was announced, and   *)
(* it is final.                                                            *)
ReadEnd == /\ outlook # "MORE"
           /\ last' = "EOF"
           /\ outlook' = "END"

(* A call may leave with an exception as long as nothing was announced.    *)
(* base.py asks for an ERROR result instead; the reader of MCAP files does *)
(* not always give one.                                                    *)
Raise == /\ outlook = "open"
         /\ last' = "RAISED"
         /\ outlook' = "open"

(* open(), close() and a change of the selection start afresh.             *)
Restart == /\ last' \in {"OPENED", "CLOSED", "NONE"}
           /\ outlook' \in {"MORE", "END", "open"}

(* An open() that is refused, or leaves with an exception, changes nothing *)
(* about what can be read.                                                 *)
Refuse == /\ last' \in {"REFUSED", "OPEN RAISED"}
          /\ UNCHANGED outlook

Next == HasNext \/ ReadResult \/ ReadEnd \/ Raise \/ Restart \/ Refuse

Spec == Init /\ [][Next]_vars

=============================================================================
