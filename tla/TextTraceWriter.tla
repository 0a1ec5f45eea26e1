--------------------------- MODULE TextTraceWriter ---------------------------
(***************************************************************************)
(* The Python writer of text trace files,                                  *)
(* python/osi_utilities/tracefile/writers/textformat.py, with the failures *)
(* the operating system may answer it with and a crash of its process.     *)
(***************************************************************************)
EXTENDS TextTraceFormat

CONSTANTS
    TxthPaths,  \* the paths with the extension .txth
    MaxItems    \* bound: no write starts on a text as long, or after as many writes

VARIABLES
    out,        \* _file: the path that is open, or None
    usable,     \* whether the file object behind _file is still open
    written,    \* _written_count
    answer,     \* what the last call answered
    target,     \* history: the path opened last
    accepted,   \* history: the messages write_message returned True for
    damage      \* history: what has happened to the file since it was opened

writerVars == <<out, usable, written, answer, target, accepted, damage>>

WriterInit == /\ out = None /\ usable = FALSE /\ written = 0 /\ answer = "none"
              /\ target = None /\ accepted = <<>> /\ damage = {}

(* open(p)                                                                 *)
OpenWriter(p) ==
    /\ out = None /\ p \in TxthPaths
    /\ disk' = [disk EXCEPT ![p] = <<>>]
    /\ out' = p /\ usable' = TRUE /\ written' = 0
    /\ answer' = "true"
    /\ target' = p /\ accepted' = <<>> /\ damage' = {}

(* Already open, another extension, or the operating system refuses.       *)
OpenWriterRefused ==
    /\ answer' = "false"
    /\ UNCHANGED <<disk, out, usable, written, target, accepted, damage>>

MayWrite == /\ out # None /\ usable
            /\ Len(disk[out]) < MaxItems /\ written < MaxItems

Extend(text) == disk' = [disk EXCEPT ![out] = Join(@, text)]

(* write_message(m)                                                        *)
Write(m) ==
    /\ MayWrite
    /\ Extend(TextOf(m))
    /\ written' = written + 1
    /\ answer' = "true"
    /\ accepted' = Append(accepted, m)
    /\ UNCHANGED <<out, usable, target, damage>>

(* OSError: any part of the text was taken, all of it included; the writer *)
(* stays open.                                                             *)
WriteFails(m) ==
    /\ MayWrite
    /\ \E text \in CutShort(TextOf(m)) :
          /\ Extend(text)
          /\ damage' = IF text = <<>> THEN damage ELSE damage \union {"torn"}
    /\ answer' = "false"
    /\ UNCHANGED <<out, usable, written, target, accepted>>

(* EncodeError, or the writer is not open; on a closed file object the     *)
(* ValueError of its write() is not caught.                                *)
WriteRefused ==
    /\ answer' \in IF out # None /\ ~usable THEN {"raised"} ELSE {"false"}
    /\ UNCHANGED <<disk, out, usable, written, target, accepted, damage>>

CloseWriter ==
    /\ out' = None /\ usable' = FALSE
    /\ answer' = "none"
    /\ UNCHANGED <<disk, written, target, accepted, damage>>

(* What reached the disk when the last flush fails, or never comes.        *)
Cut(p) == \E text \in CutShort(disk[p]) :
             /\ disk' = [disk EXCEPT ![p] = text]
             /\ damage' = IF text = disk[p] THEN damage ELSE damage \union {"cut"}

(* close() leaves with the exception of the flush before it forgets the    *)
(* file, whose file object is closed all the same.                         *)
CloseWriterFails ==
    /\ out # None /\ usable
    /\ Cut(out)
    /\ usable' = FALSE
    /\ answer' = "raised"
    /\ UNCHANGED <<out, written, target, accepted>>

(* The process ends without close(); a new one starts.                     *)
CrashWriter ==
    /\ out # None /\ usable
    /\ Cut(out)
    /\ out' = None /\ usable' = FALSE /\ written' = 0 /\ answer' = "none"
    /\ UNCHANGED <<target, accepted>>

WriterNext ==
    \/ \E p \in Paths : OpenWriter(p)
    \/ OpenWriterRefused
    \/ \E m \in Messages : Write(m) \/ WriteFails(m)
    \/ WriteRefused
    \/ CloseWriter \/ CloseWriterFails \/ CrashWriter

WriterTypeOK ==
    /\ disk \in DiskValues
    /\ out \in TxthPaths \union {None} /\ usable \in BOOLEAN
    /\ written \in Nat /\ answer \in {"none", "true", "false", "raised"}
    /\ target \in TxthPaths \union {None}
    /\ accepted \in Seq(Messages) /\ damage \subseteq {"torn", "cut"}

=============================================================================
