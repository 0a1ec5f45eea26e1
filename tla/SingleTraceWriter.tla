-------------------------- MODULE SingleTraceWriter --------------------------
(***************************************************************************)
(* The Python writer of binary single-channel trace files,                 *)
(* python/osi_utilities/tracefile/writers/single.py, with the failures the *)
(* operating system may answer it with and a crash of its process.         *)
(***************************************************************************)
EXTENDS SingleTraceFormat

CONSTANT
    MaxBytes    \* bound: no write starts on a file as long as this

VARIABLES
    out,        \* _file: the path that is open, or None
    usable,     \* whether the file object behind _file is still open
    written,    \* _written_count
    answer,     \* what the last call answered
    target,     \* history: the path opened last
    accepted,   \* history: the messages write_message returned True for
    intact,     \* history: how many of them before a frame was torn
    damage      \* history: what has happened to the file since it was opened

writerVars == <<out, usable, written, answer, target, accepted, intact, damage>>

(* "torn": a frame was cut short, and more may follow it or readers do not *)
(* stop there; "cut": the end of the file is missing.                      *)
Damages == SUBSET {"torn", "cut"}

WriterInit == /\ out = None /\ usable = FALSE /\ written = 0 /\ answer = "none"
              /\ target = None /\ accepted = <<>> /\ intact = 0 /\ damage = {}

(* Mutants: any extension will do; the file is opened for appending.       *)
OpenWriterAnyName(p) ==
    /\ out = None
    /\ disk' = [disk EXCEPT ![p] = <<>>]
    /\ out' = p /\ usable' = TRUE /\ written' = 0
    /\ answer' = "true"
    /\ target' = p /\ accepted' = <<>> /\ intact' = 0 /\ damage' = {}

OpenWriterAppends(p) ==
    /\ out = None /\ p \in OsiPaths
    /\ disk' = [disk EXCEPT ![p] = IF @ = None THEN <<>> ELSE @]
    /\ out' = p /\ usable' = TRUE /\ written' = 0
    /\ answer' = "true"
    /\ target' = p /\ accepted' = <<>> /\ intact' = 0 /\ damage' = {}

(* open(p)                                                                 *)
OpenWriter(p) ==
    /\ out = None /\ p \in OsiPaths
    /\ disk' = [disk EXCEPT ![p] = <<>>]
    /\ out' = p /\ usable' = TRUE /\ written' = 0
    /\ answer' = "true"
    /\ target' = p /\ accepted' = <<>> /\ intact' = 0 /\ damage' = {}

(* Already open, another extension, or the operating system refuses.       *)
OpenWriterRefused ==
    /\ answer' = "false"
    /\ UNCHANGED <<disk, out, usable, written, target, accepted, intact, damage>>

Extend(bytes) == disk' = [disk EXCEPT ![out] = @ \o bytes]

MayWrite == out # None /\ usable /\ Len(disk[out]) < MaxBytes

(* write_message(m): the header, then the body.                            *)
Write(m) ==
    /\ MayWrite
    /\ Extend(Frame(m))
    /\ written' = written + 1
    /\ answer' = "true"
    /\ accepted' = Append(accepted, m)
    /\ intact' = IF "torn" \in damage THEN intact ELSE intact + 1
    /\ UNCHANGED <<out, usable, target, damage>>

(* OSError: the header was taken, or nothing; of the body any part but all.*)
(* write_message answers False and the writer stays open.                  *)
WriteFails(m) ==
    /\ MayWrite
    /\ \E k \in {0} \union HeaderSize..(Len(Frame(m)) - 1) :
          /\ Extend(SubSeq(Frame(m), 1, k))
          /\ damage' = IF k = 0 THEN damage ELSE damage \union {"torn"}
    /\ answer' = "false"
    /\ UNCHANGED <<out, usable, written, target, accepted, intact>>

(* EncodeError, or the writer is not open; on a closed file object the     *)
(* ValueError of its write() is not caught.                                *)
WriteRefused ==
    /\ answer' \in IF out # None /\ ~usable THEN {"raised"} ELSE {"false"}
    /\ UNCHANGED <<disk, out, usable, written, target, accepted, intact, damage>>

(* Any part of the file from its beginning may be what reached the disk.   *)
Cut(p) == \E k \in 0..Len(disk[p]) :
             /\ disk' = [disk EXCEPT ![p] = SubSeq(@, 1, k)]
             /\ damage' = IF k = Len(disk[p]) THEN damage ELSE damage \union {"cut"}

CloseWriter ==
    /\ out' = None /\ usable' = FALSE
    /\ answer' = "none"
    /\ UNCHANGED <<disk, written, target, accepted, intact, damage>>

(* The final flush fails: close() leaves with the exception before it      *)
(* forgets the file, whose file object is closed all the same.             *)
CloseWriterFails ==
    /\ out # None /\ usable
    /\ Cut(out)
    /\ usable' = FALSE
    /\ answer' = "raised"
    /\ UNCHANGED <<out, written, target, accepted, intact>>

(* The process ends without close(); a new one starts.                     *)
CrashWriter ==
    /\ out # None /\ usable
    /\ Cut(out)
    /\ out' = None /\ usable' = FALSE /\ written' = 0 /\ answer' = "none"
    /\ UNCHANGED <<target, accepted, intact>>

WriterNext ==
    \/ \E p \in Paths : OpenWriter(p)
    \/ OpenWriterRefused
    \/ \E m \in Messages : Write(m) \/ WriteFails(m)
    \/ WriteRefused
    \/ CloseWriter \/ CloseWriterFails \/ CrashWriter

WriterTypeOK ==
    /\ disk \in DiskValues
    /\ out \in OsiPaths \union {None} /\ usable \in BOOLEAN
    /\ written \in Nat /\ answer \in {"none", "true", "false", "raised"}
    /\ target \in OsiPaths \union {None}
    /\ accepted \in Seq(Messages) /\ intact \in Nat /\ damage \in Damages

=============================================================================
