------------------ MODULE SingleChannelBinaryTraceFileWriter ------------------
(***************************************************************************)
(* The C++ writer of binary single-channel trace files,                    *)
(* cpp/src/tracefile/writer/SingleChannelBinaryTraceFileWriter.cpp, on a   *)
(* std::ofstream.  Its state is that of the Python writer: out is the file *)
(* of trace_file_, and usable says that the stream has not failed.  Unlike *)
(* a Python file object, a stream that failed once takes nothing more, and *)
(* its close() reports nothing.  There is no count of messages.            *)
(***************************************************************************)
EXTENDS SingleTraceWriter

(* The check of the name, of a file that is open, and truncation are those *)
(* of the Python writer; opening clears the errors of the last file.       *)
OpenOutput(p) == OpenWriter(p)

OpenOutputRefused == OpenWriterRefused

(* WriteMessage(m), either overload: length and bytes go to the stream.    *)
Put(m) ==
    /\ MayWrite
    /\ Extend(Frame(m))
    /\ answer' = "true"
    /\ accepted' = Append(accepted, m) /\ intact' = intact + 1
    /\ UNCHANGED <<out, usable, written, target, damage>>

(* What it means for the file that of all its bytes and those of m only    *)
(* the first k are there.  Readers step into a frame that is larger than   *)
(* they accept.                                                            *)
Loss(m, k) ==
    IF k = Len(disk[out]) THEN {}
    ELSE IF k > Len(disk[out]) /\ ~Readable(m) THEN {"torn"} ELSE {"cut"}

(* Mutant: the stream is used although it has failed.                      *)
PutFailsGoesOn(m) ==
    /\ MayWrite
    /\ LET bytes == disk[out] \o Frame(m) IN
       \E k \in 0..(Len(bytes) - 1) :
          /\ disk' = [disk EXCEPT ![out] = SubSeq(bytes, 1, k)]
          /\ damage' = damage \union Loss(m, k)
    /\ answer' = "false"
    /\ UNCHANGED <<out, usable, written, target, accepted, intact>>

(* The stream fails while it empties its buffer, which may hold frames     *)
(* that were accepted before: any part of it may have reached the disk.    *)
PutFails(m) ==
    /\ MayWrite
    /\ LET bytes == disk[out] \o Frame(m) IN
       \E k \in 0..(Len(bytes) - 1) :
          /\ disk' = [disk EXCEPT ![out] = SubSeq(bytes, 1, k)]
          /\ damage' = damage \union Loss(m, k)
    /\ usable' = FALSE
    /\ answer' = "false"
    /\ UNCHANGED <<out, written, target, accepted, intact>>

(* No file open, a stream that has failed, or a message that cannot be     *)
(* serialized.                                                             *)
PutRefused ==
    /\ answer' = "false"
    /\ UNCHANGED <<disk, out, usable, written, target, accepted, intact, damage>>

CloseOutput ==
    /\ out' = None /\ usable' = FALSE
    /\ answer' = "none"
    /\ UNCHANGED <<disk, written, target, accepted, intact, damage>>

(* The last flush fails, and nobody is told.                               *)
CloseOutputLoses ==
    /\ out # None /\ usable
    /\ Cut(out)
    /\ out' = None /\ usable' = FALSE
    /\ answer' = "none"
    /\ UNCHANGED <<written, target, accepted, intact>>

(* The process ends with the stream open.                                  *)
CrashOutput == CrashWriter

OutputNext ==
    \/ \E p \in Paths : OpenOutput(p)
    \/ OpenOutputRefused
    \/ \E m \in Messages : Put(m) \/ PutFails(m)
    \/ PutRefused
    \/ CloseOutput \/ CloseOutputLoses \/ CrashOutput

=============================================================================
