--------------------------- MODULE MCAPTraceFormat ---------------------------
(* What the C++ writer and reader of MCAP trace files have in common.      *)
EXTENDS Integers, Sequences

CONSTANTS
    Topics,         \* topic names
    MessageTypes,   \* the OSI top-level message types
    None            \* no file, no iterator, no schema, no topic

=============================================================================
