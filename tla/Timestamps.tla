----------------------------- MODULE Timestamps -----------------------------
(***************************************************************************)
(* Time stamps in nanoseconds: timestamp.py of python/osi_utilities, and   *)
(* cpp/include/osi-utilities/tracefile/TimestampUtils.h.                   *)
(*                                                                         *)
(* A time stamp has seconds, of 64 bits with a sign, and nanos, of 32 bits *)
(* without one and not necessarily below a second.  In an MCAP file it is  *)
(* a number from 0 to max, 2^64 - 1.  Python's numbers have no limit, and  *)
(* the MCAP library raises for one that does not fit; the C++ code has to  *)
(* test before it multiplies.                                              *)
(***************************************************************************)
EXTENDS Integers

NanosecondsPerSecond == 1000000000

(* timestamp_to_nanoseconds                                                *)
Nanoseconds(seconds, nanos) == seconds * NanosecondsPerSecond + nanos

(* What mcap.writer accepts as a log time, and goes into the file.         *)
Fits(ns, max) == ns \in 0..max

(* The tests of TimestampToNanoseconds in C++, without one of which it     *)
(* throws std::out_of_range, and the number it then returns: both the      *)
(* product and the sum are computed modulo max + 1.                        *)
NotNegative(seconds) == seconds >= 0
WithinRange(seconds, nanos, max) == seconds <= (max - nanos) \div NanosecondsPerSecond

Wrapped(n, max) == n % (max + 1)
CppNanoseconds(seconds, nanos, max) ==
    Wrapped(Wrapped(seconds * NanosecondsPerSecond, max) + nanos, max)

=============================================================================
