------------------------- MODULE MCAPTraceFile_proofs -------------------------
(***************************************************************************)
(* Theorems about the C++ reader and writer of MCAP trace files, for all  *)
(* files, also those the writer has left behind, all topics and all       *)
(* paths: what the reader accounts for, and that the first file of a      *)
(* writer reads back. The last part is about the time stamps in these     *)
(* files.                                                                 *)
(***************************************************************************)
EXTENDS MCAPTraceFile, Timestamps, FiniteSetTheorems, TLAPS

(* Messages are numbered, so they have an order; no more need be known of  *)
(* a file.                                                                 *)
Numbered(d) == /\ d = [p \in Paths |-> d[p]]
               /\ \A p \in Paths : DOMAIN d[p].messages \subseteq Nat

ReaderTypes == /\ Numbered(disk)
               /\ file \in Paths \union {None}
               /\ delivered \in Seq(Nat)

(* The inductive invariant.                                                *)
AInv == ReaderTypes /\ Accounted

LEMMA AppendFacts ==
  ASSUME NEW S, NEW s \in Seq(S), NEW x \in S
  PROVE  /\ Append(s, x) \in Seq(S)
         /\ Len(Append(s, x)) = Len(s) + 1
         /\ DOMAIN Append(s, x) = 1..(Len(s) + 1)
         /\ \A n \in 1..Len(s) : Append(s, x)[n] = s[n]
         /\ Append(s, x)[Len(s) + 1] = x
         /\ DOMAIN s = 1..Len(s)
         /\ Len(s) \in Nat
  OBVIOUS

LEMMA EmptySeq == <<>> \in Seq(Nat)
  OBVIOUS

-----------------------------------------------------------------------------
(* Writing: the reader has no file open.                                   *)

LEMMA StoredNumbered ==
  ASSUME NEW w, NEW n, NEW records
  PROVE  DOMAIN Stored(w, n, records).messages \subseteq Nat
  BY DEF Stored

LEMMA LeftNumbered ==
  ASSUME Numbered(disk), NEW f, NEW whole, DOMAIN f.messages \subseteq Nat,
         LeaveFile(f, whole)
  PROVE  Numbered(disk')
<1>1. DOMAIN Empty.messages \subseteq Nat
  BY DEF Empty
<1>2. PICK g : DOMAIN g.messages \subseteq Nat /\ disk' = [disk EXCEPT ![Target] = g]
  BY <1>1 DEF LeaveFile
<1> QED  BY <1>2 DEF Numbered

LEMMA CutNumbered ==
  ASSUME NEW w, NEW f \in CutShort(w)
  PROVE  DOMAIN f.messages \subseteq Nat
<1>1. DOMAIN Empty.messages \subseteq Nat
  BY DEF Empty
<1>2. f = Empty \/ \E n, records : f = Stored(w, n, records)
  BY DEF CutShort
<1> QED  BY <1>1, <1>2, StoredNumbered

LEMMA WritingInv == ASSUME AInv, Writing PROVE AInv'
<1>1. file = None /\ UNCHANGED readerVars
  BY DEF Writing, Fresh
<1>2. Numbered(disk')
  <2>0. Numbered(disk)
    BY DEF AInv, ReaderTypes
  <2>1. CASE OpenFile
    <3>1. DOMAIN Empty.messages \subseteq Nat  BY DEF Empty
    <3> QED  BY <2>0, <2>1, <3>1 DEF OpenFile, Numbered
  <2>2. CASE UNCHANGED disk
    BY <2>0, <2>2
  <2>3. CASE CloseFile
    <3>1. PICK f : (f = Whole(mcap) \/ f \in CutShort(mcap)) /\ \E b : LeaveFile(f, b)
      BY <2>3 DEF CloseFile
    <3>2. DOMAIN f.messages \subseteq Nat
      BY <3>1, StoredNumbered, CutNumbered DEF Whole
    <3> QED  BY <2>0, <3>1, <3>2, LeftNumbered
  <2>4. CASE Crash
    <3>1. PICK f \in CutShort(mcap) : LeaveFile(f, FALSE)
      BY <2>4 DEF Crash
    <3> QED  BY <2>0, <3>1, CutNumbered, LeftNumbered
  <2> QED  BY <2>1, <2>2, <2>3, <2>4 DEF Writing
<1>3. ReaderTypes'
  BY <1>1, <1>2 DEF AInv, ReaderTypes, readerVars
<1> QED  BY <1>1, <1>3 DEF AInv, Accounted, readerVars

-----------------------------------------------------------------------------
(* Reading: the disk stays.                                                *)

(* An iteration begins, on file p.                                         *)
LEMMA ResetInv ==
  ASSUME ReaderTypes, NEW p \in Paths, NEW on, NEW ts,
         Reset(p, on, ts), file' = p, filtered' = ts, UNCHANGED disk
  PROVE  AInv'
<1>1. /\ iterator' = Selected(p, on, ts) /\ viewing' = on
      /\ delivered' = <<>> /\ skipped' = {}
  BY DEF Reset
<1>2. Selected(p, on, ts) = Selected(file, viewing, filtered)'
  BY <1>1 DEF Selected, Message
<1>3. Output' = {}
  BY <1>1 DEF Output
<1>4. ReaderTypes'
  BY <1>1, EmptySeq DEF ReaderTypes
<1>5. Accounted'
  BY <1>1, <1>2, <1>3 DEF Accounted
<1> QED  BY <1>4, <1>5 DEF AInv

(* No message is touched.                                                  *)
LEMMA KeptInv ==
  ASSUME AInv, UNCHANGED <<disk, file, iterator, filtered, viewing, delivered, skipped>>
  PROVE  AInv'
<1>1. Selected(file, viewing, filtered)' = Selected(file, viewing, filtered)
  BY DEF Selected, Message
<1>2. Output' = Output
  BY DEF Output
<1>3. \A i : Incompatible(i)' = Incompatible(i)
  BY DEF Incompatible, Schemaless, Message
<1>4. ReaderTypes'
  BY DEF AInv, ReaderTypes
<1>5. Accounted'
  BY <1>1, <1>2, <1>3 DEF AInv, Accounted
<1> QED  BY <1>4, <1>5 DEF AInv

LEMMA OpenTraceInv ==
  ASSUME AInv, NEW p \in Paths, OpenTrace(p), UNCHANGED disk
  PROVE  AInv'
<1>1. PICK on : OpenRefused(p, on) \/ OpenReadable(p, on)
  BY DEF OpenTrace
<1>2. CASE OpenRefused(p, on)
  BY <1>2, KeptInv DEF OpenRefused
<1>3. CASE OpenReadable(p, on)
  BY <1>3, ResetInv DEF OpenReadable, AInv
<1> QED  BY <1>1, <1>2, <1>3

LEMMA CloseTraceInv == ASSUME AInv, CloseTrace, UNCHANGED disk PROVE AInv'
  BY EmptySeq DEF AInv, ReaderTypes, Accounted, CloseTrace

LEMMA SetTopicsInv ==
  ASSUME AInv, NEW ts \in SUBSET Topics, SetTopics(ts), UNCHANGED disk
  PROVE  AInv'
<1>1. CASE file = None
  BY <1>1 DEF SetTopics, AInv, ReaderTypes, Accounted
<1>2. CASE file # None
  <2>1. file \in Paths /\ file' = file /\ filtered' = ts /\ Reset(file, FilterFor(ts), ts)
    BY <1>2 DEF SetTopics, AInv, ReaderTypes
  <2> QED  BY <2>1, ResetInv DEF AInv
<1> QED  BY <1>1, <1>2

(* The loop of ReadMessage passes over what comes before i and stops.      *)
LEMMA PassedOver ==
  ASSUME AInv, file # None, NEW i \in Stops, IsFirst(i, Stops)
  PROVE  /\ iterator \subseteq Nat /\ Output \subseteq Nat /\ skipped \subseteq Nat
         /\ i \in iterator
         /\ \A j \in iterator : j < i => Incompatible(j)
<1>1. Selected(file, viewing, filtered) \subseteq Nat
  BY DEF AInv, ReaderTypes, Numbered, Selected
<1>2. iterator \subseteq Nat /\ Output \subseteq Nat /\ skipped \subseteq Nat
  BY <1>1 DEF AInv, Accounted
<1>3. i \in iterator
  BY DEF Stops
<1>4. ASSUME NEW j \in iterator, j < i  PROVE Incompatible(j)
  <2>1. j \notin Stops
    BY <1>2, <1>3, <1>4 DEF IsFirst
  <2> QED  BY <2>1 DEF Stops
<1> QED  BY <1>2, <1>3, <1>4

(* A set of numbers cut at one of them.                                    *)
Below(I, i) == {j \in I : j < i}
From(I, i)  == {j \in I : j >= i}
After(I, i) == {j \in I : j > i}

(* What is to come, what was delivered and what was passed over.           *)
Split(I, O, S) == /\ I \intersect (O \union S) = {} /\ O \intersect S = {}
                  /\ \A j \in I, k \in O \union S : k < j

LEMMA Cut ==
  ASSUME NEW I \in SUBSET Nat, NEW i \in I
  PROVE  /\ I = From(I, i) \union Below(I, i)
         /\ From(I, i) = After(I, i) \union {i}
         /\ From(I, i) \intersect Below(I, i) = {}
         /\ i \notin After(I, i)
<1>1. \A j \in I : j \in Nat /\ i \in Nat
  OBVIOUS
<1>2. \A j \in I : (j >= i) = ~(j < i)
  BY <1>1
<1>3. \A j \in I : (j >= i) = (j > i \/ j = i)
  BY <1>1
<1>4. ~(i > i)
  BY <1>1
<1>5. I = From(I, i) \union Below(I, i)
  BY <1>2 DEF From, Below
<1>6. From(I, i) = After(I, i) \union {i}
  BY <1>3 DEF From, After
<1>7. From(I, i) \intersect Below(I, i) = {}
  BY <1>2 DEF From, Below
<1>8. i \notin After(I, i)
  BY <1>4 DEF After
<1> QED  BY <1>5, <1>6, <1>7, <1>8

(* What is below i is passed over.                                         *)
LEMMA Moved ==
  ASSUME NEW I \in SUBSET Nat, NEW O \in SUBSET Nat, NEW S \in SUBSET Nat, NEW i \in I,
         Split(I, O, S)
  PROVE  /\ From(I, i) \union O \union (S \union Below(I, i)) = I \union O \union S
         /\ Split(From(I, i), O, S \union Below(I, i))
<1>1. I = From(I, i) \union Below(I, i) /\ From(I, i) \intersect Below(I, i) = {}
  BY Cut
<1>2. From(I, i) \union O \union (S \union Below(I, i)) = I \union O \union S
  BY <1>1
<1>3. /\ I \intersect (O \union S) = {} /\ O \intersect S = {}
      /\ \A j \in I, k \in O \union S : k < j
  BY DEF Split
<1>4. /\ From(I, i) \intersect (O \union (S \union Below(I, i))) = {}
      /\ O \intersect (S \union Below(I, i)) = {}
  BY <1>1, <1>3
<1>5. ASSUME NEW j \in From(I, i), NEW k \in O \union (S \union Below(I, i))  PROVE k < j
  <2>1. j \in I
    BY <1>1
  <2>2. CASE k \in O \union S
    BY <1>3, <2>1, <2>2
  <2>3. CASE k \in Below(I, i)
    <3>1. k \in Nat /\ k < i /\ i \in Nat  BY <2>3 DEF Below
    <3>2. j \in Nat /\ j >= i  BY <2>1 DEF From
    <3> QED  BY <3>1, <3>2
  <2> QED  BY <2>2, <2>3
<1> QED  BY <1>2, <1>4, <1>5 DEF Split

(* Then i is delivered.                                                    *)
LEMMA Taken ==
  ASSUME NEW I \in SUBSET Nat, NEW O \in SUBSET Nat, NEW T \in SUBSET Nat, NEW i \in I,
         Split(From(I, i), O, T)
  PROVE  /\ After(I, i) \union (O \union {i}) \union T = From(I, i) \union O \union T
         /\ Split(After(I, i), O \union {i}, T)
<1>1. From(I, i) = After(I, i) \union {i} /\ i \notin After(I, i)
  BY Cut
<1>2. After(I, i) \union (O \union {i}) \union T = From(I, i) \union O \union T
  BY <1>1
<1>3. /\ From(I, i) \intersect (O \union T) = {} /\ O \intersect T = {}
      /\ \A j \in From(I, i), k \in O \union T : k < j
  BY DEF Split
<1>4. /\ After(I, i) \intersect ((O \union {i}) \union T) = {}
      /\ (O \union {i}) \intersect T = {}
  BY <1>1, <1>3
<1>5. ASSUME NEW j \in After(I, i), NEW k \in (O \union {i}) \union T  PROVE k < j
  <2>1. CASE k = i
    <3>1. j \in Nat /\ i \in Nat /\ j > i  BY DEF After
    <3> QED  BY <2>1, <3>1
  <2>2. CASE k \in O \union T
    BY <1>1, <1>3, <2>2
  <2> QED  BY <2>1, <2>2
<1> QED  BY <1>2, <1>4, <1>5 DEF Split

LEMMA ReadSkipsAllInv == ASSUME AInv, ReadSkipsAll, UNCHANGED disk PROVE AInv'
<1>1. /\ file # None /\ iterator' = {} /\ skipped' = skipped \union iterator
      /\ UNCHANGED <<file, filtered, viewing, delivered, skip>>
  BY DEF ReadSkipsAll, HasNext
<1>2. \A i \in iterator : Incompatible(i)
  BY DEF ReadSkipsAll, Stops
<1>3. Output' = Output
  BY <1>1 DEF Output
<1>4. Selected(file, viewing, filtered)' = Selected(file, viewing, filtered)
  BY <1>1 DEF Selected, Message
<1>5. \A i : Incompatible(i)' = Incompatible(i)
  BY <1>1 DEF Incompatible, Schemaless, Message
<1>6. ReaderTypes'
  BY <1>1 DEF AInv, ReaderTypes
<1>7. Accounted'
  BY <1>1, <1>2, <1>3, <1>4, <1>5 DEF AInv, Accounted
<1> QED  BY <1>6, <1>7 DEF AInv

LEMMA ReadThrowsInv == ASSUME AInv, ReadThrows, UNCHANGED disk PROVE AInv'
<1>1. /\ file # None
      /\ UNCHANGED <<file, filtered, viewing, delivered, skip>>
  BY DEF ReadThrows, HasNext
<1>2. PICK i \in Stops : /\ IsFirst(i, Stops)
                         /\ iterator' = {j \in iterator : j >= i}
                         /\ skipped' = skipped \union {j \in iterator : j < i}
  BY DEF ReadThrows
<1>3. /\ iterator \subseteq Nat /\ Output \subseteq Nat /\ skipped \subseteq Nat
      /\ i \in iterator /\ \A j \in iterator : j < i => Incompatible(j)
  BY <1>1, <1>2, PassedOver
<1>4. Output' = Output
  BY <1>1 DEF Output
<1>5. Selected(file, viewing, filtered)' = Selected(file, viewing, filtered)
  BY <1>1 DEF Selected, Message
<1>6. \A j : Incompatible(j)' = Incompatible(j)
  BY <1>1 DEF Incompatible, Schemaless, Message
<1>7. ReaderTypes'
  BY <1>1 DEF AInv, ReaderTypes
<1>8. /\ iterator \union Output \union skipped = Selected(file, viewing, filtered)
      /\ Split(iterator, Output, skipped)
      /\ \A j \in skipped : Incompatible(j)
  BY <1>1 DEF AInv, Accounted, Split
<1>9. iterator' = From(iterator, i) /\ skipped' = skipped \union Below(iterator, i)
  BY <1>2 DEF From, Below
<1>10. /\ iterator' \union Output \union skipped' = Selected(file, viewing, filtered)
       /\ Split(iterator', Output, skipped')
  <2>1. /\ iterator \in SUBSET Nat /\ Output \in SUBSET Nat /\ skipped \in SUBSET Nat
        /\ i \in iterator
    BY <1>3
  <2>2. /\ From(iterator, i) \union Output \union (skipped \union Below(iterator, i))
             = iterator \union Output \union skipped
        /\ Split(From(iterator, i), Output, skipped \union Below(iterator, i))
    BY ONLY <2>1, <1>8, Moved
  <2> QED  BY <1>8, <1>9, <2>2
<1>11. \A j \in skipped' : Incompatible(j)
  BY <1>2, <1>3, <1>8
<1>12. \A m, n \in DOMAIN delivered' : m < n => delivered'[m] < delivered'[n]
  BY <1>1 DEF AInv, Accounted
<1>13. Accounted'
  BY <1>4, <1>5, <1>6, <1>10, <1>11, <1>12 DEF Accounted, Split
<1> QED  BY <1>7, <1>13 DEF AInv

LEMMA ReadYieldsInv == ASSUME AInv, ReadYields, UNCHANGED disk PROVE AInv'
<1>1. /\ file # None
      /\ UNCHANGED <<file, filtered, viewing, skip>>
  BY DEF ReadYields, HasNext
<1>2. PICK i \in Stops : /\ IsFirst(i, Stops)
                         /\ iterator' = {j \in iterator : j > i}
                         /\ skipped' = skipped \union {j \in iterator : j < i}
                         /\ delivered' = Append(delivered, i)
  BY DEF ReadYields
<1>3. /\ iterator \subseteq Nat /\ Output \subseteq Nat /\ skipped \subseteq Nat
      /\ i \in iterator /\ \A j \in iterator : j < i => Incompatible(j)
  BY <1>1, <1>2, PassedOver
<1>4. /\ delivered' \in Seq(Nat)
      /\ DOMAIN delivered' = 1..(Len(delivered) + 1) /\ DOMAIN delivered = 1..Len(delivered)
      /\ \A n \in 1..Len(delivered) : delivered'[n] = delivered[n]
      /\ delivered'[Len(delivered) + 1] = i /\ Len(delivered) \in Nat
  BY <1>2, <1>3, AppendFacts DEF AInv, ReaderTypes
<1>5. Output' = Output \union {i}
  <2>1. Output' \subseteq Output \union {i}  BY <1>4 DEF Output
  <2>2. Output \subseteq Output'
    <3> SUFFICES ASSUME NEW n \in 1..Len(delivered)  PROVE delivered[n] \in Output'
      BY <1>4 DEF Output
    <3>1. n \in DOMAIN delivered' /\ delivered'[n] = delivered[n]  BY <1>4
    <3> QED  BY <3>1 DEF Output
  <2>3. i \in Output'
    <3>1. Len(delivered) + 1 \in DOMAIN delivered'  BY <1>4
    <3> QED  BY <1>4, <3>1 DEF Output
  <2> QED  BY <2>1, <2>2, <2>3
<1>6. Selected(file, viewing, filtered)' = Selected(file, viewing, filtered)
  BY <1>1 DEF Selected, Message
<1>7. \A j : Incompatible(j)' = Incompatible(j)
  BY <1>1 DEF Incompatible, Schemaless, Message
<1>8. ReaderTypes'
  BY <1>1, <1>4 DEF AInv, ReaderTypes
<1>9. \A m, n \in DOMAIN delivered' : m < n => delivered'[m] < delivered'[n]
  <2> SUFFICES ASSUME NEW m \in 1..(Len(delivered) + 1), NEW n \in 1..(Len(delivered) + 1),
                      m < n
               PROVE  delivered'[m] < delivered'[n]
    BY <1>4
  <2>1. m \in DOMAIN delivered /\ delivered'[m] = delivered[m]
    BY <1>4
  <2>2. CASE n = Len(delivered) + 1
    <3>1. delivered[m] \in Output  BY <2>1 DEF Output
    <3>2. delivered[m] < i  BY <1>1, <1>3, <3>1 DEF AInv, Accounted
    <3> QED  BY <1>4, <2>1, <2>2, <3>2
  <2>3. CASE n \in 1..Len(delivered)
    <3>1. n \in DOMAIN delivered /\ delivered'[n] = delivered[n]  BY <1>4, <2>3
    <3> QED  BY <1>1, <2>1, <3>1 DEF AInv, Accounted
  <2> QED  BY <1>4, <2>2, <2>3
<1>10. /\ iterator \union Output \union skipped = Selected(file, viewing, filtered)
       /\ Split(iterator, Output, skipped)
       /\ \A j \in skipped : Incompatible(j)
  BY <1>1 DEF AInv, Accounted, Split
<1>11. iterator' = After(iterator, i) /\ skipped' = skipped \union Below(iterator, i)
  BY <1>2 DEF After, Below
<1>12. /\ From(iterator, i) \union Output \union skipped' = Selected(file, viewing, filtered)
       /\ Split(From(iterator, i), Output, skipped')
  <2>1. /\ iterator \in SUBSET Nat /\ Output \in SUBSET Nat /\ skipped \in SUBSET Nat
        /\ i \in iterator
    BY <1>3
  <2>2. /\ From(iterator, i) \union Output \union (skipped \union Below(iterator, i))
             = iterator \union Output \union skipped
        /\ Split(From(iterator, i), Output, skipped \union Below(iterator, i))
    BY ONLY <2>1, <1>10, Moved
  <2> QED  BY <1>10, <1>11, <2>2
<1>13. skipped' \subseteq Nat
  BY <1>2, <1>3
<1>14. /\ iterator' \union Output' \union skipped' = Selected(file, viewing, filtered)
       /\ Split(iterator', Output', skipped')
  <2>1. /\ iterator \in SUBSET Nat /\ Output \in SUBSET Nat /\ skipped' \in SUBSET Nat
        /\ i \in iterator
    BY <1>3, <1>13
  <2>2. /\ After(iterator, i) \union (Output \union {i}) \union skipped'
             = From(iterator, i) \union Output \union skipped'
        /\ Split(After(iterator, i), Output \union {i}, skipped')
    BY ONLY <2>1, <1>12, Taken
  <2> QED  BY <1>5, <1>11, <1>12, <2>2
<1>15. \A j \in skipped' : Incompatible(j)
  BY <1>2, <1>3, <1>10
<1>16. Accounted'
  BY <1>6, <1>7, <1>9, <1>14, <1>15 DEF Accounted, Split
<1> QED  BY <1>8, <1>16 DEF AInv

LEMMA ReadingInv == ASSUME AInv, Reading PROVE AInv'
<1>0. UNCHANGED disk
  BY DEF Reading
<1>1. ASSUME NEW p \in Paths, OpenTrace(p)  PROVE AInv'
  BY <1>0, <1>1, OpenTraceInv
<1>2. CASE CloseTrace  BY <1>0, <1>2, CloseTraceInv
<1>3. ASSUME NEW ts \in SUBSET Topics, SetTopics(ts)  PROVE AInv'
  BY <1>0, <1>3, SetTopicsInv
<1>4. ASSUME NEW b \in BOOLEAN, SetSkipIncompatibleMessages(b)  PROVE AInv'
  BY <1>0, <1>4, KeptInv DEF SetSkipIncompatibleMessages
<1>5. CASE ReadMessage
  <2>1. CASE ReadNothing  BY <1>0, <2>1, KeptInv DEF ReadNothing
  <2> QED  BY <1>0, <1>5, <2>1, ReadSkipsAllInv, ReadThrowsInv, ReadYieldsInv DEF ReadMessage
<1> QED  BY <1>1, <1>2, <1>3, <1>4, <1>5 DEF Reading, ReaderNext

LEMMA FilesNumbered == FileInit => AInv
<1> SUFFICES ASSUME FileInit PROVE AInv
  OBVIOUS
<1>1. disk \in [Paths -> Files]
  BY FilesAssumption DEF FileInit
<1>2. \A p \in Paths : DOMAIN disk[p].messages \subseteq Nat
  <2> TAKE p \in Paths
  <2>1. disk[p].messages \in Seq(Records)  BY <1>1 DEF Files
  <2> QED  BY <2>1
<1>3. ReaderTypes
  BY <1>1, <1>2, EmptySeq DEF FileInit, ReaderInit, ReaderTypes, Numbered
<1> QED  BY <1>3 DEF FileInit, ReaderInit, AInv, Accounted

(* C++ MCAP reader, ReadMessage(), SetTopics(), Open() and Close(), on any *)
(* files and on those the writer leaves behind: no message the topics      *)
(* select is lost, doubled or reordered, and only incompatible ones are    *)
(* passed over, whatever is thrown in between.                             *)
THEOREM ReaderAccounts == FileSpec => []Accounted
<1>1. FileInit => AInv
  BY FilesNumbered
<1>2. AInv /\ [FileNext]_allVars => AInv'
  <2>1. ASSUME AInv, UNCHANGED allVars  PROVE AInv'
    BY <2>1, KeptInv DEF allVars, readerVars
  <2> QED  BY <2>1, WritingInv, ReadingInv DEF FileNext
<1>3. AInv => Accounted
  BY DEF AInv
<1> QED  BY <1>1, <1>2, <1>3, PTL DEF FileSpec

-----------------------------------------------------------------------------
(* The writer: its types, and what its maps know of the file               *)

(* Messages lie on channels that have a schema.                            *)
Linked(w) ==
    \A k \in DOMAIN w.messages :
       /\ w.messages[k].channel \in DOMAIN w.channels
       /\ w.channels[w.messages[k].channel].schema \in DOMAIN w.schemas

(* The ids the writer remembers are those of its topics and types.         *)
Known(w, ids, names, ss) ==
    /\ \A t \in Topics : ids[t] # 0 =>
          /\ ids[t] \in DOMAIN w.channels
          /\ w.channels[ids[t]].topic = t
          /\ w.channels[ids[t]].schema \in DOMAIN w.schemas
          /\ w.schemas[w.channels[ids[t]].schema] = names[t]
    /\ \A type \in MessageTypes : ss[type] # 0 =>
          ss[type] \in DOMAIN w.schemas /\ w.schemas[ss[type]] = type

(* The messages in the file are those that were accepted.                  *)
Carries(w, ids, acc) ==
    /\ Len(acc) = Len(w.messages)
    /\ \A k \in 1..Len(acc) : ids[acc[k].topic] = w.messages[k].channel

(* The required record is there once before the first message.             *)
Titled(w, required, early) ==
    /\ ~required => w.trace = <<>>
    /\ required /\ ~early => Len(w.trace) = 1
    /\ ~required => w.messages = <<>>

AcceptedRecords == [topic : Topics, message : Messages, at : Nat]

(* Of every file, and of the first one of a writer object.                 *)
FileSound == /\ WriterTypeOK /\ Linked(mcap) /\ Len(mcap.messages) <= MaxMessages
             /\ opens = 0 => ~is_open /\ mcap.messages = <<>>

InFirstFile == opens = 0 \/ (opens = 1 /\ is_open)

FirstSound == InFirstFile => /\ Known(mcap, topic_to_channel_id, topic_to_schema_name, schemas)
                             /\ Carries(mcap, topic_to_channel_id, accepted)
                             /\ Titled(mcap, required_metadata_added, premature)

WriterSound == FileSound /\ FirstSound

LEMMA McapFields ==
  ASSUME NEW w \in Mcaps
  PROVE  /\ w.schemas \in Seq(MessageTypes)
         /\ w.channels \in Seq([topic : Topics, schema : Nat \ {0}])
         /\ w.messages \in Seq([channel : Nat, message : Messages])
         /\ w.trace \in Seq(Nat)
         /\ DOMAIN w.schemas = 1..Len(w.schemas) /\ Len(w.schemas) \in Nat
         /\ DOMAIN w.channels = 1..Len(w.channels) /\ Len(w.channels) \in Nat
         /\ DOMAIN w.messages = 1..Len(w.messages) /\ Len(w.messages) \in Nat
         /\ DOMAIN w.trace = 1..Len(w.trace) /\ Len(w.trace) \in Nat
  BY DEF Mcaps

LEMMA TraceAdded ==
  ASSUME NEW w \in Mcaps
  PROVE  /\ WithTrace(w) \in Mcaps
         /\ WithTrace(w).schemas = w.schemas /\ WithTrace(w).channels = w.channels
         /\ WithTrace(w).messages = w.messages
         /\ Len(WithTrace(w).trace) = Len(w.trace) + 1
<1>1. Append(w.trace, Len(w.messages)) \in Seq(Nat)
      /\ Len(Append(w.trace, Len(w.messages))) = Len(w.trace) + 1
  BY McapFields, AppendFacts
<1>2. WithTrace(w) = [w EXCEPT !.trace = Append(w.trace, Len(w.messages))]
  BY DEF WithTrace
<1> QED
  BY <1>1, <1>2 DEF Mcaps

(* Nothing but the channels, schemas and messages of a file matters here.  *)
LEMMA SameContents ==
  ASSUME NEW w, NEW v, v.schemas = w.schemas, v.channels = w.channels,
         v.messages = w.messages
  PROVE  /\ Linked(w) => Linked(v)
         /\ \A ids, names, ss : Known(w, ids, names, ss) => Known(v, ids, names, ss)
         /\ \A ids, acc : Carries(w, ids, acc) => Carries(v, ids, acc)
  BY DEF Linked, Known, Carries

LEMMA ChannelAdded ==
  ASSUME NEW w \in Mcaps, NEW topic \in Topics, NEW type \in MessageTypes, WriterTypeOK
  PROVE  LET v == WithChannel(w, topic, type)
             c == Len(w.channels) + 1
             id == SchemaId(w, type)
         IN /\ v \in Mcaps /\ v.messages = w.messages /\ v.trace = w.trace
            /\ DOMAIN v.channels = 1..c
            /\ \A k \in 1..Len(w.channels) : v.channels[k] = w.channels[k]
            /\ v.channels[c].topic = topic /\ v.channels[c].schema = id
            /\ id \in Nat \ {0}
            /\ DOMAIN w.schemas \subseteq DOMAIN v.schemas
            /\ \A k \in DOMAIN w.schemas : v.schemas[k] = w.schemas[k]
            /\ schemas[type] = 0 => id \in DOMAIN v.schemas /\ v.schemas[id] = type
            /\ schemas[type] # 0 => id = schemas[type]
<1> DEFINE id == SchemaId(w, type)
           ch == [topic |-> topic, schema |-> id]
           cs == Append(w.channels, ch)
           ss == IF schemas[type] = 0 THEN Append(w.schemas, type) ELSE w.schemas
<1>1. id \in Nat \ {0}
  BY McapFields DEF SchemaId, WriterTypeOK
<1>2. ch \in [topic : Topics, schema : Nat \ {0}] /\ ch.topic = topic /\ ch.schema = id
  BY <1>1
<1> HIDE DEF ch
<1>3. /\ cs \in Seq([topic : Topics, schema : Nat \ {0}])
      /\ DOMAIN cs = 1..(Len(w.channels) + 1) /\ cs[Len(w.channels) + 1] = ch
      /\ \A k \in 1..Len(w.channels) : cs[k] = w.channels[k]
  <2> DEFINE Channels == [topic : Topics, schema : Nat \ {0}]
             chans == w.channels
  <2>1. ch \in Channels /\ chans \in Seq(Channels)
    BY <1>2, McapFields
  <2> HIDE DEF Channels, chans
  <2>2. /\ Append(chans, ch) \in Seq(Channels)
        /\ DOMAIN Append(chans, ch) = 1..(Len(chans) + 1)
        /\ Append(chans, ch)[Len(chans) + 1] = ch
        /\ \A k \in 1..Len(chans) : Append(chans, ch)[k] = chans[k]
    BY <2>1, AppendFacts
  <2> QED  BY <2>2 DEF Channels, chans
<1>4. /\ Append(w.schemas, type) \in Seq(MessageTypes)
      /\ DOMAIN Append(w.schemas, type) = 1..(Len(w.schemas) + 1)
      /\ Append(w.schemas, type)[Len(w.schemas) + 1] = type
      /\ \A k \in 1..Len(w.schemas) : Append(w.schemas, type)[k] = w.schemas[k]
  BY McapFields, AppendFacts
<1>5. /\ ss \in Seq(MessageTypes) /\ DOMAIN w.schemas \subseteq DOMAIN ss
      /\ \A k \in DOMAIN w.schemas : ss[k] = w.schemas[k]
  BY <1>4, McapFields
<1>6. schemas[type] = 0 => id = Len(w.schemas) + 1 /\ id \in DOMAIN ss /\ ss[id] = type
  BY <1>4, McapFields DEF SchemaId
<1>7. schemas[type] # 0 => id = schemas[type]
  BY DEF SchemaId
<1>8. WithChannel(w, topic, type) = [w EXCEPT !.schemas = ss, !.channels = cs]
  BY DEF WithChannel, ch
<1> HIDE DEF cs, ss, id
<1>9. /\ WithChannel(w, topic, type) \in Mcaps
      /\ WithChannel(w, topic, type).channels = cs /\ WithChannel(w, topic, type).schemas = ss
      /\ WithChannel(w, topic, type).messages = w.messages
      /\ WithChannel(w, topic, type).trace = w.trace
  BY <1>3, <1>5, <1>8 DEF Mcaps
<1> QED
  BY <1>1, <1>2, <1>3, <1>5, <1>6, <1>7, <1>9 DEF id

LEMMA MessageTaken ==
  ASSUME NEW w \in Mcaps, NEW c, NEW m \in Messages, NEW topic \in Topics,
         Linked(w), accepted \in Seq(AcceptedRecords), Take(w, c, m, topic)
  PROVE  /\ mcap' \in Mcaps /\ Linked(mcap')
         /\ mcap'.schemas = w.schemas /\ mcap'.channels = w.channels
         /\ mcap'.trace = w.trace
         /\ Len(mcap'.messages) <= MaxMessages
         /\ accepted' \in Seq(AcceptedRecords)
         /\ \A ids : Carries(w, ids, accepted) /\ ids[topic] = c => Carries(mcap', ids, accepted')
         /\ ret' = "true" /\ good' \in BOOLEAN
<1> DEFINE x == [channel |-> c, message |-> m]
           r == [topic |-> topic, message |-> m, at |-> Len(w.messages) + 1]
           Written == [channel : Nat, message : Messages]
           ms == Append(w.messages, x)
<1>1. /\ c \in DOMAIN w.channels /\ w.channels[c].schema \in DOMAIN w.schemas
      /\ Len(w.messages) < MaxMessages
      /\ mcap' = [w EXCEPT !.messages = ms]
      /\ accepted' = Append(accepted, r) /\ ret' = "true" /\ good' \in BOOLEAN
  BY DEF Take
<1>2. x \in Written /\ x.channel = c /\ w.messages \in Seq(Written)
  <2>1. c \in Nat
    BY <1>1, McapFields
  <2>2. x \in Written /\ x.channel = c
    BY <2>1
  <2>3. w.messages \in Seq(Written)
    BY McapFields
  <2> QED  BY <2>2, <2>3
<1>3. r \in AcceptedRecords /\ r.topic = topic
  BY McapFields DEF AcceptedRecords
<1> HIDE DEF x, r, Written
<1>4. /\ ms \in Seq(Written) /\ Len(ms) = Len(w.messages) + 1
      /\ DOMAIN ms = 1..(Len(w.messages) + 1) /\ ms[Len(w.messages) + 1] = x
      /\ \A k \in 1..Len(w.messages) : ms[k] = w.messages[k]
      /\ Len(w.messages) \in Nat /\ DOMAIN w.messages = 1..Len(w.messages)
  BY <1>2, AppendFacts
<1>5. /\ accepted' \in Seq(AcceptedRecords) /\ Len(accepted') = Len(accepted) + 1
      /\ accepted'[Len(accepted) + 1] = r
      /\ \A k \in 1..Len(accepted) : accepted'[k] = accepted[k]
      /\ Len(accepted) \in Nat
  BY <1>1, <1>3, AppendFacts
<1> HIDE DEF ms
<1>6. /\ mcap' \in Mcaps /\ mcap'.messages = ms /\ mcap'.schemas = w.schemas
      /\ mcap'.channels = w.channels /\ mcap'.trace = w.trace
  <2>1. ms \in Seq([channel : Nat, message : Messages])
    BY <1>4 DEF Written
  <2> QED  BY <1>1, <2>1 DEF Mcaps
<1>7. Linked(mcap')
  <2> SUFFICES ASSUME NEW k \in 1..(Len(w.messages) + 1)
               PROVE  /\ ms[k].channel \in DOMAIN w.channels
                      /\ w.channels[ms[k].channel].schema \in DOMAIN w.schemas
    BY <1>4, <1>6 DEF Linked
  <2>1. CASE k = Len(w.messages) + 1
    BY <1>1, <1>2, <1>4, <2>1
  <2>2. CASE k \in 1..Len(w.messages)
    BY <1>4, <2>2 DEF Linked
  <2> QED  BY <1>4, <2>1, <2>2
<1>8. Len(mcap'.messages) <= MaxMessages
  BY <1>1, <1>4, <1>6, WriterAssumption
<1>9. ASSUME NEW ids, Carries(w, ids, accepted), ids[topic] = c
      PROVE  Carries(mcap', ids, accepted')
  <2>1. Len(accepted) = Len(w.messages)
    BY <1>9 DEF Carries
  <2> SUFFICES ASSUME NEW k \in 1..(Len(accepted) + 1)
               PROVE  ids[accepted'[k].topic] = ms[k].channel
    BY <1>4, <1>5, <1>6, <2>1 DEF Carries
  <2>2. CASE k = Len(accepted) + 1
    BY <1>2, <1>3, <1>4, <1>5, <1>9, <2>1, <2>2
  <2>3. CASE k \in 1..Len(accepted)
    BY <1>4, <1>5, <1>9, <2>1, <2>3 DEF Carries
  <2> QED  BY <1>5, <2>2, <2>3
<1> QED  BY <1>1, <1>5, <1>6, <1>7, <1>8, <1>9

(* A new channel: the maps follow the file.                                *)
LEMMA Registered ==
  ASSUME NEW w \in Mcaps, NEW topic \in Topics, NEW type \in MessageTypes, WriterTypeOK,
         topic_to_channel_id[topic] = 0, Register(w, topic, type), Linked(w)
  PROVE  LET v == WithChannel(w, topic, type)
         IN /\ v \in Mcaps /\ v.messages = w.messages /\ v.trace = w.trace /\ Linked(v)
            /\ topic_to_channel_id' \in [Topics -> Nat]
            /\ topic_to_channel_id'[topic] = Len(w.channels) + 1
            /\ topic_to_schema_name' \in [Topics -> MessageTypes \union {None}]
            /\ schemas' \in [MessageTypes -> Nat]
            /\ Known(w, topic_to_channel_id, topic_to_schema_name, schemas) =>
                  Known(v, topic_to_channel_id', topic_to_schema_name', schemas')
            /\ Carries(w, topic_to_channel_id, accepted) =>
                  Carries(v, topic_to_channel_id', accepted)
<1> DEFINE v == WithChannel(w, topic, type)
           c == Len(w.channels) + 1
           id == SchemaId(w, type)
<1>1. /\ v \in Mcaps /\ v.messages = w.messages /\ v.trace = w.trace
      /\ DOMAIN v.channels = 1..c
      /\ \A k \in 1..Len(w.channels) : v.channels[k] = w.channels[k]
      /\ v.channels[c].topic = topic /\ v.channels[c].schema = id
      /\ id \in Nat \ {0}
      /\ DOMAIN w.schemas \subseteq DOMAIN v.schemas
      /\ \A k \in DOMAIN w.schemas : v.schemas[k] = w.schemas[k]
      /\ schemas[type] = 0 => id \in DOMAIN v.schemas /\ v.schemas[id] = type
      /\ schemas[type] # 0 => id = schemas[type]
  BY ChannelAdded
<1>2. /\ Len(w.channels) \in Nat /\ DOMAIN w.channels = 1..Len(w.channels)
      /\ c \in Nat /\ c # 0 /\ c \in 1..c /\ 1..Len(w.channels) \subseteq 1..c
  BY McapFields
<1>3. /\ schemas' = [schemas EXCEPT ![type] = id]
      /\ topic_to_channel_id' = [topic_to_channel_id EXCEPT ![topic] = c]
      /\ topic_to_schema_name' = [topic_to_schema_name EXCEPT ![topic] = type]
  BY DEF Register
<1> HIDE DEF v, c, id
<1>4. /\ topic_to_channel_id' \in [Topics -> Nat] /\ topic_to_channel_id'[topic] = c
      /\ topic_to_schema_name' \in [Topics -> MessageTypes \union {None}]
      /\ topic_to_schema_name'[topic] = type
      /\ schemas' \in [MessageTypes -> Nat] /\ schemas'[type] = id
      /\ \A t \in Topics \ {topic} : /\ topic_to_channel_id'[t] = topic_to_channel_id[t]
                                     /\ topic_to_schema_name'[t] = topic_to_schema_name[t]
      /\ \A y \in MessageTypes \ {type} : schemas'[y] = schemas[y]
  BY <1>1, <1>2, <1>3 DEF WriterTypeOK
<1>5. Linked(v)
  BY <1>1, <1>2 DEF Linked
<1>6. ASSUME Known(w, topic_to_channel_id, topic_to_schema_name, schemas)
      PROVE  Known(v, topic_to_channel_id', topic_to_schema_name', schemas')
  <2>1. id \in DOMAIN v.schemas /\ v.schemas[id] = type
    BY <1>1, <1>6 DEF Known
  <2>2. ASSUME NEW t \in Topics, topic_to_channel_id'[t] # 0
        PROVE  /\ topic_to_channel_id'[t] \in DOMAIN v.channels
               /\ v.channels[topic_to_channel_id'[t]].topic = t
               /\ v.channels[topic_to_channel_id'[t]].schema \in DOMAIN v.schemas
               /\ v.schemas[v.channels[topic_to_channel_id'[t]].schema] = topic_to_schema_name'[t]
    <3>1. CASE t = topic
      BY <1>1, <1>2, <1>4, <2>1, <3>1
    <3>2. CASE t # topic
      BY <1>1, <1>2, <1>4, <1>6, <2>2, <3>2, SMTT(60) DEF Known
    <3> QED  BY <3>1, <3>2
  <2>3. ASSUME NEW y \in MessageTypes, schemas'[y] # 0
        PROVE  schemas'[y] \in DOMAIN v.schemas /\ v.schemas[schemas'[y]] = y
    <3>1. CASE y = type
      BY <1>4, <2>1, <3>1
    <3>2. CASE y # type
      BY <1>1, <1>4, <1>6, <2>3, <3>2 DEF Known
    <3> QED  BY <3>1, <3>2
  <2> QED  BY <2>2, <2>3 DEF Known
<1>7. ASSUME Carries(w, topic_to_channel_id, accepted)
      PROVE  Carries(v, topic_to_channel_id', accepted)
  <2> SUFFICES ASSUME NEW k \in 1..Len(accepted)
               PROVE  topic_to_channel_id'[accepted[k].topic] = w.messages[k].channel
    BY <1>1, <1>7 DEF Carries
  <2>1. k \in DOMAIN accepted /\ accepted[k].topic \in Topics
    <3>1. accepted \in Seq(AcceptedRecords)
      BY DEF WriterTypeOK, AcceptedRecords
    <3>2. k \in DOMAIN accepted /\ accepted[k] \in AcceptedRecords
      BY <3>1
    <3> QED  BY <3>2 DEF AcceptedRecords
  <2>2. topic_to_channel_id[accepted[k].topic] = w.messages[k].channel
    BY <1>7 DEF Carries
  <2>3. k \in DOMAIN w.messages
    BY <1>7, McapFields DEF Carries
  <2>4. w.messages[k].channel # 0
    BY <1>2, <2>3 DEF Linked
  <2> QED  BY <1>4, <2>1, <2>2, <2>4
<1> QED  BY <1>1, <1>4, <1>5, <1>6, <1>7 DEF v, c

(* The required record comes before the first message.                     *)
LEMMA RequiredAdded ==
  ASSUME WriterSound
  PROVE  LET w == WithRequired
         IN /\ w \in Mcaps /\ Linked(w) /\ Len(w.messages) <= MaxMessages
            /\ w.messages = mcap.messages
            /\ InFirstFile =>
                  /\ Known(w, topic_to_channel_id, topic_to_schema_name, schemas)
                  /\ Carries(w, topic_to_channel_id, accepted)
                  /\ ~premature => Len(w.trace) = 1
<1>1. mcap \in Mcaps /\ required_metadata_added \in BOOLEAN /\ premature \in BOOLEAN
  BY DEF WriterSound, FileSound, WriterTypeOK
<1>2. CASE required_metadata_added
  <2>1. WithRequired = mcap
    BY <1>2 DEF WithRequired
  <2> QED  BY <1>1, <1>2, <2>1 DEF WriterSound, FileSound, FirstSound, Titled
<1>3. CASE ~required_metadata_added
  <2>1. WithRequired = WithTrace(mcap)
    BY <1>3 DEF WithRequired
  <2>2. /\ WithTrace(mcap) \in Mcaps /\ WithTrace(mcap).messages = mcap.messages
        /\ Len(WithTrace(mcap).trace) = Len(mcap.trace) + 1
        /\ Linked(mcap) => Linked(WithTrace(mcap))
        /\ Known(mcap, topic_to_channel_id, topic_to_schema_name, schemas) =>
              Known(WithTrace(mcap), topic_to_channel_id, topic_to_schema_name, schemas)
        /\ Carries(mcap, topic_to_channel_id, accepted) =>
              Carries(WithTrace(mcap), topic_to_channel_id, accepted)
    BY <1>1, TraceAdded, SameContents
  <2>3. InFirstFile => Len(mcap.trace) = 0
    BY <1>3 DEF WriterSound, FirstSound, Titled
  <2> QED  BY <2>1, <2>2, <2>3 DEF WriterSound, FileSound, FirstSound
<1> QED  BY <1>1, <1>2, <1>3

(* Only the answer and the state of the stream change.                     *)
LEMMA IdleSound ==
  ASSUME WriterSound,
         UNCHANGED <<is_open, required_metadata_added, channelVars, mcap, accepted,
                     opens, premature>>,
         good' \in BOOLEAN, ret' \in {"none", "true", "false", "thrown"}
  PROVE  WriterSound'
<1>1. FileSound'
  BY DEF WriterSound, FileSound, WriterTypeOK, channelVars
<1>2. FirstSound'
  BY DEF WriterSound, FirstSound, InFirstFile, channelVars
<1> QED  BY <1>1, <1>2 DEF WriterSound

LEMMA EmptyFileFacts ==
  /\ EmptyFile \in Mcaps /\ Linked(EmptyFile) /\ EmptyFile.messages = <<>>
  /\ EmptyFile.trace = <<>> /\ Len(EmptyFile.messages) = 0
<1>1. /\ EmptyFile.messages = <<>> /\ EmptyFile.trace = <<>>
      /\ EmptyFile.schemas = <<>> /\ EmptyFile.channels = <<>>
  BY DEF EmptyFile
<1>2. <<>> \in Seq(MessageTypes) /\ <<>> \in Seq([topic : Topics, schema : Nat \ {0}])
      /\ <<>> \in Seq([channel : Nat, message : Messages]) /\ <<>> \in Seq(Nat)
  OBVIOUS
<1>3. EmptyFile \in Mcaps
  BY <1>2 DEF EmptyFile, Mcaps
<1>4. Linked(EmptyFile)
  BY <1>1 DEF Linked
<1> QED  BY <1>1, <1>3, <1>4

(* A writer object as it is made.                                          *)
LEMMA NewSound == WriterInit => WriterSound
<1> SUFFICES ASSUME WriterInit PROVE WriterSound
  OBVIOUS
<1> USE DEF WriterInit
<1>1. WriterTypeOK
  <2>1. accepted \in Seq([topic : Topics, message : Messages, at : Nat])
    OBVIOUS
  <2> QED  BY <2>1, EmptyFileFacts DEF WriterTypeOK
<1>2. FileSound
  BY <1>1, EmptyFileFacts, WriterAssumption DEF FileSound
<1>3. Known(mcap, topic_to_channel_id, topic_to_schema_name, schemas)
  BY DEF Known
<1>4. Carries(mcap, topic_to_channel_id, accepted)
  BY EmptyFileFacts DEF Carries
<1>5. Titled(mcap, required_metadata_added, premature)
  BY EmptyFileFacts DEF Titled
<1> QED  BY <1>2, <1>3, <1>4, <1>5 DEF WriterSound, FirstSound

LEMMA CrashSound == ASSUME WriterSound, Crash PROVE WriterSound'
<1>1. WriterInit'
  BY DEF Crash, WriterInit
<1> QED  BY <1>1, NewSound, PTL

LEMMA OpenSound == ASSUME WriterSound, OpenSucceeds PROVE WriterSound'
<1>1. /\ ~is_open /\ is_open' = TRUE /\ good' = TRUE /\ ret' = "true"
      /\ opens' = opens + 1 /\ opens \in Nat
      /\ UNCHANGED <<required_metadata_added, channelVars, mcap, accepted, premature>>
  BY DEF OpenSucceeds, WriterSound, FileSound, WriterTypeOK
<1>2. FileSound'
  BY <1>1 DEF WriterSound, FileSound, WriterTypeOK, channelVars
<1>3. InFirstFile' => InFirstFile
  BY <1>1 DEF InFirstFile
<1>4. FirstSound'
  BY <1>1, <1>3 DEF WriterSound, FirstSound, channelVars
<1> QED  BY <1>2, <1>4 DEF WriterSound

(* The channels stay known, those of the file that is closed too.          *)
LEMMA CloseSound ==
  ASSUME WriterSound, Close, is_open \/ is_open' = is_open
  PROVE  WriterSound'
<1>1. /\ is_open' = FALSE /\ ret' = "none" /\ accepted' = <<>>
      /\ mcap' = IF is_open THEN EmptyFile ELSE mcap
      /\ UNCHANGED <<good, required_metadata_added, channelVars, opens, premature>>
  BY DEF Close
<1>2. accepted' \in Seq([topic : Topics, message : Messages, at : Nat]) /\ Len(accepted') = 0
  BY <1>1
<1>3. /\ mcap' \in Mcaps /\ Linked(mcap') /\ Len(mcap'.messages) <= MaxMessages
      /\ opens' = 0 => mcap' = mcap /\ mcap'.messages = <<>>
  BY <1>1, EmptyFileFacts, WriterAssumption DEF WriterSound, FileSound, WriterTypeOK
<1>4. FileSound'
  BY <1>1, <1>2, <1>3 DEF WriterSound, FileSound, WriterTypeOK, channelVars
<1>5. FirstSound'
  <2>1. InFirstFile' => opens = 0
    BY <1>1 DEF InFirstFile
  <2>2. ASSUME opens = 0
        PROVE  Carries(mcap', topic_to_channel_id', accepted')
    BY <1>1, <1>2, <1>3, <2>2 DEF Carries
  <2> QED  BY <1>1, <1>3, <2>1, <2>2 DEF WriterSound, FirstSound, InFirstFile, channelVars
<1> QED  BY <1>4, <1>5 DEF WriterSound

LEMMA AddTraceSound ==
  ASSUME WriterSound, NEW kind, AddTrace(kind)
  PROVE  WriterSound'
<1>1. /\ ~required_metadata_added /\ required_metadata_added' = TRUE
      /\ mcap' = IF is_open THEN WithTrace(mcap) ELSE mcap
      /\ premature' = (premature \/ ~is_open) /\ ret' \in {"true", "false"}
      /\ UNCHANGED <<is_open, good, channelVars, accepted, opens>>
  BY DEF AddTrace
<1>2. mcap \in Mcaps /\ premature \in BOOLEAN /\ is_open \in BOOLEAN
  BY DEF WriterSound, FileSound, WriterTypeOK
<1>3. /\ mcap' \in Mcaps /\ mcap'.messages = mcap.messages
      /\ Linked(mcap) => Linked(mcap')
      /\ \A ids, names, ss : Known(mcap, ids, names, ss) => Known(mcap', ids, names, ss)
      /\ \A ids, acc : Carries(mcap, ids, acc) => Carries(mcap', ids, acc)
      /\ is_open => Len(mcap'.trace) = Len(mcap.trace) + 1
  <2>1. CASE is_open
    <3>1. mcap' = WithTrace(mcap)
      BY <1>1, <2>1
    <3>2. /\ WithTrace(mcap) \in Mcaps /\ WithTrace(mcap).schemas = mcap.schemas
          /\ WithTrace(mcap).channels = mcap.channels
          /\ WithTrace(mcap).messages = mcap.messages
          /\ Len(WithTrace(mcap).trace) = Len(mcap.trace) + 1
      BY <1>2, TraceAdded
    <3> QED  BY <3>1, <3>2, SameContents
  <2>2. CASE ~is_open
    BY <1>1, <1>2, <2>2
  <2> QED  BY <1>2, <2>1, <2>2
<1>4. FileSound'
  <2>1. /\ premature' \in BOOLEAN /\ required_metadata_added' \in BOOLEAN
        /\ ret' \in {"none", "true", "false", "thrown"}
    BY <1>1, <1>2
  <2> QED  BY <1>1, <1>3, <2>1 DEF WriterSound, FileSound, WriterTypeOK, channelVars
<1>5. FirstSound'
  <2> SUFFICES ASSUME InFirstFile'
               PROVE  /\ Known(mcap', topic_to_channel_id', topic_to_schema_name', schemas')
                      /\ Carries(mcap', topic_to_channel_id', accepted')
                      /\ Titled(mcap', required_metadata_added', premature')
    BY DEF FirstSound
  <2>1. /\ Known(mcap, topic_to_channel_id, topic_to_schema_name, schemas)
        /\ Carries(mcap, topic_to_channel_id, accepted)
        /\ mcap.trace = <<>>
    BY <1>1 DEF WriterSound, FirstSound, InFirstFile, Titled
  <2>2. is_open => Len(mcap'.trace) = 1
    <3>1. Len(mcap.trace) = 0
      BY <2>1
    <3> QED  BY <1>3, <3>1
  <2> QED  BY <1>1, <1>3, <2>1, <2>2 DEF Titled, channelVars
<1> QED  BY <1>4, <1>5 DEF WriterSound

LEMMA AddNewChannelSound ==
  ASSUME WriterSound, NEW topic \in Topics, NEW type \in MessageTypes,
         AddNewChannel(topic, type)
  PROVE  WriterSound'
<1>1. /\ topic_to_channel_id[topic] = 0 /\ Register(mcap, topic, type)
      /\ mcap' = WithChannel(mcap, topic, type) /\ ret' = "true"
      /\ UNCHANGED <<is_open, good, required_metadata_added, accepted, opens, premature>>
  BY DEF AddNewChannel
<1>2. mcap \in Mcaps /\ WriterTypeOK /\ Linked(mcap)
  BY DEF WriterSound, FileSound, WriterTypeOK
<1>3. /\ mcap' \in Mcaps /\ mcap'.messages = mcap.messages /\ mcap'.trace = mcap.trace
      /\ Linked(mcap')
      /\ topic_to_channel_id' \in [Topics -> Nat]
      /\ topic_to_schema_name' \in [Topics -> MessageTypes \union {None}]
      /\ schemas' \in [MessageTypes -> Nat]
      /\ Known(mcap, topic_to_channel_id, topic_to_schema_name, schemas) =>
            Known(mcap', topic_to_channel_id', topic_to_schema_name', schemas')
      /\ Carries(mcap, topic_to_channel_id, accepted) =>
            Carries(mcap', topic_to_channel_id', accepted)
  BY <1>1, <1>2, Registered
<1>4. FileSound'
  BY <1>1, <1>3 DEF WriterSound, FileSound, WriterTypeOK
<1>5. FirstSound'
  BY <1>1, <1>3 DEF WriterSound, FirstSound, InFirstFile, Titled
<1> QED  BY <1>4, <1>5 DEF WriterSound

(* A write that is declined leaves what was added for it, w; a write that  *)
(* is taken adds its message.                                              *)
LEMMA WroteSound ==
  ASSUME WriterSound, NEW w \in Mcaps, is_open,
         topic_to_channel_id' \in [Topics -> Nat],
         topic_to_schema_name' \in [Topics -> MessageTypes \union {None}],
         schemas' \in [MessageTypes -> Nat],
         required_metadata_added' = TRUE, UNCHANGED <<is_open, opens, premature>>,
         Linked(w), Len(w.messages) <= MaxMessages,
         InFirstFile => /\ Known(w, topic_to_channel_id', topic_to_schema_name', schemas')
                        /\ Carries(w, topic_to_channel_id', accepted)
                        /\ ~premature => Len(w.trace) = 1,
         \/ \E m \in Messages, topic \in Topics :
               Take(w, topic_to_channel_id'[topic], m, topic)
         \/ Decline(w)
  PROVE  WriterSound'
<1>1. opens \in Nat /\ opens # 0 /\ is_open' = TRUE /\ premature' \in BOOLEAN
      /\ accepted \in Seq(AcceptedRecords) /\ good \in BOOLEAN
  BY DEF WriterSound, FileSound, WriterTypeOK, AcceptedRecords
<1>2. /\ mcap' \in Mcaps /\ Linked(mcap') /\ Len(mcap'.messages) <= MaxMessages
      /\ accepted' \in Seq(AcceptedRecords) /\ mcap'.trace = w.trace
      /\ mcap'.schemas = w.schemas /\ mcap'.channels = w.channels
      /\ ret' \in {"none", "true", "false", "thrown"} /\ good' \in BOOLEAN
      /\ Carries(w, topic_to_channel_id', accepted) =>
            Carries(mcap', topic_to_channel_id', accepted')
  <2>1. ASSUME NEW m \in Messages, NEW topic \in Topics,
               Take(w, topic_to_channel_id'[topic], m, topic)
        PROVE  /\ mcap' \in Mcaps /\ Linked(mcap') /\ Len(mcap'.messages) <= MaxMessages
               /\ accepted' \in Seq(AcceptedRecords) /\ mcap'.trace = w.trace
               /\ mcap'.schemas = w.schemas /\ mcap'.channels = w.channels
               /\ ret' = "true" /\ good' \in BOOLEAN
               /\ Carries(w, topic_to_channel_id', accepted) =>
                     Carries(mcap', topic_to_channel_id', accepted')
    <3> DEFINE c == topic_to_channel_id'[topic]
    <3>1. Take(w, c, m, topic)
      BY <2>1
    <3> HIDE DEF c
    <3>2. /\ mcap' \in Mcaps /\ Linked(mcap') /\ Len(mcap'.messages) <= MaxMessages
          /\ accepted' \in Seq(AcceptedRecords) /\ mcap'.trace = w.trace
          /\ mcap'.schemas = w.schemas /\ mcap'.channels = w.channels
          /\ ret' = "true" /\ good' \in BOOLEAN
          /\ \A ids : Carries(w, ids, accepted) /\ ids[topic] = c =>
                         Carries(mcap', ids, accepted')
      BY <1>1, <3>1, MessageTaken
    <3> QED  BY <3>2 DEF c
  <2>2. CASE Decline(w)
    BY <1>1, <2>2 DEF Decline
  <2> QED  BY <2>1, <2>2
<1>3. FileSound'
  <2>1. required_metadata_added' \in BOOLEAN /\ opens' \in Nat /\ opens' # 0
    BY <1>1
  <2>2. WriterTypeOK'
    BY <1>1, <1>2, <2>1 DEF WriterTypeOK, AcceptedRecords
  <2> QED  BY <1>2, <2>1, <2>2 DEF FileSound
<1>4. FirstSound'
  <2> SUFFICES ASSUME InFirstFile'
               PROVE  /\ Known(mcap', topic_to_channel_id', topic_to_schema_name', schemas')
                      /\ Carries(mcap', topic_to_channel_id', accepted')
                      /\ Titled(mcap', required_metadata_added', premature')
    BY DEF FirstSound
  <2>1. InFirstFile
    BY <1>1 DEF InFirstFile
  <2>2. Known(mcap', topic_to_channel_id', topic_to_schema_name', schemas')
    BY <1>2, <2>1 DEF Known
  <2>3. Titled(mcap', required_metadata_added', premature')
    BY <1>2, <2>1 DEF Titled
  <2> QED  BY <1>2, <2>1, <2>2, <2>3
<1> QED  BY <1>3, <1>4 DEF WriterSound

LEMMA WriteUntitledSound == ASSUME WriterSound, WriteUntitled PROVE WriterSound'
<1>1. /\ is_open /\ required_metadata_added' = TRUE /\ Decline(WithRequired)
      /\ UNCHANGED <<is_open, channelVars, opens, premature>>
  BY DEF WriteUntitled
<1>2. /\ WithRequired \in Mcaps /\ Linked(WithRequired)
      /\ Len(WithRequired.messages) <= MaxMessages
      /\ InFirstFile =>
            /\ Known(WithRequired, topic_to_channel_id, topic_to_schema_name, schemas)
            /\ Carries(WithRequired, topic_to_channel_id, accepted)
            /\ ~premature => Len(WithRequired.trace) = 1
  BY RequiredAdded
<1>3. /\ topic_to_channel_id' = topic_to_channel_id
      /\ topic_to_schema_name' = topic_to_schema_name /\ schemas' = schemas
  BY <1>1 DEF channelVars
<1>4. /\ topic_to_channel_id' \in [Topics -> Nat]
      /\ topic_to_schema_name' \in [Topics -> MessageTypes \union {None}]
      /\ schemas' \in [MessageTypes -> Nat]
  BY <1>3 DEF WriterSound, FileSound, WriterTypeOK
<1> QED  BY <1>1, <1>2, <1>3, <1>4, WroteSound

LEMMA WriteKnownTopicSound ==
  ASSUME WriterSound, NEW m \in Messages, NEW topic \in Topics, WriteKnownTopic(m, topic)
  PROVE  WriterSound'
<1> DEFINE w == WithRequired
<1>1. /\ is_open /\ required_metadata_added' = TRUE
      /\ Take(w, topic_to_channel_id[topic], m, topic) \/ Decline(w)
      /\ UNCHANGED <<is_open, channelVars, opens, premature>>
  BY DEF WriteKnownTopic
<1>2. /\ w \in Mcaps /\ Linked(w) /\ Len(w.messages) <= MaxMessages
      /\ InFirstFile => /\ Known(w, topic_to_channel_id, topic_to_schema_name, schemas)
                        /\ Carries(w, topic_to_channel_id, accepted)
                        /\ ~premature => Len(w.trace) = 1
  BY RequiredAdded
<1>3. /\ topic_to_channel_id' = topic_to_channel_id
      /\ topic_to_schema_name' = topic_to_schema_name /\ schemas' = schemas
  BY <1>1 DEF channelVars
<1>4. /\ topic_to_channel_id' \in [Topics -> Nat]
      /\ topic_to_schema_name' \in [Topics -> MessageTypes \union {None}]
      /\ schemas' \in [MessageTypes -> Nat]
  BY <1>3 DEF WriterSound, FileSound, WriterTypeOK
<1> HIDE DEF w
<1>5. Take(w, topic_to_channel_id'[topic], m, topic) \/ Decline(w)
  BY <1>1, <1>3
<1> QED  BY <1>1, <1>2, <1>3, <1>4, <1>5, WroteSound

LEMMA WriteNewTopicSound ==
  ASSUME WriterSound, NEW m \in Messages, NEW topic \in Topics, WriteNewTopic(m, topic)
  PROVE  WriterSound'
<1> DEFINE w == WithRequired
           type == TypeOf[m]
           v == WithChannel(w, topic, type)
<1>0. type \in MessageTypes
  BY WriterAssumption
<1>1. /\ is_open /\ topic_to_channel_id[topic] = 0 /\ required_metadata_added' = TRUE
      /\ Register(w, topic, type)
      /\ Take(v, Len(w.channels) + 1, m, topic) \/ Decline(v)
      /\ UNCHANGED <<is_open, opens, premature>>
  BY DEF WriteNewTopic
<1>2. /\ w \in Mcaps /\ Linked(w) /\ Len(w.messages) <= MaxMessages
      /\ InFirstFile => /\ Known(w, topic_to_channel_id, topic_to_schema_name, schemas)
                        /\ Carries(w, topic_to_channel_id, accepted)
                        /\ ~premature => Len(w.trace) = 1
  BY RequiredAdded
<1>3. WriterTypeOK
  BY DEF WriterSound, FileSound
<1> HIDE DEF w, type
<1>4. /\ v \in Mcaps /\ v.messages = w.messages /\ v.trace = w.trace /\ Linked(v)
      /\ topic_to_channel_id' \in [Topics -> Nat]
      /\ topic_to_channel_id'[topic] = Len(w.channels) + 1
      /\ topic_to_schema_name' \in [Topics -> MessageTypes \union {None}]
      /\ schemas' \in [MessageTypes -> Nat]
      /\ Known(w, topic_to_channel_id, topic_to_schema_name, schemas) =>
            Known(v, topic_to_channel_id', topic_to_schema_name', schemas')
      /\ Carries(w, topic_to_channel_id, accepted) =>
            Carries(v, topic_to_channel_id', accepted)
  BY <1>0, <1>1, <1>2, <1>3, Registered
<1> HIDE DEF v
<1>5. Take(v, topic_to_channel_id'[topic], m, topic) \/ Decline(v)
  BY <1>1, <1>4
<1> QED  BY <1>1, <1>2, <1>4, <1>5, WroteSound

LEMMA WriteTypedSound ==
  ASSUME WriterSound, NEW m \in Messages, NEW topic \in Topics \union {None},
         WriteTyped(m, topic)
  PROVE  WriterSound'
<1>1. /\ is_open
      /\ UNCHANGED <<is_open, required_metadata_added, channelVars, opens, premature>>
  BY DEF WriteTyped
<1>2. CASE Decline(mcap)
  <2>1. good' \in BOOLEAN
    BY <1>2 DEF Decline, WriterSound, FileSound, WriterTypeOK
  <2> QED  BY <1>1, <1>2, <2>1, IdleSound DEF Decline
<1>3. CASE ~Decline(mcap)
  <2>1. /\ required_metadata_added /\ topic \in Topics
        /\ Take(mcap, topic_to_channel_id[topic], m, topic)
    BY <1>3 DEF WriteTyped
  <2>2. required_metadata_added' = TRUE
    BY <1>1, <2>1 DEF WriterSound, FileSound, WriterTypeOK
  <2>3. /\ mcap \in Mcaps /\ Linked(mcap) /\ Len(mcap.messages) <= MaxMessages
        /\ InFirstFile =>
              /\ Known(mcap, topic_to_channel_id, topic_to_schema_name, schemas)
              /\ Carries(mcap, topic_to_channel_id, accepted)
              /\ ~premature => Len(mcap.trace) = 1
    BY <2>1 DEF WriterSound, FileSound, FirstSound, Titled, WriterTypeOK
  <2>4. /\ topic_to_channel_id' = topic_to_channel_id
        /\ topic_to_schema_name' = topic_to_schema_name /\ schemas' = schemas
    BY <1>1 DEF channelVars
  <2>5. /\ topic_to_channel_id' \in [Topics -> Nat]
        /\ topic_to_schema_name' \in [Topics -> MessageTypes \union {None}]
        /\ schemas' \in [MessageTypes -> Nat]
    BY <2>4 DEF WriterSound, FileSound, WriterTypeOK
  <2> QED  BY <1>1, <2>1, <2>2, <2>3, <2>4, <2>5, WroteSound
<1> QED  BY <1>2, <1>3

LEMMA WriterNextSound ==
  ASSUME WriterSound, WriterNext, is_open' = is_open
  PROVE  WriterSound'
<1>0. good \in BOOLEAN /\ is_open \in BOOLEAN
  BY DEF WriterSound, FileSound, WriterTypeOK
<1>1. CASE Open
  <2>1. CASE OpenAgain  BY <1>0, <2>1, IdleSound DEF OpenAgain
  <2>2. CASE OpenFails  BY <1>0, <2>2, IdleSound DEF OpenFails
  <2> QED  BY <1>1, <2>1, <2>2, OpenSound DEF Open
<1>2. CASE Close
  BY <1>2, CloseSound
<1>3. ASSUME NEW kind, AddFileMetadata(kind)  PROVE WriterSound'
  <2>1. CASE AddRefused(kind)  BY <1>0, <2>1, IdleSound DEF AddRefused
  <2>2. CASE AddOther(kind)  BY <1>0, <2>2, IdleSound DEF AddOther
  <2> QED  BY <1>3, <2>1, <2>2, AddTraceSound DEF AddFileMetadata
<1>4. ASSUME NEW topic \in Topics, NEW type \in MessageTypes, AddChannel(topic, type)
      PROVE  WriterSound'
  <2>1. CASE AddKnownChannel(topic, type)  BY <1>0, <2>1, IdleSound DEF AddKnownChannel
  <2> QED  BY <1>4, <2>1, AddNewChannelSound DEF AddChannel
<1>5. CASE WriteClosed
  BY <1>0, <1>5, IdleSound DEF WriteClosed
<1> QED
  BY <1>1, <1>2, <1>3, <1>4, <1>5, WriteUntitledSound, WriteNewTopicSound,
     WriteKnownTopicSound, WriteTypedSound DEF WriterNext

-----------------------------------------------------------------------------
(* The file, what the writer says of it, and what the reader finds         *)

(* None is not a set of messages of a file.                                *)
DiskSound == /\ disk \in [Paths -> Files]
             /\ \A p \in Paths : \A s \in SUBSET DOMAIN disk[p].messages : s # None

LeftRecords == [accepted : Seq([topic : Topics, message : Messages, at : Nat]),
                types : [Topics -> MessageTypes \union {None}],
                whole : BOOLEAN, titled : BOOLEAN]

(* A file f holds the first of the messages that l says were accepted, all *)
(* of them if it is whole.                                                 *)
Agrees(f, l) ==
    /\ \A n \in DOMAIN f.messages :
          /\ n \in DOMAIN l.accepted
          /\ f.messages[n].topic = l.accepted[n].topic
          /\ f.messages[n].schema = [encoding |-> "protobuf",
                                     type |-> l.types[l.accepted[n].topic]]
          /\ f.messages[n].payload = "good"
          /\ l.types[l.accepted[n].topic] \in MessageTypes
    /\ l.whole => /\ DOMAIN l.accepted \subseteq DOMAIN f.messages
                  /\ l.titled /\ l.accepted # <<>> => f.trace = 1

(* The reader looks at nothing else once it can be read.                   *)
LeftSound == left # None =>
    /\ left \in LeftRecords /\ Agrees(disk[Target], left)
    /\ ~skip /\ file \in {Target, None}
    /\ result.status \notin {"kError", "kIncompatible", "thrown"}

ReadSound == /\ ReaderTypeOK
             /\ file # None => file_metadata = disk[file].trace

(* The inductive invariant of the writer, the file and the reader.         *)
FInv == AInv /\ WriterSound /\ DiskSound /\ LeftSound /\ ReadSound

LEMMA EmptyFound ==
  /\ Empty \in Files /\ \A s \in SUBSET DOMAIN Empty.messages : s # None
  /\ \A l \in LeftRecords : ~l.whole => Agrees(Empty, l)
<1>1. <<>> \in Seq(Records) /\ DOMAIN <<>> = {}
  OBVIOUS
<1>2. Empty.messages = <<>> /\ Empty.trace = 0 /\ Empty.state = "damaged"
  BY DEF Empty
<1>3. Empty \in Files
  BY <1>1 DEF Empty, Files
<1>4. \A s \in SUBSET DOMAIN Empty.messages : s \in SUBSET (1..MaxMessages)
  BY <1>1, <1>2
<1> QED  BY <1>1, <1>2, <1>3, <1>4, NoneAssumption DEF Agrees

(* A message in a file is a record with the topic of its channel and the   *)
(* type of that channel.                                                   *)
LEMMA RecordFound ==
  ASSUME NEW w \in Mcaps, Linked(w), NEW k \in DOMAIN w.messages
  PROVE  LET c == w.channels[w.messages[k].channel]
             r == RecordOf(w, w.messages[k])
         IN /\ r \in Records /\ r.topic = c.topic /\ r.payload = "good"
            /\ r.schema = [encoding |-> "protobuf", type |-> w.schemas[c.schema]]
            /\ w.schemas[c.schema] \in MessageTypes
<1> DEFINE c == w.channels[w.messages[k].channel]
           s == [encoding |-> "protobuf", type |-> w.schemas[c.schema]]
           Channels == [topic : Topics, schema : Nat \ {0}]
<1>1. w.messages[k].channel \in DOMAIN w.channels /\ c.schema \in DOMAIN w.schemas
  BY DEF Linked
<1>2. c \in Channels
  <2>1. w.channels \in Seq(Channels)
    BY McapFields
  <2> HIDE DEF Channels
  <2> QED  BY <1>1, <2>1
<1>3. c.topic \in Topics
  BY <1>2
<1>4. w.schemas[c.schema] \in MessageTypes
  <2>1. w.schemas \in Seq(MessageTypes)
    BY McapFields
  <2> HIDE DEF c
  <2> QED  BY <1>1, <2>1
<1>5. s \in Schemas
  BY <1>4 DEF Schemas
<1>6. RecordOf(w, w.messages[k]) = [topic |-> c.topic, schema |-> s, payload |-> "good"]
  BY DEF RecordOf
<1> HIDE DEF c, s
<1>7. RecordOf(w, w.messages[k]) \in Records
  BY <1>3, <1>5, <1>6 DEF Records
<1>8. /\ RecordOf(w, w.messages[k]).topic = c.topic
      /\ RecordOf(w, w.messages[k]).payload = "good"
      /\ RecordOf(w, w.messages[k]).schema = s
  BY <1>6
<1> QED  BY <1>4, <1>7, <1>8, Zenon DEF c, s

LEMMA StoredFound ==
  ASSUME FileSound, NEW n \in 0..Len(mcap.messages), NEW records \in Nat
  PROVE  /\ Stored(mcap, n, records) \in Files
         /\ DOMAIN Stored(mcap, n, records).messages = 1..n
         /\ \A k \in 1..n : /\ k \in DOMAIN mcap.messages
                            /\ Stored(mcap, n, records).messages[k] = RecordOf(mcap, mcap.messages[k])
         /\ Stored(mcap, n, records).trace = records
         /\ \A s \in SUBSET DOMAIN Stored(mcap, n, records).messages : s # None
<1> DEFINE ms == [k \in 1..n |-> RecordOf(mcap, mcap.messages[k])]
<1>1. /\ mcap \in Mcaps /\ Linked(mcap) /\ Len(mcap.messages) \in Nat
      /\ DOMAIN mcap.messages = 1..Len(mcap.messages) /\ Len(mcap.messages) <= MaxMessages
  BY McapFields DEF FileSound, WriterTypeOK
<1>2. n \in Nat /\ 1..n \subseteq 1..Len(mcap.messages) /\ 1..n \subseteq 1..MaxMessages
  BY <1>1, WriterAssumption, SMTT(60)
<1>3. \A k \in 1..n : ms[k] \in Records
  BY <1>1, <1>2, RecordFound
<1>4. ms \in Seq(Records)
  <2>1. ms \in [1..n -> Records]
    BY <1>3
  <2> HIDE DEF ms
  <2> QED  BY <1>2, <2>1
<1>5. Stored(mcap, n, records) = [state |-> "readable", trace |-> records, messages |-> ms]
  BY DEF Stored
<1>6. DOMAIN ms = 1..n /\ \A k \in 1..n : ms[k] = RecordOf(mcap, mcap.messages[k])
  OBVIOUS
<1> HIDE DEF ms
<1>7. Stored(mcap, n, records) \in Files
  BY <1>4, <1>5 DEF Files
<1>8. \A s \in SUBSET (1..n) : s \in SUBSET (1..MaxMessages)
  BY <1>2
<1>9. \A s \in SUBSET (1..n) : s # None
  BY <1>8, NoneAssumption
<1> QED  BY <1>1, <1>2, <1>5, <1>6, <1>7, <1>9

LEMMA BeforeCounted ==
  ASSUME NEW w \in Mcaps, NEW n
  PROVE  Before(w, n) \in Nat
<1>1. DOMAIN w.trace = 1..Len(w.trace) /\ Len(w.trace) \in Nat
  BY McapFields
<1>2. IsFiniteSet(DOMAIN w.trace)
  BY <1>1, FS_Interval
<1>3. {k \in DOMAIN w.trace : w.trace[k] < n} \in SUBSET DOMAIN w.trace
  OBVIOUS
<1> QED  BY <1>2, <1>3, FS_Subset, FS_CardinalityType DEF Before

(* What the first file of a writer object holds.                           *)
LEMMA FirstAgrees ==
  ASSUME WriterSound, is_open, opens = 1, NEW n \in 0..Len(mcap.messages),
         NEW records \in Nat, NEW whole \in BOOLEAN,
         whole => n = Len(mcap.messages) /\ records = Len(mcap.trace)
  PROVE  Agrees(Stored(mcap, n, records),
                [accepted |-> accepted, types |-> topic_to_schema_name,
                 whole |-> whole, titled |-> ~premature])
<1> DEFINE f == Stored(mcap, n, records)
           l == [accepted |-> accepted, types |-> topic_to_schema_name,
                 whole |-> whole, titled |-> ~premature]
<1>1. /\ mcap \in Mcaps /\ Linked(mcap)
      /\ Known(mcap, topic_to_channel_id, topic_to_schema_name, schemas)
      /\ Carries(mcap, topic_to_channel_id, accepted)
      /\ Titled(mcap, required_metadata_added, premature)
      /\ accepted \in Seq(AcceptedRecords)
  BY DEF WriterSound, FileSound, FirstSound, InFirstFile, WriterTypeOK, AcceptedRecords
<1>2. /\ DOMAIN f.messages = 1..n /\ f.trace = records
      /\ \A k \in 1..n : /\ k \in DOMAIN mcap.messages
                         /\ f.messages[k] = RecordOf(mcap, mcap.messages[k])
  BY StoredFound DEF WriterSound
<1>3. /\ l.accepted = accepted /\ l.types = topic_to_schema_name
      /\ l.whole = whole /\ l.titled = ~premature
  OBVIOUS
<1>4. /\ Len(mcap.messages) \in Nat /\ Len(accepted) = Len(mcap.messages)
      /\ DOMAIN accepted = 1..Len(accepted) /\ n \in Nat /\ n <= Len(mcap.messages)
  BY <1>1, McapFields DEF Carries
<1> HIDE DEF f, l
<1>5. ASSUME NEW k \in DOMAIN f.messages
      PROVE  /\ k \in DOMAIN l.accepted
             /\ f.messages[k].topic = l.accepted[k].topic
             /\ f.messages[k].schema = [encoding |-> "protobuf",
                                        type |-> l.types[l.accepted[k].topic]]
             /\ f.messages[k].payload = "good"
             /\ l.types[l.accepted[k].topic] \in MessageTypes
  <2>1. k \in 1..n /\ k \in DOMAIN mcap.messages /\ k \in 1..Len(accepted)
    BY <1>2, <1>4, <1>5, SMTT(60)
  <2> DEFINE c == mcap.messages[k].channel
             t == accepted[k].topic
  <2>2. /\ f.messages[k].topic = mcap.channels[c].topic /\ f.messages[k].payload = "good"
        /\ f.messages[k].schema = [encoding |-> "protobuf",
                                   type |-> mcap.schemas[mcap.channels[c].schema]]
        /\ mcap.schemas[mcap.channels[c].schema] \in MessageTypes
    BY <1>1, <1>2, <2>1, RecordFound, ZenonT(60)
  <2>3. t \in Topics
    <3>1. accepted[k] \in AcceptedRecords
      BY <1>1, <2>1
    <3> QED  BY <3>1 DEF AcceptedRecords
  <2>4. topic_to_channel_id[t] = c
    BY <1>1, <2>1 DEF Carries
  <2>5. c # 0
    BY <1>1, <2>1, McapFields, SMTT(60) DEF Linked
  <2>6. /\ mcap.channels[c].topic = t
        /\ mcap.schemas[mcap.channels[c].schema] = topic_to_schema_name[t]
    BY <1>1, <2>3, <2>4, <2>5 DEF Known
  <2> QED  BY <1>3, <1>4, <2>1, <2>2, <2>6
<1>6. ASSUME whole
      PROVE  /\ DOMAIN l.accepted \subseteq DOMAIN f.messages
             /\ l.titled /\ l.accepted # <<>> => f.trace = 1
  <2>1. DOMAIN l.accepted \subseteq DOMAIN f.messages
    BY <1>2, <1>3, <1>4, <1>6
  <2>2. ASSUME ~premature, accepted # <<>>  PROVE records = 1
    <3>1. mcap.messages # <<>>
      BY <1>1, <1>4, <2>2
    <3> QED  BY <1>1, <1>6, <2>2, <3>1 DEF Titled
  <2> QED  BY <1>2, <1>3, <2>1, <2>2
<1>7. Agrees(f, l)
  BY <1>3, <1>5, <1>6 DEF Agrees
<1> QED  BY <1>7 DEF f, l

-----------------------------------------------------------------------------
(* The steps of the writer                                                 *)

LEMMA WritingSound == ASSUME FInv, Writing PROVE WriterSound'
<1>1. WriterSound
  BY DEF FInv
<1>2. CASE OpenFile
  BY <1>1, <1>2, OpenSound DEF OpenFile
<1>3. CASE WriterNext /\ is_open' = is_open
  BY <1>1, <1>3, WriterNextSound
<1>4. CASE CloseFile
  BY <1>1, <1>4, CloseSound DEF CloseFile
<1>5. CASE Crash
  BY <1>1, <1>5, CrashSound
<1> QED  BY <1>2, <1>3, <1>4, <1>5 DEF Writing

LEMMA PutFound ==
  ASSUME DiskSound, NEW f \in Files, \A s \in SUBSET DOMAIN f.messages : s # None,
         disk' = [disk EXCEPT ![Target] = f]
  PROVE  DiskSound' /\ disk'[Target] = f
<1>1. disk' \in [Paths -> Files] /\ disk'[Target] = f
  BY TargetAssumption DEF DiskSound
<1>2. \A p \in Paths : disk'[p] = f \/ disk'[p] = disk[p]
  BY TargetAssumption DEF DiskSound
<1> QED  BY <1>1, <1>2 DEF DiskSound

(* A file is left behind.                                                  *)
LEMMA LeftBehind ==
  ASSUME FInv, Fresh, UNCHANGED readerVars, NEW f \in Files,
         \A s \in SUBSET DOMAIN f.messages : s # None, NEW whole \in BOOLEAN,
         opens = 1 => Agrees(f, [accepted |-> accepted, types |-> topic_to_schema_name,
                                 whole |-> whole, titled |-> ~premature]),
         LeaveFile(f, whole)
  PROVE  DiskSound' /\ LeftSound'
<1> DEFINE l == [accepted |-> accepted, types |-> topic_to_schema_name,
                 whole |-> whole, titled |-> ~premature]
<1>1. l \in LeftRecords
  BY DEF FInv, WriterSound, FileSound, WriterTypeOK, LeftRecords
<1> HIDE DEF l
<1>2. DiskSound' /\ disk'[Target] = IF opens = 1 THEN f ELSE Empty
  BY EmptyFound, PutFound DEF FInv, LeaveFile
<1>3. left' = IF opens = 1 THEN l ELSE None
  BY DEF LeaveFile, l
<1>4. ~skip' /\ file' = None /\ result'.status = "NONE"
  BY DEF Fresh, readerVars
<1>5. left' # None => left' \in LeftRecords /\ Agrees(disk'[Target], left')
  BY <1>1, <1>2, <1>3 DEF l
<1> QED  BY <1>2, <1>4, <1>5 DEF LeftSound

LEMMA CutFound ==
  ASSUME FInv, is_open, NEW f \in CutShort(mcap)
  PROVE  /\ f \in Files /\ \A s \in SUBSET DOMAIN f.messages : s # None
         /\ opens = 1 => Agrees(f, [accepted |-> accepted, types |-> topic_to_schema_name,
                                    whole |-> FALSE, titled |-> ~premature])
<1> DEFINE l == [accepted |-> accepted, types |-> topic_to_schema_name,
                 whole |-> FALSE, titled |-> ~premature]
<1>1. l \in LeftRecords /\ ~l.whole
  BY DEF FInv, WriterSound, FileSound, WriterTypeOK, LeftRecords
<1> HIDE DEF l
<1>2. CASE f = Empty
  BY <1>1, <1>2, EmptyFound DEF l
<1>3. ASSUME NEW n \in 0..Len(mcap.messages), NEW b \in {0, 1},
             f = Stored(mcap, n, Before(mcap, n + b))
      PROVE  /\ f \in Files /\ \A s \in SUBSET DOMAIN f.messages : s # None
             /\ opens = 1 => Agrees(f, l)
  <2>1. WriterSound /\ FileSound /\ mcap \in Mcaps
    BY DEF FInv, WriterSound, FileSound, WriterTypeOK
  <2>2. PICK records \in Nat : f = Stored(mcap, n, records)
    BY <1>3, <2>1, BeforeCounted
  <2>3. f \in Files /\ \A s \in SUBSET DOMAIN f.messages : s # None
    BY <2>1, <2>2, StoredFound
  <2>4. opens = 1 => Agrees(f, l)
    BY <2>1, <2>2, FirstAgrees DEF l
  <2> QED  BY <2>3, <2>4
<1>4. f = Empty \/ \E n \in 0..Len(mcap.messages), b \in {0, 1} :
                     f = Stored(mcap, n, Before(mcap, n + b))
  BY DEF CutShort
<1>5. /\ f \in Files /\ \A s \in SUBSET DOMAIN f.messages : s # None
      /\ opens = 1 => Agrees(f, l)
  BY <1>2, <1>3, <1>4 DEF l
<1> QED  BY <1>5 DEF l

LEMMA WholeFound ==
  ASSUME FInv, is_open
  PROVE  /\ Whole(mcap) \in Files /\ \A s \in SUBSET DOMAIN Whole(mcap).messages : s # None
         /\ opens = 1 =>
               Agrees(Whole(mcap), [accepted |-> accepted, types |-> topic_to_schema_name,
                                    whole |-> TRUE, titled |-> ~premature])
<1>1. WriterSound /\ FileSound /\ mcap \in Mcaps
  BY DEF FInv, WriterSound, FileSound, WriterTypeOK
<1>2. Len(mcap.messages) \in 0..Len(mcap.messages) /\ Len(mcap.trace) \in Nat
  BY <1>1, McapFields
<1>3. Whole(mcap) = Stored(mcap, Len(mcap.messages), Len(mcap.trace))
  BY DEF Whole
<1>4. Whole(mcap) \in Files /\ \A s \in SUBSET DOMAIN Whole(mcap).messages : s # None
  BY <1>1, <1>2, <1>3, StoredFound
<1>5. opens = 1 =>
         Agrees(Stored(mcap, Len(mcap.messages), Len(mcap.trace)),
                [accepted |-> accepted, types |-> topic_to_schema_name,
                 whole |-> TRUE, titled |-> ~premature])
  BY <1>1, <1>2, FirstAgrees
<1> QED  BY <1>3, <1>4, <1>5

LEMMA WritingFound == ASSUME FInv, Writing PROVE DiskSound' /\ LeftSound'
<1>1. Fresh /\ UNCHANGED readerVars /\ DiskSound
  BY DEF Writing, FInv
<1>2. CASE OpenFile
  <2>1. disk' = [disk EXCEPT ![Target] = Empty] /\ left' = None
    BY <1>2 DEF OpenFile
  <2> QED  BY <1>1, <2>1, EmptyFound, PutFound DEF LeftSound
<1>3. CASE left = None /\ UNCHANGED <<disk, left>>
  BY <1>1, <1>3 DEF DiskSound, LeftSound
<1>4. CASE CloseFile
  <2>1. is_open
    BY <1>4 DEF CloseFile
  <2>2. CASE LeaveFile(Whole(mcap), TRUE)
    BY <1>1, <2>1, <2>2, WholeFound, LeftBehind
  <2>3. CASE \E f \in CutShort(mcap) : LeaveFile(f, FALSE)
    BY <1>1, <2>1, <2>3, CutFound, LeftBehind
  <2> QED  BY <1>4, <2>2, <2>3 DEF CloseFile
<1>5. CASE Crash
  <2>1. is_open /\ \E f \in CutShort(mcap) : LeaveFile(f, FALSE)
    BY <1>5 DEF Crash
  <2> QED  BY <1>1, <2>1, CutFound, LeftBehind
<1> QED  BY <1>2, <1>3, <1>4, <1>5 DEF Writing, MayGoOn

LEMMA WritingRead == ASSUME FInv, Writing PROVE ReadSound'
<1>1. file = None /\ UNCHANGED readerVars /\ ReadSound /\ DiskSound'
  BY WritingFound DEF Writing, Fresh, FInv
<1> QED  BY <1>1 DEF ReadSound, ReaderTypeOK, DiskSound, readerVars

-----------------------------------------------------------------------------
(* The steps of the reader                                                 *)

LEMMA AnswerFacts ==
  ASSUME NEW s \in {"NONE", "OPENED", "REFUSED", "CLOSED", "EOF",
                    "kOk", "kError", "kIncompatible", "thrown"},
         NEW i \in Nat
  PROVE  /\ Answer(s) \in Answers /\ Answer(s).status = s
         /\ [status |-> s, msg |-> i] \in Answers
  BY DEF Answer, Answers

LEMMA SelectedFound ==
  ASSUME DiskSound, NEW p \in Paths, NEW on, NEW ts
  PROVE  Selected(p, on, ts) \in SUBSET Nat /\ Selected(p, on, ts) # None
<1>1. Selected(p, on, ts) \in SUBSET DOMAIN disk[p].messages
  BY DEF Selected
<1>2. disk[p].messages \in Seq(Records)
  BY DEF DiskSound, Files
<1>3. DOMAIN disk[p].messages \subseteq Nat
  BY <1>2
<1> QED  BY <1>1, <1>3 DEF DiskSound

(* What is left of an iteration is not None.                               *)
LEMMA IteratorFound ==
  ASSUME FInv, file # None
  PROVE  /\ file \in Paths /\ iterator \in SUBSET DOMAIN disk[file].messages
         /\ \A s \in SUBSET iterator : s \in SUBSET Nat /\ s # None
<1>1. file \in Paths /\ DiskSound /\ Accounted
  BY DEF FInv, ReadSound, ReaderTypeOK, AInv
<1>2. iterator \subseteq Selected(file, viewing, filtered)
  BY <1>1 DEF Accounted
<1>3. iterator \in SUBSET DOMAIN disk[file].messages
  BY <1>2 DEF Selected
<1>4. Selected(file, viewing, filtered) \in SUBSET Nat
  BY <1>1, SelectedFound
<1>5. \A s \in SUBSET iterator : s \in SUBSET DOMAIN disk[file].messages
  BY <1>3
<1> QED  BY <1>1, <1>2, <1>3, <1>4, <1>5 DEF DiskSound

LEMMA OpenTraceSound ==
  ASSUME FInv, NEW p \in Paths, OpenTrace(p), UNCHANGED disk
  PROVE  ReadSound' /\ result'.status \in {"OPENED", "REFUSED"}
<1>1. PICK on \in {filtering, "none", "given"} : OpenRefused(p, on) \/ OpenReadable(p, on)
  BY DEF OpenTrace
<1>2. ReadSound /\ DiskSound /\ on \in Filters
  BY <1>1 DEF FInv, ReadSound, ReaderTypeOK, Filters
<1>3. CASE OpenRefused(p, on)
  <2>1. result' \in Answers /\ result'.status = "REFUSED"
    BY <1>3, AnswerFacts DEF OpenRefused
  <2> QED  BY <1>2, <1>3, <2>1 DEF OpenRefused, ReadSound, ReaderTypeOK
<1>4. CASE OpenReadable(p, on)
  <2>1. result' \in Answers /\ result'.status = "OPENED"
    BY <1>4, AnswerFacts DEF OpenReadable
  <2>2. iterator' \in SUBSET Nat /\ iterator' # None
    BY <1>2, <1>4, SelectedFound DEF OpenReadable, Reset
  <2>3. /\ file' = p /\ p # None /\ file_metadata' = disk[p].trace /\ disk[p].trace \in Nat
        /\ filtering' \in Filters /\ viewing' \in Filters /\ skipped' = {}
        /\ delivered' \in Seq(Nat) /\ UNCHANGED <<filtered, skip>>
    BY <1>2, <1>4, FilesAssumption, EmptySeq DEF OpenReadable, Reset, DiskSound, Files
  <2> QED  BY <1>2, <2>1, <2>2, <2>3 DEF ReadSound, ReaderTypeOK
<1> QED  BY <1>1, <1>3, <1>4

LEMMA CloseTraceSound ==
  ASSUME FInv, CloseTrace, UNCHANGED disk
  PROVE  ReadSound' /\ result'.status = "CLOSED"
<1>1. result' \in Answers /\ result'.status = "CLOSED"
  BY AnswerFacts DEF CloseTrace
<1>2. delivered' \in Seq(Nat)
  BY EmptySeq DEF CloseTrace
<1> QED  BY <1>1, <1>2 DEF CloseTrace, FInv, ReadSound, ReaderTypeOK

LEMMA SetTopicsSound ==
  ASSUME FInv, NEW ts \in SUBSET Topics, SetTopics(ts), UNCHANGED disk
  PROVE  ReadSound' /\ result'.status = "NONE"
<1>1. result' \in Answers /\ result'.status = "NONE"
  BY AnswerFacts DEF SetTopics
<1>2. ReadSound /\ DiskSound
  BY DEF FInv
<1>3. /\ filtered' = ts /\ filtering' \in Filters /\ UNCHANGED <<file, file_metadata, skip>>
  BY DEF SetTopics, FilterFor, Filters
<1>4. CASE file = None
  BY <1>1, <1>2, <1>3, <1>4 DEF SetTopics, ReadSound, ReaderTypeOK
<1>5. CASE file # None
  <2>1. file \in Paths
    BY <1>2, <1>5 DEF ReadSound, ReaderTypeOK
  <2>2. Reset(file, FilterFor(ts), ts)
    BY <1>5 DEF SetTopics
  <2>3. iterator' \in SUBSET Nat /\ iterator' # None
    BY <1>2, <2>1, <2>2, SelectedFound DEF Reset
  <2>4. viewing' \in Filters /\ delivered' \in Seq(Nat) /\ skipped' = {}
    BY <2>2, EmptySeq DEF Reset, FilterFor, Filters
  <2> QED  BY <1>1, <1>2, <1>3, <1>5, <2>3, <2>4 DEF ReadSound, ReaderTypeOK
<1> QED  BY <1>4, <1>5

(* A message that was written by this project can be read.                 *)
LEMMA WrittenIsCompatible ==
  ASSUME FInv, left # None, file # None, NEW i \in iterator
  PROVE  ~Schemaless(i) /\ ~Incompatible(i) /\ StatusOf(i) = "kOk"
<1>1. file = Target /\ i \in DOMAIN disk[Target].messages
  BY IteratorFound DEF FInv, LeftSound
<1>2. PICK type \in MessageTypes :
         Message(file, i).schema = [encoding |-> "protobuf", type |-> type]
  BY <1>1 DEF FInv, LeftSound, Agrees, Message
<1>3. Message(file, i).payload = "good"
  BY <1>1 DEF FInv, LeftSound, Agrees, Message
<1>4. /\ [encoding |-> "protobuf", type |-> type] \in Schemas
      /\ type # None
  BY FilesAssumption DEF Schemas
<1>5. /\ Message(file, i).schema # None /\ Message(file, i).schema.encoding = "protobuf"
      /\ Message(file, i).schema.type = type
  BY <1>2, <1>4, NoneAssumption
<1> QED  BY <1>3, <1>4, <1>5 DEF Schemaless, Incompatible, StatusOf

LEMMA ReadMessageSound ==
  ASSUME FInv, ReadMessage, UNCHANGED disk
  PROVE  /\ ReadSound'
         /\ left # None => result'.status \in {"EOF", "kOk"}
<1>1. ReadSound /\ delivered \in Seq(Nat)
  BY DEF FInv, ReadSound, ReaderTypeOK
<1>2. CASE ReadNothing
  <2>1. result' \in Answers /\ result'.status = "EOF"
    BY <1>2, AnswerFacts DEF ReadNothing
  <2> QED  BY <1>1, <1>2, <2>1 DEF ReadNothing, ReadSound, ReaderTypeOK
<1>3. CASE HasNext
  <2>1. file # None /\ \A s \in SUBSET iterator : s \in SUBSET Nat /\ s # None
    BY <1>3, IteratorFound DEF HasNext
  <2>2. iterator \in SUBSET Nat
    BY <2>1
  <2>3. UNCHANGED <<file, file_metadata, filtered, filtering, viewing, skip>>
    BY <1>3 DEF ReadMessage, ReadNothing, ReadSkipsAll, ReadThrows, ReadYields
  <2>4. ASSUME iterator' \in SUBSET iterator, skipped' \in SUBSET Nat,
               result' \in Answers, delivered' \in Seq(Nat)
        PROVE  ReadSound'
    <3>1. iterator' \in SUBSET Nat /\ iterator' # None
      BY <2>1, <2>4
    <3> QED  BY <1>1, <2>1, <2>3, <2>4, <3>1 DEF ReadSound, ReaderTypeOK
  <2>5. skipped \in SUBSET Nat
    BY <1>1 DEF ReadSound, ReaderTypeOK
  <2>6. CASE ReadSkipsAll
    <3>1. result' \in Answers /\ result'.status = "EOF"
      BY <2>6, AnswerFacts DEF ReadSkipsAll
    <3> QED  BY <1>1, <2>2, <2>4, <2>5, <2>6, <3>1 DEF ReadSkipsAll
  <2>7. CASE ReadThrows
    <3>1. PICK i \in iterator : /\ Schemaless(i) /\ iterator' = {j \in iterator : j >= i}
                                /\ skipped' = skipped \union {j \in iterator : j < i}
      BY <2>7 DEF ReadThrows, Stops
    <3>2. result' \in Answers
      BY <2>7, AnswerFacts DEF ReadThrows
    <3>3. left = None
      BY <2>1, <3>1, WrittenIsCompatible
    <3> QED  BY <1>1, <2>2, <2>4, <2>5, <2>7, <3>1, <3>2, <3>3 DEF ReadThrows
  <2>8. CASE ReadYields
    <3>1. PICK i \in iterator : /\ iterator' = {j \in iterator : j > i}
                                /\ skipped' = skipped \union {j \in iterator : j < i}
                                /\ delivered' = Append(delivered, i)
                                /\ result' = [status |-> StatusOf(i), msg |-> i]
      BY <2>8 DEF ReadYields, Stops
    <3>2. i \in Nat /\ StatusOf(i) \in {"kOk", "kError", "kIncompatible"}
      BY <2>2 DEF StatusOf
    <3>3. result' \in Answers /\ result'.status = StatusOf(i)
      BY <3>1, <3>2, AnswerFacts
    <3>4. delivered' \in Seq(Nat)
      BY <1>1, <3>1, <3>2, AppendFacts
    <3>5. left # None => StatusOf(i) = "kOk"
      BY <2>1, WrittenIsCompatible
    <3> QED  BY <2>2, <2>4, <2>5, <3>1, <3>3, <3>4, <3>5
  <2> QED  BY <1>3, <2>6, <2>7, <2>8 DEF ReadMessage, ReadNothing
<1> QED  BY <1>2, <1>3 DEF ReadMessage, ReadSkipsAll, ReadThrows, ReadYields

LEMMA ReadingSound ==
  ASSUME FInv, Reading
  PROVE  WriterSound' /\ DiskSound' /\ LeftSound' /\ ReadSound'
<1>1. UNCHANGED <<disk, writerVars, left>> /\ ReaderNext
  BY DEF Reading
<1>2. WriterSound' /\ DiskSound'
  BY <1>1 DEF FInv, WriterSound, FileSound, WriterTypeOK, FirstSound, InFirstFile,
              DiskSound, writerVars, channelVars
<1>3. /\ ReadSound'
      /\ left # None => result'.status \notin {"kError", "kIncompatible", "thrown"}
  <2>1. ASSUME NEW p \in Paths, OpenTrace(p)
        PROVE  /\ ReadSound'
               /\ left # None => result'.status \notin {"kError", "kIncompatible", "thrown"}
    BY <1>1, <2>1, OpenTraceSound
  <2>2. CASE CloseTrace
    BY <1>1, <2>2, CloseTraceSound
  <2>3. ASSUME NEW ts \in SUBSET Topics, SetTopics(ts)
        PROVE  /\ ReadSound'
               /\ left # None => result'.status \notin {"kError", "kIncompatible", "thrown"}
    BY <1>1, <2>3, SetTopicsSound
  <2>4. ASSUME NEW b \in BOOLEAN, SetSkipIncompatibleMessages(b)
        PROVE  /\ ReadSound'
               /\ left # None => result'.status \notin {"kError", "kIncompatible", "thrown"}
    BY <1>1, <2>4 DEF SetSkipIncompatibleMessages, FInv, LeftSound, ReadSound, ReaderTypeOK
  <2>5. CASE ReadMessage
    BY <1>1, <2>5, ReadMessageSound
  <2> QED  BY <1>1, <2>1, <2>2, <2>3, <2>4, <2>5 DEF ReaderNext
<1>4. LeftSound'
  BY <1>1, <1>3 DEF Reading, FInv, LeftSound
<1> QED  BY <1>2, <1>3, <1>4

LEMMA FileInv == FileSpec => []FInv
<1>1. FileInit => FInv
  <2> SUFFICES ASSUME FileInit PROVE FInv
    OBVIOUS
  <2>1. disk \in Disks /\ ReaderInit /\ WriterInit /\ left = None
    BY DEF FileInit
  <2>2. AInv
    BY FilesNumbered DEF FileInit
  <2>3. DiskSound
    BY <2>1, FilesAssumption, NoneAssumption DEF DiskSound
  <2>4. ReadSound
    <3>1. result \in Answers
      BY <2>1, AnswerFacts DEF ReaderInit
    <3> QED  BY <2>1, <2>3, <3>1, EmptySeq
             DEF DiskSound, ReaderInit, ReadSound, ReaderTypeOK, Filters
  <2> QED  BY <2>1, <2>2, <2>3, <2>4, NewSound DEF FInv, LeftSound
<1>2. FInv /\ [FileNext]_allVars => FInv'
  <2>1. ASSUME FInv, UNCHANGED allVars  PROVE FInv'
    <3>1. AInv'
      BY <2>1, KeptInv DEF allVars, readerVars, FInv
    <3>2. WriterSound' /\ DiskSound'
      BY <2>1 DEF FInv, WriterSound, FileSound, WriterTypeOK, FirstSound, InFirstFile,
                  DiskSound, allVars, writerVars, channelVars
    <3>3. LeftSound' /\ ReadSound'
      BY <2>1 DEF FInv, LeftSound, ReadSound, ReaderTypeOK, allVars, readerVars
    <3> QED  BY <3>1, <3>2, <3>3 DEF FInv
  <2>2. ASSUME FInv, Writing  PROVE FInv'
    BY <2>2, WritingInv, WritingSound, WritingFound, WritingRead DEF FInv
  <2>3. ASSUME FInv, Reading  PROVE FInv'
    BY <2>3, ReadingInv, ReadingSound DEF FInv
  <2> QED  BY <2>1, <2>2, <2>3 DEF FileNext
<1> QED  BY <1>1, <1>2, PTL DEF FileSpec

(* C++ MCAP reader and writer: the types of all that they keep and hand    *)
(* out, and of the files they leave behind.                                *)
THEOREM FilesTyped == FileSpec => []FileTypeOK
<1>1. FInv => FileTypeOK
  BY DEF FInv, ReadSound, WriterSound, FileSound, LeftSound, LeftRecords, FileTypeOK
<1> QED  BY <1>1, FileInv, PTL

(* C++ MCAP writer, WriteMessage(), AddChannel() and AddFileMetadata(), and*)
(* the reader: the first file of a writer object reads back as what was    *)
(* answered with true, in that order and of that type, whatever was mixed  *)
(* and wherever a failure or a crash cut the file short.                   *)
THEOREM FirstReadsBack == FileSpec => []FirstFileReadsBack
<1>1. ASSUME FInv, file = Target, left # None
      PROVE  FirstFileReadsBack
  <2> DEFINE f == disk[Target]
  <2>1. file # None /\ Agrees(f, left) /\ Accounted
    BY <1>1, TargetAssumption, FilesAssumption DEF FInv, AInv, LeftSound
  <2>2. iterator \union Output \union skipped = Selected(file, viewing, filtered)
    BY <2>1 DEF Accounted
  <2>3. ASSUME NEW n \in Selected(file, viewing, filtered)
        PROVE  /\ n \in Wanted /\ Message(file, n).topic = left.accepted[n].topic
               /\ Message(file, n).schema.type = left.types[left.accepted[n].topic]
               /\ ~Incompatible(n)
    <3>1. n \in DOMAIN f.messages /\ Message(file, n) = f.messages[n]
      BY <1>1, <2>3 DEF Selected, Message
    <3>2. Passes(viewing, filtered, Message(file, n).topic)
      BY <2>3 DEF Selected
    <3>3. /\ n \in DOMAIN left.accepted
          /\ f.messages[n].topic = left.accepted[n].topic
          /\ f.messages[n].schema = [encoding |-> "protobuf",
                                     type |-> left.types[left.accepted[n].topic]]
          /\ left.types[left.accepted[n].topic] \in MessageTypes
      BY <2>1, <3>1 DEF Agrees
    <3>4. n \in Wanted
      BY <3>1, <3>2, <3>3 DEF Wanted
    <3> QED  BY <3>1, <3>3, <3>4, FilesAssumption DEF Incompatible
  <2>4. ASSUME NEW k \in DOMAIN delivered
        PROVE  LET n == delivered[k]
                   t == left.accepted[n].topic
               IN /\ n \in Wanted
                  /\ Message(file, n).topic = t
                  /\ Message(file, n).schema.type = left.types[t]
    <3>1. delivered[k] \in Selected(file, viewing, filtered)
      BY <2>2 DEF Output
    <3> QED  BY <2>3, <3>1
  <2>5. result.status \notin {"kError", "kIncompatible", "thrown"}
    BY <1>1 DEF FInv, LeftSound
  <2>6. ASSUME left.whole
        PROVE  /\ iterator \union Output = Wanted
               /\ left.titled /\ left.accepted # <<>> => file_metadata = 1
    <3>1. skipped = {}
      BY <2>1, <2>2, <2>3 DEF Accounted
    <3>2. ASSUME NEW n \in Wanted  PROVE n \in Selected(file, viewing, filtered)
      <4>1. n \in DOMAIN left.accepted /\ Passes(viewing, filtered, left.accepted[n].topic)
        BY DEF Wanted
      <4>2. n \in DOMAIN f.messages /\ f.messages[n].topic = left.accepted[n].topic
        BY <2>1, <2>6, <4>1 DEF Agrees
      <4> QED  BY <1>1, <4>1, <4>2 DEF Selected, Message
    <3>3. left.titled /\ left.accepted # <<>> => file_metadata = 1
      BY <1>1, <2>1, <2>6 DEF FInv, ReadSound, Agrees
    <3> QED  BY <2>2, <2>3, <3>1, <3>2, <3>3
  <2> QED  BY <2>4, <2>5, <2>6 DEF FirstFileReadsBack
<1>2. FInv => FirstFileReadsBack
  BY <1>1 DEF FirstFileReadsBack
<1> QED  BY <1>2, FileInv, PTL

-----------------------------------------------------------------------------
(* Time stamps                                                             *)

(* The test against the quotient, in which the subtraction cannot go below *)
(* zero, is exact: it lets through what fits and nothing else.             *)
LEMMA QuotientExact ==
    ASSUME NEW max \in Nat, NEW seconds \in Nat, NEW nanos \in 0..max
    PROVE  WithinRange(seconds, nanos, max) <=> Fits(Nanoseconds(seconds, nanos), max)
<1> DEFINE q == (max - nanos) \div NanosecondsPerSecond
<1>1. max - nanos \in Nat
  OBVIOUS
<1>2. /\ q \in Nat
      /\ NanosecondsPerSecond * q <= max - nanos
      /\ max - nanos < NanosecondsPerSecond * q + NanosecondsPerSecond
  BY <1>1, Z3 DEF NanosecondsPerSecond
<1>3. seconds <= q <=> seconds * NanosecondsPerSecond <= max - nanos
  <2> HIDE DEF q
  <2> QED BY <1>1, <1>2 DEF NanosecondsPerSecond
<1>4. seconds * NanosecondsPerSecond + nanos \in 0..max
        <=> seconds * NanosecondsPerSecond <= max - nanos
  BY DEF NanosecondsPerSecond
<1> QED BY <1>3, <1>4 DEF WithinRange, Fits, Nanoseconds

(* TimestampToNanoseconds never wraps: a time stamp that passes the tests  *)
(* comes out as its exact number of nanoseconds, up to the last one of the *)
(* range.                                                                  *)
THEOREM NeverWraps ==
    ASSUME NEW max \in Nat, NEW seconds \in Int, NEW nanos \in 0..max,
           NotNegative(seconds), WithinRange(seconds, nanos, max)
    PROVE  CppNanoseconds(seconds, nanos, max) = Nanoseconds(seconds, nanos)
<1> DEFINE product == seconds * NanosecondsPerSecond
<1>1. seconds \in Nat
  BY DEF NotNegative
<1>2. product \in 0..max /\ product + nanos \in 0..max
  BY <1>1, QuotientExact DEF Fits, Nanoseconds, NanosecondsPerSecond
<1>3. ASSUME NEW n \in 0..max PROVE Wrapped(n, max) = n
  BY DEF Wrapped
<1> HIDE DEF product
<1>4. Wrapped(product, max) = product /\ Wrapped(product + nanos, max) = product + nanos
  BY <1>2, <1>3
<1> QED BY <1>4 DEF CppNanoseconds, Nanoseconds, product

(* The two languages write the same time stamps, but for one case: nanos   *)
(* that make up for negative seconds.  Python counts them as a time after  *)
(* the epoch, C++ refuses them.                                            *)
THEOREM SameTimestamps ==
    ASSUME NEW max \in Nat, NEW seconds \in Int, NEW nanos \in 0..max
    PROVE  NotNegative(seconds) /\ WithinRange(seconds, nanos, max)
              <=> /\ Fits(Nanoseconds(seconds, nanos), max)
                  /\ ~(seconds < 0 /\ nanos >= -seconds * NanosecondsPerSecond)
<1>1. CASE seconds >= 0
  <2>1. seconds \in Nat
    BY <1>1
  <2> QED BY <1>1, <2>1, QuotientExact DEF NotNegative
<1>2. CASE seconds < 0
  BY <1>2 DEF NotNegative, Fits, Nanoseconds, NanosecondsPerSecond
<1> QED BY <1>1, <1>2

=============================================================================
