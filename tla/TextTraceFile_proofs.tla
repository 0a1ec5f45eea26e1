------------------------ MODULE TextTraceFile_proofs ------------------------
(***************************************************************************)
(* Theorems about the Python writer and reader of text trace files, for    *)
(* all texts, messages, types and paths: the types of what they keep, that *)
(* has_next tells the truth, that no field of a text is moved, and that    *)
(* messages which can be told apart read back as they were written.        *)
(***************************************************************************)
EXTENDS TextTraceFile, SequenceLemmas

-----------------------------------------------------------------------------
(* Items and texts                                                         *)

LEMMA ItemFacts ==
  ASSUME NEW i \in Items
  PROVE  i.name \in Fields \union {Garbled, None} /\ i.sound \in BOOLEAN
BY DEF Items

LEMMA TextOfFacts ==
  ASSUME NEW m \in Messages
  PROVE  /\ m \in Seq(Fields) /\ Len(m) \in Nat /\ DOMAIN m = 1..Len(m)
         /\ TextOf(m) \in Seq(Items) /\ Len(TextOf(m)) = Len(m)
         /\ \A k \in 1..Len(m) : TextOf(m)[k] = Field(m[k]) /\ m[k] \in Fields
<1>1. m \in Seq(Fields)
  BY TextAssumption
<1>2. /\ Len(m) \in Nat /\ DOMAIN m = 1..Len(m) /\ \A k \in 1..Len(m) : m[k] \in Fields
  BY <1>1
<1>3. \A k \in 1..Len(m) : Field(m[k]) \in Items
  BY <1>2 DEF Field, Items
<1>4. TextOf(m) = [k \in 1..Len(m) |-> Field(m[k])]
  BY <1>2 DEF TextOf
<1>5. TextOf(m) \in Seq(Items) /\ Len(TextOf(m)) = Len(m)
  BY <1>2, <1>3, <1>4
<1> QED  BY <1>1, <1>2, <1>4, <1>5

LEMMA TornFacts ==
  ASSUME NEW item \in Items, NEW t \in Torn(item)
  PROVE  t \in Items /\ ~t.sound /\ t.name \in {item.name, None}
<1>1. PICK n \in {item.name, None} : t = [name |-> n, sound |-> FALSE]
  BY DEF Torn
<1>2. n \in Fields \union {Garbled, None}
  BY ItemFacts
<1>3. t.name = n /\ t.sound = FALSE
  BY <1>1
<1> QED  BY <1>1, <1>2, <1>3 DEF Items

(* What is left of a text: its beginning, the last item perhaps torn.      *)
Begins(t, text) ==
    /\ Len(t) <= Len(text)
    /\ \A k \in 1..Len(t) : t[k] = text[k] \/ (k = Len(t) /\ t[k] \in Torn(text[k]))

LEMMA CutShortFacts ==
  ASSUME NEW text \in Seq(Items), NEW t \in CutShort(text)
  PROVE  t \in Seq(Items) /\ Begins(t, text)
<1>1. Len(text) \in Nat /\ DOMAIN text = 1..Len(text)
  OBVIOUS
<1>2. ASSUME NEW k \in 0..Len(text), t = SubSeq(text, 1, k)
      PROVE  t \in Seq(Items) /\ Begins(t, text)
  <2>1. k \in Nat /\ k <= Len(text)
    BY <1>1
  <2>2. /\ t \in Seq(Items) /\ Len(t) = k /\ \A j \in 1..k : t[j] = text[j]
    BY <1>2, <2>1, HeadFacts
  <2> QED  BY <2>1, <2>2 DEF Begins
<1>3. ASSUME NEW k \in DOMAIN text, NEW u \in Torn(text[k]),
             t = Append(SubSeq(text, 1, k - 1), u)
      PROVE  t \in Seq(Items) /\ Begins(t, text)
  <2> DEFINE s == SubSeq(text, 1, k - 1)
  <2>1. k - 1 \in Nat /\ k - 1 <= Len(text) /\ k <= Len(text) /\ k \in Nat /\ (k - 1) + 1 = k
    BY <1>1
  <2>2. /\ s \in Seq(Items) /\ Len(s) = k - 1 /\ \A j \in 1..(k - 1) : s[j] = text[j]
    BY <2>1, HeadFacts
  <2>3. u \in Items
    <3>1. text[k] \in Items
      BY <1>1
    <3> QED  BY <3>1, TornFacts
  <2> HIDE DEF s
  <2>4. /\ t \in Seq(Items) /\ Len(t) = k /\ t[k] = u /\ \A j \in 1..(k - 1) : t[j] = s[j]
    BY <1>3, <2>1, <2>2, <2>3, AppendFacts DEF s
  <2> QED  BY <2>1, <2>2, <2>4 DEF Begins
<1> QED  BY <1>2, <1>3 DEF CutShort

LEMMA JoinTyped ==
  ASSUME NEW text \in Seq(Items), NEW more \in Seq(Items)
  PROVE  Join(text, more) \in Seq(Items)
<1>1. CASE text = <<>> \/ more = <<>> \/ Last(text).sound
  BY <1>1 DEF Join
<1>2. CASE ~(text = <<>> \/ more = <<>> \/ Last(text).sound)
  <2>1. Len(text) \in Nat /\ Len(text) # 0
    BY <1>2, EmptySeq
  <2>2. Last(text) \in Items
    BY <2>1 DEF Last
  <2>3. Glued(Last(text)) \in Items
    BY <2>2 DEF Glued, Items
  <2>4. Front(text) \in Seq(Items)
    <3>1. Len(text) - 1 \in Nat /\ Len(text) - 1 <= Len(text)
      BY <2>1
    <3> QED  BY <3>1, HeadFacts DEF Front
  <2>5. Tail(more) \in Seq(Items)
    BY <1>2
  <2>6. Join(text, more) = Front(text) \o <<Glued(Last(text))>> \o Tail(more)
    BY <1>2 DEF Join
  <2> QED  BY <2>3, <2>4, <2>5, <2>6
<1> QED  BY <1>1, <1>2

-----------------------------------------------------------------------------
(* The fields of a text                                                    *)

NameSeqs(text) == [n \in 1..Len(text) |-> NameIn(text[n])]

LEMMA NameSeqsFacts ==
  ASSUME NEW S, NEW text \in Seq(Items), \A n \in 1..Len(text) : text[n].name \in S \union {None}
  PROVE  /\ NameSeqs(text) \in Seq(Seq(S)) /\ Len(NameSeqs(text)) = Len(text)
         /\ \A n \in 1..Len(text) : NameSeqs(text)[n] = NameIn(text[n])
         /\ NamesIn(text) = FlattenSeq(NameSeqs(text))
<1>1. Len(text) \in Nat /\ DOMAIN text = 1..Len(text)
  OBVIOUS
<1>2. ASSUME NEW n \in 1..Len(text)  PROVE NameIn(text[n]) \in Seq(S)
  <2>1. CASE text[n].name = None
    BY <2>1, EmptySeq DEF NameIn
  <2>2. CASE text[n].name # None
    <3>1. text[n].name \in S
      BY <2>2
    <3>2. <<text[n].name>> \in Seq(S)
      BY <3>1
    <3> QED  BY <2>2, <3>2 DEF NameIn
  <2> QED  BY <2>1, <2>2
<1>3. NamesIn(text) = FlattenSeq(NameSeqs(text))
  BY <1>1 DEF NamesIn, NameSeqs
<1>4. /\ NameSeqs(text) \in Seq(Seq(S)) /\ Len(NameSeqs(text)) = Len(text)
      /\ \A n \in 1..Len(text) : NameSeqs(text)[n] = NameIn(text[n])
  BY <1>1, <1>2 DEF NameSeqs
<1> QED  BY <1>3, <1>4

Names == Fields \union {Garbled}

LEMMA ItemsNamed ==
  ASSUME NEW text \in Seq(Items)
  PROVE  \A n \in 1..Len(text) : text[n].name \in Names \union {None}
<1> SUFFICES ASSUME NEW n \in 1..Len(text)  PROVE text[n].name \in Names \union {None}
  OBVIOUS
<1>1. text[n] \in Items
  OBVIOUS
<1> QED  BY <1>1, ItemFacts DEF Names

LEMMA NamesTyped ==
  ASSUME NEW S, NEW text \in Seq(Items), \A n \in 1..Len(text) : text[n].name \in S \union {None}
  PROVE  NamesIn(text) \in Seq(S)
BY NameSeqsFacts, FlattenTyped

(* The fields of a text are those of its parts.                            *)
LEMMA NamesConcat ==
  ASSUME NEW a \in Seq(Items), NEW b \in Seq(Items)
  PROVE  NamesIn(a \o b) = NamesIn(a) \o NamesIn(b)
<1>1. /\ Len(a) \in Nat /\ Len(b) \in Nat /\ a \o b \in Seq(Items)
      /\ Len(a \o b) = Len(a) + Len(b)
      /\ \A i \in 1..Len(a) + Len(b) : (a \o b)[i] = IF i <= Len(a) THEN a[i] ELSE b[i - Len(a)]
  BY ConcatProperties
<1>2. /\ NameSeqs(a) \in Seq(Seq(Names)) /\ Len(NameSeqs(a)) = Len(a)
      /\ \A n \in 1..Len(a) : NameSeqs(a)[n] = NameIn(a[n])
      /\ NamesIn(a) = FlattenSeq(NameSeqs(a))
  BY ItemsNamed, NameSeqsFacts
<1>3. /\ NameSeqs(b) \in Seq(Seq(Names)) /\ Len(NameSeqs(b)) = Len(b)
      /\ \A n \in 1..Len(b) : NameSeqs(b)[n] = NameIn(b[n])
      /\ NamesIn(b) = FlattenSeq(NameSeqs(b))
  BY ItemsNamed, NameSeqsFacts
<1>4. /\ NameSeqs(a \o b) \in Seq(Seq(Names)) /\ Len(NameSeqs(a \o b)) = Len(a) + Len(b)
      /\ \A n \in 1..Len(a) + Len(b) : NameSeqs(a \o b)[n] = NameIn((a \o b)[n])
      /\ NamesIn(a \o b) = FlattenSeq(NameSeqs(a \o b))
  BY <1>1, ItemsNamed, NameSeqsFacts
<1>5. NameSeqs(a \o b) = NameSeqs(a) \o NameSeqs(b)
  <2>1. ASSUME NEW i \in 1..Len(a)  PROVE NameSeqs(a \o b)[i] = NameSeqs(a)[i]
    <3>1. i \in 1..Len(a) + Len(b) /\ (a \o b)[i] = a[i]
      BY <1>1
    <3> QED  BY <1>2, <1>4, <3>1
  <2>2. ASSUME NEW i \in 1..Len(b)  PROVE NameSeqs(a \o b)[Len(a) + i] = NameSeqs(b)[i]
    <3>1. /\ Len(a) + i \in 1..Len(a) + Len(b) /\ ~(Len(a) + i <= Len(a))
          /\ (Len(a) + i) - Len(a) = i
      BY <1>1
    <3>2. (a \o b)[Len(a) + i] = b[i]
      BY <1>1, <3>1
    <3> QED  BY <1>3, <1>4, <3>1, <3>2
  <2>3. PICK T, x, y, z : /\ T = Seq(Names) /\ x = NameSeqs(a) /\ y = NameSeqs(b)
                          /\ z = NameSeqs(a \o b)
    OBVIOUS
  <2>4. /\ x \in Seq(T) /\ y \in Seq(T) /\ z \in Seq(T) /\ Len(z) = Len(x) + Len(y)
        /\ \A i \in 1..Len(x) : z[i] = x[i]
        /\ \A i \in 1..Len(y) : z[Len(x) + i] = y[i]
    BY <1>2, <1>3, <1>4, <2>1, <2>2, <2>3
  <2>5. z = x \o y
    BY ONLY <2>4, Placewise
  <2> QED  BY <2>3, <2>5
<1>6. FlattenSeq(NameSeqs(a) \o NameSeqs(b)) = FlattenSeq(NameSeqs(a)) \o FlattenSeq(NameSeqs(b))
  BY <1>2, <1>3, FlattenConcat
<1> QED  BY <1>2, <1>3, <1>4, <1>5, <1>6

LEMMA NamesNone == NamesIn(<<>>) = <<>>
<1>1. <<>> \in Seq(Items) /\ Len(<<>>) = 0 /\ 1..0 = {}
  OBVIOUS
<1>2. [n \in DOMAIN <<>> |-> NameIn(<<>>[n])] = <<>>
  OBVIOUS
<1> QED  BY <1>2, FlattenNone DEF NamesIn

(* A text of sound fields has these fields.                                *)
LEMMA NamesOfFields ==
  ASSUME NEW m \in Seq(Fields), NEW text \in Seq(Items), Len(text) <= Len(m),
         \A k \in 1..Len(text) : text[k] = Field(m[k])
  PROVE  NamesIn(text) = SubSeq(m, 1, Len(text))
<1> DEFINE N == Len(text)
           s == SubSeq(m, 1, N)
<1>1. /\ N \in Nat /\ DOMAIN text = 1..N
      /\ s \in Seq(Fields) /\ Len(s) = N /\ \A k \in 1..N : s[k] = m[k]
  BY HeadFacts
<1>2. ASSUME NEW k \in 1..N  PROVE NameIn(text[k]) = <<s[k]>>
  <2>1. m[k] \in Fields /\ m[k] # None
    BY <1>1, TextAssumption
  <2>2. text[k].name = m[k]
    <3>1. text[k] = Field(m[k])
      OBVIOUS
    <3> QED  BY <3>1 DEF Field
  <2> QED  BY <1>1, <2>1, <2>2 DEF NameIn
<1>3. NamesIn(text) = FlattenSeq([n \in 1..N |-> <<s[n]>>])
  <2>1. [n \in DOMAIN text |-> NameIn(text[n])] = [n \in 1..N |-> <<s[n]>>]
    BY <1>1, <1>2
  <2> QED  BY <2>1 DEF NamesIn
<1> HIDE DEF s
<1>4. FlattenSeq([n \in 1..N |-> <<s[n]>>]) = s
  <2>1. N = Len(s)
    BY <1>1
  <2>2. FlattenSeq([n \in 1..Len(s) |-> <<s[n]>>]) = s
    BY <1>1, FlattenSingles
  <2> QED  BY <2>1, <2>2
<1> QED  BY <1>3, <1>4 DEF s

-----------------------------------------------------------------------------
(* Types, and has_next                                                     *)

Opened == source # None => message_class \in MessageTypes /\ disk[source] \in Seq(Items)

OutThere == out # None => out \in Paths /\ disk[out] \in Seq(Items)

(* The first part of the inductive invariant.                              *)
Typed == TextTypeOK /\ FlagAgrees /\ Opened /\ OutThere

LEMMA DiskPut ==
  ASSUME disk \in DiskValues, NEW p \in Paths, NEW t \in Seq(Items)
  PROVE  /\ [disk EXCEPT ![p] = t] \in DiskValues
         /\ [disk EXCEPT ![p] = t][p] = t
         /\ \A q \in Paths : q # p => [disk EXCEPT ![p] = t][q] = disk[q]
BY DEF DiskValues

LEMMA NoItems == <<>> \in Seq(Items) /\ <<>> \in Seq(Messages) /\ <<>> \in Seq(Seq(Fields))
OBVIOUS

(* What every step of the writer leaves to be shown.                       *)
LEMMA WriterTyped ==
  ASSUME Typed, Writing, WriterTypeOK', OutThere'
  PROVE  Typed'
<1>1. source = None /\ UNCHANGED readerVars
  <2>1. message_class = None
    BY DEF Writing, Idle
  <2> QED  BY <2>1, TextAssumption DEF Typed, Opened, Writing
<1>2. UNCHANGED <<message_type, message_class, buffer, has_next, ret, source, got>>
  BY <1>1 DEF readerVars
<1>3. ReaderTypeOK' /\ FlagAgrees' /\ Opened'
  BY <1>1, <1>2 DEF Typed, TextTypeOK, ReaderTypeOK, WriterTypeOK, FlagAgrees, Opened
<1> QED  BY <1>3 DEF Typed, TextTypeOK

LEMMA PutTyped ==
  ASSUME Typed, out # None, NEW t \in Seq(Items), disk' = [disk EXCEPT ![out] = t]
  PROVE  disk' \in DiskValues /\ disk'[out] = t
BY DiskPut DEF Typed, TextTypeOK, WriterTypeOK, OutThere

LEMMA ExtendIs ==
  ASSUME NEW text, Extend(text)
  PROVE  disk' = [disk EXCEPT ![out] = Join(disk[out], text)]
BY DEF Extend

LEMMA WritingTyped == ASSUME Typed, Writing PROVE Typed'
<1>1. WriterTypeOK /\ OutThere /\ WriterNext
  BY DEF Typed, TextTypeOK, Writing
<1>2. SUFFICES WriterTypeOK' /\ OutThere'
  BY WriterTyped
<1>3. ASSUME NEW p \in Paths, OpenWriter(p)  PROVE WriterTypeOK' /\ OutThere'
  <2>1. p \in TxthPaths /\ disk' = [disk EXCEPT ![p] = <<>>]
    BY <1>3 DEF OpenWriter
  <2>2. disk' \in DiskValues /\ disk'[p] = <<>>
    BY <1>1, <2>1, DiskPut, NoItems DEF WriterTypeOK
  <2> QED  BY <1>3, <2>1, <2>2, NoItems DEF OpenWriter, WriterTypeOK, OutThere
<1>4. ASSUME NEW m \in Messages, Write(m)  PROVE WriterTypeOK' /\ OutThere'
  <2>1. out # None /\ disk' = [disk EXCEPT ![out] = Join(disk[out], TextOf(m))]
    BY <1>4, ExtendIs DEF Write, MayWrite
  <2>2. Join(disk[out], TextOf(m)) \in Seq(Items)
    BY <1>1, <2>1, JoinTyped, TextOfFacts DEF OutThere
  <2>3. disk' \in DiskValues /\ disk'[out] \in Seq(Items)
    BY <2>1, <2>2, PutTyped
  <2>4. accepted' \in Seq(Messages)
    <3>1. accepted' = Append(accepted, m) /\ accepted \in Seq(Messages)
      BY <1>1, <1>4 DEF Write, WriterTypeOK
    <3> QED  BY <3>1
  <2>5. written' \in Nat
    BY <1>1, <1>4 DEF Write, WriterTypeOK
  <2> QED  BY <1>1, <1>4, <2>3, <2>4, <2>5 DEF Write, WriterTypeOK, OutThere
<1>5. ASSUME NEW m \in Messages, WriteFails(m)  PROVE WriterTypeOK' /\ OutThere'
  <2>1. PICK text \in CutShort(TextOf(m)) :
            /\ Extend(text)
            /\ damage' = IF text = <<>> THEN damage ELSE damage \union {"torn"}
    BY <1>5 DEF WriteFails
  <2>2. out # None /\ text \in Seq(Items)
    BY <1>5, TextOfFacts, CutShortFacts DEF WriteFails, MayWrite
  <2>3. disk' = [disk EXCEPT ![out] = Join(disk[out], text)]
    BY <2>1, ExtendIs
  <2>4. Join(disk[out], text) \in Seq(Items)
    BY <1>1, <2>2, JoinTyped DEF OutThere
  <2>5. disk' \in DiskValues /\ disk'[out] \in Seq(Items)
    BY <2>2, <2>3, <2>4, PutTyped
  <2> QED  BY <1>1, <1>5, <2>1, <2>5 DEF WriteFails, WriterTypeOK, OutThere
<1>6. CASE OpenWriterRefused \/ WriteRefused \/ CloseWriter
  BY <1>1, <1>6 DEF OpenWriterRefused, WriteRefused, CloseWriter, WriterTypeOK, OutThere
<1>7. CASE CloseWriterFails \/ CrashWriter
  <2>1. out # None /\ Cut(out)
    BY <1>7 DEF CloseWriterFails, CrashWriter
  <2>2. PICK text \in CutShort(disk[out]) :
            /\ disk' = [disk EXCEPT ![out] = text]
            /\ damage' = IF text = disk[out] THEN damage ELSE damage \union {"cut"}
    BY <2>1 DEF Cut
  <2>3. text \in Seq(Items)
    BY <1>1, <2>1, CutShortFacts DEF OutThere
  <2>4. disk' \in DiskValues /\ disk'[out] \in Seq(Items)
    BY <2>1, <2>2, <2>3, PutTyped
  <2>5. damage' \in SUBSET {"torn", "cut"}
    <3>1. damage' \in {damage, damage \union {"cut"}} /\ damage \in SUBSET {"torn", "cut"}
      BY <1>1, <2>2 DEF WriterTypeOK
    <3> QED  BY <3>1
  <2>6. CASE CloseWriterFails
    BY <1>1, <2>4, <2>5, <2>6 DEF CloseWriterFails, WriterTypeOK, OutThere
  <2>7. CASE CrashWriter
    BY <1>1, <2>4, <2>5, <2>7 DEF CrashWriter, WriterTypeOK, OutThere
  <2> QED  BY <1>7, <2>6, <2>7
<1> QED  BY <1>1, <1>3, <1>4, <1>5, <1>6, <1>7 DEF WriterNext

(* Where the reader divides its text.                                      *)
LEMMA EndFacts ==
  ASSUME buffer \in Seq(Items), buffer # <<>>
  PROVE  /\ Len(buffer) \in Nat \ {0} /\ DOMAIN buffer = 1..Len(buffer)
         /\ MessageEnd \in 1..Len(buffer)
         /\ \A i \in 2..MessageEnd : buffer[i].name # FirstField
         /\ MessageEnd # Len(buffer) => buffer[MessageEnd + 1].name = FirstField
<1> DEFINE starts == {i \in DOMAIN buffer : i > 1 /\ buffer[i].name = FirstField}
<1>1. Len(buffer) \in Nat \ {0} /\ DOMAIN buffer = 1..Len(buffer)
  BY EmptySeq
<1>2. MessageEnd = IF starts = {} THEN Len(buffer)
                   ELSE (CHOOSE i \in starts : \A j \in starts : i <= j) - 1
  BY DEF MessageEnd
<1>3. starts \in SUBSET Nat
  BY <1>1
<1>4. CASE starts = {}
  <2>1. ASSUME NEW i \in 2..Len(buffer)  PROVE buffer[i].name # FirstField
    <3>1. i \in DOMAIN buffer /\ i > 1
      BY <1>1
    <3> QED  BY <1>4, <3>1
  <2> QED  BY <1>1, <1>2, <1>4, <2>1
<1>5. CASE starts # {}
  <2>1. \E n \in starts : \A j \in starts : n <= j
    BY <1>3, <1>5, FirstOf
  <2>2. PICK n : /\ n = CHOOSE i \in starts : \A j \in starts : i <= j
                 /\ n \in starts /\ \A j \in starts : n <= j
    <3> HIDE DEF starts
    <3> QED  BY <2>1
  <2>3. n \in 2..Len(buffer) /\ buffer[n].name = FirstField /\ MessageEnd = n - 1
    BY <1>1, <1>2, <1>5, <2>2
  <2>4. ASSUME NEW i \in 2..(n - 1)  PROVE buffer[i].name # FirstField
    <3>1. i \in DOMAIN buffer /\ i > 1 /\ ~(n <= i)
      BY <1>1, <2>3
    <3>2. i \notin starts
      BY <2>2, <3>1
    <3> QED  BY <3>1, <3>2
  <2>5. n - 1 \in 1..Len(buffer) /\ (n - 1) + 1 = n
    BY <1>1, <2>3
  <2> QED  BY <1>1, <2>3, <2>4, <2>5
<1> QED  BY <1>1, <1>4, <1>5

LEMMA PartsFacts ==
  ASSUME buffer \in Seq(Items), buffer # <<>>
  PROVE  /\ Piece \in Seq(Items) /\ Remainder \in Seq(Items)
         /\ Piece \o Remainder = buffer
         /\ Len(Piece) = MessageEnd /\ \A k \in 1..MessageEnd : Piece[k] = buffer[k]
<1>1. PICK n, N : n = MessageEnd /\ N = Len(buffer)
  OBVIOUS
<1>2. n \in 1..N /\ N \in Nat \ {0}
  BY <1>1, EndFacts
<1>3. Piece = SubSeq(buffer, 1, n) /\ Remainder = SubSeq(buffer, n + 1, N)
  BY <1>1 DEF Piece, Remainder
<1>4. /\ SubSeq(buffer, 1, n) \in Seq(Items) /\ Len(SubSeq(buffer, 1, n)) = n
      /\ \A k \in 1..n : SubSeq(buffer, 1, n)[k] = buffer[k]
  BY <1>1, <1>2, HeadFacts
<1>5. SubSeq(buffer, n + 1, N) \in Seq(Items)
  BY <1>1, <1>2, PartFacts
<1>6. SubSeq(buffer, 1, n) \o SubSeq(buffer, n + 1, N) = buffer
  <2>1. 1 \in 1..Len(buffer) + 1 /\ n \in 1 - 1..Len(buffer) /\ N \in n..Len(buffer)
    BY <1>1, <1>2
  <2>2. SubSeq(buffer, 1, n) \o SubSeq(buffer, n + 1, N) = SubSeq(buffer, 1, N)
    BY <2>1, ConcatAdjacentSubSeq
  <2> QED  BY <1>1, <2>2, SubSeqFull
<1> QED  BY <1>1, <1>3, <1>4, <1>5, <1>6

-----------------------------------------------------------------------------
(* The steps of the reader                                                 *)

(* What every step of the reader leaves to be shown.                       *)
LEMMA ReaderTyped ==
  ASSUME Typed, UNCHANGED <<disk, writerVars>>, ReaderTypeOK', FlagAgrees', Opened'
  PROVE  Typed'
<1>1. UNCHANGED <<disk, out, usable, written, answer, target, accepted, damage>>
  BY DEF writerVars
<1>2. WriterTypeOK' /\ OutThere'
  BY <1>1 DEF Typed, TextTypeOK, WriterTypeOK, OutThere
<1> QED  BY <1>2 DEF Typed, TextTypeOK

LEMMA ParsedNames ==
  ASSUME NEW text \in Seq(Items), NEW type \in MessageTypes, Parses(text, type)
  PROVE  NamesIn(text) \in Seq(Fields)
<1>1. FieldsOf[type] \subseteq Fields
  BY TextAssumption
<1>2. ASSUME NEW n \in 1..Len(text)  PROVE text[n].name \in Fields \union {None}
  <2>1. n \in DOMAIN text
    OBVIOUS
  <2> QED  BY <1>1, <2>1 DEF Parses
<1> QED  BY <1>2, NamesTyped

LEMMA GiveTyped ==
  ASSUME Typed, UNCHANGED disk, message_class # None,
         NEW text \in Seq(Items), NEW rest \in Seq(Items),
         Parses(text, message_class), Give(text, rest)
  PROVE  ReaderTypeOK' /\ FlagAgrees' /\ Opened'
<1>1. ReaderTypeOK /\ message_class \in MessageTypes
  BY DEF Typed, TextTypeOK, ReaderTypeOK
<1>2. NamesIn(text) \in Seq(Fields)
  BY <1>1, ParsedNames
<1>3. got' \in Seq(Seq(Fields))
  <2>1. got' = Append(got, NamesIn(text)) /\ got \in Seq(Seq(Fields))
    BY <1>1 DEF Give, ReaderTypeOK
  <2> QED  BY <1>2, <2>1
<1>4. /\ buffer' = rest /\ has_next' = (rest # <<>>) /\ ret' = "OK"
      /\ UNCHANGED <<message_type, message_class, source>>
  BY DEF Give, KeepSetup
<1>5. ReaderTypeOK'
  BY <1>1, <1>3, <1>4 DEF ReaderTypeOK, Answers
<1>6. FlagAgrees'
  BY <1>4 DEF FlagAgrees
<1>7. Opened'
  BY <1>4 DEF Typed, Opened
<1> QED  BY <1>5, <1>6, <1>7

LEMMA OpenTyped ==
  ASSUME Typed, UNCHANGED disk, NEW p \in Paths, Open(p)
  PROVE  ReaderTypeOK' /\ FlagAgrees' /\ Opened'
<1>1. ReaderTypeOK /\ FlagAgrees /\ Opened
  BY DEF Typed, TextTypeOK
<1>2. TypeFor(p) \in MessageTypes \union {Unknown}
  BY <1>1, TextAssumption DEF TypeFor, ReaderTypeOK
<1>3. CASE OpenAgain \/ OpenUnknown(p)
  BY <1>1, <1>3 DEF OpenAgain, OpenUnknown, Refuse, ReaderTypeOK, FlagAgrees, Opened, Answers
<1>4. CASE OpenMissing(p)
  <2>1. source = None
    BY <1>1, <1>4, TextAssumption DEF OpenMissing, Opened
  <2> QED  BY <1>1, <1>2, <1>4, <2>1
           DEF OpenMissing, Refuse, ReaderTypeOK, FlagAgrees, Opened, Answers
<1>5. CASE OpenUndecodable(p)
  <2>1. source = None
    BY <1>1, <1>5, TextAssumption DEF OpenUndecodable, Opened
  <2> QED  BY <1>1, <1>2, <1>5, <2>1
           DEF OpenUndecodable, ReaderTypeOK, FlagAgrees, Opened, Answers
<1>6. CASE OpenPresent(p)
  <2>1. TypeFor(p) \in MessageTypes
    BY <1>2, <1>6 DEF OpenPresent
  <2>2. disk[p] \in Seq(Items)
    BY <1>1, <1>6 DEF OpenPresent, ReaderTypeOK, DiskValues
  <2>3. /\ message_type' \in MessageTypes /\ message_class' \in MessageTypes
        /\ buffer' = disk[p] /\ has_next' = (disk[p] # <<>>)
        /\ ret' = "OPENED" /\ source' = p /\ got' = <<>>
    BY <1>6, <2>1 DEF OpenPresent
  <2>4. message_class' # None
    BY <2>3, TextAssumption
  <2>5. ReaderTypeOK'
    BY <1>1, <2>2, <2>3, NoItems DEF ReaderTypeOK, Answers
  <2>6. FlagAgrees'
    BY <2>3, <2>4 DEF FlagAgrees
  <2>7. Opened'
    BY <2>2, <2>3 DEF Opened
  <2> QED  BY <2>5, <2>6, <2>7
<1> QED  BY <1>3, <1>4, <1>5, <1>6 DEF Open

LEMMA ReadTyped ==
  ASSUME Typed, UNCHANGED disk, ReadMessage
  PROVE  ReaderTypeOK' /\ FlagAgrees' /\ Opened'
<1>1. ReaderTypeOK /\ FlagAgrees /\ Opened /\ buffer \in Seq(Items)
  BY DEF Typed, TextTypeOK, ReaderTypeOK
<1>2. CASE ReadNothing \/ ReadNameless
  <2>1. End
    BY <1>2 DEF ReadNothing, ReadNameless
  <2> QED  BY <1>1, <2>1 DEF End, KeepSetup, ReaderTypeOK, FlagAgrees, Opened, Answers
<1>3. CASE ReadWhole
  BY <1>1, <1>3, GiveTyped, NoItems DEF ReadWhole
<1>4. CASE ReadPiece
  <2>1. message_class # None /\ buffer # <<>> /\ Parses(Piece, message_class)
        /\ Give(Piece, Remainder)
    BY <1>4 DEF ReadPiece, Divisible
  <2> QED  BY <1>1, <2>1, PartsFacts, GiveTyped
<1>5. CASE ReadMalformed
  BY <1>1, <1>5, NoItems DEF ReadMalformed, KeepSetup, ReaderTypeOK, FlagAgrees, Opened, Answers
<1> QED  BY <1>2, <1>3, <1>4, <1>5 DEF ReadMessage

LEMMA ReadingTyped == ASSUME Typed, Reading PROVE Typed'
<1>1. ReaderTypeOK /\ FlagAgrees /\ Opened /\ UNCHANGED disk
  BY DEF Typed, TextTypeOK, Reading
<1>2. SUFFICES ReaderTypeOK' /\ FlagAgrees' /\ Opened'
  BY ReaderTyped DEF Reading
<1>3. ASSUME NEW p \in Paths, Open(p)  PROVE ReaderTypeOK' /\ FlagAgrees' /\ Opened'
  BY <1>1, <1>3, OpenTyped
<1>4. CASE SettingType
  BY <1>1, <1>4 DEF SettingType, SetMessageType, ReaderTypeOK, FlagAgrees, Opened
<1>5. CASE Close
  BY <1>1, <1>5, NoItems DEF Close, ReaderTypeOK, FlagAgrees, Opened, Answers
<1>6. CASE ReadMessage
  BY <1>1, <1>6, ReadTyped
<1> QED  BY <1>3, <1>4, <1>5, <1>6 DEF Reading

LEMMA InitTyped == FileInit => Typed
<1> SUFFICES ASSUME FileInit  PROVE Typed
  OBVIOUS
<1>1. disk \in DiskValues
  BY TextDisksAssumption DEF FileInit
<1>2. ReaderTypeOK
  BY <1>1, NoItems DEF FileInit, ReaderInit, ReaderTypeOK, Answers
<1>3. WriterTypeOK
  BY <1>1, NoItems DEF FileInit, WriterInit, WriterTypeOK
<1>4. FlagAgrees /\ Opened /\ OutThere
  BY DEF FileInit, ReaderInit, WriterInit, FlagAgrees, Opened, OutThere
<1> QED  BY <1>2, <1>3, <1>4 DEF Typed, TextTypeOK

LEMMA StillTyped == ASSUME Typed, UNCHANGED allVars PROVE Typed'
<1>1. /\ UNCHANGED <<disk, out, usable, written, answer, target, accepted, damage>>
      /\ UNCHANGED <<message_type, message_class, buffer, has_next, ret, source, got>>
  BY DEF allVars, readerVars, writerVars
<1> QED  BY <1>1 DEF Typed, TextTypeOK, ReaderTypeOK, WriterTypeOK, FlagAgrees, Opened, OutThere

THEOREM AlwaysTyped == FileSpec => []Typed
<1>1. Typed /\ [FileNext]_allVars => Typed'
  BY WritingTyped, ReadingTyped, StillTyped DEF FileNext
<1> QED  BY InitTyped, <1>1, PTL DEF FileSpec

(* Every variable of the writer, of the reader and of the disk keeps its   *)
(* type, in particular what is parsed is a sequence of the class's fields. *)
THEOREM TextTyped == FileSpec => []TextTypeOK
<1>1. Typed => TextTypeOK
  BY DEF Typed
<1> QED  BY AlwaysTyped, <1>1, PTL

(* has_next, kept by each return of read_message on its own, never         *)
(* announces a message of a text that is used up, and never falls on a     *)
(* read that leaves some of the text behind.                               *)
THEOREM FlagKept == FileSpec => []FlagAgrees
<1>1. Typed => FlagAgrees
  BY DEF Typed
<1> QED  BY AlwaysTyped, <1>1, PTL

-----------------------------------------------------------------------------
(* No field is lost or moved                                               *)

LEMMA PrefixOf ==
  ASSUME NEW S, NEW a \in Seq(S), NEW b \in Seq(S)
  PROVE  IsPrefix(a, a \o b)
<1>1. /\ Len(a) \in Nat /\ Len(b) \in Nat /\ a \o b \in Seq(S)
      /\ Len(a \o b) = Len(a) + Len(b)
      /\ \A i \in 1..Len(a) + Len(b) : (a \o b)[i] = IF i <= Len(a) THEN a[i] ELSE b[i - Len(a)]
  BY ConcatProperties
<1>2. Len(a) <= Len(a \o b)
  BY <1>1
<1>3. /\ SubSeq(a \o b, 1, Len(a)) \in Seq(S) /\ Len(SubSeq(a \o b, 1, Len(a))) = Len(a)
      /\ \A k \in 1..Len(a) : SubSeq(a \o b, 1, Len(a))[k] = (a \o b)[k]
  BY <1>1, <1>2, HeadFacts
<1>4. \A k \in 1..Len(a) : SubSeq(a \o b, 1, Len(a))[k] = a[k]
  BY <1>1, <1>3
<1>5. SubSeq(a \o b, 1, Len(a)) = a
  BY <1>3, <1>4, SeqEqual
<1>6. SubSeq(a, 1, Len(a)) = a
  BY SubSeqFull
<1> QED  BY <1>2, <1>5, <1>6 DEF IsPrefix

LEMMA PrefixOfItself == ASSUME NEW S, NEW a \in Seq(S) PROVE IsPrefix(a, a)
BY DEF IsPrefix

(* The fields that are accounted for.                                      *)
Accounted == FlattenSeq(got) \o NamesIn(buffer)

LEMMA AccountedTyped ==
  ASSUME Typed
  PROVE  /\ got \in Seq(Seq(Names)) /\ FlattenSeq(got) \in Seq(Names)
         /\ NamesIn(buffer) \in Seq(Names) /\ Accounted \in Seq(Names)
<1>1. got \in Seq(Seq(Fields)) /\ buffer \in Seq(Items)
  BY DEF Typed, TextTypeOK, ReaderTypeOK
<1>2. got \in Seq(Seq(Names))
  <2>1. /\ Len(got) \in Nat /\ \A n \in 1..Len(got) : got[n] \in Seq(Fields)
    BY <1>1
  <2>2. \A n \in 1..Len(got) : got[n] \in Seq(Names)
    BY <2>1 DEF Names
  <2>3. got = [n \in 1..Len(got) |-> got[n]]
    BY <1>1
  <2> QED  BY <2>1, <2>2, <2>3
<1>3. FlattenSeq(got) \in Seq(Names)
  BY <1>2, FlattenTyped
<1>4. NamesIn(buffer) \in Seq(Names)
  BY <1>1, ItemsNamed, NamesTyped
<1> QED  BY <1>2, <1>3, <1>4 DEF Accounted

(* A message taken off the front of the text takes its fields along.       *)
LEMMA GiveConserves ==
  ASSUME Typed, message_class # None, NEW text \in Seq(Items), NEW rest \in Seq(Items),
         text \o rest = buffer, Parses(text, message_class), Give(text, rest)
  PROVE  Accounted' = Accounted
<1>1. /\ got \in Seq(Seq(Names)) /\ FlattenSeq(got) \in Seq(Names)
  BY AccountedTyped
<1>2. NamesIn(text) \in Seq(Names) /\ NamesIn(rest) \in Seq(Names)
  BY ItemsNamed, NamesTyped
<1>3. got' = Append(got, NamesIn(text)) /\ buffer' = rest
  BY DEF Give
<1>4. FlattenSeq(got') = FlattenSeq(got) \o NamesIn(text)
  BY <1>1, <1>2, <1>3, FlattenAppend
<1>5. NamesIn(buffer) = NamesIn(text) \o NamesIn(rest)
  BY NamesConcat
<1>6. (FlattenSeq(got) \o NamesIn(text)) \o NamesIn(rest)
        = FlattenSeq(got) \o (NamesIn(text) \o NamesIn(rest))
  BY <1>1, <1>2, Associative, SMTT(60)
<1> QED  BY <1>3, <1>4, <1>5, <1>6 DEF Accounted

LEMMA ReadConserves ==
  ASSUME Typed, Typed', Conserved, source # None, UNCHANGED disk, ReadMessage
  PROVE  Conserved'
<1>1. /\ IsPrefix(Accounted, NamesIn(disk[source]))
      /\ buffer # <<>> \/ ret = "OK" => Accounted = NamesIn(disk[source])
  BY DEF Conserved, Accounted
<1>2. /\ Accounted \in Seq(Names) /\ FlattenSeq(got) \in Seq(Names)
      /\ NamesIn(buffer) \in Seq(Names)
  BY AccountedTyped
<1>3. ASSUME NEW text \in Seq(Items), NEW rest \in Seq(Items), message_class # None,
             buffer # <<>>, text \o rest = buffer, Parses(text, message_class), Give(text, rest)
      PROVE  Conserved'
  <2>1. Accounted' = Accounted /\ Accounted = NamesIn(disk[source])
    BY <1>1, <1>3, GiveConserves
  <2>2. source' = source
    BY <1>3 DEF Give, KeepSetup
  <2>3. Accounted' = NamesIn(disk'[source'])
    BY <2>1, <2>2
  <2>4. IsPrefix(Accounted', NamesIn(disk'[source']))
    BY <1>2, <2>1, <2>3, PrefixOfItself
  <2> QED  BY <2>3, <2>4 DEF Conserved, Accounted
<1>4. CASE ReadNothing \/ ReadNameless
  <2>1. ret' = "EOF" /\ UNCHANGED <<buffer, got, source>>
    BY <1>4 DEF ReadNothing, ReadNameless, End, KeepSetup
  <2> QED  BY <1>1, <2>1 DEF Conserved, Accounted
<1>5. buffer \in Seq(Items)
  BY DEF Typed, TextTypeOK, ReaderTypeOK
<1>6. CASE ReadWhole
  <2>1. buffer \o <<>> = buffer
    BY <1>5
  <2> QED  BY <1>3, <1>5, <1>6, <2>1, NoItems DEF ReadWhole
<1>7. CASE ReadPiece
  <2>1. /\ message_class # None /\ buffer # <<>> /\ Parses(Piece, message_class)
        /\ Give(Piece, Remainder)
    BY <1>7 DEF ReadPiece, Divisible
  <2> QED  BY <1>3, <1>5, <2>1, PartsFacts
<1>8. CASE ReadMalformed
  <2>1. /\ buffer # <<>> /\ buffer' = <<>> /\ ret' = "ERROR" /\ UNCHANGED <<got, source>>
    BY <1>8 DEF ReadMalformed, Divisible, KeepSetup
  <2>2. Accounted' = FlattenSeq(got)
    <3>1. Accounted' = FlattenSeq(got) \o <<>>
      BY <2>1, NamesNone DEF Accounted
    <3> QED  BY <1>2, <3>1
  <2>3. NamesIn(disk[source]) = FlattenSeq(got) \o NamesIn(buffer)
    BY <1>1, <2>1 DEF Accounted
  <2>4. IsPrefix(Accounted', NamesIn(disk'[source']))
    BY <1>2, <2>1, <2>2, <2>3, PrefixOf
  <2> QED  BY <2>1, <2>4 DEF Conserved, Accounted
<1> QED  BY <1>4, <1>6, <1>7, <1>8 DEF ReadMessage

LEMMA ReadingConserves == ASSUME Typed, Typed', Conserved, Reading PROVE Conserved'
<1>1. UNCHANGED disk
  BY DEF Reading
<1>2. CASE SettingType \/ Close
  BY <1>2 DEF SettingType, SetMessageType, Close, Conserved
<1>3. ASSUME NEW p \in Paths, Open(p)  PROVE Conserved'
  <2>1. CASE OpenAgain \/ OpenUnknown(p) \/ OpenMissing(p) \/ OpenUndecodable(p)
    <3>1. ret' # "OK" /\ UNCHANGED <<buffer, source, got>>
      BY <2>1 DEF OpenAgain, OpenUnknown, OpenMissing, OpenUndecodable, Refuse
    <3> QED  BY <1>1, <3>1 DEF Conserved
  <2>2. CASE OpenPresent(p)
    <3>1. source' = p /\ buffer' = disk[p] /\ got' = <<>>
      BY <2>2 DEF OpenPresent
    <3>2. NamesIn(buffer') \in Seq(Names)
      <4>1. buffer' \in Seq(Items)
        BY DEF Typed, TextTypeOK, ReaderTypeOK
      <4> QED  BY <4>1, ItemsNamed, NamesTyped
    <3>3. Accounted' = NamesIn(disk'[source'])
      <4>1. Accounted' = <<>> \o NamesIn(buffer')
        BY <3>1, FlattenNone DEF Accounted
      <4> QED  BY <1>1, <3>1, <3>2, <4>1
    <3>4. IsPrefix(Accounted', NamesIn(disk'[source']))
      <4>1. Accounted' = NamesIn(buffer')
        BY <1>1, <3>1, <3>3
      <4> QED  BY <3>2, <3>3, <4>1, PrefixOfItself
    <3> QED  BY <3>3, <3>4 DEF Conserved, Accounted
  <2> QED  BY <1>3, <2>1, <2>2 DEF Open
<1>4. CASE ReadMessage
  <2>1. CASE source = None
    <3>1. source' = None
      BY <1>4, <2>1 DEF ReadMessage, ReadNothing, ReadWhole, ReadNameless, ReadPiece,
                        ReadMalformed, End, Give, KeepSetup
    <3> QED  BY <3>1 DEF Conserved
  <2> QED  BY <1>1, <1>4, <2>1, ReadConserves
<1> QED  BY <1>2, <1>3, <1>4 DEF Reading

(* Whatever the text holds and wherever it was cut, no field of it is      *)
(* doubled or moved between or within the messages that are read; and as   *)
(* long as a read may be tried, or the last one was successful, none is    *)
(* lost.                                                                   *)
THEOREM NothingMoved == FileSpec => []Conserved
<1>1. FileInit => Conserved
  BY DEF FileInit, ReaderInit, Conserved
<1>2. Typed /\ Typed' /\ Conserved /\ [FileNext]_allVars => Conserved'
  <2> SUFFICES ASSUME Typed, Typed', Conserved, [FileNext]_allVars  PROVE Conserved'
    OBVIOUS
  <2>1. CASE Writing
    <3>1. source' = None
      BY <2>1, TextAssumption DEF Writing, Idle, Typed, Opened, readerVars
    <3> QED  BY <3>1 DEF Conserved
  <2>2. CASE Reading
    BY <2>2, ReadingConserves
  <2>3. CASE UNCHANGED allVars
    BY <2>3 DEF allVars, readerVars, Conserved
  <2> QED  BY <2>1, <2>2, <2>3 DEF FileNext
<1> QED  BY AlwaysTyped, <1>1, <1>2, PTL DEF FileSpec

-----------------------------------------------------------------------------
(* Where the messages lie in the text                                      *)

(* The item at place i is this field, or, as the last one of a text that   *)
(* was cut short, what is left of it.                                      *)
Stays(text, i, f, cut) ==
    \/ text[i] = Field(f)
    \/ cut /\ i = Len(text) /\ text[i] \in Torn(Field(f))

(* The text holds these messages, or the beginning of them.                *)
Lies(text, offs, ms, cut) ==
    /\ Len(text) <= offs[Len(ms) + 1]
    /\ \A n \in 1..Len(ms) : \A k \in 1..Len(ms[n]) :
          offs[n] + k <= Len(text) => Stays(text, offs[n] + k, ms[n][k], cut)

Laid(offs) ==
    /\ Tiles(offs, accepted)
    /\ Lies(disk[target], offs, accepted, "cut" \in damage)
    /\ damage = {} => Len(disk[target]) = offs[Len(accepted) + 1]

(* The file that is being written is the one opened last, and whole unless *)
(* a write tore a message.                                                 *)
Using == /\ out # None => out = target /\ (usable => "cut" \notin damage)
         /\ target # None => target \in Paths /\ disk[target] \in Seq(Items)

(* What has been read are the first messages, and the text that is left    *)
(* starts with the next; or nothing is left, and the last one read may be  *)
(* short.                                                                  *)
Divided(offs) ==
    \/ /\ Len(got) <= Len(accepted) /\ offs[Len(got) + 1] <= Len(disk[target])
       /\ buffer = SubSeq(disk[target], offs[Len(got) + 1] + 1, Len(disk[target]))
       /\ \A n \in 1..Len(got) : got[n] = accepted[n]
    \/ /\ damage # {} /\ buffer = <<>> /\ Len(got) <= Len(accepted)
       /\ \A n \in 1..Len(got) : IsPrefix(got[n], accepted[n])
                                 /\ (n < Len(got) => got[n] = accepted[n])

Reads(offs) ==
    ReadingBack /\ Delimited => Divided(offs) /\ (damage = {} /\ ret = "EOF" => buffer = <<>>)

(* The second part of the inductive invariant.                             *)
InPlace ==
    /\ Using
    /\ target # None /\ "torn" \notin damage =>
          \E offs \in Marks : Laid(offs) /\ (source # None => Reads(offs))

LEMMA AcceptedFacts ==
  ASSUME NEW ms \in Seq(Messages)
  PROVE  /\ ms \in Seq(Seq(Fields)) /\ Len(ms) \in Nat /\ DOMAIN ms = 1..Len(ms)
         /\ \A n \in 1..Len(ms) : ms[n] \in Messages /\ ms[n] \in Seq(Fields)
                                  /\ Len(ms[n]) \in Nat /\ DOMAIN ms[n] = 1..Len(ms[n])
<1>1. Messages \subseteq Seq(Fields)
  BY TextAssumption
<1>2. Len(ms) \in Nat /\ DOMAIN ms = 1..Len(ms) /\ \A n \in 1..Len(ms) : ms[n] \in Messages
  OBVIOUS
<1>3. \A n \in 1..Len(ms) : ms[n] \in Seq(Fields)
  BY <1>1, <1>2
<1>4. ms = [n \in 1..Len(ms) |-> ms[n]]
  OBVIOUS
<1>5. ms \in Seq(Seq(Fields))
  BY <1>2, <1>3, <1>4
<1>6. \A n \in 1..Len(ms) : Len(ms[n]) \in Nat /\ DOMAIN ms[n] = 1..Len(ms[n])
  BY <1>3
<1> QED  BY <1>2, <1>3, <1>5, <1>6

(* Every place of such a text has an item of a message.                    *)
LEMMA PlaceOf ==
  ASSUME NEW ms \in Seq(Seq(Fields)), NEW offs \in Marks, Tiles(offs, ms),
         NEW i \in Nat \ {0}, i <= offs[Len(ms) + 1]
  PROVE  \E n \in 1..Len(ms) : \E k \in 1..Len(ms[n]) : i = offs[n] + k
<1> DEFINE S == {n \in Nat : n <= Len(ms) /\ i <= offs[n + 1]}
<1>1. Len(ms) \in S
  OBVIOUS
<1>2. PICK n \in S : \A k \in S : n <= k
  <2>1. S \in SUBSET Nat /\ S # {}
    BY <1>1
  <2> HIDE DEF S
  <2> QED  BY <2>1, FirstOf
<1>3. n \in Nat /\ n <= Len(ms) /\ i <= offs[n + 1] /\ Len(ms) \in Nat
  BY <1>2
<1>4. n # 0
  <2>1. offs[1] = 0
    BY DEF Tiles
  <2> QED  BY <1>3, <2>1
<1>5. n \in 1..Len(ms) /\ n - 1 \in Nat /\ (n - 1) + 1 = n
  BY <1>3, <1>4
<1>6. ~(i <= offs[n])
  <2>1. n - 1 \notin S
    <3>1. ~(n <= n - 1)
      BY <1>3
    <3> HIDE DEF S
    <3> QED  BY <1>2, <3>1
  <2> QED  BY <1>3, <1>5, <2>1
<1>7. offs[n] \in Nat /\ Len(ms[n]) \in Nat /\ offs[n + 1] = offs[n] + Len(ms[n])
  <2>1. offs[n] \in Nat
    BY <1>5, MarkFacts
  <2>2. ms[n] \in Seq(Fields)
    BY <1>5
  <2> QED  BY <1>5, <2>1, <2>2 DEF Tiles
<1>8. i - offs[n] \in 1..Len(ms[n]) /\ i = offs[n] + (i - offs[n])
  BY <1>3, <1>6, <1>7
<1> QED  BY <1>5, <1>8

(* A text that was not cut is sound.                                       *)
LEMMA SoundText ==
  ASSUME NEW ms \in Seq(Seq(Fields)), NEW offs \in Marks, Tiles(offs, ms),
         NEW text \in Seq(Items), Lies(text, offs, ms, FALSE)
  PROVE  \A i \in 1..Len(text) : text[i].sound
<1> SUFFICES ASSUME NEW i \in 1..Len(text)  PROVE text[i].sound
  OBVIOUS
<1>1. i \in Nat \ {0} /\ i <= offs[Len(ms) + 1] /\ i <= Len(text)
  <2>1. Len(text) \in Nat /\ Len(ms) \in Nat
    OBVIOUS
  <2>2. offs[Len(ms) + 1] \in Nat
    BY <2>1, MarkFacts
  <2> QED  BY <2>1, <2>2 DEF Lies
<1>2. PICK n \in 1..Len(ms) : \E k \in 1..Len(ms[n]) : i = offs[n] + k
  BY <1>1, PlaceOf
<1>3. PICK k \in 1..Len(ms[n]) : i = offs[n] + k
  BY <1>2
<1>4. Stays(text, i, ms[n][k], FALSE)
  BY <1>1, <1>3 DEF Lies
<1> QED  BY <1>4 DEF Stays, Field

(* A message is put behind a whole text.                                   *)
LEMMA PutBehind ==
  ASSUME NEW ms \in Seq(Seq(Fields)), NEW m \in Messages, NEW offs \in Marks,
         NEW new \in Marks, NEW text \in Seq(Items),
         Tiles(offs, ms), Lies(text, offs, ms, FALSE), Len(text) = offs[Len(ms) + 1],
         \A n \in 1..(Len(ms) + 1) : new[n] = offs[n],
         new[Len(ms) + 2] = offs[Len(ms) + 1] + Len(m)
  PROVE  /\ Lies(Join(text, TextOf(m)), new, Append(ms, m), FALSE)
         /\ Len(Join(text, TextOf(m))) = new[Len(ms) + 2]
<1> DEFINE N == Len(ms)
           L == Len(text)
           more == Append(ms, m)
           all == text \o TextOf(m)
<1>1. /\ N \in Nat /\ L \in Nat /\ Len(m) \in Nat /\ TextOf(m) \in Seq(Items)
      /\ Len(TextOf(m)) = Len(m) /\ \A k \in 1..Len(m) : TextOf(m)[k] = Field(m[k])
      /\ m \in Seq(Fields)
  BY TextOfFacts
<1>2. Len(more) = N + 1 /\ more[N + 1] = m /\ \A n \in 1..N : more[n] = ms[n]
  BY <1>1, AppendFacts
<1>3. /\ all \in Seq(Items) /\ Len(all) = L + Len(m)
      /\ \A i \in 1..(L + Len(m)) : all[i] = IF i <= L THEN text[i] ELSE TextOf(m)[i - L]
  <2>1. PICK b : b = TextOf(m)
    OBVIOUS
  <2>2. text \in Seq(Items) /\ b \in Seq(Items) /\ Len(b) = Len(m)
    BY <1>1, <2>1
  <2>3. /\ text \o b \in Seq(Items) /\ Len(text \o b) = Len(text) + Len(b)
        /\ \A i \in 1..(Len(text) + Len(b)) :
              (text \o b)[i] = IF i <= Len(text) THEN text[i] ELSE b[i - Len(text)]
    BY ONLY <2>2, ConcatAt
  <2> QED  BY <2>1, <2>2, <2>3
<1>4. Join(text, TextOf(m)) = all
  <2>1. CASE text = <<>> \/ TextOf(m) = <<>>
    BY <2>1 DEF Join
  <2>2. CASE ~(text = <<>> \/ TextOf(m) = <<>>)
    <3>1. L \in 1..L /\ Last(text) = text[L]
      BY <1>1, <2>2, EmptySeq DEF Last
    <3>2. Last(text).sound
      BY <3>1, SoundText
    <3> QED  BY <3>2 DEF Join
  <2> QED  BY <2>1, <2>2
<1> HIDE DEF all, more
<1>5. ASSUME NEW n \in 1..(N + 1), NEW k \in 1..Len(more[n])
      PROVE  all[new[n] + k] = Field(more[n][k])
  <2>1. CASE n = N + 1
    <3>1. k \in 1..Len(m) /\ new[n] = L
      BY <1>1, <1>2, <1>5, <2>1
    <3>2. all[L + k] = TextOf(m)[k]
      <4>1. L + k \in 1..(L + Len(m)) /\ ~(L + k <= L) /\ (L + k) - L = k
        BY <1>1, <3>1, Behind
      <4> HIDE DEF L
      <4> QED  BY <1>3, <4>1
    <3> QED  BY <1>1, <1>2, <2>1, <3>1, <3>2
  <2>2. CASE n \in 1..N
    <3>1. k \in 1..Len(ms[n]) /\ Len(ms[n]) \in Nat
      <4>1. ms[n] \in Seq(Fields)
        BY <2>2
      <4> QED  BY <1>2, <1>5, <2>2, <4>1
    <3>2. /\ offs[n] \in Nat /\ offs[n] + Len(ms[n]) <= L
      <4>1. offs[n] \in Nat /\ offs[n + 1] \in Nat
        BY <2>2, MarkFacts
      <4>2. n + 1 \in 1..(N + 1) /\ N + 1 \in 1..(N + 1) /\ n + 1 <= N + 1
        BY <1>1, <2>2
      <4>3. offs[n + 1] <= offs[N + 1]
        BY <4>2 DEF Tiles
      <4> QED  BY <2>2, <4>1, <4>3 DEF Tiles
    <3>3. offs[n] + k \in 1..L
      BY <1>1, <3>1, <3>2, Within
    <3>4. text[offs[n] + k] = Field(ms[n][k])
      <4>1. offs[n] + k <= L
        BY <1>1, <3>3
      <4>2. Stays(text, offs[n] + k, ms[n][k], FALSE)
        BY <2>2, <3>1, <4>1 DEF Lies
      <4> QED  BY <4>2 DEF Stays
    <3>5. all[offs[n] + k] = text[offs[n] + k]
      <4> DEFINE i == offs[n] + k
      <4>1. i \in 1..(L + Len(m)) /\ i <= L
        <5> HIDE DEF i
        <5> QED  BY <1>1, <3>3 DEF i
      <4> HIDE DEF i, L
      <4>2. all[i] = text[i]
        BY <1>3, <4>1
      <4> QED  BY <4>2 DEF i
    <3> QED  BY <1>1, <1>2, <2>2, <3>4, <3>5
  <2> QED  BY <1>1, <2>1, <2>2
<1>6. Len(all) = new[N + 2]
  BY <1>3
<1>7. Lies(all, new, more, FALSE)
  <2>1. N + 1 + 1 = N + 2 /\ new[N + 2] \in Nat
    BY <1>1, MarkFacts
  <2> QED  BY <1>2, <1>5, <1>6, <2>1 DEF Lies, Stays
<1> QED  BY <1>4, <1>6, <1>7 DEF more

(* What is left of the text when it is cut.                                *)
LEMMA LiesShort ==
  ASSUME NEW ms \in Seq(Seq(Fields)), NEW offs \in Marks, NEW text \in Seq(Items),
         NEW t \in CutShort(text), Lies(text, offs, ms, FALSE)
  PROVE  Lies(t, offs, ms, TRUE)
<1>1. t \in Seq(Items) /\ Begins(t, text)
  BY CutShortFacts
<1>2. /\ Len(text) \in Nat /\ Len(t) \in Nat /\ Len(ms) \in Nat
      /\ offs[Len(ms) + 1] \in Nat
  BY <1>1, MarkFacts
<1>3. Len(t) <= offs[Len(ms) + 1]
  BY <1>1, <1>2 DEF Lies, Begins
<1>4. ASSUME NEW n \in 1..Len(ms), NEW k \in 1..Len(ms[n]), offs[n] + k <= Len(t)
      PROVE  Stays(t, offs[n] + k, ms[n][k], TRUE)
  <2>1. offs[n] \in Nat /\ k \in Nat \ {0}
    <3>1. ms[n] \in Seq(Fields)
      OBVIOUS
    <3> QED  BY <3>1, MarkFacts
  <2> DEFINE i == offs[n] + k
  <2>2. i \in Nat \ {0} /\ i <= Len(t)
    BY <1>4, <2>1
  <2>3. i \in 1..Len(t) /\ i <= Len(text)
    <3> HIDE DEF i
    <3> QED  BY <1>1, <1>2, <2>2 DEF Begins
  <2>4. text[i] = Field(ms[n][k])
    BY <2>3 DEF Lies, Stays
  <2> HIDE DEF i
  <2>5. t[i] = text[i] \/ (i = Len(t) /\ t[i] \in Torn(text[i]))
    BY <1>1, <2>3 DEF Begins
  <2> QED  BY <2>4, <2>5 DEF Stays, i
<1> QED  BY <1>3, <1>4 DEF Lies

-----------------------------------------------------------------------------
(* The steps of the writer                                                 *)

LEMMA Laying ==
  ASSUME InPlace, target # None, "torn" \notin damage
  PROVE  \E offs \in Marks : Laid(offs)
BY DEF InPlace

LEMMA NoDamage ==
  ASSUME damage \subseteq {"torn", "cut"}, "torn" \notin damage, "cut" \notin damage
  PROVE  damage = {}
OBVIOUS

LEMMA OpenWriterInPlace ==
  ASSUME Typed, InPlace, source' = None, NEW p \in Paths, OpenWriter(p)
  PROVE  InPlace'
<1>1. /\ p \in TxthPaths /\ disk' = [disk EXCEPT ![p] = <<>>]
      /\ out' = p /\ target' = p /\ accepted' = <<>> /\ damage' = {}
  BY DEF OpenWriter
<1>2. disk'[p] = <<>> /\ <<>> \in Seq(Items) /\ Len(<<>>) = 0
  BY <1>1, DiskPut, NoItems, EmptySeq DEF Typed, TextTypeOK, WriterTypeOK
<1>3. Using'
  BY <1>1, <1>2 DEF Using
<1>4. \E offs \in Marks : Laid(offs)'
  <2> DEFINE zero == [n \in Nat |-> 0]
  <2>1. zero \in Marks /\ zero[1] = 0
    BY DEF Marks
  <2> HIDE DEF zero
  <2>2. Len(accepted') = 0 /\ Len(disk'[target']) = 0
    BY <1>1, <1>2
  <2>3. Tiles(zero, accepted') /\ Lies(disk'[target'], zero, accepted', "cut" \in damage')
    BY <2>1, <2>2 DEF Tiles, Lies
  <2>4. Laid(zero)'
    BY <2>1, <2>2, <2>3 DEF Laid
  <2> QED  BY <2>1, <2>4
<1> QED  BY <1>3, <1>4 DEF InPlace

LEMMA WriteInPlace ==
  ASSUME Typed, InPlace, source' = None, NEW m \in Messages, Write(m)
  PROVE  InPlace'
<1>1. /\ out # None /\ usable
      /\ disk' = [disk EXCEPT ![out] = Join(disk[out], TextOf(m))]
      /\ accepted' = Append(accepted, m)
      /\ UNCHANGED <<out, usable, target, damage>>
  BY ExtendIs DEF Write, MayWrite
<1>2. /\ out = target /\ target # None /\ "cut" \notin damage
      /\ target \in Paths /\ disk[target] \in Seq(Items)
  BY <1>1 DEF InPlace, Using
<1>3. Join(disk[target], TextOf(m)) \in Seq(Items)
  BY <1>2, JoinTyped, TextOfFacts
<1>4. disk'[target] = Join(disk[target], TextOf(m))
  BY <1>1, <1>2, <1>3, PutTyped
<1>5. Using'
  BY <1>1, <1>2, <1>3, <1>4 DEF Using
<1>6. ASSUME "torn" \notin damage  PROVE \E offs \in Marks : Laid(offs)'
  <2>1. PICK offs \in Marks : Laid(offs)
    BY <1>2, <1>6, Laying
  <2>2. damage = {}
    BY <1>2, <1>6, NoDamage DEF Typed, TextTypeOK, WriterTypeOK
  <2>3. accepted \in Seq(Messages)
    BY DEF Typed, TextTypeOK, WriterTypeOK
  <2>4. accepted \in Seq(Seq(Fields)) /\ m \in Seq(Fields) /\ Len(accepted) \in Nat
    BY <2>3, AcceptedFacts, TextOfFacts
  <2>5. /\ Tiles(offs, accepted) /\ Lies(disk[target], offs, accepted, FALSE)
        /\ Len(disk[target]) = offs[Len(accepted) + 1]
    <3>1. ("cut" \in damage) = FALSE
      BY <2>2
    <3>2. Lies(disk[target], offs, accepted, "cut" \in damage)
      BY <2>1 DEF Laid
    <3>3. Lies(disk[target], offs, accepted, FALSE)
      BY <3>1, <3>2 DEF Lies, Stays
    <3> QED  BY <2>1, <2>2, <3>3 DEF Laid
  <2>6. PICK new \in Marks :
            /\ Tiles(new, Append(accepted, m))
            /\ \A n \in 1..(Len(accepted) + 1) : new[n] = offs[n]
            /\ new[Len(accepted) + 2] = offs[Len(accepted) + 1] + Len(m)
    BY <2>4, <2>5, Extended
  <2>7. /\ Lies(Join(disk[target], TextOf(m)), new, Append(accepted, m), FALSE)
        /\ Len(Join(disk[target], TextOf(m))) = new[Len(accepted) + 2]
    BY <1>2, <2>4, <2>5, <2>6, PutBehind
  <2>8. Len(accepted') + 1 = Len(accepted) + 2
    <3>1. Len(accepted') = Len(accepted) + 1
      BY <1>1, <2>3, AppendFacts
    <3> QED  BY <2>4, <3>1
  <2>9. Lies(disk'[target'], new, accepted', "cut" \in damage')
    BY <1>1, <1>2, <1>4, <2>7 DEF Lies, Stays
  <2>10. Laid(new)'
    BY <1>1, <1>4, <2>6, <2>7, <2>8, <2>9 DEF Laid
  <2> QED  BY <2>10
<1> QED  BY <1>1, <1>5, <1>6 DEF InPlace

LEMMA WriteFailsInPlace ==
  ASSUME Typed, InPlace, source' = None, NEW m \in Messages, WriteFails(m)
  PROVE  InPlace'
<1>1. PICK text \in CutShort(TextOf(m)) :
          /\ disk' = [disk EXCEPT ![out] = Join(disk[out], text)]
          /\ damage' = IF text = <<>> THEN damage ELSE damage \union {"torn"}
  BY ExtendIs DEF WriteFails
<1>2. /\ out # None /\ usable /\ out = target /\ target # None /\ "cut" \notin damage
      /\ target \in Paths /\ disk[target] \in Seq(Items)
      /\ UNCHANGED <<out, usable, target, accepted>>
  BY DEF WriteFails, MayWrite, InPlace, Using
<1>3. text \in Seq(Items)
  BY TextOfFacts, CutShortFacts
<1>4. Join(disk[target], text) \in Seq(Items)
  BY <1>2, <1>3, JoinTyped
<1>5. disk'[target] = Join(disk[target], text)
  BY <1>1, <1>2, <1>4, PutTyped
<1>6. Using'
  <2>1. "cut" \notin damage'
    BY <1>1, <1>2
  <2> QED  BY <1>2, <1>4, <1>5, <2>1 DEF Using
<1>7. ASSUME "torn" \notin damage'  PROVE \E offs \in Marks : Laid(offs)'
  <2>1. text = <<>> /\ damage' = damage
    BY <1>1, <1>7
  <2>2. disk'[target] = disk[target]
    <3>1. Join(disk[target], text) = disk[target] \o <<>>
      BY <2>1 DEF Join
    <3> QED  BY <1>2, <1>5, <3>1
  <2>3. PICK offs \in Marks : Laid(offs)
    BY <1>2, <1>7, <2>1, Laying
  <2>4. Laid(offs)'
    BY <1>2, <2>1, <2>2, <2>3 DEF Laid
  <2> QED  BY <2>4
<1> QED  BY <1>6, <1>7 DEF InPlace

LEMMA CutInPlace ==
  ASSUME Typed, InPlace, source' = None, out # None, usable, Cut(out), ~usable',
         out' \in {out, None}, UNCHANGED <<target, accepted>>
  PROVE  InPlace'
<1>1. PICK text \in CutShort(disk[out]) :
          /\ disk' = [disk EXCEPT ![out] = text]
          /\ damage' = IF text = disk[out] THEN damage ELSE damage \union {"cut"}
  BY DEF Cut
<1>2. /\ out = target /\ target # None /\ "cut" \notin damage
      /\ target \in Paths /\ disk[target] \in Seq(Items)
  BY DEF InPlace, Using
<1>3. text \in Seq(Items)
  BY <1>2, CutShortFacts
<1>4. disk'[target] = text
  BY <1>1, <1>2, <1>3, PutTyped
<1>5. Using'
  BY <1>2, <1>3, <1>4 DEF Using
<1>6. ASSUME "torn" \notin damage'  PROVE \E offs \in Marks : Laid(offs)'
  <2>1. "torn" \notin damage
    BY <1>1, <1>6
  <2>2. PICK offs \in Marks : Laid(offs)
    BY <1>2, <2>1, Laying
  <2>3. Tiles(offs, accepted) /\ Lies(disk[target], offs, accepted, FALSE)
    BY <1>2, <2>2 DEF Laid, Lies, Stays
  <2>4. CASE text = disk[target]
    <3>1. damage' = damage /\ disk'[target'] = disk[target]
      BY <1>1, <1>2, <1>4, <2>4
    <3>2. Laid(offs)'
      BY <2>2, <3>1 DEF Laid
    <3> QED  BY <3>2
  <2>5. CASE text # disk[target]
    <3>1. "cut" \in damage'
      BY <1>1, <1>2, <2>5
    <3>2. accepted \in Seq(Seq(Fields))
      BY AcceptedFacts DEF Typed, TextTypeOK, WriterTypeOK
    <3>3. Lies(text, offs, accepted, TRUE)
      BY <1>1, <1>2, <2>3, <3>2, LiesShort
    <3>4. Lies(disk'[target'], offs, accepted', "cut" \in damage')
      BY <1>4, <3>1, <3>3 DEF Lies, Stays
    <3>5. Laid(offs)'
      BY <2>3, <3>1, <3>4 DEF Laid
    <3> QED  BY <3>5
  <2> QED  BY <2>4, <2>5
<1> QED  BY <1>5, <1>6 DEF InPlace

LEMMA QuietInPlace ==
  ASSUME InPlace, source' = None, out' \in {out, None}, usable' => usable,
         UNCHANGED <<disk, target, accepted, damage>>
  PROVE  InPlace'
<1>1. Using'
  BY DEF InPlace, Using
<1>2. ASSUME target # None, "torn" \notin damage  PROVE \E offs \in Marks : Laid(offs)'
  <2>1. PICK offs \in Marks : Laid(offs)
    BY <1>2, Laying
  <2>2. Laid(offs)'
    BY <2>1 DEF Laid
  <2> QED  BY <2>2
<1> QED  BY <1>1, <1>2 DEF InPlace

LEMMA WritingInPlace == ASSUME Typed, InPlace, Writing PROVE InPlace'
<1>1. source' = None /\ WriterNext
  BY TextAssumption DEF Writing, Idle, Typed, Opened, readerVars
<1>2. CASE OpenWriterRefused \/ WriteRefused \/ CloseWriter
  BY <1>1, <1>2, QuietInPlace DEF OpenWriterRefused, WriteRefused, CloseWriter
<1>3. CASE CloseWriterFails \/ CrashWriter
  BY <1>1, <1>3, CutInPlace DEF CloseWriterFails, CrashWriter
<1> QED  BY <1>1, <1>2, <1>3, OpenWriterInPlace, WriteInPlace, WriteFailsInPlace DEF WriterNext

-----------------------------------------------------------------------------
(* Where the reader divides a text that starts with a message              *)

(* The text starts with this message, whole or cut short, and goes on, if  *)
(* it does, with the field that the message starts with.                   *)
StartsWith(text, m, cut) ==
    /\ \A k \in 1..Len(m) : k <= Len(text) => Stays(text, k, m[k], cut)
    /\ Len(m) < Len(text) => Stays(text, Len(m) + 1, m[1], cut)

(* A message that can be told apart, of fields that the class has.         *)
Known(m, type) ==
    /\ m \in Messages /\ m # <<>> /\ m[1] \in Singular
    /\ ToSet(m) \subseteq FieldsOf[type]

LEMMA KnownFacts ==
  ASSUME NEW type, NEW m, Known(m, type)
  PROVE  /\ m \in Seq(Fields) /\ Len(m) \in Nat \ {0}
         /\ \A k \in 1..Len(m) : m[k] \in Fields /\ m[k] # None /\ m[k] \in FieldsOf[type]
         /\ \A k \in 2..Len(m) : m[k] # m[1]
         /\ \A i, j \in 1..Len(m) : i # j /\ m[i] = m[j] => m[i] \notin Singular
<1>1. m \in Seq(Fields) /\ DOMAIN m = 1..Len(m) /\ m # <<>>
  BY TextOfFacts DEF Known
<1>2. Len(m) \in Nat \ {0}
  BY <1>1, EmptySeq
<1>3. \A k \in 1..Len(m) : m[k] \in Fields /\ m[k] # None /\ m[k] \in FieldsOf[type]
  BY <1>1, TextAssumption DEF Known, ToSet
<1>4. \A i, j \in 1..Len(m) : i # j /\ m[i] = m[j] => m[i] \notin Singular
  BY <1>1, MessagesAssumption DEF Known
<1>5. ASSUME NEW k \in 2..Len(m)  PROVE m[k] # m[1]
  <2>1. k \in 1..Len(m) /\ 1 \in 1..Len(m) /\ k # 1
    BY <1>2
  <2> QED  BY <1>4, <2>1 DEF Known
<1> QED  BY <1>1, <1>2, <1>3, <1>4, <1>5

LEMMA StaysNamed ==
  ASSUME NEW text, NEW i, NEW f, NEW cut, Stays(text, i, f, cut)
  PROVE  /\ text[i].name \in {f, None}
         /\ text[i].sound => text[i] = Field(f)
<1>1. CASE text[i] = Field(f)
  BY <1>1 DEF Field
<1>2. CASE cut /\ i = Len(text) /\ text[i] \in Torn(Field(f))
  <2>1. PICK n \in {Field(f).name, None} : text[i] = [name |-> n, sound |-> FALSE]
    BY <1>2 DEF Torn
  <2>2. text[i].name = n /\ text[i].sound = FALSE
    BY <2>1
  <2>3. n = f \/ n = None
    BY <2>1 DEF Field
  <2> QED  BY <2>2, <2>3
<1> QED  BY <1>1, <1>2 DEF Stays

(* Before the end of a text nothing is torn.                               *)
LEMMA StaysInside ==
  ASSUME NEW text, NEW i, NEW f, NEW cut, Stays(text, i, f, cut), i # Len(text)
  PROVE  text[i] = Field(f) /\ text[i].name = f
BY DEF Stays, Field

(* The fields of one message, or its first ones, make a message.           *)
LEMMA FieldsParse ==
  ASSUME NEW type, NEW m, Known(m, type), NEW text \in Seq(Items), Len(text) <= Len(m),
         \A k \in 1..Len(text) : text[k] = Field(m[k])
  PROVE  Parses(text, type) /\ NamesIn(text) = SubSeq(m, 1, Len(text))
<1>1. /\ m \in Seq(Fields) /\ Len(m) \in Nat
      /\ \A k \in 1..Len(m) : m[k] \in Fields /\ m[k] # None /\ m[k] \in FieldsOf[type]
      /\ \A i, j \in 1..Len(m) : i # j /\ m[i] = m[j] => m[i] \notin Singular
  BY KnownFacts
<1>2. Len(text) \in Nat /\ DOMAIN text = 1..Len(text)
  OBVIOUS
<1>3. ASSUME NEW k \in 1..Len(text)
      PROVE  k \in 1..Len(m) /\ text[k].name = m[k] /\ text[k].sound
  BY <1>1, <1>2 DEF Field
<1>4. \A i \in DOMAIN text : text[i].sound /\ text[i].name \in FieldsOf[type] \union {None}
  BY <1>1, <1>2, <1>3
<1>5. \A i, j \in DOMAIN text : i # j /\ text[i].name = text[j].name
                                   => text[i].name \notin Singular
  BY <1>1, <1>2, <1>3
<1>6. NamesIn(text) = SubSeq(m, 1, Len(text))
  BY <1>1, NamesOfFields
<1> QED  BY <1>4, <1>5, <1>6 DEF Parses

LEMMA WholeMessage ==
  ASSUME NEW type, NEW m, Known(m, type), NEW cut,
         NEW text \in Seq(Items), StartsWith(text, m, cut), Parses(text, type)
  PROVE  Len(text) <= Len(m) /\ NamesIn(text) = SubSeq(m, 1, Len(text))
<1>1. /\ Len(m) \in Nat \ {0} /\ \A k \in 1..Len(m) : m[k] \in Fields
      /\ Len(text) \in Nat /\ DOMAIN text = 1..Len(text)
  BY KnownFacts
<1>2. ASSUME NEW k \in 1..Len(m), k <= Len(text)  PROVE text[k] = Field(m[k])
  <2>1. Stays(text, k, m[k], cut)
    BY <1>2 DEF StartsWith
  <2>2. k \in DOMAIN text
    BY <1>1, <1>2
  <2>3. text[k].sound
    BY <2>2 DEF Parses
  <2> QED  BY <2>1, <2>3, StaysNamed
<1>3. Len(text) <= Len(m)
  <2> SUFFICES ASSUME Len(m) < Len(text)  PROVE FALSE
    BY <1>1
  <2>1. /\ Len(m) + 1 \in DOMAIN text /\ 1 \in DOMAIN text /\ Len(m) + 1 # 1
        /\ 1 \in 1..Len(m) /\ 1 <= Len(text)
    BY <1>1
  <2>2. Stays(text, Len(m) + 1, m[1], cut) /\ text[Len(m) + 1].sound
    BY <2>1 DEF StartsWith, Parses
  <2>3. text[Len(m) + 1] = Field(m[1]) /\ text[1] = Field(m[1])
    <3>1. text[Len(m) + 1] = Field(m[1])
      BY <2>2, StaysNamed
    <3>2. text[1] = Field(m[1])
      BY <1>2, <2>1
    <3> QED  BY <3>1, <3>2
  <2>4. text[1].name = m[1] /\ text[Len(m) + 1].name = m[1]
    BY <2>3 DEF Field
  <2>5. m[1] \notin Singular
    BY <2>1, <2>4 DEF Parses
  <2> QED  BY <2>5 DEF Known
<1>4. \A k \in 1..Len(text) : text[k] = Field(m[k])
  BY <1>1, <1>2, <1>3
<1> QED  BY <1>3, <1>4, FieldsParse

LEMMA FirstIsFirst ==
  ASSUME buffer \in Seq(Items), buffer # <<>>, NEW f \in Fields, buffer[1].name = f
  PROVE  FirstField = f /\ f # None
<1> DEFINE fields == {i \in DOMAIN buffer : ~IsComment(buffer[i])}
<1>1. Len(buffer) \in Nat \ {0} /\ DOMAIN buffer = 1..Len(buffer) /\ f # None
  BY EmptySeq, TextAssumption
<1>2. buffer[1] # Comment
  BY <1>1 DEF Comment
<1>3. 1 \in fields /\ \A j \in fields : 1 <= j /\ j \in Nat
  BY <1>1, <1>2 DEF IsComment
<1>4. (CHOOSE i \in fields : \A j \in fields : i <= j) = 1
  <2> HIDE DEF fields
  <2>1. ASSUME NEW i \in fields, \A j \in fields : i <= j  PROVE i = 1
    BY <1>3, <2>1
  <2> QED  BY <1>3, <2>1
<1>5. FirstField = buffer[CHOOSE i \in fields : \A j \in fields : i <= j].name
  BY DEF FirstField
<1> QED  BY <1>1, <1>4, <1>5

(* A text that goes on behind its first message is cut at the next.        *)
LEMMA CutAtNext ==
  ASSUME buffer \in Seq(Items), buffer # <<>>, NEW cut,
         NEW type, NEW m, Known(m, type), StartsWith(buffer, m, cut),
         MessageEnd # Len(buffer)
  PROVE  FirstField # None /\ MessageEnd = Len(m) /\ Parses(Piece, type) /\ NamesIn(Piece) = m
<1> DEFINE E == MessageEnd
           B == Len(buffer)
<1>1. /\ B \in Nat \ {0} /\ E \in 1..B
      /\ \A i \in 2..E : buffer[i].name # FirstField
      /\ buffer[E + 1].name = FirstField
  BY EndFacts
<1>2. /\ m \in Seq(Fields) /\ Len(m) \in Nat \ {0}
      /\ \A k \in 1..Len(m) : m[k] \in Fields /\ m[k] # None
      /\ \A k \in 2..Len(m) : m[k] # m[1]
  BY KnownFacts
<1> HIDE DEF E, B
<1>3. E \in Nat \ {0} /\ E < B
  BY <1>1 DEF E, B
<1>4. ASSUME NEW k \in 1..Len(m), k < B  PROVE buffer[k] = Field(m[k])
  <2>1. Stays(buffer, k, m[k], cut) /\ k # Len(buffer)
    <3>1. k # Len(buffer) /\ k <= Len(buffer)
      BY <1>1, <1>2, <1>4 DEF B
    <3> QED  BY <3>1 DEF StartsWith
  <2> QED  BY <2>1, StaysInside
<1>5. FirstField = m[1] /\ m[1] # None
  <2>1. 1 \in 1..Len(m) /\ 1 < B
    BY <1>1, <1>2, <1>3
  <2>2. buffer[1].name = m[1]
    <3>1. buffer[1] = Field(m[1])
      BY <1>4, <2>1
    <3> QED  BY <3>1 DEF Field
  <2> QED  BY <1>2, <2>1, <2>2, FirstIsFirst
<1>6. ~(E < Len(m))
  <2> SUFFICES ASSUME E < Len(m)  PROVE FALSE
    OBVIOUS
  <2>1. E + 1 \in 2..Len(m) /\ E + 1 \in 1..Len(m) /\ E + 1 <= Len(buffer)
    BY <1>1, <1>2, <1>3 DEF B
  <2>2. Stays(buffer, E + 1, m[E + 1], cut)
    BY <2>1 DEF StartsWith
  <2>3. buffer[E + 1].name \in {m[E + 1], None}
    BY <2>2, StaysNamed
  <2> QED  BY <1>1, <1>2, <1>5, <2>1, <2>3
<1>7. ~(Len(m) < E)
  <2> SUFFICES ASSUME Len(m) < E  PROVE FALSE
    OBVIOUS
  <2>1. /\ Len(m) + 1 \in 2..E /\ Len(m) < Len(buffer) /\ Len(m) + 1 # Len(buffer)
        /\ 1 \in 1..Len(m)
    BY <1>1, <1>2, <1>3 DEF B
  <2>2. Stays(buffer, Len(m) + 1, m[1], cut)
    BY <2>1 DEF StartsWith
  <2>3. buffer[Len(m) + 1].name = m[1]
    BY <2>1, <2>2, StaysInside
  <2> QED  BY <1>1, <1>5, <2>1, <2>3
<1>8. E = Len(m)
  BY <1>2, <1>3, <1>6, <1>7
<1>9. /\ Piece \in Seq(Items) /\ Len(Piece) = Len(m)
      /\ \A k \in 1..Len(m) : Piece[k] = buffer[k]
  BY <1>8, PartsFacts DEF E
<1>10. \A k \in 1..Len(m) : Piece[k] = Field(m[k])
  <2> SUFFICES ASSUME NEW k \in 1..Len(m)  PROVE Piece[k] = Field(m[k])
    OBVIOUS
  <2>1. k < B
    BY <1>1, <1>2, <1>3, <1>8
  <2> QED  BY <1>4, <1>9, <2>1
<1>11. Parses(Piece, type) /\ NamesIn(Piece) = SubSeq(m, 1, Len(m))
  <2>1. Len(Piece) <= Len(m)
    BY <1>2, <1>9
  <2> QED  BY <1>9, <1>10, <2>1, FieldsParse
<1>12. SubSeq(m, 1, Len(m)) = m
  BY <1>2, SubSeqFull
<1> QED  BY <1>5, <1>8, <1>11, <1>12 DEF E

(* A whole text that is not divided is one message.                        *)
LEMMA OneIsLeft ==
  ASSUME buffer \in Seq(Items), buffer # <<>>,
         NEW type, NEW m, Known(m, type), StartsWith(buffer, m, FALSE),
         Len(m) <= Len(buffer)
  PROVE  /\ FirstField # None
         /\ MessageEnd = Len(buffer) => Parses(buffer, type)
<1>1. /\ Len(buffer) \in Nat \ {0}
      /\ \A i \in 2..MessageEnd : buffer[i].name # FirstField
  BY EndFacts
<1>2. /\ Len(m) \in Nat \ {0} /\ \A k \in 1..Len(m) : m[k] \in Fields
  BY KnownFacts
<1>3. \A k \in 1..Len(m) : buffer[k] = Field(m[k])
  BY <1>1, <1>2 DEF StartsWith, Stays
<1>4. FirstField = m[1] /\ FirstField # None
  <2>1. 1 \in 1..Len(m)
    BY <1>2
  <2>2. buffer[1].name = m[1]
    <3>1. buffer[1] = Field(m[1])
      BY <1>3, <2>1
    <3> QED  BY <3>1 DEF Field
  <2> QED  BY <1>2, <2>1, <2>2, FirstIsFirst
<1>5. ASSUME MessageEnd = Len(buffer)  PROVE Parses(buffer, type)
  <2>1. ~(Len(m) < Len(buffer))
    <3> SUFFICES ASSUME Len(m) < Len(buffer)  PROVE FALSE
      OBVIOUS
    <3>1. Len(m) + 1 \in 2..MessageEnd
      BY <1>1, <1>2, <1>5
    <3>2. buffer[Len(m) + 1].name = m[1]
      BY DEF StartsWith, Stays, Field
    <3> QED  BY <1>1, <1>4, <3>1, <3>2
  <2>2. Len(buffer) = Len(m)
    BY <1>1, <1>2, <2>1
  <2> QED  BY <1>1, <1>2, <1>3, <2>2, FieldsParse
<1> QED  BY <1>4, <1>5

-----------------------------------------------------------------------------
(* The steps of the reader on a text as it was written                     *)

LEMMA StaysFrom ==
  ASSUME NEW text \in Seq(Items), NEW o \in Nat, o <= Len(text), NEW f, NEW cut,
         NEW j \in Nat \ {0}, o + j <= Len(text), Stays(text, o + j, f, cut)
  PROVE  Stays(SubSeq(text, o + 1, Len(text)), j, f, cut)
<1> DEFINE b == SubSeq(text, o + 1, Len(text))
<1>1. Len(text) \in Nat /\ o + 1 \in Nat \ {0} /\ Len(text) - (o + 1) + 1 = Len(text) - o
  OBVIOUS
<1>2. j \in 1..(Len(text) - (o + 1) + 1) /\ (o + 1) + j - 1 = o + j /\ o + 1 <= Len(text)
  BY <1>1
<1>3. b[j] = text[o + j]
  <2>1. b[j] = text[(o + 1) + j - 1]
    BY <1>1, <1>2, PartFacts, SMTT(60)
  <2> QED  BY <1>2, <2>1
<1>4. Len(b) = Len(text) - o
  <2>1. Len(b) = Len(text) - (o + 1) + 1
    BY <1>1, <1>2, PartFacts
  <2> QED  BY <1>1, <2>1, ZenonT(60)
<1> HIDE DEF b
<1>5. ASSUME o + j = Len(text)  PROVE j = Len(b)
  <2>1. Len(text) - o = j
    BY <1>5
  <2> QED  BY <1>4, <2>1
<1>6. Stays(b, j, f, cut)
  BY <1>3, <1>5 DEF Stays
<1> QED  BY <1>6 DEF b

LEMMA RestLen ==
  ASSUME NEW text \in Seq(Items), NEW o \in Nat, o <= Len(text)
  PROVE  /\ SubSeq(text, o + 1, Len(text)) \in Seq(Items)
         /\ Len(SubSeq(text, o + 1, Len(text))) = Len(text) - o
<1>1. o + 1 \in Nat \ {0} /\ Len(text) \in Nat
  OBVIOUS
<1>2. SubSeq(text, o + 1, Len(text)) \in Seq(Items)
  BY <1>1, PartFacts
<1>3. CASE o = Len(text)
  <2>1. SubSeq(text, o + 1, Len(text)) = <<>>
    BY <1>1, <1>3, SubSeqEmpty
  <2> QED  BY <1>1, <1>2, <1>3, <2>1
<1>4. CASE o < Len(text)
  <2>1. o + 1 <= Len(text) /\ Len(text) - (o + 1) + 1 = Len(text) - o
    BY <1>1, <1>4
  <2>2. Len(SubSeq(text, o + 1, Len(text))) = Len(text) - (o + 1) + 1
    BY <1>1, <2>1, PartFacts
  <2> QED  BY <1>2, <2>1, <2>2
<1> QED  BY <1>1, <1>3, <1>4

LEMMA RestOfRest ==
  ASSUME NEW text \in Seq(Items), NEW o \in Nat, NEW k \in Nat, o + k <= Len(text)
  PROVE  LET b == SubSeq(text, o + 1, Len(text)) IN
         SubSeq(b, k + 1, Len(b)) = SubSeq(text, (o + k) + 1, Len(text))
<1> DEFINE b == SubSeq(text, o + 1, Len(text))
           x == SubSeq(b, k + 1, Len(b))
           y == SubSeq(text, (o + k) + 1, Len(text))
<1>1. Len(text) \in Nat /\ o + k \in Nat /\ o <= Len(text)
  OBVIOUS
<1>2. b \in Seq(Items) /\ Len(b) = Len(text) - o
  BY <1>1, RestLen
<1>3. \A j \in 1..Len(b) : b[j] = text[o + j]
  <2> SUFFICES ASSUME NEW j \in 1..Len(b)  PROVE b[j] = text[o + j]
    OBVIOUS
  <2>1. /\ o + 1 \in Nat \ {0} /\ j \in 1..(Len(text) - (o + 1) + 1)
        /\ (o + 1) + j - 1 = o + j
    BY <1>1, <1>2
  <2>2. b[j] = text[(o + 1) + j - 1]
    BY <1>1, <2>1, PartFacts
  <2> QED  BY <2>1, <2>2
<1> HIDE DEF b
<1>4. k <= Len(b)
  BY <1>1, <1>2
<1>5. x \in Seq(Items) /\ Len(x) = Len(text) - (o + k)
  <2>1. x \in Seq(Items) /\ Len(x) = Len(b) - k
    BY <1>2, <1>4, RestLen
  <2> QED  BY <1>1, <1>2, <2>1
<1>6. y \in Seq(Items) /\ Len(y) = Len(text) - (o + k)
  BY <1>1, RestLen
<1>7. ASSUME NEW j \in 1..(Len(text) - (o + k))
      PROVE  x[j] = y[j]
  <2>1. /\ k + 1 \in Nat \ {0} /\ j \in 1..(Len(b) - (k + 1) + 1)
        /\ (k + 1) + j - 1 = k + j /\ k + j \in 1..Len(b) /\ o + (k + j) = (o + k) + j
        /\ Len(b) \in Nat
    BY <1>1, <1>2
  <2>2. x[j] = b[(k + 1) + j - 1]
    BY <1>2, <2>1, PartFacts
  <2>3. x[j] = text[(o + k) + j]
    BY <1>3, <2>1, <2>2
  <2>4. /\ (o + k) + 1 \in Nat \ {0} /\ j \in 1..(Len(text) - ((o + k) + 1) + 1)
        /\ ((o + k) + 1) + j - 1 = (o + k) + j
    BY <1>1
  <2>5. y[j] = text[((o + k) + 1) + j - 1]
    BY <1>1, <2>4, PartFacts
  <2> QED  BY <2>3, <2>4, <2>5
<1>8. x = y
  <2> HIDE DEF x, y
  <2> QED  BY <1>5, <1>6, <1>7, SeqEqual
<1> QED  BY <1>8 DEF b

(* Divided(offs) with a text left.                                         *)
Following(offs) ==
    /\ Len(got) <= Len(accepted) /\ offs[Len(got) + 1] <= Len(disk[target])
    /\ buffer = SubSeq(disk[target], offs[Len(got) + 1] + 1, Len(disk[target]))
    /\ \A n \in 1..Len(got) : got[n] = accepted[n]

(* Sums the next lemma comes down to: a and b are where a message of n     *)
(* fields and its successor begin, t is the length of the text.            *)
LEMMA BeyondThis ==
  ASSUME NEW a \in Nat, NEW b, NEW n \in Nat, NEW t \in Nat, n < t - a, b = a + n
  PROVE  n + 1 \in Nat \ {0} /\ a + (n + 1) <= t /\ b + 1 = a + (n + 1)
OBVIOUS

(* The text that is left starts with the next message.                     *)
LEMMA NextMessage ==
  ASSUME Typed, Using, ReadingBack, Delimited, NEW offs \in Marks, Laid(offs),
         Following(offs), buffer # <<>>
  PROVE  LET N == Len(got) + 1
             m == accepted[N]
         IN /\ N \in 1..Len(accepted) /\ Len(got) \in Nat /\ offs[N] \in Nat
            /\ Known(m, message_class) /\ Len(m) \in Nat
            /\ StartsWith(buffer, m, "cut" \in damage)
            /\ Len(buffer) = Len(disk[target]) - offs[N] /\ Len(disk[target]) \in Nat
            /\ offs[N + 1] = offs[N] + Len(m)
            /\ damage = {} => Len(m) <= Len(buffer)
<1> DEFINE N == Len(got) + 1
           m == accepted[N]
           text == disk[target]
           L == Len(accepted)
<1>1. /\ source = target /\ source # None /\ text \in Seq(Items)
      /\ accepted \in Seq(Messages) /\ got \in Seq(Seq(Fields))
  BY DEF ReadingBack, Using, Typed, TextTypeOK, ReaderTypeOK, WriterTypeOK
<1>2. /\ accepted \in Seq(Seq(Fields)) /\ L \in Nat /\ DOMAIN accepted = 1..L
      /\ \A n \in 1..L : accepted[n] \in Messages /\ accepted[n] \in Seq(Fields)
                         /\ Len(accepted[n]) \in Nat
  BY <1>1, AcceptedFacts
<1>3. Len(got) \in Nat /\ Len(text) \in Nat /\ N \in Nat /\ offs[N] \in Nat /\ offs[L + 1] \in Nat
  BY <1>1, <1>2, MarkFacts
<1>4. Len(buffer) = Len(text) - offs[N]
  <2>1. offs[N] <= Len(text) /\ buffer = SubSeq(text, offs[N] + 1, Len(text))
    BY DEF Following
  <2> QED  BY <1>1, <1>3, <2>1, RestLen
<1>5. offs[N] < Len(text)
  <2>1. buffer \in Seq(Items) /\ Len(buffer) # 0 /\ Len(buffer) \in Nat
    BY EmptySeq DEF Typed, TextTypeOK, ReaderTypeOK
  <2> QED  BY <1>3, <1>4, <2>1
<1>6. Tiles(offs, accepted) /\ Lies(text, offs, accepted, "cut" \in damage)
  BY DEF Laid
<1>7. Len(text) <= offs[L + 1]
  BY <1>6 DEF Lies
<1>8. N \in 1..L
  <2>1. Len(got) <= L
    BY DEF Following
  <2>2. N # L + 1
    BY <1>3, <1>5, <1>7
  <2> QED  BY <1>2, <1>3, <2>1, <2>2
<1>9. \A n \in 1..L : offs[n + 1] = offs[n] + Len(accepted[n])
  BY <1>6 DEF Tiles
<1>10. /\ \A n \in 1..L : /\ accepted[n] # <<>> /\ Head(accepted[n]) \in Singular
                          /\ Head(accepted[n]) = Head(accepted[1])
                          /\ ToSet(accepted[n]) \subseteq FieldsOf[message_class]
  BY <1>2 DEF Delimited, ReadingBack
<1>11. \A n \in 1..L : Len(accepted[n]) # 0 /\ accepted[n][1] = Head(accepted[1])
  <2> SUFFICES ASSUME NEW n \in 1..L
               PROVE  Len(accepted[n]) # 0 /\ accepted[n][1] = Head(accepted[1])
    OBVIOUS
  <2>1. accepted[n] \in Seq(Fields) /\ accepted[n] # <<>> /\ Head(accepted[n]) = Head(accepted[1])
    BY <1>2, <1>10
  <2>2. Len(accepted[n]) # 0
    BY <2>1, EmptySeq
  <2>3. Head(accepted[n]) = accepted[n][1]
    BY <2>1
  <2> QED  BY <2>1, <2>2, <2>3
<1>12. Known(m, message_class)
  <2>1. m[1] \in Singular
    <3>1. m \in Seq(Fields) /\ m # <<>> /\ Head(m) \in Singular
      BY <1>2, <1>8, <1>10
    <3>2. Head(m) = m[1]
      BY <3>1
    <3> QED  BY <3>1, <3>2
  <2> QED  BY <1>2, <1>8, <1>10, <2>1 DEF Known
<1>13. ASSUME NEW k \in 1..Len(m), k <= Len(buffer)
       PROVE  Stays(buffer, k, m[k], "cut" \in damage)
  <2>1. k \in Nat \ {0} /\ offs[N] + k <= Len(text)
    BY <1>2, <1>3, <1>4, <1>8, <1>13, SMTT(60)
  <2>2. Stays(text, offs[N] + k, m[k], "cut" \in damage)
    BY <1>6, <1>8, <2>1 DEF Lies
  <2>3. buffer = SubSeq(text, offs[N] + 1, Len(text)) /\ offs[N] <= Len(text)
    BY DEF Following
  <2>4. Stays(SubSeq(text, offs[N] + 1, Len(text)), k, m[k], "cut" \in damage)
    BY <1>1, <1>3, <2>1, <2>2, <2>3, StaysFrom
  <2> QED  BY <2>3, <2>4
<1>14. ASSUME Len(m) < Len(buffer)
       PROVE  Stays(buffer, Len(m) + 1, m[1], "cut" \in damage)
  <2>1. Len(m) \in Nat /\ offs[N + 1] = offs[N] + Len(m) /\ N + 1 \in Nat
    BY <1>2, <1>3, <1>8, <1>9
  <2>2. /\ Len(m) + 1 \in Nat \ {0} /\ offs[N] + (Len(m) + 1) <= Len(text)
        /\ offs[N + 1] + 1 = offs[N] + (Len(m) + 1)
    <3>1. Len(m) < Len(text) - offs[N]
      BY ONLY <1>4, <1>14
    <3>2. offs[N] \in Nat /\ Len(text) \in Nat
      BY ONLY <1>3
    <3> HIDE DEF N, m, text, L
    <3> QED  BY ONLY <2>1, <3>1, <3>2, BeyondThis
  <2>3. N + 1 \in 1..L
    <3>1. N + 1 # L + 1
      BY <1>3, <1>7, <2>1, <2>2
    <3> QED  BY <1>2, <1>8, <3>1
  <2>4. 1 \in 1..Len(accepted[N + 1]) /\ accepted[N + 1][1] = m[1]
    BY <1>2, <1>8, <1>11, <2>3
  <2>5. Stays(text, offs[N + 1] + 1, accepted[N + 1][1], "cut" \in damage)
    BY <1>6, <2>2, <2>3, <2>4 DEF Lies
  <2>6. Stays(text, offs[N] + (Len(m) + 1), m[1], "cut" \in damage)
    BY <2>2, <2>4, <2>5
  <2>7. buffer = SubSeq(text, offs[N] + 1, Len(text)) /\ offs[N] <= Len(text)
    BY DEF Following
  <2>8. Stays(SubSeq(text, offs[N] + 1, Len(text)), Len(m) + 1, m[1], "cut" \in damage)
    BY <1>1, <1>3, <2>2, <2>6, <2>7, StaysFrom
  <2> QED  BY <2>7, <2>8
<1>15. ASSUME damage = {}  PROVE Len(m) <= Len(buffer)
  <2>1. Len(text) = offs[L + 1]
    BY <1>15 DEF Laid
  <2>2. /\ N + 1 \in 1..(L + 1) /\ L + 1 \in 1..(L + 1) /\ N + 1 <= L + 1
        /\ offs[N + 1] = offs[N] + Len(m) /\ Len(m) \in Nat
    BY <1>2, <1>3, <1>8, <1>9
  <2>3. offs[N + 1] <= offs[L + 1]
    BY <1>6, <2>2 DEF Tiles
  <2> QED  BY <1>3, <1>4, <2>1, <2>2, <2>3
<1>16. Len(m) \in Nat /\ offs[N + 1] = offs[N] + Len(m)
  BY <1>2, <1>8, <1>9
<1>17. StartsWith(buffer, m, "cut" \in damage)
  BY <1>13, <1>14 DEF StartsWith
<1> HIDE DEF m, text
<1> QED  BY <1>3, <1>4, <1>8, <1>12, <1>15, <1>16, <1>17 DEF m, text

LEMMA HeadPrefix ==
  ASSUME NEW S, NEW m \in Seq(S), NEW n \in Nat, n <= Len(m)
  PROVE  IsPrefix(SubSeq(m, 1, n), m)
<1>1. /\ SubSeq(m, 1, n) \in Seq(S) /\ Len(SubSeq(m, 1, n)) = n
  BY HeadFacts
<1>2. SubSeq(SubSeq(m, 1, n), 1, n) = SubSeq(m, 1, n)
  BY <1>1, SubSeqFull
<1> QED  BY <1>1, <1>2 DEF IsPrefix

LEMMA GotAppend ==
  ASSUME Typed, NEW x \in Seq(Fields), got' = Append(got, x)
  PROVE  /\ Len(got') = Len(got) + 1 /\ Len(got) \in Nat
         /\ got'[Len(got) + 1] = x /\ \A n \in 1..Len(got) : got'[n] = got[n]
BY AppendFacts DEF Typed, TextTypeOK, ReaderTypeOK

LEMMA StillFollowing ==
  ASSUME NEW offs, Following(offs), UNCHANGED <<disk, target, accepted, buffer, got>>
  PROVE  Divided(offs)'
BY DEF Following, Divided

(* A read of the text, the next message of which is known.                 *)
LEMMA ReadFollowing ==
  ASSUME Typed, Using, ReadingBack, Delimited, NEW offs \in Marks, Laid(offs),
         Following(offs), buffer # <<>>, ReadMessage, UNCHANGED <<disk, writerVars>>
  PROVE  Divided(offs)' /\ (damage = {} => ret' # "EOF")
<1>1. UNCHANGED <<disk, target, accepted, damage>>
  BY DEF writerVars
<1>2. buffer \in Seq(Items) /\ disk[target] \in Seq(Items)
  BY DEF Typed, TextTypeOK, ReaderTypeOK, Using, ReadingBack
<1>3. message_class # None
  BY TextAssumption DEF Typed, Opened, ReadingBack
<1>4. PICK N, m, cut : N = Len(got) + 1 /\ m = accepted[N] /\ cut = ("cut" \in damage)
  OBVIOUS
<1>5. /\ N \in 1..Len(accepted) /\ Len(got) \in Nat /\ offs[N] \in Nat
      /\ Known(m, message_class) /\ Len(m) \in Nat /\ StartsWith(buffer, m, cut)
      /\ Len(buffer) = Len(disk[target]) - offs[N] /\ Len(disk[target]) \in Nat
      /\ offs[N + 1] = offs[N] + Len(m)
      /\ damage = {} => Len(m) <= Len(buffer)
  BY <1>4, NextMessage
<1>6. /\ Len(got) < Len(accepted) /\ Len(got) <= Len(accepted) /\ \A n \in 1..Len(got) : got[n] = accepted[n]
      /\ buffer = SubSeq(disk[target], offs[N] + 1, Len(disk[target]))
  <2>1. Len(accepted) \in Nat
    BY AcceptedFacts DEF Typed, TextTypeOK, WriterTypeOK
  <2> QED  BY <1>4, <1>5, <2>1 DEF Following
<1>7. m \in Seq(Fields)
  BY <1>5, KnownFacts
<1>8. ASSUME damage = {}  PROVE StartsWith(buffer, m, FALSE)
  <2>1. ~cut
    BY <1>4, <1>8
  <2> QED  BY <1>5, <2>1 DEF StartsWith, Stays
(* A message was taken whole: what follows it is left.                     *)
<1>9. ASSUME NEW rest, got' = Append(got, m), buffer' = rest,
             rest = SubSeq(disk[target], offs[N + 1] + 1, Len(disk[target])),
             offs[N + 1] <= Len(disk[target])
      PROVE  Divided(offs)'
  <2>1. /\ Len(got') = N /\ got'[N] = m /\ \A n \in 1..Len(got) : got'[n] = got[n]
    BY <1>4, <1>7, <1>9, GotAppend
  <2>2. \A n \in 1..N : got'[n] = accepted[n]
    <3> SUFFICES ASSUME NEW n \in 1..N  PROVE got'[n] = accepted[n]
      OBVIOUS
    <3>1. CASE n = N
      BY <1>4, <2>1, <3>1
    <3>2. CASE n # N
      <4>1. n \in 1..Len(got)
        BY <1>4, <1>5, <3>2
      <4> QED  BY <1>6, <2>1, <4>1
    <3> QED  BY <3>1, <3>2
  <2>3. N <= Len(accepted)
    BY <1>5
  <2>4. /\ Len(got') <= Len(accepted') /\ offs[Len(got') + 1] <= Len(disk'[target'])
        /\ buffer' = SubSeq(disk'[target'], offs[Len(got') + 1] + 1, Len(disk'[target']))
        /\ \A n \in 1..Len(got') : got'[n] = accepted'[n]
    BY <1>1, <1>9, <2>1, <2>2, <2>3
  <2> QED  BY <2>4 DEF Divided
<1>10. CASE ReadNothing
  BY <1>3, <1>10 DEF ReadNothing
<1>11. CASE ReadNameless
  <2>1. damage # {}
    <3> SUFFICES ASSUME damage = {}  PROVE FALSE
      OBVIOUS
    <3>1. FirstField # None
      BY <1>2, <1>5, <1>8, OneIsLeft
    <3> QED  BY <1>11, <3>1 DEF ReadNameless
  <2>2. UNCHANGED <<buffer, got>>
    BY <1>11 DEF ReadNameless, End
  <2> QED  BY <1>1, <2>1, <2>2, StillFollowing
<1>12. CASE ReadWhole
  <2>1. /\ Parses(buffer, message_class) /\ got' = Append(got, NamesIn(buffer))
        /\ buffer' = <<>> /\ ret' = "OK"
    BY <1>12 DEF ReadWhole, Give
  <2>2. Len(buffer) <= Len(m) /\ NamesIn(buffer) = SubSeq(m, 1, Len(buffer))
    BY <1>2, <1>5, <2>1, WholeMessage
  <2>3. CASE Len(buffer) = Len(m)
    <3>1. NamesIn(buffer) = m
      BY <1>7, <2>2, <2>3, SubSeqFull
    <3>2. offs[N + 1] = Len(disk[target])
      BY <1>5, <2>3
    <3>3. <<>> = SubSeq(disk[target], offs[N + 1] + 1, Len(disk[target]))
      <4>1. PICK L : L = Len(disk[target])
        OBVIOUS
      <4>2. L \in Int /\ L + 1 \in Int /\ L < L + 1
        BY <1>5, <4>1
      <4>3. SubSeq(disk[target], L + 1, L) = <<>>
        BY ONLY <4>2, SubSeqEmpty
      <4> QED  BY <3>2, <4>1, <4>3
    <3>4. offs[N + 1] <= Len(disk[target])
      BY <1>5, <3>2
    <3> QED  BY <1>9, <2>1, <3>1, <3>3, <3>4
  <2>4. CASE Len(buffer) # Len(m)
    <3>1. Len(buffer) \in Nat /\ ~(Len(m) <= Len(buffer))
      BY <1>2, <1>5, <2>2, <2>4
    <3>2. damage' # {}
      BY <1>1, <1>5, <3>1
    <3>3. NamesIn(buffer) \in Seq(Fields) /\ IsPrefix(NamesIn(buffer), m)
      <4>1. SubSeq(m, 1, Len(buffer)) \in Seq(Fields)
        BY <1>7, <2>2, <3>1, HeadFacts
      <4> QED  BY <1>7, <2>2, <3>1, <4>1, HeadPrefix
    <3>4. /\ Len(got') = N /\ got'[N] = NamesIn(buffer)
          /\ \A n \in 1..Len(got) : got'[n] = got[n]
      BY <1>4, <2>1, <3>3, GotAppend
    <3>5. ASSUME NEW n \in 1..N
          PROVE  IsPrefix(got'[n], accepted[n]) /\ (n < N => got'[n] = accepted[n])
      <4>1. CASE n = N
        BY <1>4, <1>5, <3>3, <3>4, <4>1
      <4>2. CASE n # N
        <5>1. n \in 1..Len(got) /\ n \in 1..Len(accepted)
          BY <1>4, <1>5, <4>2
        <5>2. got'[n] = accepted[n]
          BY <1>6, <3>4, <5>1
        <5>3. accepted[n] \in Seq(Fields)
          BY <5>1, AcceptedFacts DEF Typed, TextTypeOK, WriterTypeOK
        <5> QED  BY <5>2, <5>3, PrefixOfItself
      <4> QED  BY <4>1, <4>2
    <3>6. N <= Len(accepted)
      BY <1>5
    <3>7. /\ damage' # {} /\ buffer' = <<>> /\ Len(got') <= Len(accepted')
          /\ \A n \in 1..Len(got') : IsPrefix(got'[n], accepted'[n])
                                     /\ (n < Len(got') => got'[n] = accepted'[n])
      BY <1>1, <2>1, <3>2, <3>4, <3>5, <3>6
    <3>8. Divided(offs)'
      BY <3>7 DEF Divided
    <3> QED  BY <2>1, <3>8
  <2> QED  BY <2>3, <2>4
<1>13. CASE ReadPiece
  <2>1. /\ Parses(Piece, message_class) /\ ~Parses(buffer, message_class)
        /\ got' = Append(got, NamesIn(Piece)) /\ buffer' = Remainder /\ ret' = "OK"
    BY <1>13 DEF ReadPiece, Divisible, Give
  <2>2. MessageEnd # Len(buffer)
    <3> SUFFICES ASSUME MessageEnd = Len(buffer)  PROVE FALSE
      OBVIOUS
    <3>1. Piece = buffer
      BY <1>2, SubSeqFull DEF Piece
    <3> QED  BY <2>1, <3>1
  <2>3. MessageEnd = Len(m) /\ NamesIn(Piece) = m
    BY <1>2, <1>5, <2>2, CutAtNext
  <2>4. Len(m) <= Len(buffer)
    BY <1>2, <2>3, EndFacts
  <2>5. offs[N] + Len(m) <= Len(disk[target])
    BY <1>5, <2>4
  <2>6. Remainder = SubSeq(disk[target], offs[N + 1] + 1, Len(disk[target]))
    <3>1. Remainder = SubSeq(buffer, Len(m) + 1, Len(buffer))
      BY <2>3 DEF Remainder
    <3>2. SubSeq(buffer, Len(m) + 1, Len(buffer))
            = SubSeq(disk[target], (offs[N] + Len(m)) + 1, Len(disk[target]))
      BY <1>2, <1>5, <1>6, <2>5, RestOfRest
    <3> QED  BY <1>5, <3>1, <3>2
  <2> QED  BY <1>5, <1>9, <2>1, <2>3, <2>5, <2>6
<1>14. CASE ReadMalformed
  <2>1. /\ ~Parses(Piece, message_class) /\ ~Parses(buffer, message_class)
        /\ buffer' = <<>> /\ ret' = "ERROR" /\ got' = got
    BY <1>14 DEF ReadMalformed, Divisible
  <2>2. MessageEnd = Len(buffer)
    <3> SUFFICES ASSUME MessageEnd # Len(buffer)  PROVE FALSE
      OBVIOUS
    <3>1. Parses(Piece, message_class)
      BY <1>2, <1>5, CutAtNext
    <3> QED  BY <2>1, <3>1
  <2>3. damage # {}
    <3> SUFFICES ASSUME damage = {}  PROVE FALSE
      OBVIOUS
    <3>1. Parses(buffer, message_class)
      BY <1>2, <1>5, <1>8, <2>2, OneIsLeft
    <3> QED  BY <2>1, <3>1
  <2>4. ASSUME NEW n \in 1..Len(got)  PROVE IsPrefix(got[n], accepted[n])
    <3>1. n \in 1..Len(accepted) /\ got[n] = accepted[n]
      BY <1>4, <1>5, <1>6
    <3>2. accepted[n] \in Seq(Fields)
      BY <3>1, AcceptedFacts DEF Typed, TextTypeOK, WriterTypeOK
    <3> QED  BY <3>1, <3>2, PrefixOfItself
  <2>5. /\ damage' # {} /\ buffer' = <<>> /\ Len(got') <= Len(accepted')
        /\ \A n \in 1..Len(got') : IsPrefix(got'[n], accepted'[n])
                                   /\ (n < Len(got') => got'[n] = accepted'[n])
    BY <1>1, <1>6, <2>1, <2>3, <2>4
  <2>6. Divided(offs)'
    BY <2>5 DEF Divided
  <2> QED  BY <2>1, <2>6
<1> QED  BY <1>10, <1>11, <1>12, <1>13, <1>14 DEF ReadMessage

LEMMA ReadMessageReads ==
  ASSUME Typed, Using, NEW offs \in Marks, Laid(offs), Reads(offs), source # None,
         ReadMessage, UNCHANGED <<disk, writerVars>>
  PROVE  Reads(offs)'
<1>1. UNCHANGED <<disk, target, accepted, damage, message_class, source>>
  BY DEF writerVars, ReadMessage, ReadNothing, ReadWhole, ReadNameless, ReadPiece,
         ReadMalformed, End, Give, KeepSetup
<1> SUFFICES ASSUME ReadingBack, Delimited
             PROVE  Divided(offs)' /\ (damage = {} /\ ret' = "EOF" => buffer' = <<>>)
  BY <1>1 DEF Reads, ReadingBack, Delimited
<1>2. Divided(offs)
  BY DEF Reads
<1>3. CASE buffer # <<>>
  <2>1. Following(offs)
    BY <1>2, <1>3 DEF Divided, Following
  <2> QED  BY <1>3, <2>1, ReadFollowing
<1>4. CASE buffer = <<>>
  <2>1. UNCHANGED <<buffer, got>>
    BY <1>4 DEF ReadMessage, ReadNothing, ReadWhole, ReadNameless, ReadPiece,
                ReadMalformed, Divisible, End
  <2>2. Divided(offs)'
    BY <1>1, <1>2, <2>1 DEF Divided
  <2> QED  BY <1>4, <2>1, <2>2
<1> QED  BY <1>3, <1>4

LEMMA OpenReads ==
  ASSUME Typed, Using, NEW offs \in Marks, Laid(offs), source # None => Reads(offs),
         target # None, NEW p \in Paths, Open(p), UNCHANGED <<disk, writerVars>>
  PROVE  source' # None => Reads(offs)'
<1>1. UNCHANGED <<disk, target, accepted, damage>>
  BY DEF writerVars
<1>2. CASE OpenAgain \/ OpenUnknown(p) \/ OpenMissing(p) \/ OpenUndecodable(p)
  <2>1. ret' \in {"REFUSED", "RAISED"} /\ UNCHANGED <<buffer, source, got>>
    BY <1>2 DEF OpenAgain, OpenUnknown, OpenMissing, OpenUndecodable, Refuse
  <2>2. source # None => message_class' = message_class
    <3>1. source # None => message_class # None
      BY TextAssumption DEF Typed, Opened
    <3> QED  BY <1>2, <3>1 DEF OpenAgain, OpenUnknown, OpenMissing, OpenUndecodable
  <2>3. Divided(offs) => Divided(offs)'
    BY <1>1, <2>1 DEF Divided
  <2> QED  BY <1>1, <2>1, <2>2, <2>3 DEF Reads, ReadingBack, Delimited
<1>3. CASE OpenPresent(p)
  <2>1. buffer' = disk[p] /\ source' = p /\ got' = <<>> /\ ret' = "OPENED"
    BY <1>3 DEF OpenPresent
  <2>2. ASSUME p = target  PROVE Divided(offs)'
    <3>1. Len(got') = 0 /\ offs[1] = 0 /\ Len(accepted) \in Nat
      BY <2>1, EmptySeq, AcceptedFacts DEF Laid, Tiles, Typed, TextTypeOK, WriterTypeOK
    <3>2. disk[target] \in Seq(Items) /\ Len(disk[target]) \in Nat
      BY DEF Using
    <3>3. SubSeq(disk[target], 1, Len(disk[target])) = disk[target]
      BY <3>2, SubSeqFull
    <3>4. /\ Len(got') <= Len(accepted') /\ offs[Len(got') + 1] <= Len(disk'[target'])
          /\ buffer' = SubSeq(disk'[target'], offs[Len(got') + 1] + 1, Len(disk'[target']))
          /\ \A n \in 1..Len(got') : got'[n] = accepted'[n]
      BY <1>1, <2>1, <2>2, <3>1, <3>2, <3>3
    <3> QED  BY <3>4 DEF Divided
  <2> QED  BY <1>1, <2>1, <2>2 DEF Reads, ReadingBack
<1> QED  BY <1>2, <1>3 DEF Open

LEMMA ReadingInPlace == ASSUME Typed, InPlace, Reading PROVE InPlace'
<1>1. UNCHANGED <<disk, out, usable, target, accepted, damage>> /\ UNCHANGED <<disk, writerVars>>
  BY DEF Reading, writerVars
<1>2. Using /\ Using'
  BY <1>1 DEF InPlace, Using
<1> SUFFICES ASSUME target # None, "torn" \notin damage
             PROVE  \E offs \in Marks : Laid(offs)' /\ (source' # None => Reads(offs)')
  BY <1>1, <1>2 DEF InPlace
<1>3. PICK offs \in Marks : Laid(offs) /\ (source # None => Reads(offs))
  BY DEF InPlace
<1>4. Laid(offs)'
  BY <1>1, <1>3 DEF Laid
<1>5. source' # None => Reads(offs)'
  <2>1. CASE \E p \in Paths : Open(p)
    BY <1>1, <1>2, <1>3, <2>1, OpenReads
  <2>2. CASE SettingType
    BY <2>2 DEF SettingType, SetMessageType
  <2>3. CASE Close
    BY <2>3 DEF Close
  <2>4. CASE ReadMessage
    <3>1. source' = source
      BY <2>4 DEF ReadMessage, ReadNothing, ReadWhole, ReadNameless, ReadPiece,
                  ReadMalformed, End, Give, KeepSetup
    <3> QED  BY <1>1, <1>2, <1>3, <2>4, <3>1, ReadMessageReads
  <2> QED  BY <2>1, <2>2, <2>3, <2>4 DEF Reading
<1> QED  BY <1>4, <1>5

THEOREM AlwaysInPlace == FileSpec => []InPlace
<1>1. FileInit => InPlace
  BY DEF FileInit, WriterInit, InPlace, Using
<1>2. Typed /\ InPlace /\ [FileNext]_allVars => InPlace'
  <2> SUFFICES ASSUME Typed, InPlace, [FileNext]_allVars  PROVE InPlace'
    OBVIOUS
  <2>1. CASE UNCHANGED allVars
    <3>1. /\ UNCHANGED <<disk, out, usable, written, answer, target, accepted, damage>>
          /\ UNCHANGED <<message_type, message_class, buffer, has_next, ret, source, got>>
      BY <2>1 DEF allVars, readerVars, writerVars
    <3> QED  BY <3>1 DEF InPlace, Using, Laid, Reads, ReadingBack, Delimited, Divided
  <2> QED  BY <2>1, WritingInPlace, ReadingInPlace DEF FileNext
<1> QED  BY AlwaysTyped, <1>1, <1>2, PTL DEF FileSpec

(* Behind the last message nothing is left.                                *)
LEMMA AllRead ==
  ASSUME Typed, Using, NEW offs \in Marks, Laid(offs), Following(offs), Delimited,
         ReadingBack, damage = {}, buffer = <<>>
  PROVE  got = accepted
<1> DEFINE P == Len(got)
           L == Len(accepted)
<1>1. /\ disk[target] \in Seq(Items) /\ accepted \in Seq(Messages) /\ got \in Seq(Seq(Fields))
      /\ P \in Nat /\ L \in Nat /\ accepted \in Seq(Seq(Fields)) /\ DOMAIN accepted = 1..L
      /\ \A n \in 1..L : accepted[n] \in Seq(Fields)
  BY AcceptedFacts DEF ReadingBack, Using, Typed, TextTypeOK, ReaderTypeOK, WriterTypeOK
<1>2. /\ offs[P + 1] \in Nat /\ offs[L + 1] \in Nat /\ offs[P + 1] <= Len(disk[target])
      /\ P <= L
  BY <1>1, MarkFacts DEF Following
<1>3. offs[P + 1] = offs[L + 1]
  <2>1. Len(disk[target]) = offs[L + 1]
    BY DEF Laid
  <2>2. Len(buffer) = Len(disk[target]) - offs[P + 1]
    <3>1. buffer = SubSeq(disk[target], offs[P + 1] + 1, Len(disk[target]))
      BY DEF Following
    <3> QED  BY <1>1, <1>2, <3>1, RestLen
  <2>3. Len(buffer) = 0
    BY EmptySeq
  <2> QED  BY <1>2, <2>1, <2>2, <2>3
<1>4. P = L
  <2> SUFFICES ASSUME P < L  PROVE FALSE
    BY <1>1, <1>2
  <2>1. P + 1 \in 1..L /\ (P + 1) + 1 \in 1..(L + 1) /\ L + 1 \in 1..(L + 1) /\ (P + 1) + 1 <= L + 1
    BY <1>1
  <2>2. offs[(P + 1) + 1] = offs[P + 1] + Len(accepted[P + 1]) /\ offs[(P + 1) + 1] <= offs[L + 1]
    BY <2>1 DEF Laid, Tiles
  <2>3. accepted[P + 1] \in Seq(Fields) /\ accepted[P + 1] # <<>>
    BY <1>1, <2>1 DEF Delimited
  <2>4. Len(accepted[P + 1]) \in Nat \ {0}
    BY <2>3, EmptySeq
  <2> QED  BY <1>2, <1>3, <2>2, <2>4
<1>5. \A n \in 1..P : got[n] = accepted[n]
  BY DEF Following
<1> QED  BY <1>1, <1>4, <1>5, SeqEqual

(* Messages that all start with the same field, one that is not repeated,  *)
(* are cut off a text by the Python reader as the Python writer wrote      *)
(* them, in their order, however many and however long; only the last one  *)
(* read may be short, and only of a text that was cut by a crash or a      *)
(* failed close; of a whole text none is missing at the end.               *)
THEOREM DelimitedReadBack == FileSpec => []ReadsBackDelimited
<1>1. Typed /\ InPlace => ReadsBackDelimited
  <2> SUFFICES ASSUME Typed, InPlace, ReadingBack, Delimited
               PROVE  /\ \A n \in DOMAIN got :
                            /\ n \in DOMAIN accepted /\ IsPrefix(got[n], accepted[n])
                            /\ n < Len(got) \/ damage = {} => got[n] = accepted[n]
                      /\ damage = {} /\ ret = "EOF" => got = accepted
    BY DEF ReadsBackDelimited
  <2>1. Using /\ source # None /\ source = target /\ "torn" \notin damage
    BY DEF InPlace, ReadingBack
  <2>2. PICK offs \in Marks : Laid(offs) /\ Reads(offs)
    BY <2>1 DEF InPlace
  <2>3. Divided(offs) /\ (damage = {} /\ ret = "EOF" => buffer = <<>>)
    BY <2>2 DEF Reads
  <2>4. /\ got \in Seq(Seq(Fields)) /\ Len(got) \in Nat /\ DOMAIN got = 1..Len(got)
        /\ accepted \in Seq(Messages) /\ Len(accepted) \in Nat
        /\ DOMAIN accepted = 1..Len(accepted)
        /\ \A n \in 1..Len(accepted) : accepted[n] \in Seq(Fields)
    BY AcceptedFacts DEF Typed, TextTypeOK, ReaderTypeOK, WriterTypeOK
  <2>5. Len(got) <= Len(accepted)
    BY <2>3 DEF Divided
  <2>6. \A n \in 1..Len(got) : n \in 1..Len(accepted)
    BY <2>4, <2>5
  <2>7. CASE Following(offs)
    <3>1. \A n \in 1..Len(got) : got[n] = accepted[n]
      BY <2>7 DEF Following
    <3>2. \A n \in 1..Len(got) : IsPrefix(got[n], accepted[n])
      <4> SUFFICES ASSUME NEW n \in 1..Len(got)  PROVE IsPrefix(got[n], accepted[n])
        OBVIOUS
      <4>1. accepted[n] \in Seq(Fields)
        BY <2>4, <2>6
      <4> QED  BY <3>1, <4>1, PrefixOfItself
    <3>3. damage = {} /\ ret = "EOF" => got = accepted
      BY <2>1, <2>2, <2>3, <2>7, AllRead
    <3> QED  BY <2>4, <2>6, <3>1, <3>2, <3>3
  <2>8. CASE ~Following(offs)
    <3>1. /\ damage # {}
          /\ \A n \in 1..Len(got) : IsPrefix(got[n], accepted[n])
                                    /\ (n < Len(got) => got[n] = accepted[n])
      BY <2>3, <2>8 DEF Divided, Following
    <3> QED  BY <2>4, <2>6, <3>1
  <2> QED  BY <2>7, <2>8
<1> QED  BY AlwaysTyped, AlwaysInPlace, <1>1, PTL

=============================================================================
