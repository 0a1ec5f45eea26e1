------------------------- MODULE TXTHTraceFile_proofs -------------------------
(***************************************************************************)
(* Theorems about the C++ writer and reader of text trace files, for all   *)
(* texts, messages and paths: the types of what they keep, that messages   *)
(* which can be told apart read back as they were written, and that no     *)
(* line of any text is lost, doubled or moved.                             *)
(***************************************************************************)
EXTENDS TXTHTraceFile, SequenceLemmas

-----------------------------------------------------------------------------
(* Sequences and texts                                                     *)

LEMMA NoMessages == <<>> \in Seq(Seq(Lines)) /\ Len(<<>>) = 0 /\ DOMAIN <<>> = {}
  OBVIOUS

LEMMA TextFacts ==
  ASSUME NEW t \in Texts
  PROVE  /\ t.lines \in Seq(Lines) /\ t.ended \in BOOLEAN
         /\ Len(t.lines) \in Nat /\ DOMAIN t.lines = 1..Len(t.lines)
  BY DEF Texts

LEMMA TextMade ==
  ASSUME NEW s \in Seq(Lines), NEW e \in BOOLEAN
  PROVE  Text(s, e) \in Texts /\ Text(s, e).lines = s /\ Text(s, e).ended = e
  BY DEF Text, Texts

(* The lines that end with a newline.                                      *)
CompleteOf(t) == IF t.ended THEN Len(t.lines) ELSE Len(t.lines) - 1

(* All of t, or a beginning of it, the last line of which may be damaged.  *)
Begins(b, t) == /\ Len(b.lines) <= Len(t.lines)
                /\ \A k \in 1..CompleteOf(b) : b.lines[k] = t.lines[k]

LEMMA BeginningFound ==
  ASSUME NEW t \in Texts, t.ended, NEW b \in Beginnings(t)
  PROVE  b \in Texts /\ Begins(b, t)
<1>1. /\ t.lines \in Seq(Lines) /\ Len(t.lines) \in Nat
  BY TextFacts
<1>2. ASSUME NEW n \in 0..Len(t.lines)
      PROVE  /\ SubSeq(t.lines, 1, n) \in Seq(Lines) /\ Len(SubSeq(t.lines, 1, n)) = n
             /\ \A k \in 1..n : SubSeq(t.lines, 1, n)[k] = t.lines[k]
  BY <1>1, HeadFacts
<1>3. CASE b = t
  BY <1>1, <1>3 DEF Begins, CompleteOf
<1>4. ASSUME NEW n \in 0..Len(t.lines), NEW e \in BOOLEAN,
             b = Text(SubSeq(t.lines, 1, n), e)
      PROVE  b \in Texts /\ Begins(b, t)
  <2> DEFINE s == SubSeq(t.lines, 1, n)
  <2>1. /\ s \in Seq(Lines) /\ Len(s) = n /\ \A k \in 1..n : s[k] = t.lines[k]
    BY <1>2
  <2> HIDE DEF s
  <2>2. b \in Texts /\ b.lines = s /\ b.ended = e
    BY <1>4, <2>1, TextMade DEF s
  <2>3. \A k \in 1..CompleteOf(b) : k \in 1..n
    BY <2>1, <2>2 DEF CompleteOf
  <2> QED  BY <1>1, <2>1, <2>2, <2>3 DEF Begins
<1>5. ASSUME NEW n \in 1..Len(t.lines),
             b = Text(Append(SubSeq(t.lines, 1, n - 1), Fragment), FALSE)
      PROVE  b \in Texts /\ Begins(b, t)
  <2> DEFINE s == SubSeq(t.lines, 1, n - 1)
             f == Append(s, Fragment)
  <2>1. /\ s \in Seq(Lines) /\ Len(s) = n - 1 /\ \A k \in 1..(n - 1) : s[k] = t.lines[k]
    BY <1>1, <1>2
  <2> HIDE DEF s
  <2>2. /\ f \in Seq(Lines) /\ Len(f) = n /\ \A k \in 1..(n - 1) : f[k] = t.lines[k]
    BY <2>1, AppendFacts, LinesAssumption
  <2> HIDE DEF f
  <2>3. b \in Texts /\ b.lines = f /\ b.ended = FALSE
    BY <1>5, <2>2, TextMade DEF s, f
  <2>4. CompleteOf(b) = n - 1
    BY <2>2, <2>3 DEF CompleteOf
  <2> QED  BY <1>1, <2>2, <2>3, <2>4 DEF Begins
<1>6. \/ b = t
      \/ \E n \in 0..Len(t.lines), e \in BOOLEAN : b = Text(SubSeq(t.lines, 1, n), e)
      \/ \E n \in 1..Len(t.lines) :
            b = Text(Append(SubSeq(t.lines, 1, n - 1), Fragment), FALSE)
  <2>1. \A n \in 1..Len(t.lines) : n \in 0..Len(t.lines)
    BY <1>1
  <2> QED  BY <2>1 DEF Beginnings
<1> QED  BY <1>3, <1>4, <1>5, <1>6

-----------------------------------------------------------------------------
(* The messages in the text                                                *)

(* The text holds the beginning of these messages.                         *)
Lies(t, offs, ms) ==
    /\ Len(t.lines) <= offs[Len(ms) + 1]
    /\ \A n \in 1..Len(ms) : \A k \in 1..Len(ms[n]) :
          offs[n] + k <= CompleteOf(t) => t.lines[offs[n] + k] = ms[n][k]

Laid(offs) ==
    /\ disk[target] \in Texts
    /\ Tiles(offs, begun) /\ Lies(disk[target], offs, begun)
    /\ ~damage => /\ begun = accepted /\ disk[target].ended
                  /\ Len(disk[target].lines) = offs[Len(begun) + 1]

(* At most the last message put to the file was refused.                   *)
Refused ==
    /\ Len(accepted) <= Len(begun) /\ Len(begun) <= Len(accepted) + 1
    /\ \A n \in 1..Len(accepted) : begun[n] = accepted[n]

NoBlanks == \A n \in 1..Len(begun) : \A k \in 1..Len(begun[n]) : begun[n][k] # Blank

(* The file that is being written, or was last, is whole until it fails.   *)
Using == /\ out # None => out = target /\ (good => ~damage)
         /\ Refused /\ NoBlanks

(* What has been read are the first messages; the last piece of a damaged  *)
(* text may be anything.                                                   *)
Divided(offs) ==
    \/ /\ Len(pieces) <= Len(begun) /\ at = offs[Len(pieces) + 1]
       /\ \A n \in 1..Len(pieces) : pieces[n] = begun[n]
    \/ /\ damage /\ at = Len(Held) /\ 1 <= Len(pieces) /\ Len(pieces) <= Len(begun)
       /\ \A n \in 1..Len(pieces) - 1 : pieces[n] = begun[n]

Reads(offs) ==
    source = target /\ Delimited =>
        Divided(offs) /\ (ret = "nullopt" => at = Len(Held))

AtLine == source # None => /\ disk[source] \in Texts /\ delimiter = FirstLine(source)
                           /\ at <= Len(Held)

(* The inductive invariant.                                                *)
TInv == /\ TxthTypeOK /\ Using /\ AtLine
        /\ target # None =>
              \E offs \in Marks : Laid(offs) /\ (source # None => Reads(offs))

LEMMA MessageFacts ==
  ASSUME NEW ms \in Seq(Seq(Lines))
  PROVE  /\ Len(ms) \in Nat /\ DOMAIN ms = 1..Len(ms)
         /\ \A n \in 1..Len(ms) : ms[n] \in Seq(Lines) /\ Len(ms[n]) \in Nat
                                  /\ DOMAIN ms[n] = 1..Len(ms[n])
  OBVIOUS

(* The message is put behind a whole text.                                 *)
LEMMA PutBehind ==
  ASSUME NEW ms \in Seq(Seq(Lines)), NEW m \in Seq(Lines), NEW offs \in Marks,
         NEW new \in Marks, NEW t \in Texts,
         Tiles(offs, ms), Lies(t, offs, ms), t.ended, Len(t.lines) = offs[Len(ms) + 1],
         \A n \in 1..(Len(ms) + 1) : new[n] = offs[n],
         new[Len(ms) + 2] = offs[Len(ms) + 1] + Len(m)
  PROVE  LET w == Text(t.lines \o m, TRUE)
         IN /\ w \in Texts /\ w.ended /\ Len(w.lines) = new[Len(ms) + 2]
            /\ Lies(w, new, Append(ms, m))
<1> DEFINE N == Len(ms)
           more == Append(ms, m)
           s == t.lines \o m
           w == Text(s, TRUE)
           L == Len(t.lines)
<1>1. /\ N \in Nat /\ L \in Nat /\ Len(m) \in Nat /\ t.lines \in Seq(Lines)
  BY TextFacts
<1>2. /\ Len(more) = N + 1 /\ more[N + 1] = m /\ \A n \in 1..N : more[n] = ms[n]
  BY AppendFacts
<1>3. /\ s \in Seq(Lines) /\ Len(s) = L + Len(m)
      /\ \A i \in 1..(L + Len(m)) : s[i] = IF i <= L THEN t.lines[i] ELSE m[i - L]
  BY <1>1, ConcatProperties
<1> HIDE DEF s, more
<1>4. w \in Texts /\ w.lines = s /\ w.ended = TRUE
  BY <1>3, TextMade
<1>5. CompleteOf(w) = L + Len(m) /\ CompleteOf(t) = L
  BY <1>3, <1>4 DEF CompleteOf
<1> HIDE DEF w
<1>6. ASSUME NEW n \in 1..(N + 1), NEW k \in 1..Len(more[n])
      PROVE  w.lines[new[n] + k] = more[n][k]
  <2>1. CASE n = N + 1
    <3>1. k \in 1..Len(m) /\ new[n] = L
      BY <1>2, <1>6, <2>1
    <3>2. s[L + k] = m[k]
      <4>1. L + k \in 1..(L + Len(m)) /\ ~(L + k <= L) /\ (L + k) - L = k
        BY <1>1, <3>1, Behind, SMTT(60)
      <4> HIDE DEF L
      <4> QED  BY <1>3, <4>1
    <3> QED  BY <1>2, <1>4, <2>1, <3>1, <3>2
  <2>2. CASE n \in 1..N
    <3>1. k \in 1..Len(ms[n]) /\ Len(ms[n]) \in Nat
      BY <1>2, <1>6, <2>2, MessageFacts
    <3>2. /\ offs[n] \in Nat /\ offs[n + 1] \in Nat
          /\ offs[n + 1] = offs[n] + Len(ms[n]) /\ offs[n + 1] <= L
      <4>1. offs[n] \in Nat /\ offs[n + 1] \in Nat
        BY <2>2, MarkFacts
      <4>2. n + 1 \in 1..(N + 1) /\ N + 1 \in 1..(N + 1) /\ n + 1 <= N + 1
        BY <1>1, <2>2
      <4>3. offs[n + 1] <= offs[N + 1]
        BY <4>2 DEF Tiles
      <4> QED  BY <2>2, <4>1, <4>3 DEF Tiles
    <3>3. offs[n] + k \in 1..L
      BY <1>1, <3>1, <3>2, Within, ZenonT(60)
    <3>4. t.lines[offs[n] + k] = ms[n][k]
      BY <1>5, <2>2, <3>1, <3>3 DEF Lies
    <3>5. s[offs[n] + k] = t.lines[offs[n] + k]
      <4> DEFINE i == offs[n] + k
      <4>1. i \in 1..(L + Len(m)) /\ i <= L
        <5> HIDE DEF i
        <5> QED  BY <1>1, <3>3 DEF i
      <4> HIDE DEF i, L
      <4>2. s[i] = t.lines[i]
        BY <1>3, <4>1
      <4> QED  BY <4>2 DEF i
    <3> QED  BY <1>2, <1>4, <2>2, <3>4, <3>5
  <2> QED  BY <1>1, <2>1, <2>2
<1>7. Len(w.lines) = new[N + 2]
  BY <1>3, <1>4
<1>8. Lies(w, new, more)
  <2>1. N + 1 + 1 = N + 2
    BY <1>1
  <2>2. new[N + 2] \in Nat
    BY <1>1, MarkFacts
  <2> QED  BY <1>2, <1>6, <1>7, <2>1, <2>2 DEF Lies
<1> QED  BY <1>4, <1>7, <1>8 DEF w, s, more

LEMMA LiesShort ==
  ASSUME NEW ms \in Seq(Seq(Lines)), NEW offs \in Marks, NEW t \in Texts, NEW b \in Texts,
         Lies(t, offs, ms), t.ended, Begins(b, t)
  PROVE  Lies(b, offs, ms)
<1>1. /\ Len(t.lines) \in Nat /\ Len(b.lines) \in Nat /\ CompleteOf(t) = Len(t.lines)
      /\ CompleteOf(b) <= Len(b.lines) /\ CompleteOf(b) \in Int
  BY TextFacts DEF CompleteOf
<1>2. Len(b.lines) <= Len(t.lines) /\ \A k \in 1..CompleteOf(b) : b.lines[k] = t.lines[k]
  BY DEF Begins
<1>3. Len(ms) \in Nat /\ offs[Len(ms) + 1] \in Nat
  BY MarkFacts
<1>4. Len(b.lines) <= offs[Len(ms) + 1]
  BY <1>1, <1>2, <1>3 DEF Lies
<1>5. ASSUME NEW n \in 1..Len(ms), NEW k \in 1..Len(ms[n]), offs[n] + k <= CompleteOf(b)
      PROVE  b.lines[offs[n] + k] = ms[n][k]
  <2>1. offs[n] \in Nat
    BY MarkFacts
  <2>0. k \in Nat \ {0}
    BY MessageFacts
  <2> DEFINE i == offs[n] + k
             c == CompleteOf(b)
  <2>2. i \in 1..c /\ i <= CompleteOf(t)
    <3>1. i \in Nat \ {0} /\ i <= c
      BY <1>5, <2>0, <2>1
    <3> HIDE DEF i, c
    <3> QED  BY <1>1, <1>2, <3>1 DEF c
  <2> QED  BY <1>2, <2>2 DEF Lies
<1> QED  BY <1>4, <1>5 DEF Lies

-----------------------------------------------------------------------------
(* The steps of the writer: the reader has no file open.                   *)

LEMMA QuietInv ==
  ASSUME TInv, source = None, out' \in {out, None}, answer' \in {"none", "true", "false"},
         UNCHANGED <<disk, good, target, accepted, begun, damage, readerVars>>
  PROVE  TInv'
<1>1. TxthTypeOK'
  BY DEF TInv, TxthTypeOK, readerVars
<1>2. Using' /\ AtLine' /\ source' = None
  BY DEF TInv, Using, Refused, NoBlanks, AtLine, readerVars
<1>3. ASSUME target' # None  PROVE \E offs \in Marks : Laid(offs)'
  <2>1. PICK offs \in Marks : Laid(offs)
    BY <1>3 DEF TInv
  <2>2. Laid(offs)'
    BY <2>1 DEF Laid
  <2> QED  BY <2>2
<1> QED  BY <1>1, <1>2, <1>3 DEF TInv

LEMMA OpenWriterInv ==
  ASSUME TInv, source = None, NEW p \in Paths, OpenWriter(p), UNCHANGED readerVars
  PROVE  TInv'
<1>1. /\ p \in TxthPaths /\ disk' = [disk EXCEPT ![p] = Text(<<>>, TRUE)]
      /\ out' = p /\ good' = TRUE /\ answer' = "true" /\ target' = p
      /\ accepted' = <<>> /\ begun' = <<>> /\ damage' = FALSE
  BY DEF OpenWriter
<1>2. /\ Text(<<>>, TRUE) \in Texts /\ Text(<<>>, TRUE).lines = <<>>
      /\ Text(<<>>, TRUE).ended = TRUE
  BY TextMade, EmptySeq
<1>3. disk' \in [Paths -> Texts \union {None}] /\ disk'[p] = Text(<<>>, TRUE)
  BY <1>1, <1>2 DEF TInv, TxthTypeOK
<1>4. TxthTypeOK'
  <2>1. accepted' \in Seq(Seq(Lines)) /\ begun' \in Seq(Seq(Lines))
    BY <1>1, NoMessages
  <2> QED  BY <1>1, <1>3, <2>1 DEF TInv, TxthTypeOK, readerVars
<1>5. Len(begun') = 0 /\ Len(accepted') = 0 /\ begun' = accepted'
  BY <1>1, NoMessages
<1>6. Using' /\ AtLine' /\ source' = None
  BY <1>1, <1>5 DEF TInv, Using, Refused, NoBlanks, AtLine, readerVars
<1>7. \E offs \in Marks : Laid(offs)'
  <2> DEFINE zero == [n \in Nat |-> 0]
  <2>1. zero \in Marks /\ zero[1] = 0
    BY DEF Marks
  <2> HIDE DEF zero
  <2>2. Tiles(zero, begun')
    BY <1>5, <2>1 DEF Tiles
  <2>3. disk'[target'] \in Texts /\ disk'[target'].ended /\ Len(disk'[target'].lines) = 0
    BY <1>1, <1>2, <1>3, NoMessages
  <2>4. Lies(disk'[target'], zero, begun')
    BY <1>5, <2>1, <2>3 DEF Lies
  <2>5. Laid(zero)'
    BY <1>5, <2>1, <2>2, <2>3, <2>4 DEF Laid
  <2> QED  BY <2>1, <2>5
<1> QED  BY <1>4, <1>6, <1>7 DEF TInv

(* The state in which a message is put to the file.                        *)
LEMMA Putting ==
  ASSUME TInv, MayWrite, NEW t \in MessageTypes, NEW m \in Messages[t]
  PROVE  /\ out = target /\ target # None /\ target \in Paths /\ ~damage
         /\ m \in Seq(Lines) /\ \A k \in 1..Len(m) : m[k] # Blank
         /\ begun = accepted /\ begun \in Seq(Seq(Lines)) /\ Len(begun) \in Nat
         /\ Written(m) \in Texts /\ Written(m).ended
         /\ Append(begun, m) \in Seq(Seq(Lines))
         /\ Len(Append(begun, m)) = Len(begun) + 1
         /\ \A n \in 1..(Len(begun) + 1) : \A k \in 1..Len(Append(begun, m)[n]) :
               Append(begun, m)[n][k] # Blank
         /\ \E new \in Marks : /\ Tiles(new, Append(begun, m))
                               /\ Lies(Written(m), new, Append(begun, m))
                               /\ Len(Written(m).lines) = new[Len(begun) + 2]
<1>1. /\ out = target /\ target # None /\ target \in Paths /\ ~damage
      /\ begun \in Seq(Seq(Lines)) /\ Len(begun) \in Nat
  BY LinesAssumption, MessageFacts DEF TInv, Using, MayWrite, TxthTypeOK
<1>2. m \in Seq(Lines) /\ \A k \in 1..Len(m) : m[k] # Blank
  <2>1. m \in Seq(Lines \ {Blank, Fragment})
    BY LinesAssumption
  <2>2. \A k \in 1..Len(m) : m[k] \in Lines \ {Blank, Fragment}
    BY <2>1
  <2>3. Lines \ {Blank, Fragment} \subseteq Lines
    OBVIOUS
  <2> QED  BY <2>1, <2>2, <2>3, SeqMonotonic
<1>3. PICK offs \in Marks : Laid(offs)
  BY <1>1 DEF TInv
<1>4. /\ disk[target] \in Texts /\ Tiles(offs, begun) /\ Lies(disk[target], offs, begun)
      /\ begun = accepted /\ disk[target].ended
      /\ Len(disk[target].lines) = offs[Len(begun) + 1]
  BY <1>1, <1>3 DEF Laid
<1>5. PICK new \in Marks :
            /\ Tiles(new, Append(begun, m))
            /\ \A n \in 1..(Len(begun) + 1) : new[n] = offs[n]
            /\ new[Len(begun) + 2] = offs[Len(begun) + 1] + Len(m)
  BY <1>1, <1>2, <1>4, Extended
<1>6. Written(m) = Text(disk[target].lines \o m, TRUE)
  BY <1>1 DEF Written
<1>7. /\ Written(m) \in Texts /\ Written(m).ended
      /\ Len(Written(m).lines) = new[Len(begun) + 2]
      /\ Lies(Written(m), new, Append(begun, m))
  <2> DEFINE old == disk[target]
             put == Text(old.lines \o m, TRUE)
             ms == begun
  <2>1. /\ old \in Texts /\ Lies(old, offs, ms) /\ old.ended /\ Tiles(offs, ms)
        /\ Len(old.lines) = offs[Len(ms) + 1] /\ ms \in Seq(Seq(Lines))
        /\ \A n \in 1..(Len(ms) + 1) : new[n] = offs[n]
        /\ new[Len(ms) + 2] = offs[Len(ms) + 1] + Len(m)
    BY <1>1, <1>4, <1>5
  <2> HIDE DEF old, ms
  <2>2. /\ put \in Texts /\ put.ended /\ Len(put.lines) = new[Len(ms) + 2]
        /\ Lies(put, new, Append(ms, m))
    BY <1>2, <2>1, PutBehind
  <2> QED  BY <1>6, <2>2 DEF old, ms
<1>8. /\ Append(begun, m) \in Seq(Seq(Lines)) /\ Len(Append(begun, m)) = Len(begun) + 1
      /\ \A n \in 1..Len(begun) : Append(begun, m)[n] = begun[n]
      /\ Append(begun, m)[Len(begun) + 1] = m
  BY <1>1, <1>2, AppendFacts
<1>9. ASSUME NEW n \in 1..(Len(begun) + 1)
      PROVE  \A k \in 1..Len(Append(begun, m)[n]) : Append(begun, m)[n][k] # Blank
  <2>1. CASE n = Len(begun) + 1
    BY <1>2, <1>8, <2>1
  <2>2. CASE n \in 1..Len(begun)
    BY <1>8, <2>2 DEF TInv, Using, NoBlanks
  <2> QED  BY <1>1, <2>1, <2>2
<1> QED  BY <1>1, <1>2, <1>4, <1>5, <1>7, <1>8, <1>9

LEMMA PutInv ==
  ASSUME TInv, source = None, NEW t \in MessageTypes, NEW m \in Messages[t], Put(m),
         UNCHANGED readerVars
  PROVE  TInv'
<1>1. /\ MayWrite /\ disk' = [disk EXCEPT ![out] = Written(m)]
      /\ answer' = "true" /\ accepted' = Append(accepted, m) /\ begun' = Append(begun, m)
      /\ UNCHANGED <<out, good, target, damage>>
  BY DEF Put
<1>2. /\ out = target /\ target # None /\ target \in Paths /\ ~damage
      /\ begun = accepted /\ Len(begun) \in Nat /\ Written(m) \in Texts /\ Written(m).ended
      /\ Append(begun, m) \in Seq(Seq(Lines)) /\ Len(Append(begun, m)) = Len(begun) + 1
      /\ \A n \in 1..(Len(begun) + 1) : \A k \in 1..Len(Append(begun, m)[n]) :
            Append(begun, m)[n][k] # Blank
  BY <1>1, Putting
<1>3. disk' \in [Paths -> Texts \union {None}] /\ disk'[target] = Written(m)
  BY <1>1, <1>2 DEF TInv, TxthTypeOK
<1>4. TxthTypeOK'
  BY <1>1, <1>2, <1>3 DEF TInv, TxthTypeOK, readerVars
<1>5. Using' /\ AtLine' /\ source' = None
  BY <1>1, <1>2 DEF TInv, Using, Refused, NoBlanks, AtLine, readerVars
<1>6. PICK new \in Marks : /\ Tiles(new, Append(begun, m))
                           /\ Lies(Written(m), new, Append(begun, m))
                           /\ Len(Written(m).lines) = new[Len(begun) + 2]
  BY <1>1, Putting
<1>7. Laid(new)'
  <2>1. Len(begun') + 1 = Len(begun) + 2
    BY <1>1, <1>2
  <2> QED  BY <1>1, <1>2, <1>3, <1>6, <2>1 DEF Laid
<1> QED  BY <1>4, <1>5, <1>7 DEF TInv

LEMMA PutFailsInv ==
  ASSUME TInv, source = None, NEW t \in MessageTypes, NEW m \in Messages[t], PutFails(m),
         UNCHANGED readerVars
  PROVE  TInv'
<1>1. PICK text \in Beginnings(Written(m)) : disk' = [disk EXCEPT ![out] = text]
  BY DEF PutFails
<1>2. /\ MayWrite /\ good' = FALSE /\ damage' = TRUE /\ begun' = Append(begun, m)
      /\ UNCHANGED <<out, target>> /\ answer' \in {"none", "true", "false"}
      /\ accepted' = accepted \/ accepted' = Append(accepted, m)
  BY DEF PutFails
<1>3. /\ out = target /\ target # None /\ target \in Paths
      /\ begun = accepted /\ begun \in Seq(Seq(Lines)) /\ Len(begun) \in Nat
      /\ Written(m) \in Texts /\ Written(m).ended /\ m \in Seq(Lines)
      /\ Append(begun, m) \in Seq(Seq(Lines)) /\ Len(Append(begun, m)) = Len(begun) + 1
      /\ \A n \in 1..(Len(begun) + 1) : \A k \in 1..Len(Append(begun, m)[n]) :
            Append(begun, m)[n][k] # Blank
  BY <1>2, Putting
<1>4. text \in Texts /\ Begins(text, Written(m))
  BY <1>1, <1>3, BeginningFound
<1>5. disk' \in [Paths -> Texts \union {None}] /\ disk'[target] = text
  BY <1>1, <1>3, <1>4 DEF TInv, TxthTypeOK
<1>6. TxthTypeOK'
  BY <1>2, <1>3, <1>5 DEF TInv, TxthTypeOK, readerVars
<1>7. Using' /\ AtLine' /\ source' = None
  <2>1. \A n \in 1..Len(begun) : Append(begun, m)[n] = begun[n]
    BY <1>3, AppendFacts
  <2>2. Refused'
    <3>1. CASE accepted' = accepted
      BY <1>2, <1>3, <2>1, <3>1 DEF Refused
    <3>2. CASE accepted' = Append(accepted, m)
      BY <1>2, <1>3, <3>2 DEF Refused
    <3> QED  BY <1>2, <3>1, <3>2
  <2> QED  BY <1>2, <1>3, <2>2 DEF TInv, Using, NoBlanks, AtLine, readerVars
<1>8. PICK new \in Marks : /\ Tiles(new, Append(begun, m))
                           /\ Lies(Written(m), new, Append(begun, m))
  BY <1>2, Putting
<1>9. Lies(text, new, Append(begun, m))
  BY <1>3, <1>4, <1>8, LiesShort
<1>10. Laid(new)'
  BY <1>2, <1>4, <1>5, <1>8, <1>9 DEF Laid
<1> QED  BY <1>6, <1>7, <1>10 DEF TInv

LEMMA LosesInv ==
  ASSUME TInv, source = None, CloseWriterLoses, UNCHANGED readerVars
  PROVE  TInv'
<1>1. PICK text \in Beginnings(disk[out]) :
         disk' = [disk EXCEPT ![out] = text] /\ damage' = (damage \/ text # disk[out])
  BY DEF CloseWriterLoses, LeftOf
<1>2. /\ out # None /\ good /\ out' = None /\ answer' = "none"
      /\ UNCHANGED <<good, target, accepted, begun>>
  BY DEF CloseWriterLoses
<1>3. out = target /\ target \in Paths /\ ~damage /\ begun \in Seq(Seq(Lines))
  BY <1>2, LinesAssumption DEF TInv, Using, TxthTypeOK
<1>4. PICK offs \in Marks : Laid(offs)
  BY <1>2, <1>3 DEF TInv
<1>5. disk[target] \in Texts /\ disk[target].ended
  BY <1>3, <1>4 DEF Laid
<1>6. text \in Texts /\ Begins(text, disk[target])
  BY <1>1, <1>3, <1>5, BeginningFound
<1>7. disk' \in [Paths -> Texts \union {None}] /\ disk'[target] = text
  BY <1>1, <1>3, <1>6 DEF TInv, TxthTypeOK
<1>8. TxthTypeOK'
  <2>1. damage' \in BOOLEAN
    BY <1>1
  <2> QED  BY <1>2, <1>7, <2>1 DEF TInv, TxthTypeOK, readerVars
<1>9. Using' /\ AtLine' /\ source' = None
  BY <1>2 DEF TInv, Using, Refused, NoBlanks, AtLine, readerVars
<1>10. Laid(offs)'
  <2>1. Lies(text, offs, begun)
    BY <1>3, <1>4, <1>5, <1>6, LiesShort DEF Laid
  <2>2. ~damage' => text = disk[target]
    BY <1>1, <1>3
  <2> QED  BY <1>2, <1>3, <1>4, <1>6, <1>7, <2>1, <2>2 DEF Laid
<1> QED  BY <1>8, <1>9, <1>10 DEF TInv

LEMMA WritingInv == ASSUME TInv, Writing PROVE TInv'
<1>1. source = None /\ UNCHANGED readerVars /\ WriterNext
  BY DEF Writing, Fresh
<1>2. CASE OpenWriterRefused
  BY <1>1, <1>2, QuietInv DEF OpenWriterRefused
<1>3. CASE PutRefused
  BY <1>1, <1>3, QuietInv DEF PutRefused
<1>4. CASE CloseWriter
  BY <1>1, <1>4, QuietInv DEF CloseWriter
<1> QED
  BY <1>1, <1>2, <1>3, <1>4, OpenWriterInv, PutInv, PutFailsInv, LosesInv DEF WriterNext

-----------------------------------------------------------------------------
(* Where a piece ends                                                      *)

LEMMA HeldFacts ==
  ASSUME TInv, source # None
  PROVE  /\ Held \in Seq(Lines) /\ Len(Held) \in Nat /\ Ended \in BOOLEAN
         /\ Complete = CompleteOf(disk[source]) /\ Complete \in Int
         /\ Complete <= Len(Held) /\ Len(Held) <= Complete + 1
         /\ Ended => Complete = Len(Held)
         /\ at \in Nat /\ at <= Len(Held) /\ delimiter = FirstLine(source)
<1>1. disk[source] \in Texts /\ at \in Nat /\ at <= Len(Held) /\ delimiter = FirstLine(source)
  BY DEF TInv, AtLine, TxthTypeOK
<1>2. Held \in Seq(Lines) /\ Len(Held) \in Nat /\ Ended \in BOOLEAN
  BY <1>1, TextFacts DEF Held, Ended
<1>3. Complete = CompleteOf(disk[source])
  BY DEF Complete, CompleteOf, Held, Ended
<1> QED  BY <1>1, <1>2, <1>3 DEF Complete

LEMMA PieceFacts ==
  ASSUME TInv, source # None, at + 1 <= Complete
  PROVE  /\ PieceEnd \in Nat /\ at + 1 <= PieceEnd /\ PieceEnd <= Complete
         /\ SubSeq(Held, at + 1, PieceEnd) \in Seq(Lines)
         /\ Len(SubSeq(Held, at + 1, PieceEnd)) = PieceEnd - at
         /\ \A k \in 1..(PieceEnd - at) : SubSeq(Held, at + 1, PieceEnd)[k] = Held[at + k]
         /\ \A n \in at + 2..PieceEnd : Held[n] # delimiter
         /\ PieceEnd # Complete => /\ PieceEnd + 1 <= Complete
                                   /\ Held[PieceEnd + 1] = delimiter
<1> DEFINE starts == {n \in at + 2..Complete : Held[n] = delimiter}
           Least(n) == n \in starts /\ \A k \in starts : n <= k
<1>1. /\ Held \in Seq(Lines) /\ Len(Held) \in Nat /\ Complete \in Nat
      /\ Complete <= Len(Held) /\ at \in Nat
  BY HeldFacts
<1>2. PieceEnd = IF starts = {} THEN Complete
                 ELSE (CHOOSE n \in starts : \A k \in starts : n <= k) - 1
  BY DEF PieceEnd
<1>3. starts \in SUBSET Nat
  BY <1>1
<1>4. \/ starts = {} /\ PieceEnd = Complete
      \/ \E n : Least(n) /\ PieceEnd = n - 1
  <2>1. CASE starts = {}
    BY <1>2, <2>1
  <2>2. CASE starts # {}
    <3>1. \E n \in starts : \A k \in starts : n <= k
      BY <1>3, <2>2, FirstOf
    <3> HIDE DEF starts
    <3>2. PICK n : n \in starts /\ (\A k \in starts : n <= k)
                   /\ n = CHOOSE x \in starts : \A k \in starts : x <= k
      BY <3>1
    <3> QED  BY <1>2, <2>2, <3>2
  <2> QED  BY <2>1, <2>2
<1>5. /\ PieceEnd \in Nat /\ at + 1 <= PieceEnd /\ PieceEnd <= Complete
      /\ PieceEnd # Complete => PieceEnd + 1 <= Complete /\ Held[PieceEnd + 1] = delimiter
  <2>1. CASE starts = {} /\ PieceEnd = Complete
    BY <1>1, <2>1
  <2>2. ASSUME NEW n, Least(n), PieceEnd = n - 1
        PROVE  /\ PieceEnd \in Nat /\ at + 1 <= PieceEnd /\ PieceEnd <= Complete
               /\ PieceEnd # Complete =>
                     PieceEnd + 1 <= Complete /\ Held[PieceEnd + 1] = delimiter
    <3>1. n \in Nat /\ at + 2 <= n /\ n <= Complete /\ Held[n] = delimiter
      BY <1>1, <2>2
    <3> QED  BY <1>1, <2>2, <3>1
  <2> QED  BY <1>4, <2>1, <2>2
<1>6. ASSUME NEW n \in at + 2..PieceEnd  PROVE Held[n] # delimiter
  <2>1. n \in at + 2..Complete /\ n <= PieceEnd /\ n \in Int
    BY <1>1, <1>5
  <2>2. ~(n \in starts)
    <3>1. CASE starts = {}
      BY <3>1
    <3>2. ASSUME NEW x, Least(x), PieceEnd = x - 1  PROVE ~(n \in starts)
      BY <1>1, <2>1, <3>2
    <3> QED  BY <1>4, <3>1, <3>2
  <2> QED  BY <2>1, <2>2
<1>7. /\ SubSeq(Held, at + 1, PieceEnd) \in Seq(Lines)
      /\ Len(SubSeq(Held, at + 1, PieceEnd)) = PieceEnd - at
      /\ \A k \in 1..(PieceEnd - at) : SubSeq(Held, at + 1, PieceEnd)[k] = Held[at + k]
  <2> DEFINE e == PieceEnd
             s == Held
             b == at + 1
  <2>1. /\ b \in Nat \ {0} /\ e \in Nat /\ e <= Len(s) /\ b <= e /\ s \in Seq(Lines)
        /\ e - b + 1 = e - at /\ \A k \in 1..(e - at) : b + k - 1 = at + k
    BY <1>1, <1>5
  <2> HIDE DEF e, s, b
  <2>2. /\ SubSeq(s, b, e) \in Seq(Lines) /\ Len(SubSeq(s, b, e)) = e - b + 1
        /\ \A k \in 1..(e - b + 1) : SubSeq(s, b, e)[k] = s[b + k - 1]
    BY <2>1, PartFacts
  <2>3. \A k \in 1..(e - at) : SubSeq(s, b, e)[k] = s[at + k]
    BY <2>1, <2>2
  <2> QED  BY <2>1, <2>2, <2>3 DEF e, s, b
<1> QED  BY <1>5, <1>6, <1>7

-----------------------------------------------------------------------------
(* The steps of the reader: the disk stays.                                *)

LEMMA FileKept ==
  ASSUME TInv, UNCHANGED <<disk, writerVars>>
  PROVE  /\ Using' /\ Delimited' = Delimited /\ \A offs : Laid(offs) => Laid(offs)'
         /\ UNCHANGED <<disk, out, good, answer, target, accepted, begun, damage>>
<1>1. UNCHANGED <<disk, out, good, answer, target, accepted, begun, damage>>
  BY DEF writerVars
<1>2. Using'
  BY <1>1 DEF TInv, Using, Refused, NoBlanks
<1>3. Delimited' = Delimited
  BY <1>1 DEF Delimited
<1>4. \A offs : Laid(offs) => Laid(offs)'
  BY <1>1 DEF Laid
<1> QED  BY <1>1, <1>2, <1>3, <1>4

(* The position and the pieces stay.                                       *)
LEMMA StillInv ==
  ASSUME TInv, UNCHANGED <<disk, writerVars, source, at, delimiter, pieces>>,
         message_type' \in MessageTypes \union {Unknown},
         parser' \in MessageTypes \union {None},
         ret' \in {"none", "true", "false", "closed", "nullopt", "ok", "threw"},
         ret' = "nullopt" => source = None \/ at = Len(Held)
  PROVE  TInv'
<1>1. /\ Using' /\ Delimited' = Delimited /\ \A offs : Laid(offs) => Laid(offs)'
      /\ UNCHANGED <<disk, out, good, answer, target, accepted, begun, damage>>
  BY FileKept
<1>2. TxthTypeOK'
  BY <1>1 DEF TInv, TxthTypeOK
<1>3. AtLine'
  BY <1>1 DEF TInv, AtLine, Held, FirstLine
<1>4. ASSUME target' # None
      PROVE  \E offs \in Marks : Laid(offs)' /\ (source' # None => Reads(offs)')
  <2>1. PICK offs \in Marks : Laid(offs) /\ (source # None => Reads(offs))
    BY <1>1, <1>4 DEF TInv
  <2>2. source' # None => Reads(offs)'
    BY <1>1, <2>1 DEF Reads, Divided, Held
  <2> QED  BY <1>1, <2>1, <2>2
<1> QED  BY <1>1, <1>2, <1>3, <1>4 DEF TInv

(* A reading begins, or ends.                                              *)
LEMMA FreshInv ==
  ASSUME TInv, UNCHANGED <<disk, writerVars>>, at' = 0, pieces' = <<>>,
         source' \in TxthPaths \union {None},
         source' # None => disk[source'] \in Texts /\ delimiter' = FirstLine(source'),
         delimiter' \in Lines,
         message_type' \in MessageTypes \union {Unknown},
         parser' \in MessageTypes \union {None}, ret' \in {"true", "closed"}
  PROVE  TInv'
<1>1. /\ Using' /\ Delimited' = Delimited /\ \A offs : Laid(offs) => Laid(offs)'
      /\ UNCHANGED <<disk, out, good, answer, target, accepted, begun, damage>>
  BY FileKept
<1>2. pieces' \in Seq(Seq(Lines)) /\ Len(pieces') = 0
  BY NoMessages
<1>3. TxthTypeOK'
  BY <1>1, <1>2 DEF TInv, TxthTypeOK
<1>4. AtLine'
  <2>1. ASSUME source' # None  PROVE Len(Held') \in Nat
    BY <1>1, <2>1, TextFacts DEF Held
  <2> QED  BY <1>1, <2>1 DEF AtLine, FirstLine
<1>5. ASSUME target' # None
      PROVE  \E offs \in Marks : Laid(offs)' /\ (source' # None => Reads(offs)')
  <2>1. PICK offs \in Marks : Laid(offs)
    BY <1>1, <1>5 DEF TInv
  <2>2. offs[1] = 0 /\ Len(begun) \in Nat
    BY <2>1, MessageFacts DEF Laid, Tiles, TInv, TxthTypeOK
  <2>3. Divided(offs)'
    BY <1>1, <1>2, <2>2 DEF Divided
  <2>4. Reads(offs)'
    BY <2>3 DEF Reads
  <2> QED  BY <1>1, <2>1, <2>4
<1> QED  BY <1>1, <1>3, <1>4, <1>5 DEF TInv

LEMMA OpenInv ==
  ASSUME TInv, NEW p \in Paths, NEW t \in MessageTypes \union {Unknown, None}, Open(p, t),
         UNCHANGED <<disk, writerVars>>
  PROVE  TInv'
<1>1. /\ Given(t) \in MessageTypes \union {Unknown}
      /\ Settled(p, t) \in MessageTypes \union {Unknown}
      /\ parser \in MessageTypes \union {None}
  BY LinesAssumption DEF Given, Settled, TInv, TxthTypeOK
<1>2. CASE OpenRefused(p, t)
  BY <1>1, <1>2, StillInv DEF OpenRefused, Refuse
<1>3. CASE OpenUntyped(p, t)
  BY <1>1, <1>3, StillInv DEF OpenUntyped, Refuse
<1>4. CASE OpenFails(p, t)
  BY <1>1, <1>4, StillInv DEF OpenFails, Refuse
<1>5. CASE Opens(p, t)
  <2>1. /\ source' = p /\ p \in TxthPaths /\ delimiter' = FirstLine(p) /\ at' = 0
        /\ message_type' = Settled(p, t) /\ parser' = Settled(p, t)
        /\ Settled(p, t) # Unknown /\ ret' = "true" /\ pieces' = <<>> /\ disk[p] # None
    BY <1>5 DEF Opens, Openable
  <2>2. disk[p] \in Texts
    BY <2>1 DEF TInv, TxthTypeOK
  <2>3. FirstLine(p) \in Lines
    <3>1. disk[p].lines \in Seq(Lines)
      BY <2>2, TextFacts
    <3>2. disk[p].lines # <<>> => disk[p].lines[1] \in Lines
      BY <3>1
    <3> QED  BY <3>2, LinesAssumption DEF FirstLine
  <2> QED  BY <1>1, <2>1, <2>2, <2>3, FreshInv
<1> QED  BY <1>2, <1>3, <1>4, <1>5 DEF Open

LEMMA CloseInv == ASSUME TInv, Close, UNCHANGED <<disk, writerVars>> PROVE TInv'
<1>1. /\ source' = None /\ at' = 0 /\ ret' = "closed" /\ pieces' = <<>>
      /\ UNCHANGED <<delimiter, message_type, parser>>
  BY DEF Close
<1>2. /\ delimiter' \in Lines /\ message_type' \in MessageTypes \union {Unknown}
      /\ parser' \in MessageTypes \union {None}
  BY <1>1 DEF TInv, TxthTypeOK
<1> QED  BY <1>1, <1>2, FreshInv

LEMMA ReadNothingInv ==
  ASSUME TInv, ReadNothing, UNCHANGED <<disk, writerVars>>
  PROVE  TInv'
<1>1. /\ ~HasNext /\ ret' = "nullopt"
      /\ UNCHANGED <<source, at, delimiter, message_type, parser, pieces>>
  BY DEF ReadNothing
<1>2. source # None => at = Len(Held)
  BY <1>1, HeldFacts DEF HasNext
<1>3. message_type' \in MessageTypes \union {Unknown} /\ parser' \in MessageTypes \union {None}
  BY <1>1 DEF TInv, TxthTypeOK
<1> QED  BY <1>1, <1>2, <1>3, StillInv

(* A piece is cut off: its type, and what it must be worth.                *)
LEMMA CutInv ==
  ASSUME TInv, UNCHANGED <<disk, writerVars>>, source # None,
         NEW piece \in Seq(Lines), NEW next \in Nat, next <= Len(Held), Cut(piece, next),
         \A offs \in Marks : source = target /\ target # None /\ Delimited
                                /\ Laid(offs) /\ Divided(offs) => Divided(offs)'
  PROVE  TInv'
<1>1. /\ Using' /\ Delimited' = Delimited /\ \A offs : Laid(offs) => Laid(offs)'
      /\ UNCHANGED <<disk, out, good, answer, target, accepted, begun, damage>>
  BY FileKept
<1>2. /\ at' = next /\ ret' \in {"ok", "threw"} /\ pieces' = Append(pieces, piece)
      /\ UNCHANGED <<source, delimiter, message_type, parser>>
  BY DEF Cut, ParseOutcomes
<1>3. pieces' \in Seq(Seq(Lines))
  BY <1>2, AppendFacts DEF TInv, TxthTypeOK
<1>4. TxthTypeOK'
  BY <1>1, <1>2, <1>3 DEF TInv, TxthTypeOK
<1>5. AtLine'
  BY <1>1, <1>2 DEF TInv, AtLine, Held, FirstLine
<1>6. ASSUME target' # None
      PROVE  \E offs \in Marks : Laid(offs)' /\ (source' # None => Reads(offs)')
  <2>1. PICK offs \in Marks : Laid(offs) /\ Reads(offs)
    BY <1>1, <1>6 DEF TInv
  <2>2. Reads(offs)'
    BY <1>1, <1>2, <1>6, <2>1 DEF Reads
  <2> QED  BY <1>1, <2>1, <2>2
<1> QED  BY <1>1, <1>4, <1>5, <1>6 DEF TInv

-----------------------------------------------------------------------------
(* Reading back                                                            *)

(* What can be told apart is told apart by its first line.                 *)
LEMMA DelimitedFacts ==
  ASSUME TInv, Delimited, NEW offs \in Marks, Tiles(offs, begun), NEW n \in 1..Len(begun)
  PROVE  /\ Len(begun[n]) \in Nat \ {0} /\ begun[n] \in Seq(Lines)
         /\ begun[n][1] = begun[1][1] /\ begun[n][1] # Blank
         /\ \A k \in 2..Len(begun[n]) : begun[n][k] # begun[1][1]
         /\ offs[n] \in Nat /\ offs[n + 1] = offs[n] + Len(begun[n])
         /\ offs[n] < offs[n + 1] /\ offs[n + 1] <= offs[Len(begun) + 1]
<1>1. begun \in Seq(Seq(Lines)) /\ Len(begun) \in Nat /\ DOMAIN begun = 1..Len(begun)
  BY MessageFacts DEF TInv, TxthTypeOK
<1>2. begun[n] \in Seq(Lines) /\ Len(begun[n]) \in Nat
  BY <1>1, MessageFacts
<1>3. /\ begun[n] # <<>> /\ begun[n][1] = begun[1][1]
      /\ \A k \in 2..Len(begun[n]) : begun[n][k] # begun[n][1]
  BY <1>1 DEF Delimited
<1>4. Len(begun[n]) # 0
  BY <1>2, <1>3
<1>5. begun[n][1] # Blank
  <2>1. 1 \in 1..Len(begun[n])
    BY <1>2, <1>4
  <2> QED  BY <2>1 DEF TInv, Using, NoBlanks
<1>6. offs[n] \in Nat /\ offs[n + 1] = offs[n] + Len(begun[n])
  BY MarkFacts DEF Tiles
<1>7. offs[n + 1] <= offs[Len(begun) + 1]
  <2>1. n + 1 \in 1..(Len(begun) + 1) /\ Len(begun) + 1 \in 1..(Len(begun) + 1)
        /\ n + 1 <= Len(begun) + 1
    BY <1>1
  <2> QED  BY <2>1 DEF Tiles
<1>8. offs[n] < offs[n + 1]
  BY <1>2, <1>4, <1>6
<1> QED  BY <1>2, <1>3, <1>4, <1>5, <1>6, <1>7, <1>8

(* While there is something to read, the position is before a message.     *)
LEMMA BeforeMessage ==
  ASSUME TInv, source # None, source = target, Delimited, at < Len(Held),
         NEW offs \in Marks, Laid(offs), Divided(offs)
  PROVE  /\ Len(pieces) \in Nat /\ Len(pieces) + 1 \in 1..Len(begun)
         /\ at = offs[Len(pieces) + 1]
         /\ \A n \in 1..Len(pieces) : pieces[n] = begun[n]
<1>1. /\ Len(pieces) \in Nat /\ Len(begun) \in Nat /\ at \in Nat /\ Len(Held) \in Nat
  BY MessageFacts, HeldFacts DEF TInv, TxthTypeOK
<1>2. /\ Len(pieces) <= Len(begun) /\ at = offs[Len(pieces) + 1]
      /\ \A n \in 1..Len(pieces) : pieces[n] = begun[n]
  BY <1>1 DEF Divided
<1>3. Len(Held) <= offs[Len(begun) + 1] /\ offs[Len(begun) + 1] \in Nat
  BY <1>1, MarkFacts DEF Laid, Lies, Held
<1>4. Len(pieces) # Len(begun)
  BY <1>1, <1>2, <1>3
<1> QED  BY <1>1, <1>2, <1>4

(* The line that the reader takes for the beginning of a message is.       *)
LEMMA DelimiterFound ==
  ASSUME TInv, source # None, source = target, Delimited, 1 <= Complete,
         NEW offs \in Marks, Laid(offs)
  PROVE  delimiter = begun[1][1] /\ delimiter # Blank /\ Len(begun) \in Nat \ {0}
<1>1. /\ Held \in Seq(Lines) /\ Len(Held) \in Nat /\ Complete \in Int
      /\ Complete <= Len(Held) /\ Complete = CompleteOf(disk[target])
      /\ delimiter = FirstLine(source)
  BY HeldFacts
<1>2. Len(begun) \in Nat
  BY MessageFacts DEF TInv, TxthTypeOK
<1>3. Tiles(offs, begun) /\ Lies(disk[target], offs, begun) /\ offs[1] = 0
  BY DEF Laid, Tiles
<1>4. Len(begun) # 0
  <2>1. Len(Held) <= offs[Len(begun) + 1]
    BY <1>3 DEF Lies, Held
  <2> QED  BY <1>1, <1>3, <2>1
<1>5. 1 \in 1..Len(begun)
  BY <1>2, <1>4
<1>6. /\ Len(begun[1]) \in Nat \ {0} /\ begun[1][1] # Blank
  BY <1>3, <1>5, DelimitedFacts
<1>7. Held[1] = begun[1][1]
  <2>1. 1 \in 1..Len(begun[1]) /\ offs[1] + 1 = 1 /\ 1 <= CompleteOf(disk[target])
    BY <1>1, <1>3, <1>6
  <2>2. disk[target].lines[offs[1] + 1] = begun[1][1]
    BY <1>3, <1>5, <2>1 DEF Lies
  <2> QED  BY <2>1, <2>2 DEF Held
<1>8. delimiter = Held[1]
  <2>1. Held # <<>>
    BY <1>1, NoMessages
  <2> QED  BY <1>1, <2>1 DEF FirstLine, Held
<1> QED  BY <1>2, <1>4, <1>6, <1>7, <1>8

LEMMA ReadUnendedInv ==
  ASSUME TInv, ReadUnended, UNCHANGED <<disk, writerVars>>
  PROVE  TInv'
<1>1. /\ source # None /\ at < Len(Held) /\ at + 1 > Complete
      /\ Cut(<<Held[at + 1]>>, Len(Held))
  BY DEF ReadUnended, HasNext
<1>2. /\ Held \in Seq(Lines) /\ Len(Held) \in Nat /\ at \in Nat /\ Complete \in Int
      /\ Ended => Complete = Len(Held)
  BY <1>1, HeldFacts
<1>3. <<Held[at + 1]>> \in Seq(Lines)
  <2>1. at + 1 \in 1..Len(Held)
    BY <1>1, <1>2
  <2>2. Held[at + 1] \in Lines
    BY <1>2, <2>1
  <2> QED  BY <2>2
<1>4. /\ at' = Len(Held) /\ pieces' = Append(pieces, <<Held[at + 1]>>) /\ UNCHANGED source
  BY <1>1 DEF Cut
<1>5. ASSUME NEW offs \in Marks, source = target, target # None, Delimited,
             Laid(offs), Divided(offs)
      PROVE  Divided(offs)'
  <2>1. /\ Len(pieces) \in Nat /\ Len(pieces) + 1 \in 1..Len(begun)
        /\ \A n \in 1..Len(pieces) : pieces[n] = begun[n]
    BY <1>1, <1>5, BeforeMessage
  <2>2. damage
    <3>1. ~Ended
      BY <1>1, <1>2
    <3> QED  BY <1>5, <3>1 DEF Laid, Ended
  <2>3. /\ Len(pieces') = Len(pieces) + 1
        /\ \A n \in 1..Len(pieces) : pieces'[n] = pieces[n]
    BY <1>3, <1>4, AppendFacts DEF TInv, TxthTypeOK
  <2>4. UNCHANGED <<disk, begun, damage>>
    BY FileKept
  <2> QED  BY <1>4, <2>1, <2>2, <2>3, <2>4 DEF Divided, Held
<1> DEFINE piece == <<Held[at + 1]>>
           next == Len(Held)
<1>6. piece \in Seq(Lines) /\ next \in Nat /\ next <= Len(Held) /\ Cut(piece, next)
  BY <1>1, <1>2, <1>3
<1>7. \A offs \in Marks : source = target /\ target # None /\ Delimited
                              /\ Laid(offs) /\ Divided(offs) => Divided(offs)'
  BY <1>5
<1> HIDE DEF piece, next
<1> QED  BY <1>1, <1>6, <1>7, CutInv

LEMMA ReadPieceInv ==
  ASSUME TInv, ReadPiece, UNCHANGED <<disk, writerVars>>
  PROVE  TInv'
<1> DEFINE piece == SubSeq(Held, at + 1, PieceEnd)
           next == IF PieceEnd = Complete THEN Len(Held) ELSE PieceEnd
<1>1. /\ source # None /\ at < Len(Held) /\ at + 1 <= Complete /\ Cut(piece, next)
  BY DEF ReadPiece, HasNext
<1>2. /\ Held \in Seq(Lines) /\ Len(Held) \in Nat /\ at \in Nat /\ Complete \in Nat
      /\ Complete <= Len(Held) /\ Complete = CompleteOf(disk[source])
      /\ Ended => Complete = Len(Held)
  BY <1>1, HeldFacts
<1>3. /\ PieceEnd \in Nat /\ at + 1 <= PieceEnd /\ PieceEnd <= Complete
      /\ piece \in Seq(Lines) /\ Len(piece) = PieceEnd - at
      /\ \A k \in 1..(PieceEnd - at) : piece[k] = Held[at + k]
      /\ \A n \in at + 2..PieceEnd : Held[n] # delimiter
      /\ PieceEnd # Complete => PieceEnd + 1 <= Complete /\ Held[PieceEnd + 1] = delimiter
  BY <1>1, PieceFacts
<1> HIDE DEF piece
<1>4. next \in Nat /\ next <= Len(Held)
  BY <1>2, <1>3
<1>5. at' = next /\ pieces' = Append(pieces, piece) /\ UNCHANGED source
  BY <1>1 DEF Cut
<1>6. ASSUME NEW offs \in Marks, source = target, target # None, Delimited,
             Laid(offs), Divided(offs)
      PROVE  Divided(offs)'
  <2> DEFINE P == Len(pieces)
             m == begun[P + 1]
             e == offs[P + 2]
  <2>1. /\ P \in Nat /\ P + 1 \in 1..Len(begun) /\ at = offs[P + 1]
        /\ \A n \in 1..P : pieces[n] = begun[n]
    BY <1>1, <1>6, BeforeMessage
  <2>2. Tiles(offs, begun) /\ Lies(disk[target], offs, begun)
    BY <1>6 DEF Laid
  <2>3. /\ Len(m) \in Nat \ {0} /\ m \in Seq(Lines)
        /\ \A k \in 2..Len(m) : m[k] # begun[1][1]
        /\ e \in Nat /\ e = at + Len(m) /\ e <= offs[Len(begun) + 1]
    <3>1. P + 1 + 1 = P + 2 /\ P + 2 \in Nat
      BY <2>1
    <3> QED  BY <1>6, <2>1, <2>2, <3>1, DelimitedFacts, MarkFacts
  <2>4. delimiter = begun[1][1]
    <3>1. 1 <= Complete
      BY <1>1, <1>2
    <3> QED  BY <1>1, <1>6, <3>1, DelimiterFound
  <2>5. ASSUME NEW k \in 1..Len(m), at + k <= Complete  PROVE Held[at + k] = m[k]
    BY <1>2, <1>6, <2>1, <2>2, <2>5 DEF Lies, Held
  <2>6. Len(begun) \in Nat /\ offs[Len(begun) + 1] \in Nat
        /\ Len(Held) <= offs[Len(begun) + 1]
    <3>1. Len(begun) \in Nat
      BY MessageFacts DEF TInv, TxthTypeOK
    <3> QED  BY <1>6, <2>2, <3>1, MarkFacts DEF Lies, Held
  <2>7. /\ Len(pieces') = P + 1 /\ pieces'[P + 1] = piece
        /\ \A n \in 1..P : pieces'[n] = pieces[n]
    BY <1>3, <1>5, AppendFacts DEF TInv, TxthTypeOK
  <2>8. UNCHANGED <<disk, begun, damage>>
    BY FileKept
  <2> HIDE DEF P, m, e
  <2>9. ASSUME PieceEnd = e  PROVE piece = m
    <3>1. Len(piece) = Len(m)
      BY <1>2, <1>3, <2>3, <2>9
    <3>2. ASSUME NEW k \in 1..Len(m)  PROVE piece[k] = m[k]
      <4>1. k \in 1..(PieceEnd - at) /\ at + k <= Complete
        BY <1>2, <1>3, <2>3, <2>9
      <4> QED  BY <1>3, <2>5, <4>1
    <3> QED  BY <1>3, <2>3, <3>1, <3>2, SeqEqual
  <2>10. ASSUME piece = m, at' = e  PROVE Divided(offs)'
    <3>1. P + 1 + 1 = P + 2 /\ P + 1 <= Len(begun)
      BY <2>1, <2>6
    <3>2. \A n \in 1..(P + 1) : pieces'[n] = begun[n]
      BY <2>1, <2>7, <2>10 DEF m
    <3> QED  BY <2>7, <2>8, <2>10, <3>1, <3>2 DEF Divided, e
  <2>11. CASE e < Complete
    <3>1. P + 1 # Len(begun)
      BY <1>2, <2>1, <2>3, <2>6, <2>11 DEF e
    <3>2. P + 2 \in 1..Len(begun)
      BY <2>1, <2>6, <3>1
    <3>3. begun[P + 2][1] = begun[1][1] /\ Len(begun[P + 2]) \in Nat \ {0}
      BY <1>6, <2>2, <3>2, DelimitedFacts
    <3>4. Held[e + 1] = delimiter
      <4>1. 1 \in 1..Len(begun[P + 2]) /\ e + 1 <= CompleteOf(disk[target])
        BY <1>2, <1>6, <2>3, <2>11, <3>3
      <4>2. disk[target].lines[offs[P + 2] + 1] = begun[P + 2][1]
        BY <2>2, <3>2, <4>1 DEF Lies, e
      <4> QED  BY <1>6, <2>4, <3>3, <4>2 DEF Held, e
    <3>5. PieceEnd <= e
      <4> SUFFICES ASSUME PieceEnd > e  PROVE FALSE
        BY <1>3, <2>3
      <4>1. e + 1 \in at + 2..PieceEnd
        BY <1>2, <1>3, <2>3
      <4> QED  BY <1>3, <3>4, <4>1
    <3>6. PieceEnd >= e
      <4> SUFFICES ASSUME PieceEnd < e  PROVE FALSE
        BY <1>3, <2>3
      <4>1. PieceEnd # Complete
        BY <1>2, <1>3, <2>3, <2>11
      <4> DEFINE k == PieceEnd + 1 - at
      <4>2. k \in 2..Len(m) /\ at + k = PieceEnd + 1 /\ k \in 1..Len(m)
        BY <1>2, <1>3, <2>3
      <4>3. PieceEnd + 1 <= Complete /\ Held[PieceEnd + 1] = delimiter
        BY <1>3, <4>1
      <4> HIDE DEF k
      <4>4. Held[PieceEnd + 1] = m[k]
        BY <2>5, <4>2, <4>3
      <4> QED  BY <2>3, <2>4, <4>2, <4>3, <4>4
    <3>7. PieceEnd = e
      BY <1>3, <2>3, <3>5, <3>6
    <3>8. at' = e
      BY <1>2, <1>5, <2>11, <3>7
    <3> QED  BY <2>9, <2>10, <3>7, <3>8
  <2>12. CASE ~(e < Complete)
    <3>1. PieceEnd = Complete
      <4> SUFFICES ASSUME PieceEnd # Complete  PROVE FALSE
        OBVIOUS
      <4>1. PieceEnd + 1 <= Complete /\ Held[PieceEnd + 1] = delimiter
        BY <1>3
      <4> DEFINE k == PieceEnd + 1 - at
      <4>2. k \in 2..Len(m) /\ at + k = PieceEnd + 1 /\ k \in 1..Len(m)
        BY <1>2, <1>3, <2>3, <2>12, <4>1
      <4> HIDE DEF k
      <4>3. Held[PieceEnd + 1] = m[k]
        BY <2>5, <4>1, <4>2
      <4> QED  BY <2>3, <2>4, <4>1, <4>2, <4>3
    <3>2. at' = Len(Held)
      BY <1>5, <3>1
    <3>3. CASE damage
      <4>1. \A n \in 1..(P + 1) - 1 : pieces'[n] = begun[n]
        BY <2>1, <2>7
      <4>2. Held' = Held /\ damage'
        BY <1>5, <2>8, <3>3 DEF Held
      <4> QED  BY <2>1, <2>6, <2>7, <2>8, <3>2, <4>1, <4>2 DEF Divided
    <3>4. CASE ~damage
      <4>1. Ended /\ Len(Held) = offs[Len(begun) + 1]
        BY <1>6, <3>4 DEF Laid, Ended, Held
      <4>2. PieceEnd = e /\ at' = e
        BY <1>2, <1>3, <2>3, <2>6, <2>12, <3>1, <3>2, <4>1
      <4> QED  BY <2>9, <2>10, <4>2
    <3> QED  BY <3>3, <3>4
  <2> QED  BY <2>11, <2>12
<1> HIDE DEF next
<1> QED  BY <1>1, <1>3, <1>4, <1>6, CutInv

(* The position goes back to the beginning only in a text that starts with *)
(* an empty line, which no written message does.                           *)
LEMMA ReadBlankInv ==
  ASSUME TInv, ReadBlank, UNCHANGED <<disk, writerVars>>
  PROVE  TInv'
<1>1. /\ source # None /\ at + 1 <= Complete /\ delimiter = Blank /\ at' = 0
      /\ ret' = "nullopt" /\ UNCHANGED <<source, delimiter, message_type, parser, pieces>>
  BY DEF ReadBlank, HasNext
<1>2. /\ Using' /\ Delimited' = Delimited /\ \A offs : Laid(offs) => Laid(offs)'
      /\ UNCHANGED <<disk, out, good, answer, target, accepted, begun, damage>>
  BY FileKept
<1>3. at \in Nat /\ Complete \in Int /\ Len(Held) \in Nat /\ 1 <= Complete
  <2>1. at \in Nat /\ Complete \in Int /\ Len(Held) \in Nat
    BY <1>1, HeldFacts
  <2> QED  BY <1>1, <2>1
<1>4. TxthTypeOK' /\ AtLine'
  BY <1>1, <1>2, <1>3 DEF TInv, TxthTypeOK, AtLine, Held, FirstLine
<1>5. ASSUME NEW offs \in Marks, Laid(offs)  PROVE ~(source = target /\ Delimited)
  BY <1>1, <1>3, <1>5, DelimiterFound
<1>6. ASSUME target' # None
      PROVE  \E offs \in Marks : Laid(offs)' /\ (source' # None => Reads(offs)')
  <2>1. PICK offs \in Marks : Laid(offs)
    BY <1>2, <1>6 DEF TInv
  <2>2. Reads(offs)'
    BY <1>1, <1>2, <1>5, <2>1 DEF Reads
  <2> QED  BY <1>2, <2>1, <2>2
<1> QED  BY <1>2, <1>4, <1>6 DEF TInv

LEMMA ReadingInv == ASSUME TInv, Reading PROVE TInv'
<1>1. UNCHANGED <<disk, writerVars>>
  BY DEF Reading
<1>2. ASSUME NEW p \in Paths, NEW t \in MessageTypes \union {Unknown, None}, Open(p, t)
      PROVE  TInv'
  BY <1>1, <1>2, OpenInv
<1>3. CASE Close
  BY <1>1, <1>3, CloseInv
<1>4. CASE ReadMessage
  BY <1>1, <1>4, ReadNothingInv, ReadUnendedInv, ReadBlankInv, ReadPieceInv DEF ReadMessage
<1> QED  BY <1>2, <1>3, <1>4 DEF Reading

-----------------------------------------------------------------------------
(* The theorems                                                            *)

LEMMA FileInitInv == ASSUME FileInit PROVE TInv
<1>1. /\ disk \in Disks /\ source = None /\ at = 0 /\ delimiter = Blank
      /\ message_type = Unknown /\ parser = None /\ ret = "none" /\ pieces = <<>>
      /\ out = None /\ good = TRUE /\ answer = "none" /\ target = None
      /\ accepted = <<>> /\ begun = <<>> /\ damage = FALSE
  BY DEF FileInit, ReaderInit, WriterInit
<1>2. disk \in [Paths -> Texts \union {None}]
  BY <1>1, TextsAssumption
<1>3. TxthTypeOK
  BY <1>1, <1>2, NoMessages, LinesAssumption DEF TxthTypeOK
<1>4. Using
  BY <1>1, NoMessages DEF Using, Refused, NoBlanks
<1> QED  BY <1>1, <1>3, <1>4 DEF TInv, AtLine

LEMMA IdleInv == ASSUME TInv, UNCHANGED allVars PROVE TInv'
<1>1. UNCHANGED <<disk, source, at, delimiter, message_type, parser, ret, pieces, out, good,
                  answer, target, accepted, begun, damage>>
  BY DEF allVars, readerVars, writerVars
<1>2. TxthTypeOK' /\ Using' /\ AtLine'
  BY <1>1 DEF TInv, TxthTypeOK, Using, Refused, NoBlanks, AtLine, Held, FirstLine
<1>3. \A offs : /\ Laid(offs)' = Laid(offs)
                /\ Reads(offs)' = Reads(offs)
  BY <1>1 DEF Laid, Tiles, Lies, CompleteOf, Reads, Delimited, Divided, Held
<1> QED  BY <1>1, <1>2, <1>3 DEF TInv

LEMMA Inductive == FileSpec => []TInv
<1>1. FileInit => TInv
  BY FileInitInv
<1>2. TInv /\ [FileNext]_allVars => TInv'
  BY WritingInv, ReadingInv, IdleInv DEF FileNext
<1> QED  BY <1>1, <1>2, PTL DEF FileSpec

(* All that the writer and the reader keep, and the text that is on the    *)
(* disk at any time, is of its type, through failures of the stream, files *)
(* that are cut short and a reader that is opened and closed at will.      *)
THEOREM TxthTyped == FileSpec => []TxthTypeOK
<1>1. TInv => TxthTypeOK
  BY DEF TInv
<1> QED  BY <1>1, Inductive, PTL

LEMMA AllRead ==
  ASSUME TInv, source # None, source = target, Delimited, ~damage, ret = "nullopt",
         NEW offs \in Marks, Laid(offs), Divided(offs), at = Len(Held)
  PROVE  Len(pieces) = Len(begun)
<1>1. /\ Len(pieces) \in Nat /\ Len(begun) \in Nat
      /\ Len(pieces) <= Len(begun) /\ at = offs[Len(pieces) + 1]
  BY MessageFacts DEF TInv, TxthTypeOK, Divided
<1>2. at = offs[Len(begun) + 1]
  BY DEF Laid, Held
<1>3. ASSUME Len(pieces) # Len(begun)  PROVE FALSE
  <2> DEFINE n == Len(pieces) + 1
  <2>1. n \in 1..Len(begun)
    BY <1>1, <1>3
  <2>2. Tiles(offs, begun) /\ Lies(disk[target], offs, begun)
    BY DEF Laid
  <2>3. /\ Len(begun[n]) \in Nat \ {0} /\ offs[n] \in Nat
        /\ offs[n + 1] = offs[n] + Len(begun[n])
        /\ offs[n + 1] <= offs[Len(begun) + 1]
    BY <2>1, <2>2, DelimitedFacts
  <2>4. offs[n + 1] \in Nat /\ at = offs[n] /\ offs[Len(begun) + 1] \in Nat
    BY <1>1, MarkFacts
  <2> HIDE DEF n
  <2> QED  BY <1>2, <2>3, <2>4
<1> QED  BY <1>3

LEMMA BackAsWritten == ASSUME TInv PROVE ReadsBackDelimited
<1> SUFFICES ASSUME source # None, source = target, Delimited
             PROVE  /\ \A n \in 1..Len(pieces) - 1 :
                          n \in DOMAIN accepted /\ pieces[n] = accepted[n]
                    /\ ~damage => /\ IsPrefix(pieces, accepted)
                                  /\ ret = "nullopt" => pieces = accepted
  BY DEF ReadsBackDelimited
<1>1. /\ pieces \in Seq(Seq(Lines)) /\ accepted \in Seq(Seq(Lines)) /\ begun \in Seq(Seq(Lines))
  BY DEF TInv, TxthTypeOK
<1>2. /\ Len(pieces) \in Nat /\ Len(begun) \in Nat /\ Len(accepted) \in Nat
      /\ DOMAIN accepted = 1..Len(accepted)
  BY <1>1, MessageFacts
<1>3. PICK offs \in Marks : Laid(offs) /\ Reads(offs)
  BY DEF TInv
<1>4. Divided(offs) /\ (ret = "nullopt" => at = Len(Held))
  BY <1>3 DEF Reads
<1>5. /\ Len(begun) <= Len(accepted) + 1
      /\ \A n \in 1..Len(accepted) : begun[n] = accepted[n]
  BY DEF TInv, Using, Refused
<1>6. ASSUME NEW n \in 1..Len(pieces) - 1
      PROVE  n \in DOMAIN accepted /\ pieces[n] = accepted[n]
  <2>1. Len(pieces) <= Len(begun) /\ pieces[n] = begun[n]
    BY <1>2, <1>4, <1>6 DEF Divided
  <2>2. n \in 1..Len(accepted)
    BY <1>2, <1>5, <2>1
  <2> QED  BY <1>2, <1>5, <2>1, <2>2
<1>7. ASSUME ~damage
      PROVE  IsPrefix(pieces, accepted) /\ (ret = "nullopt" => pieces = accepted)
  <2>1. begun = accepted
    BY <1>3, <1>7 DEF Laid
  <2>2. /\ Len(pieces) <= Len(accepted)
        /\ \A n \in 1..Len(pieces) : pieces[n] = accepted[n]
    BY <1>4, <1>7, <2>1 DEF Divided
  <2>3. IsPrefix(pieces, accepted)
    <3> DEFINE head == SubSeq(accepted, 1, Len(pieces))
    <3>1. /\ head \in Seq(Seq(Lines)) /\ Len(head) = Len(pieces)
          /\ \A n \in 1..Len(pieces) : head[n] = accepted[n]
      BY <1>1, <1>2, <2>2, HeadFacts
    <3> HIDE DEF head
    <3>2. pieces = head
      BY <1>1, <1>2, <2>2, <3>1, SeqEqual
    <3> QED  BY <2>2, <3>2 DEF IsPrefix, head
  <2>4. ASSUME ret = "nullopt"  PROVE pieces = accepted
    <3>1. Len(pieces) = Len(accepted)
      BY <1>3, <1>4, <1>7, <2>1, <2>4, AllRead
    <3> QED  BY <1>1, <1>2, <2>2, <3>1, SeqEqual
  <2> QED  BY <2>3, <2>4
<1> QED  BY <1>6, <1>7

(* Messages that start with the same line, which is nowhere else in them,  *)
(* are cut off the text as they were written and in their order, however   *)
(* many and however long; of a text whose end is missing only the last     *)
(* piece may differ, and of a whole one the reader stops behind the last.  *)
THEOREM DelimitedReadBack == FileSpec => []ReadsBackDelimited
<1>1. TInv => ReadsBackDelimited
  BY BackAsWritten
<1> QED  BY <1>1, Inductive, PTL

-----------------------------------------------------------------------------
(* Where the lines go, of any text                                         *)

(* A text that starts with an empty line is not divided at all, but for a  *)
(* last line without an end that is all there is of it.                    *)
Undivided == source # None /\ delimiter = Blank /\ at # Len(Held) => at = 0 /\ pieces = <<>>

(* The inductive invariant of LinesInPlace.                                *)
LInv == TInv /\ LinesInPlace /\ Undivided

LEMMA Nothing == ASSUME NEW s \in Seq(Lines) PROVE FlattenSeq(<<>>) = SubSeq(s, 1, 0)
<1>1. FlattenSeq(<<>>) = <<>>
  BY NoMessages DEF FlattenSeq
<1>2. SubSeq(s, 1, 0) = <<>>
  BY SubSeqEmpty
<1> QED  BY <1>1, <1>2

LEMMA Cutting ==
  ASSUME TInv, source # None, NEW piece \in Seq(Lines), NEW next \in Nat, Cut(piece, next),
         UNCHANGED disk, at < Len(Held), LinesInPlace
  PROVE  /\ Held' = Held /\ Ended' = Ended /\ at' = next /\ source' = source
         /\ delimiter' = delimiter
         /\ Read' = SubSeq(Held, 1, at) \o piece
<1>1. /\ at' = next /\ pieces' = Append(pieces, piece) /\ UNCHANGED <<source, delimiter>>
  BY DEF Cut
<1>2. pieces \in Seq(Seq(Lines))
  BY DEF TInv, TxthTypeOK
<1>3. Read' = Read \o piece
  BY <1>1, <1>2, FlattenAppend DEF Read
<1>4. Read = SubSeq(Held, 1, at)
  <2>1. at \in Nat /\ Len(Held) \in Nat
    BY HeldFacts
  <2> QED  BY <2>1 DEF LinesInPlace
<1> QED  BY <1>1, <1>3, <1>4 DEF Held, Ended

LEMMA UnendedPlaced ==
  ASSUME LInv, ReadUnended, UNCHANGED <<disk, writerVars>>
  PROVE  LinesInPlace' /\ Undivided'
<1> DEFINE n == Len(Held)
<1>1. TInv /\ LinesInPlace /\ source # None /\ at < n /\ at + 1 > Complete
      /\ Cut(<<Held[at + 1]>>, n)
  BY DEF LInv, ReadUnended, HasNext
<1>2. /\ Held \in Seq(Lines) /\ n \in Nat /\ at \in Nat /\ Complete \in Int /\ n <= Complete + 1
  BY <1>1, HeldFacts
<1>3. at + 1 = n /\ at + 1 \in 1..n
  BY <1>1, <1>2
<1>4. <<Held[at + 1]>> \in Seq(Lines)
  <2>1. Held[at + 1] \in Lines
    BY <1>2, <1>3
  <2> QED  BY <2>1
<1>5. /\ Held' = Held /\ at' = n /\ Read' = SubSeq(Held, 1, at) \o <<Held[at + 1]>>
  BY <1>1, <1>2, <1>4, Cutting
<1>6. SubSeq(Held, 1, n) = SubSeq(Held, 1, at) \o <<Held[at + 1]>>
  <2>1. 1 \in 1..(n + 1) /\ n \in 1..n /\ n - 1 = at
    BY <1>2, <1>3
  <2>2. SubSeq(Held, 1, n) = SubSeq(Held, 1, n - 1) \o <<Held[n]>>
    BY <1>2, <1>3, SubSeqRecursiveSecond
  <2> QED  BY <1>3, <2>1, <2>2
<1>7. LinesInPlace'
  BY <1>5, <1>6 DEF LinesInPlace
<1> QED  BY <1>5, <1>7 DEF Undivided

LEMMA PiecePlaced ==
  ASSUME LInv, ReadPiece, UNCHANGED <<disk, writerVars>>
  PROVE  LinesInPlace' /\ Undivided'
<1> DEFINE n == Len(Held)
           piece == SubSeq(Held, at + 1, PieceEnd)
           next == IF PieceEnd = Complete THEN n ELSE PieceEnd
<1>1. TInv /\ LinesInPlace /\ source # None /\ at < n /\ at + 1 <= Complete
      /\ delimiter # Blank /\ Cut(piece, next)
  BY DEF LInv, ReadPiece, HasNext
<1>2. /\ Held \in Seq(Lines) /\ n \in Nat /\ at \in Nat /\ Complete \in Int
      /\ Complete <= n /\ n <= Complete + 1
      /\ Complete = IF Ended THEN n ELSE n - 1
  BY <1>1, HeldFacts DEF Complete
<1>3. /\ PieceEnd \in Nat /\ at + 1 <= PieceEnd /\ PieceEnd <= Complete
      /\ piece \in Seq(Lines)
  BY <1>1, PieceFacts
<1>4. next \in Nat
  BY <1>2, <1>3
<1>5. SubSeq(Held, 1, at) \o piece = SubSeq(Held, 1, PieceEnd)
  <2> DEFINE e == PieceEnd
  <2>1. /\ e \in Nat /\ at \in 0..e /\ e <= n /\ at + 1 \in Nat
    BY <1>2, <1>3
  <2> HIDE DEF e
  <2>2. SubSeq(Held, 1, at) \o SubSeq(Held, at + 1, e) = SubSeq(Held, 1, e)
    BY <1>2, <2>1, ConcatAdjacentSubSeq
  <2> QED  BY <2>2 DEF e
<1> HIDE DEF piece
<1>6. /\ Held' = Held /\ Ended' = Ended /\ at' = next /\ delimiter' = delimiter
      /\ Read' = SubSeq(Held, 1, PieceEnd)
  BY <1>1, <1>3, <1>4, <1>5, Cutting
<1>7. LinesInPlace'
  <2>1. CASE PieceEnd # Complete \/ Ended
    <3>1. at' = PieceEnd
      BY <1>2, <1>6, <2>1
    <3> QED  BY <1>6, <3>1 DEF LinesInPlace
  <2>2. CASE PieceEnd = Complete /\ ~Ended
    <3>1. at' = n /\ PieceEnd = n - 1
      BY <1>2, <1>6, <2>2
    <3> QED  BY <1>6, <2>2, <3>1 DEF LinesInPlace, Front
  <2> QED  BY <2>1, <2>2
<1> QED  BY <1>1, <1>6, <1>7 DEF Undivided

LEMMA ReadingPlaced ==
  ASSUME LInv, Reading
  PROVE  LinesInPlace' /\ Undivided'
<1>0. LinesInPlace /\ Undivided /\ TInv /\ UNCHANGED <<disk, writerVars>>
  BY DEF LInv, Reading
<1>1. CASE UNCHANGED <<source, at, delimiter, pieces>>
  BY <1>0, <1>1 DEF LinesInPlace, Undivided, Read, Held, Ended
<1>2. ASSUME NEW p \in Paths, NEW t \in MessageTypes \union {Unknown, None}, Open(p, t)
      PROVE  LinesInPlace' /\ Undivided'
  <2>1. CASE Opens(p, t)
    <3>1. /\ source' = p /\ at' = 0 /\ pieces' = <<>> /\ disk[p] # None
      BY <2>1 DEF Opens, Openable
    <3>2. disk[p] \in Texts
      BY <1>0, <3>1 DEF TInv, TxthTypeOK
    <3>3. Held' \in Seq(Lines) /\ Held' = disk[p].lines
      BY <1>0, <3>1, <3>2, TextFacts DEF Held
    <3>4. Read' = SubSeq(Held', 1, at')
      BY <3>1, <3>3, Nothing DEF Read
    <3> QED  BY <3>1, <3>4 DEF LinesInPlace, Undivided
  <2>2. CASE OpenRefused(p, t) \/ OpenUntyped(p, t) \/ OpenFails(p, t)
    BY <1>1, <2>2 DEF OpenRefused, OpenUntyped, OpenFails, Refuse
  <2> QED  BY <1>2, <2>1, <2>2 DEF Open
<1>3. CASE Close
  BY <1>3 DEF Close, LinesInPlace, Undivided
<1>4. CASE ReadNothing
  BY <1>1, <1>4 DEF ReadNothing
<1>5. CASE ReadBlank
  <2>1. /\ source # None /\ at < Len(Held) /\ delimiter = Blank /\ at' = 0
        /\ UNCHANGED <<source, delimiter, pieces>>
    BY <1>5 DEF ReadBlank, HasNext
  <2>2. at \in Nat /\ Len(Held) \in Nat
    BY <1>0, <2>1, HeldFacts
  <2>3. at = 0
    BY <1>0, <2>1, <2>2 DEF Undivided
  <2> QED  BY <1>1, <2>1, <2>3
<1> QED  BY <1>0, <1>2, <1>3, <1>4, <1>5, UnendedPlaced, PiecePlaced DEF Reading, ReadMessage

(* C++ text reader, ReadMessage(): whatever the text is, what is cut off   *)
(* it is its beginning, every line once and in place; only a last line     *)
(* without a newline may be left out.                                      *)
THEOREM CutInPlace == FileSpec => []LinesInPlace
<1>1. FileInit => LInv
  BY FileInitInv DEF FileInit, ReaderInit, LInv, LinesInPlace, Undivided
<1>2. LInv /\ [FileNext]_allVars => LInv'
  <2> SUFFICES ASSUME LInv, [FileNext]_allVars  PROVE LInv'
    OBVIOUS
  <2>1. TInv'
    BY WritingInv, ReadingInv, IdleInv DEF LInv, FileNext
  <2>2. CASE Writing
    <3>1. source' = None
      BY <2>2 DEF Writing, Fresh, readerVars
    <3> QED  BY <2>1, <3>1 DEF LInv, LinesInPlace, Undivided
  <2>3. CASE Reading
    BY <2>1, <2>3, ReadingPlaced DEF LInv
  <2>4. CASE UNCHANGED allVars
    <3>1. UNCHANGED <<disk, source, at, delimiter, pieces>>
      BY <2>4 DEF allVars, readerVars
    <3> QED  BY <2>1, <3>1 DEF LInv, LinesInPlace, Undivided, Read, Held, Ended
  <2> QED  BY <2>2, <2>3, <2>4 DEF FileNext
<1>3. LInv => LinesInPlace
  BY DEF LInv
<1> QED  BY <1>1, <1>2, <1>3, PTL DEF FileSpec

=============================================================================
