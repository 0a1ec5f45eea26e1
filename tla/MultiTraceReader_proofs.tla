---------------------- MODULE MultiTraceReader_proofs ----------------------
(***************************************************************************)
(* Theorems about MultiTraceReader, for any paths, files, topics and       *)
(* message types: the type invariant, the safety invariants, and that the  *)
(* reader implements TraceReader.  The last part shows that it delivers in *)
(* order and loses nothing, however reads, peeks and changes of the        *)
(* settings alternate.                                                     *)
(***************************************************************************)
EXTENDS MultiTraceReader, SequenceTheorems, TLAPS

-----------------------------------------------------------------------------
(* The contents of a file.                                                 *)

LEMMA MessageTyped ==
    ASSUME NEW p \in Paths, NEW i \in DOMAIN FileAt[p].messages
    PROVE  /\ i \in Nat
           /\ Message(p, i) \in Records
           /\ Message(p, i).channel \in ChannelIds
           /\ ChannelOf(p, i) \in Channels
           /\ ChannelOf(p, i) = FileAt[p].channels[Message(p, i).channel]
<1>1. FileAt[p] \in Files
  BY FilesAssumption
<1>2. FileAt[p].messages \in Seq(Records)
  BY <1>1 DEF Files
<1>3. i \in 1..Len(FileAt[p].messages)
  BY <1>2
<1>4. Message(p, i) \in Records
  BY <1>2, <1>3, ElementOfSeq DEF Message
<1>5. Message(p, i).channel \in ChannelIds
  BY <1>4 DEF Records
<1>6. FileAt[p].channels[Message(p, i).channel] \in Channels
  <2>1. FileAt[p].channels \in [ChannelIds -> Channels \union {None}]
    BY <1>1 DEF Files
  <2>2. FileAt[p].channels[Message(p, i).channel] # None
    BY FilesAssumption DEF Message
  <2> QED BY <2>1, <2>2, <1>5
<1> QED BY <1>3, <1>4, <1>5, <1>6 DEF ChannelOf

LEMMA SelectedInFile ==
    ASSUME NEW p \in Paths, NEW ts
    PROVE  Selected(p, ts) \subseteq DOMAIN FileAt[p].messages /\ Selected(p, ts) \in SUBSET Nat
BY MessageTyped DEF Selected

(* The type a decodable message has is a message type.                     *)
LEMMA CompatibleTyped ==
    ASSUME NEW p \in Paths, NEW i \in DOMAIN FileAt[p].messages, ~Mismatch(p, i)
    PROVE  /\ ChannelOf(p, i).schema # None
           /\ SchemaType(p, i) \in MessageTypes
<1>1. ChannelOf(p, i) \in Channels
  BY MessageTyped
<1>2. ChannelOf(p, i).schema # None /\ ChannelOf(p, i).schema.type # Unknown
  BY DEF Mismatch
<1>3. ChannelOf(p, i).schema \in Schemas
  BY <1>1, <1>2 DEF Channels
<1> QED BY <1>2, <1>3 DEF Schemas, SchemaType

-----------------------------------------------------------------------------
(* The inductive invariant.                                                *)

(* The iterator of an open reader runs over its file.                      *)
IteratorInFile ==
    Readable /\ iterator # None => iterator \subseteq DOMAIN FileAt[file].messages

(* s is the schema of channel c in file p.                                 *)
IsSchemaOf(s, p, c) ==
    FileAt[p].channels[c] # None /\ s = FileAt[p].channels[c].schema /\ s # None

(* What is cached for a channel id is the type of that channel of the file *)
(* that is open, or the type the factory has for its schema id.            *)
CachesTrue ==
    Readable =>
        \A c \in ChannelIds :
            /\ classes[c] # None => \E s \in SchemasIn(file) : IsSchemaOf(s, file, c) /\ classes[c] = s.type
            /\ decoders[c] # None => \E s \in SchemasIn(file) : IsSchemaOf(s, file, c) /\ decoders[c] = types[s.id]

(* What the factory has for a schema id is the type of a schema of that id *)
(* in some file.                                                           *)
FactoryTrue ==
    \A id \in SchemaIds :
        types[id] # None => \E p \in Paths : \E s \in SchemasIn(p) : s.id = id /\ s.type = types[id]

(* What is peeked is a result, not an end or an exception.                 *)
Results == {"OK", "INCOMPATIBLE", "ERROR"}
PeekIsResult == peeked # None => peeked.status \in Results

IInv == /\ TypeOK /\ BoundToOpenFile /\ DecodedBySchema
        /\ IteratorInFile /\ CachesTrue /\ FactoryTrue /\ PeekIsResult

-----------------------------------------------------------------------------
(* One message under the invariant.                                        *)

LEMMA SchemaTyped ==
    ASSUME NEW p \in Paths, NEW s \in SchemasIn(p)
    PROVE  s \in Schemas /\ s.type # None /\ s.id \in SchemaIds
<1>1. FileAt[p].channels \in [ChannelIds -> Channels \union {None}]
  BY FilesAssumption DEF Files
<1>2. PICK c \in ChannelIds : FileAt[p].channels[c] # None /\ s = FileAt[p].channels[c].schema /\ s # None
  BY DEF SchemasIn
<1>3. FileAt[p].channels[c] \in Channels
  BY <1>1, <1>2
<1>4. s \in Schemas
  BY <1>2, <1>3 DEF Channels
<1> QED BY <1>4, NamesAssumption DEF Schemas

(* The schema of a decodable message is one of its file.                   *)
LEMMA OwnSchema ==
    ASSUME NEW p \in Paths, NEW i \in DOMAIN FileAt[p].messages, ~Mismatch(p, i)
    PROVE  \E s \in SchemasIn(p) : /\ IsSchemaOf(s, p, Message(p, i).channel)
                                   /\ SchemaType(p, i) = s.type /\ SchemaId(p, i) = s.id
<1>. DEFINE s == ChannelOf(p, i).schema
<1>1. Message(p, i).channel \in ChannelIds /\ ChannelOf(p, i) = FileAt[p].channels[Message(p, i).channel]
  BY MessageTyped
<1>2. ChannelOf(p, i) # None
  BY <1>1, FilesAssumption DEF Message
<1>3. s # None
  BY DEF Mismatch
<1>4. s \in SchemasIn(p) /\ IsSchemaOf(s, p, Message(p, i).channel)
  BY <1>1, <1>2, <1>3 DEF SchemasIn, IsSchemaOf
<1> QED BY <1>4 DEF SchemaType, SchemaId

(* A precompiled class is that of the message's own schema; a decoder of   *)
(* the factory is that of the first schema met of the same id.             *)
LEMMA ClassSound ==
    ASSUME IInv, Readable, NEW i \in DOMAIN FileAt[file].messages, ~Mismatch(file, i)
    PROVE  /\ ClassUsed(file, i) \in MessageTypes /\ FactoryClass(file, i) \in MessageTypes
           /\ mode = "precompiled" => ClassUsed(file, i) = SchemaType(file, i)
           /\ mode = "mcap-contained" => ClassUsed(file, i) = FactoryClass(file, i)
           /\ decoders[Message(file, i).channel] # None =>
                  types[SchemaId(file, i)] = FactoryClass(file, i)
           /\ FactoryClass(file, i) # SchemaType(file, i) =>
                  SchemaElsewhere(file, SchemaId(file, i), FactoryClass(file, i))
<1>. DEFINE c == Message(file, i).channel
            id == SchemaId(file, i)
<1>1. file \in Paths
  BY DEF IInv, TypeOK, Readable
<1>2. c \in ChannelIds
  BY <1>1, MessageTyped
<1>3. PICK s \in SchemasIn(file) : IsSchemaOf(s, file, c) /\ SchemaType(file, i) = s.type /\ id = s.id
  BY <1>1, OwnSchema
<1>4. s.type \in MessageTypes /\ id \in SchemaIds
  BY <1>1, <1>3, CompatibleTyped, SchemaTyped
<1>5. types \in [SchemaIds -> MessageTypes \union {None}] /\ mode \in Modes
  BY DEF IInv, TypeOK
<1>6. classes[c] # None => classes[c] = s.type
  BY <1>2, <1>3 DEF IInv, CachesTrue, IsSchemaOf
<1>7. decoders[c] # None => decoders[c] = types[id]
  BY <1>2, <1>3 DEF IInv, CachesTrue, IsSchemaOf
<1>8. FactoryClass(file, i) = IF types[id] # None THEN types[id] ELSE s.type
  BY <1>3 DEF FactoryClass, Cached
<1>9. FactoryClass(file, i) \in MessageTypes
  BY <1>4, <1>5, <1>8
<1>10. /\ mode = "precompiled" => ClassUsed(file, i) = s.type
       /\ mode = "mcap-contained" => ClassUsed(file, i) = FactoryClass(file, i)
       /\ decoders[c] # None => types[id] = FactoryClass(file, i)
  BY <1>3, <1>6, <1>7, <1>8 DEF ClassUsed, Cached
<1>11. ASSUME FactoryClass(file, i) # s.type
       PROVE  SchemaElsewhere(file, id, FactoryClass(file, i))
  <2>1. types[id] # None /\ types[id] = FactoryClass(file, i)
    BY <1>8, <1>11
  <2>2. PICK p \in Paths : \E t \in SchemasIn(p) : t.id = id /\ t.type = types[id]
    BY <1>4, <2>1 DEF IInv, FactoryTrue
  <2>3. p # file
    BY <1>1, <1>3, <1>11, <2>1, <2>2, FilesAssumption
  <2> QED BY <2>1, <2>2, <2>3 DEF SchemaElsewhere
<1> QED BY <1>3, <1>4, <1>5, <1>9, <1>10, <1>11 DEF Modes

Decodes(p, i) == ~Broken(p, i) /\ ~Incompatible(p, i) /\ ~Raises(p, i)

(* What read_message answers for a message: typed, about that message, and *)
(* decoded with the class that was chosen if it is OK.                     *)
LEMMA ResultSound ==
    ASSUME IInv, Readable, NEW i \in DOMAIN FileAt[file].messages, NEW res \in ResultsOf(file, i)
    PROVE  /\ res \in Answers
           /\ res.status \in Results \union {"RAISED"}
           /\ res.status = "RAISED" => ~Broken(file, i)
           /\ res.msg = i
           /\ res.status = "OK" => /\ Decodes(file, i)
                                  /\ res.type = SchemaType(file, i)
                                  /\ res.as = ClassUsed(file, i) /\ res.by = mode
<1>1. file \in Paths /\ mode \in Modes
  BY DEF IInv, TypeOK, Readable
<1>2. i \in Nat /\ ChannelOf(file, i) \in Channels
  BY <1>1, MessageTyped
<1>3. NamedType(file, i) \in MessageTypes \union {Unknown}
  BY <1>2 DEF NamedType, Channels, Schemas
<1>4. CASE Broken(file, i) \/ Incompatible(file, i) \/ Raises(file, i)
  <2>1. res \in {Failure("ERROR", i, Unknown), Failure("INCOMPATIBLE", i, NamedType(file, i)),
                 Failure("RAISED", i, None)}
    BY <1>4 DEF ResultsOf
  <2>2. res.status = "RAISED" => ~Broken(file, i)
    BY DEF ResultsOf, Failure
  <2>3. ASSUME NEW s \in {"ERROR", "INCOMPATIBLE", "RAISED"},
               NEW t \in MessageTypes \union {Unknown, None}, res = Failure(s, i, t)
        PROVE  res \in Answers /\ res.status = s /\ res.msg = i
    BY <1>2, <2>3 DEF Failure, Answers, Statuses
  <2>4. PICK s \in {"ERROR", "INCOMPATIBLE", "RAISED"}, t \in MessageTypes \union {Unknown, None} :
            res = Failure(s, i, t)
    BY <1>3, <2>1
  <2> QED BY <2>2, <2>3, <2>4 DEF Results
<1>5. CASE Decodes(file, i)
  <2>1. res \in {Decoded(i, SchemaType(file, i), ClassUsed(file, i)),
                 Failure("ERROR", i, SchemaType(file, i))}
    BY <1>5 DEF ResultsOf, Decodes
  <2>2. SchemaType(file, i) \in MessageTypes /\ ClassUsed(file, i) \in MessageTypes
    BY <1>1, <1>5, CompatibleTyped, ClassSound DEF Decodes, Incompatible
  <2>3. CASE res = Decoded(i, SchemaType(file, i), ClassUsed(file, i))
    BY <1>1, <1>2, <1>5, <2>2, <2>3 DEF Decoded, Answers, Statuses, Results
  <2>4. CASE res = Failure("ERROR", i, SchemaType(file, i))
    BY <1>2, <2>2, <2>4 DEF Failure, Answers, Statuses, Results
  <2> QED BY <2>1, <2>3, <2>4
<1> QED BY <1>4, <1>5 DEF Decodes

(* Remembering its decoder keeps the caches typed and true, and the factory*)
(* never forgets.                                                          *)
LEMMA RememberSound ==
    ASSUME IInv, Readable, reader = file, NEW i \in DOMAIN FileAt[file].messages,
           Remember(i), file' = file
    PROVE  /\ classes' \in [ChannelIds -> MessageTypes \union {None}]
           /\ decoders' \in [ChannelIds -> MessageTypes \union {None}]
           /\ types' \in [SchemaIds -> MessageTypes \union {None}]
           /\ CachesTrue' /\ FactoryTrue'
           /\ \A id \in SchemaIds : types[id] # None => types'[id] = types[id]
           /\ Decodes(file, i) /\ mode = "mcap-contained" =>
                 types'[SchemaId(file, i)] = ClassUsed(file, i)
<1>. DEFINE c == Message(file, i).channel
            id == SchemaId(file, i)
            class == FactoryClass(file, i)
<1>1. file \in Paths /\ Readable'
  BY DEF IInv, TypeOK, Readable
<1>2. /\ classes \in [ChannelIds -> MessageTypes \union {None}]
      /\ decoders \in [ChannelIds -> MessageTypes \union {None}]
      /\ types \in [SchemaIds -> MessageTypes \union {None}]
      /\ CachesTrue /\ FactoryTrue
  BY DEF IInv, TypeOK
<1>3. CASE ~Decodes(file, i)
  <2>1. UNCHANGED caches
    BY <1>3 DEF Remember, Decodes, caches
  <2> QED BY <1>2, <1>3, <2>1 DEF caches, CachesTrue, FactoryTrue, Readable
<1>4. CASE Decodes(file, i)
  <2>1. c \in ChannelIds /\ ~Mismatch(file, i)
    BY <1>1, <1>4, MessageTyped DEF Decodes, Incompatible
  <2>2. PICK s \in SchemasIn(file) : IsSchemaOf(s, file, c) /\ SchemaType(file, i) = s.type /\ id = s.id
    BY <1>1, <2>1, OwnSchema
  <2>3. id \in SchemaIds /\ s.type \in MessageTypes
    BY <1>1, <2>1, <2>2, SchemaTyped, CompatibleTyped
  <2>4. /\ ClassUsed(file, i) \in MessageTypes /\ class \in MessageTypes
        /\ mode = "precompiled" => ClassUsed(file, i) = s.type
        /\ mode = "mcap-contained" => ClassUsed(file, i) = class
        /\ decoders[c] # None => types[id] = class
    BY <2>1, <2>2, ClassSound
  <2>5. /\ classes' = IF mode = "precompiled" THEN [classes EXCEPT ![c] = ClassUsed(file, i)]
                                              ELSE classes
        /\ \/ UNCHANGED <<decoders, types>> /\ (mode # "mcap-contained" \/ decoders[c] # None)
           \/ decoders' = [decoders EXCEPT ![c] = class] /\ types' = [types EXCEPT ![id] = class]
    BY <1>4 DEF Remember, Decodes
  <2>6. /\ classes' \in [ChannelIds -> MessageTypes \union {None}]
        /\ decoders' \in [ChannelIds -> MessageTypes \union {None}]
        /\ types' \in [SchemaIds -> MessageTypes \union {None}]
    BY <1>2, <2>4, <2>5
  <2>7. types[id] # None => types[id] = class
    BY <2>4 DEF FactoryClass, Cached
  <2>8. \A d \in SchemaIds : types[d] # None => types'[d] = types[d]
    BY <1>2, <2>3, <2>5, <2>7
  <2>9. mode = "mcap-contained" => types'[id] = ClassUsed(file, i)
    BY <1>2, <2>3, <2>4, <2>5
  <2>10. ASSUME NEW d \in SchemaIds, types'[d] # None
         PROVE  \E p \in Paths : \E t \in SchemasIn(p) : t.id = d /\ t.type = types'[d]
    <3>1. CASE types[d] # None
      BY <1>2, <2>8, <3>1 DEF FactoryTrue
    <3>2. CASE types[d] = None
      <4>1. d = id /\ types'[d] = class
        BY <1>2, <2>3, <2>5, <2>10, <3>2
      <4>2. class = s.type
        BY <2>2, <3>2, <4>1 DEF FactoryClass, Cached
      <4> QED BY <1>1, <2>2, <4>1, <4>2
    <3> QED BY <3>1, <3>2
  <2>11. ASSUME NEW d \in ChannelIds, classes'[d] # None
         PROVE  \E t \in SchemasIn(file) : IsSchemaOf(t, file, d) /\ classes'[d] = t.type
    <3>1. CASE classes'[d] = classes[d]
      BY <1>2, <2>11, <3>1 DEF CachesTrue
    <3>2. CASE classes'[d] # classes[d]
      <4>1. d = c /\ classes'[d] = s.type
        BY <1>2, <2>1, <2>4, <2>5, <3>2
      <4> QED BY <2>2, <4>1
    <3> QED BY <3>1, <3>2
  <2>12. ASSUME NEW d \in ChannelIds, decoders'[d] # None
         PROVE  \E t \in SchemasIn(file) : IsSchemaOf(t, file, d) /\ decoders'[d] = types'[t.id]
    <3>1. CASE decoders'[d] = decoders[d]
      <4>1. PICK t \in SchemasIn(file) : IsSchemaOf(t, file, d) /\ decoders[d] = types[t.id]
        BY <1>2, <2>12, <3>1 DEF CachesTrue
      <4>2. t.id \in SchemaIds
        BY <1>1, SchemaTyped
      <4> QED BY <2>8, <2>12, <3>1, <4>1, <4>2
    <3>2. CASE decoders'[d] # decoders[d]
      <4>1. d = c /\ decoders'[d] = class /\ types'[id] = class
        BY <1>2, <2>1, <2>3, <2>5, <3>2
      <4> QED BY <2>2, <4>1
    <3> QED BY <3>1, <3>2
  <2>13. CachesTrue'
    BY <2>11, <2>12 DEF CachesTrue, IsSchemaOf
  <2>14. FactoryTrue'
    BY <2>10 DEF FactoryTrue
  <2> QED BY <2>6, <2>8, <2>9, <2>13, <2>14
<1> QED BY <1>3, <1>4

(* What DecodedBySchema asks of one answer.                                *)
Right(r) ==
    r.status = "OK" =>
        /\ Readable
        /\ r.msg \in DOMAIN FileAt[file].messages
        /\ r.type = SchemaType(file, r.msg)
        /\ \/ r.as = r.type
           \/ /\ r.by = "mcap-contained"
              /\ types[SchemaId(file, r.msg)] = r.as
              /\ SchemaElsewhere(file, SchemaId(file, r.msg), r.as)

LEMMA ElsewhereTyped ==
    ASSUME NEW p, NEW id, NEW type, SchemaElsewhere(p, id, type)
    PROVE  id \in SchemaIds /\ type # None
BY SchemaTyped DEF SchemaElsewhere

(* An answer stays right as long as the file stays open.                   *)
LEMMA DecodedKept ==
    ASSUME DecodedBySchema, file' = file,
           \A id \in SchemaIds : types[id] # None => types'[id] = types[id],
           \A r \in {ret', peeked'} \ {None} : r \in {ret, peeked} \/ Right(r)'
    PROVE  DecodedBySchema'
<1>1. ASSUME NEW r \in {ret', peeked'} \ {None}, r \in {ret, peeked}
      PROVE  Right(r)'
  <2>1. Right(r)
    BY <1>1 DEF DecodedBySchema, Right
  <2>2. CASE r.status = "OK" /\ r.as # r.type
    <3>1. types[SchemaId(file, r.msg)] = r.as /\ SchemaElsewhere(file, SchemaId(file, r.msg), r.as)
      BY <2>1, <2>2 DEF Right
    <3>2. types'[SchemaId(file, r.msg)] = r.as
      BY <3>1, ElsewhereTyped
    <3> QED BY <2>1, <3>1, <3>2 DEF Right, Readable
  <2> QED BY <2>1, <2>2 DEF Right, Readable
<1> QED BY <1>1 DEF DecodedBySchema, Right

-----------------------------------------------------------------------------
(* The invariant is inductive: one lemma for the methods that do not fetch *)
(* a message, one for each that does.                                      *)

LEMMA AnswerTyped ==
    ASSUME NEW s \in Statuses PROVE Answer(s) \in Answers /\ Answer(s).status = s
BY DEF Answer, Answers

LEMMA NoneTyped ==
    /\ NoCache \in [ChannelIds -> MessageTypes \union {None}]
    /\ NoTypes \in [SchemaIds -> MessageTypes \union {None}]
    /\ NoExpectations \in [Topics -> MessageTypes \union {None}]
    /\ <<>> \in Seq(Nat)
BY DEF NoCache, NoTypes, NoExpectations

LEMMA InitSound == ASSUME Init PROVE IInv
<1>1. ret \in Answers /\ ret.status # "OK"
  BY AnswerTyped DEF Init, Statuses
<1>2. TypeOK
  BY <1>1, NoneTyped DEF Init, TypeOK
<1>3. FactoryTrue
  BY DEF Init, NoTypes, FactoryTrue
<1> QED
  BY <1>1, <1>2, <1>3 DEF Init, IInv, BoundToOpenFile, DecodedBySchema, IteratorInFile,
     CachesTrue, PeekIsResult, Readable

(* A call that only answers, and not with OK, keeps everything.            *)
LEMMA OnlyAnswers ==
    ASSUME IInv, NEW s \in Statuses \ {"OK"}, ret' = Answer(s),
           UNCHANGED <<handle, settings, caches, cursor, history>>
    PROVE  IInv'
<1>1. ret' \in Answers /\ ret'.status # "OK"
  BY AnswerTyped
<1>2. TypeOK'
  BY <1>1 DEF IInv, TypeOK, handle, settings, caches, cursor, history
<1>3. \A r \in {ret', peeked'} \ {None} : r \in {ret, peeked} \/ Right(r)'
  BY <1>1 DEF cursor, Right
<1>4. DecodedBySchema'
  BY <1>3, DecodedKept DEF IInv, handle, caches
<1> QED
  BY <1>2, <1>4 DEF handle, settings, caches, cursor, history, IInv, BoundToOpenFile,
     IteratorInFile, CachesTrue, FactoryTrue, PeekIsResult, Readable

(* An open() that fails, whether it closes the file again or not.          *)
LEMMA OpenFailsSound ==
    ASSUME IInv, NEW p \in Paths, OpenDamaged(p) \/ OpenRaises(p) PROVE IInv'
<1>1. /\ ~Readable /\ ~Readable' /\ ret' \in Answers /\ ret'.status # "OK"
      /\ file' \in {None, p} /\ path' = p /\ reader' \in {reader, p}
      /\ UNCHANGED <<summary, settings, caches, cursor, history>>
  BY AnswerTyped DEF OpenDamaged, OpenRaises, Readable, Statuses
<1>2. TypeOK'
  BY <1>1 DEF IInv, TypeOK, settings, caches, cursor, history
<1>3. BoundToOpenFile'
  BY <1>1 DEF IInv, BoundToOpenFile, cursor
<1>4. DecodedBySchema'
  BY <1>1, <1>3 DEF DecodedBySchema, BoundToOpenFile
<1> QED
  BY <1>1, <1>2, <1>3, <1>4 DEF caches, cursor, IInv, IteratorInFile, CachesTrue, FactoryTrue,
     PeekIsResult

LEMMA OpenSound == ASSUME IInv, NEW p \in Paths, Open(p) PROVE IInv'
<1>1. CASE OpenAgain(p) \/ OpenMissing(p)
  BY <1>1, OnlyAnswers DEF OpenAgain, OpenMissing, Statuses
<1>2. CASE OpenDamaged(p) \/ OpenRaises(p)
  BY <1>2, OpenFailsSound
<1>3. CASE OpenReadable(p)
  <2>1. p # None /\ file' = p /\ Readable'
    BY <1>3, NamesAssumption DEF OpenReadable, Readable
  <2>2. iterator' \subseteq DOMAIN FileAt[p].messages /\ iterator' \in SUBSET Nat
    BY <1>3, <2>1, SelectedInFile DEF OpenReadable, StartIteration
  <2>3. ret' \in Answers /\ ret'.status # "OK" /\ peeked' = None
    BY <1>3, AnswerTyped DEF OpenReadable, StartIteration, Statuses
  <2>4. TypeOK'
    BY <1>3, <2>2, <2>3, NoneTyped
    DEF OpenReadable, StartIteration, ForgetHistory, settings, IInv, TypeOK
  <2>5. BoundToOpenFile' /\ IteratorInFile'
    BY <1>3, <2>1, <2>2, <2>3 DEF OpenReadable, BoundToOpenFile, IteratorInFile
  <2>6. CachesTrue' /\ FactoryTrue'
    BY <1>3 DEF OpenReadable, NoCache, CachesTrue, FactoryTrue, IInv
  <2> QED
    BY <2>3, <2>4, <2>5, <2>6 DEF IInv, DecodedBySchema, PeekIsResult
<1> QED BY <1>1, <1>2, <1>3 DEF Open

LEMMA CloseSound == ASSUME IInv, Close PROVE IInv'
<1>1. ret' \in Answers /\ ret'.status # "OK" /\ peeked' = None
  BY AnswerTyped DEF Close, Statuses
<1>2. TypeOK'
  BY <1>1, NoneTyped DEF Close, ForgetHistory, settings, caches, IInv, TypeOK
<1> QED
  BY <1>1, <1>2 DEF Close, caches, IInv, BoundToOpenFile, DecodedBySchema, IteratorInFile,
     CachesTrue, FactoryTrue, PeekIsResult, Readable

LEMMA SetTopicsSound == ASSUME IInv, NEW ts \in SUBSET Topics, SetTopics(ts) PROVE IInv'
<1>1. reader # None => /\ iterator' \in SUBSET Nat
                       /\ iterator' \subseteq DOMAIN FileAt[reader].messages
  BY SelectedInFile DEF SetTopics, StartIteration, IInv, TypeOK
<1>2. reader = None => iterator' = iterator
  BY DEF SetTopics, StartIteration
<1>3. ret' \in Answers /\ ret'.status # "OK" /\ peeked' = None
  BY AnswerTyped DEF SetTopics, StartIteration, Statuses
<1>4. UNCHANGED <<handle, caches>>
  BY DEF SetTopics
<1>5. TypeOK'
  BY <1>1, <1>2, <1>3, <1>4, NoneTyped
  DEF SetTopics, StartIteration, ForgetHistory, IInv, TypeOK, handle, caches
<1>6. IteratorInFile'
  <2>1. Readable' => Readable /\ reader = file /\ file # None /\ file' = file
    BY <1>4 DEF IInv, BoundToOpenFile, Readable, handle
  <2> QED BY <1>1, <2>1 DEF IteratorInFile
<1> QED
  BY <1>3, <1>4, <1>5, <1>6 DEF handle, caches, IInv, BoundToOpenFile, DecodedBySchema,
     CachesTrue, FactoryTrue, PeekIsResult, Readable

LEMMA SettingsSound ==
    ASSUME IInv,
           \/ \E e \in Expectations : SetTopicMessageTypes(e)
           \/ \E b \in BOOLEAN : SetSkipIncompatibleMessages(b)
           \/ \E m \in Modes : SetDecoderMode(m)
    PROVE  IInv'
<1>1. UNCHANGED <<handle, caches, cursor, ret, history>>
  BY DEF SetTopicMessageTypes, SetSkipIncompatibleMessages, SetDecoderMode
<1>2. TypeOK'
  <2>1. /\ topics' \in SUBSET Topics /\ expected' \in [Topics -> MessageTypes \union {None}]
        /\ skip' \in BOOLEAN /\ mode' \in Modes
    BY ExpectationsAssumption DEF SetTopicMessageTypes, SetSkipIncompatibleMessages,
       SetDecoderMode, IInv, TypeOK
  <2> QED BY <1>1, <2>1 DEF IInv, TypeOK, handle, caches, cursor, history
<1>3. DecodedBySchema'
  BY <1>1, DecodedKept DEF IInv, handle, caches, cursor
<1> QED
  BY <1>1, <1>2, <1>3 DEF handle, caches, cursor, IInv, BoundToOpenFile, IteratorInFile,
     CachesTrue, FactoryTrue, PeekIsResult, Readable

LEMMA KnownSound == ASSUME IInv, ReadPeeked \/ ReadExhausted \/ HasNextKnown PROVE IInv'
<1>1. CASE ReadPeeked
  <2>1. peeked \in Answers /\ Delivered(peeked) \in Seq(Nat)
    BY <1>1, AppendProperties DEF ReadPeeked, Delivered, IInv, TypeOK, Answers
  <2>2. TypeOK'
    BY <1>1, <2>1 DEF ReadPeeked, handle, settings, caches, IInv, TypeOK
  <2>3. DecodedBySchema'
    BY <1>1, DecodedKept DEF ReadPeeked, IInv, handle, caches
  <2> QED
    BY <1>1, <2>2, <2>3 DEF ReadPeeked, handle, settings, caches, IInv, BoundToOpenFile,
       IteratorInFile, CachesTrue, FactoryTrue, PeekIsResult, Readable
<1>2. CASE ReadExhausted
  BY <1>2, OnlyAnswers DEF ReadExhausted, Statuses
<1>3. CASE HasNextKnown
  <2>1. PICK s \in {"MORE", "END"} : ret' = Answer(s)
    BY <1>3 DEF HasNextKnown
  <2>2. s \in Statuses \ {"OK"}
    BY DEF Statuses
  <2> QED BY <1>3, <2>1, <2>2, OnlyAnswers DEF HasNextKnown
<1> QED BY <1>1, <1>2, <1>3

(* What the loop of read_message leaves behind when it stops at message i, *)
(* whatever is done with the result.                                       *)
StoppedAt(i) ==
    /\ iterator' = Rest(i)
    /\ skipped' = skipped \union {j \in iterator : Before(reader, j, i)}
    /\ Remember(i)
    /\ UNCHANGED <<handle, settings>>

LEMMA StoppedSound ==
    ASSUME IInv, iterator # None, Readable, NEW i \in Stops, StoppedAt(i)
    PROVE  /\ reader = file /\ file \in Paths /\ i \in DOMAIN FileAt[file].messages
           /\ iterator' \in {None} \union SUBSET Nat /\ skipped' \in SUBSET Nat
           /\ IteratorInFile' /\ CachesTrue' /\ FactoryTrue'
           /\ classes' \in [ChannelIds -> MessageTypes \union {None}]
           /\ decoders' \in [ChannelIds -> MessageTypes \union {None}]
           /\ types' \in [SchemaIds -> MessageTypes \union {None}]
<1>1. reader = file /\ file \in Paths /\ iterator \subseteq DOMAIN FileAt[file].messages
  BY DEF IInv, BoundToOpenFile, TypeOK, Readable, IteratorInFile
<1>2. i \in DOMAIN FileAt[file].messages
  BY <1>1 DEF Stops
<1>3. file' = file
  BY DEF StoppedAt, handle
<1>4. iterator' = None \/ iterator' \subseteq iterator
  BY DEF StoppedAt, Rest
<1>5. iterator \in SUBSET Nat /\ skipped \in SUBSET Nat
  BY DEF IInv, TypeOK
<1>6. iterator' \in {None} \union SUBSET Nat /\ skipped' \in SUBSET Nat
  BY <1>4, <1>5 DEF StoppedAt
<1>7. IteratorInFile'
  BY <1>1, <1>3, <1>4 DEF IteratorInFile
<1> QED
  BY <1>1, <1>2, <1>3, <1>6, <1>7, RememberSound DEF StoppedAt

(* The answer for the message the loop stopped at is right.                *)
LEMMA StoppedRight ==
    ASSUME IInv, iterator # None, Readable, NEW i \in Stops, StoppedAt(i),
           NEW res \in ResultsOf(file, i)
    PROVE  /\ Right(res)'
           /\ \A id \in SchemaIds : types[id] # None => types'[id] = types[id]
<1>1. reader = file /\ i \in DOMAIN FileAt[file].messages
  BY StoppedSound
<1>2. file' = file /\ Readable' /\ mode' = mode
  BY DEF StoppedAt, handle, settings, Readable
<1>3. /\ \A id \in SchemaIds : types[id] # None => types'[id] = types[id]
      /\ Decodes(file, i) /\ mode = "mcap-contained" =>
            types'[SchemaId(file, i)] = ClassUsed(file, i)
  BY <1>1, <1>2, RememberSound DEF StoppedAt
<1>4. ASSUME res.status = "OK" PROVE Right(res)'
  <2>1. /\ Decodes(file, i) /\ res.msg = i /\ res.type = SchemaType(file, i)
        /\ res.as = ClassUsed(file, i) /\ res.by = mode
    BY <1>1, <1>4, ResultSound
  <2>2. ~Mismatch(file, i)
    BY <2>1 DEF Decodes, Incompatible
  <2>3. CASE res.as = res.type
    BY <1>1, <1>2, <2>1, <2>3 DEF Right
  <2>4. CASE res.as # res.type
    <3>1. /\ mode = "mcap-contained"
          /\ SchemaElsewhere(file, SchemaId(file, i), ClassUsed(file, i))
      BY <1>1, <2>1, <2>2, <2>4, ClassSound DEF Modes, IInv, TypeOK
    <3> QED BY <1>1, <1>2, <1>3, <2>1, <3>1 DEF Right
  <2> QED BY <2>3, <2>4
<1> QED BY <1>3, <1>4 DEF Right

LEMMA ReadStopsSound ==
    ASSUME IInv, peeked = None, FetchStops(FALSE), UNCHANGED <<handle, settings>>
    PROVE  IInv'
<1>1. iterator # None /\ Readable /\ reader = file
  BY DEF FetchStops, IInv, BoundToOpenFile
<1>20. PICK i \in Stops : StoppedAt(i) /\ \E res \in ResultsOf(file, i) : GiveResult(res)
  BY <1>1 DEF FetchStops, Give, StoppedAt
<1>2. PICK res \in ResultsOf(file, i) : StoppedAt(i) /\ GiveResult(res)
  BY <1>20
<1>3. /\ file \in Paths /\ i \in DOMAIN FileAt[file].messages
      /\ iterator' \in {None} \union SUBSET Nat /\ skipped' \in SUBSET Nat
      /\ IteratorInFile' /\ CachesTrue' /\ FactoryTrue'
      /\ classes' \in [ChannelIds -> MessageTypes \union {None}]
      /\ decoders' \in [ChannelIds -> MessageTypes \union {None}]
      /\ types' \in [SchemaIds -> MessageTypes \union {None}]
  BY <1>1, <1>2, StoppedSound
<1>4. res \in Answers /\ res.msg = i
  BY <1>1, <1>3, ResultSound
<1>5. ret' = res /\ UNCHANGED <<peeked, exhausted>>
  BY <1>2 DEF GiveResult
<1>6. delivered' \in Seq(Nat) /\ raised' \in SUBSET Nat
  <2>1. i \in Nat /\ delivered \in Seq(Nat) /\ raised \in SUBSET Nat
    BY <1>3, MessageTyped DEF IInv, TypeOK
  <2>2. Delivered(res) \in Seq(Nat)
    BY <1>4, <2>1, AppendProperties DEF Delivered
  <2> QED BY <1>2, <1>4, <2>1, <2>2 DEF GiveResult
<1>7. TypeOK'
  BY <1>3, <1>4, <1>5, <1>6 DEF IInv, TypeOK, handle, settings
<1>8. DecodedBySchema'
  <2>1. \A r \in {ret', peeked'} \ {None} : r \in {ret, peeked} \/ Right(r)'
    BY <1>1, <1>2, <1>5, StoppedRight
  <2> QED BY <1>1, <1>2, <2>1, StoppedRight, DecodedKept DEF IInv, handle
<1> QED
  BY <1>1, <1>3, <1>5, <1>7, <1>8 DEF IInv, BoundToOpenFile, PeekIsResult, handle, Readable

LEMMA PeekStopsSound ==
    ASSUME IInv, peeked = None, FetchStops(TRUE), UNCHANGED <<handle, settings>>
    PROVE  IInv'
<1>1. iterator # None /\ Readable /\ reader = file
  BY DEF FetchStops, IInv, BoundToOpenFile
<1>20. PICK i \in Stops : StoppedAt(i) /\ \E res \in ResultsOf(file, i) : GivePeek(res)
  BY <1>1 DEF FetchStops, Give, StoppedAt
<1>2. PICK res \in ResultsOf(file, i) : StoppedAt(i) /\ GivePeek(res)
  BY <1>20
<1>3. /\ file \in Paths /\ i \in DOMAIN FileAt[file].messages
      /\ iterator' \in {None} \union SUBSET Nat /\ skipped' \in SUBSET Nat
      /\ IteratorInFile' /\ CachesTrue' /\ FactoryTrue'
      /\ classes' \in [ChannelIds -> MessageTypes \union {None}]
      /\ decoders' \in [ChannelIds -> MessageTypes \union {None}]
      /\ types' \in [SchemaIds -> MessageTypes \union {None}]
  BY <1>1, <1>2, StoppedSound
<1>4. /\ res \in Answers /\ res.msg = i
      /\ res.status \in Results \union {"RAISED"}
  BY <1>1, <1>3, ResultSound
<1>5. /\ ret' \in Answers /\ ret'.status # "OK"
      /\ peeked' \in {None, res} /\ (peeked' # None => res.status \in Results)
      /\ exhausted' = exhausted
      /\ delivered' = delivered /\ raised' \in SUBSET Nat
  <2>1. i \in Nat /\ raised \in SUBSET Nat
    BY <1>3, MessageTyped DEF IInv, TypeOK
  <2>2. CASE res.status = "RAISED"
    BY <1>2, <1>3, <1>4, <2>1, <2>2 DEF GivePeek
  <2>3. CASE res.status \in Results
    BY <1>2, <1>3, <1>4, <2>1, <2>3, AnswerTyped DEF GivePeek, Results, Statuses
  <2> QED BY <1>4, <2>2, <2>3
<1>6. TypeOK'
  BY <1>3, <1>4, <1>5 DEF IInv, TypeOK, handle, settings
<1>7. DecodedBySchema'
  <2>1. Right(ret)'
    BY <1>5 DEF Right
  <2>2. \A r \in {ret', peeked'} \ {None} : Right(r)'
    BY <1>1, <1>2, <1>5, <2>1, StoppedRight
  <2> QED BY <1>1, <1>2, <2>2, StoppedRight, DecodedKept DEF IInv, handle
<1>8. PeekIsResult'
  BY <1>5 DEF PeekIsResult
<1>9. BoundToOpenFile'
  BY <1>1 DEF IInv, BoundToOpenFile, handle, Readable
<1> QED
  BY <1>3, <1>6, <1>7, <1>8, <1>9 DEF IInv

(* The loop ends without a message, or before it has begun.                *)
LEMMA ReadEndsSound ==
    ASSUME IInv, peeked = None, UNCHANGED <<handle, settings>>,
           FetchNothing(FALSE) \/ FetchFromClosed(FALSE) \/ FetchExhausts(FALSE)
    PROVE  IInv'
<1>1. /\ iterator' \in {None, iterator} /\ skipped' \in SUBSET Nat
      /\ ret' \in Answers /\ ret'.msg = 0 /\ ret'.status \in {"EOF", "ERROR"}
      /\ UNCHANGED caches
  <2>1. /\ iterator' \in {None, iterator} /\ skipped' \in SUBSET Nat /\ UNCHANGED caches
        /\ ret' \in {Answer("EOF"), Failure("ERROR", 0, Unknown)}
    BY DEF FetchNothing, FetchFromClosed, FetchExhausts, Give, GiveResult, IInv, TypeOK
  <2>2. CASE ret' = Answer("EOF")
    BY <2>1, <2>2 DEF Statuses, Answer, Answers
  <2>3. CASE ret' = Failure("ERROR", 0, Unknown)
    BY <2>1, <2>3 DEF Statuses, Failure, Answers
  <2> QED BY <2>1, <2>2, <2>3
<1>2. UNCHANGED <<peeked, exhausted, delivered, raised>>
  BY DEF FetchNothing, FetchFromClosed, FetchExhausts, Give, GiveResult, Answer, Failure, Delivered
<1>3. TypeOK'
  BY <1>1, <1>2 DEF IInv, TypeOK, handle, settings, caches
<1>4. DecodedBySchema'
  <2>1. \A r \in {ret', peeked'} \ {None} : r \in {ret, peeked} \/ Right(r)'
    BY <1>1, <1>2 DEF Right
  <2> QED BY <1>1, <2>1, DecodedKept DEF IInv, handle, caches
<1> QED
  BY <1>1, <1>2, <1>3, <1>4 DEF IInv, BoundToOpenFile, IteratorInFile, CachesTrue, FactoryTrue,
     PeekIsResult, handle, caches, Readable

LEMMA PeekEndsSound ==
    ASSUME IInv, peeked = None, UNCHANGED <<handle, settings>>,
           FetchNothing(TRUE) \/ FetchFromClosed(TRUE) \/ FetchExhausts(TRUE)
    PROVE  IInv'
<1>. DEFINE error == Failure("ERROR", 0, Unknown)
<1>1. /\ error \in Answers /\ error.status = "ERROR" /\ error.msg = 0
      /\ Answer("EOF").status = "EOF"
  BY DEF Failure, Answer, Answers, Statuses
<1>2. /\ iterator' \in {None, iterator} /\ skipped' \in SUBSET Nat
      /\ UNCHANGED <<caches, delivered>>
  BY DEF FetchNothing, FetchFromClosed, FetchExhausts, Give, GivePeek, IInv, TypeOK
<1>3. /\ ret' \in {Answer("END"), Answer("MORE")}
      /\ exhausted' \in BOOLEAN /\ raised' = raised
      /\ peeked' = None \/ (peeked' = error /\ iterator' = None)
  BY <1>1 DEF FetchNothing, FetchFromClosed, FetchExhausts, Give, GivePeek, IInv, TypeOK
<1>4. ret' \in Answers /\ ret'.status # "OK"
  BY <1>3, AnswerTyped DEF Statuses
<1>5. TypeOK'
  BY <1>1, <1>2, <1>3, <1>4 DEF IInv, TypeOK, handle, settings, caches
<1>6. DecodedBySchema'
  <2>1. \A r \in {ret', peeked'} \ {None} : Right(r)'
    BY <1>1, <1>3, <1>4 DEF Right
  <2> QED BY <1>2, <2>1, DecodedKept DEF IInv, handle, caches
<1> QED
  BY <1>1, <1>2, <1>3, <1>4, <1>5, <1>6 DEF IInv, BoundToOpenFile, IteratorInFile,
     CachesTrue, FactoryTrue, PeekIsResult, Results, handle, caches, Readable

LEMMA NextSound == ASSUME IInv, [Next]_vars PROVE IInv'
<1>1. CASE \E p \in Paths : Open(p)
  BY <1>1, OpenSound
<1>2. CASE Close
  BY <1>2, CloseSound
<1>3. CASE \E ts \in SUBSET Topics : SetTopics(ts)
  BY <1>3, SetTopicsSound
<1>4. CASE \/ \E e \in Expectations : SetTopicMessageTypes(e)
           \/ \E b \in BOOLEAN : SetSkipIncompatibleMessages(b)
           \/ \E m \in Modes : SetDecoderMode(m)
  BY <1>4, SettingsSound
<1>5. CASE ReadPeeked \/ ReadExhausted \/ HasNextKnown
  BY <1>5, KnownSound
<1>6. CASE ReadOn
  BY <1>6, ReadEndsSound, ReadStopsSound DEF ReadOn, Fetch
<1>7. CASE HasNextPeeks
  BY <1>7, PeekEndsSound, PeekStopsSound DEF HasNextPeeks, Fetch
<1>8. CASE UNCHANGED vars
  <2>1. UNCHANGED <<handle, settings, caches, cursor, ret, history>>
    BY <1>8 DEF vars
  <2>2. DecodedBySchema'
    BY <2>1, DecodedKept DEF IInv, handle, caches, cursor
  <2> QED
    BY <2>1, <2>2 DEF handle, settings, caches, cursor, history, IInv, TypeOK,
       BoundToOpenFile, IteratorInFile, CachesTrue, FactoryTrue, PeekIsResult, Readable
<1> QED
  BY <1>1, <1>2, <1>3, <1>4, <1>5, <1>6, <1>7, <1>8 DEF Next, ReadMessage, HasNext

-----------------------------------------------------------------------------
(* The theorems.                                                           *)

LEMMA Invariance == Spec => []IInv
BY InitSound, NextSound, PTL DEF Spec

(* Every variable of the reader keeps its type, whatever is called in      *)
(* whatever order and whatever the files hold.                             *)
THEOREM TypeCorrect == Spec => []TypeOK
BY Invariance, PTL DEF IInv

(* Everything a reader holds belongs to the file that is open (open, close *)
(* and set_topics of multi.py, failed opens included).                     *)
THEOREM ReaderBound == Spec => []BoundToOpenFile
BY Invariance, PTL DEF IInv

(* A message handed out is of the open file and named by its schema; a     *)
(* precompiled class is always that of this schema although classes are    *)
(* cached by channel id, and a class of the decoder factory that is not    *)
(* can only be that of a schema with the same id in another file           *)
(* (_decode_message, and the factory that is never made anew).             *)
THEOREM DecodingCorrect == Spec => []DecodedBySchema
BY Invariance, PTL DEF IInv

-----------------------------------------------------------------------------
(* The reader implements TraceReader.                                      *)

LEMMA OutlookKept ==
    ASSUME UNCHANGED cursor PROVE Outlook' = Outlook
BY DEF Outlook, cursor

LEMMA ContractInit == ASSUME Init PROVE Contract!Init
BY DEF Init, Contract!Init, Outlook, Answer

LEMMA OpenContract ==
    ASSUME NEW p \in Paths, Open(p) PROVE [Contract!Next]_Contract!vars
<1>1. CASE OpenReadable(p)
  <2>1. ret'.status = "OPENED" /\ Outlook' \in {"MORE", "END", "open"}
    BY <1>1 DEF OpenReadable, Answer, Outlook
  <2> QED BY <2>1 DEF Contract!Next, Contract!Restart
<1>2. CASE OpenAgain(p) \/ OpenMissing(p) \/ OpenDamaged(p) \/ OpenRaises(p)
  <2>1. CASE OpenAgain(p) \/ OpenMissing(p) \/ OpenDamaged(p)
    <3>1. ret'.status = "REFUSED" /\ UNCHANGED cursor
      BY <2>1 DEF OpenAgain, OpenMissing, OpenDamaged, Answer
    <3> QED BY <3>1, OutlookKept DEF Contract!Next, Contract!Refuse
  <2>2. CASE OpenRaises(p)
    <3>1. ret'.status = "OPEN RAISED" /\ UNCHANGED cursor
      BY <2>2 DEF OpenRaises, Answer
    <3> QED BY <3>1, OutlookKept DEF Contract!Next, Contract!Refuse
  <2> QED BY <1>2, <2>1, <2>2
<1> QED BY <1>1, <1>2 DEF Open

LEMMA RestartContract ==
    ASSUME Close \/ \E ts \in SUBSET Topics : SetTopics(ts)
    PROVE  [Contract!Next]_Contract!vars
<1>1. ret'.status \in {"CLOSED", "NONE"} /\ Outlook' \in {"MORE", "END", "open"}
  BY DEF Close, SetTopics, Answer, Outlook
<1> QED BY <1>1 DEF Contract!Next, Contract!Restart

LEMMA KnownContract ==
    ASSUME IInv, ReadPeeked \/ ReadExhausted \/ HasNextKnown
    PROVE  [Contract!Next]_Contract!vars
<1>1. CASE ReadPeeked
  <2>1. ret'.status \in Results /\ Outlook = "MORE" /\ Outlook' \in {"MORE", "END", "open"}
    BY <1>1 DEF ReadPeeked, IInv, PeekIsResult, Outlook
  <2> QED BY <2>1 DEF Contract!Next, Contract!ReadResult, Contract!Results, Results
<1>2. CASE ReadExhausted
  <2>1. ret'.status = "EOF" /\ Outlook = "END" /\ Outlook' = "END"
    BY <1>2, OutlookKept DEF ReadExhausted, Answer, Outlook
  <2> QED BY <2>1 DEF Contract!Next, Contract!ReadEnd
<1>3. CASE HasNextKnown
  <2>1. /\ ret'.status = Outlook /\ Outlook \in {"MORE", "END"}
        /\ Outlook' = Outlook
    BY <1>3, OutlookKept DEF HasNextKnown, Answer, Outlook
  <2> QED BY <2>1 DEF Contract!Next, Contract!HasNext
<1> QED BY <1>1, <1>2, <1>3

(* A call that leaves with an exception leaves the iteration open.         *)
LEMMA OpenAfterRaise ==
    ASSUME IInv, iterator # None, Readable, peeked = None, ~exhausted,
           NEW i \in Stops, StoppedAt(i), UNCHANGED <<peeked, exhausted>>,
           ~Broken(reader, i)
    PROVE  Outlook = "open" /\ Outlook' = "open"
<1>1. file \in Paths /\ iterator \subseteq DOMAIN FileAt[file].messages
  BY DEF IInv, TypeOK, Readable, IteratorInFile
<1>2. iterator' \in SUBSET (DOMAIN FileAt[file].messages)
  BY <1>1 DEF StoppedAt, Rest
<1>3. iterator' # None
  BY <1>1, <1>2, NoneAssumption
<1> QED BY <1>3 DEF Outlook

LEMMA ReadOnContract ==
    ASSUME IInv, ReadOn PROVE [Contract!Next]_Contract!vars
<1>1. CASE FetchNothing(FALSE) \/ FetchExhausts(FALSE)
  <2>1. ret'.status = "EOF" /\ Outlook # "MORE" /\ Outlook' = "END"
    BY <1>1 DEF ReadOn, FetchNothing, FetchExhausts, Give, GiveResult, Answer, Outlook
  <2> QED BY <2>1 DEF Contract!Next, Contract!ReadEnd
<1>2. CASE FetchFromClosed(FALSE)
  <2>1. ret'.status = "ERROR" /\ Outlook = "open" /\ Outlook' = "END"
    BY <1>2 DEF ReadOn, FetchFromClosed, Give, GiveResult, Failure, Outlook
  <2> QED BY <2>1 DEF Contract!Next, Contract!ReadResult, Contract!Results
<1>3. CASE FetchStops(FALSE)
  <2>1. iterator # None /\ Readable /\ peeked = None /\ ~exhausted
    BY <1>3 DEF FetchStops, Give, ReadOn
  <2>. reader = file
    BY <2>1 DEF IInv, BoundToOpenFile
  <2>20. PICK i \in Stops : StoppedAt(i) /\ \E res \in ResultsOf(file, i) : GiveResult(res)
    BY <1>3 DEF FetchStops, Give, StoppedAt, ReadOn
  <2>2. PICK res \in ResultsOf(file, i) : StoppedAt(i) /\ GiveResult(res)
    BY <2>20
  <2>3. i \in DOMAIN FileAt[file].messages
    BY <2>1, <2>2, StoppedSound
  <2>4. /\ ret' = res /\ UNCHANGED <<peeked, exhausted>>
        /\ ret'.status \in Results \union {"RAISED"}
        /\ ret'.status = "RAISED" => ~Broken(file, i)
    BY <2>1, <2>2, <2>3, ResultSound DEF GiveResult
  <2>5. CASE ret'.status = "RAISED"
    BY <2>1, <2>2, <2>3, <2>4, <2>5, OpenAfterRaise DEF Contract!Next, Contract!Raise
  <2>6. CASE ret'.status \in Results
    <3>1. Outlook = "open" /\ Outlook' \in {"MORE", "END", "open"}
      BY <2>1 DEF Outlook
    <3> QED BY <2>6, <3>1 DEF Contract!Next, Contract!ReadResult, Contract!Results, Results
  <2> QED BY <2>4, <2>5, <2>6
<1> QED BY <1>1, <1>2, <1>3 DEF ReadOn, Fetch

LEMMA PeekContract ==
    ASSUME IInv, HasNextPeeks PROVE [Contract!Next]_Contract!vars
<1>1. CASE FetchNothing(TRUE) \/ FetchExhausts(TRUE)
  <2>1. ret'.status = "END" /\ Outlook \in {"open", "END"} /\ Outlook' = "END"
    BY <1>1 DEF HasNextPeeks, FetchNothing, FetchExhausts, Give, GivePeek, Answer, Outlook
  <2> QED BY <2>1 DEF Contract!Next, Contract!HasNext
<1>2. CASE FetchFromClosed(TRUE)
  <2>. DEFINE error == Failure("ERROR", 0, Unknown)
  <2>1. error \in Answers /\ error.status = "ERROR"
    BY DEF Failure, Answers, Statuses
  <2>2. peeked' = error /\ ret'.status = "MORE"
    BY <1>2, <2>1 DEF FetchFromClosed, Give, GivePeek, Answer
  <2>3. Outlook = "open" /\ Outlook' = "MORE"
    BY <1>2, <2>1, <2>2, NoneAssumption DEF HasNextPeeks, FetchFromClosed, Give, Outlook
  <2> QED BY <2>2, <2>3 DEF Contract!Next, Contract!HasNext
<1>3. CASE FetchStops(TRUE)
  <2>1. iterator # None /\ Readable /\ peeked = None /\ ~exhausted
    BY <1>3 DEF FetchStops, Give, HasNextPeeks
  <2>. reader = file
    BY <2>1 DEF IInv, BoundToOpenFile
  <2>20. PICK i \in Stops : StoppedAt(i) /\ \E res \in ResultsOf(file, i) : GivePeek(res)
    BY <1>3 DEF FetchStops, Give, StoppedAt, HasNextPeeks
  <2>2. PICK res \in ResultsOf(file, i) : StoppedAt(i) /\ GivePeek(res)
    BY <2>20
  <2>3. i \in DOMAIN FileAt[file].messages
    BY <2>1, <2>2, StoppedSound
  <2>4. /\ res \in Answers /\ res.status \in Results \union {"RAISED"}
        /\ res.status = "RAISED" => ~Broken(file, i)
    BY <2>1, <2>3, ResultSound
  <2>5. CASE res.status = "RAISED"
    <3>1. ret' = res /\ UNCHANGED <<peeked, exhausted>>
      BY <2>2, <2>3, <2>5 DEF GivePeek
    <3> QED
      BY <2>1, <2>2, <2>3, <2>4, <2>5, <3>1, OpenAfterRaise DEF Contract!Next, Contract!Raise
  <2>6. CASE res.status \in Results
    <3>1. peeked' = res /\ ret'.status = "MORE"
      BY <2>2, <2>3, <2>6 DEF GivePeek, Results, Answer
    <3>2. Outlook = "open" /\ Outlook' = "MORE"
      BY <2>1, <2>4, <3>1, NoneAssumption DEF Outlook
    <3> QED BY <3>1, <3>2 DEF Contract!Next, Contract!HasNext
  <2> QED BY <2>4, <2>5, <2>6
<1> QED BY <1>1, <1>2, <1>3 DEF HasNextPeeks, Fetch

LEMMA NextContract ==
    ASSUME IInv, [Next]_vars PROVE [Contract!Next]_Contract!vars
<1>1. CASE \E p \in Paths : Open(p)
  BY <1>1, OpenContract
<1>2. CASE Close \/ \E ts \in SUBSET Topics : SetTopics(ts)
  BY <1>2, RestartContract
<1>3. CASE \/ \E e \in Expectations : SetTopicMessageTypes(e)
           \/ \E b \in BOOLEAN : SetSkipIncompatibleMessages(b)
           \/ \E m \in Modes : SetDecoderMode(m)
           \/ UNCHANGED vars
  <2>1. UNCHANGED <<cursor, ret>>
    BY <1>3 DEF SetTopicMessageTypes, SetSkipIncompatibleMessages, SetDecoderMode, vars
  <2> QED BY <2>1, OutlookKept DEF Contract!vars
<1>4. CASE ReadPeeked \/ ReadExhausted \/ HasNextKnown
  BY <1>4, KnownContract
<1>5. CASE ReadOn
  BY <1>5, ReadOnContract
<1>6. CASE HasNextPeeks
  BY <1>6, PeekContract
<1> QED
  BY <1>1, <1>2, <1>3, <1>4, <1>5, <1>6 DEF Next, ReadMessage, HasNext

(* The reader implements the contract of readers/base.py: what has_next    *)
(* announced is what the next read_message brings, however the settings    *)
(* change in between, and an end, once reported, is final.                 *)
THEOREM ImplementsContract == Spec => ContractSpec
<1>1. Init => Contract!Init
  BY ContractInit
<1>2. IInv /\ [Next]_vars => [Contract!Next]_Contract!vars
  BY NextContract
<1> QED
  BY <1>1, <1>2, Invariance, PTL DEF Spec, ContractSpec, Contract!Spec

-----------------------------------------------------------------------------
(* The messages of a file are ordered by Before.                           *)

LEMMA TimeTyped ==
    ASSUME NEW p \in Paths, NEW i \in DOMAIN FileAt[p].messages
    PROVE  i \in Nat /\ i # 0 /\ Message(p, i).time \in Nat
<1>1. FileAt[p].messages \in Seq(Records)
  BY FilesAssumption DEF Files
<1>2. i \in 1..Len(FileAt[p].messages)
  BY <1>1
<1> QED BY <1>1, <1>2, MessageTyped DEF Records

LEMMA BeforeOrders ==
    ASSUME NEW p \in Paths, NEW i \in DOMAIN FileAt[p].messages,
           NEW j \in DOMAIN FileAt[p].messages, NEW k \in DOMAIN FileAt[p].messages
    PROVE  /\ Before(p, i, j) \/ Before(p, j, i) \/ i = j
           /\ ~(Before(p, i, j) /\ Before(p, j, i)) /\ ~Before(p, i, i)
           /\ Before(p, i, j) /\ Before(p, j, k) => Before(p, i, k)
BY TimeTyped DEF Before

-----------------------------------------------------------------------------
(* The inductive invariant of order and completeness.                      *)

Past == Seen \union skipped \union raised

(* What is still to come comes after everything that has been dealt with.  *)
PastBeforeLeft ==
    Readable => \A i \in Past, j \in Left : Before(file, i, j)

OInv == InOrder /\ Accounted /\ PastBeforeLeft

LEMMA OutputTyped == ASSUME TypeOK PROVE Output \in Seq(Nat)
<1>1. Pending \in Seq(Nat)
  BY DEF Pending, TypeOK, Answers
<1> QED BY <1>1, ConcatProperties DEF Output, TypeOK

(* All that the invariant speaks of in an open file.                       *)
LEMMA InFile ==
    ASSUME IInv, OInv, Readable
    PROVE  /\ file \in Paths
           /\ Past \union Left \subseteq Selected(file, topics)
           /\ Selected(file, topics) \subseteq DOMAIN FileAt[file].messages
<1>1. file \in Paths
  BY DEF IInv, TypeOK, Readable
<1> QED BY <1>1, SelectedInFile DEF OInv, Accounted, Past

-----------------------------------------------------------------------------
(* The ways in which the calls move messages.                              *)

(* An iteration starts.                                                    *)
LEMMA StartedOrdered ==
    ASSUME NEW p \in Paths, file' = p, iterator' = Selected(p, topics'), peeked' = None,
           ForgetHistory
    PROVE  OInv'
<1>1. Output' = <<>> /\ Seen' = {}
  BY DEF ForgetHistory, Output, Pending, Seen
<1>2. Left' = Selected(p, topics')
  <2>1. Selected(p, topics') # None
    BY NoneAssumption DEF Selected
  <2> QED BY <2>1 DEF Left
<1>3. skipped' = {} /\ raised' = {}
  BY DEF ForgetHistory
<1> QED BY <1>1, <1>2, <1>3 DEF OInv, InOrder, Accounted, PastBeforeLeft, Past

(* The file is closed, or cannot be read.                                  *)
LEMMA ClosedOrdered == ASSUME ~Readable' PROVE OInv'
BY DEF OInv, InOrder, Accounted, PastBeforeLeft

(* Nothing moves.                                                          *)
LEMMA KeptOrdered ==
    ASSUME OInv, UNCHANGED <<file, topics, skipped, raised>>, Output' = Output, Left' = Left
    PROVE  OInv'
<1>1. Seen' = Seen
  BY DEF Seen
<1> QED BY <1>1 DEF OInv, InOrder, Accounted, PastBeforeLeft, Past, Readable

(* All that is left is passed over.                                        *)
LEMMA PassedOrdered ==
    ASSUME IInv, OInv, UNCHANGED <<file, topics, raised>>, Output' = Output,
           skipped' = skipped \union Left, Left' = {}
    PROVE  OInv'
<1>1. Seen' = Seen
  BY DEF Seen
<1>2. InOrder'
  BY DEF OInv, InOrder, Readable
<1>3. Accounted'
  BY <1>1 DEF OInv, Accounted, Readable
<1> QED BY <1>2, <1>3 DEF OInv, PastBeforeLeft

(* The loop stops at message i: those before it are passed over, those     *)
(* behind it are left, and i itself is handed out or raised.               *)
Ahead(i)  == {j \in Left : Before(file, j, i)}
Behind(i) == {j \in Left : Before(file, i, j)}

LEMMA Divided ==
    ASSUME IInv, OInv, Readable, NEW i \in Left
    PROVE  /\ Left = Ahead(i) \union {i} \union Behind(i)
           /\ i \notin Ahead(i) \union Behind(i)
           /\ Ahead(i) \intersect Behind(i) = {}
<1>1. file \in Paths /\ Left \subseteq DOMAIN FileAt[file].messages
  BY InFile
<1> QED BY <1>1, BeforeOrders DEF Ahead, Behind

LEMMA StoppedOrdered ==
    ASSUME IInv, OInv, Readable, NEW i \in Left, UNCHANGED <<file, topics>>,
           skipped' = skipped \union Ahead(i),
           Left' = IF Broken(file, i) THEN {} ELSE Behind(i),
           \/ Output' = Append(Output, i) /\ raised' = raised
           \/ Output' = Output /\ raised' = raised \union {i} /\ ~Broken(file, i)
    PROVE  OInv'
<1>1. /\ file \in Paths /\ Left \subseteq DOMAIN FileAt[file].messages
      /\ Past \subseteq DOMAIN FileAt[file].messages
  BY InFile
<1>2. /\ Left = Ahead(i) \union {i} \union Behind(i)
      /\ i \notin Ahead(i) \union Behind(i) /\ Ahead(i) \intersect Behind(i) = {}
  BY Divided
<1>3. Output \in Seq(Nat) /\ i \in Nat
  BY <1>1, TimeTyped, OutputTyped DEF IInv
<1>4. Seen' \union raised' = Seen \union raised \union {i}
  <2>1. CASE Output' = Append(Output, i) /\ raised' = raised
    <3>1. Seen' = Seen \union {i}
      BY <1>3, <2>1, AppendProperties, SMTT(60) DEF Seen
    <3> QED BY <2>1, <3>1
  <2>2. CASE Output' = Output /\ raised' = raised \union {i}
    BY <2>2 DEF Seen
  <2> QED BY <2>1, <2>2
<1>5. Past' = Past \union Ahead(i) \union {i}
  BY <1>4 DEF Past
<1>6. InOrder'
  <2>1. CASE Output' = Append(Output, i)
    <3>1. ASSUME NEW m \in DOMAIN Output', NEW n \in DOMAIN Output', m < n
          PROVE  Before(file, Output'[m], Output'[n])
      <4>1. m \in DOMAIN Output /\ Output'[m] = Output[m]
        BY <1>3, <2>1, <3>1, AppendProperties
      <4>2. CASE n \in DOMAIN Output
        <5>1. Output'[n] = Output[n]
          BY <1>3, <2>1, <4>2, AppendProperties
        <5> QED BY <3>1, <4>1, <4>2, <5>1 DEF OInv, InOrder
      <4>3. CASE n \notin DOMAIN Output
        <5>1. Output'[n] = i
          BY <1>3, <2>1, <3>1, <4>3, AppendProperties
        <5>2. Output[m] \in Past
          BY <4>1 DEF Past, Seen
        <5> QED BY <4>1, <5>1, <5>2 DEF OInv, PastBeforeLeft
      <4> QED BY <4>2, <4>3
    <3> QED BY <3>1 DEF InOrder
  <2>2. CASE Output' = Output
    BY <2>2 DEF OInv, InOrder
  <2> QED BY <2>1, <2>2
<1>7. PastBeforeLeft'
  <2>1. ASSUME NEW k \in Past', NEW j \in Left' PROVE Before(file, k, j)
    <3>1. j \in Behind(i) /\ j \in Left
      BY DEF Behind
    <3>2. CASE k \in Past
      BY <3>1, <3>2 DEF OInv, PastBeforeLeft
    <3>3. CASE k = i
      BY <3>1, <3>3 DEF Behind
    <3>4. CASE k \in Ahead(i)
      <4>1. k \in Left /\ Before(file, k, i) /\ Before(file, i, j)
        BY <3>1, <3>4 DEF Ahead, Behind
      <4> QED BY <1>1, <3>1, <4>1, BeforeOrders
    <3> QED BY <1>5, <3>2, <3>3, <3>4
  <2> QED BY <2>1 DEF PastBeforeLeft
<1>8. Accounted'
  <2>1. Past' \union Left' \subseteq Selected(file, topics)
    BY <1>2, <1>5, InFile
  <2>2. Seen \subseteq Seen' /\ (Broken(file, i) => i \in Seen')
    <3>1. CASE Output' = Append(Output, i)
      BY <1>3, <3>1, AppendProperties DEF Seen
    <3>2. CASE Output' = Output /\ ~Broken(file, i)
      BY <3>2 DEF Seen
    <3> QED BY <3>1, <3>2
  <2>3. ASSUME NEW j \in Selected(file, topics)
        PROVE  \/ j \in Left' \union Past'
               \/ \E b \in Seen' : Broken(file, b) /\ Before(file, b, j)
    <3>1. CASE j \in Past \union Ahead(i) \union {i}
      BY <1>5, <3>1
    <3>2. CASE j \in Behind(i)
      BY <2>2, <3>2 DEF Behind
    <3>3. CASE \E b \in Seen : Broken(file, b) /\ Before(file, b, j)
      BY <2>2, <3>3
    <3> QED BY <1>2, <3>1, <3>2, <3>3 DEF OInv, Accounted, Past
  <2>4. Left' \subseteq Left /\ Left' \intersect (Ahead(i) \union {i}) = {}
    BY <1>2
  <2>5. /\ Left' \intersect Past' = {}
        /\ Seen' \intersect (skipped' \union raised') = {} /\ skipped' \intersect raised' = {}
    <3>1. Left \intersect Past = {} /\ Ahead(i) \subseteq Left
      BY <1>2 DEF OInv, Accounted, Past
    <3>2. Left' \intersect Past' = {}
      BY <1>5, <2>4, <3>1
    <3>3. \/ Seen' = Seen \union {i} /\ raised' = raised
          \/ Seen' = Seen /\ raised' = raised \union {i}
      <4>1. CASE Output' = Append(Output, i) /\ raised' = raised
        BY <1>3, <4>1, AppendProperties DEF Seen
      <4>2. CASE Output' = Output /\ raised' = raised \union {i}
        BY <4>2 DEF Seen
      <4> QED BY <4>1, <4>2
    <3>4. Seen \intersect (skipped \union raised) = {} /\ skipped \intersect raised = {}
      BY DEF OInv, Accounted
    <3> QED BY <1>2, <3>1, <3>2, <3>3, <3>4 DEF Past
  <2> QED BY <2>1, <2>3, <2>5 DEF Accounted, Past
<1> QED BY <1>6, <1>7, <1>8 DEF OInv

-----------------------------------------------------------------------------
(* The calls that fetch no message.                                        *)

LEMMA OpenOrdered == ASSUME IInv, OInv, NEW p \in Paths, Open(p) PROVE OInv'
<1>1. CASE OpenReadable(p)
  <2>1. file' = p /\ p # None /\ topics' = topics
    BY <1>1, NamesAssumption DEF OpenReadable, settings
  <2>2. iterator' = Selected(p, topics') /\ peeked' = None /\ ForgetHistory
    BY <1>1, <2>1 DEF OpenReadable, StartIteration
  <2> QED BY <2>1, <2>2, StartedOrdered
<1>2. CASE OpenAgain(p)
  BY <1>2, KeptOrdered
  DEF OpenAgain, handle, settings, cursor, history, Output, Pending, Left
<1>3. CASE OpenMissing(p) \/ OpenDamaged(p) \/ OpenRaises(p)
  BY <1>3, ClosedOrdered DEF OpenMissing, OpenDamaged, OpenRaises, handle, Readable
<1> QED BY <1>1, <1>2, <1>3 DEF Open

LEMMA SetTopicsOrdered ==
    ASSUME IInv, OInv, NEW ts \in SUBSET Topics, SetTopics(ts) PROVE OInv'
<1>1. file' = file
  BY DEF SetTopics, handle
<1>2. CASE ~Readable
  BY <1>1, <1>2, ClosedOrdered DEF Readable
<1>3. CASE Readable
  <2>1. file \in Paths /\ reader = file /\ reader # None
    BY <1>3 DEF IInv, TypeOK, BoundToOpenFile, Readable
  <2>2. iterator' = Selected(file, topics') /\ peeked' = None /\ ForgetHistory
    BY <2>1 DEF SetTopics, StartIteration
  <2> QED BY <1>1, <2>1, <2>2, StartedOrdered
<1> QED BY <1>2, <1>3

LEMMA SettingsOrdered ==
    ASSUME OInv,
           \/ \E e \in Expectations : SetTopicMessageTypes(e)
           \/ \E b \in BOOLEAN : SetSkipIncompatibleMessages(b)
           \/ \E m \in Modes : SetDecoderMode(m)
           \/ UNCHANGED vars
    PROVE  OInv'
<1>1. UNCHANGED <<handle, topics, cursor, history>>
  BY DEF SetTopicMessageTypes, SetSkipIncompatibleMessages, SetDecoderMode, vars, settings
<1> QED
  BY <1>1, KeptOrdered DEF handle, cursor, history, Output, Pending, Left

(* A peeked result is as good as delivered.                                *)
LEMMA KnownOrdered ==
    ASSUME IInv, OInv, ReadPeeked \/ ReadExhausted \/ HasNextKnown PROVE OInv'
<1>1. CASE ReadPeeked
  <2>1. Output' = Output
    <3>1. delivered \in Seq(Nat) /\ peeked \in Answers
      BY <1>1 DEF ReadPeeked, IInv, TypeOK
    <3>2. peeked.msg \in Nat
      BY <3>1 DEF Answers
    <3>3. Output' = Delivered(peeked) \o <<>>
      BY <1>1 DEF ReadPeeked, Output, Pending
    <3>4. Output = delivered \o (IF peeked.msg = 0 THEN <<>> ELSE <<peeked.msg>>)
      BY <1>1 DEF ReadPeeked, Output, Pending
    <3> QED BY <3>1, <3>2, <3>3, <3>4 DEF Delivered
  <2> QED
    BY <1>1, <2>1, KeptOrdered DEF ReadPeeked, handle, settings, Left
<1>2. CASE ReadExhausted \/ HasNextKnown
  BY <1>2, KeptOrdered
  DEF ReadExhausted, HasNextKnown, handle, settings, cursor, history, Output, Pending, Left
<1> QED BY <1>1, <1>2

-----------------------------------------------------------------------------
(* The loop of read_message.                                               *)

LEMMA EndsOrdered ==
    ASSUME IInv, OInv, peeked = None, NEW peeking \in BOOLEAN,
           FetchNothing(peeking) \/ FetchFromClosed(peeking) \/ FetchExhausts(peeking),
           UNCHANGED <<handle, settings>>
    PROVE  OInv'
<1>1. UNCHANGED <<file, topics>>
  BY DEF handle, settings
<1>2. CASE ~Readable
  BY <1>1, <1>2, ClosedOrdered DEF Readable
<1>3. CASE Readable /\ FetchNothing(peeking)
  <2>1. peeked' = None /\ UNCHANGED <<iterator, delivered, skipped, raised>>
    BY <1>3 DEF FetchNothing, Give, GiveResult, GivePeek, Answer, Delivered
  <2> QED BY <1>1, <2>1, KeptOrdered DEF Output, Pending, Left
<1>4. CASE Readable /\ FetchExhausts(peeking)
  <2>1. /\ peeked' = None /\ UNCHANGED <<delivered, raised>>
        /\ skipped' = skipped \union iterator /\ iterator' = None /\ iterator # None
    BY <1>4 DEF FetchExhausts, Give, GiveResult, GivePeek, Answer, Delivered
  <2> QED BY <1>1, <2>1, PassedOrdered DEF Output, Pending, Left
<1> QED BY <1>2, <1>3, <1>4 DEF FetchFromClosed

LEMMA StopsOrdered ==
    ASSUME IInv, OInv, peeked = None, NEW peeking \in BOOLEAN, FetchStops(peeking),
           UNCHANGED <<handle, settings>>
    PROVE  OInv'
<1>1. iterator # None /\ Readable /\ reader = file /\ UNCHANGED <<file, topics>>
  BY DEF FetchStops, IInv, BoundToOpenFile, handle, settings
<1>20. PICK i \in Stops : StoppedAt(i) /\ \E res \in ResultsOf(file, i) : Give(peeking, res)
  BY <1>1 DEF FetchStops, StoppedAt
<1>2. PICK res \in ResultsOf(file, i) : StoppedAt(i) /\ Give(peeking, res)
  BY <1>20
<1>3. i \in Left /\ Left = iterator
  BY <1>1 DEF Stops, Left
<1>4. file \in Paths /\ i \in DOMAIN FileAt[file].messages
  BY <1>1, <1>3, InFile
<1>5. /\ res \in Answers /\ res.msg = i /\ i \in Nat /\ i # 0
      /\ res.status \in Results \union {"RAISED"}
      /\ res.status = "RAISED" => ~Broken(file, i)
  BY <1>1, <1>4, ResultSound, TimeTyped
<1>6. Left' = IF Broken(file, i) THEN {} ELSE Behind(i)
  <2>1. Behind(i) # None
    <3>1. Behind(i) \in SUBSET (DOMAIN FileAt[file].messages)
      BY <1>1, InFile DEF Behind
    <3> QED BY <1>4, <3>1, NoneAssumption
  <2>2. iterator' = IF Broken(file, i) THEN None ELSE Behind(i)
    BY <1>1, <1>2, <1>3 DEF StoppedAt, Rest, Behind
  <2> QED BY <2>1, <2>2 DEF Left
<1>7. skipped' = skipped \union Ahead(i)
  BY <1>1, <1>2, <1>3 DEF StoppedAt, Ahead
<1>8. Output = delivered /\ delivered \in Seq(Nat)
  BY DEF Output, Pending, IInv, TypeOK
<1>9. CASE res.status = "RAISED"
  <2>1. raised' = raised \union {i} /\ UNCHANGED <<delivered, peeked>>
    BY <1>2, <1>5, <1>9 DEF Give, GiveResult, GivePeek
  <2>2. Output' = Output
    BY <2>1 DEF Output, Pending
  <2> QED BY <1>1, <1>3, <1>5, <1>6, <1>7, <1>9, <2>1, <2>2, StoppedOrdered
<1>10. CASE res.status \in Results
  <2>1. raised' = raised /\ Output' = Append(Output, i)
    <3>1. CASE ~peeking
      <4>1. delivered' = Append(delivered, i) /\ peeked' = None /\ raised' = raised
        BY <1>2, <1>5, <1>10, <3>1 DEF Give, GiveResult, Delivered, Results
      <4> QED BY <1>8, <4>1 DEF Output, Pending
    <3>2. CASE peeking
      <4>1. delivered' = delivered /\ peeked' = res /\ raised' = raised
        BY <1>2, <1>5, <1>10, <3>2 DEF Give, GivePeek, Results
      <4>2. res # None
        BY <1>5, NoneAssumption
      <4>3. Output' = delivered \o <<i>>
        BY <1>5, <4>1, <4>2 DEF Output, Pending
      <4> QED BY <1>5, <1>8, <4>1, <4>3
    <3> QED BY <3>1, <3>2
  <2> QED BY <1>1, <1>3, <1>6, <1>7, <2>1, StoppedOrdered
<1> QED BY <1>5, <1>9, <1>10

LEMMA FetchOrdered ==
    ASSUME IInv, OInv, ReadOn \/ HasNextPeeks PROVE OInv'
<1>1. PICK peeking \in BOOLEAN :
          peeked = None /\ Fetch(peeking) /\ UNCHANGED <<handle, settings>>
  BY DEF ReadOn, HasNextPeeks
<1> QED BY <1>1, EndsOrdered, StopsOrdered DEF Fetch

LEMMA NextOrdered == ASSUME IInv, OInv, [Next]_vars PROVE OInv'
<1>1. CASE Close
  BY <1>1, ClosedOrdered DEF Close, Readable
<1> QED
  BY <1>1, OpenOrdered, SetTopicsOrdered, SettingsOrdered, KnownOrdered, FetchOrdered
  DEF Next, ReadMessage, HasNext

-----------------------------------------------------------------------------
(* Order and completeness.                                                 *)

LEMMA OrderInvariance == Spec => []OInv
<1>1. Init => OInv
  BY DEF Init, OInv, InOrder, Accounted, PastBeforeLeft, Readable
<1> QED BY <1>1, Invariance, NextOrdered, PTL DEF Spec

(* Messages are delivered in the order of their log times, each at most    *)
(* once, whichever of read_message and has_next finds them and whatever    *)
(* settings change in between.                                             *)
THEOREM DeliveredInOrder == Spec => []InOrder
BY OrderInvariance, PTL DEF OInv

(* No message of the selected topics is lost: it is to come, was delivered *)
(* or peeked, was skipped as incompatible or raised an exception, or lies  *)
(* behind a record at which the stream broke.                              *)
THEOREM NothingLost == Spec => []Accounted
BY OrderInvariance, PTL DEF OInv

=============================================================================
