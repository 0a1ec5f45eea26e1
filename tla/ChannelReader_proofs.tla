------------------------ MODULE ChannelReader_proofs ------------------------
(***************************************************************************)
(* Theorems about the clients of the readers, for any files, names,       *)
(* topics, requests and outputs: no call that fails leaves a file open    *)
(* that nobody can close; a channel that was opened is as asked for, and  *)
(* its messages and no others are handed out; the converter leaves        *)
(* nothing out. First, when the two ways to find a message type in a file *)
(* name agree.                                                            *)
(***************************************************************************)
EXTENDS Gt2Sv, MultiTraceReader_proofs, FiniteSetTheorems, WellFoundedInduction

-----------------------------------------------------------------------------
(* File names: when the two ways to find a message type in one agree.      *)

(* The parts of a conventional name behind the type are no short codes, at *)
(* least those with another part on either side.                           *)
PlainBehind(name) ==
    \A i \in 3..(Len(name.parts) - 1) : \A k \in DOMAIN Codes : Lower[name.parts[i]] # Codes[k]

(* The table lists each code once, in lower case.                          *)
PlainTable ==
    /\ Codes \in Seq(STRING)
    /\ \A k \in DOMAIN Codes : Lower[Codes[k]] = Codes[k]
    /\ \A j, k \in DOMAIN Codes : Codes[j] = Codes[k] => j = k

(* The inner parts of a conventional name match one entry of the table: in *)
(* infer_message_type_from_filename the pattern of its type is found, and  *)
(* no other.                                                               *)
LEMMA OneEntry ==
    ASSUME NEW name, name.parts \in Seq(STRING), PlainTable,
           Conventional(name), PlainBehind(name)
    PROVE  \E k \in DOMAIN Codes : /\ Codes[k] = name.parts[2]
                                   /\ Entries(InnerParts(name)) = {k}
<1>1. PICK k \in DOMAIN Codes : Codes[k] = name.parts[2]
  BY DEF Conventional
<1>2. Len(name.parts) \in Nat /\ Len(name.parts) >= 6
  BY DEF Conventional
<1>3. Codes[k] \in InnerParts(name)
  <2>1. 2 \in 2..(Len(name.parts) - 1)
    BY <1>2
  <2>2. Lower[name.parts[2]] = Codes[k]
    BY <1>1 DEF PlainTable
  <2> QED BY <2>1, <2>2 DEF InnerParts
<1>4. ASSUME NEW j \in DOMAIN Codes, Codes[j] \in InnerParts(name)
      PROVE  j = k
  <2>1. PICK i \in 2..(Len(name.parts) - 1) : Codes[j] = Lower[name.parts[i]]
    BY <1>4 DEF InnerParts
  <2>2. i = 2
    BY <1>2, <2>1 DEF PlainBehind
  <2>3. Codes[j] = Codes[k]
    BY <1>1, <2>1, <2>2 DEF PlainTable
  <2> QED BY <2>3 DEF PlainTable
<1>5. Entries(InnerParts(name)) = {k}
  BY <1>3, <1>4 DEF Entries
<1> QED BY <1>1, <1>5

(* For a name that follows the convention, the reader that infers the type *)
(* itself (infer_message_type_from_filename) and open_channel, which       *)
(* parses the name first (autodetected_message_type), find the same type:  *)
(* the one at its place.  The condition is needed: with a code in the free *)
(* part of the name, the order of the table decides for the former.        *)
THEOREM InferenceAgrees ==
    ASSUME NEW name, name.parts \in Seq(STRING), PlainTable,
           Conventional(name), PlainBehind(name)
    PROVE  /\ Autodetected(name) = ParsedType(name)
           /\ Infer(name) = ParsedType(name)
<1>1. PICK k \in DOMAIN Codes : /\ Codes[k] = name.parts[2]
                                /\ Entries(InnerParts(name)) = {k}
  BY OneEntry
<1>2. Matches(name) = {k}
  BY <1>1 DEF Matches
<1>3. FirstEntry({k}) = k
  <2>1. k \in Nat
    BY <1>1 DEF PlainTable
  <2> QED BY <2>1 DEF FirstEntry
<1>4. Infer(name) = ParsedType(name)
  BY <1>1, <1>2, <1>3 DEF Infer, ParsedType
<1> QED BY <1>4 DEF Autodetected

-----------------------------------------------------------------------------
(* A type inferred from a file name is a type.                             *)

LEMMA FirstEntryIn ==
    ASSUME NEW S \in SUBSET Nat, S # {}
    PROVE  FirstEntry(S) \in S
<1>1. ASSUME NEW j \in Nat, NEW k \in Nat, j < k
      PROVE  <<j, k>> \in OpToRel(<, Nat)
  BY <1>1, Zenon DEF OpToRel
<1>2. PICK k \in S : \A j \in S : ~(<<j, k>> \in OpToRel(<, Nat))
  BY WFMin, NatLessThanWellFounded
<1>3. ASSUME NEW j \in S PROVE ~(j < k)
  BY <1>1, <1>2
<1>4. \A j \in S : k <= j
  BY <1>3
<1> QED BY <1>4 DEF FirstEntry

LEMMA InferTyped ==
    ASSUME NEW name
    PROVE  Infer(name) \in MessageTypes \union {Unknown}
<1>1. CASE Matches(name) = {}
  BY <1>1 DEF Infer
<1>2. CASE Matches(name) # {}
  <2>1. Matches(name) \subseteq DOMAIN Codes /\ DOMAIN Codes \subseteq Nat
    BY ConfigureAssumption DEF Matches, Entries
  <2>2. FirstEntry(Matches(name)) \in DOMAIN Codes
    BY <1>2, <2>1, FirstEntryIn
  <2>3. Codes[FirstEntry(Matches(name))] \in DOMAIN CodeType
    BY <2>2, ConfigureAssumption
  <2> QED BY <1>2, <2>3, ConfigureAssumption DEF Infer
<1> QED BY <1>1, <1>2

LEMMA DetectedTyped ==
    ASSUME NEW name, Autodetected(name) # None
    PROVE  Autodetected(name) \in MessageTypes \union {Unknown}
<1>1. CASE Conventional(name)
  <2>1. PICK k \in DOMAIN Codes : Codes[k] = name.parts[2]
    BY <1>1 DEF Conventional
  <2>2. name.parts[2] \in DOMAIN CodeType
    BY <2>1, ConfigureAssumption
  <2> QED BY <1>1, <2>2, ConfigureAssumption DEF Autodetected, ParsedType
<1>2. CASE ~Conventional(name)
  BY <1>2, InferTyped DEF Autodetected
<1> QED BY <1>1, <1>2

-----------------------------------------------------------------------------
(* The inductive invariant.                                                *)

Unopened    == {"type", "single", "topics", "types", "open", "configure", "open several"}
OnMulti     == {"topics", "types", "open", "narrow"}
OnSingle    == {"type", "single"}
WithRequest == {"type", "single", "topics", "types", "open"}

(* A file that open() left with an exception.                              *)
Orphaned == file # None /\ FileAt[file].state = "malformed"

(* There is one reader, and up to the call that opens it nothing is open;  *)
(* which kind it is follows from the step, as long as that matters.        *)
CInv ==
    /\ single \in SingleReaders \union {None}
    /\ single # None => file = None
    /\ step \in Unopened => NothingOpen
    /\ step = "idle" => NothingOpen \/ Orphaned
    /\ step \in OnMulti => single = None
    /\ step \in OnSingle => single # None
    /\ step \in WithRequest => asked \in Requests
    /\ wanted \in SUBSET Requests

(* What the calls of a reader do to its file.                              *)
LEMMA OpenOutcome ==
    ASSUME NEW p \in Paths, Open(p), file = None
    PROVE  \/ ret'.status = "OPENED" /\ file' = p /\ FileAt[p].state = "readable"
           \/ ret'.status = "REFUSED" /\ file' = None
           \/ ret'.status = "OPEN RAISED" /\ file' = p /\ FileAt[p].state = "malformed"
<1>1. CASE OpenReadable(p)
  BY <1>1 DEF OpenReadable, Answer
<1>2. CASE OpenMissing(p) \/ OpenDamaged(p)
  <2>1. ret'.status = "REFUSED"
    BY <1>2 DEF OpenMissing, OpenDamaged, Answer
  <2>2. file' = None
    BY <1>2 DEF OpenMissing, OpenDamaged, handle
  <2> QED BY <2>1, <2>2
<1>3. CASE OpenRaises(p)
  BY <1>3 DEF OpenRaises, Answer
<1>4. ~OpenAgain(p)
  BY DEF OpenAgain
<1> QED BY <1>1, <1>2, <1>3, <1>4 DEF Open

LEMMA CreateReaderFresh ==
    ASSUME NEW p, CreateReader(p)
    PROVE  /\ single' \in SingleReaders \union {None}
           /\ NothingOpen'
           /\ file' = None
           /\ Format(p) = "single" => single' # None
           /\ Format(p) # "single" => single' = None
<1>1. [type |-> Unknown, open |-> FALSE, frames |-> 0] \in SingleReaders
  BY ConfigureAssumption DEF SingleReaders
<1> QED BY <1>1, SingleAssumption DEF CreateReader, NothingOpen

LEMMA CloseReaderCloses ==
    ASSUME CInv, CloseReader
    PROVE  /\ single' \in SingleReaders \union {None}
           /\ single' # None => file' = None
           /\ NothingOpen'
<1>1. CASE single = None
  BY <1>1 DEF CloseReader, Close, NothingOpen
<1>2. CASE single # None
  <2>1. single \in SingleReaders /\ file = None
    BY <1>2 DEF CInv
  <2>2. single' = [single EXCEPT !.open = FALSE] /\ file' = file
    BY <1>2 DEF CloseReader, vars, handle
  <2> QED BY <2>1, <2>2 DEF SingleReaders, NothingOpen
<1> QED BY <1>1, <1>2

(* A type set or a file opened leaves a single-channel reader one.         *)
LEMMA ReadsAsTyped ==
    ASSUME single \in SingleReaders, NEW type \in MessageTypes \union {Unknown}, ReadsAs(type)
    PROVE  single' \in SingleReaders /\ single'.open = single.open
BY DEF ReadsAs, SingleReaders

LEMMA TypeToOpenTyped ==
    ASSUME single \in SingleReaders, NEW p
    PROVE  TypeToOpen(p) \in MessageTypes \union {Unknown}
BY InferTyped DEF TypeToOpen, SingleReaders

LEMMA SingleOpensTyped ==
    ASSUME single \in SingleReaders, NEW p, SingleOpens(p)
    PROVE  single' \in SingleReaders
BY TypeToOpenTyped DEF SingleOpens, SingleReaders

LEMMA ReadWithTyped ==
    ASSUME CInv, NEW status, ReadWith(status)
    PROVE  /\ single' \in SingleReaders \union {None}
           /\ single' # None => file' = None
<1>1. CASE single = None
  BY <1>1 DEF ReadWith
<1>2. CASE single # None
  <2>1. single \in SingleReaders /\ file = None
    BY <1>2 DEF CInv
  <2>2. file' = file /\ ReadSingle(status)
    BY <1>2 DEF ReadWith, vars, handle
  <2> QED BY <2>1, <2>2, ConfigureAssumption DEF ReadSingle, SingleReaders
<1> QED BY <1>1, <1>2

-----------------------------------------------------------------------------
(* Initially, and when nothing changes that the invariant speaks of.       *)

LEMMA ClientInitSound == ConvertInit => CInv
BY SingleAssumption DEF ConvertInit, ChannelInit, Init, CInv, NothingOpen,
   Unopened, OnMulti, OnSingle, WithRequest

LEMMA KeptSound ==
    ASSUME CInv, UNCHANGED <<file, single, request>>,
           UNCHANGED step \/ step' \notin Unopened \union OnMulti \union {"idle"}
    PROVE  CInv'
BY DEF CInv, request, NothingOpen, Orphaned, Unopened, OnMulti, OnSingle, WithRequest

(* A call that ends with nothing open, or with a file nobody holds.        *)
LEMMA DoneSound ==
    ASSUME CInv, NothingOpen' \/ (Orphaned' /\ single' = None), single' \in SingleReaders \union {None},
           step' = "idle", wanted' \in SUBSET Requests
    PROVE  CInv'
BY DEF CInv, NothingOpen, Unopened, OnMulti, OnSingle, WithRequest

(* A call that ends with a reader that is used.                            *)
LEMMA UsedSound ==
    ASSUME CInv, single' \in SingleReaders \union {None}, single' # None => file' = None,
           step' \in {"ready", "several", "output", "frames", "write", "leave"},
           wanted' \in SUBSET Requests
    PROVE  CInv'
BY DEF CInv, Unopened, OnMulti, OnSingle, WithRequest

(* A request that makes its reader.                                        *)
LEMMA CreatedSound ==
    ASSUME CInv, NEW s \in Requests, Request(s), CreateReader(s.path),
           \/ step' = "type" /\ Format(s.path) = "single"
           \/ step' = "topics" /\ Format(s.path) # "single"
    PROVE  CInv'
BY CreateReaderFresh
   DEF CInv, Request, NothingOpen, Unopened, OnMulti, OnSingle, WithRequest

-----------------------------------------------------------------------------
(* One lemma per phase of open_channel.                                    *)

LEMMA RefusalSound ==
    ASSUME CInv, NEW s \in Requests,
           OpenChannelMissing(s) \/ OpenChannelUnsupported(s)
    PROVE  CInv'
<1>1. /\ NothingOpen \/ Orphaned
      /\ UNCHANGED <<file, single>> /\ step' = "idle" /\ wanted' = {}
  BY DEF OpenChannelMissing, OpenChannelUnsupported, Startable, Request, Fail,
     readerVars, vars, handle, CInv
<1> QED BY <1>1, DoneSound DEF NothingOpen, Orphaned, CInv

LEMMA RequestSound ==
    ASSUME CInv, NEW s \in Requests, OpenChannel(s) \/ OpenSingle(s)
    PROVE  CInv'
<1>1. Request(s) /\ CreateReader(s.path)
  BY DEF OpenChannel, OpenSingle
<1>2. \/ step' = "type" /\ Format(s.path) = "single"
      \/ step' = "topics" /\ Format(s.path) # "single"
  BY DEF OpenChannel, OpenSingle
<1> QED BY <1>1, <1>2, CreatedSound

LEMMA ConfigureSingleSound == ASSUME CInv, ConfigureSingle PROVE CInv'
<1>1. /\ step = "type" /\ step' = "single" /\ UNCHANGED <<file, request>>
      /\ single \in SingleReaders /\ file = None /\ ~single.open /\ asked \in Requests
  BY DEF ConfigureSingle, Go, CInv, NothingOpen, Unopened, OnSingle, WithRequest, vars, handle
<1>2. single' \in SingleReaders /\ single'.open = single.open
  <2>1. CASE ~Concrete(TypeFor(asked))
    BY <1>1, <2>1 DEF ConfigureSingle
  <2>2. CASE Concrete(TypeFor(asked))
    <3>1. TypeFor(asked) \in MessageTypes \union {Unknown}
      BY <1>1, <2>2, DetectedTyped DEF TypeFor, Concrete, Requests
    <3>2. ReadsAs(TypeFor(asked))
      BY <2>2 DEF ConfigureSingle
    <3> QED BY <1>1, <3>1, <3>2, ReadsAsTyped
  <2> QED BY <2>1, <2>2
<1> QED
  BY <1>1, <1>2, SingleAssumption
  DEF CInv, request, NothingOpen, Unopened, OnMulti, OnSingle, WithRequest

(* open() of a single-channel reader, by whichever client.                 *)
LEMMA SingleOpenSound ==
    ASSUME CInv, step = "single", UNCHANGED vars, UNCHANGED request,
           \/ SingleOpenFails(asked.path) /\ step' = "idle"
           \/ SingleOpens(asked.path) /\ step' \in {"ready", "output"}
    PROVE  CInv'
<1>1. single \in SingleReaders /\ file = None /\ ~single.open
  BY DEF CInv, NothingOpen, Unopened, OnSingle
<1>2. file' = file /\ wanted' = wanted
  BY DEF vars, handle, request
<1>3. CASE SingleOpenFails(asked.path) /\ step' = "idle"
  <2>1. single' \in SingleReaders /\ single'.open = single.open
    BY <1>1, <1>3, TypeToOpenTyped, ReadsAsTyped DEF SingleOpenFails
  <2> QED BY <1>1, <1>2, <1>3, <2>1, DoneSound DEF NothingOpen, CInv
<1>4. CASE SingleOpens(asked.path) /\ step' \in {"ready", "output"}
  BY <1>1, <1>2, <1>4, SingleOpensTyped, UsedSound DEF CInv
<1> QED BY <1>3, <1>4

LEMMA ConfigureMultiSound ==
    ASSUME CInv, ConfigureTopics \/ ConfigureTypes PROVE CInv'
<1>1. /\ step \in {"topics", "types"} /\ step' \in {"types", "open", "idle"}
      /\ UNCHANGED <<file, single, request>>
  BY DEF ConfigureTopics, ConfigureTypes, Go, Fail, SetTopics, SetTopicMessageTypes, vars, handle
<1> QED
  BY <1>1 DEF CInv, request, NothingOpen, Unopened, OnMulti, OnSingle, WithRequest

(* open() of the MultiTraceReader, by whichever client.                    *)
LEMMA MultiOpenSound ==
    ASSUME CInv, step = "open", Open(asked.path), UNCHANGED <<single, request>>,
           IF ret'.status = "OPENED" THEN step' \in {"narrow", "output"} ELSE step' = "idle"
    PROVE  CInv'
<1>1. /\ single = None /\ file = None /\ asked \in Requests /\ wanted \in SUBSET Requests
  BY DEF CInv, NothingOpen, Unopened, OnMulti, WithRequest
<1>2. asked.path \in Paths
  BY <1>1 DEF Requests
<1>3. CASE ret'.status # "OPENED"
  <2>1. file' = None \/ Orphaned'
    BY <1>1, <1>2, <1>3, OpenOutcome, NamesAssumption DEF Orphaned
  <2> QED BY <1>1, <1>3, <2>1, DoneSound DEF NothingOpen, request
<1>4. CASE ret'.status = "OPENED"
  BY <1>1, <1>4 DEF CInv, request, Unopened, OnMulti, OnSingle, WithRequest
<1> QED BY <1>3, <1>4

LEMMA NarrowSound == ASSUME CInv, NarrowFails \/ Narrow PROVE CInv'
<1>1. single = None /\ single' = None /\ wanted' = wanted /\ wanted \in SUBSET Requests
  BY DEF CInv, OnMulti, NarrowFails, Narrow, request
<1>2. CASE NarrowFails
  BY <1>1, <1>2, DoneSound DEF NarrowFails, Fail, Close, NothingOpen
<1>3. CASE Narrow
  BY <1>1, <1>3, UsedSound DEF Narrow
<1> QED BY <1>2, <1>3

-----------------------------------------------------------------------------
(* Using a reader.                                                         *)

LEMMA UseSound ==
    ASSUME CInv, ReadResult \/ ReadStrict \/ ReadSeveral \/ CloseChannel \/ CloseSeveral
    PROVE  CInv'
<1>1. step' \in {"ready", "several"} /\ wanted' \in SUBSET Requests
  BY DEF ReadResult, ReadStrict, ReadSeveral, CloseChannel, CloseSeveral, KeepChannel,
     request, CInv
<1>2. CASE \E status \in {"OK", "INCOMPATIBLE", "ERROR", "EOF"} : ReadWith(status)
  BY <1>1, <1>2, ReadWithTyped, UsedSound
<1>3. CASE CloseReader
  BY <1>1, <1>3, CloseReaderCloses, UsedSound
<1> QED
  BY <1>2, <1>3 DEF ReadResult, ReadStrict, ReadSeveral, CloseChannel, CloseSeveral

(* Several channels through one reader.                                    *)
LEMMA WantSound == ASSUME CInv, NEW specs \in Wants, WantSeveral(specs) PROVE CInv'
<1>1. PICK s \in specs : CreateReader(s.path)
  BY DEF WantSeveral
<1>2. wanted' \in SUBSET Requests /\ step' = "configure"
  BY WantsAssumption DEF WantSeveral
<1> QED
  BY <1>1, <1>2, CreateReaderFresh DEF CInv, Unopened, OnMulti, OnSingle, WithRequest

LEMMA ConfigureSeveralSound == ASSUME CInv, ConfigureSeveral PROVE CInv'
<1>1. /\ step = "configure" /\ step' \in {"idle", "open several"} /\ UNCHANGED request
      /\ NothingOpen /\ wanted \in SUBSET Requests
  BY DEF ConfigureSeveral, Fail, Go, CInv, Unopened
<1>2. /\ file' = file /\ single' \in SingleReaders \union {None}
      /\ NothingOpen'
  <2>1. CASE Unfit(wanted)
    BY <1>1, <2>1 DEF ConfigureSeveral, readerVars, vars, handle, NothingOpen, CInv
  <2>2. CASE ~Unfit(wanted) /\ single = None
    BY <1>1, <2>2 DEF ConfigureSeveral, ConfigureFor, handle, NothingOpen
  <2>3. CASE ~Unfit(wanted) /\ single # None
    <3>1. single \in SingleReaders /\ file' = file
      BY <2>3 DEF ConfigureSeveral, ConfigureFor, vars, handle, CInv
    <3>2. UNCHANGED single \/ \E type \in TypesOf(wanted) : ReadsAs(type)
      BY <2>3 DEF ConfigureSeveral, ConfigureFor
    <3>3. TypesOf(wanted) \subseteq MessageTypes \union {Unknown}
      BY <1>1 DEF TypesOf, Requests
    <3>4. single' \in SingleReaders /\ single'.open = single.open
      BY <3>1, <3>2, <3>3, ReadsAsTyped
    <3> QED BY <1>1, <2>3, <3>1, <3>4 DEF NothingOpen
  <2> QED BY <2>1, <2>2, <2>3
<1> QED
  BY <1>1, <1>2
  DEF CInv, request, NothingOpen, Unopened, OnMulti, OnSingle, WithRequest

LEMMA OpenSeveralSound == ASSUME CInv, OpenSeveral PROVE CInv'
<1>1. /\ step = "open several" /\ UNCHANGED request
      /\ NothingOpen /\ wanted' = wanted /\ wanted \in SUBSET Requests
  BY DEF OpenSeveral, CInv, Unopened, request
<1>2. PICK s \in wanted :
          \/ /\ single = None
             /\ Open(s.path) /\ UNCHANGED single
             /\ IF ret'.status = "REFUSED" THEN step' = "idle" ELSE step' = "several"
          \/ /\ single # None
             /\ SingleOpenFails(s.path) /\ UNCHANGED vars /\ step' = "idle"
          \/ /\ single # None
             /\ SingleOpens(s.path) /\ UNCHANGED vars /\ step' = "several"
  BY DEF OpenSeveral, SingleFails, Fail, Go
<1>3. s.path \in Paths /\ file = None
  BY <1>1 DEF Requests, NothingOpen
<1>4. CASE single = None
  <2>1. CASE ret'.status = "REFUSED"
    BY <1>1, <1>2, <1>3, <1>4, <2>1, OpenOutcome, DoneSound DEF NothingOpen
  <2>2. CASE ret'.status # "REFUSED"
    BY <1>1, <1>2, <1>4, <2>2, UsedSound
  <2> QED BY <2>1, <2>2
<1>5. CASE single # None
  <2>1. single \in SingleReaders /\ ~single.open /\ file' = None
    BY <1>1, <1>2, <1>3, <1>5 DEF CInv, NothingOpen, vars, handle
  <2>2. CASE SingleOpenFails(s.path) /\ step' = "idle"
    <3>1. single' \in SingleReaders /\ single'.open = single.open
      BY <2>1, <2>2, TypeToOpenTyped, ReadsAsTyped DEF SingleOpenFails
    <3> QED BY <1>1, <2>1, <2>2, <3>1, DoneSound DEF NothingOpen
  <2>3. CASE SingleOpens(s.path) /\ step' = "several"
    BY <1>1, <2>1, <2>3, SingleOpensTyped, UsedSound
  <2> QED BY <1>2, <1>5, <2>2, <2>3
<1> QED BY <1>4, <1>5

LEMMA ChannelSound == ASSUME CInv, ChannelNext PROVE CInv'
<1>1. CASE OpenSingleFails \/ OpenSingleSucceeds
  BY <1>1, SingleOpenSound DEF OpenSingleFails, SingleFails, OpenSingleSucceeds, Fail
<1>2. CASE OpenReader
  <2>1. /\ step = "open" /\ Open(asked.path) /\ UNCHANGED <<single, request>>
        /\ IF ret'.status = "OPENED" THEN step' \in {"narrow", "output"} ELSE step' = "idle"
    BY <1>2 DEF OpenReader, AfterOpen, Fail, Go
  <2> QED BY <2>1, MultiOpenSound
<1> QED
  BY <1>1, <1>2, RefusalSound, RequestSound, ConfigureSingleSound, ConfigureMultiSound,
     NarrowSound, UseSound, WantSound, ConfigureSeveralSound, OpenSeveralSound
  DEF ChannelNext

-----------------------------------------------------------------------------
(* The conversion.                                                         *)

LEMMA StartSound ==
    ASSUME CInv, NEW s \in Requests, NEW name, ConvertRefused(s, name) \/ ConvertStarts(s, name)
    PROVE  CInv'
<1>1. CASE ConvertRefused(s, name)
  <2>1. /\ NothingOpen \/ Orphaned
        /\ UNCHANGED <<file, single>> /\ step' = "idle" /\ wanted' = {}
    BY <1>1 DEF ConvertRefused, Start, Startable, Request, Fail, readerVars, vars, handle, CInv
  <2> QED BY <2>1, DoneSound DEF NothingOpen, Orphaned, CInv
<1>2. CASE ConvertStarts(s, name)
  <2>1. Request(s) /\ CreateReader(s.path)
    BY <1>2 DEF ConvertStarts, Start
  <2>2. \/ step' = "type" /\ Format(s.path) = "single"
        \/ step' = "topics" /\ Format(s.path) # "single"
    BY <1>2 DEF ConvertStarts
  <2> QED BY <2>1, <2>2, CreatedSound
<1> QED BY <1>1, <1>2

LEMMA OpenInputSound == ASSUME CInv, OpenInput PROVE CInv'
<1>1. CASE step = "open"
  <2>1. /\ Open(asked.path) /\ UNCHANGED <<single, request>>
        /\ IF ret'.status = "OPENED" THEN step' \in {"narrow", "output"} ELSE step' = "idle"
    BY <1>1 DEF OpenInput, AfterOpen, Fail, Go
  <2> QED BY <1>1, <2>1, MultiOpenSound
<1>2. CASE step = "single"
  <2>1. /\ UNCHANGED vars /\ UNCHANGED request
        /\ \/ SingleOpenFails(asked.path) /\ step' = "idle"
           \/ SingleOpens(asked.path) /\ step' \in {"ready", "output"}
    BY <1>2 DEF OpenInput, SingleFails, Fail, Go
  <2> QED BY <1>2, <2>1, SingleOpenSound
<1> QED BY <1>1, <1>2 DEF OpenInput

LEMMA OutputSound == ASSUME CInv, OutputFails \/ OutputAbandoned \/ OutputOpens PROVE CInv'
<1>1. wanted' \in SUBSET Requests
  BY DEF CInv, OutputFails, OutputAbandoned, OutputOpens, request
<1>2. CASE OutputFails \/ OutputAbandoned
  <2>1. CloseReader /\ step' = "idle"
    BY <1>2 DEF OutputFails, OutputAbandoned, Fail
  <2> QED BY <1>1, <2>1, CloseReaderCloses, DoneSound
<1>3. CASE OutputOpens
  <2>1. step' = "frames" /\ UNCHANGED <<file, single>>
    BY <1>3 DEF OutputOpens, Go, readerVars, vars, handle
  <2> QED BY <1>1, <2>1, UsedSound DEF CInv
<1> QED BY <1>2, <1>3

LEMMA FramesSound ==
    ASSUME CInv, ReadFrame \/ WriteFrame \/ WriteFrameFails \/ Leave PROVE CInv'
<1>1. wanted' \in SUBSET Requests
  BY DEF CInv, ReadFrame, WriteFrame, WriteFrameFails, Leave, request
<1>2. CASE ReadFrame
  <2>1. /\ \E status \in {"OK", "INCOMPATIBLE", "ERROR", "EOF"} : ReadWith(status)
        /\ step' \in {"write", "frames", "leave"}
    BY <1>2 DEF ReadFrame
  <2> QED BY <1>1, <2>1, ReadWithTyped, UsedSound
<1>3. CASE WriteFrame \/ WriteFrameFails
  <2>1. step' \in {"frames", "leave"} /\ UNCHANGED <<file, single>>
    BY <1>3 DEF WriteFrame, WriteFrameFails, Go, readerVars, vars, handle
  <2> QED BY <1>1, <2>1, UsedSound DEF CInv
<1>4. CASE Leave
  BY <1>1, <1>4, CloseReaderCloses, DoneSound DEF Leave
<1> QED BY <1>2, <1>3, <1>4

LEMMA ConvertSound == ASSUME CInv, Convert PROVE CInv'
<1>1. CASE \E s \in Inputs, name \in OutputNames : ConvertRefused(s, name) \/ ConvertStarts(s, name)
  BY <1>1, StartSound DEF Inputs
<1>2. CASE ConfigureInput
  BY <1>2, ConfigureSingleSound, ConfigureMultiSound DEF ConfigureInput
<1> QED
  BY <1>1, <1>2, OpenInputSound, OutputSound, FramesSound DEF Convert

-----------------------------------------------------------------------------
LEMMA StutterSound == ASSUME CInv, UNCHANGED <<allVars, convertVars>> PROVE CInv'
<1>1. UNCHANGED <<file, single, request, step>>
  BY DEF allVars, readerVars, channelVars, vars, handle
<1> QED BY <1>1, KeptSound

(* open_channel, the conversion and a client with a reader of its own may  *)
(* fail at any of their calls, for any file, name and request: whenever    *)
(* one of them is over without handing a reader out, no file is open - but *)
(* for one over which the library failed inside open() with an exception   *)
(* that open() does not catch.                                             *)
THEOREM OrphanFree == ClientsSpec => []NoOrphanedFile
<1>1. ConvertInit => CInv
  BY ClientInitSound
<1>2. CInv /\ [ClientsNext]_<<allVars, convertVars>> => CInv'
  BY ChannelSound, ConvertSound, StutterSound DEF ClientsNext
<1>3. CInv => NoOrphanedFile
  BY DEF CInv, NoOrphanedFile, Orphaned
<1> QED BY <1>1, <1>2, <1>3, PTL DEF ClientsSpec

-----------------------------------------------------------------------------
(* What the clients hand out.  First the reader under them: they never     *)
(* peek, and never change what is skipped or how messages are decoded.     *)

Calm == peeked = None /\ ~exhausted /\ skip = TRUE /\ mode = "precompiled"

(* Nothing is iterated and nothing on record.                              *)
Blank == iterator = None /\ delivered = <<>> /\ skipped = {} /\ raised = {}

(* Under these settings a message is handed out if and only if it can be.  *)
Sifted == file # None => /\ \A i \in Seen : ~Incompatible(file, i)
                         /\ \A i \in skipped : Incompatible(file, i)
                         /\ raised = {}

RInv == IInv /\ OInv /\ Calm /\ Sifted

LEMMA CalmOutput == ASSUME TypeOK, Calm PROVE Output = delivered /\ delivered \in Seq(Nat)
BY DEF TypeOK, Calm, Output, Pending

LEMMA IncompatibleKept ==
    ASSUME Calm, mode' = mode, expected' = expected, NEW p, NEW i
    PROVE  Incompatible(p, i)' = Incompatible(p, i)
<1>1. NoDecoder(p, i) = FALSE /\ NoDecoder(p, i)' = FALSE
  BY DEF NoDecoder, Calm
<1>2. Mismatch(p, i)' = Mismatch(p, i)
  BY DEF Mismatch
<1> QED BY <1>1, <1>2 DEF Incompatible, Broken

LEMMA CreateSound ==
    ASSUME NEW p, CreateReader(p)
    PROVE  RInv' /\ Blank' /\ reader' = None
<1>1. /\ TypeOK' /\ OInv'
  <2>1. <<>> \in Seq(Nat) /\ NoExpectations \in [Topics -> MessageTypes \union {None}]
        /\ NoCache \in [ChannelIds -> MessageTypes \union {None}]
        /\ NoTypes \in [SchemaIds -> MessageTypes \union {None}]
    BY DEF NoExpectations, NoCache, NoTypes
  <2>2. Answer("NONE") \in Answers
    BY AnswerTyped DEF Statuses
  <2> QED
    BY <2>1, <2>2, ClosedOrdered DEF CreateReader, TypeOK, ForgetHistory, Modes, Readable
<1>2. IInv'
  BY <1>1 DEF CreateReader, IInv, BoundToOpenFile, DecodedBySchema, IteratorInFile, CachesTrue,
     FactoryTrue, NoTypes, PeekIsResult, Answer, Readable
<1> QED
  BY <1>1, <1>2 DEF CreateReader, RInv, Calm, Sifted, Blank, ForgetHistory

(* open() on a reader that is not open.                                    *)
LEMMA OpenFacts ==
    ASSUME RInv, Blank, file = None, NEW p \in Paths, Open(p)
    PROVE  /\ RInv' /\ UNCHANGED settings
           /\ ret'.status = "OPENED" => file' = p /\ Readable' /\ delivered' = <<>>
           /\ ret'.status = "OPEN RAISED" => file' = p
           /\ ret'.status \in {"OPENED", "REFUSED", "OPEN RAISED"}
<1>1. IInv' /\ OInv'
  BY OpenSound, OpenOrdered DEF RInv
<1>2. CASE OpenReadable(p)
  <2>1. /\ file' = p /\ path' = p /\ peeked' = None /\ exhausted' = FALSE /\ UNCHANGED settings
        /\ delivered' = <<>> /\ skipped' = {} /\ raised' = {} /\ ret'.status = "OPENED"
    BY <1>2 DEF OpenReadable, StartIteration, ForgetHistory, Answer
  <2>2. Seen' = {}
    BY <2>1 DEF Seen, Output, Pending
  <2>3. Readable'
    BY <1>2, <2>1, NamesAssumption DEF OpenReadable, Readable
  <2> QED
    BY <1>1, <2>1, <2>2, <2>3 DEF RInv, Calm, Sifted, settings
<1>3. CASE OpenMissing(p) \/ OpenDamaged(p)
  <2>1. /\ file' = None /\ ret'.status = "REFUSED" /\ UNCHANGED <<settings, cursor>>
    BY <1>3 DEF OpenMissing, OpenDamaged, Answer, handle
  <2> QED BY <1>1, <2>1 DEF RInv, Calm, Sifted, settings, cursor
<1>4. CASE OpenRaises(p)
  <2>1. /\ file' = p /\ ret'.status = "OPEN RAISED" /\ UNCHANGED <<settings, cursor, history>>
    BY <1>4 DEF OpenRaises, Answer
  <2>2. Seen' = {} /\ skipped' = {} /\ raised' = {}
    <3>1. delivered' = <<>> /\ peeked' = None /\ skipped' = {} /\ raised' = {}
      BY <2>1 DEF RInv, Calm, Blank, cursor, history
    <3> QED BY <3>1 DEF Seen, Output, Pending
  <2> QED BY <1>1, <2>1, <2>2 DEF RInv, Calm, Sifted, settings, cursor
<1> QED BY <1>2, <1>3, <1>4 DEF Open, OpenAgain

LEMMA CloseFacts ==
    ASSUME RInv, Close
    PROVE  RInv' /\ UNCHANGED settings /\ file' = None
<1>1. IInv' /\ OInv'
  BY CloseSound, ClosedOrdered DEF RInv, Close, Readable
<1> QED BY <1>1 DEF Close, RInv, Calm, Sifted, settings

LEMMA SetTopicsFacts ==
    ASSUME RInv, NEW ts \in SUBSET Topics, SetTopics(ts)
    PROVE  /\ RInv' /\ topics' = ts /\ UNCHANGED <<handle, expected, skip, mode>>
           /\ Blank /\ reader = None => Blank'
<1>1. IInv' /\ OInv'
  BY SetTopicsSound, SetTopicsOrdered DEF RInv
<1>2. /\ topics' = ts /\ UNCHANGED <<handle, expected, skip, mode>>
      /\ peeked' = None /\ exhausted' = FALSE
      /\ delivered' = <<>> /\ skipped' = {} /\ raised' = {}
      /\ reader = None => iterator' = iterator
  BY DEF SetTopics, StartIteration, ForgetHistory
<1>3. Seen' = {}
  BY <1>2 DEF Seen, Output, Pending
<1> QED BY <1>1, <1>2, <1>3 DEF RInv, Calm, Sifted, Blank

(* configure_reader_for_channels sets both at once.                        *)
LEMMA ConfiguredFacts ==
    ASSUME RInv, Blank, file = None, UNCHANGED <<handle, skip, mode, caches, cursor, ret, history>>,
           topics' \in SUBSET Topics, expected' \in [Topics -> MessageTypes \union {None}]
    PROVE  RInv' /\ Blank'
<1>1. ~Readable /\ ~Readable' /\ OInv'
  BY ClosedOrdered DEF handle, Readable
<1>2. IInv'
  BY <1>1 DEF RInv, IInv, TypeOK, BoundToOpenFile, DecodedBySchema, IteratorInFile, CachesTrue,
     FactoryTrue, PeekIsResult, handle, caches, cursor, history
<1> QED BY <1>1, <1>2 DEF RInv, Calm, Sifted, Blank, handle, cursor, history

(* The expectations are only set on a reader that is not open.             *)
LEMMA SetTypesFacts ==
    ASSUME RInv, Blank, file = None, NEW e \in [Topics -> MessageTypes \union {None}],
           SetTopicMessageTypes(e)
    PROVE  /\ RInv' /\ Blank' /\ expected' = e /\ UNCHANGED <<handle, topics, skip, mode>>
<1>1. /\ expected' = e /\ UNCHANGED <<handle, topics, skip, mode, caches, cursor, ret, history>>
      /\ topics' \in SUBSET Topics
  BY DEF SetTopicMessageTypes, RInv, IInv, TypeOK
<1>2. RInv' /\ Blank'
  BY <1>1, ConfiguredFacts
<1> QED BY <1>1, <1>2

(* What a read of this reader may do.  An OK message was to come, is handed*)
(* out and names the type of its own schema; the end leaves nothing to come.*)
ReadStep ==
    /\ RInv' /\ UNCHANGED <<handle, settings>>
    /\ ret'.status \in {"OK", "INCOMPATIBLE", "ERROR", "EOF"}
    /\ ret'.status = "EOF" => iterator' = None /\ delivered' = delivered
    /\ ret'.status = "OK" =>
          /\ Readable /\ ret'.msg \in Left
          /\ delivered' = Append(delivered, ret'.msg)
          /\ Message(file, ret'.msg).payload = "good"
          /\ ret'.type = SchemaType(file, ret'.msg)

LEMMA ReadEndsFacts ==
    ASSUME RInv, UNCHANGED <<handle, settings>>,
           FetchNothing(FALSE) \/ FetchFromClosed(FALSE) \/ FetchExhausts(FALSE)
    PROVE  /\ Calm' /\ Sifted'
           /\ iterator' = None /\ delivered' = delivered
           /\ ret'.status \in {"ERROR", "EOF"}
<1>1. /\ iterator' = None /\ UNCHANGED <<delivered, raised, peeked, exhausted>>
      /\ ret'.status \in {"ERROR", "EOF"}
  BY DEF FetchNothing, FetchFromClosed, FetchExhausts, Give, GiveResult, Answer, Failure,
     Delivered
<1>2. Calm'
  BY <1>1 DEF RInv, Calm, settings
<1>3. Seen' = Seen
  BY <1>1 DEF Seen, Output, Pending
<1>4. ASSUME NEW i PROVE Incompatible(file, i)' = Incompatible(file, i)
  BY IncompatibleKept DEF RInv, handle, settings, Incompatible, Broken, Mismatch, NoDecoder, Calm
<1>5. CASE file = None
  BY <1>1, <1>2, <1>5 DEF Sifted, handle
<1>6. CASE FetchNothing(FALSE)
  BY <1>1, <1>2, <1>3, <1>4, <1>6 DEF FetchNothing, Sifted, RInv, handle
<1>7. CASE file # None /\ FetchExhausts(FALSE)
  <2>1. reader = file /\ skip = TRUE
    BY <1>7 DEF FetchExhausts, RInv, Calm, IInv, BoundToOpenFile
  <2>2. \A i \in iterator : Incompatible(file, i)
    BY <1>7, <2>1 DEF FetchExhausts, Stops, Passed
  <2>3. skipped' = skipped \union iterator
    BY <1>7 DEF FetchExhausts
  <2>4. (\A i \in Seen : ~Incompatible(file, i)) /\ (\A i \in skipped : Incompatible(file, i)) /\ raised = {}
    BY <1>7 DEF RInv, Sifted
  <2> QED BY <1>1, <1>2, <1>3, <1>4, <2>2, <2>3, <2>4 DEF Sifted
<1>8. CASE FetchFromClosed(FALSE)
  BY <1>1, <1>2, <1>3, <1>4, <1>8 DEF FetchFromClosed, Sifted, RInv, handle
<1> QED BY <1>1, <1>2, <1>5, <1>6, <1>7, <1>8

LEMMA ReadStopsFacts ==
    ASSUME RInv, UNCHANGED <<handle, settings>>, FetchStops(FALSE)
    PROVE  /\ Calm' /\ Sifted'
           /\ ret'.status \in {"OK", "ERROR"}
           /\ Readable /\ ret'.msg \in Left
           /\ delivered' = Append(delivered, ret'.msg)
           /\ ret'.status = "OK" => /\ Message(file, ret'.msg).payload = "good"
                                    /\ ret'.type = SchemaType(file, ret'.msg)
<1>1. /\ iterator # None /\ Readable /\ file # None /\ reader = file /\ file \in Paths
      /\ iterator \subseteq DOMAIN FileAt[file].messages /\ skip = TRUE
  BY DEF FetchStops, RInv, Calm, IInv, BoundToOpenFile, IteratorInFile, TypeOK, Readable
<1>2. PICK i \in Stops : /\ IsFirst(file, i, Stops)
                         /\ skipped' = skipped \union {j \in iterator : Before(file, j, i)}
                         /\ \E res \in ResultsOf(file, i) : GiveResult(res)
  BY <1>1 DEF FetchStops, Give
<1>. PICK res \in ResultsOf(file, i) : GiveResult(res)
  BY <1>2
<1>3. i \in iterator /\ ~Incompatible(file, i)
  BY <1>1 DEF Stops, Passed
<1>4. i \in DOMAIN FileAt[file].messages /\ i \in Nat /\ i # 0
  BY <1>1, <1>3, TimeTyped
<1>5. /\ res.msg = i /\ res.status \in {"OK", "ERROR"}
      /\ res.status = "OK" => Message(file, i).payload = "good" /\ res.type = SchemaType(file, i)
  <2>1. ~Raises(file, i)
    BY DEF Raises, RInv, Calm
  <2>2. CASE Broken(file, i)
    BY <2>2 DEF ResultsOf, Failure
  <2>3. CASE ~Broken(file, i)
    <3>1. ClassUsed(file, i) = SchemaType(file, i)
      BY <1>1, <1>3, <1>4, <2>3, ClassSound DEF Incompatible, RInv, Calm
    <3>2. \/ res = Failure("ERROR", i, SchemaType(file, i))
          \/ res = Decoded(i, SchemaType(file, i), ClassUsed(file, i)) /\ Message(file, i).payload = "good"
      BY <1>3, <2>1, <2>3, <3>1 DEF ResultsOf, Decoded
    <3> QED BY <3>2 DEF Failure, Decoded
  <2> QED BY <2>2, <2>3
<1>6. ret' = res /\ delivered' = Append(delivered, i) /\ UNCHANGED <<raised, peeked, exhausted>>
  BY <1>4, <1>5 DEF GiveResult, Delivered
<1>7. Calm'
  BY <1>6 DEF RInv, Calm, settings
<1>8. Seen' = Seen \union {i}
  <2>1. Output = delivered /\ Output' = delivered' /\ delivered \in Seq(Nat)
    BY <1>6 DEF Output, Pending, RInv, Calm, IInv, TypeOK
  <2>2. Output' = Append(Output, i) /\ Output \in Seq(Nat)
    BY <1>6, <2>1
  <2> QED BY <1>4, <2>2, AppendProperties DEF Seen
<1>9. ASSUME NEW j \in iterator, Before(file, j, i) PROVE Incompatible(file, j)
  <2>1. j \notin Stops
    BY <1>1, <1>2, <1>4, <1>9, BeforeOrders DEF IsFirst
  <2> QED BY <1>1, <2>1 DEF Stops, Passed
<1>10. ASSUME NEW j PROVE Incompatible(file, j)' = Incompatible(file, j)
  BY IncompatibleKept DEF RInv, handle, settings, Incompatible, Broken, Mismatch, NoDecoder, Calm
<1>11. Sifted'
  <2>1. (\A j \in Seen : ~Incompatible(file, j)) /\ (\A j \in skipped : Incompatible(file, j)) /\ raised = {}
    BY <1>1 DEF RInv, Sifted
  <2> QED BY <1>2, <1>3, <1>6, <1>8, <1>9, <1>10, <2>1 DEF Sifted
<1> QED BY <1>1, <1>3, <1>5, <1>6, <1>7, <1>11 DEF Left

LEMMA ReadFacts == ASSUME RInv, ReadMessage PROVE ReadStep
<1>1. ReadOn /\ Fetch(FALSE) /\ UNCHANGED <<handle, settings>>
  BY DEF ReadMessage, ReadPeeked, ReadExhausted, ReadOn, RInv, Calm
<1>2. [Next]_vars
  BY DEF Next
<1>3. IInv' /\ OInv'
  BY <1>2, NextSound, NextOrdered DEF RInv
<1>4. CASE FetchNothing(FALSE) \/ FetchFromClosed(FALSE) \/ FetchExhausts(FALSE)
  BY <1>1, <1>3, <1>4, ReadEndsFacts DEF ReadStep, RInv
<1>5. CASE FetchStops(FALSE)
  BY <1>1, <1>3, <1>5, ReadStopsFacts DEF ReadStep, RInv
<1> QED BY <1>1, <1>4, <1>5 DEF Fetch

-----------------------------------------------------------------------------
(* The inductive invariant of the clients, phase by phase.                 *)

(* The type invariant, but for the reader, of which CInv and RInv speak.   *)
ClientTypes ==
    /\ converting \in BOOLEAN /\ output_name \in OutputNames \union {None}
    /\ output \in {"none", "open", "abandoned", "closed", "short"} /\ converted \in Seq(Nat)
    /\ ~converting =>
          /\ step \in {"idle", "type", "single", "topics", "types", "open", "narrow", "ready",
                      "configure", "open several", "several"}
          /\ asked \in Requests \union {None} /\ wanted \in Wants \union {{}}
          /\ spec \in Resolved \union {None} /\ (spec # None <=> step = "ready")
          /\ answer \in {"none", "OPENED", "CLOSED", "OK", "INCOMPATIBLE", "ERROR", "EOF",
                         "FileNotFoundError", "ValueError", "RuntimeError", "Raised"}
    /\ converting =>
          /\ step \in {"idle", "type", "single", "topics", "types", "open", "output",
                      "frames", "write", "leave"}
          /\ asked \in Inputs \union {None} /\ spec = None /\ wanted = {}

(* Until it is opened a reader has not been used.                          *)
Fresh == step \in Unopened => reader = None /\ Blank

(* The reader is set up for what was asked, and opened on the path asked.  *)
Asking ==
    /\ step \notin {"idle", "configure", "open several", "several"} => asked \in Requests
    /\ step \in OnSingle => asked.type # Unknown /\ single.frames = 0
    /\ step = "type" => single.type = Unknown
    /\ step = "single" =>
          single.type = IF Concrete(TypeFor(asked)) THEN TypeFor(asked) ELSE Unknown
    /\ step \in {"open", "narrow"} /\ asked.topic # None /\ asked.type # None
          => expected[asked.topic] = asked.type
    /\ step \in {"narrow", "output", "frames", "write", "leave"} /\ single = None
          => file = asked.path /\ Readable

(* An adapter keeps to the topic it reports.                               *)
OnItsTopic ==
    step = "ready" /\ single = None =>
        /\ topics = {spec.topic} /\ file \in {None, spec.path}
        /\ asked.topic # None /\ asked.type # None => expected[spec.topic] = asked.type

(* A read that reported the end has left nothing to come.                  *)
AtEnd == step \in {"ready", "leave"} /\ single = None /\ answer = "EOF" => iterator = None

(* A reader for several channels keeps to their topics and types.          *)
OnTheirTopics ==
    step \in {"configure", "open several", "several"} =>
        /\ wanted \in Wants
        /\ step # "configure" =>
              /\ ~Unfit(wanted)
              /\ single = None => /\ topics = TopicsOf(wanted) /\ expected = Expectation(wanted)
                                  /\ file # None => \A s \in wanted : s.path = file
              /\ single # None => TypesOf(wanted) \subseteq {single.type}

(* The conversion goes on, or has come to the end of its input; it has     *)
(* written the message read last unless it is about to.                    *)
Going   == step \in {"frames", "write"} \/ (step = "leave" /\ answer = "EOF")
Current == IF step = "write" THEN {Frame} ELSE {}

SingleSoFar ==
    /\ single.type = ConvertedType
    /\ step = "output" => single.frames = 0
    /\ step = "write" => single.frames >= 1
    /\ Going => converted = [n \in 1..(IF step = "write" THEN single.frames - 1
                                       ELSE single.frames) |-> n]

MultiSoFar ==
    /\ step = "output" => delivered = <<>>
    /\ step = "write" => /\ ret.msg \in Seen /\ SchemaType(file, ret.msg) = ConvertedType
                         /\ \A i \in Seen \ {ret.msg} : Before(file, i, ret.msg)
    /\ Going => /\ \A i \in Seen : Message(file, i).payload = "good"
                /\ {converted[n] : n \in DOMAIN converted}
                      = {i \in Seen : SchemaType(file, i) = ConvertedType} \ Current
                /\ \A m, n \in DOMAIN converted : m < n => Before(file, converted[m], converted[n])

ConvertedSoFar ==
    converting /\ step # "idle" =>
        /\ asked.type = ConvertedType
        /\ step \in Unopened \union {"output"} => converted = <<>>
        /\ step \in {"output", "frames", "write", "leave"} /\ single # None => SingleSoFar
        /\ step \in {"output", "frames", "write", "leave"} /\ single = None => MultiSoFar

Finished == (answer = "DONE" => converting /\ step = "idle") /\ ConvertedAll

Phases == /\ Fresh /\ Asking /\ OnItsTopic /\ AtEnd /\ ResolvedAsAsked
          /\ OnTheirTopics /\ ConvertedSoFar /\ Finished

Sound == RInv /\ ClientTypes /\ Phases
KInv  == CInv /\ Sound

(* Wherever a client gives up, nothing is left to be said.                 *)
LEMMA EndedPhases == ASSUME step' = "idle", answer' # "DONE" PROVE Phases'
BY DEF Phases, Fresh, Asking, OnItsTopic, AtEnd, ResolvedAsAsked, OnTheirTopics,
   ConvertedSoFar, Finished, ConvertedAll, Unopened, OnSingle

LEMMA KeptReader == ASSUME RInv, UNCHANGED vars PROVE RInv'
<1>1. IInv' /\ OInv'
  BY NextSound, NextOrdered DEF RInv
<1>2. Calm'
  BY DEF RInv, Calm, vars, settings, cursor
<1>3. Seen' = Seen /\ UNCHANGED <<file, skipped, raised>>
  BY DEF Seen, Output, Pending, vars, handle, cursor, history
<1>4. ASSUME NEW i PROVE Incompatible(file, i)' = Incompatible(file, i)
  BY DEF Incompatible, Broken, Mismatch, NoDecoder, vars, handle, settings, caches
<1>5. Sifted'
  BY <1>3, <1>4 DEF RInv, Sifted
<1> QED BY <1>1, <1>2, <1>5 DEF RInv

LEMMA KTypes == ASSUME KInv PROVE ConvertTypeOK
BY DEF KInv, CInv, Sound, RInv, IInv, ClientTypes, ConvertTypeOK, ChannelTypeOK

LEMMA ClientsInitSound == ConvertInit => KInv
<1>. SUFFICES ASSUME ConvertInit PROVE KInv
  OBVIOUS
<1>1. CInv
  BY ClientInitSound
<1>2. IInv /\ OInv
  BY InitSound DEF ConvertInit, ChannelInit, Init, OInv, InOrder, Accounted, PastBeforeLeft, Readable
<1>3. RInv
  BY <1>2 DEF ConvertInit, ChannelInit, Init, RInv, Calm, Sifted
<1>4. ClientTypes
  BY DEF ConvertInit, ChannelInit, ClientTypes
<1>5. Phases
  BY DEF ConvertInit, ChannelInit, Phases, Fresh, Asking, OnItsTopic, AtEnd, ResolvedAsAsked,
     OnTheirTopics, ConvertedSoFar, Finished, ConvertedAll, Unopened, OnSingle
<1> QED BY <1>1, <1>3, <1>4, <1>5 DEF KInv, Sound

-----------------------------------------------------------------------------
(* Requests.                                                               *)

(* A request of open_channel or of a caller, while no conversion runs.     *)
LEMMA RefusalHolds ==
    ASSUME KInv, ~converting, UNCHANGED convertVars, NEW s \in Requests,
           OpenChannelMissing(s) \/ OpenChannelUnsupported(s)
    PROVE  Sound'
<1>1. /\ UNCHANGED vars /\ step' = "idle" /\ spec' = None /\ asked' = s /\ wanted' = {}
      /\ answer' \in {"FileNotFoundError", "ValueError"}
  BY DEF OpenChannelMissing, OpenChannelUnsupported, Request, Fail, readerVars
<1>2. RInv' /\ Phases'
  BY <1>1, KeptReader, EndedPhases DEF KInv, Sound
<1>3. ClientTypes'
  BY <1>1 DEF KInv, Sound, ClientTypes, convertVars
<1> QED BY <1>2, <1>3 DEF Sound

LEMMA RequestHolds ==
    ASSUME KInv, ~converting, UNCHANGED convertVars, NEW s \in Requests,
           OpenChannel(s) \/ OpenSingle(s)
    PROVE  Sound'
<1>1. /\ CreateReader(s.path) /\ spec' = None /\ answer' = "none"
      /\ asked' = s /\ wanted' = {}
      /\ \/ step' = "topics"
         \/ step' = "type" /\ s.type # Unknown /\ Format(s.path) = "single"
  BY DEF OpenChannel, OpenSingle, Request
<1>2. RInv' /\ Blank' /\ reader' = None
  BY <1>1, CreateSound
<1>3. ClientTypes'
  BY <1>1 DEF KInv, Sound, ClientTypes, convertVars
<1>4. step' = "type" => single'.type = Unknown /\ single'.frames = 0
  BY <1>1 DEF CreateReader
<1>5. Phases'
  BY <1>1, <1>2, <1>4
  DEF Phases, Fresh, Asking, OnItsTopic, AtEnd, ResolvedAsAsked, OnTheirTopics, ConvertedSoFar,
      Finished, ConvertedAll, Unopened, OnSingle, convertVars
<1> QED BY <1>2, <1>3, <1>5 DEF Sound

LEMMA WantHolds ==
    ASSUME KInv, ~converting, UNCHANGED convertVars, NEW specs \in Wants, WantSeveral(specs)
    PROVE  Sound'
<1>1. /\ asked' = None /\ wanted' = specs /\ spec' = None /\ answer' = "none"
      /\ step' = "configure"
  BY DEF WantSeveral
<1>2. RInv' /\ Blank' /\ reader' = None
  BY CreateSound DEF WantSeveral
<1>3. ClientTypes'
  BY <1>1 DEF KInv, Sound, ClientTypes, convertVars
<1>4. Phases'
  BY <1>1, <1>2
  DEF Phases, Fresh, Asking, OnItsTopic, AtEnd, ResolvedAsAsked, OnTheirTopics, ConvertedSoFar,
      Finished, ConvertedAll, Unopened, OnSingle, convertVars
<1> QED BY <1>2, <1>3, <1>4 DEF Sound

LEMMA StartHolds ==
    ASSUME KInv, converting, converting' = converting, NEW s \in Inputs, NEW name \in OutputNames,
           ConvertRefused(s, name) \/ ConvertStarts(s, name)
    PROVE  Sound'
<1>1. s \in Requests /\ s.type = ConvertedType /\ s.type # Unknown
  BY ConvertAssumption, NamesAssumption DEF Inputs
<1>2. /\ asked' = s /\ wanted' = {} /\ spec' = None
      /\ output_name' = name /\ output' = "none" /\ converted' = <<>>
  BY DEF ConvertRefused, ConvertStarts, Start, Request, Fail
<1>3. CASE ConvertRefused(s, name)
  <2>1. UNCHANGED vars /\ step' = "idle" /\ answer' # "DONE"
    BY <1>3 DEF ConvertRefused, Fail, readerVars
  <2>2. ClientTypes'
    BY <1>2, <2>1 DEF KInv, Sound, ClientTypes
  <2> QED BY <2>1, <2>2, KeptReader, EndedPhases DEF KInv, Sound
<1>4. CASE ConvertStarts(s, name)
  <2>1. /\ CreateReader(s.path) /\ answer' = "none" /\ step' \in {"type", "topics"}
        /\ step' = "type" => Format(s.path) = "single"
    BY <1>4 DEF ConvertStarts
  <2>2. RInv' /\ Blank' /\ reader' = None
    BY <2>1, CreateSound
  <2>3. step' = "type" => single'.type = Unknown /\ single'.frames = 0
    BY <2>1 DEF CreateReader
  <2>4. ClientTypes'
    BY <1>2, <2>1 DEF KInv, Sound, ClientTypes
  <2>5. Phases'
    BY <1>1, <1>2, <2>1, <2>2, <2>3
    DEF Phases, Fresh, Asking, OnItsTopic, AtEnd, ResolvedAsAsked, OnTheirTopics, ConvertedSoFar,
        Finished, ConvertedAll, Unopened, OnSingle
  <2> QED BY <2>2, <2>4, <2>5 DEF Sound
<1> QED BY <1>3, <1>4

-----------------------------------------------------------------------------
(* Configuring, which open_channel and the conversion share.               *)

LEMMA ConfigureSingleHolds ==
    ASSUME KInv, UNCHANGED convertVars, ConfigureSingle PROVE Sound'
<1>1. /\ UNCHANGED <<vars, asked, wanted, spec, answer>> /\ step = "type" /\ step' = "single"
      /\ IF Concrete(TypeFor(asked)) THEN ReadsAs(TypeFor(asked)) ELSE UNCHANGED single
  BY DEF ConfigureSingle, Go, request
<1>2. RInv'
  BY <1>1, KeptReader DEF KInv, Sound
<1>3. ClientTypes'
  BY <1>1 DEF KInv, Sound, ClientTypes, convertVars
<1>4. Fresh'
  BY <1>1 DEF KInv, Sound, Phases, Fresh, Blank, Unopened, vars, handle, cursor, history
<1>5. single \in SingleReaders /\ single.type = Unknown /\ single.frames = 0
  BY <1>1 DEF KInv, Sound, Phases, CInv, OnSingle, Asking
<1>6. /\ single'.type = IF Concrete(TypeFor(asked)) THEN TypeFor(asked) ELSE Unknown
      /\ single'.frames = 0
  BY <1>1, <1>5 DEF ReadsAs, SingleReaders
<1>7. Asking'
  BY <1>1, <1>6 DEF KInv, Sound, Phases, Asking, OnSingle, TypeFor
<1>8. ConvertedSoFar' /\ Finished'
  BY <1>1 DEF KInv, Sound, Phases, ConvertedSoFar, Finished, ConvertedAll, Unopened, convertVars
<1> QED
  BY <1>1, <1>2, <1>3, <1>4, <1>7, <1>8
  DEF Sound, Phases, OnItsTopic, AtEnd, ResolvedAsAsked, OnTheirTopics

(* The phases of a reader that is being configured.                        *)
LEMMA ConfiguringPhases ==
    ASSUME KInv, UNCHANGED convertVars, UNCHANGED <<asked, spec, answer>>,
           step \in {"topics", "types"}, step' \in {"types", "open"},
           reader' = None, Blank', 
           step' = "open" /\ asked.topic # None /\ asked.type # None
              => expected'[asked.topic] = asked.type
    PROVE  Phases'
<1>1. Asking'
  BY DEF KInv, Sound, Phases, Asking, OnSingle
<1>2. ConvertedSoFar' /\ Finished'
  BY DEF KInv, Sound, Phases, ConvertedSoFar, Finished, ConvertedAll, Unopened, convertVars
<1> QED
  BY <1>1, <1>2 DEF Phases, Fresh, OnItsTopic, AtEnd, ResolvedAsAsked, OnTheirTopics

LEMMA ConfigureTopicsHolds ==
    ASSUME KInv, UNCHANGED convertVars, ConfigureTopics PROVE Sound'
<1>1. /\ step = "topics" /\ step' = "types" /\ UNCHANGED <<asked, wanted, spec, answer>>
      /\ IF asked.topic = None THEN UNCHANGED vars ELSE SetTopics({asked.topic})
  BY DEF ConfigureTopics, Go, request
<1>2. RInv /\ Blank /\ reader = None /\ asked \in Requests
  BY <1>1 DEF KInv, Sound, Phases, Fresh, Asking, Unopened
<1>3. RInv' /\ Blank' /\ reader' = None
  <2>1. CASE asked.topic = None
    BY <1>1, <1>2, <2>1, KeptReader DEF Blank, vars, handle, cursor, history
  <2>2. CASE asked.topic # None
    <3>1. {asked.topic} \in SUBSET Topics /\ SetTopics({asked.topic})
      BY <1>1, <1>2, <2>2 DEF Requests
    <3> QED BY <1>2, <3>1, SetTopicsFacts DEF handle
  <2> QED BY <2>1, <2>2
<1>4. ClientTypes'
  BY <1>1 DEF KInv, Sound, ClientTypes, convertVars
<1> QED BY <1>1, <1>3, <1>4, ConfiguringPhases DEF Sound

LEMMA ConfigureTypesHolds ==
    ASSUME KInv, UNCHANGED convertVars, ConfigureTypes PROVE Sound'
<1>1. step = "types" /\ UNCHANGED <<asked, wanted>>
  BY DEF ConfigureTypes, request
<1>2. RInv /\ Blank /\ reader = None /\ asked \in Requests /\ file = None
  BY <1>1 DEF KInv, Sound, Phases, Fresh, Asking, Unopened, CInv, NothingOpen
<1>3. CASE UNCHANGED vars /\ Go("open") /\ (asked.topic = None \/ asked.type = None)
  <2>1. /\ step' = "open" /\ UNCHANGED <<spec, answer>> /\ RInv'
        /\ Blank' /\ reader' = None
    BY <1>2, <1>3, KeptReader DEF Go, Blank, vars, handle, cursor, history
  <2>2. ClientTypes'
    BY <1>1, <2>1 DEF KInv, Sound, ClientTypes, convertVars
  <2> QED BY <1>1, <1>3, <2>1, <2>2, ConfiguringPhases DEF Sound
<1>4. CASE UNCHANGED vars /\ Fail("ValueError")
  <2>1. step' = "idle" /\ answer' = "ValueError" /\ spec' = None /\ RInv'
    BY <1>2, <1>4, KeptReader DEF Fail
  <2>2. ClientTypes'
    BY <1>1, <2>1 DEF KInv, Sound, ClientTypes, convertVars
  <2> QED BY <2>1, <2>2, EndedPhases DEF Sound
<1>5. CASE /\ asked.topic # None /\ asked.type \in MessageTypes
           /\ SetTopicMessageTypes([NoExpectations EXCEPT ![asked.topic] = asked.type])
           /\ Go("open")
  <2>. DEFINE e == [NoExpectations EXCEPT ![asked.topic] = asked.type]
  <2>1. e \in [Topics -> MessageTypes \union {None}] /\ e[asked.topic] = asked.type
    BY <1>2, <1>5 DEF NoExpectations, Requests
  <2>2. RInv' /\ Blank' /\ expected' = e /\ reader' = None
    BY <1>2, <1>5, <2>1, SetTypesFacts DEF handle
  <2>3. step' = "open" /\ UNCHANGED <<spec, answer>>
    BY <1>5 DEF Go
  <2>4. ClientTypes'
    BY <1>1, <2>3 DEF KInv, Sound, ClientTypes, convertVars
  <2> HIDE DEF e
  <2> QED BY <1>1, <2>1, <2>2, <2>3, <2>4, ConfiguringPhases DEF Sound
<1> QED BY <1>3, <1>4, <1>5 DEF ConfigureTypes

-----------------------------------------------------------------------------
(* Opening.                                                                *)

(* The type a single-channel reader opens with is the one open_channel     *)
(* reports, whichever of the two finds it in the name.                     *)
LEMMA OpensAsAsked ==
    ASSUME asked \in Requests, asked.type # Unknown,
           single.type = IF Concrete(TypeFor(asked)) THEN TypeFor(asked) ELSE Unknown,
           TypeToOpen(asked.path) # Unknown
    PROVE  /\ TypeToOpen(asked.path) = TypeFor(asked)
           /\ TypeFor(asked) \in MessageTypes
           /\ asked.type \in {None, TypeFor(asked)}
           /\ asked.type = None /\ Conventional(NameOf[asked.path])
                 => CodeType[NameOf[asked.path].parts[2]] = TypeFor(asked)
<1>. DEFINE name == NameOf[asked.path]
<1>1. Infer(name) \in MessageTypes \union {Unknown} /\ None \notin MessageTypes \union {Unknown}
  BY InferTyped, NamesAssumption
<1>2. Autodetected(name) # None => Autodetected(name) \in MessageTypes \union {Unknown}
  BY DetectedTyped
<1>3. Conventional(name) => Autodetected(name) = CodeType[name.parts[2]]
  BY DEF Autodetected, ParsedType
<1>4. CASE asked.type # None
  <2>1. asked.type \in MessageTypes /\ TypeFor(asked) = asked.type
    BY <1>4 DEF Requests, TypeFor
  <2> QED BY <1>1, <1>4, <2>1, NamesAssumption DEF Concrete, TypeToOpen
<1>5. CASE asked.type = None /\ Concrete(TypeFor(asked))
  BY <1>2, <1>3, <1>5 DEF Concrete, TypeToOpen, TypeFor
<1>6. CASE asked.type = None /\ ~Concrete(TypeFor(asked))
  <2>1. TypeFor(asked) = Autodetected(name) /\ TypeToOpen(asked.path) = Infer(name)
    BY <1>6 DEF TypeFor, TypeToOpen
  <2>2. Infer(name) # Unknown
    BY <2>1
  <2>3. ~Conventional(name)
    <3>1. SUFFICES ASSUME Conventional(name) PROVE FALSE
      OBVIOUS
    <3>2. PICK k \in DOMAIN Codes : Codes[k] = name.parts[2]
      BY <3>1 DEF Conventional
    <3>3. CodeType[name.parts[2]] \in MessageTypes
      BY <3>2, ConfigureAssumption
    <3> QED BY <1>3, <1>6, <2>1, <3>1, <3>3, NamesAssumption DEF Concrete
  <2> QED BY <1>1, <1>6, <2>1, <2>2, <2>3 DEF Autodetected, Concrete
<1> QED BY <1>4, <1>5, <1>6

LEMMA SingleOpensHolds ==
    ASSUME KInv, ~converting, UNCHANGED convertVars, OpenSingleFails \/ OpenSingleSucceeds
    PROVE  Sound'
<1>1. /\ UNCHANGED <<vars, asked, wanted>> /\ step = "single"
      /\ RInv'
  BY KeptReader DEF OpenSingleFails, OpenSingleSucceeds, request, KInv, Sound
<1>2. CASE OpenSingleFails
  <2>1. step' = "idle" /\ answer' \in {"RuntimeError", "Raised"} /\ spec' = None
    BY <1>2 DEF OpenSingleFails, SingleFails, Fail
  <2>2. ClientTypes'
    BY <1>1, <2>1 DEF KInv, Sound, ClientTypes, convertVars
  <2> QED BY <1>1, <2>1, <2>2, EndedPhases DEF Sound
<1>3. CASE OpenSingleSucceeds
  <2>1. /\ step' = "ready" /\ answer' = "OPENED" /\ SingleOpens(asked.path)
        /\ spec' = [path |-> asked.path, topic |-> asked.topic, type |-> TypeFor(asked)]
    BY <1>3 DEF OpenSingleSucceeds
  <2>2. asked \in Requests /\ single \in SingleReaders
    BY <1>1 DEF KInv, CInv, Sound, Phases, Asking, OnSingle
  <2>3. /\ TypeToOpen(asked.path) = TypeFor(asked) /\ TypeFor(asked) \in MessageTypes
        /\ asked.type \in {None, TypeFor(asked)}
        /\ asked.type = None /\ Conventional(NameOf[asked.path])
              => CodeType[NameOf[asked.path].parts[2]] = TypeFor(asked)
    <3>1. /\ asked.type # Unknown /\ TypeToOpen(asked.path) # Unknown
          /\ single.type = IF Concrete(TypeFor(asked)) THEN TypeFor(asked) ELSE Unknown
      BY <1>1, <2>1 DEF KInv, Sound, Phases, Asking, OnSingle, SingleOpens
    <3> QED BY <2>2, <3>1, OpensAsAsked
  <2>4. single'.type = TypeFor(asked) /\ single' # None
    <3>1. single' \in SingleReaders
      BY <2>1, <2>2, SingleOpensTyped
    <3> QED BY <2>1, <2>2, <2>3, <3>1, SingleAssumption DEF SingleOpens, SingleReaders
  <2>5. spec' \in Resolved
    BY <2>1, <2>2, <2>3 DEF Resolved, Requests
  <2>6. spec' # None
    BY <2>5, ResolvedAssumption
  <2>7. ClientTypes'
    BY <1>1, <2>1, <2>5, <2>6 DEF KInv, Sound, ClientTypes, convertVars
  <2>8. ResolvedAsAsked'
    BY <1>1, <2>1, <2>3, <2>4 DEF ResolvedAsAsked
  <2>9. Phases'
    BY <1>1, <2>1, <2>2, <2>4, <2>8
    DEF Phases, Fresh, Asking, OnItsTopic, AtEnd, OnTheirTopics, ConvertedSoFar,
        Finished, ConvertedAll, Unopened, OnSingle, convertVars
  <2> QED BY <1>1, <2>7, <2>9 DEF Sound
<1> QED BY <1>2, <1>3

LEMMA OpenReaderHolds ==
    ASSUME KInv, ~converting, UNCHANGED convertVars, OpenReader PROVE Sound'
<1>1. /\ step = "open" /\ Open(asked.path) /\ UNCHANGED <<single, asked, wanted>>
      /\ AfterOpen("narrow")
  BY DEF OpenReader, request
<1>2. /\ RInv /\ Blank /\ file = None /\ asked \in Requests
  BY <1>1 DEF KInv, CInv, Sound, Phases, Fresh, Asking, Unopened, NothingOpen
<1>3. /\ RInv' /\ UNCHANGED settings
      /\ ret'.status = "OPENED" => file' = asked.path /\ Readable'
  BY <1>1, <1>2, OpenFacts DEF Requests
<1>4. CASE ret'.status # "OPENED"
  <2>1. step' = "idle" /\ answer' \in {"RuntimeError", "Raised"} /\ spec' = None
    BY <1>1, <1>4 DEF AfterOpen, Fail
  <2>2. ClientTypes'
    BY <1>1, <2>1 DEF KInv, Sound, ClientTypes, convertVars
  <2> QED BY <1>3, <2>1, <2>2, EndedPhases DEF Sound
<1>5. CASE ret'.status = "OPENED"
  <2>1. step' = "narrow" /\ UNCHANGED <<spec, answer>>
    BY <1>1, <1>5 DEF AfterOpen, Go
  <2>2. ClientTypes'
    BY <1>1, <2>1 DEF KInv, Sound, ClientTypes, convertVars
  <2>3. Asking'
    BY <1>1, <1>2, <1>3, <1>5, <2>1 DEF KInv, Sound, Phases, Asking, OnSingle, settings
  <2>4. Phases'
    BY <1>1, <2>1, <2>3
    DEF KInv, Sound, Phases, Fresh, OnItsTopic, AtEnd, ResolvedAsAsked, OnTheirTopics, ConvertedSoFar,
        Finished, ConvertedAll, Unopened, convertVars
  <2> QED BY <1>3, <2>2, <2>4 DEF Sound
<1> QED BY <1>4, <1>5

-----------------------------------------------------------------------------
(* Narrowing a reader to one channel.                                      *)

(* A candidate is a channel of the file that is open.                      *)
LEMMA CandidateInFile ==
    ASSUME KInv, step = "narrow", NEW c \in Candidates
    PROVE  /\ single = None /\ asked \in Requests
           /\ file = asked.path /\ path = file /\ file \in Paths
           /\ c \in Channels /\ c # None
           /\ asked.topic \in {None, c.topic}
           /\ \E k \in ChannelIds : c = FileAt[file].channels[k]
<1>1. single = None /\ asked \in Requests /\ file = asked.path /\ file \in Paths /\ file # None
  BY NamesAssumption DEF KInv, CInv, OnMulti, Sound, Phases, Asking, Requests
<1>2. path = file /\ summary \in {file, None}
  BY <1>1 DEF KInv, Sound, RInv, IInv, BoundToOpenFile
<1>3. c \in Available /\ asked.topic \in {None, c.topic}
  BY DEF Candidates
<1>4. summary = file
  BY <1>2, <1>3 DEF Available
<1>5. PICK k \in ChannelIds : c = FileAt[file].channels[k] /\ c # None
  BY <1>1, <1>3, <1>4 DEF Available
<1>6. FileAt[file].channels \in [ChannelIds -> Channels \union {None}]
  BY <1>1, FilesAssumption DEF Files
<1> QED BY <1>1, <1>2, <1>3, <1>5, <1>6

LEMMA NarrowHolds ==
    ASSUME KInv, ~converting, UNCHANGED convertVars, NarrowFails \/ Narrow PROVE Sound'
<1>1. step = "narrow" /\ UNCHANGED <<single, asked, wanted>>
  BY DEF NarrowFails, Narrow, request
<1>2. CASE NarrowFails
  <2>1. step' = "idle" /\ answer' = "ValueError" /\ spec' = None /\ RInv'
    BY <1>2, CloseFacts DEF NarrowFails, Fail, KInv, Sound
  <2>2. ClientTypes'
    BY <1>1, <2>1 DEF KInv, Sound, ClientTypes, convertVars
  <2> QED BY <2>1, <2>2, EndedPhases DEF Sound
<1>3. CASE Narrow
  <2>1. PICK c \in Candidates : /\ Suits(c) /\ SetTopics({c.topic})
                                /\ spec' = [path |-> path, topic |-> c.topic, type |-> c.schema.type]
    BY <1>3 DEF Narrow, Resolve
  <2>2. step' = "ready" /\ answer' = "OPENED"
    BY <1>3 DEF Narrow
  <2>3. /\ single = None /\ asked \in Requests
        /\ file = asked.path /\ path = file /\ file \in Paths
        /\ c \in Channels /\ c # None
        /\ asked.topic \in {None, c.topic}
        /\ \E k \in ChannelIds : c = FileAt[file].channels[k]
    BY <1>1, CandidateInFile
  <2>4. c.topic \in Topics /\ c.schema # None /\ c.schema.type \in MessageTypes
    BY <2>1, <2>3 DEF Suits, Channels, Schemas
  <2>5. spec' \in Resolved /\ spec' # None
    BY <2>1, <2>3, <2>4, ResolvedAssumption DEF Resolved
  <2>6. ClientTypes'
    BY <1>1, <2>2, <2>5 DEF KInv, Sound, ClientTypes, convertVars
  <2>7. RInv' /\ topics' = {c.topic} /\ UNCHANGED <<handle, expected>>
    BY <2>1, <2>4, SetTopicsFacts, SMTT(60) DEF KInv, Sound
  <2>8. ResolvedAsAsked'
    <3>1. asked.type \in {None, c.schema.type}
      BY <2>1 DEF Suits
    <3> QED BY <1>1, <2>1, <2>3, <2>4, <3>1 DEF ResolvedAsAsked
  <2>9. OnItsTopic'
    <3>1. asked.topic # None /\ asked.type # None => expected[asked.topic] = asked.type
      BY <1>1 DEF KInv, Sound, Phases, Asking
    <3> QED BY <1>1, <2>1, <2>3, <2>7, <3>1 DEF OnItsTopic, handle
  <2>10. Phases'
    BY <1>1, <2>2, <2>3, <2>8, <2>9
    DEF Phases, Fresh, Asking, AtEnd, OnTheirTopics, ConvertedSoFar,
        Finished, ConvertedAll, Unopened, OnSingle, convertVars
  <2> QED BY <2>6, <2>7, <2>10 DEF Sound
<1> QED BY <1>2, <1>3

-----------------------------------------------------------------------------
(* Reading and closing, through an adapter or directly.                    *)

LEMMA UsePhases ==
    ASSUME KInv, ~converting, UNCHANGED convertVars, UNCHANGED <<step, asked, wanted, spec>>,
           step \in {"ready", "several"}, answer' # "DONE",
           single = None => /\ single' = None /\ UNCHANGED settings /\ file' \in {file, None}
                            /\ answer' = "EOF" => iterator' = None,
           single # None => single' # None /\ single'.type = single.type
    PROVE  Phases'
<1>1. OnItsTopic' /\ AtEnd'
  BY DEF KInv, Sound, Phases, OnItsTopic, AtEnd, settings
<1>2. ResolvedAsAsked'
  BY DEF KInv, Sound, Phases, ResolvedAsAsked
<1>3. OnTheirTopics'
  BY DEF KInv, Sound, Phases, OnTheirTopics, Unfit, settings
<1>4. Asking'
  BY DEF KInv, Sound, Phases, Asking, OnSingle
<1> QED
  BY <1>1, <1>2, <1>3, <1>4
  DEF Phases, Fresh, ConvertedSoFar, Finished, ConvertedAll, Unopened, convertVars

(* A single-channel reader stays what it is.                               *)
LEMMA SingleKept ==
    ASSUME CInv, single # None, CloseReader \/ \E status : ReadWith(status)
    PROVE  single' # None /\ single'.type = single.type /\ UNCHANGED vars
<1>1. single \in SingleReaders
  BY DEF CInv
<1>2. CASE CloseReader
  BY <1>1, <1>2, SingleAssumption DEF CloseReader, SingleReaders
<1>3. ASSUME NEW status, ReadWith(status) PROVE single' # None /\ single'.type = single.type /\ UNCHANGED vars
  <2>1. ReadSingle(status) /\ UNCHANGED vars
    BY <1>3 DEF ReadWith
  <2>2. CASE single.frames < MaxFrames /\ single' = [single EXCEPT !.frames = @ + 1]
    <3>1. single.frames + 1 \in 0..MaxFrames
      BY <1>1, <2>2, ConfigureAssumption DEF SingleReaders
    <3>2. single' \in SingleReaders /\ single'.type = single.type
      BY <1>1, <2>2, <3>1 DEF SingleReaders
    <3> QED BY <2>1, <3>2, SingleAssumption
  <2> QED BY <1>1, <2>1, <2>2 DEF ReadSingle
<1> QED BY <1>2, <1>3

LEMMA ReadWithHolds ==
    ASSUME KInv, ~converting, UNCHANGED convertVars, UNCHANGED <<step, asked, wanted, spec>>,
           step \in {"ready", "several"},
           NEW status \in {"OK", "INCOMPATIBLE", "ERROR", "EOF"}, ReadWith(status),
           answer' \in {status, Strict(status)}
    PROVE  Sound'
<1>1. /\ answer' \in {"OK", "INCOMPATIBLE", "ERROR", "EOF", "ValueError", "RuntimeError"}
      /\ answer' = "EOF" => status = "EOF"
  BY DEF Strict
<1>2. ClientTypes'
  BY <1>1 DEF KInv, Sound, ClientTypes, convertVars
<1>3. CASE single = None
  <2>1. ReadMessage /\ ret'.status = status /\ single' = None
    BY <1>3 DEF ReadWith
  <2>2. RInv' /\ UNCHANGED <<handle, settings>> /\ (ret'.status = "EOF" => iterator' = None)
    BY <2>1, ReadFacts DEF KInv, Sound, ReadStep
  <2>3. file' = file
    BY <2>2 DEF handle
  <2>4. Phases'
    BY <1>1, <1>3, <2>1, <2>2, <2>3, UsePhases
  <2> QED BY <1>2, <2>2, <2>4 DEF Sound
<1>4. CASE single # None
  <2>1. single' # None /\ single'.type = single.type /\ UNCHANGED vars
    BY <1>4, SingleKept DEF KInv
  <2>2. RInv'
    BY <2>1, KeptReader DEF KInv, Sound
  <2>3. Phases'
    BY <1>1, <1>4, <2>1, UsePhases
  <2> QED BY <1>2, <2>2, <2>3 DEF Sound
<1> QED BY <1>3, <1>4

LEMMA CloseHolds ==
    ASSUME KInv, CloseReader
    PROVE  /\ RInv'
           /\ single = None => single' = None /\ UNCHANGED settings /\ file' = None
           /\ single # None => single' # None /\ single'.type = single.type /\ UNCHANGED vars
<1>1. CASE single = None
  <2>1. Close /\ single' = None
    BY <1>1 DEF CloseReader
  <2> QED BY <1>1, <2>1, CloseFacts DEF KInv, Sound
<1>2. CASE single # None
  BY <1>2, SingleKept, KeptReader DEF KInv, Sound
<1> QED BY <1>1, <1>2

LEMMA UseHolds ==
    ASSUME KInv, ~converting, UNCHANGED convertVars,
           ReadResult \/ ReadStrict \/ ReadSeveral \/ CloseChannel \/ CloseSeveral
    PROVE  Sound'
<1>1. UNCHANGED <<step, asked, wanted, spec>> /\ step \in {"ready", "several"}
  BY DEF ReadResult, ReadStrict, ReadSeveral, CloseChannel, CloseSeveral, KeepChannel, request
<1>2. CASE ReadResult \/ ReadStrict \/ ReadSeveral
  <2>1. PICK status \in {"OK", "INCOMPATIBLE", "ERROR", "EOF"} :
            ReadWith(status) /\ answer' \in {status, Strict(status)}
    BY <1>2 DEF ReadResult, ReadStrict, ReadSeveral
  <2> QED BY <1>1, <2>1, ReadWithHolds
<1>3. CASE CloseChannel \/ CloseSeveral
  <2>1. CloseReader /\ answer' = "CLOSED"
    BY <1>3 DEF CloseChannel, CloseSeveral
  <2>2. ClientTypes'
    BY <1>1, <2>1 DEF KInv, Sound, ClientTypes, convertVars
  <2> QED BY <1>1, <2>1, <2>2, CloseHolds, UsePhases DEF Sound
<1> QED BY <1>2, <1>3

-----------------------------------------------------------------------------
(* Several channels through one reader.                                    *)

LEMMA AtMostOne ==
    ASSUME NEW S, IsFiniteSet(S), ~(Cardinality(S) > 1), NEW x \in S
    PROVE  S = {x}
<1>1. Cardinality(S) \in Nat /\ IsFiniteSet(S \ {x}) /\ Cardinality(S \ {x}) = Cardinality(S) - 1
  BY FS_CardinalityType, FS_RemoveElement
<1>2. Cardinality(S \ {x}) \in Nat
  BY <1>1, FS_CardinalityType
<1>3. Cardinality(S \ {x}) = 0
  BY <1>1, <1>2
<1>4. S \ {x} = {}
  BY <1>1, <1>3, FS_EmptySet
<1> QED BY <1>4

LEMMA WantedFinite ==
    ASSUME NEW specs \in Wants
    PROVE  /\ IsFiniteSet({s.path : s \in specs})
           /\ IsFiniteSet(TypesOf(specs))
           /\ \A t : IsFiniteSet(TypesOn(specs, t))
<1>1. IsFiniteSet(specs)
  BY WantsAssumption
<1>. DEFINE Pathed == {s.path : s \in specs}
            Typed  == {s.type : s \in specs}
            path_of == [s \in specs |-> s.path]
            type_of == [s \in specs |-> s.type]
<1>2. path_of \in Surjection(specs, Pathed) /\ type_of \in Surjection(specs, Typed)
  BY DEF Surjection
<1>3. IsFiniteSet(Pathed) /\ IsFiniteSet(Typed)
  BY <1>1, <1>2, FS_Surjection
<1>4. /\ TypesOf(specs) \in SUBSET Typed
      /\ \A t : TypesOn(specs, t) \in SUBSET Typed
  BY DEF TypesOf, TypesOn
<1>5. /\ IsFiniteSet(TypesOf(specs))
      /\ \A t : IsFiniteSet(TypesOn(specs, t))
  <2> HIDE DEF Typed
  <2> QED BY <1>3, <1>4, FS_Subset
<1> QED BY <1>3, <1>5

(* Specifications that fit expect one type on a topic, a concrete one.     *)
LEMMA FitExpectation ==
    ASSUME NEW specs \in Wants, ~Unfit(specs)
    PROVE  /\ TopicsOf(specs) \in SUBSET Topics
           /\ Expectation(specs) \in [Topics -> MessageTypes \union {None}]
           /\ \A t \in Topics : \A type \in TypesOn(specs, t) : Expectation(specs)[t] = type
<1>1. specs \subseteq Requests
  BY WantsAssumption
<1>2. TopicsOf(specs) \in SUBSET Topics
  BY <1>1 DEF TopicsOf, Requests
<1>3. ASSUME NEW t \in Topics, NEW type \in TypesOn(specs, t)
      PROVE  Expectation(specs)[t] = type /\ type \in MessageTypes
  <2>1. t \in TopicsOf(specs)
    BY <1>3, NamesAssumption DEF TypesOn, TopicsOf
  <2>2. ~(Cardinality(TypesOn(specs, t)) > 1) /\ Unknown \notin TypesOn(specs, t)
    BY <2>1 DEF Unfit, Conflict
  <2>3. TypesOn(specs, t) = {type}
    BY <2>2, AtMostOne, WantedFinite
  <2>4. Expectation(specs)[t] = type
    BY <2>3 DEF Expectation
  <2>5. type \in MessageTypes
    BY <1>1, <2>2 DEF TypesOn, Requests
  <2> QED BY <2>4, <2>5
<1>4. ASSUME NEW t \in Topics, TypesOn(specs, t) = {} PROVE Expectation(specs)[t] = None
  BY <1>4 DEF Expectation
<1>5. Expectation(specs) \in [Topics -> MessageTypes \union {None}]
  <2>1. \A t \in Topics : Expectation(specs)[t] \in MessageTypes \union {None}
    BY <1>3, <1>4
  <2> QED BY <2>1 DEF Expectation
<1> QED BY <1>2, <1>3, <1>5

LEMMA ConfigureSeveralHolds ==
    ASSUME KInv, ~converting, UNCHANGED convertVars, ConfigureSeveral PROVE Sound'
<1>1. /\ step = "configure" /\ UNCHANGED <<asked, wanted>>
      /\ IF Unfit(wanted) THEN Fail("ValueError") /\ UNCHANGED readerVars
                          ELSE Go("open several") /\ ConfigureFor(wanted)
  BY DEF ConfigureSeveral, request
<1>2. RInv /\ Blank /\ reader = None /\ file = None /\ wanted \in Wants
  BY <1>1 DEF KInv, CInv, Sound, Phases, Fresh, OnTheirTopics, Unopened, NothingOpen
<1>3. CASE Unfit(wanted)
  <2>1. step' = "idle" /\ answer' = "ValueError" /\ spec' = None /\ RInv'
    BY <1>1, <1>2, <1>3, KeptReader DEF Fail, readerVars
  <2>2. ClientTypes'
    BY <1>1, <2>1 DEF KInv, Sound, ClientTypes, convertVars
  <2> QED BY <2>1, <2>2, EndedPhases DEF Sound
<1>4. CASE ~Unfit(wanted)
  <2>1. /\ step' = "open several" /\ UNCHANGED <<spec, answer>> /\ ConfigureFor(wanted)
    BY <1>1, <1>4 DEF Go
  <2>2. ClientTypes'
    BY <1>1, <2>1 DEF KInv, Sound, ClientTypes, convertVars
  <2>3. /\ RInv' /\ Blank' /\ reader' = None /\ file' = None
        /\ single = None => single' = None /\ topics' = TopicsOf(wanted) /\ expected' = Expectation(wanted)
        /\ single # None => single' # None /\ TypesOf(wanted) \subseteq {single'.type}
    <3>1. CASE single = None
      <4>1. /\ topics' = TopicsOf(wanted) /\ expected' = Expectation(wanted) /\ single' = None
            /\ UNCHANGED <<handle, skip, mode, caches, cursor, ret, history>>
        BY <2>1, <3>1 DEF ConfigureFor
      <4>2. topics' \in SUBSET Topics /\ expected' \in [Topics -> MessageTypes \union {None}]
        BY <1>2, <1>4, <4>1, FitExpectation
      <4>3. RInv' /\ Blank'
        BY <1>2, <4>1, <4>2, ConfiguredFacts
      <4> QED BY <1>2, <3>1, <4>1, <4>3 DEF handle
    <3>2. CASE single # None
      <4>1. /\ UNCHANGED vars
            /\ \/ TypesOf(wanted) = {} /\ UNCHANGED single
               \/ \E type \in TypesOf(wanted) : ReadsAs(type)
        BY <2>1, <3>2 DEF ConfigureFor
      <4>2. RInv' /\ Blank' /\ reader' = None /\ file' = None
        BY <1>2, <4>1, KeptReader DEF Blank, vars, handle, cursor, history
      <4>3. single \in SingleReaders /\ wanted \subseteq Requests
        BY <1>2, <3>2, WantsAssumption DEF KInv, CInv
      <4>4. ASSUME NEW type \in TypesOf(wanted), ReadsAs(type)
            PROVE  single' # None /\ TypesOf(wanted) \subseteq {single'.type}
        <5>1. type \in MessageTypes \union {Unknown}
          BY <4>3 DEF TypesOf, Requests
        <5>2. single' \in SingleReaders /\ single'.type = type
          BY <4>3, <4>4, <5>1, ReadsAsTyped DEF ReadsAs, SingleReaders
        <5>3. TypesOf(wanted) = {type}
          BY <1>2, <1>4, <3>2, AtMostOne, WantedFinite DEF Unfit
        <5> QED BY <5>2, <5>3, SingleAssumption
      <4> QED BY <3>2, <4>1, <4>2, <4>4
    <3> QED BY <3>1, <3>2
  <2>4. OnTheirTopics'
    <3>1. ~Unfit(wanted)'
      BY <1>1, <1>4, <2>3 DEF Unfit
    <3> QED BY <1>1, <1>2, <2>1, <2>3, <3>1 DEF OnTheirTopics
  <2>5. Phases'
    BY <1>1, <2>1, <2>3, <2>4
    DEF KInv, Sound, Phases, Fresh, Asking, OnSingle, OnItsTopic, AtEnd, ResolvedAsAsked,
        ConvertedSoFar, Finished, ConvertedAll, convertVars
  <2> QED BY <2>2, <2>3, <2>5 DEF Sound
<1> QED BY <1>3, <1>4

LEMMA OpenSeveralHolds ==
    ASSUME KInv, ~converting, UNCHANGED convertVars, OpenSeveral PROVE Sound'
<1>1. step = "open several" /\ UNCHANGED <<asked, wanted>>
  BY DEF OpenSeveral, request
<1>2. /\ RInv /\ Blank /\ file = None /\ wanted \in Wants /\ wanted \subseteq Requests
      /\ ~Unfit(wanted) /\ single \in SingleReaders \union {None}
      /\ single = None => topics = TopicsOf(wanted) /\ expected = Expectation(wanted)
      /\ single # None => TypesOf(wanted) \subseteq {single.type}
  BY <1>1, WantsAssumption
  DEF KInv, CInv, Sound, Phases, Fresh, OnTheirTopics, Unopened, NothingOpen
<1>. DEFINE Failing == step' = "idle" /\ answer' \in {"RuntimeError", "Raised"} /\ spec' = None
            Goes    == step' = "several" /\ answer' \in {answer, "Raised"} /\ UNCHANGED spec
<1>3. PICK s \in wanted :
          \/ /\ single = None
             /\ Open(s.path) /\ UNCHANGED single
             /\ \/ ret'.status = "REFUSED" /\ Failing
                \/ ret'.status \in {"OPENED", "OPEN RAISED"} /\ Goes
          \/ /\ single # None
             /\ SingleOpenFails(s.path) /\ UNCHANGED vars /\ Failing
          \/ /\ single # None
             /\ SingleOpens(s.path) /\ UNCHANGED vars /\ Goes
  BY DEF OpenSeveral, SingleFails, Fail, Go
<1>4. RInv'
  BY <1>2, <1>3, OpenFacts, KeptReader DEF Requests
<1>5. CASE Failing
  <2>1. step' = "idle" /\ answer' \in {"RuntimeError", "Raised"} /\ spec' = None
    BY <1>5
  <2>2. ClientTypes'
    BY <1>1, <2>1 DEF KInv, Sound, ClientTypes, convertVars
  <2> QED BY <1>4, <2>1, <2>2, EndedPhases DEF Sound
<1>6. CASE Goes
  <2>1. step' = "several" /\ UNCHANGED spec /\ answer' \in {answer, "Raised"}
    BY <1>6
  <2>2. ClientTypes'
    BY <1>1, <2>1 DEF KInv, Sound, ClientTypes, convertVars
  <2>3. /\ single = None => /\ single' = None /\ UNCHANGED <<topics, expected>>
                            /\ file' # None => \A r \in wanted : r.path = file'
        /\ single # None => single' # None /\ TypesOf(wanted) \subseteq {single'.type}
    <3>1. CASE single = None
      <4>1. Open(s.path) /\ single' = None /\ ret'.status # "REFUSED"
        BY <1>3, <1>6, <3>1
      <4>2. UNCHANGED settings /\ file' = s.path
        BY <1>2, <4>1, OpenFacts DEF Requests
      <4>3. \A r \in wanted : r.path = s.path
        <5>1. ~(Cardinality({r.path : r \in wanted}) > 1) /\ s.path \in {r.path : r \in wanted}
          BY <1>2 DEF Unfit
        <5>2. {r.path : r \in wanted} = {s.path}
          BY <1>2, <5>1, AtMostOne, WantedFinite
        <5> QED BY <5>2
      <4> QED BY <3>1, <4>1, <4>2, <4>3 DEF settings
    <3>2. CASE single # None
      <4>1. SingleOpens(s.path) /\ single \in SingleReaders
        BY <1>2, <1>3, <1>6, <3>2
      <4>2. single' \in SingleReaders
        BY <4>1, SingleOpensTyped
      <4>3. single'.type = TypeToOpen(s.path)
        BY <4>1 DEF SingleOpens, SingleReaders
      <4>4. TypesOf(wanted) \subseteq {TypeToOpen(s.path)}
        <5>1. Unknown \notin TypesOf(wanted)
          BY <1>2, <3>2 DEF Unfit
        <5> QED BY <1>2, <3>2, <5>1 DEF TypeToOpen
      <4> QED BY <3>2, <4>2, <4>3, <4>4, SingleAssumption
    <3> QED BY <3>1, <3>2
  <2>4. OnTheirTopics'
    <3>1. ~Unfit(wanted)'
      BY <1>1, <1>2, <2>3 DEF Unfit
    <3> QED BY <1>1, <1>2, <2>1, <2>3, <3>1 DEF OnTheirTopics
  <2>5. Phases'
    BY <1>1, <2>1, <2>4
    DEF KInv, Sound, Phases, Fresh, Unopened, Asking, OnSingle, OnItsTopic, AtEnd, ResolvedAsAsked,
        ConvertedSoFar, Finished, ConvertedAll, convertVars
  <2> QED BY <1>4, <2>2, <2>5 DEF Sound
<1> QED BY <1>3, <1>5, <1>6

LEMMA ChannelHolds ==
    ASSUME KInv, ~converting, UNCHANGED convertVars, ChannelNext PROVE Sound'
BY RefusalHolds, RequestHolds, WantHolds, ConfigureSingleHolds, ConfigureTopicsHolds,
   ConfigureTypesHolds, SingleOpensHolds, OpenReaderHolds, NarrowHolds, UseHolds,
   ConfigureSeveralHolds, OpenSeveralHolds
DEF ChannelNext

-----------------------------------------------------------------------------
(* The conversion.                                                         *)

LEMMA OpenInputHolds ==
    ASSUME KInv, converting, converting' = converting, OpenInput PROVE Sound'
<1>1. /\ step \in {"open", "single"} /\ UNCHANGED <<asked, wanted, output_name, output, converted>>
      /\ spec = None /\ asked \in Requests /\ asked.type = ConvertedType /\ converted = <<>>
      /\ RInv /\ Blank /\ file = None
  BY DEF OpenInput, request, KInv, CInv, Sound, ClientTypes, Phases, Asking, Fresh,
     ConvertedSoFar, Unopened, NothingOpen
<1>2. ASSUME Fail("RuntimeError") \/ Fail("Raised"), RInv' PROVE Sound'
  <2>1. step' = "idle" /\ answer' \in {"RuntimeError", "Raised"} /\ spec' = None
    BY <1>2 DEF Fail
  <2>2. ClientTypes'
    BY <1>1, <2>1 DEF KInv, Sound, ClientTypes
  <2> QED BY <1>2, <2>1, <2>2, EndedPhases DEF Sound
<1>3. ASSUME Go("output"), RInv',
             single = None => /\ single' = None /\ file' = asked.path /\ Readable'
                              /\ delivered' = <<>>,
             single # None => single' # None /\ single'.type = ConvertedType /\ single'.frames = 0
      PROVE  Sound'
  <2>1. step' = "output" /\ UNCHANGED <<spec, answer>>
    BY <1>3 DEF Go
  <2>2. ClientTypes'
    BY <1>1, <2>1 DEF KInv, Sound, ClientTypes
  <2>3. Asking'
    BY <1>1, <1>3, <2>1 DEF Asking, OnSingle
  <2>4. ConvertedSoFar'
    BY <1>1, <1>3, <2>1 DEF ConvertedSoFar, SingleSoFar, MultiSoFar, Going, Unopened
  <2>5. Finished'
    BY <1>1, <2>1 DEF KInv, Sound, Phases, Finished, ConvertedAll
  <2>6. Phases'
    BY <2>1, <2>3, <2>4, <2>5
    DEF Phases, Fresh, OnItsTopic, AtEnd, ResolvedAsAsked, OnTheirTopics, Unopened
  <2> QED BY <1>3, <2>2, <2>6 DEF Sound
<1>4. CASE step = "open"
  <2>1. /\ Open(asked.path) /\ UNCHANGED single /\ single = None
        /\ AfterOpen("output")
    BY <1>4 DEF OpenInput, KInv, CInv, OnMulti
  <2>2. /\ RInv'
        /\ ret'.status = "OPENED" => file' = asked.path /\ Readable' /\ delivered' = <<>>
    BY <1>1, <2>1, OpenFacts DEF Requests
  <2> QED BY <1>2, <1>3, <2>1, <2>2 DEF AfterOpen
<1>5. CASE step = "single"
  <2>1. /\ UNCHANGED vars
        /\ \/ Fail("RuntimeError") \/ Fail("Raised")
           \/ SingleOpens(asked.path) /\ Go("output")
    BY <1>5 DEF OpenInput, SingleFails
  <2>2. RInv'
    BY <1>1, <2>1, KeptReader
  <2>3. single \in SingleReaders /\ single # None /\ single.type = ConvertedType /\ single.frames = 0
        /\ ConvertedType # Unknown
    BY <1>1, <1>5, ConvertAssumption, NamesAssumption
    DEF KInv, CInv, OnSingle, Sound, Phases, Asking, TypeFor, Concrete
  <2>4. ASSUME SingleOpens(asked.path)
        PROVE  single' # None /\ single'.type = ConvertedType /\ single'.frames = 0
    <3>1. single' \in SingleReaders
      BY <2>3, <2>4, SingleOpensTyped
    <3>2. single'.type = ConvertedType /\ single'.frames = 0
      BY <2>3, <2>4 DEF SingleOpens, TypeToOpen, SingleReaders
    <3> QED BY <3>1, <3>2, SingleAssumption
  <2> QED BY <1>2, <1>3, <2>1, <2>2, <2>3, <2>4
<1> QED BY <1>1, <1>4, <1>5

LEMMA OutputHolds ==
    ASSUME KInv, converting, converting' = converting,
           OutputFails \/ OutputAbandoned \/ OutputOpens
    PROVE  Sound'
<1>1. /\ step = "output" /\ UNCHANGED <<asked, wanted, output_name, converted>>
      /\ spec = None /\ asked \in Requests /\ asked.type = ConvertedType /\ converted = <<>>
  BY DEF OutputFails, OutputAbandoned, OutputOpens, request, KInv, Sound, ClientTypes, Phases,
     Asking, ConvertedSoFar
<1>2. CASE OutputFails \/ OutputAbandoned
  <2>1. /\ CloseReader /\ step' = "idle" /\ answer' \in {"ValueError", "RuntimeError"}
        /\ spec' = None /\ output' \in {output, "abandoned"}
    BY <1>2 DEF OutputFails, OutputAbandoned, Fail
  <2>2. ClientTypes'
    BY <1>1, <2>1 DEF KInv, Sound, ClientTypes
  <2> QED BY <2>1, <2>2, CloseHolds, EndedPhases DEF Sound
<1>3. CASE OutputOpens
  <2>1. /\ UNCHANGED <<vars, single, spec, answer>> /\ step' = "frames" /\ output' = "open"
    BY <1>3 DEF OutputOpens, Go, readerVars
  <2>2. RInv'
    BY <2>1, KeptReader DEF KInv, Sound
  <2>3. ClientTypes'
    BY <1>1, <2>1 DEF KInv, Sound, ClientTypes
  <2>4. Asking'
    BY <1>1, <2>1 DEF KInv, Sound, Phases, Asking, OnSingle, vars, handle, Readable
  <2>5. ConvertedSoFar'
    <3>1. CASE single = None
      <4>1. delivered' = <<>> /\ peeked' = None
        BY <1>1, <2>1, <2>2, <3>1
        DEF KInv, Sound, Phases, ConvertedSoFar, MultiSoFar, vars, history, RInv, Calm
      <4>2. Seen' = {}
        BY <4>1 DEF Seen, Output, Pending
      <4>3. MultiSoFar'
        BY <1>1, <2>1, <4>2 DEF MultiSoFar, Current
      <4> QED BY <1>1, <2>1, <3>1, <4>3 DEF ConvertedSoFar, Unopened
    <3>2. CASE single # None
      <4>1. single.frames = 0 /\ single.type = ConvertedType
        BY <1>1, <3>2 DEF KInv, Sound, Phases, ConvertedSoFar, SingleSoFar
      <4>2. SingleSoFar'
        BY <1>1, <2>1, <4>1 DEF SingleSoFar
      <4> QED BY <1>1, <2>1, <3>2, <4>2 DEF ConvertedSoFar, Unopened
    <3> QED BY <3>1, <3>2
  <2>6. Finished'
    BY <1>1, <2>1 DEF KInv, Sound, Phases, Finished, ConvertedAll
  <2>7. Phases'
    BY <2>1, <2>4, <2>5, <2>6
    DEF Phases, Fresh, OnItsTopic, AtEnd, ResolvedAsAsked, OnTheirTopics, Unopened
  <2> QED BY <2>2, <2>3, <2>7 DEF Sound
<1> QED BY <1>2, <1>3

(* What holds in the loop over the messages, whichever call is next in it. *)
LEMMA LoopPhases ==
    ASSUME RInv', converting', step' \in {"frames", "write", "leave"}, 
           asked' \in Requests, asked'.type = ConvertedType, answer' # "DONE",
           single' = None => file' = asked'.path /\ Readable' /\ MultiSoFar',
           single' # None => SingleSoFar',
           step' = "leave" /\ single' = None /\ answer' = "EOF" => iterator' = None
    PROVE  Phases'
<1>1. Asking' /\ AtEnd'
  BY DEF Asking, OnSingle, AtEnd
<1>2. ConvertedSoFar'
  BY DEF ConvertedSoFar, Unopened
<1> QED
  BY <1>1, <1>2
  DEF Phases, Fresh, OnItsTopic, ResolvedAsAsked, OnTheirTopics, Finished, ConvertedAll, Unopened

(* A message read is new, and comes after all that were seen before.       *)
LEMMA ReadIsLatest ==
    ASSUME RInv, ReadStep, ret'.status = "OK"
    PROVE  /\ file' = file /\ Seen' = Seen \union {ret'.msg} /\ ret'.msg \notin Seen
           /\ \A i \in Seen : Before(file, i, ret'.msg)
<1>1. Readable /\ ret'.msg \in Left /\ delivered' = Append(delivered, ret'.msg) /\ file' = file
  BY DEF ReadStep, handle
<1>2. Output = delivered /\ Output' = delivered' /\ delivered \in Seq(Nat) /\ ret'.msg \in Nat
  <2>1. ret'.msg \in Nat
    BY DEF ReadStep, RInv, IInv, TypeOK, Answers
  <2> QED BY <2>1, CalmOutput DEF ReadStep, RInv, IInv, Calm, Output, Pending, TypeOK
<1>3. Seen' = Seen \union {ret'.msg}
  BY <1>1, <1>2, AppendProperties DEF Seen
<1>4. ret'.msg \notin Seen
  BY <1>1 DEF RInv, OInv, Accounted
<1>5. \A i \in Seen : Before(file, i, ret'.msg)
  BY <1>1 DEF RInv, OInv, PastBeforeLeft, Past
<1> QED BY <1>1, <1>3, <1>4, <1>5

(* The reader at the next message of the loop.                             *)
LEMMA ReadMultiFrame ==
    ASSUME KInv, converting, step = "frames", single = None, single' = None, converted' = converted,
           ReadStep, 
           step' = (CASE ret'.status = "OK" /\ ret'.type = ConvertedType -> "write"
                      [] ret'.status = "OK" /\ ret'.type # ConvertedType -> "frames"
                      [] OTHER                                           -> "leave"),
           answer' = "EOF" <=> ret'.status = "EOF"
    PROVE  MultiSoFar'
<1>1. /\ \A i \in Seen : Message(file, i).payload = "good"
      /\ {converted[n] : n \in DOMAIN converted} = {i \in Seen : SchemaType(file, i) = ConvertedType}
      /\ \A m, n \in DOMAIN converted : m < n => Before(file, converted[m], converted[n])
  BY DEF KInv, Sound, Phases, ConvertedSoFar, MultiSoFar, Going, Current
<1>2. RInv /\ file' = file
  BY DEF KInv, Sound, ReadStep, handle
<1>3. CASE ret'.status = "OK"
  <2>. DEFINE i == ret'.msg
  <2>1. /\ Seen' = Seen \union {i} /\ i \notin Seen
        /\ \A j \in Seen : Before(file, j, i)
    BY <1>2, <1>3, ReadIsLatest
  <2>2. /\ Message(file, i).payload = "good" /\ ret'.type = SchemaType(file, i)
    BY <1>3 DEF ReadStep
  <2>3. CASE SchemaType(file, i) = ConvertedType
    <3>1. step' = "write" /\ Current' = {i}
      BY <1>3, <2>2, <2>3 DEF Current, Frame
    <3>2. {j \in Seen' : SchemaType(file, j) = ConvertedType} \ {i}
             = {j \in Seen : SchemaType(file, j) = ConvertedType}
      BY <2>1
    <3>3. \A j \in Seen' \ {i} : Before(file, j, i)
      BY <2>1
    <3>4. \A j \in Seen' : Message(file, j).payload = "good"
      BY <1>1, <2>1, <2>2
    <3> QED BY <1>1, <1>2, <2>1, <2>3, <3>1, <3>2, <3>3, <3>4 DEF MultiSoFar
  <2>4. CASE SchemaType(file, i) # ConvertedType
    <3>1. step' = "frames" /\ Current' = {}
      BY <1>3, <2>2, <2>4 DEF Current
    <3>2. {j \in Seen' : SchemaType(file, j) = ConvertedType} 
             = {j \in Seen : SchemaType(file, j) = ConvertedType}
      BY <2>1, <2>4
    <3>3. \A j \in Seen' : Message(file, j).payload = "good"
      BY <1>1, <2>1, <2>2
    <3> QED BY <1>1, <1>2, <3>1, <3>2, <3>3 DEF MultiSoFar
  <2> QED BY <2>3, <2>4
<1>4. CASE ret'.status = "EOF"
  <2>1. step' = "leave" /\ Current' = {} /\ Seen' = Seen
    BY <1>2, <1>4 DEF ReadStep, RInv, Calm, Seen, Output, Pending, Current
  <2> QED BY <1>1, <1>2, <2>1 DEF MultiSoFar
<1>5. CASE ret'.status \notin {"OK", "EOF"}
  <2>1. step' = "leave" /\ answer' # "EOF"
    BY <1>5
  <2> QED BY <2>1 DEF MultiSoFar, Going
<1> QED BY <1>3, <1>4, <1>5

LEMMA ReadFrameHolds ==
    ASSUME KInv, converting, converting' = converting, ReadFrame PROVE Sound'
<1>1. /\ step = "frames" /\ UNCHANGED <<asked, wanted, spec, output_name, output, converted>>
      /\ asked \in Requests /\ asked.type = ConvertedType
  BY DEF ReadFrame, request, KInv, Sound, Phases, Asking, ConvertedSoFar
<1>2. PICK status \in {"OK", "INCOMPATIBLE", "ERROR", "EOF"} :
          /\ ReadWith(status)
          /\ step' = CASE status = "OK" /\ FrameType = ConvertedType -> "write"
                       [] status = "OK" /\ FrameType # ConvertedType -> "frames"
                       [] OTHER                                      -> "leave"
          /\ answer' = Strict(status)
  BY DEF ReadFrame
<1>3. /\ step' \in {"frames", "write", "leave"}
      /\ answer' # "DONE" /\ (answer' = "EOF" <=> status = "EOF")
  BY <1>2 DEF Strict
<1>4. ClientTypes'
  BY <1>1, <1>3 DEF KInv, Sound, ClientTypes
<1>5. CASE single = None
  <2>1. ReadMessage /\ ret'.status = status /\ single' = None /\ FrameType = ret'.type
    BY <1>2, <1>5 DEF ReadWith, FrameType
  <2>2. ReadStep
    BY <2>1, ReadFacts DEF KInv, Sound
  <2>3. MultiSoFar'
    BY <1>1, <1>2, <1>3, <1>5, <2>1, <2>2, ReadMultiFrame
  <2>4. RInv' /\ file' = asked.path /\ Readable'
    BY <1>1, <1>5, <2>2 DEF ReadStep, handle, KInv, Sound, Phases, Asking, Readable
  <2>5. answer' = "EOF" => iterator' = None
    BY <1>3, <2>1, <2>2 DEF ReadStep
  <2>6. Phases'
    BY <1>1, <1>3, <2>1, <2>3, <2>4, <2>5, LoopPhases
  <2> QED BY <1>4, <2>4, <2>6 DEF Sound
<1>6. CASE single # None
  <2>1. ReadSingle(status) /\ UNCHANGED vars /\ single \in SingleReaders /\ FrameType = single.type
    BY <1>2, <1>6 DEF ReadWith, FrameType, KInv, CInv
  <2>2. RInv'
    BY <2>1, KeptReader DEF KInv, Sound
  <2>3. single' # None /\ single'.type = single.type
    BY <1>2, <1>6, SingleKept DEF KInv
  <2>4. /\ single.type = ConvertedType
        /\ converted = [n \in 1..single.frames |-> n]
    BY <1>1, <1>6 DEF KInv, Sound, Phases, ConvertedSoFar, SingleSoFar, Going
  <2>5. SingleSoFar'
    <3>1. CASE status = "OK"
      <4>1. step' = "write" /\ single.frames \in Nat /\ single'.frames = single.frames + 1
        BY <1>2, <2>1, <2>4, <3>1, ConfigureAssumption DEF ReadSingle, SingleReaders
      <4>2. single'.frames - 1 = single.frames /\ single'.frames >= 1
        BY <4>1
      <4> QED BY <1>1, <2>3, <2>4, <4>1, <4>2 DEF SingleSoFar
    <3>2. CASE status # "OK"
      <4>1. step' = "leave" /\ UNCHANGED single
        BY <1>2, <2>1, <3>2 DEF ReadSingle
      <4> QED BY <1>1, <2>4, <4>1 DEF SingleSoFar
    <3> QED BY <3>1, <3>2
  <2>6. Phases'
    BY <1>1, <1>3, <2>2, <2>3, <2>5, LoopPhases
  <2> QED BY <1>4, <2>2, <2>6 DEF Sound
<1> QED BY <1>5, <1>6

LEMMA WriteFrameHolds ==
    ASSUME KInv, converting, converting' = converting, WriteFrame \/ WriteFrameFails
    PROVE  Sound'
<1>0. step = "write" /\ UNCHANGED <<vars, single, asked, wanted, spec, output_name, output>>
  BY DEF WriteFrame, WriteFrameFails, Go, readerVars, request
<1>1. /\ step = "write" /\ UNCHANGED <<vars, single, asked, wanted, spec, output_name, output>>
      /\ asked \in Requests /\ asked.type = ConvertedType /\ answer # "DONE"
      /\ single = None => file' = asked.path /\ Readable'
  BY <1>0 DEF KInv, Sound, Phases, Asking, ConvertedSoFar, Finished, vars, handle, Readable
<1>2. RInv'
  BY <1>1, KeptReader DEF KInv, Sound
<1>3. CASE WriteFrame
  <2>1. converted' = Append(converted, Frame) /\ step' = "frames" /\ answer' = answer
    BY <1>3 DEF WriteFrame, Go
  <2>2. converted \in Seq(Nat) /\ Frame \in Nat
    BY ConfigureAssumption DEF Frame, KInv, CInv, SingleReaders, Sound, ClientTypes, RInv, IInv, TypeOK, Answers
  <2>3. ClientTypes'
    BY <1>1, <2>1, <2>2 DEF KInv, Sound, ClientTypes
  <2>4. /\ DOMAIN converted' = DOMAIN converted \union {Len(converted) + 1}
        /\ converted'[Len(converted) + 1] = Frame
        /\ \A n \in DOMAIN converted : converted'[n] = converted[n]
        /\ DOMAIN converted = 1..Len(converted) /\ Len(converted) \in Nat
    BY <2>1, <2>2
  <2>5. CASE single = None
    <3>1. /\ Frame \in Seen /\ SchemaType(file, Frame) = ConvertedType
          /\ \A i \in Seen \ {Frame} : Before(file, i, Frame)
          /\ \A i \in Seen : Message(file, i).payload = "good"
          /\ {converted[n] : n \in DOMAIN converted}
                = {i \in Seen : SchemaType(file, i) = ConvertedType} \ {Frame}
          /\ \A m, n \in DOMAIN converted : m < n => Before(file, converted[m], converted[n])
      BY <1>1, <2>5 DEF KInv, Sound, Phases, ConvertedSoFar, MultiSoFar, Going, Current, Frame
    <3>2. {converted'[n] : n \in DOMAIN converted'}
             = {i \in Seen : SchemaType(file, i) = ConvertedType}
      BY <2>4, <3>1
    <3>3. ASSUME NEW m \in DOMAIN converted', NEW n \in DOMAIN converted', m < n
          PROVE  Before(file, converted'[m], converted'[n])
      <4>1. m \in DOMAIN converted /\ converted'[m] = converted[m]
        BY <2>4, <3>3
      <4>2. converted[m] \in Seen \ {Frame}
        BY <3>1, <4>1
      <4> QED BY <2>4, <3>1, <3>3, <4>1, <4>2
    <3>4. Seen' = Seen /\ file' = file
      BY <1>1 DEF Seen, Output, Pending, vars, handle, cursor, history
    <3>5. MultiSoFar'
      BY <2>1, <3>1, <3>2, <3>3, <3>4 DEF MultiSoFar, Current
    <3>6. Phases'
      BY <1>1, <1>2, <2>1, <2>5, <3>4, <3>5, LoopPhases
    <3> QED BY <1>2, <2>3, <3>6 DEF Sound
  <2>6. CASE single # None
    <3>1. /\ single.type = ConvertedType /\ single.frames >= 1 /\ Frame = single.frames
          /\ converted = [n \in 1..(single.frames - 1) |-> n]
      BY <1>1, <2>6 DEF KInv, Sound, Phases, ConvertedSoFar, SingleSoFar, Going, Frame
    <3>2. Len(converted) = single.frames - 1
      BY <2>2, <2>4, <3>1
    <3>3. converted' = [n \in 1..single.frames |-> n]
      <4>1. converted' \in Seq(Nat) /\ Len(converted') = single.frames
        BY <2>1, <2>2, <3>1, <3>2
      <4>2. ASSUME NEW n \in 1..single.frames PROVE converted'[n] = n
        BY <2>1, <2>2, <2>4, <3>1, <3>2, <4>2
      <4> QED BY <4>1, <4>2
    <3>4. SingleSoFar'
      BY <1>1, <2>1, <3>1, <3>3 DEF SingleSoFar
    <3>5. Phases'
      BY <1>1, <1>2, <2>1, <2>6, <3>4, LoopPhases
    <3> QED BY <1>2, <2>3, <3>5 DEF Sound
  <2> QED BY <2>5, <2>6
<1>4. CASE WriteFrameFails
  <2>1. step' = "leave" /\ answer' = "RuntimeError" /\ converted' = converted
    BY <1>4 DEF WriteFrameFails
  <2>2. ClientTypes'
    BY <1>1, <2>1 DEF KInv, Sound, ClientTypes
  <2>3. single = None => MultiSoFar' /\ file' = file
    BY <1>1, <2>1 DEF MultiSoFar, Going, vars, handle
  <2>4. single # None => SingleSoFar'
    BY <1>1, <2>1 DEF SingleSoFar, Going, KInv, Sound, Phases, ConvertedSoFar
  <2>5. Phases'
    BY <1>1, <1>2, <2>1, <2>3, <2>4, LoopPhases
  <2> QED BY <1>2, <2>2, <2>5 DEF Sound
<1> QED BY <1>3, <1>4

(* At the end of an input with several channels everything is accounted    *)
(* for: it was written, or is not a ground truth message one can decode.   *)
LEMMA LeaveComplete ==
    ASSUME KInv, converting, step = "leave", answer = "EOF", single = None
    PROVE  LET S == Selected(file, topics) IN
           /\ \A i \in S : ~Broken(file, i)
           /\ {converted[n] : n \in DOMAIN converted}
                 = {i \in S : ~Incompatible(file, i) /\ SchemaType(file, i) = ConvertedType}
           /\ \A m, n \in DOMAIN converted : m < n => Before(file, converted[m], converted[n])
           /\ \A n \in DOMAIN converted : Message(file, converted[n]).payload = "good"
<1>. DEFINE S == Selected(file, topics)
<1>1. /\ \A i \in Seen : Message(file, i).payload = "good"
      /\ {converted[n] : n \in DOMAIN converted} = {i \in Seen : SchemaType(file, i) = ConvertedType}
      /\ \A m, n \in DOMAIN converted : m < n => Before(file, converted[m], converted[n])
  BY DEF KInv, Sound, Phases, ConvertedSoFar, MultiSoFar, Going, Current
<1>2. Readable /\ iterator = None
  BY DEF KInv, Sound, Phases, Asking, AtEnd
<1>3. \A i \in Seen : ~Broken(file, i)
  BY <1>1 DEF Broken
<1>4. (\A i \in Seen : ~Incompatible(file, i)) /\ (\A i \in skipped : Incompatible(file, i)) /\ raised = {}
  BY <1>2 DEF KInv, Sound, RInv, Sifted, Readable
<1>5. S \subseteq Seen \union skipped /\ Seen \subseteq S
  BY <1>2, <1>3, <1>4 DEF KInv, Sound, RInv, OInv, Accounted, Left
<1>6. \A i \in S : ~Broken(file, i)
  BY <1>3, <1>4, <1>5 DEF Incompatible
<1>7. {i \in Seen : SchemaType(file, i) = ConvertedType}
         = {i \in S : ~Incompatible(file, i) /\ SchemaType(file, i) = ConvertedType}
  BY <1>4, <1>5
<1>8. \A n \in DOMAIN converted : Message(file, converted[n]).payload = "good"
  BY <1>1
<1> QED BY <1>1, <1>6, <1>7, <1>8

LEMMA LeaveHolds ==
    ASSUME KInv, converting, converting' = converting, Leave PROVE Sound'
<1>1. /\ step = "leave" /\ CloseReader /\ step' = "idle" /\ spec' = None
      /\ output' \in {"closed", "short"} /\ answer' \in {Outcome, "OSError"}
      /\ answer' # "OSError" => output' = "closed" \/ FormatOf(output_name) = "multi"
      /\ UNCHANGED <<asked, wanted, output_name, converted>>
      /\ answer # "DONE"
  BY DEF Leave, request, KInv, Sound, Phases, Finished
<1>2. /\ RInv'
      /\ single = None => single' = None /\ UNCHANGED settings
      /\ single # None => single' # None /\ UNCHANGED vars
  BY <1>1, CloseHolds
<1>3. ClientTypes'
  BY <1>1 DEF KInv, Sound, ClientTypes
<1>4. CASE answer # "EOF"
  BY <1>1, <1>2, <1>3, <1>4, EndedPhases DEF Sound, Outcome
<1>5. CASE answer = "EOF" /\ single # None
  <2>1. converted = [n \in 1..single.frames |-> n]
    BY <1>1, <1>5 DEF KInv, Sound, Phases, ConvertedSoFar, SingleSoFar, Going
  <2>2. single'.frames = single.frames
    BY <1>1, <1>5 DEF CloseReader, KInv, CInv, SingleReaders
  <2>3. ConvertedAll'
    BY <1>1, <1>2, <1>5, <2>1, <2>2 DEF ConvertedAll
  <2>4. Phases'
    BY <1>1, <2>3
    DEF Phases, Fresh, Asking, OnItsTopic, AtEnd, ResolvedAsAsked, OnTheirTopics,
        ConvertedSoFar, Finished, Unopened, OnSingle
  <2> QED BY <1>2, <1>3, <2>4 DEF Sound
<1>6. CASE answer = "EOF" /\ single = None
  <2>. DEFINE p == asked.path
              S == Selected(p, topics)
  <2>1. p = file
    BY <1>1, <1>6 DEF KInv, Sound, Phases, Asking
  <2>2. /\ \A i \in S : ~Broken(p, i)
        /\ {converted[n] : n \in DOMAIN converted}
              = {i \in S : ~Incompatible(p, i) /\ SchemaType(p, i) = ConvertedType}
        /\ \A m, n \in DOMAIN converted : m < n => Before(p, converted[m], converted[n])
        /\ \A n \in DOMAIN converted : Message(p, converted[n]).payload = "good"
    BY <1>1, <1>6, <2>1, LeaveComplete
  <2>3. UNCHANGED <<topics, expected, mode>>
    BY <1>2, <1>6 DEF settings
  <2>4. ASSUME NEW i PROVE Incompatible(p, i)' = Incompatible(p, i)
    <3>1. Calm
      BY DEF KInv, Sound, RInv
    <3> QED BY <1>1, <2>3, <3>1 DEF Incompatible, Broken, Mismatch, NoDecoder, Calm
  <2>5. {i \in S : ~Incompatible(p, i)' /\ SchemaType(p, i) = ConvertedType}
           = {i \in S : ~Incompatible(p, i) /\ SchemaType(p, i) = ConvertedType}
    BY <2>4
  <2>6. ConvertedAll'
    BY <1>1, <1>2, <1>6, <2>2, <2>3, <2>5 DEF ConvertedAll
  <2>7. Phases'
    BY <1>1, <2>6
    DEF Phases, Fresh, Asking, OnItsTopic, AtEnd, ResolvedAsAsked, OnTheirTopics,
        ConvertedSoFar, Finished, Unopened, OnSingle
  <2> QED BY <1>2, <1>3, <2>7 DEF Sound
<1> QED BY <1>4, <1>5, <1>6

LEMMA ConvertHolds ==
    ASSUME KInv, converting, converting' = converting, Convert PROVE Sound'
<1>1. CASE ConfigureInput
  BY <1>1, ConfigureSingleHolds, ConfigureTopicsHolds, ConfigureTypesHolds
  DEF ConfigureInput, convertVars
<1>2. CASE \E s \in Inputs, name \in OutputNames : ConvertRefused(s, name) \/ ConvertStarts(s, name)
  BY <1>2, StartHolds
<1> QED
  BY <1>1, <1>2, OpenInputHolds, OutputHolds, ReadFrameHolds, WriteFrameHolds, LeaveHolds
  DEF Convert

LEMMA StutterHolds == ASSUME KInv, UNCHANGED <<allVars, convertVars>> PROVE Sound'
<1>1. /\ UNCHANGED vars /\ UNCHANGED <<single, step, asked, wanted, spec, answer>>
      /\ UNCHANGED <<converting, output_name, output, converted>>
  BY DEF allVars, readerVars, channelVars, request, convertVars
<1>2. RInv'
  BY <1>1, KeptReader DEF KInv, Sound
<1>3. ClientTypes'
  BY <1>1, ZenonT(60) DEF KInv, Sound, ClientTypes
<1>4. UNCHANGED <<file, reader, iterator, delivered, skipped, raised, topics, expected, mode, ret, decoders>>
  BY <1>1 DEF vars, handle, settings, caches, cursor, history
<1>5. Seen' = Seen /\ UNCHANGED Frame
  BY <1>1 DEF Seen, Output, Pending, Frame, vars, cursor, history
<1>6. Fresh' /\ Asking' /\ OnItsTopic' /\ AtEnd' /\ ResolvedAsAsked'
  <2>1. Fresh' /\ AtEnd'
    BY <1>1, <1>4 DEF KInv, Sound, Phases, Fresh, Blank, AtEnd
  <2>2. Asking'
    BY <1>1, <1>4 DEF KInv, Sound, Phases, Asking, TypeFor, Readable
  <2>3. OnItsTopic'
    BY <1>1, <1>4 DEF KInv, Sound, Phases, OnItsTopic
  <2>4. ResolvedAsAsked'
    BY <1>1 DEF KInv, Sound, Phases, ResolvedAsAsked
  <2> QED BY <2>1, <2>2, <2>3, <2>4
<1>7. OnTheirTopics'
  BY <1>1, <1>4 DEF KInv, Sound, Phases, OnTheirTopics, Unfit
<1>8. ConvertedSoFar'
  BY <1>1, <1>4, <1>5
  DEF KInv, Sound, Phases, ConvertedSoFar, SingleSoFar, MultiSoFar, Going, Current
<1>9. Finished'
  BY <1>1, <1>4
  DEF KInv, Sound, Phases, Finished, ConvertedAll, Incompatible, Broken, Mismatch, NoDecoder
<1> QED BY <1>2, <1>3, <1>6, <1>7, <1>8, <1>9 DEF Sound, Phases

LEMMA ClientsHold ==
    ASSUME KInv, [ClientsNext]_<<allVars, convertVars>> PROVE KInv'
<1>1. CInv'
  BY ChannelSound, ConvertSound, StutterSound DEF ClientsNext, KInv
<1>2. Sound'
  BY ChannelHolds, ConvertHolds, StutterHolds DEF ClientsNext, convertVars
<1> QED BY <1>1, <1>2 DEF KInv

LEMMA ClientInvariance == ClientsSpec => []KInv
BY ClientsInitSound, ClientsHold, PTL DEF ClientsSpec

-----------------------------------------------------------------------------
(* What follows for the clients.                                           *)

(* What an iteration has handed out is of the topics it was started on and *)
(* of the types expected of them.                                          *)
LEMMA SeenAsSet ==
    ASSUME RInv, Readable, NEW i \in Seen
    PROVE  /\ i \in Selected(file, topics)
           /\ ~Broken(file, i) => expected[ChannelOf(file, i).topic] \in {None, SchemaType(file, i)}
<1>1. i \in Selected(file, topics)
  BY DEF RInv, OInv, Accounted
<1>2. ~Incompatible(file, i)
  BY DEF RInv, Sifted, Readable
<1> QED BY <1>1, <1>2 DEF Incompatible, Mismatch, SchemaType

LEMMA ItsChannelOnly == ASSUME KInv PROVE OnlyItsChannel
<1>. SUFFICES ASSUME step = "ready", Readable, NEW n \in DOMAIN Output
              PROVE  /\ ChannelOf(file, Output[n]).topic = spec.topic
                     /\ asked.topic # None /\ asked.type # None /\ ~Broken(file, Output[n])
                           => SchemaType(file, Output[n]) = spec.type
  BY DEF OnlyItsChannel
<1>1. /\ RInv /\ single = None
      /\ topics = {spec.topic}
      /\ asked.topic # None /\ asked.type # None => expected[spec.topic] = asked.type
      /\ asked.type \in {None, spec.type}
  BY DEF KInv, CInv, Sound, Phases, OnItsTopic, ResolvedAsAsked, Readable
<1>2. Output[n] \in Seen
  BY DEF Seen
<1>3. ChannelOf(file, Output[n]).topic = spec.topic
  BY <1>1, <1>2, SeenAsSet DEF Selected
<1> QED BY <1>1, <1>2, <1>3, SeenAsSet

LEMMA ItsChannelAll == ASSUME KInv PROVE AllOfItsChannel
<1>. SUFFICES ASSUME step = "ready", Readable, answer = "EOF",
                     NEW i \in Selected(file, {spec.topic})
              PROVE  \/ Incompatible(file, i)
                     \/ i \in Seen
                     \/ \E b \in Seen : Broken(file, b) /\ Before(file, b, i)
  BY DEF AllOfItsChannel
<1>1. /\ RInv /\ topics = {spec.topic} /\ iterator = None
  BY DEF KInv, CInv, Sound, Phases, OnItsTopic, AtEnd, Readable
<1>2. (\A j \in skipped : Incompatible(file, j)) /\ raised = {}
  BY <1>1 DEF RInv, Sifted, Readable
<1> QED BY <1>1, <1>2 DEF RInv, OInv, Accounted, Left

LEMMA TheirChannelsOnly == ASSUME KInv PROVE OnlyTheirChannels
<1>. SUFFICES ASSUME step = "several" PROVE
        /\ Readable => \A n \in DOMAIN Output :
              LET topic == ChannelOf(file, Output[n]).topic IN
              /\ TopicsOf(wanted) # {} => topic \in TopicsOf(wanted)
              /\ ~Broken(file, Output[n]) => \A type \in TypesOn(wanted, topic) :
                    SchemaType(file, Output[n]) = type
        /\ file # None => \A s \in wanted : s.path = file
        /\ single # None => TypesOf(wanted) \subseteq {single.type}
  BY DEF OnlyTheirChannels
<1>1. /\ RInv /\ wanted \in Wants /\ ~Unfit(wanted)
      /\ single = None => /\ topics = TopicsOf(wanted) /\ expected = Expectation(wanted)
                          /\ file # None => \A s \in wanted : s.path = file
      /\ single # None => TypesOf(wanted) \subseteq {single.type} /\ file = None
  BY DEF KInv, CInv, Sound, Phases, OnTheirTopics
<1>2. ASSUME Readable, NEW n \in DOMAIN Output
      PROVE  LET topic == ChannelOf(file, Output[n]).topic IN
             /\ TopicsOf(wanted) # {} => topic \in TopicsOf(wanted)
             /\ ~Broken(file, Output[n]) => \A type \in TypesOn(wanted, topic) :
                   SchemaType(file, Output[n]) = type
  <2>. DEFINE i == Output[n]
              topic == ChannelOf(file, i).topic
  <2>1. i \in Seen
    BY <1>2 DEF Seen
  <2>2. /\ i \in Selected(file, topics)
        /\ ~Broken(file, i) => expected[topic] \in {None, SchemaType(file, i)}
    BY <1>1, <1>2, <2>1, SeenAsSet
  <2>3. topic \in Topics
    <3>1. file \in Paths /\ i \in DOMAIN FileAt[file].messages
      BY <1>1, <1>2, <2>2, SelectedInFile DEF RInv, IInv, TypeOK, Readable
    <3> QED BY <3>1, MessageTyped DEF Channels
  <2>4. TopicsOf(wanted) # {} => topic \in TopicsOf(wanted)
    BY <1>1, <1>2, <2>2 DEF Selected, Readable
  <2>5. ASSUME ~Broken(file, i), NEW type \in TypesOn(wanted, topic)
        PROVE  SchemaType(file, i) = type
    <3>1. Expectation(wanted)[topic] = type
      BY <1>1, <2>3, <2>5, FitExpectation
    <3>2. type # None
      BY <2>5 DEF TypesOn
    <3>3. expected = Expectation(wanted)
      BY <1>1, <1>2 DEF Readable
    <3> QED BY <2>2, <2>5, <3>1, <3>2, <3>3
  <2> QED BY <2>4, <2>5
<1> QED BY <1>1, <1>2

(* The types of what the clients keep between their calls.                 *)
THEOREM ClientsTyped == ClientsSpec => []ConvertTypeOK
BY ClientInvariance, KTypes, PTL

(* open_channel reports a channel as asked for and as it is: one that is   *)
(* there in an MCAP file, the type that is decoded with in another, which  *)
(* is the one at its place in a conventional name if none was asked for.   *)
THEOREM AdapterTrue == ClientsSpec => []ResolvedAsAsked
<1>1. KInv => ResolvedAsAsked
  BY DEF KInv, Sound, Phases
<1> QED BY <1>1, ClientInvariance, PTL

(* An adapter reads exactly one logical channel: it hands out nothing that *)
(* is on another topic, nor of another type if both were asked for...      *)
THEOREM AdapterKeepsToChannel == ClientsSpec => []OnlyItsChannel
BY ClientInvariance, ItsChannelOnly, PTL

(* ...and withholds nothing of its channel, although the reader under it   *)
(* passes over in silence what it was told not to expect.                  *)
THEOREM AdapterIsComplete == ClientsSpec => []AllOfItsChannel
BY ClientInvariance, ItsChannelAll, PTL

(* A reader configured for several channels hands out nothing that none of *)
(* them asked for or that contradicts one of them, for any finite set of   *)
(* specifications.                                                         *)
THEOREM SeveralKeepToTheirs == ClientsSpec => []OnlyTheirChannels
BY ClientInvariance, TheirChannelsOnly, PTL

(* A conversion that is reported as done has handed the writer each ground *)
(* truth message of its topics once and in order, all of them taken, and   *)
(* met nothing unreadable.  If the output has a single channel they are all*)
(* in it; of an MCAP output the last may be missing.                       *)
THEOREM ConversionComplete == ClientsSpec => []ConvertedAll
<1>1. KInv => ConvertedAll
  BY DEF KInv, Sound, Phases, Finished
<1> QED BY <1>1, ClientInvariance, PTL

=============================================================================
