------------------------- MODULE ChannelWriter_proofs -------------------------
(***************************************************************************)
(* Theorems about the Python MCAP writer, the channel writer of the Python *)
(* API on .mcap files and the channel helpers that share a writer, for all *)
(* topics, types, versions, messages, paths and helpers.                   *)
(***************************************************************************)
EXTENDS MCAPChannel, TLAPS

-----------------------------------------------------------------------------
(* The MCAP writer                                                         *)

(* The two ids of the registry and the records of a writer object describe *)
(* each other.                                                             *)
Mirrors(ss, cs, ac, sc) ==
    /\ \A t \in AllTopics : ac[t] # 0 => ac[t] \in DOMAIN cs /\ cs[ac[t]].topic = t
    /\ \A c \in DOMAIN cs : ac[cs[c].topic] = c /\ cs[c].schema \in DOMAIN ss
    /\ \A s \in DOMAIN ss : sc[ss[s]] = s
    /\ \A y \in MessageTypes : sc[y] # 0 => sc[y] \in DOMAIN ss /\ ss[sc[y]] = y

(* A type has a schema id only together with a channel: what open() starts *)
(* from, if no channel is registered, is empty altogether.                 *)
NoSchemaAlone == Registered = {} => schema_cache = NoSchemas

Mirrored == mcap # None /\ ~stale
              => Mirrors(mcap.schemas, mcap.channels, active_channels, schema_cache)

(* What AcceptedOnTopic says of a writer object w.                         *)
Holds(w, acc, count) ==
    /\ count = Len(acc)
    /\ \A n \in DOMAIN acc :
          /\ acc[n].at \in DOMAIN w.messages
          /\ w.messages[acc[n].at].message = acc[n].message
          /\ w.messages[acc[n].at].channel \in DOMAIN w.channels
          /\ w.channels[w.messages[acc[n].at].channel].topic = acc[n].topic
    /\ \A m, n \in DOMAIN acc : m < n => acc[m].at < acc[n].at

AcceptedHeld == IsLive /\ ~stale => Holds(mcap, accepted, written)

(* The inductive invariant.                                                *)
WInv == WriterTypeOK /\ NoSchemaAlone /\ Mirrored /\ AcceptedHeld

LEMMA AppendFacts ==
  ASSUME NEW S, NEW s \in Seq(S), NEW x \in S
  PROVE  /\ Append(s, x) \in Seq(S)
         /\ Len(Append(s, x)) = Len(s) + 1
         /\ DOMAIN Append(s, x) = 1..(Len(s) + 1)
         /\ \A n \in 1..Len(s) : Append(s, x)[n] = s[n]
         /\ Append(s, x)[Len(s) + 1] = x
         /\ DOMAIN s = 1..Len(s)
         /\ Len(s) \in Nat
  OBVIOUS

LEMMA EmptySeq == ASSUME NEW S PROVE <<>> \in Seq(S)
  OBVIOUS

(* A new channel, with the schema of its type added if there is none.      *)
LEMMA MirrorsExtended ==
  ASSUME NEW ss \in Seq(MessageTypes), NEW cs \in Seq(Channels),
         NEW ac \in [AllTopics -> Nat], NEW sc \in [MessageTypes -> Nat],
         NEW t \in AllTopics, NEW y \in MessageTypes, NEW v \in OsiVersions \union {None},
         ac[t] = 0, Mirrors(ss, cs, ac, sc)
  PROVE  LET ss2 == IF sc[y] = 0 THEN Append(ss, y) ELSE ss
             sc2 == IF sc[y] = 0 THEN [sc EXCEPT ![y] = Len(ss) + 1] ELSE sc
         IN  Mirrors(ss2, Append(cs, [topic |-> t, schema |-> sc2[y], osi_version |-> v]),
                     [ac EXCEPT ![t] = Len(cs) + 1], sc2)
<1> DEFINE ss2 == IF sc[y] = 0 THEN Append(ss, y) ELSE ss
           sc2 == IF sc[y] = 0 THEN [sc EXCEPT ![y] = Len(ss) + 1] ELSE sc
           ch  == [topic |-> t, schema |-> sc2[y], osi_version |-> v]
           cs2 == Append(cs, ch)
           ac2 == [ac EXCEPT ![t] = Len(cs) + 1]
<1>1. /\ Len(ss) \in Nat /\ DOMAIN ss = 1..Len(ss)
      /\ Len(cs) \in Nat /\ DOMAIN cs = 1..Len(cs)
  OBVIOUS
<1>2. /\ ss2 \in Seq(MessageTypes) /\ sc2 \in [MessageTypes -> Nat]
      /\ sc2[y] \in Nat \ {0} /\ sc2[y] \in DOMAIN ss2 /\ ss2[sc2[y]] = y
      /\ \A s \in DOMAIN ss2 : sc2[ss2[s]] = s
      /\ \A x \in MessageTypes : sc2[x] # 0 => sc2[x] \in DOMAIN ss2 /\ ss2[sc2[x]] = x
      /\ DOMAIN ss \subseteq DOMAIN ss2
  <2>1. CASE sc[y] # 0
    BY <2>1, <1>1 DEF Mirrors
  <2>2. CASE sc[y] = 0
    <3> HIDE DEF ss2, sc2
    <3>1. ss2 = Append(ss, y) /\ sc2 = [sc EXCEPT ![y] = Len(ss) + 1]
      BY <2>2 DEF ss2, sc2
    <3>2. /\ ss2 \in Seq(MessageTypes) /\ DOMAIN ss2 = 1..(Len(ss) + 1)
          /\ \A n \in 1..Len(ss) : ss2[n] = ss[n]
          /\ ss2[Len(ss) + 1] = y
      BY <3>1, AppendFacts
    <3>3. /\ sc2 \in [MessageTypes -> Nat] /\ sc2[y] = Len(ss) + 1
          /\ \A x \in MessageTypes : x # y => sc2[x] = sc[x]
      BY <3>1, <1>1
    <3>4. \A n \in 1..Len(ss) : ss[n] # y
      <4> TAKE n \in 1..Len(ss)
      <4>1. sc[ss[n]] = n  BY <1>1 DEF Mirrors
      <4> QED  BY <4>1, <2>2
    <3>5. \A s \in DOMAIN ss2 : sc2[ss2[s]] = s
      <4> TAKE s \in DOMAIN ss2
      <4>1. CASE s = Len(ss) + 1  BY <4>1, <3>2, <3>3
      <4>2. CASE s \in 1..Len(ss)
        <5>1. ss[s] \in MessageTypes /\ sc[ss[s]] = s  BY <4>2, <1>1 DEF Mirrors
        <5> QED  BY <4>2, <5>1, <3>2, <3>3, <3>4
      <4> QED  BY <4>1, <4>2, <3>2, <1>1
    <3>6. \A x \in MessageTypes : sc2[x] # 0 => sc2[x] \in DOMAIN ss2 /\ ss2[sc2[x]] = x
      <4> TAKE x \in MessageTypes
      <4>1. CASE x = y  BY <4>1, <3>2, <3>3, <1>1
      <4>2. CASE x # y
        <5>1. sc[x] # 0 => sc[x] \in 1..Len(ss) /\ ss[sc[x]] = x  BY <1>1 DEF Mirrors
        <5> QED  BY <4>2, <5>1, <3>2, <3>3, <1>1
      <4> QED  BY <4>1, <4>2
    <3> QED  BY <3>2, <3>3, <3>5, <3>6, <1>1
  <2> QED  BY <2>1, <2>2
<1>3. ch \in Channels
  BY <1>2 DEF Channels
<1>4. /\ cs2 \in Seq(Channels) /\ DOMAIN cs2 = 1..(Len(cs) + 1)
      /\ \A n \in 1..Len(cs) : cs2[n] = cs[n]
      /\ cs2[Len(cs) + 1] = ch
  BY <1>3, AppendFacts
<1>5. /\ ac2 \in [AllTopics -> Nat] /\ ac2[t] = Len(cs) + 1
      /\ \A x \in AllTopics : x # t => ac2[x] = ac[x]
  BY <1>1
<1> HIDE DEF ss2, sc2, cs2, ac2
<1>6. \A n \in 1..Len(cs) : /\ cs[n].topic \in AllTopics /\ cs[n].topic # t
                            /\ ac[cs[n].topic] = n /\ cs[n].schema \in DOMAIN ss
  <2> TAKE n \in 1..Len(cs)
  <2>1. cs[n] \in Channels  BY <1>1
  <2>2. ac[cs[n].topic] = n /\ cs[n].schema \in DOMAIN ss  BY <1>1 DEF Mirrors
  <2> QED  BY <2>1, <2>2, SMTT(60) DEF Channels
<1>7. \A x \in AllTopics : ac2[x] # 0 => ac2[x] \in DOMAIN cs2 /\ cs2[ac2[x]].topic = x
  <2> TAKE x \in AllTopics
  <2>1. CASE x = t  BY <2>1, <1>1, <1>4, <1>5
  <2>2. CASE x # t
    <3>1. ac[x] # 0 => ac[x] \in 1..Len(cs) /\ cs[ac[x]].topic = x  BY <1>1 DEF Mirrors
    <3> QED  BY <2>2, <3>1, <1>1, <1>4, <1>5
  <2> QED  BY <2>1, <2>2
<1>8. \A c \in DOMAIN cs2 : ac2[cs2[c].topic] = c /\ cs2[c].schema \in DOMAIN ss2
  <2> TAKE c \in DOMAIN cs2
  <2>1. CASE c = Len(cs) + 1  BY <2>1, <1>2, <1>4, <1>5
  <2>2. CASE c \in 1..Len(cs)
    <3>1. cs2[c] = cs[c] /\ cs[c].schema \in DOMAIN ss2  BY <2>2, <1>2, <1>4, <1>6
    <3>2. ac2[cs[c].topic] = c  BY <2>2, <1>5, <1>6
    <3> QED  BY <3>1, <3>2
  <2> QED  BY <2>1, <2>2, <1>1, <1>4
<1>9. Mirrors(ss2, cs2, ac2, sc2)
  BY <1>2, <1>7, <1>8 DEF Mirrors
<1> QED
  BY <1>9 DEF ss2, sc2, cs2, ac2

(* Records only ever come behind those that are there.                     *)
Extends(w, w2) ==
    /\ \A i \in DOMAIN w.messages :
          i \in DOMAIN w2.messages /\ w2.messages[i] = w.messages[i]
    /\ \A c \in DOMAIN w.channels :
          c \in DOMAIN w2.channels /\ w2.channels[c] = w.channels[c]

(* A writer object w and its registry ac, sc have become w2, ac2 and sc2   *)
(* by a new channel for topic t.                                           *)
ChannelStep(w, ac, sc, w2, ac2, sc2, t) ==
    /\ w2 \in Mcaps /\ Extends(w, w2) /\ w2.messages = w.messages
    /\ ac2 \in [AllTopics -> Nat] /\ sc2 \in [MessageTypes -> Nat]
    /\ ac2[t] = Len(w.channels) + 1
    /\ Len(w.channels) + 1 \in Nat \ {0}
    /\ Len(w.channels) + 1 \in DOMAIN w2.channels
    /\ w2.channels[Len(w.channels) + 1].topic = t
    /\ (ac[t] = 0 /\ Mirrors(w.schemas, w.channels, ac, sc))
          => Mirrors(w2.schemas, w2.channels, ac2, sc2)

(* What WithChannel makes of a writer object, whatever its registry.       *)
LEMMA ChannelAdded ==
  ASSUME NEW w \in Mcaps, NEW ac \in [AllTopics -> Nat], NEW sc \in [MessageTypes -> Nat],
         NEW t \in AllTopics, NEW y \in MessageTypes, NEW v \in OsiVersions \union {None}
  PROVE  ChannelStep(w, ac, sc, WithChannel(w, sc, t, y, v),
                     [ac EXCEPT ![t] = Len(w.channels) + 1], CacheWith(w, sc, y), t)
<1> DEFINE w2  == WithChannel(w, sc, t, y, v)
           sc2 == CacheWith(w, sc, y)
           ac2 == [ac EXCEPT ![t] = Len(w.channels) + 1]
           ch  == [topic |-> t, schema |-> sc2[y], osi_version |-> v]
<1>1. /\ w.schemas \in Seq(MessageTypes) /\ w.channels \in Seq(Channels)
      /\ w.messages \in Seq([channel : Nat \ {0}, message : Messages])
      /\ w.metadata \in Nat
      /\ Len(w.channels) \in Nat /\ Len(w.schemas) \in Nat
  BY DEF Mcaps, Schemas
<1>2. w2 = [schemas |-> Schemed(w, sc, y), channels |-> Append(w.channels, ch),
            messages |-> w.messages, metadata |-> w.metadata]
  <2>1. w = [schemas |-> w.schemas, channels |-> w.channels,
             messages |-> w.messages, metadata |-> w.metadata]
    BY DEF Mcaps
  <2>2. w2 = [[w EXCEPT !.schemas = Schemed(w, sc, y)]
                EXCEPT !.channels = Append(w.channels, ch)]
    BY <2>1 DEF WithChannel
  <2> QED  BY <2>1, <2>2
<1>3. /\ sc2 = (IF sc[y] = 0 THEN [sc EXCEPT ![y] = Len(w.schemas) + 1] ELSE sc)
      /\ w2.schemas = (IF sc[y] = 0 THEN Append(w.schemas, y) ELSE w.schemas)
      /\ w2.channels = Append(w.channels, ch)
  BY <1>2 DEF CacheWith, Schemed
<1>4. sc2 \in [MessageTypes -> Nat] /\ sc2[y] \in Nat \ {0}
  BY <1>1, <1>3
<1>5. ch \in Channels
  BY <1>4 DEF Channels
<1>6. w2.schemas \in Seq(MessageTypes)
  <2>1. Append(w.schemas, y) \in Seq(MessageTypes)  BY <1>1, AppendFacts
  <2> QED  BY <2>1, <1>1, <1>3
<1>7. /\ w2.channels \in Seq(Channels)
      /\ DOMAIN w2.channels = 1..(Len(w.channels) + 1)
      /\ DOMAIN w.channels = 1..Len(w.channels)
      /\ \A n \in 1..Len(w.channels) : w2.channels[n] = w.channels[n]
      /\ w2.channels[Len(w.channels) + 1] = ch
  BY <1>1, <1>3, <1>5, AppendFacts
<1>8. w2 \in Mcaps /\ w2.messages = w.messages
  <2>1. w2 = [schemas |-> w2.schemas, channels |-> w2.channels,
              messages |-> w.messages, metadata |-> w.metadata]
    BY <1>2
  <2> HIDE DEF w2
  <2> QED  BY <2>1, <1>1, <1>6, <1>7 DEF Mcaps, Schemas
<1>9. ac2 \in [AllTopics -> Nat] /\ ac2[t] = Len(w.channels) + 1
  BY <1>1
<1>10. Extends(w, w2)
  BY <1>1, <1>7, <1>8 DEF Extends
<1>11. ASSUME ac[t] = 0, Mirrors(w.schemas, w.channels, ac, sc)
       PROVE  Mirrors(w2.schemas, w2.channels, ac2, sc2)
  <2> DEFINE ss == w.schemas
             cs == w.channels
  <2>1. w2.channels = Append(cs, [topic |-> t, schema |-> sc2[y], osi_version |-> v])
    BY <1>3
  <2>2. ss \in Seq(MessageTypes) /\ cs \in Seq(Channels)
    BY <1>1
  <2>3. ac[t] = 0 /\ Mirrors(ss, cs, ac, sc)
    BY <1>11
  <2> HIDE DEF ss, cs
  <2>4. LET ss3 == IF sc[y] = 0 THEN Append(ss, y) ELSE ss
            sc3 == IF sc[y] = 0 THEN [sc EXCEPT ![y] = Len(ss) + 1] ELSE sc
        IN  Mirrors(ss3, Append(cs, [topic |-> t, schema |-> sc3[y], osi_version |-> v]),
                    [ac EXCEPT ![t] = Len(cs) + 1], sc3)
    BY <2>2, <2>3, MirrorsExtended
  <2> HIDE DEF w2, sc2, ac2, ch
  <2>5. Mirrors(w2.schemas, Append(cs, [topic |-> t, schema |-> sc2[y], osi_version |-> v]),
                ac2, sc2)
    BY <1>3, <2>4 DEF ac2, ss, cs
  <2> QED  BY <2>1, <2>5
<1> QED
  <2> HIDE DEF w2, sc2, ac2
  <2>1. w2.channels[Len(w.channels) + 1].topic = t  BY <1>7
  <2>2. /\ Len(w.channels) + 1 \in Nat \ {0}
        /\ Len(w.channels) + 1 \in DOMAIN w2.channels
    BY <1>1, <1>7
  <2>3. ChannelStep(w, ac, sc, w2, ac2, sc2, t)
    BY <1>4, <1>8, <1>9, <1>10, <1>11, <2>1, <2>2 DEF ChannelStep
  <2> QED  BY <2>3 DEF w2, sc2, ac2

-----------------------------------------------------------------------------
(* Accepted messages.                                                      *)

(* Behind the new messages and channels the accepted ones are still there. *)
LEMMA HeldOn ==
  ASSUME NEW w, NEW w2, NEW acc, NEW count, Holds(w, acc, count), Extends(w, w2)
  PROVE  Holds(w2, acc, count)
<1> USE DEF Holds, Extends
<1>1. ASSUME NEW n \in DOMAIN acc
      PROVE  /\ acc[n].at \in DOMAIN w2.messages
             /\ w2.messages[acc[n].at].message = acc[n].message
             /\ w2.messages[acc[n].at].channel \in DOMAIN w2.channels
             /\ w2.channels[w2.messages[acc[n].at].channel].topic = acc[n].topic
  <2>1. /\ acc[n].at \in DOMAIN w2.messages
        /\ w2.messages[acc[n].at] = w.messages[acc[n].at]
    OBVIOUS
  <2> QED  BY <2>1
<1> QED  BY <1>1

LEMMA MessageAdded ==
  ASSUME NEW w \in Mcaps, NEW c \in Nat \ {0}, NEW m \in Messages
  PROVE  LET w2 == WithMessage(w, c, m)
         IN  /\ w2 \in Mcaps /\ Extends(w, w2)
             /\ w2.schemas = w.schemas /\ w2.channels = w.channels
             /\ DOMAIN w.messages = 1..Len(w.messages) /\ Len(w.messages) \in Nat
             /\ Len(w.messages) + 1 \in DOMAIN w2.messages
             /\ w2.messages[Len(w.messages) + 1] = [channel |-> c, message |-> m]
<1> DEFINE w2 == WithMessage(w, c, m)
           x  == [channel |-> c, message |-> m]
           S  == [channel : Nat \ {0}, message : Messages]
<1>1. /\ w.schemas \in Seq(Schemas) /\ w.channels \in Seq(Channels)
      /\ w.messages \in Seq(S) /\ w.metadata \in Nat
  BY DEF Mcaps
<1>2. w2 = [schemas |-> w.schemas, channels |-> w.channels,
            messages |-> Append(w.messages, x), metadata |-> w.metadata]
  <2>1. w = [schemas |-> w.schemas, channels |-> w.channels,
             messages |-> w.messages, metadata |-> w.metadata]
    BY DEF Mcaps
  <2>2. w2 = [w EXCEPT !.messages = Append(w.messages, x)]
    BY DEF WithMessage
  <2> HIDE DEF w2, x, S
  <2> QED  BY <2>1, <2>2
<1>3. x \in S
  OBVIOUS
<1> HIDE DEF w2, x, S
<1>4. /\ Append(w.messages, x) \in Seq(S)
      /\ DOMAIN Append(w.messages, x) = 1..(Len(w.messages) + 1)
      /\ \A n \in 1..Len(w.messages) : Append(w.messages, x)[n] = w.messages[n]
      /\ Append(w.messages, x)[Len(w.messages) + 1] = x
      /\ DOMAIN w.messages = 1..Len(w.messages) /\ Len(w.messages) \in Nat
  BY <1>1, <1>3, AppendFacts
<1>5. w2 \in Mcaps
  BY <1>1, <1>2, <1>4 DEF Mcaps, S
<1>6. Extends(w, w2)
  BY <1>2, <1>4 DEF Extends
<1>7. /\ Len(w.messages) + 1 \in DOMAIN w2.messages
      /\ w2.messages[Len(w.messages) + 1] = x
  BY <1>2, <1>4
<1> QED  BY <1>2, <1>4, <1>5, <1>6, <1>7 DEF w2, x

(* One more message is accepted, for topic t, on a channel of that topic.  *)
LEMMA HeldMore ==
  ASSUME NEW w \in Mcaps, NEW c \in Nat \ {0}, NEW m \in Messages, NEW t \in AllTopics,
         NEW acc \in Seq([topic : AllTopics, message : Messages, at : Nat]),
         NEW count \in Nat, Holds(w, acc, count),
         c \in DOMAIN w.channels, w.channels[c].topic = t
  PROVE  Holds(WithMessage(w, c, m),
               Append(acc, [topic |-> t, message |-> m, at |-> Len(w.messages) + 1]),
               count + 1)
<1> DEFINE w2 == WithMessage(w, c, m)
           A  == [topic : AllTopics, message : Messages, at : Nat]
           a  == [topic |-> t, message |-> m, at |-> Len(w.messages) + 1]
           L  == Len(acc)
           acc2 == Append(acc, a)
<1>1. /\ Extends(w, w2) /\ w2.channels = w.channels
      /\ DOMAIN w.messages = 1..Len(w.messages) /\ Len(w.messages) \in Nat
      /\ Len(w.messages) + 1 \in DOMAIN w2.messages
      /\ w2.messages[Len(w.messages) + 1] = [channel |-> c, message |-> m]
  BY MessageAdded
<1>2. a \in A
  BY <1>1
<1>3. Holds(w2, acc, count)
  BY <1>1, HeldOn
<1>3a. \A n \in DOMAIN acc : acc[n].at \in 1..Len(w.messages)
  BY <1>1 DEF Holds
<1> HIDE DEF w2, A
<1>4. /\ Len(acc2) = L + 1 /\ DOMAIN acc2 = 1..(L + 1) /\ DOMAIN acc = 1..L
      /\ L \in Nat /\ acc2[L + 1] = a
      /\ \A n \in 1..L : acc2[n] = acc[n]
  <2>1. acc \in Seq(A)  BY DEF A
  <2> HIDE DEF a
  <2> QED  BY <1>2, <2>1, AppendFacts
<1>5. /\ a.topic = t /\ a.message = m /\ a.at = Len(w.messages) + 1
  BY SMTT(60)
<1> HIDE DEF a, acc2, L
<1>6. count + 1 = Len(acc2)
  BY <1>3, <1>4 DEF Holds, L
<1>7. \A n \in DOMAIN acc2 :
          /\ acc2[n].at \in DOMAIN w2.messages
          /\ w2.messages[acc2[n].at].message = acc2[n].message
          /\ w2.messages[acc2[n].at].channel \in DOMAIN w2.channels
          /\ w2.channels[w2.messages[acc2[n].at].channel].topic = acc2[n].topic
  <2> TAKE n \in DOMAIN acc2
  <2>1. CASE n = L + 1
    <3>1. acc2[n] = a  BY <2>1, <1>4
    <3>2. w2.messages[a.at].message = m /\ w2.messages[a.at].channel = c
      BY <1>1, <1>5
    <3> QED  BY <3>1, <3>2, <1>1, <1>5
  <2>2. CASE n \in 1..L
    <3>1. acc2[n] = acc[n] /\ n \in DOMAIN acc  BY <2>2, <1>4
    <3> QED  BY <3>1, <1>3 DEF Holds
  <2> QED  BY <2>1, <2>2, <1>4
<1>8. \A j, k \in DOMAIN acc2 : j < k => acc2[j].at < acc2[k].at
  <2> SUFFICES ASSUME NEW j \in 1..(L + 1), NEW k \in 1..(L + 1), j < k
               PROVE  acc2[j].at < acc2[k].at
    BY <1>4
  <2>1. j \in 1..L /\ acc2[j] = acc[j] /\ j \in DOMAIN acc
    BY <1>4
  <2>2. CASE k = L + 1
    <3>1. acc2[k] = a  BY <2>2, <1>4
    <3>2. acc[j].at \in 1..Len(w.messages)  BY <2>1, <1>3a
    <3> QED  BY <3>1, <3>2, <2>1, <1>1, <1>5
  <2>3. CASE k \in 1..L
    <3>1. acc2[k] = acc[k] /\ k \in DOMAIN acc  BY <2>3, <1>4
    <3> QED  BY <3>1, <2>1, <1>3 DEF Holds
  <2> QED  BY <2>2, <2>3, <1>4
<1>9. Holds(w2, acc2, count + 1)
  BY <1>6, <1>7, <1>8 DEF Holds
<1> QED  BY <1>9 DEF w2, acc2, a

-----------------------------------------------------------------------------
(* The calls, one lemma each.                                              *)

LEMMA InitInv == ASSUME WriterInit PROVE WInv
<1>1. WriterTypeOK
  <2>1. <<>> \in Seq([topic : AllTopics, message : Messages, at : Nat])  BY EmptySeq
  <2> QED  BY <2>1 DEF WriterInit, WriterTypeOK, NoChannels, NoSchemas, Answers
<1> QED
  BY <1>1 DEF WriterInit, WInv, NoSchemaAlone, Mirrored, AcceptedHeld, IsLive

(* A call that is refused leaves all but the answer.                       *)
LEMMA RefusedInv ==
  ASSUME WInv, ret' \in Answers,
         UNCHANGED <<file, usable, mcap, registry, written, accepted, stale>>
  PROVE  WInv'
<1> USE DEF registry
<1>1. WriterTypeOK'  BY DEF WInv, WriterTypeOK
<1>2. NoSchemaAlone'  BY DEF WInv, NoSchemaAlone, Registered
<1>3. Mirrored'  BY DEF WInv, Mirrored, Mirrors
<1>4. AcceptedHeld'  BY DEF WInv, AcceptedHeld, Holds, IsLive
<1> QED  BY <1>1, <1>2, <1>3, <1>4 DEF WInv

(* A new writer object behind open(): the records it has and the registry  *)
(* mirror each other, if the registry is empty.                            *)
LEMMA StartedFacts ==
  /\ Started \in Mcaps
  /\ (WriterTypeOK /\ NoSchemaAlone /\ Registered = {})
       => Mirrors(Started.schemas, Started.channels, active_channels, schema_cache)
  /\ Holds(Started, <<>>, 0)
<1>1. Started \in Mcaps
  <2>1. /\ <<>> \in Seq(Schemas) /\ <<>> \in Seq(Channels)
        /\ <<>> \in Seq([channel : Nat \ {0}, message : Messages])
    BY EmptySeq
  <2> QED  BY <2>1 DEF Started, Mcaps
<1>2. ASSUME WriterTypeOK, NoSchemaAlone, Registered = {}
      PROVE  Mirrors(Started.schemas, Started.channels, active_channels, schema_cache)
  <2>1. \A t \in AllTopics : active_channels[t] = 0
    BY <1>2 DEF Registered
  <2>2. \A y \in MessageTypes : schema_cache[y] = 0
    BY <1>2 DEF NoSchemaAlone, NoSchemas
  <2> QED  BY <2>1, <2>2 DEF Mirrors, Started
<1>3. Holds(Started, <<>>, 0)
  BY DEF Holds
<1> QED  BY <1>1, <1>2, <1>3

LEMMA OpenInv ==
  ASSUME WInv, NEW p \in Paths, Open(p)
  PROVE  WInv'
<1>0. /\ WriterTypeOK /\ NoSchemaAlone /\ Mirrored /\ AcceptedHeld
  BY DEF WInv
<1>1. CASE OpenRefused(p)
  BY <1>1, RefusedInv DEF OpenRefused, Answers
<1>2. ASSUME file = None, mcap' = Started, accepted' = <<>>, OnRegistry, UNCHANGED registry,
             file' \in Paths \union {None}, usable' \in BOOLEAN, ret' \in Answers,
             written' \in Nat, (file' # None /\ usable') => written' = 0
      PROVE  WInv'
  <2>1. WriterTypeOK'
    <3>1. <<>> \in Seq([topic : AllTopics, message : Messages, at : Nat])  BY EmptySeq
    <3>2. stale' \in BOOLEAN  BY <1>0, <1>2 DEF OnRegistry, WriterTypeOK
    <3> QED  BY <1>0, <1>2, <3>1, <3>2, StartedFacts DEF WriterTypeOK, registry
  <2>2. NoSchemaAlone'
    BY <1>0, <1>2 DEF NoSchemaAlone, Registered, registry
  <2>3. Mirrored'
    <3>1. SUFFICES ASSUME ~stale'
                   PROVE  Mirrors(Started.schemas, Started.channels,
                                  active_channels, schema_cache)
      BY <1>2 DEF Mirrored, Mirrors, registry
    <3>2. Registered = {}  BY <1>2, <3>1 DEF OnRegistry
    <3> QED  BY <1>0, <3>2, StartedFacts
  <2>4. AcceptedHeld'
    <3>1. Holds(Started, <<>>, 0)  BY StartedFacts
    <3> QED  BY <1>2, <3>1 DEF AcceptedHeld, IsLive, Holds
  <2> QED  BY <2>1, <2>2, <2>3, <2>4 DEF WInv
<1>3. CASE OpenStarted(p)
  BY <1>0, <1>2, <1>3 DEF OpenStarted, Answers, WriterTypeOK
<1>4. CASE OpenStartFails(p)
  <2>1. ~(file' # None /\ usable')  BY <1>4 DEF OpenStartFails
  <2> QED  BY <1>0, <1>2, <1>4, <2>1 DEF OpenStartFails, Answers, WriterTypeOK, registry
<1>5. CASE OpenCleanupFails(p)
  BY <1>0, <1>2, <1>5 DEF OpenCleanupFails, Answers, WriterTypeOK, registry
<1> QED
  BY <1>1, <1>3, <1>4, <1>5 DEF Open

LEMMA AddChannelInv ==
  ASSUME WInv, NEW t \in AllTopics, NEW y \in MessageTypes,
         NEW v \in OsiVersions \union {None}, AddChannel(t, y, v)
  PROVE  WInv'
<1>0. /\ WriterTypeOK /\ NoSchemaAlone /\ Mirrored /\ AcceptedHeld
  BY DEF WInv
<1>1. CASE AddChannelRaises(t)
  BY <1>1, RefusedInv DEF AddChannelRaises, Answers
<1>2. CASE AddChannelRegisters(t, y, v)
  <2>1. /\ mcap # None /\ mcap \in Mcaps /\ active_channels[t] = 0
        /\ active_channels \in [AllTopics -> Nat]
        /\ schema_cache \in [MessageTypes -> Nat]
        /\ mcap' = WithChannel(mcap, schema_cache, t, y, v)
        /\ schema_cache' = CacheWith(mcap, schema_cache, y)
        /\ active_channels' = [active_channels EXCEPT ![t] = Len(mcap.channels) + 1]
        /\ ret' = "true"
        /\ UNCHANGED <<file, usable, written, accepted, stale>>
    BY <1>0, <1>2 DEF AddChannelRegisters, Register, WriterTypeOK
  <2>1a. ChannelStep(mcap, active_channels, schema_cache,
                    mcap', active_channels', schema_cache', t)
    BY <2>1, ChannelAdded
  <2>2. /\ mcap' \in Mcaps /\ Extends(mcap, mcap')
        /\ active_channels' \in [AllTopics -> Nat] /\ schema_cache' \in [MessageTypes -> Nat]
        /\ active_channels'[t] # 0
        /\ Mirrors(mcap.schemas, mcap.channels, active_channels, schema_cache)
             => Mirrors(mcap'.schemas, mcap'.channels, active_channels', schema_cache')
    BY <2>1, <2>1a DEF ChannelStep
  <2>3. WriterTypeOK'  BY <1>0, <2>1, <2>2 DEF WriterTypeOK, Answers
  <2>4. NoSchemaAlone'  BY <2>2 DEF NoSchemaAlone, Registered
  <2>5. Mirrored'
    <3>1. Mirrored <=> (mcap # None /\ ~stale
                         => Mirrors(mcap.schemas, mcap.channels, active_channels, schema_cache))
      BY DEF Mirrored
    <3>2. Mirrored' <=> (mcap' # None /\ ~stale'
                          => Mirrors(mcap'.schemas, mcap'.channels,
                                     active_channels', schema_cache'))
      BY DEF Mirrored, Mirrors
    <3> QED  BY <1>0, <2>1, <2>2, <3>1, <3>2
  <2>6. AcceptedHeld'
    <3>1. SUFFICES ASSUME IsLive, ~stale  PROVE  Holds(mcap', accepted, written)
      BY <2>1 DEF AcceptedHeld, IsLive, Holds
    <3> QED  BY <1>0, <2>2, <3>1, HeldOn DEF AcceptedHeld
  <2> QED  BY <2>3, <2>4, <2>5, <2>6 DEF WInv
<1> QED  BY <1>1, <1>2 DEF AddChannel

(* The writer object w has a channel for topic t under the id c, and the   *)
(* registry is what the call leaves.                                       *)
Ready(w, c, t) ==
    /\ w \in Mcaps /\ Extends(mcap, w) /\ w.messages = mcap.messages
    /\ c \in Nat \ {0}
    /\ active_channels' \in [AllTopics -> Nat] /\ schema_cache' \in [MessageTypes -> Nat]
    /\ NoSchemaAlone'
    /\ ~stale => /\ Mirrors(w.schemas, w.channels, active_channels', schema_cache')
                 /\ c \in DOMAIN w.channels /\ w.channels[c].topic = t

(* What a write does before the message itself is handed on: the channel   *)
(* of its topic is there, the registry in step.                            *)
LEMMA PreparedSound ==
  ASSUME WInv, mcap # None, NEW m \in Messages, NEW given \in Topics \union {None},
         ~NoTopicFor(m, given), NEW t \in AllTopics, IsTopicFor(m, given, t),
         PrepareRegistry(m, t)
  PROVE  Ready(Prepared(m, t), ChannelFor(t), t)
<1> DEFINE w == Prepared(m, t)
<1>0. /\ mcap \in Mcaps /\ active_channels \in [AllTopics -> Nat]
      /\ schema_cache \in [MessageTypes -> Nat] /\ TypeOf[m] \in MessageTypes
      /\ NoSchemaAlone /\ Mirrored
  BY WriterAssumption DEF WInv, WriterTypeOK
<1>1. CASE Registered = {}
  <2>1. /\ w = WithChannel(mcap, schema_cache, t, TypeOf[m], None)
        /\ ChannelFor(t) = Len(mcap.channels) + 1
        /\ schema_cache' = CacheWith(mcap, schema_cache, TypeOf[m])
        /\ active_channels' = [active_channels EXCEPT ![t] = Len(mcap.channels) + 1]
        /\ active_channels[t] = 0
    BY <1>1 DEF Prepared, ChannelFor, PrepareRegistry, Registered
  <2>2. None \in OsiVersions \union {None}
    OBVIOUS
  <2> HIDE DEF w
  <2>1a. ChannelStep(mcap, active_channels, schema_cache,
                    w, active_channels', schema_cache', t)
    BY <1>0, <2>1, <2>2, ChannelAdded
  <2>3. /\ w \in Mcaps /\ Extends(mcap, w) /\ w.messages = mcap.messages
        /\ active_channels' \in [AllTopics -> Nat] /\ schema_cache' \in [MessageTypes -> Nat]
        /\ active_channels'[t] # 0
        /\ ChannelFor(t) \in Nat \ {0} /\ ChannelFor(t) \in DOMAIN w.channels
        /\ w.channels[ChannelFor(t)].topic = t
        /\ Mirrors(mcap.schemas, mcap.channels, active_channels, schema_cache)
             => Mirrors(w.schemas, w.channels, active_channels', schema_cache')
    BY <2>1, <2>1a DEF ChannelStep
  <2>4. NoSchemaAlone'  BY <2>3 DEF NoSchemaAlone, Registered
  <2> QED  BY <1>0, <2>3, <2>4 DEF Mirrored, Ready, w
<1>2. CASE Registered # {}
  <2>1. /\ w = mcap /\ ChannelFor(t) = active_channels[t]
        /\ active_channels' = active_channels /\ schema_cache' = schema_cache
    BY <1>2 DEF Prepared, ChannelFor, PrepareRegistry, registry
  <2>2. t \in Registered
    BY <1>2 DEF IsTopicFor, NoTopicFor
  <2>3. ChannelFor(t) \in Nat \ {0}
    BY <1>0, <2>1, <2>2 DEF Registered
  <2>4. NoSchemaAlone'  BY <1>0, <2>1 DEF NoSchemaAlone, Registered
  <2>5. Extends(mcap, mcap)  BY DEF Extends
  <2>6. ~stale => /\ ChannelFor(t) \in DOMAIN mcap.channels
                  /\ mcap.channels[ChannelFor(t)].topic = t
    BY <1>0, <2>1, <2>3 DEF Mirrored, Mirrors
  <2>7. ~stale => Mirrors(mcap.schemas, mcap.channels, active_channels', schema_cache')
    BY <1>0, <2>1 DEF Mirrored
  <2> QED  BY <1>0, <2>1, <2>3, <2>4, <2>5, <2>6, <2>7 DEF Ready
<1> QED  BY <1>1, <1>2

LEMMA WriteTakenInv ==
  ASSUME WInv, NEW m \in Messages, NEW given \in Topics \union {None}, WriteTaken(m, given)
  PROVE  WInv'
<1>0. /\ WriterTypeOK /\ AcceptedHeld
  BY DEF WInv
<1>1. PICK t \in AllTopics :
          /\ IsTopicFor(m, given, t)
          /\ mcap' = Taken(m, t)
          /\ PrepareRegistry(m, t)
          /\ accepted' = Append(accepted, [topic |-> t, message |-> m,
                                           at |-> Len(mcap.messages) + 1])
  BY DEF WriteTaken
<1>2. /\ mcap # None /\ ~NoTopicFor(m, given)
      /\ written' = written + 1 /\ ret' = "true" /\ UNCHANGED <<file, usable, stale>>
  BY DEF WriteTaken, MayWrite
<1> DEFINE w == Prepared(m, t)
           c == ChannelFor(t)
           a == [topic |-> t, message |-> m, at |-> Len(mcap.messages) + 1]
<1>3. Ready(w, c, t)
  BY <1>1, <1>2, PreparedSound
<1>4. mcap' = WithMessage(w, c, m)
  BY <1>1 DEF Taken
<1> HIDE DEF w, c
<1>5. /\ mcap' \in Mcaps /\ mcap'.schemas = w.schemas /\ mcap'.channels = w.channels
      /\ Len(w.messages) \in Nat
  BY <1>3, <1>4, MessageAdded, ZenonT(60) DEF Ready
<1>6. WriterTypeOK'
  <2>1. a \in [topic : AllTopics, message : Messages, at : Nat]
    BY <1>3, <1>5 DEF Ready
  <2> HIDE DEF a
  <2>2. accepted' \in Seq([topic : AllTopics, message : Messages, at : Nat])
    BY <1>0, <1>1, <2>1, AppendFacts DEF WriterTypeOK, a
  <2>3. /\ active_channels' \in [AllTopics -> Nat] /\ schema_cache' \in [MessageTypes -> Nat]
    BY <1>3 DEF Ready
  <2>4. written' \in Nat /\ ret' \in Answers
    <3>1. written \in Nat  BY <1>0 DEF WriterTypeOK
    <3>2. written' \in Nat  BY <1>2, <3>1
    <3>3. ret' \in Answers  BY <1>2 DEF Answers
    <3> QED  BY <3>2, <3>3
  <2> QED  BY <1>0, <1>2, <1>5, <2>2, <2>3, <2>4 DEF WriterTypeOK
<1>7. Mirrored'
  <2>1. SUFFICES ASSUME ~stale
                 PROVE  Mirrors(mcap'.schemas, mcap'.channels, active_channels', schema_cache')
    BY <1>2 DEF Mirrored, Mirrors
  <2> QED  BY <1>3, <1>5, <2>1 DEF Ready
<1>8. AcceptedHeld'
  <2>1. SUFFICES ASSUME IsLive, ~stale  PROVE  Holds(mcap', accepted', written')
    BY <1>2 DEF AcceptedHeld, IsLive, Holds
  <2>2. Holds(w, accepted, written)
    BY <1>0, <1>3, <2>1, HeldOn DEF AcceptedHeld, Ready
  <2>3. /\ w \in Mcaps /\ c \in Nat \ {0} /\ c \in DOMAIN w.channels
        /\ w.channels[c].topic = t /\ w.messages = mcap.messages
    BY <1>3, <2>1 DEF Ready
  <2>4. accepted \in Seq([topic : AllTopics, message : Messages, at : Nat]) /\ written \in Nat
    BY <1>0 DEF WriterTypeOK
  <2>5. Holds(WithMessage(w, c, m),
              Append(accepted, [topic |-> t, message |-> m, at |-> Len(w.messages) + 1]),
              written + 1)
    BY <2>2, <2>3, <2>4, HeldMore
  <2> QED  BY <1>1, <1>2, <1>4, <2>3, <2>5
<1> QED  BY <1>3, <1>6, <1>7, <1>8 DEF WInv, Ready

LEMMA WriteFailsInv ==
  ASSUME WInv, NEW m \in Messages, NEW given \in Topics \union {None}, WriteFails(m, given)
  PROVE  WInv'
<1>0. /\ WriterTypeOK /\ AcceptedHeld
  BY DEF WInv
<1>1. PICK t \in AllTopics :
          /\ IsTopicFor(m, given, t)
          /\ mcap' \in {Prepared(m, t), Taken(m, t)}
          /\ PrepareRegistry(m, t)
  BY DEF WriteFails
<1>2. /\ mcap # None /\ ~NoTopicFor(m, given) /\ ret' \in {"false", "raised"}
      /\ UNCHANGED <<file, usable, written, accepted, stale>>
  BY DEF WriteFails, MayWrite
<1> DEFINE w == Prepared(m, t)
           c == ChannelFor(t)
<1>3. Ready(w, c, t)
  BY <1>1, <1>2, PreparedSound
<1>4. mcap' = w \/ mcap' = WithMessage(w, c, m)
  BY <1>1 DEF Taken
<1> HIDE DEF w, c
<1>5. /\ mcap' \in Mcaps /\ mcap'.schemas = w.schemas /\ mcap'.channels = w.channels
      /\ Extends(w, mcap')
  <2>1. Extends(w, w)  BY DEF Extends
  <2>2. w \in Mcaps /\ c \in Nat \ {0} /\ m \in Messages  BY <1>3 DEF Ready
  <2> DEFINE w2 == WithMessage(w, c, m)
  <2>3. /\ w2 \in Mcaps /\ Extends(w, w2)
        /\ w2.schemas = w.schemas /\ w2.channels = w.channels
    BY ONLY <2>2, MessageAdded, ZenonT(60)
  <2> QED  BY <1>4, <2>1, <2>2, <2>3
<1>6. WriterTypeOK'
  BY <1>0, <1>2, <1>3, <1>5 DEF WriterTypeOK, Ready, Answers
<1>7. Mirrored'
  <2>1. SUFFICES ASSUME ~stale
                 PROVE  Mirrors(mcap'.schemas, mcap'.channels, active_channels', schema_cache')
    BY <1>2 DEF Mirrored, Mirrors
  <2> QED  BY <1>3, <1>5, <2>1 DEF Ready
<1>8. AcceptedHeld'
  <2>1. SUFFICES ASSUME IsLive, ~stale  PROVE  Holds(mcap', accepted, written)
    BY <1>2 DEF AcceptedHeld, IsLive, Holds
  <2>2. Holds(w, accepted, written)
    BY <1>0, <1>3, <2>1, HeldOn DEF AcceptedHeld, Ready
  <2> QED  BY <1>5, <2>2, HeldOn
<1> QED  BY <1>3, <1>6, <1>7, <1>8 DEF WInv, Ready

LEMMA AddFileMetadataInv == ASSUME WInv, AddFileMetadata PROVE WInv'
<1>0. /\ WriterTypeOK /\ NoSchemaAlone /\ Mirrored /\ AcceptedHeld
  BY DEF WInv
<1>1. /\ UNCHANGED <<file, usable, registry, written, accepted, stale>>
      /\ ret' \in Answers
  BY DEF AddFileMetadata, Answers
<1>2. CASE UNCHANGED mcap
  BY <1>1, <1>2, RefusedInv
<1>3. CASE /\ mcap # None
           /\ mcap' = [mcap EXCEPT !.metadata = @ + 1]
  <2>1. mcap \in Mcaps
    BY <1>0, <1>3 DEF WriterTypeOK
  <2>2. /\ mcap' \in Mcaps /\ mcap'.schemas = mcap.schemas
        /\ mcap'.channels = mcap.channels /\ mcap'.messages = mcap.messages
    BY <1>3, <2>1, SMTT(60) DEF Mcaps
  <2>3. WriterTypeOK'  BY <1>0, <1>1, <2>2 DEF WriterTypeOK, registry
  <2>4. NoSchemaAlone'  BY <1>0, <1>1 DEF NoSchemaAlone, Registered, registry
  <2>5. Mirrored'
    <3>1. SUFFICES ASSUME ~stale
                   PROVE  Mirrors(mcap'.schemas, mcap'.channels, active_channels, schema_cache)
      BY <1>1 DEF Mirrored, Mirrors, registry
    <3> QED  BY <1>0, <1>3, <2>2, <3>1 DEF Mirrored
  <2>6. AcceptedHeld'
    <3>1. SUFFICES ASSUME IsLive, ~stale  PROVE  Holds(mcap', accepted, written)
      BY <1>1 DEF AcceptedHeld, IsLive, Holds
    <3>2. Extends(mcap, mcap')  BY <2>2 DEF Extends
    <3> QED  BY <1>0, <3>1, <3>2, HeldOn DEF AcceptedHeld
  <2> QED  BY <2>3, <2>4, <2>5, <2>6 DEF WInv
<1> QED  BY <1>2, <1>3 DEF AddFileMetadata

LEMMA CloseInv == ASSUME WInv, Close PROVE WInv'
<1>1. WriterTypeOK'
  <2>1. <<>> \in Seq([topic : AllTopics, message : Messages, at : Nat])  BY EmptySeq
  <2> QED  BY <2>1 DEF WInv, WriterTypeOK, Close, NoChannels, NoSchemas, Answers
<1> QED
  BY <1>1 DEF Close, WInv, NoSchemaAlone, Mirrored, AcceptedHeld, IsLive

LEMMA NextInv == ASSUME WInv, [WriterNext]_writerVars PROVE WInv'
<1>1. CASE UNCHANGED writerVars
  BY <1>1, RefusedInv DEF writerVars, registry, WInv, WriterTypeOK
<1>2. ASSUME NEW p \in Paths, Open(p)  PROVE WInv'
  BY <1>2, OpenInv
<1>3. ASSUME NEW t \in Topics, NEW y \in MessageTypes, NEW v \in OsiVersions \union {None},
             AddChannel(t, y, v)
      PROVE  WInv'
  BY <1>3, AddChannelInv DEF AllTopics
<1>4. ASSUME NEW m \in Messages, NEW t \in Topics \union {None}, WriteMessage(m, t)
      PROVE  WInv'
  <2>1. CASE WriteRefused(m, t)
    BY <2>1, RefusedInv DEF WriteRefused, Answers
  <2> QED  BY <1>4, <2>1, WriteTakenInv, WriteFailsInv DEF WriteMessage
<1>5. CASE AddFileMetadata  BY <1>5, AddFileMetadataInv
<1>6. CASE Close  BY <1>6, CloseInv
<1> QED  BY <1>1, <1>2, <1>3, <1>4, <1>5, <1>6 DEF WriterNext

LEMMA InvAlways == WriterSpec => []WInv
<1>1. WriterInit => WInv  BY InitInv
<1>2. WInv /\ [WriterNext]_writerVars => WInv'  BY NextInv
<1> QED  BY <1>1, <1>2, PTL DEF WriterSpec

(* Python MCAP writer, open(), add_channel(), write_message() and close(): *)
(* unless open() met a registry filled after an earlier failure, the ids   *)
(* the class keeps for topics and types are those of the writer object.    *)
THEOREM RegistryTrue == WriterSpec => []RegistryMirrors
<1>1. WInv => RegistryMirrors
  BY DEF WInv, Mirrored, Mirrors, RegistryMirrors, Registered
<1> QED  BY <1>1, InvAlways, PTL

(* Python MCAP writer, write_message(): what was answered with True is in  *)
(* the writer object on a channel of its topic, counted and in the order   *)
(* of the calls, whatever failed writes and metadata lie between.          *)
THEOREM AcceptedKept == WriterSpec => []AcceptedOnTopic
<1>1. WInv => AcceptedOnTopic
  BY DEF WInv, AcceptedHeld, Holds, AcceptedOnTopic
<1> QED  BY <1>1, InvAlways, PTL

-----------------------------------------------------------------------------
(* The channel writer on top of it, and the helpers                       *)

AcceptedRecords == [topic : AllTopics, message : Messages, at : Nat]

(* All messages of the writer object w are on channel 1 and of type ty.    *)
OnOne(w, ty) == \A n \in DOMAIN w.messages :
                   w.messages[n].channel = 1 /\ TypeOf[w.messages[n].message] = ty

(* The writer below has accepted what the adapter answered True for, and   *)
(* has it in its file in this order.                                       *)
Told(w, acc, tk) ==
    /\ Len(acc) = Len(tk)
    /\ \A n \in DOMAIN tk : /\ acc[n].message = tk[n]
                            /\ acc[n].at \in DOMAIN w.messages
                            /\ w.messages[acc[n].at].message = tk[n]
    /\ \A j, k \in DOMAIN acc : j < k => acc[j].at < acc[k].at

OfType(tk, ty) == \A n \in DOMAIN tk : TypeOf[tk[n]] = ty

(* Without a file nothing is registered.                                   *)
Resting == file = None => active_channels = NoChannels /\ schema_cache = NoSchemas

(* Before the channel is registered the file is empty; then it has this    *)
(* one channel, with the type and version the adapter reports.             *)
Unregistered ==
    /\ mcap.schemas = <<>> /\ mcap.channels = <<>> /\ mcap.messages = <<>>
    /\ active_channels = NoChannels /\ schema_cache = NoSchemas

OneRegistered ==
    /\ message_type \in MessageTypes
    /\ mcap.schemas = <<message_type>>
    /\ mcap.channels = <<[topic |-> topic, schema |-> 1, osi_version |-> osi_version]>>
    /\ active_channels[topic] = 1

Shape ==
    adapter = "mcap" =>
      /\ topic \in AllTopics
      /\ mcap # None =>
           /\ file # None
           /\ IF channel_registered THEN OneRegistered ELSE Unregistered
           /\ OnOne(mcap, message_type)
           /\ Told(mcap, accepted, taken)

Kept == /\ configured # None => message_type = configured
        /\ OfType(taken, message_type)

(* The inductive invariant.                                                *)
CWInv == TypeOK /\ Resting /\ Shape /\ Kept

-----------------------------------------------------------------------------
(* The writer below takes the message, or not, and the adapter tells.      *)

LEMMA ToldMore ==
  ASSUME NEW w \in Mcaps, NEW m \in Messages, NEW t \in AllTopics,
         NEW acc \in Seq(AcceptedRecords), NEW tk \in Seq(Messages), Told(w, acc, tk)
  PROVE  Told(WithMessage(w, 1, m),
              Append(acc, [topic |-> t, message |-> m, at |-> Len(w.messages) + 1]),
              Append(tk, m))
<1> DEFINE w2 == WithMessage(w, 1, m)
           a  == [topic |-> t, message |-> m, at |-> Len(w.messages) + 1]
           L  == Len(tk)
           acc2 == Append(acc, a)
           tk2  == Append(tk, m)
<1>1. /\ Extends(w, w2)
      /\ DOMAIN w.messages = 1..Len(w.messages) /\ Len(w.messages) \in Nat
      /\ Len(w.messages) + 1 \in DOMAIN w2.messages
      /\ w2.messages[Len(w.messages) + 1].message = m
  <2>1. /\ Extends(w, w2)
        /\ DOMAIN w.messages = 1..Len(w.messages) /\ Len(w.messages) \in Nat
        /\ Len(w.messages) + 1 \in DOMAIN w2.messages
        /\ w2.messages[Len(w.messages) + 1] = [channel |-> 1, message |-> m]
    BY 1 \in Nat \ {0}, MessageAdded, SMTT(60)
  <2> HIDE DEF w2
  <2> QED  BY <2>1
<1>2. a \in AcceptedRecords /\ a.message = m /\ a.at = Len(w.messages) + 1
  BY <1>1 DEF AcceptedRecords
<1> HIDE DEF w2, a
<1>3. /\ Len(acc2) = Len(acc) + 1 /\ DOMAIN acc2 = 1..(Len(acc) + 1)
      /\ DOMAIN acc = 1..Len(acc) /\ Len(acc) \in Nat /\ acc2[Len(acc) + 1] = a
      /\ \A n \in 1..Len(acc) : acc2[n] = acc[n]
  BY <1>2, AppendFacts
<1>4. /\ Len(tk2) = L + 1 /\ DOMAIN tk2 = 1..(L + 1) /\ DOMAIN tk = 1..L
      /\ L \in Nat /\ tk2[L + 1] = m /\ \A n \in 1..L : tk2[n] = tk[n]
  BY AppendFacts
<1>5. Len(acc) = L
  BY DEF Told
<1> HIDE DEF acc2, tk2, L
<1>6. \A n \in DOMAIN tk2 : /\ acc2[n].message = tk2[n]
                            /\ acc2[n].at \in DOMAIN w2.messages
                            /\ w2.messages[acc2[n].at].message = tk2[n]
  <2> TAKE n \in DOMAIN tk2
  <2>1. CASE n = L + 1
    <3>1. acc2[n] = a /\ tk2[n] = m  BY <2>1, <1>3, <1>4, <1>5
    <3> QED  BY <3>1, <1>1, <1>2
  <2>2. CASE n \in 1..L
    <3>1. acc2[n] = acc[n] /\ tk2[n] = tk[n]  BY <2>2, <1>3, <1>4, <1>5
    <3>2. /\ acc[n].message = tk[n] /\ acc[n].at \in DOMAIN w.messages
          /\ w.messages[acc[n].at].message = tk[n]
      BY <2>2, <1>4 DEF Told
    <3>3. acc[n].at \in DOMAIN w2.messages /\ w2.messages[acc[n].at] = w.messages[acc[n].at]
      BY <3>2, <1>1 DEF Extends
    <3> QED  BY <3>1, <3>2, <3>3
  <2> QED  BY <2>1, <2>2, <1>4
<1>7. \A j, k \in DOMAIN acc2 : j < k => acc2[j].at < acc2[k].at
  <2> SUFFICES ASSUME NEW j \in 1..(L + 1), NEW k \in 1..(L + 1), j < k
               PROVE  acc2[j].at < acc2[k].at
    BY <1>3, <1>5
  <2>1. j \in 1..L /\ acc2[j] = acc[j]
    BY <1>3, <1>4, <1>5
  <2>2. acc[j].at \in 1..Len(w.messages)
    BY <2>1, <1>1, <1>4 DEF Told
  <2>3. CASE k = L + 1
    <3>1. acc2[k] = a  BY <2>3, <1>3, <1>5
    <3> QED  BY <3>1, <2>1, <2>2, <1>1, <1>2
  <2>4. CASE k \in 1..L
    <3>1. acc2[k] = acc[k]  BY <2>4, <1>3, <1>5
    <3>2. acc[j].at < acc[k].at  BY <2>1, <2>4, <1>3, <1>5 DEF Told
    <3> QED  BY <3>1, <3>2, <2>1
  <2> QED  BY <2>3, <2>4, <1>4
<1>8. Told(w2, acc2, tk2)
  BY <1>3, <1>4, <1>5, <1>6, <1>7 DEF Told
<1> QED  BY <1>8 DEF w2, a, acc2, tk2

LEMMA ToldOn ==
  ASSUME NEW w, NEW w2, NEW acc, NEW tk, Told(w, acc, tk), Extends(w, w2)
  PROVE  Told(w2, acc, tk)
  BY DEF Told, Extends

(* What is known of the writer object and of the adapter after Hand, for a *)
(* channel 1 of w.                                                         *)
Handed(w, m) ==
    /\ mcap' \in Mcaps
    /\ mcap'.schemas = w.schemas /\ mcap'.channels = w.channels
    /\ OnOne(mcap', TypeOf[m])
    /\ Told(mcap', accepted', taken')
    /\ accepted' \in Seq(AcceptedRecords) /\ taken' \in Seq(Messages)
    /\ OfType(taken', TypeOf[m])
    /\ written' \in Nat /\ ret' \in Answers /\ answered' \in Answers

LEMMA HandSound ==
  ASSUME NEW w \in Mcaps, NEW m \in Messages, w.messages = mcap.messages,
         accepted \in Seq(AcceptedRecords), taken \in Seq(Messages), written \in Nat,
         topic \in AllTopics, OnOne(w, TypeOf[m]), Told(w, accepted, taken),
         OfType(taken, TypeOf[m]), Hand(w, 1, m)
  PROVE  Handed(w, m)
<1> DEFINE w2 == WithMessage(w, 1, m)
<1>1. /\ w2 \in Mcaps /\ Extends(w, w2) /\ w2.schemas = w.schemas /\ w2.channels = w.channels
      /\ OnOne(w2, TypeOf[m])
  <2>1. /\ w2 \in Mcaps /\ Extends(w, w2) /\ w2.schemas = w.schemas /\ w2.channels = w.channels
        /\ DOMAIN w.messages = 1..Len(w.messages) /\ Len(w.messages) \in Nat
        /\ w2.messages[Len(w.messages) + 1] = [channel |-> 1, message |-> m]
    BY 1 \in Nat \ {0}, MessageAdded, ZenonT(60)
  <2>2. DOMAIN w2.messages = 1..(Len(w.messages) + 1)
    <3>1. w2.messages = Append(w.messages, [channel |-> 1, message |-> m])
      <4>1. w = [schemas |-> w.schemas, channels |-> w.channels,
                 messages |-> w.messages, metadata |-> w.metadata]
        BY DEF Mcaps
      <4> QED  BY <4>1 DEF WithMessage
    <3>2. w.messages \in Seq([channel : Nat \ {0}, message : Messages])
      BY DEF Mcaps
    <3> HIDE DEF w2
    <3> QED  BY <3>1, <3>2, AppendFacts
  <2> HIDE DEF w2
  <2>3. OnOne(w2, TypeOf[m])
    <3> SUFFICES ASSUME NEW n \in 1..(Len(w.messages) + 1)
                 PROVE  /\ w2.messages[n].channel = 1
                        /\ TypeOf[w2.messages[n].message] = TypeOf[m]
      BY <2>2 DEF OnOne
    <3>1. CASE n = Len(w.messages) + 1  BY <3>1, <2>1
    <3>2. CASE n \in 1..Len(w.messages)
      <4>1. n \in DOMAIN w.messages /\ w2.messages[n] = w.messages[n]
        BY <3>2, <2>1 DEF Extends
      <4> QED  BY <4>1 DEF OnOne
    <3> QED  BY <3>1, <3>2, <2>1
  <2> QED  BY <2>1, <2>3
<1>2. CASE /\ mcap' = w2
           /\ written' = written + 1
           /\ accepted' = Append(accepted, [topic |-> topic, message |-> m,
                                            at |-> Len(w.messages) + 1])
           /\ taken' = Append(taken, m)
           /\ ret' = "true" /\ answered' = "true"
  <2>1. Told(mcap', accepted', taken')
    BY <1>2, ToldMore
  <2>2. Len(w.messages) \in Nat
    BY 1 \in Nat \ {0}, MessageAdded
  <2>3. accepted' \in Seq(AcceptedRecords)
    <3> DEFINE a == [topic |-> topic, message |-> m, at |-> Len(w.messages) + 1]
    <3>1. a \in AcceptedRecords  BY <2>2 DEF AcceptedRecords
    <3>2. accepted' = Append(accepted, a)  BY <1>2
    <3> HIDE DEF a
    <3> QED  BY <3>1, <3>2, AppendFacts
  <2>4. taken' \in Seq(Messages) /\ OfType(taken', TypeOf[m])
    <3>1. /\ Append(taken, m) \in Seq(Messages)
          /\ DOMAIN Append(taken, m) = 1..(Len(taken) + 1) /\ DOMAIN taken = 1..Len(taken)
          /\ \A n \in 1..Len(taken) : Append(taken, m)[n] = taken[n]
          /\ Append(taken, m)[Len(taken) + 1] = m /\ Len(taken) \in Nat
      BY AppendFacts
    <3>2. \A n \in 1..Len(taken) : TypeOf[taken[n]] = TypeOf[m]
      BY <3>1 DEF OfType
    <3> SUFFICES ASSUME NEW n \in 1..(Len(taken) + 1)
                 PROVE  TypeOf[Append(taken, m)[n]] = TypeOf[m]
      BY <1>2, <3>1 DEF OfType
    <3> QED  BY <3>1, <3>2
  <2>5. written' \in Nat  BY <1>2
  <2>6. ret' \in Answers /\ answered' \in Answers  BY <1>2 DEF Answers
  <2> HIDE DEF w2
  <2> QED  BY <1>1, <1>2, <2>1, <2>3, <2>4, <2>5, <2>6 DEF Handed
<1>3. CASE /\ mcap' \in {w, w2}
           /\ ret' \in {"false", "raised"} /\ answered' = ret'
           /\ UNCHANGED <<written, accepted, taken>>
  <2>1. Told(mcap', accepted', taken')
    <3>1. Told(w2, accepted, taken)  BY <1>1, ToldOn
    <3> HIDE DEF w2
    <3> QED  BY <1>3, <3>1
  <2>2. OnOne(mcap', TypeOf[m])  BY <1>1, <1>3
  <2>3. mcap' \in Mcaps /\ mcap'.schemas = w.schemas /\ mcap'.channels = w.channels
    BY <1>1, <1>3
  <2>4. ret' \in Answers /\ answered' \in Answers  BY <1>3 DEF Answers
  <2> QED  BY <1>3, <2>1, <2>2, <2>3, <2>4 DEF Handed
<1> QED  BY <1>2, <1>3 DEF Hand

-----------------------------------------------------------------------------
(* The calls, one lemma each.                                              *)

LEMMA AdapterTypes ==
  ASSUME TypeOK
  PROVE  /\ accepted \in Seq(AcceptedRecords) /\ taken \in Seq(Messages) /\ written \in Nat
         /\ mcap \in Mcaps \union {None}
         /\ active_channels \in [AllTopics -> Nat] /\ schema_cache \in [MessageTypes -> Nat]
  BY DEF TypeOK, WriterTypeOK, AcceptedRecords

LEMMA CWInitInv == ASSUME Init PROVE CWInv
<1>1. WriterTypeOK
  BY InitInv DEF Init, WInv
<1>2. <<>> \in Seq(Messages)
  BY EmptySeq
<1>3. TypeOK
  BY <1>1, <1>2 DEF Init, TypeOK, Answers
<1>4. Resting
  BY DEF Init, WriterInit, Resting
<1> QED
  BY <1>3, <1>4 DEF Init, CWInv, Shape, Kept, OfType

(* Nothing below is touched, and of the adapter at most the answer and a   *)
(* type that agrees with the messages.                                     *)
LEMMA AnswerInv ==
  ASSUME CWInv, answered' \in Answers, message_type' = message_type,
         UNCHANGED <<adapter, topic, single_open, configured, osi_version,
                     channel_registered, taken, writerVars>>
  PROVE  CWInv'
<1> USE DEF writerVars, registry
<1>1. TypeOK'  BY DEF CWInv, TypeOK, WriterTypeOK
<1>2. Resting'  BY DEF CWInv, Resting
<1>3. Shape'
  BY DEF CWInv, Shape, OneRegistered, Unregistered, OnOne, Told
<1>4. Kept'  BY DEF CWInv, Kept, OfType
<1> QED  BY <1>1, <1>2, <1>3, <1>4 DEF CWInv

(* The type of a message that passes the comparison is that of all before. *)
LEMMA TypeKept ==
  ASSUME CWInv, NEW m \in Messages, TypeAccepted(m)
  PROVE  /\ TypeOf[m] \in MessageTypes /\ TypeOf[m] # None
         /\ OfType(taken, TypeOf[m])
         /\ configured # None => TypeOf[m] = configured
         /\ message_type # None => message_type = TypeOf[m]
<1>1. TypeOf[m] \in MessageTypes /\ TypeOf[m] # None
  BY WriterAssumption
<1>2. message_type # None => message_type = TypeOf[m]
  BY DEF TypeAccepted
<1>3. taken \in Seq(Messages) /\ OfType(taken, message_type)
  BY AdapterTypes DEF CWInv, Kept
<1>4. OfType(taken, TypeOf[m])
  <2> SUFFICES ASSUME NEW n \in DOMAIN taken  PROVE TypeOf[taken[n]] = TypeOf[m]
    BY DEF OfType
  <2>1. taken[n] \in Messages  BY <1>3
  <2>2. TypeOf[taken[n]] # None  BY <2>1, WriterAssumption
  <2>3. TypeOf[taken[n]] = message_type  BY <1>3 DEF OfType
  <2> QED  BY <1>2, <2>2, <2>3
<1>5. configured # None => TypeOf[m] = configured
  BY <1>2 DEF CWInv, Kept
<1> QED  BY <1>1, <1>2, <1>4, <1>5

LEMMA OpenMcapInv ==
  ASSUME CWInv, NEW p \in Paths, NEW type \in MessageTypes \union {None},
         NEW t \in Topics \union {None}, NEW v \in OsiVersions \union {None},
         OpenMcap(p, type, t, v)
  PROVE  CWInv'
<1> DEFINE t2 == IF t = None THEN Stem[p] ELSE t
<1>1. /\ file = None /\ mcap' = Started /\ UNCHANGED registry /\ accepted' = <<>>
      /\ file' = p /\ usable' = TRUE /\ written' = 0 /\ ret' = "true" /\ OnRegistry
      /\ adapter' = "mcap" /\ single_open' = "closed"
      /\ message_type' = type /\ configured' = type /\ topic' = t2 /\ osi_version' = v
      /\ channel_registered' = FALSE /\ answered' = "true" /\ taken' = <<>>
  BY DEF OpenMcap, Idle, OpenStarted, NewAdapter
<1>2. t2 \in AllTopics /\ p # None
  BY ChannelAssumption, WriterAssumption DEF AllTopics
<1>3. <<>> \in Seq(Messages) /\ <<>> \in Seq([topic : AllTopics, message : Messages, at : Nat])
  BY EmptySeq
<1> HIDE DEF t2
<1>4. active_channels = NoChannels /\ schema_cache = NoSchemas
  BY <1>1 DEF CWInv, Resting
<1>5. WriterTypeOK'
  <2>1. stale' \in BOOLEAN  BY <1>1 DEF CWInv, TypeOK, WriterTypeOK, OnRegistry
  <2> QED  BY <1>1, <1>3, <2>1, StartedFacts DEF CWInv, TypeOK, WriterTypeOK, Answers, registry
<1>6. TypeOK'
  BY <1>1, <1>2, <1>3, <1>5 DEF TypeOK, Answers
<1>7. Resting'
  BY <1>1, <1>4 DEF Resting, registry, NoChannels, NoSchemas
<1>8. Unregistered'
  BY <1>1, <1>4 DEF Unregistered, Started, registry, NoChannels, NoSchemas
<1>9. OnOne(mcap', message_type') /\ Told(mcap', accepted', taken')
  BY <1>1 DEF OnOne, Told, Started
<1>10. Shape'
  BY <1>1, <1>2, <1>8, <1>9 DEF Shape, OnOne, Told
<1>11. Kept'
  BY <1>1 DEF Kept, OfType
<1> QED  BY <1>6, <1>7, <1>10, <1>11 DEF CWInv

LEMMA OpenSingleInv ==
  ASSUME CWInv, NEW p \in Paths, NEW type \in MessageTypes \union {None},
         NEW t \in Topics \union {None}, NEW v \in OsiVersions \union {None},
         OpenSingle(p, type, t, v)
  PROVE  CWInv'
<1>1. <<>> \in Seq(Messages)
  BY EmptySeq
<1>2. TypeOK'
  BY <1>1, ZenonT(60) DEF CWInv, TypeOK, WriterTypeOK, OpenSingle, NewAdapter, writerVars, registry,
              AllTopics, Answers
<1>3. Resting'
  BY DEF CWInv, Resting, OpenSingle, writerVars, registry
<1> QED
  BY <1>2, <1>3 DEF OpenSingle, NewAdapter, CWInv, Shape, Kept, OfType

LEMMA OpenFailsInv == ASSUME CWInv, OpenFails PROVE CWInv'
<1>1. <<>> \in Seq(Messages)
  BY EmptySeq
<1>2. TypeOK'
  BY <1>1 DEF CWInv, TypeOK, WriterTypeOK, OpenFails, writerVars, registry, Answers
<1>3. Resting'
  BY DEF CWInv, Resting, OpenFails, writerVars, registry
<1> QED
  BY <1>2, <1>3 DEF OpenFails, CWInv, Shape, Kept, OfType

LEMMA CloseChannelInv == ASSUME CWInv, CloseChannel PROVE CWInv'
<1>0. /\ answered' \in {"none", "raised"} /\ taken' = <<>>
      /\ single_open' \in {"closed", "broken"}
      /\ UNCHANGED <<adapter, message_type, topic, osi_version, channel_registered, configured>>
  BY DEF CloseChannel
<1>1. WriterTypeOK' /\ Resting' /\ (adapter = "mcap" => mcap' = None)
  <2>1. CASE adapter = "mcap"
    <3>1. Close  BY <2>1 DEF CloseChannel
    <3>2. <<>> \in Seq([topic : AllTopics, message : Messages, at : Nat])  BY EmptySeq
    <3>3. WriterTypeOK'
      BY <3>1, <3>2 DEF CWInv, TypeOK, WriterTypeOK, Close, NoChannels, NoSchemas, Answers
    <3>4. Resting' /\ mcap' = None  BY <3>1 DEF Close, Resting, NoChannels, NoSchemas
    <3> QED  BY <3>3, <3>4
  <2>2. CASE adapter # "mcap"
    BY <2>2 DEF CloseChannel, CWInv, TypeOK, WriterTypeOK, Resting, writerVars, registry
  <2> QED  BY <2>1, <2>2
<1>2. <<>> \in Seq(Messages)
  BY EmptySeq
<1>3. TypeOK'
  BY <1>0, <1>1, <1>2 DEF CWInv, TypeOK, Answers
<1>4. Shape'
  BY <1>0, <1>1 DEF CWInv, Shape
<1>5. Kept'
  BY <1>0 DEF CWInv, Kept, OfType
<1> QED  BY <1>1, <1>3, <1>4, <1>5 DEF CWInv

(* A message that passes, for an adapter whose channel is not registered:  *)
(* what it settles does not show in the file, which is empty.              *)
LEMMA SettledInv ==
  ASSUME CWInv, NEW m \in Messages, Registering, TypeAccepted(m),
         message_type' = TypeOf[m], osi_version' \in OsiVersions \union {None},
         answered' \in Answers, ret' \in Answers,
         UNCHANGED <<adapter, topic, single_open, configured, channel_registered, taken,
                     file, usable, mcap, registry, written, accepted, stale>>
  PROVE  CWInv'
<1> USE DEF registry
<1>1. TypeOK'  BY TypeKept DEF CWInv, TypeOK, WriterTypeOK
<1>2. Resting'  BY DEF CWInv, Resting
<1>3. Shape'
  <2>1. adapter' = "mcap" /\ channel_registered' = FALSE  BY DEF Registering, CWInv, TypeOK
  <2>2. topic' \in AllTopics  BY <2>1 DEF CWInv, Shape
  <2>3. ASSUME mcap' # None
        PROVE  file' # None /\ Unregistered' /\ OnOne(mcap', message_type') /\ Told(mcap', accepted', taken')
    <3>1. file # None /\ Unregistered /\ Told(mcap, accepted, taken)
      BY <2>1, <2>3 DEF CWInv, Shape
    <3>2. Unregistered'  BY <3>1 DEF Unregistered
    <3>3. OnOne(mcap', message_type')  BY <3>2 DEF OnOne, Unregistered
    <3>4. Told(mcap', accepted', taken')  BY <3>1 DEF Told
    <3> QED  BY <3>1, <3>2, <3>3, <3>4
  <2> QED  BY <2>1, <2>2, <2>3 DEF Shape, OnOne, Told
<1>4. Kept'  BY TypeKept DEF Kept, OfType
<1> QED  BY <1>1, <1>2, <1>3, <1>4 DEF CWInv

LEMMA WriteRegisteringInv ==
  ASSUME CWInv, NEW m \in Messages, WriteRegistering(m)
  PROVE  CWInv'
<1> DEFINE y  == TypeOf[m]
           v  == VersionOf[m]
           w  == WithChannel(mcap, schema_cache, topic, y, v)
           ch == [topic |-> topic, schema |-> 1, osi_version |-> v]
<1>1. /\ adapter = "mcap" /\ channel_registered = FALSE /\ mcap # None /\ TypeAccepted(m)
      /\ message_type' = y /\ osi_version' = v /\ channel_registered' = TRUE
      /\ Hand(w, Len(mcap.channels) + 1, m)
      /\ schema_cache' = CacheWith(mcap, schema_cache, y)
      /\ active_channels' = [active_channels EXCEPT ![topic] = Len(mcap.channels) + 1]
      /\ UNCHANGED <<adapter, topic, single_open, configured, file, usable, stale>>
  BY DEF WriteRegistering, Registering, KeepAdapter, CWInv, TypeOK
<1>2. /\ topic \in AllTopics /\ Unregistered /\ Told(mcap, accepted, taken)
      /\ mcap \in Mcaps /\ file # None
  BY <1>1, AdapterTypes DEF CWInv, Shape
<1>3. /\ y \in MessageTypes /\ v \in OsiVersions \union {None}
      /\ OfType(taken, y) /\ (configured # None => y = configured)
  BY <1>1, TypeKept, ChannelAssumption
<1>4. /\ accepted \in Seq(AcceptedRecords) /\ taken \in Seq(Messages) /\ written \in Nat
      /\ active_channels \in [AllTopics -> Nat] /\ schema_cache \in [MessageTypes -> Nat]
  BY AdapterTypes DEF CWInv
<1>5. ChannelStep(mcap, active_channels, schema_cache,
                  w, active_channels', schema_cache', topic)
  BY <1>1, <1>2, <1>3, <1>4, ChannelAdded
<1>6. Len(mcap.channels) + 1 = 1
  BY <1>2 DEF Unregistered
<1>7. w.schemas = <<y>> /\ w.channels = <<ch>> /\ w.messages = <<>>
  <2>1. /\ schema_cache[y] = 0 /\ mcap.schemas = <<>> /\ mcap.channels = <<>>
        /\ mcap.messages = <<>>
    BY <1>2, <1>3 DEF Unregistered, NoSchemas
  <2>2. Schemed(mcap, schema_cache, y) = <<y>>
    BY <2>1 DEF Schemed
  <2>3. CacheWith(mcap, schema_cache, y)[y] = 1
    BY <1>3, <1>4, <2>1 DEF CacheWith
  <2>4. PICK n : mcap = [schemas |-> <<>>, channels |-> <<>>, messages |-> <<>>,
                         metadata |-> n]
    BY <1>2, <2>1 DEF Mcaps
  <2>5. w = [mcap EXCEPT !.schemas = <<y>>, !.channels = Append(mcap.channels, ch)]
    BY <2>2, <2>3 DEF WithChannel
  <2>6. Append(mcap.channels, ch) = <<ch>>
    BY <2>1
  <2> HIDE DEF w, ch, y
  <2>7. w = [schemas |-> <<y>>, channels |-> <<ch>>, messages |-> <<>>, metadata |-> n]
    BY <2>4, <2>5, <2>6
  <2> QED  BY <2>7
<1> HIDE DEF w, ch
<1>8. w \in Mcaps /\ OnOne(w, y) /\ Told(w, accepted, taken) /\ w.messages = mcap.messages
  <2>1. w \in Mcaps /\ Extends(mcap, w) /\ w.messages = mcap.messages
    BY <1>5 DEF ChannelStep
  <2>2. OnOne(w, y)  BY <1>7 DEF OnOne
  <2>3. Told(w, accepted, taken)  BY <1>2, <2>1, ToldOn
  <2> QED  BY <2>1, <2>2, <2>3
<1>9. Handed(w, m)
  BY <1>1, <1>2, <1>3, <1>4, <1>6, <1>8, HandSound
<1>10. TypeOK'
  <2>1. active_channels' \in [AllTopics -> Nat] /\ schema_cache' \in [MessageTypes -> Nat]
    BY <1>5 DEF ChannelStep
  <2>2. WriterTypeOK'
    BY <1>1, <1>9, <2>1 DEF CWInv, TypeOK, WriterTypeOK, Handed, AcceptedRecords
  <2> QED  BY <1>1, <1>3, <1>9, <2>2 DEF CWInv, TypeOK, Handed
<1>11. Resting'
  BY <1>1, <1>2 DEF Resting
<1>12. OneRegistered'
  <2>1. active_channels'[topic] = 1  BY <1>5, <1>6 DEF ChannelStep
  <2> QED  BY <1>1, <1>3, <1>7, <1>9, <2>1 DEF OneRegistered, Handed, ch
<1>13. Shape'
  BY <1>1, <1>2, <1>9, <1>12 DEF Shape, Handed, OnOne, Told
<1>14. Kept'
  BY <1>1, <1>3, <1>9 DEF Kept, Handed, OfType
<1> QED  BY <1>10, <1>11, <1>13, <1>14 DEF CWInv

LEMMA WriteRegisteredInv ==
  ASSUME CWInv, NEW m \in Messages, WriteRegistered(m)
  PROVE  CWInv'
<1>1. /\ adapter = "mcap" /\ channel_registered /\ TypeAccepted(m)
      /\ message_type' = TypeOf[m]
      /\ UNCHANGED <<adapter, topic, single_open, configured, osi_version, channel_registered>>
  BY DEF WriteRegistered, KeepAdapter
<1>2. /\ TypeOf[m] \in MessageTypes /\ OfType(taken, TypeOf[m])
      /\ (configured # None => TypeOf[m] = configured)
  BY <1>1, TypeKept
<1>3. topic \in AllTopics
  BY <1>1 DEF CWInv, Shape
<1>4. mcap # None => /\ file # None /\ OneRegistered /\ message_type = TypeOf[m]
                     /\ mcap \in Mcaps
                     /\ OnOne(mcap, TypeOf[m]) /\ Told(mcap, accepted, taken)
  <2> SUFFICES ASSUME mcap # None
               PROVE  /\ file # None /\ OneRegistered /\ message_type = TypeOf[m]
                      /\ mcap \in Mcaps
                      /\ OnOne(mcap, TypeOf[m]) /\ Told(mcap, accepted, taken)
    OBVIOUS
  <2>1. /\ file # None /\ OneRegistered /\ OnOne(mcap, message_type)
        /\ Told(mcap, accepted, taken)
    BY <1>1 DEF CWInv, Shape
  <2>2. message_type # None
    BY <2>1, WriterAssumption DEF OneRegistered
  <2>3. message_type = TypeOf[m]
    BY <1>1, <2>2, TypeKept
  <2>4. mcap \in Mcaps  BY AdapterTypes DEF CWInv
  <2> QED  BY <2>1, <2>3, <2>4
<1>5. CASE WriteRefused(m, topic) /\ answered' = "false" /\ UNCHANGED taken
  <2>1. /\ UNCHANGED <<file, usable, mcap, active_channels, schema_cache, written,
                       accepted, stale>>
        /\ ret' = "false"
    BY <1>5 DEF WriteRefused, registry
  <2>2. TypeOK'
    BY <1>1, <1>2, <1>5, <2>1 DEF CWInv, TypeOK, WriterTypeOK, Answers
  <2>3. Resting'  BY <2>1 DEF CWInv, Resting
  <2>4. mcap # None => OneRegistered'
    BY <1>1, <1>4, <2>1 DEF OneRegistered
  <2>5. Shape'
    BY <1>1, <1>3, <1>4, <1>5, <2>1, <2>4 DEF Shape, OnOne, Told
  <2>6. Kept'  BY <1>1, <1>2, <1>5 DEF Kept, OfType
  <2> QED  BY <2>2, <2>3, <2>5, <2>6 DEF CWInv
<1>6. CASE /\ Hand(mcap, active_channels[topic], m)
           /\ UNCHANGED <<file, usable, registry, stale>>
  <2>1. mcap # None
    BY <1>6 DEF Hand, MayWrite
  <2>2. active_channels[topic] = 1
    BY <1>4, <2>1 DEF OneRegistered
  <2>3. /\ accepted \in Seq(AcceptedRecords) /\ taken \in Seq(Messages) /\ written \in Nat
    BY AdapterTypes DEF CWInv
  <2>4. Handed(mcap, m)
    BY <1>2, <1>3, <1>4, <1>6, <2>1, <2>2, <2>3, HandSound
  <2>5. UNCHANGED <<active_channels, schema_cache>>
    BY <1>6 DEF registry
  <2>6. WriterTypeOK'
    BY <1>6, <2>4, <2>5 DEF CWInv, TypeOK, WriterTypeOK, Handed, AcceptedRecords
  <2>7. TypeOK'
    BY <1>1, <1>2, <2>4, <2>6 DEF CWInv, TypeOK, Handed
  <2>8. Resting'  BY <1>6, <2>5 DEF CWInv, Resting
  <2>9. OneRegistered'
    BY <1>1, <1>4, <2>1, <2>4, <2>5 DEF OneRegistered, Handed
  <2>10. Shape'
    BY <1>1, <1>3, <1>4, <1>6, <2>1, <2>4, <2>9 DEF Shape, Handed, OnOne, Told
  <2>11. Kept'  BY <1>1, <1>2, <2>4 DEF Kept, Handed, OfType
  <2> QED  BY <2>7, <2>8, <2>10, <2>11 DEF CWInv
<1> QED  BY <1>5, <1>6 DEF WriteRegistered

LEMMA WriteSingleInv ==
  ASSUME CWInv, NEW m \in Messages, WriteSingle(m)
  PROVE  CWInv'
<1>1. /\ adapter = "single" /\ TypeAccepted(m) /\ message_type' = TypeOf[m]
      /\ UNCHANGED <<adapter, topic, single_open, configured, osi_version, channel_registered,
                     writerVars>>
      /\ \/ taken' = Append(taken, m) /\ answered' = "true"
         \/ answered' \in {"false", "raised"} /\ UNCHANGED taken
  BY DEF WriteSingle, KeepAdapter
<1>2. /\ TypeOf[m] \in MessageTypes /\ OfType(taken, TypeOf[m])
      /\ (configured # None => TypeOf[m] = configured)
  BY <1>1, TypeKept
<1>3. taken' \in Seq(Messages) /\ OfType(taken', TypeOf[m])
  <2>1. taken \in Seq(Messages)  BY AdapterTypes DEF CWInv
  <2>2. /\ Append(taken, m) \in Seq(Messages)
        /\ DOMAIN Append(taken, m) = 1..(Len(taken) + 1) /\ DOMAIN taken = 1..Len(taken)
        /\ \A n \in 1..Len(taken) : Append(taken, m)[n] = taken[n]
        /\ Append(taken, m)[Len(taken) + 1] = m /\ Len(taken) \in Nat
    BY <2>1, AppendFacts
  <2>3. OfType(Append(taken, m), TypeOf[m])
    <3> SUFFICES ASSUME NEW n \in 1..(Len(taken) + 1)
                 PROVE  TypeOf[Append(taken, m)[n]] = TypeOf[m]
      BY <2>2 DEF OfType
    <3>1. n \in 1..Len(taken) => TypeOf[taken[n]] = TypeOf[m]
      BY <1>2, <2>2 DEF OfType
    <3> QED  BY <2>2, <3>1
  <2> QED  BY <1>1, <1>2, <2>1, <2>2, <2>3
<1>4. TypeOK'
  <2>1. WriterTypeOK'  BY <1>1 DEF CWInv, TypeOK, WriterTypeOK, writerVars, registry
  <2> QED  BY <1>1, <1>2, <1>3, <2>1 DEF CWInv, TypeOK, Answers
<1>5. Resting'  BY <1>1 DEF CWInv, Resting, writerVars, registry
<1>6. Shape'  BY <1>1 DEF Shape
<1>7. Kept'  BY <1>1, <1>2, <1>3 DEF Kept
<1> QED  BY <1>4, <1>5, <1>6, <1>7 DEF CWInv

LEMMA WriteInv ==
  ASSUME CWInv, NEW m \in Messages, Write(m)
  PROVE  CWInv'
<1>1. CASE WriteOtherType(m)
  BY <1>1, AnswerInv DEF WriteOtherType, KeepAdapter, Answers
<1>2. CASE WriteOtherVersion(m)
  <2>1. /\ osi_version' \in OsiVersions \union {None} /\ answered' \in Answers
        /\ ret' \in Answers
    BY <1>2 DEF WriteOtherVersion, CWInv, TypeOK, WriterTypeOK, Answers, writerVars
  <2> QED  BY <1>2, <2>1, SettledInv DEF WriteOtherVersion, KeepAdapter, writerVars, registry
<1>3. CASE WriteUnregistrable(m)
  <2>1. /\ osi_version' \in OsiVersions \union {None} /\ answered' \in Answers
        /\ ret' \in Answers
    BY <1>3, ChannelAssumption DEF WriteUnregistrable, AddChannelRaises, Answers
  <2> QED
    BY <1>3, <2>1, SettledInv DEF WriteUnregistrable, AddChannelRaises, KeepAdapter, registry
<1>4. CASE WriteRegistering(m)  BY <1>4, WriteRegisteringInv
<1>5. CASE WriteRegistered(m)   BY <1>5, WriteRegisteredInv
<1>6. CASE WriteSingle(m)       BY <1>6, WriteSingleInv
<1> QED  BY <1>1, <1>2, <1>3, <1>4, <1>5, <1>6 DEF Write

LEMMA CWNextInv == ASSUME CWInv, [Next]_vars PROVE CWInv'
<1>1. CASE UNCHANGED vars
  BY <1>1, AnswerInv DEF vars, adapterVars, CWInv, TypeOK
<1>2. ASSUME NEW p \in Paths, NEW s \in Specs, OpenMcap(p, s[1], s[2], s[3])  PROVE CWInv'
  <2>1. /\ s[1] \in MessageTypes \union {None} /\ s[2] \in Topics \union {None}
        /\ s[3] \in OsiVersions \union {None}
    BY DEF Specs
  <2> QED  BY <1>2, <2>1, OpenMcapInv
<1>3. ASSUME NEW p \in Paths, NEW s \in Specs, OpenSingle(p, s[1], s[2], s[3])  PROVE CWInv'
  <2>1. /\ s[1] \in MessageTypes \union {None} /\ s[2] \in Topics \union {None}
        /\ s[3] \in OsiVersions \union {None}
    BY DEF Specs
  <2> QED  BY <1>3, <2>1, OpenSingleInv
<1>4. CASE OpenFails  BY <1>4, OpenFailsInv
<1>5. ASSUME NEW m \in Messages, Write(m)  PROVE CWInv'
  BY <1>5, WriteInv
<1>6. CASE CloseChannel  BY <1>6, CloseChannelInv
<1> QED  BY <1>1, <1>2, <1>3, <1>4, <1>5, <1>6 DEF Next

-----------------------------------------------------------------------------
(* The channel helpers, MCAPChannel: several on one writer of the library. *)

(* What is known before the helpers start: without a file no message counts*)
(* as accepted, and without an adapter there is no file.                   *)
Clean == (file = None => accepted = <<>>) /\ (adapter = "none" => file = None)

LEMMA CleanKept == ASSUME CWInv, Clean, Next PROVE Clean'
<1>1. ASSUME NEW p \in Paths, NEW s \in Specs, OpenMcap(p, s[1], s[2], s[3])  PROVE Clean'
  <2>1. p # None  BY WriterAssumption
  <2> QED  BY <1>1, <2>1 DEF OpenMcap, OpenStarted, NewAdapter, Clean
<1>2. ASSUME NEW p \in Paths, NEW s \in Specs, OpenSingle(p, s[1], s[2], s[3])  PROVE Clean'
  BY <1>2 DEF OpenSingle, NewAdapter, Clean, writerVars
<1>3. CASE OpenFails
  BY <1>3 DEF OpenFails, Idle, Clean, writerVars
<1>4. ASSUME NEW m \in Messages, Write(m)  PROVE Clean'
  <2>1. file' = file /\ adapter' = adapter
    BY <1>4 DEF Write, WriteOtherType, WriteOtherVersion, WriteUnregistrable,
                WriteRegistering, WriteRegistered, WriteSingle, WriteRefused,
                AddChannelRaises, KeepAdapter, writerVars
  <2>2. CASE accepted' = accepted
    BY <2>1, <2>2 DEF Clean
  <2>3. CASE adapter = "mcap" /\ mcap # None
    BY <2>1, <2>3 DEF CWInv, Shape, Clean
  <2>4. accepted' = accepted \/ (adapter = "mcap" /\ mcap # None)
    BY <1>4 DEF Write, WriteOtherType, WriteOtherVersion, WriteUnregistrable,
                WriteRegistering, WriteRegistered, WriteSingle, WriteRefused,
                AddChannelRaises, Registering, Hand, MayWrite, writerVars
  <2> QED  BY <2>2, <2>3, <2>4
<1>5. CASE CloseChannel
  BY <1>5 DEF CloseChannel, Close, Clean, writerVars
<1> QED  BY <1>1, <1>2, <1>3, <1>4, <1>5 DEF Next

(* The ids the helpers keep are those of channels and schemas of the       *)
(* writer object w, and no two of them keep the same channel.              *)
Separate(w, chs, scs) ==
    /\ \A h \in Helpers, t \in AllTopics : chs[h][t] # 0 =>
          chs[h][t] \in DOMAIN w.channels /\ w.channels[chs[h][t]].topic = t
    /\ \A h, g \in Helpers, t, u \in AllTopics :
          chs[h][t] # 0 /\ chs[g][u] = chs[h][t] => g = h /\ u = t
    /\ \A h \in Helpers, y \in MessageTypes : scs[h][y] # 0 =>
          scs[h][y] \in DOMAIN w.schemas /\ w.schemas[scs[h][y]] = y

HelperTypes == /\ helping \in BOOLEAN
               /\ channels \in [Helpers -> [AllTopics -> Nat]]
               /\ schemas \in [Helpers -> [MessageTypes -> Nat]]

(* The inductive invariant of a process that runs the one or the others.   *)
HelperInv ==
    /\ TypeOK /\ Kept /\ HelperTypes
    /\ ~helping => /\ CWInv /\ Clean
                   /\ \A h \in Helpers : channels[h] = NoChannels /\ schemas[h] = NoSchemas
    /\ helping => /\ adapter = "none" /\ mcap \in Mcaps
                  /\ Separate(mcap, channels, schemas)
                  /\ Holds(mcap, accepted, Len(accepted))

(* What a new channel for type y does to the schemas of w and to the cache.*)
SchemaStep(w, sc, w2, sc2, y) ==
    /\ \A s \in DOMAIN w.schemas : s \in DOMAIN w2.schemas /\ w2.schemas[s] = w.schemas[s]
    /\ \A x \in MessageTypes : x # y => sc2[x] = sc[x]
    /\ sc[y] # 0 => sc2[y] = sc[y]
    /\ sc[y] = 0 => sc2[y] \in DOMAIN w2.schemas /\ w2.schemas[sc2[y]] = y
    /\ DOMAIN w2.channels = 1..(Len(w.channels) + 1)
    /\ DOMAIN w.channels = 1..Len(w.channels) /\ Len(w.channels) \in Nat

LEMMA SchemaAdded ==
  ASSUME NEW w \in Mcaps, NEW sc \in [MessageTypes -> Nat], NEW t, NEW v,
         NEW y \in MessageTypes
  PROVE  SchemaStep(w, sc, WithChannel(w, sc, t, y, v), CacheWith(w, sc, y), y)
<1> DEFINE w2  == WithChannel(w, sc, t, y, v)
           sc2 == CacheWith(w, sc, y)
           ch  == [topic |-> t, schema |-> sc2[y], osi_version |-> v]
<1>1. /\ w.schemas \in Seq(MessageTypes) /\ w.channels \in Seq(Channels)
  BY DEF Mcaps, Schemas
<1>2. w2.schemas = Schemed(w, sc, y) /\ w2.channels = Append(w.channels, ch)
  <2>1. w = [schemas |-> w.schemas, channels |-> w.channels,
             messages |-> w.messages, metadata |-> w.metadata]
    BY DEF Mcaps
  <2>2. w2 = [[w EXCEPT !.schemas = Schemed(w, sc, y)]
                EXCEPT !.channels = Append(w.channels, ch)]
    BY <2>1 DEF WithChannel
  <2>3. w2 = [schemas |-> Schemed(w, sc, y), channels |-> Append(w.channels, ch),
              messages |-> w.messages, metadata |-> w.metadata]
    BY <2>1, <2>2
  <2> QED  BY <2>3
<1> HIDE DEF w2, ch
<1>3. /\ Len(w.schemas) \in Nat /\ DOMAIN w.schemas = 1..Len(w.schemas)
      /\ DOMAIN Append(w.schemas, y) = 1..(Len(w.schemas) + 1)
      /\ \A s \in 1..Len(w.schemas) : Append(w.schemas, y)[s] = w.schemas[s]
      /\ Append(w.schemas, y)[Len(w.schemas) + 1] = y
  BY <1>1, AppendFacts
<1>4. /\ DOMAIN w2.channels = 1..(Len(w.channels) + 1)
      /\ DOMAIN w.channels = 1..Len(w.channels) /\ Len(w.channels) \in Nat
  BY <1>1, <1>2
<1>5. \A s \in DOMAIN w.schemas : s \in DOMAIN w2.schemas /\ w2.schemas[s] = w.schemas[s]
  BY <1>2, <1>3 DEF Schemed
<1>6. /\ \A x \in MessageTypes : x # y => sc2[x] = sc[x]
      /\ sc[y] # 0 => sc2[y] = sc[y]
  BY DEF CacheWith
<1>7. sc[y] = 0 => sc2[y] \in DOMAIN w2.schemas /\ w2.schemas[sc2[y]] = y
  <2> SUFFICES ASSUME sc[y] = 0  PROVE sc2[y] = Len(w.schemas) + 1 /\ w2.schemas = Append(w.schemas, y)
    BY <1>3
  <2> QED  BY <1>2 DEF Schemed, CacheWith
<1> HIDE DEF sc2
<1>8. SchemaStep(w, sc, w2, sc2, y)
  BY <1>4, <1>5, <1>6, <1>7 DEF SchemaStep
<1> QED  BY <1>8 DEF w2, sc2

LEMMA HelperInitInv == ASSUME HelperInit PROVE HelperInv
<1>1. CWInv  BY CWInitInv DEF HelperInit
<1>2. Clean  BY DEF HelperInit, Init, WriterInit, Clean
<1>3. NoChannels \in [AllTopics -> Nat] /\ NoSchemas \in [MessageTypes -> Nat]
  BY DEF NoChannels, NoSchemas
<1> QED  BY <1>1, <1>2, <1>3 DEF HelperInit, HelperInv, HelperTypes, CWInv

LEMMA StartHelpingInv == ASSUME HelperInv, StartHelping PROVE HelperInv'
<1> DEFINE w == [Started EXCEPT !.metadata = 0]
<1>1. /\ ~helping /\ adapter = "none" /\ helping' = TRUE /\ mcap' = w
      /\ UNCHANGED <<channels, schemas, file, usable, registry, written, ret, accepted,
                     stale, adapterVars>>
  BY DEF StartHelping
<1>2. /\ CWInv /\ accepted = <<>>
      /\ \A h \in Helpers : channels[h] = NoChannels /\ schemas[h] = NoSchemas
  BY <1>1 DEF HelperInv, Clean
<1>3. w \in Mcaps
  <2>1. w = [schemas |-> <<>>, channels |-> <<>>, messages |-> <<>>, metadata |-> 0]
    BY DEF Started
  <2>2. /\ <<>> \in Seq(Schemas) /\ <<>> \in Seq(Channels)
        /\ <<>> \in Seq([channel : Nat \ {0}, message : Messages])
    BY EmptySeq
  <2> HIDE DEF w
  <2> QED  BY <2>1, <2>2 DEF Mcaps
<1> HIDE DEF w
<1>4. TypeOK'
  BY <1>1, <1>2, <1>3 DEF CWInv, TypeOK, WriterTypeOK, adapterVars, registry
<1>5. Kept' /\ adapter' = "none"
  BY <1>1, <1>2 DEF CWInv, Kept, OfType, adapterVars
<1>6. HelperTypes'
  BY <1>1 DEF HelperInv, HelperTypes
<1>7. Separate(mcap', channels', schemas')
  BY <1>1, <1>2 DEF Separate, NoChannels, NoSchemas
<1>8. Holds(mcap', accepted', Len(accepted'))
  BY <1>1, <1>2 DEF Holds
<1> QED  BY <1>1, <1>3, <1>4, <1>5, <1>6, <1>7, <1>8 DEF HelperInv

(* A step of a helper leaves the adapter alone: what is left to show is    *)
(* what it does to the writer of the library and to its own registry.      *)
LEMMA HelperStepInv ==
  ASSUME HelperInv, helping, KeepOthers, ret' \in Answers,
         mcap' \in Mcaps, HelperTypes', accepted' \in Seq(AcceptedRecords),
         Separate(mcap', channels', schemas'), Holds(mcap', accepted', Len(accepted'))
  PROVE  HelperInv'
<1>1. TypeOK'
  BY DEF HelperInv, TypeOK, WriterTypeOK, KeepOthers, adapterVars, registry, AcceptedRecords
<1>2. Kept' /\ adapter' = "none" /\ helping'
  BY DEF HelperInv, Kept, OfType, KeepOthers, adapterVars
<1> QED  BY <1>1, <1>2 DEF HelperInv

LEMMA HelperAddsInv ==
  ASSUME HelperInv, NEW h \in Helpers, NEW t \in HelperTopics, NEW y \in MessageTypes,
         HelperAdds(h, t, y)
  PROVE  HelperInv'
<1> DEFINE w2  == WithChannel(mcap, schemas[h], t, y, None)
           sc2 == CacheWith(mcap, schemas[h], y)
           L   == Len(mcap.channels)
<1>1. /\ helping /\ channels[h][t] = 0 /\ mcap' = w2
      /\ channels' = [channels EXCEPT ![h] = [channels[h] EXCEPT ![t] = L + 1]]
      /\ schemas' = [schemas EXCEPT ![h] = sc2]
      /\ ret' = "true" /\ accepted' = accepted /\ KeepOthers
  BY DEF HelperAdds, HelperInv, HelperTypes
<1>2. /\ mcap \in Mcaps /\ t \in AllTopics /\ TypeOK
      /\ channels \in [Helpers -> [AllTopics -> Nat]]
      /\ schemas \in [Helpers -> [MessageTypes -> Nat]]
      /\ Separate(mcap, channels, schemas) /\ Holds(mcap, accepted, Len(accepted))
  BY <1>1, HelperAssumption DEF HelperInv, HelperTypes
<1>3. ChannelStep(mcap, channels[h], schemas[h], w2,
                  [channels[h] EXCEPT ![t] = L + 1], sc2, t)
  BY <1>2, ChannelAdded
<1>4. /\ w2 \in Mcaps /\ Extends(mcap, w2) /\ w2.channels[L + 1].topic = t
      /\ [channels[h] EXCEPT ![t] = L + 1] \in [AllTopics -> Nat]
      /\ sc2 \in [MessageTypes -> Nat]
  BY <1>3 DEF ChannelStep
<1>5. /\ \A s \in DOMAIN mcap.schemas :
            s \in DOMAIN w2.schemas /\ w2.schemas[s] = mcap.schemas[s]
      /\ \A x \in MessageTypes : x # y => sc2[x] = schemas[h][x]
      /\ schemas[h][y] # 0 => sc2[y] = schemas[h][y]
      /\ schemas[h][y] = 0 => sc2[y] \in DOMAIN w2.schemas /\ w2.schemas[sc2[y]] = y
      /\ DOMAIN w2.channels = 1..(L + 1)
      /\ DOMAIN mcap.channels = 1..L /\ L \in Nat
  <2>1. schemas[h] \in [MessageTypes -> Nat]  BY <1>2
  <2>2. SchemaStep(mcap, schemas[h], w2, sc2, y)  BY <1>2, <2>1, SchemaAdded
  <2> HIDE DEF w2, sc2
  <2> QED  BY <2>2 DEF SchemaStep
<1> HIDE DEF w2, sc2, L
<1>6. /\ channels' \in [Helpers -> [AllTopics -> Nat]]
      /\ schemas' \in [Helpers -> [MessageTypes -> Nat]]
      /\ channels'[h][t] = L + 1 /\ schemas'[h] = sc2
      /\ \A g \in Helpers, u \in AllTopics :
            (g # h \/ u # t) => channels'[g][u] = channels[g][u]
      /\ \A g \in Helpers : g # h => schemas'[g] = schemas[g]
  BY <1>1, <1>2, <1>4
<1>7. Separate(w2, channels', schemas')
  <2>1. ASSUME NEW g \in Helpers, NEW u \in AllTopics, channels'[g][u] # 0
        PROVE  channels'[g][u] \in DOMAIN w2.channels /\ w2.channels[channels'[g][u]].topic = u
    <3>1. CASE g = h /\ u = t
      BY <3>1, <1>4, <1>5, <1>6
    <3>2. CASE g # h \/ u # t
      <4>1. /\ channels[g][u] \in DOMAIN mcap.channels
            /\ mcap.channels[channels[g][u]].topic = u
            /\ channels'[g][u] = channels[g][u]
        BY <3>2, <2>1, <1>2, <1>6 DEF Separate
      <4> QED  BY <4>1, <1>4 DEF Extends
    <3> QED  BY <3>1, <3>2
  <2>2. ASSUME NEW g \in Helpers, NEW u \in AllTopics, g # h \/ u # t
        PROVE  channels'[g][u] # L + 1
    <3>1. channels'[g][u] = channels[g][u] /\ channels[g][u] \in Nat
      BY <2>2, <1>2, <1>6
    <3>2. channels[g][u] # 0 => channels[g][u] \in 1..L
      BY <1>2, <1>5 DEF Separate
    <3> QED  BY <3>1, <3>2, <1>5
  <2>3. ASSUME NEW g \in Helpers, NEW k \in Helpers, NEW u \in AllTopics, NEW x \in AllTopics,
               channels'[g][u] # 0, channels'[k][x] = channels'[g][u]
        PROVE  k = g /\ x = u
    <3>1. CASE g = h /\ u = t
      BY <3>1, <2>2, <2>3, <1>6
    <3>2. CASE k = h /\ x = t
      BY <3>2, <2>2, <2>3, <1>6
    <3>3. CASE (g # h \/ u # t) /\ (k # h \/ x # t)
      <4>1. channels'[g][u] = channels[g][u] /\ channels'[k][x] = channels[k][x]
        BY <3>3, <1>6
      <4>2. channels[g][u] # 0 /\ channels[k][x] = channels[g][u]
        BY <4>1, <2>3
      <4>3. \A f1, f2 \in Helpers, u1, u2 \in AllTopics :
               channels[f1][u1] # 0 /\ channels[f2][u2] = channels[f1][u1] => f2 = f1 /\ u2 = u1
        BY <1>2 DEF Separate
      <4> QED  BY ONLY <4>2, <4>3, g \in Helpers, k \in Helpers, u \in AllTopics, x \in AllTopics
    <3> QED  BY <3>1, <3>2, <3>3
  <2>4. ASSUME NEW g \in Helpers, NEW x \in MessageTypes, schemas'[g][x] # 0
        PROVE  schemas'[g][x] \in DOMAIN w2.schemas /\ w2.schemas[schemas'[g][x]] = x
    <3>1. CASE g = h /\ x = y /\ schemas[h][y] = 0
      BY <3>1, <1>5, <1>6
    <3>2. CASE schemas'[g][x] = schemas[g][x]
      <4>1. schemas[g][x] \in DOMAIN mcap.schemas /\ mcap.schemas[schemas[g][x]] = x
        BY <3>2, <2>4, <1>2 DEF Separate
      <4> QED  BY <3>2, <4>1, <1>5
    <3>3. schemas'[g][x] = schemas[g][x] \/ (g = h /\ x = y /\ schemas[h][y] = 0)
      BY <1>5, <1>6
    <3> QED  BY <3>1, <3>2, <3>3
  <2> QED  BY <2>1, <2>3, <2>4 DEF Separate
<1>8. Holds(w2, accepted, Len(accepted))
  BY <1>2, <1>4, HeldOn
<1>9. HelperTypes' /\ accepted' \in Seq(AcceptedRecords) /\ ret' \in Answers
  BY <1>1, <1>2, <1>6, AdapterTypes
     DEF HelperTypes, HelperInv, KeepOthers, Answers
<1> QED  BY <1>1, <1>4, <1>7, <1>8, <1>9, HelperStepInv

(* A message behind the others changes neither channels nor schemas.       *)
LEMMA SeparateOn ==
  ASSUME NEW w, NEW w2, Separate(w, channels, schemas),
         w2.schemas = w.schemas, w2.channels = w.channels
  PROVE  Separate(w2, channels, schemas)
  BY DEF Separate

LEMMA HelperWritesInv ==
  ASSUME HelperInv, NEW h \in Helpers, NEW t \in HelperTopics, NEW m \in Messages,
         HelperWrites(h, m, t) \/ HelperFails(h, m, t)
  PROVE  HelperInv'
<1> DEFINE c  == channels[h][t]
           w2 == WithMessage(mcap, c, m)
           a  == [topic |-> t, message |-> m, at |-> Len(mcap.messages) + 1]
<1>1. helping /\ c # 0 /\ UNCHANGED <<channels, schemas>> /\ KeepOthers
  BY DEF HelperWrites, HelperFails
<1>2. /\ mcap \in Mcaps /\ t \in AllTopics /\ TypeOK /\ HelperTypes
      /\ Separate(mcap, channels, schemas) /\ Holds(mcap, accepted, Len(accepted))
      /\ accepted \in Seq(AcceptedRecords) /\ Len(accepted) \in Nat
  BY <1>1, HelperAssumption, AdapterTypes DEF HelperInv
<1>3. c \in Nat \ {0} /\ c \in DOMAIN mcap.channels /\ mcap.channels[c].topic = t
  BY <1>1, <1>2 DEF HelperTypes, Separate
<1>4. /\ w2 \in Mcaps /\ Extends(mcap, w2)
      /\ w2.schemas = mcap.schemas /\ w2.channels = mcap.channels
      /\ Len(mcap.messages) \in Nat
  BY <1>2, <1>3, MessageAdded, ZenonT(60)
<1>5. Separate(w2, channels, schemas)
  BY <1>2, <1>4, SeparateOn
<1>6. HelperTypes'
  BY <1>1, <1>2 DEF HelperTypes, KeepOthers
<1> HIDE DEF c
<1>7. CASE HelperWrites(h, m, t)
  <2>1. mcap' = w2 /\ accepted' = Append(accepted, a) /\ ret' = "true"
    BY <1>7 DEF HelperWrites, HelperChannel, c
  <2>2. a \in AcceptedRecords  BY <1>2, <1>4 DEF AcceptedRecords
  <2>3. Holds(w2, Append(accepted, a), Len(accepted) + 1)
    BY <1>2, <1>3, HeldMore DEF AcceptedRecords
  <2>4. ret' \in Answers  BY <2>1 DEF Answers
  <2> HIDE DEF a, w2
  <2>5. accepted' \in Seq(AcceptedRecords) /\ Len(accepted') = Len(accepted) + 1
    BY <1>2, <2>1, <2>2, AppendFacts
  <2>6. Holds(mcap', accepted', Len(accepted'))
    BY <2>1, <2>3, <2>5
  <2> QED  BY <1>1, <1>4, <1>5, <1>6, <2>1, <2>4, <2>5, <2>6, HelperStepInv
<1>8. CASE HelperFails(h, m, t)
  <2>1. mcap' \in {mcap, w2} /\ accepted' = accepted /\ ret' \in Answers
    BY <1>8 DEF HelperFails, HelperChannel, c, Answers
  <2>2. Holds(w2, accepted, Len(accepted))  BY <1>2, <1>4, HeldOn
  <2> HIDE DEF w2
  <2> QED  BY <1>1, <1>2, <1>4, <1>5, <1>6, <2>1, <2>2, HelperStepInv
<1> QED  BY <1>7, <1>8

LEMMA HelperNextInv == ASSUME HelperInv, [HelperNext]_<<vars, helperVars>> PROVE HelperInv'
<1>1. CASE UNCHANGED <<vars, helperVars>>
  <2>1. TypeOK' /\ Kept' /\ HelperTypes'
    BY <1>1 DEF HelperInv, TypeOK, WriterTypeOK, Kept, OfType, HelperTypes, vars, helperVars,
                adapterVars, writerVars, registry
  <2>2. ASSUME ~helping  PROVE CWInv'
    BY <1>1, <2>2, AnswerInv DEF HelperInv, vars, adapterVars, CWInv, TypeOK
  <2>3. ~helping => Clean'
    BY <1>1 DEF HelperInv, Clean, vars, adapterVars, writerVars
  <2> QED
    BY <1>1, <2>1, <2>2, <2>3 DEF HelperInv, Separate, Holds, vars, helperVars, adapterVars,
                                  writerVars, registry
<1>2. CASE StartHelping  BY <1>2, StartHelpingInv
<1>3. CASE ~helping /\ Next /\ UNCHANGED helperVars
  <2>1. CWInv' /\ Clean'
    BY <1>3, CWNextInv, CleanKept DEF HelperInv
  <2>2. HelperTypes' /\ ~helping'
    BY <1>3 DEF HelperInv, HelperTypes, helperVars
  <2> QED  BY <1>3, <2>1, <2>2 DEF HelperInv, CWInv, helperVars
<1>4. ASSUME NEW h \in Helpers, NEW t \in HelperTopics,
             HelperAddRaises(h, t) \/ HelperRefuses(h, t)
      PROVE  HelperInv'
  <2>1. /\ helping /\ ret' \in Answers /\ KeepOthers
        /\ UNCHANGED <<mcap, channels, schemas, accepted>>
    BY <1>4 DEF HelperAddRaises, HelperRefuses, Answers
  <2>2. HelperTypes'
    BY <2>1 DEF HelperInv, HelperTypes, KeepOthers
  <2>3. /\ mcap' \in Mcaps /\ accepted' \in Seq(AcceptedRecords)
        /\ Separate(mcap', channels', schemas') /\ Holds(mcap', accepted', Len(accepted'))
    BY <2>1, AdapterTypes DEF HelperInv
  <2> QED  BY <2>1, <2>2, <2>3, HelperStepInv
<1>5. CASE Help
  BY <1>4, <1>5, HelperAddsInv, HelperWritesInv DEF Help
<1> QED  BY <1>1, <1>2, <1>3, <1>5 DEF HelperNext

LEMMA HelperInvAlways == HelperSpec => []HelperInv
<1>1. HelperInit => HelperInv  BY HelperInitInv
<1>2. HelperInv /\ [HelperNext]_<<vars, helperVars>> => HelperInv'  BY HelperNextInv
<1> QED  BY <1>1, <1>2, PTL DEF HelperSpec

(* Channel writer and channel helpers keep their types.                    *)
THEOREM WritersTyped == HelperSpec => []TypeOK
<1>1. HelperInv => TypeOK  BY DEF HelperInv
<1> QED  BY <1>1, HelperInvAlways, PTL

(* Channel writer, write_message(): "write exactly one logical channel",   *)
(* of the topic it reports, with all messages of the type of its schema.   *)
THEOREM OneLogicalChannel == HelperSpec => []OneChannel
<1>1. ASSUME CWInv, adapter = "mcap", mcap # None
      PROVE  /\ Len(mcap.channels) <= 1
             /\ \A c \in DOMAIN mcap.channels : mcap.channels[c].topic = topic
             /\ \A n \in DOMAIN mcap.messages :
                   LET x == mcap.messages[n] IN
                   /\ x.channel \in DOMAIN mcap.channels
                   /\ mcap.schemas[mcap.channels[x.channel].schema] = TypeOf[x.message]
  <2>1. CASE channel_registered
    <3>1. /\ mcap.schemas = <<message_type>> /\ OnOne(mcap, message_type)
          /\ mcap.channels = <<[topic |-> topic, schema |-> 1, osi_version |-> osi_version]>>
      BY <1>1, <2>1 DEF CWInv, Shape, OneRegistered
    <3>2. /\ DOMAIN mcap.channels = {1} /\ Len(mcap.channels) = 1
          /\ mcap.channels[1].topic = topic /\ mcap.channels[1].schema = 1
          /\ mcap.schemas[1] = message_type
      BY <3>1
    <3>3. \A n \in DOMAIN mcap.messages :
             mcap.messages[n].channel = 1 /\ TypeOf[mcap.messages[n].message] = message_type
      BY <3>1 DEF OnOne
    <3> QED  BY <3>2, <3>3
  <2>2. CASE ~channel_registered
    <3>1. mcap.channels = <<>> /\ mcap.messages = <<>>
      BY <1>1, <2>2 DEF CWInv, Shape, Unregistered
    <3> QED  BY <3>1
  <2> QED  BY <2>1, <2>2
<1>2. HelperInv => OneChannel
  BY <1>1 DEF HelperInv, OneChannel
<1> QED  BY <1>2, HelperInvAlways, PTL

(* Channel writer, get_channel_specification(): type and OSI version it    *)
(* reports are those of the messages taken and of the channel in the file. *)
THEOREM ReportsTrue == HelperSpec => []SpecificationTrue
<1>1. ASSUME CWInv, adapter = "mcap", mcap # None
      PROVE  \A c \in DOMAIN mcap.channels : mcap.channels[c].osi_version = osi_version
  BY <1>1 DEF CWInv, Shape, OneRegistered, Unregistered
<1>2. HelperInv => SpecificationTrue
  BY <1>1 DEF HelperInv, Kept, OfType, SpecificationTrue
<1> QED  BY <1>2, HelperInvAlways, PTL

(* Channel writer, write_message(): what it answered True for is in the    *)
(* file, in the order of the calls.                                        *)
THEOREM TakenKept == HelperSpec => []TakenInFile
<1>1. HelperInv => TakenInFile
  BY DEF HelperInv, CWInv, Shape, Told, TakenInFile
<1> QED  BY <1>1, HelperInvAlways, PTL

(* Channel helpers, add_channel() and write_message(): helpers that share  *)
(* a writer keep ids of their own, whatever topics and types they name, and*)
(* each accepted message is on a channel of its topic, in order.           *)
THEOREM HelpersKeptApart == HelperSpec => []HelpersApart
<1>1. HelperInv => HelpersApart
  <2> SUFFICES ASSUME HelperInv, helping PROVE HelpersApart
    BY DEF HelpersApart
  <2>1. Separate(mcap, channels, schemas) /\ Holds(mcap, accepted, Len(accepted))
    BY DEF HelperInv
  <2> QED  BY <2>1 DEF Separate, Holds, HelpersApart
<1> QED  BY <1>1, HelperInvAlways, PTL

=============================================================================
