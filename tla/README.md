# Verification of the OSI trace file utilities

TLA+ models of the readers, writers and their clients in this repository
(`python/osi_utilities`, `cpp/src/tracefile`), TLC configurations that check
them on small instances, and theorems about them checked by TLAPS.

    tlc -workers 2 -config MultiTraceReader.cfg MCMultiTraceReader
    tlapm MultiTraceReader_proofs.tla

## 1. The system

Trace files come in three formats: binary `.osi` (length-prefixed protobuf
messages of one type), MCAP `.mcap` (several topics, each with a schema), and
text `.txth`. A reader or writer is an object with one open file; the library
starts no threads, and an object is used from one thread. What is hard is what
the calls of one object leave behind for each other, what an operation that
fails half way leaves behind, and what a reader makes of a file whose writer
failed or crashed.

| component | state | operations | what makes it correct |
|---|---|---|---|
| Python MCAP reader, `readers/multi.py` | open file, reader object, path, summary, message iterator, peeked result, two caches by channel id, a decoder factory with a cache by schema id, settings | `open`, `close`, `set_*`, `read_message`, `has_next` | every selected message is handed out once, in log-time order, decoded with the class of its own schema (section 5 says where not); `has_next` keeps its word |
| Python MCAP writer, `writers/multi.py` | file, raw MCAP writer, topic and schema registry, count | `open`, `add_channel`, `write_message`, `add_file_metadata`, `close` | the registry mirrors the file; an accepted message is on the channel of its topic |
| MCAP channel helper, `mcap_channel.py` | a registry of topics and schemas; the writer is its caller's | `add_channel`, `write_message` | helpers that share a writer keep out of each other's channels |
| Python channel writer, `api/channel_writer.py` | a writer, the resolved specification, the registered flag | `open_channel_writer`, `write_message`, `close` | one channel, of the type and version reported |
| Python channel reader, `api/channel_reader.py`, `configure.py` | a reader, the resolved specification | `open_channel`, `read_result`, `read_message`, `close`, `configure_reader_for_channels` | the channel reported is as asked; its messages and no others are handed out; a refused call leaves no file open |
| converter, `converters/gt2sv.py` | a reader, a writer, a count | `convert_gt2sv` | every ground truth message is converted, once and in order, or the call fails |
| names, `filename.py`, `api/types.py`, `format.py` | none | inference of format and type from a file name | the two ways to find the type agree |
| Python binary reader and writer, `readers/single.py`, `writers/single.py` | file and position, message type and class, `_has_next`; file, count | `open`, `set_message_type`, `read_message`, `has_next`, `write_message`, `close` | the flag agrees with the file; reading ends; what was accepted is read back |
| C++ binary reader and writer | a stream, the parser; a stream | `Open`, `ReadMessage`, `HasNext`, `WriteMessage`, `Close` | the same, for files of either language |
| Python text reader and writer | the text not yet cut, the flag, the class; file, count | as above | no field is lost, doubled or moved; what can be told apart is read back |
| C++ text reader and writer | a stream, the first line; a stream | as above | no line is lost, doubled or moved; what can be told apart is read back |
| C++ MCAP writer and channel helper | stream, metadata flag, registry | `Open`, `AddFileMetadata`, `AddChannel`, `WriteMessage` (two overloads), `Close` | required metadata once; one channel per topic; what was accepted is read back |
| C++ MCAP reader | stream, view and iterator, options, topic filter | `Open`, `SetTopics`, `ReadMessage`, `HasNext`, `Close` | every selected message once, in file order; incompatible ones do not get in the way |
| time stamps of both languages | none | seconds and nanos to nanoseconds | no number wraps; both languages write the same |

The channel writer calls the writers, the channel reader the readers, the
converter both; a writer and a reader meet on the disk. The MCAP libraries,
protobuf, the file objects and the operating system are external.

The hazards of this code, each at its line, are listed in `PROJECT.json` with
the properties that would catch them.

## 2. The modules

| module | models | state and actions |
|---|---|---|
| `TraceReader` | the read contract of `readers/base.py`, for any format | what is settled about the next read (`outlook`) and the last answer |
| `MultiTraceReader` | the Python MCAP reader | one variable per field, one action per public method, split where the method returns early; `Fetch` is the loop of `read_message`, used by a read (`GiveResult`) and by a peek (`GivePeek`); `types` is what the decoder factory remembers by schema id |
| `FileNames` | names, and the type and format they stand for | operators only; a name is its extension and the parts of its stem |
| `Configure` | `configure.py` | extends `MultiTraceReader`; a single-channel reader, of which the type and the answers matter; one operator per call |
| `ChannelReader` | the channel reader, and a client that reads several channels through one reader | extends `Configure`; `open_channel` is one action per call it makes of the reader, so that each can fail after the ones before it; the order of the channels in a summary is left open |
| `Gt2Sv` | the converter | extends `ChannelReader`: a second client of the same readers, one action per call of reader or writer |
| `MultiTraceWriter` | the Python MCAP writer | `mcap` is what the raw writer has been given |
| `ChannelWriter` | the channel writer | extends `MultiTraceWriter`, whose operators its actions use |
| `MCAPChannel` | several channel helpers on one raw writer | extends `ChannelWriter`, for its raw writer; a process runs the channel writer or helpers |
| `SingleTraceFormat` | the frames of `.osi` files | a byte is known by its message and its place in the frame, so a misaligned reader can be told from an aligned one |
| `SingleTraceReader`, `SingleTraceWriter` | the Python binary reader and writer | one action per return of a method; writes that fail half way, a close that fails, a crash |
| `SingleTraceFile` | both on one disk | |
| `SingleChannelBinaryTraceFileReader`, `SingleChannelBinaryTraceFileWriter` | the C++ binary reader and writer | exceptions instead of results; a stream that failed takes and gives nothing more |
| `BinaryExchange` | files of either language read by either | composes the five modules above |
| `TextTraceFormat`, `TextTraceReader`, `TextTraceWriter`, `TextTraceFile` | the Python text format | a text is a sequence of top-level items: fields and comments |
| `TXTHTraceFileReader`, `TXTHTraceFileWriter`, `TXTHTraceFile` | the C++ text format | a text is a sequence of lines, the last with or without a newline |
| `MCAPTraceFormat`, `MCAPTraceFileWriter`, `MCAPTraceFileReader` | the C++ MCAP writer with its channel helper, and reader | |
| `MCAPTraceFile` | both on one disk | what a close, a failed stream or a crash leaves is what the reader opens |
| `Timestamps` | the conversions to nanoseconds | operators only |
| `*_proofs` | | the theorems of section 6 |
| `SequenceLemmas` | | facts about sequences that the proofs about files share |
| `MC...` | the instances for TLC | small files, names, messages |

Variables have the names of the fields they stand for; the comment at each
variable names the field when they differ. History variables (`delivered`,
`skipped`, `raised`, `got`, `pieces`, `accepted`, `begun`, `intact`, `damage`,
`taken`, `configured`, `stale`, `opens`, `premature`, `target`, `left`, `converted`)
are written and never read by what stands for code; they let the properties
relate a state to earlier ones, and bounds refer to some. Operators called a
mutant in their comment are plausible bugs; no action uses them. They serve to
show that the property they belong to can fail.

What the data is abstracted to: an MCAP file to its channels and its messages,
a message to its channel, log time and what happens when its bytes are touched
(`good`; `bad`: its payload does not parse; `broken`: the library itself fails
there); a binary message to its type and length; a text message to the names
of its fields, or to its lines; a file name to its parts; metadata to the OSI
version and to how often the required record is there. Logging is left out.

## 3. The runs

| run | asks | distinct states |
|---|---|---|
| `MultiTraceReader` | is anything lost, doubled, reordered or decoded wrongly by any order of reads, peeks, reopens and changed settings; does the reader implement `TraceReader`; does reading end | 196 000 |
| `ChannelReader` | for every request and every file, does `open_channel`, a reader for several channels, or a conversion resolve and hand out what was asked for, or fail; which failure leaves a file open | 8 700 |
| `MultiTraceWriter` | does the registry mirror the file through failed opens, writes and closes | 515 000 |
| `ChannelWriter` | does the adapter keep to one channel, whatever it is handed; do helpers that share a writer stay apart | 743 000 |
| `BinaryExchange` | what do the Python and the C++ reader make of what the Python and the C++ writer left, through failed writes, a failed close and a crash; is `has_next` exact; does reading end | 381 000 |
| `TextTraceFile` | where does the Python reader cut a text, and what is read back | 876 000 |
| `TXTHTraceFile` | the same for C++, by lines | 201 000 |
| `MCAPTraceFile` | what does the C++ reader find of what the C++ writer left; is anything lost when topics and skipping change; does reading end | 780 000 |
| `MultiTraceReader_Reuse`, `BinaryExchange_Torn`, `MCAPTraceFile_Reopen`, `MCAPTraceFile_Throws` | expected violations, section 5 | |

The properties, run by run, besides one type invariant each:

- `MultiTraceReader`: `BoundToOpenFile` (all the reader holds belongs to the
  open file), `InOrder`, `Accounted` (every selected message is in exactly one
  of: still to come, handed out or peeked, skipped, lost to an exception,
  behind a broken record), `DecodedBySchema` (the class is that of the schema,
  or, in `mcap-contained` mode alone, the one the decoder factory remembers for
  a schema of the same id in another file), `ContractSpec` (the refinement of
  `TraceReader`), `Drains`.
- `ChannelReader`: `NoOrphanedFile` (a file nobody can close any more is one over
  which `open()` itself left with an exception that it does not catch; all other
  failures, in whichever client, leave nothing open),
  `ResolvedAsAsked`, `OnlyItsChannel` (the topic always; the type if the
  request had both), `AllOfItsChannel`, `OnlyTheirChannels` (a reader for several
  channels), `ConvertedAll` (a conversion that ends without an exception has
  left nothing of the input out, and its output has taken all of it; whether
  an MCAP output is whole, the answer does not tell).
- `MultiTraceWriter`: `RegistryMirrors`, `AcceptedOnTopic`. Both state an
  exception: after an `open` that failed once the raw writer was made,
  `add_channel` can fill the registry for an object that the next `open`
  replaces (`stale`).
- `ChannelWriter`: `OneChannel`, `SpecificationTrue`, `TakenInFile`, and
  `HelpersApart` of the channel helpers.
- `BinaryExchange`: `HasNextExact` (both directions of the flag, the second up
  to the first error), `ReadsBack` and `Drains` of the Python reader,
  `StreamReadsBack` and `StreamDrains` of the C++ one.
- `TextTraceFile`: `FlagAgrees`, `Conserved`, `ReadsBackDelimited`, `TextDrains`.
- `TXTHTraceFile`: `LinesInPlace`, `ReadsBackDelimited`, `TxthDrains`.
- `MCAPTraceFile`: `Accounted`, `FirstFileReadsBack` (for the first file of a
  writer object, since the second meets the bug of section 5), `Drains`.

The text formats put nothing between two messages, so what was written can be
read back only if messages start with a mark that is nowhere else in them; the
two `ReadsBackDelimited` say exactly when that is enough for each language:
a field that is not repeated for Python, a line that does not come again for
C++. `Conserved` and `LinesInPlace` hold for all other texts.

## 4. Bounds and fairness

- `MultiTraceReader`: two readable files with nine messages, four channel ids,
  three schema ids, two topics, two types, and a path each that is missing,
  damaged (the library says so), or malformed (it fails in another way).
  Between them the files hold every kind of message the code distinguishes, the
  same channel ids with other schemas, the same schema ids with other types, two
  channels on one topic, log times out of file order and equal log times, a
  summary and none. Settings are drawn from all values, but those of
  `set_topic_message_types` from `Expectations`: nothing, types that fit, types
  that do not. No counter is bounded: files are finite and a new iteration
  starts the histories afresh.
- `ChannelReader`: those files, one in which channels of two types share a
  topic, with a bad payload and a record at which the stream breaks, one in
  which all is readable, and single-channel files by name (`MaxFrames = 2`
  messages each); every request with or without topic and type, `UNKNOWN`
  included, and pairs of requests. One reader is open at a time. Conversions
  run on the same files, in processes of their own.
- `MultiTraceWriter`: `MaxMessages = 2`, `MaxMetadata = 2` per raw writer, two
  topics besides the two that type names make: enough for a registered, a
  second and an unknown topic, with two schemas, and for two orders of messages.
- `ChannelWriter`: `MaxMessages = 3` with two versions of one type and a
  message of another; two helpers with two topics in common, `MaxHelped = 2`
  messages, so that each may come first.
- `BinaryExchange`: `HeaderSize = 2` (4 in the code: a header is torn or whole,
  and reading from the middle of one is possible), `MaxExpectedMessageSize = 2`,
  messages of 0, 2 and 3 bytes: one is of exactly the limit, and one of a byte
  more, which writers take and readers refuse.
  `MaxBytes = 5` stops writes on a file of that length, which leaves room for
  two frames behind the first, one of them torn. The length of a run of bytes
  that is no header is any number up to the limit, or one above it. Files are
  written under the names in `Targets` and while the readers are unused: what
  a reader keeps of earlier files does not reach the writers. The type is set
  by hand for the Python reader on files of Python only (those of C++ are no
  different), and the setting `infer` of the Python reader is fixed for C++.
- `TextTraceFile`: `MaxItems = 3` in a written text, messages that are empty,
  of one field, of two, and of one field twice; texts that were edited by hand
  have up to six items. `TXTHTraceFile`: `MaxLines = 3`, messages that are
  empty, of two lines, of the same line twice, and of three lines whose last is
  the first again; edited texts up to five lines, of which one in front is empty
  or a comment; written under `Targets`. Three items or lines make two messages of which one is cut, or has the mark
  of the other in it.
- `MCAPTraceFile`: `MaxMessages = 2` per file, `MaxOpens = 2` files of a writer
  object: the second meets all that the first left behind. A writer object
  starts where there is no file, and goes straight from its first file to its
  second; the reader looks at the first only, without skipping and without
  opening other files in between. Files that were there before, with messages
  of every kind, are read with all settings. A topic filter that a caller puts
  into the options of `Open` is one of fixed topics, `GivenTopics`.

Fairness is that of the client: `for ... in reader` and `while
reader.has_next()` call `read_message` until it comes back empty
(`readers/base.py:71-82`), so weak fairness is on the read of an open file and
on nothing else, neither on writes nor on opens. Where a read reports an error
or throws, the client is one that reads on; a client that stops there has
ended as well. A client that closes, or starts over with new topics, for ever
is not made to end: the properties name these answers as ends of their own.
`Drains` of `MCAPTraceFile` leaves out files with a message that has no schema,
and `TxthDrains` texts that begin with an empty line, because the code does
not get past them (section 5). Safety is checked without the help of fairness,
and the theorems need none.

Deadlock is checked in every run: no object has a state in which no call can
be made.

## 5. What was found

Four runs show a disagreement between the code and what its own documentation
says, each with a counterexample of a few steps:

1. `MultiTraceReader_Reuse`: in `mcap-contained` mode, a reader that opens a
   second file decodes it with types of the first and answers `OK`, if the two
   number their schemas differently. `multi.py:86` promises to decode by the
   descriptor sets embedded in the file; but the decoder factory is made once
   (`multi.py:69`), remembers types by schema id, and is left alone by `open`,
   which clears only the caches by channel id (`multi.py:111-112`).
2. `BinaryExchange_Torn`: a write that fails after the length prefix leaves
   a torn frame; the writer stays open and answers True for the next frames,
   which no reader finds (`writers/single.py:78`, `writers/base.py:50`).
3. `MCAPTraceFile_Reopen`: `required_metadata_added_` is never reset, so
   the second file of a C++ writer has no `net.asam.osi.trace` record
   (`MCAPTraceFileWriter.cpp:91`, `MCAPTraceFileWriter.h:52-53`). The same flag
   is set when `AddFileMetadata` is called before `Open`.
4. `MCAPTraceFile_Throws`: a message without a schema throws although
   incompatible messages are to be skipped, and the reader stays at it
   (`MCAPTraceFileReader.cpp:86`, `MCAPTraceFileReader.h:79-82`).

Seen on the way, and described by the models without a run of their own:

- Python MCAP reader: a message peeked before skipping is switched on is still
  returned as `INCOMPATIBLE` (`multi.py:173`). In `mcap-contained` mode, a
  descriptor set that is damaged makes `read_message` leave with an exception
  (`multi.py:323` is outside any `try`), where `base.py:29-30` promises a result
  of status `ERROR`; the message is consumed. `open` promises "True on success,
  False on failure" (`multi.py:96-97`), but catches `OSError` and `McapError` only:
  anything else that the library raises over a malformed file leaves `open` with
  the file open, and with the reader counting as open until it is closed.
- Clients of it: `open_channel` (`channel_reader.py:165`) and `convert_gt2sv`
  (`gt2sv.py:107`) call `open` outside of any `try`, so after such an exception
  their caller has no object to close the file with. `NoOrphanedFile` says that
  this is the only way to leave one open.
- Python channel reader: where channels of several types share a topic, it
  hands out all of them unless the request had both the topic and the type
  (`configure.py:59`), although it reports one type; on an MCAP file it never
  raises `ValueError` for an incompatible message, because `open_channel`
  leaves the reader skipping those (`readers/multi.py:52`). For a conventional
  name with a second short code in its free part, `open_channel` and the
  binary reader find different types.
- Converter: an output named `.txth` is refused by `RuntimeError` whatever the
  input, and a failing `add_channel` leaves the writer open (`gt2sv.py:123`).
  The frames it counts are those the writer took. An MCAP writer swallows the
  `OSError` of closing its file (`writers/multi.py:308-312`), where the rest of the
  buffer is written, so a count may be returned over an output that lacks its
  end; of a single-channel output the same failure is an exception.
- Python writers: a failed `open` of the MCAP writer leaves a writer object
  that takes channels and messages (`writers/multi.py:175`); the type of a
  message is not compared with the schema of its channel (`writers/multi.py:265`;
  the same in C++); a message that the channel writer then rejects still fixes
  its type (`channel_writer.py:74`); the binary writer takes messages larger than
  any reader accepts (`writers/single.py:78`). When the close of a single-channel
  writer raises, it keeps the closed file object, and the next write leaves with
  a `ValueError` (`writers/single.py:82`, `:89`).
- Python binary reader: `has_next` is false after an `ERROR` while
  `read_message` goes on (`single.py:119`); a type inferred in a failed `open`
  stays (`single.py:69`).
- Python text reader: after a failed `open` the class stays and every further
  `open` is refused as already open (`textformat.py:80`). Bytes that are no UTF-8
  make `open` leave with an exception (`textformat.py:86`), the class set as well.
- C++ binary reader: a frame of length zero, which both writers produce for an
  empty message, is an exception (`SingleChannelBinaryTraceFileReader.cpp:116`);
  the type inferred from one name stays for the next file (line 52; line 49 of
  the text reader), and the type given to a refused `Open` is taken over.
- C++ text reader: a first line that is empty makes every read answer nothing
  while `HasNext` says there is more; a last line without a newline is dropped
  (`TXTHTraceFileReader.cpp:117`). The C++ text writer may answer true for a
  message whose flush fails later.
- C++ MCAP reader: `Open` with options takes the options over, and replaces the
  filter for the topics of `SetTopics` by the one in them, or none, even when it
  is refused (`MCAPTraceFileReader.cpp:78`).
- Time stamps: negative seconds that the nanos make up for are a time after
  the epoch for Python and refused by C++.

## 6. What is proved

Every type invariant and every safety invariant that a passing run checks is a
theorem, and so is the one refinement. All theorems hold for every value of the
constants: any files, names, topics, types, messages and bounds.

| module | theorems | inductive invariant |
|---|---|---|
| `MultiTraceReader_proofs` | `TypeCorrect`, `ReaderBound`, `DecodingCorrect`, `ImplementsContract`; `DeliveredInOrder`, `NothingLost` | `IInv`; `OInv` on top of it |
| `ChannelReader_proofs` | `OrphanFree`; `ClientsTyped`, `AdapterTrue`, `AdapterKeepsToChannel`, `AdapterIsComplete`, `SeveralKeepToTheirs`, `ConversionComplete`; `InferenceAgrees` | `CInv`; `KInv` on top of it |
| `ChannelWriter_proofs` | `RegistryTrue`, `AcceptedKept`; `WritersTyped`, `OneLogicalChannel`, `ReportsTrue`, `TakenKept`, `HelpersKeptApart` | `WInv`; `HelperInv`, with `CWInv` in it |
| `MCAPTraceFile_proofs` | `ReaderAccounts`; `FilesTyped`, `FirstReadsBack`; `NeverWraps`, `SameTimestamps` | `AInv`; `FInv` on top of it |
| `BinaryExchange_proofs` | `ExchangeTyped`, `FlagTrue`; `WrittenIsRead`; `StreamWrittenIsRead` | `Kept`; `ReadInv` and `StreamInv` on top of it |
| `TextTraceFile_proofs` | `TextTyped`, `FlagKept`, `NothingMoved`; `DelimitedReadBack` | `Typed`; `InPlace` on top of it |
| `TXTHTraceFile_proofs` | `TxthTyped`, `DelimitedReadBack`; `CutInPlace` | `TInv`; `LInv` on top of it |

Few of the properties are inductive by themselves. What each invariant adds:

**Python MCAP reader.** A result is decoded with the class in a cache, so
`DecodedBySchema` needs `CachesTrue`: while a file is open, the class cached for a
channel id is the type of the schema of that channel in that file, and the
decoder cached for it is what the factory remembers for the id of that schema.
`FactoryTrue` says of what the factory remembers that it is the type of a schema
of that id in some file, which is all that is true of it. A peek stores a result that a
later call returns, so the peeked result must be about a message of the open
file, which follows from `IteratorInFile`: the iterator of an open reader holds
messages of its file. That needs `BoundToOpenFile`. `PeekIsResult` says that what
is peeked is a result, never an exception or an end, which the refinement needs.
There is one lemma per method, and the loop of `read_message` is treated once
for the message it stops at and then for its two callers. For the refinement,
`Outlook` maps a peeked result to "MORE", an exhausted or absent iterator to
"END" and the rest to "open"; `NextContract` shows, method by method, that a
step of the reader is a step of the contract or leaves it alone. For
`InOrder` and `Accounted`, the order by time and place in the file is shown to be
total and transitive, and `OInv` adds that what was handed out, peeked, skipped
or lost lies before all that is left (`PastBeforeLeft`).

**Clients of the readers.** `CInv` says of each step of the three clients what may
be open then: it is the intermediate steps that carry an open reader from the
call that opened it to the one that closes it. `KInv` adds what the reader below
is good for while such a client has it (`RInv`: it is never peeked, always
skips, and has handed out exactly what could be decoded), and what has been
established by each phase (`Phases`): after which call the requested topic is
in the file, from which call on only its messages are asked for, and what a
conversion has written so far. That a client gets all messages of a channel then
follows from `Accounted` of the reader. `InferenceAgrees` is about names: if
one follows the convention and has no second short code behind its type, the
reader's inference by pattern and the parsing in `open_channel` find the same
type, for every table of codes. The condition is needed (section 5).

**Python writers.** `WInv` has the types, `NoSchemaAlone` (no schema is registered
unless a channel is, so an open that finds no channels finds no schemas either,
and its new file starts with an empty registry), and the two properties said of
the raw writer rather than of the open file. `CWInv` has `Resting` (without a
file nothing is registered), `Shape` (the writer below has either nothing
registered, or one channel with one schema of the type the adapter reports, and
the adapter knows which) and `Kept`. `HelperInv` is for the process of either
kind: with helpers, the ids that they keep are those of channels of the writer,
and no two keep the same (`Separate`).

**C++ MCAP files.** `AInv` needs of a file only that its messages are numbered, so
it holds for what a crash leaves behind too. `FInv` follows a message from the
call that accepts it to the file (`WriterSound`), from the file to what is on
the disk when the writer is closed or lost (`LeftSound`), and from there to the
reader (`ReadSound`). Of time stamps it is shown that the guards of
`TimestampUtils.h` let through exactly the numbers that fit, for every width,
and that what they let through is what Python writes, but for the one case of
section 5.

**Binary files.** `Kept` says that an open file exists, and which values the
variables of a reader have that nobody has used, which is what keeps readers and
writers apart; it is enough for `HasNextExact`. For what is read back there must
be numbers `offs` such that the frame of the n-th intact message lies between
`offs[n - 1]` and `offs[n]`, up to where the file ends (`Written`): each kind of
damage leaves an end of its own. A reader is at one of these places and has
returned the messages in front of it, or is at the end of a damaged file, or is
behind a torn frame, where nothing is promised (`Follows`; `StreamFollows` for
C++, where the messages in front are those that are not empty).

**Text files.** `Typed` is enough for `Conserved`: what is cut off and what is left
are together the fields of the text. For `ReadsBackDelimited` there are again
marks for where each message begins (`InPlace`, `TInv`): in Python the text left
starts with the next message, and the first field of a message is not in the
rest of it, so the cut falls on the mark; in C++ the same of lines. `LInv` is for
texts of any kind.

`SequenceLemmas` has what these proofs need of sequences. Its main result is
about `FlattenSeq`, which the community modules define by a recursive function:
`FlattenAppend` and `FlattenConcat`. The induction theorems of the library
cannot be instantiated here, so inductions go over sets of numbers, from the
least member on, which `WFMin` provides (`FirstOf`, `AllNumbers`).

The assumptions on constants are those the modules state, and TLC evaluates
them on the instances. They are of four kinds: tables are functions on the sets
they are tables of; files are well formed (messages on channels of their file, one schema for a
schema id);
`None` and `UNKNOWN` are no topics, types, paths or messages, as in both
languages; bounds are numbers. Three say more about data.
`DefaultAssumption`: two messages of one type that serialize to no bytes are the
same message, the one with no field set. `MessagesAssumption`: a field that is
not repeated is in a message once. `LinesAssumption`: a printed message has no
empty line. All three are how protobuf serializes and prints.

Two properties did not hold as they stood, for messages the instances lacked,
and the models were corrected:

- A C++ binary write that fails behind the prefix of a message larger than readers
  accept leaves a frame that a reader steps into, as into a torn one, and not a
  file that merely lacks its end. `Loss` tells the two apart, and an instance
  has such a message now.
- A C++ text write that fails may leave a part of the refused message, which is
  delimited like the accepted ones or not. `ReadsBackDelimited` therefore speaks
  of `begun`, the messages whose text was begun, and not only of the accepted
  ones.

Only model-checked: liveness (`Drains`, `StreamDrains`, `TextDrains`,
`TxthDrains`), since fairness is outside what the prover handles; that every
action can happen; and the four counterexamples of section 5.

## 7. Assumptions about what is outside

- Opening an MCAP file may fail with `OSError` or `McapError`, or with any other
  exception; in the middle of the stream the Python library may fail with any
  exception, and its generator is then at its end. A file it fails over in
  `open` it fails over again when it is iterated. Messages come by log time, those of one time in file order;
  C++ reads in file order and copies the options when the view is made.
- `decoder_for` of the decoder factory knows one schema encoding. It answers with
  the type it remembers for the schema id, or else resolves the type from the
  schema, which may raise, and remembers it. Bytes that are given to the class
  of another type may parse or not.
- An exception out of `struct` over a time stamp that does not fit leaves the raw
  MCAP writer as sound as before.
- The raw MCAP writers number schemas and channels from 1. That of Python takes
  messages for any channel id, and keeps a message whose chunk it could not
  write; that of C++ refuses channels and messages with an id it has not given
  out, and forgets all ids when it is closed.
- A `.osi` file that can be opened can be read; a `.txth` file too, unless it has
  bytes that are no UTF-8, which are part of an item that does not parse. Buffered output reaches the disk
  as a prefix, also when a write to a C++ stream fails. A failed write of the
  Python binary writer leaves the header whole or nothing of it, and of the
  body any part but all.
- The protobuf text parser refuses a text with a field its class does not have,
  or an item that is not sound; a field that is not repeated must not come
  twice in one message.
- The C++ table of short codes is an unordered map; where two codes are in a
  name, which one is found is not determined. The models take a name that
  tells one type.
- Objects are used from one thread, and nobody else writes the files.

## 8. Not modelled

The examples and command line tools are clients for demonstration; build files
and the test suites have no behaviour of the library. The C++ factories choose a
class by extension and keep no state. The conversions of time stamps to and
from seconds are floating point, out of reach of the tools. The traversal of
descriptors in `_mcap_utils.py` is a recursion over an import graph without
state; the name tables of the message types and the remaining fields of a
conventional name are data. Of the C++ MCAP reader, a problem that the library
reports in the middle of a file is left out: what its iterator does then is
not determined by the code here. Logging and compression are left out
throughout.
