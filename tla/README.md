# Verification of HDDM

HDDM is a format and tool set for event data: from an XML template (a *model*)
the generators write C++, C and Python libraries that stream records of that
model to and from files. This directory holds TLA+ models of the code in
`src/`, the TLC configurations that check them, and TLAPS proofs.

The centre of the project is the run-time library that `hddm-cpp` writes into
every generated library (its text is the body of `src/src/hddm-cpp.cpp`), and
the compressing stream buffers of `src/xstream/` it stands on. It is used by
many threads at once, and keeps for each of them a private copy of a
configuration that any of them may change; nothing in `src/test` exercises that.
Around it stand the parts that turn schemas into code and records into bytes,
and back: they are sequential but recursive, and what is hard in them is that two
sides written separately must agree.

## 1. Inventory

| component | state | operations | hard behaviour | what makes it correct |
|---|---|---|---|---|
| **output stream** `hddm-cpp.cpp` 605-649, 1670-1870, 4446-4493 | atomic `m_status_bits`, `m_streambuf_mutex`, the user's `std::ostream`; per thread `MY(...)`: status copy, compressor, `mutex_lock`, counters, event buffer | `<<`, `setCompression`, `setIntegrityChecks`, destructor | threads; configuration changed under way; private copies that lag; a mutex that is held or lent; exceptions between lock and unlock | the file can be read in order; no record lost or doubled; the sink is used by one thread at a time; no null compressor; no lock left over; every call returns |
| **input stream** 662-726, 1312-1668, 4332 | the same, with a decompressor that holds a fetched block, `next_start`, `last_start`/`last_offset`, `events_to_skip`, `hit_eof` | `>>`, `skip`, `getPosition`, `setPosition` | tokens met by one reader and obeyed by all; look-ahead shared by all; repositioning in blocks; end of file | every record read once, in order; record boundaries never lost; a position leads back to its record; the end is reported only at the end |
| **xstream z / bz** `z.cpp`, `bz.cpp` | open block and its size; fetched block, `end` flag, position sought; pointer to the mutex, shared `m_leftovers` | `xsputn`, `flush`, `sync`; `xsgetn`, `underflow`, `read_inflate` | the mutex is taken only for a block; size words are read ahead | blocks are whole and in one piece; see the two streams |
| **schema matching** 1369-1393, 1948-2019, 4402-4493 (`synthesize`, `sequencer`, `codon`) and the event buffers of both streams | per thread a tree of codons with a list of targets each, the current codon; the buffer, its position and size | construction from two schemas, then one pass per record; back-patching of sizes; growth | nested streaming switches the current codon; sizes written before they are known, in a buffer that may be too small | each element of the file reaches the element of that name or is skipped; the file has the whole record |
| **`HDDM_ElementList`** 820-1260 | sublists of one host list per type, two iterators and a size | `add`, `del`, `insert`, `erase`, iteration | lists of all parents share the host list | a list is the sequence of its parent's elements |
| **`httpStreambuf`, `xrootdStreambuf`** | deque of blocks, each with a background reader, index, look-back | constructor, `underflow`, `advance`, destructor | background threads; end of file; failing requests | the blocks of the remote file, in order; no block deleted in use |
| **`hddm-c`** library | pop list (schema of the file matched with that of the program), buffer of 32-bit words | `open`, `read`, `skip`, `flush`, pack and unpack | the other library's files; one attempt at growth | what C writes C++ reads, and the reverse, up to the common part |
| **`hddm-py`** | reference count and host of each object | read, write, get, add, delete, clear | counts kept by hand, calls that let other threads run | a record lives while any part of it is held, and no longer |
| **`hddm-root`** | a tree per place of a tag, columns shared by trees, one key | build, fill | tags in several places | rows and keys of the trees give the record back |
| **`hddm-xml`, `xml-hddm`, `hddmcat`** | modes, chain of decompressors | convert, concatenate | tokens between records and between files | inverse of each other; the concatenation of the records |
| **generators** (`hddm-cpp`, `hddm-c`, `hddm-py`) | table of tags by name, stack of parents | check a schema, write classes | repeated tags | one class per tag that fits all its places |
| xstream filters (tee, dater, base64, digests, fd, posix) | small buffers, a set of destinations | `overflow`, `sync`, `xsputn` | destinations that fail while others go on | transparent to the data |
| `particleType.h` | none: 18 tables | lookup | tables kept by hand | tables that are inverse to each other are |
| xdr | none | conversions | none | inverse of each other |
| XParsers, XString, md5, scripts, schemas | - | - | - | third-party, text |

**Interaction.** A generated `ostream` writes through a private `std::ostream`
per thread, either directly to the user's stream buffer or to an xstream
compressor in front of it. The stream *lends* its mutex to that compressor
(`set_streambuf_mutex`), which takes it while a finished block goes out. Changes
of configuration travel as *tokens* in the data (a record of size 1): the
writers agree through `m_status_bits`, the readers through the tokens.
Everything else is called by one thread and talks through return values; remote
sources are stream buffers behind the input stream.

The places where this is hard to test are listed one by one, with their lines,
under `hazards` in `PROJECT.json`, each with the properties aimed at it or the
reason there is none.

## 2. Modules

| module | contents |
|---|---|
| `HddmFormat` | what a file consists of: entries (an uncompressed record or token, or a compressed block of them), the configuration word, and which entry is readable under which configuration |
| `HddmOstream` | the output stream: state, actions, properties |
| `RecordLog` | abstract specification of an output stream: each writer submits records one at a time; the log grows by records accepted, per writer in order; when it is closed it has all that were accepted |
| `HddmOstreamLog` | the refinement mapping to `RecordLog`, and the conservation invariant |
| `HddmOstreamMC` | instances for TLC |
| `HddmOstreamProofs` | TLAPS proofs about `HddmOstream`: types, mutex, exclusion, null pointers, and that the file it writes is readable in order |
| `HddmOstreamLogProofs` | TLAPS proofs that it implements `RecordLog` and conserves records |
| `HddmIstream` | the input stream: state, actions, properties |
| `HddmIstreamMC` | instances for TLC and the files they read |
| `HddmIstreamAlone` | TLAPS proofs about one reader that may reposition, and the lemmas on files and types that all proofs about readers share |
| `HddmIstreamShared` | TLAPS proofs about any number of readers: types, exclusion, record boundaries, null pointers |
| `HddmIstreamCounted` | TLAPS proofs that these readers divide the records among themselves and lose none |
| `HddmElementList` | the lists of repeated elements that share a host list: state, operations, properties |
| `ElementSequences` | abstract specification of these lists: one sequence of elements per container |
| `HddmElementListMC` | instances for TLC |
| `HddmElementListProofs` | TLAPS proofs about them: all five properties, the refinement of `ElementSequences` among them |
| `HddmRecord` | schemas and records, the reference encoding of a record in words, and the writer's streamers on an event buffer |
| `SchemaMatching` | a file written under one schema and read under another: codons, sequencer, both event buffers; the reference definition of what two schemas have in common |
| `HddmC` | the C library on the same files: pop lists, pack, unpack, `skip`, `flush` |
| `HddmXml` | `hddmcat`, `hddm-xml` and `xml-hddm`, one after the other, on files of C and C++ programs |
| `HddmRoot` | the trees `hddm-root` builds from a schema and the rows it fills from records |
| `HddmGenerator` | how `hddm-cpp` and `hddm-c` walk and check a schema document, and the classes that result |
| `HddmPython` | the objects of the Python binding and their reference counts |
| `HddmPythonProofs` | TLAPS proofs about it: types, the counts, the life of records and elements |
| `RemoteStreambuf` | the two remote sources with their background threads, below readers that take turns |
| `RemoteStreambufProofs` | TLAPS proofs about it: types, memory, order of delivery |
| `ParticleTables` | every table of `particleType.h` |
| `XstreamFilters` | tee in front of a digest, a dater, a base64 encoder and files |
| `HddmPartsMC` | one instance of each of the last nine parts for TLC |

`SchemaMatching` extends `HddmRecord`; `HddmC`, and above it `HddmXml`, and
`HddmRoot` extend `SchemaMatching`, since they read and write the same records.
The nine parts do not run together: in `HddmPartsMC` the variable `part` says
which one a behaviour belongs to, and the others keep their initial state.

### Correspondence with the code

State carries the names of the code in camel case: `statusBits` is
`m_status_bits`, `mutex` is `m_streambuf_mutex`, `status`, `xcmp`, `mutexLock`,
`nextStart`, `skipping`, `hitEof`, `written` are the `MY(...)` members, `newcmp`
is the local variable of `configure_streambufs`. `pc` is the position of a
thread inside the library and has a value for each point between two accesses to
shared state. `PROJECT.json`, under `map`, gives the lines of each definition.

One step is one atomic access to shared state: a load, `fetch_and`, `fetch_or`
or `store` of the configuration word; taking or releasing the mutex; the bytes
of one entry. Work on private data goes with the step before or after it. So

* a setter is `SetCall` (comparison with the shared word), `FetchAnd`, `FetchOr`,
  `FetchRepos`, `MakeToken`, then the lock, the token, `Flush`, the update and
  the unlock, in the order of `hddm-cpp.cpp` 1732-1778;
* `update_streambufs`/`configure_streambufs` is `Update`, `Reconfigure`, `Build`,
  `Adopt`: the word is read three times there and may change in between;
* `operator<<` is `WriteCall`, the lock, the update, `PutRaw` or `PutBlock`, and
  `Unlock`; `operator>>` is `ReadCall`, the lock, the update, `Head...`,
  `FetchBlock` or `ReadRaw`, `Token` or `Record`, `Unlock`.

* `addElements` and `deleteElements` are `Add` and `Delete`, each with all that
  `insert`, `erase` and the constructors and destructors of the elements do;
  the streamer of an input stream is a `Delete` of everything followed by an
  `Add`. A `std::list` iterator is the cell it points to, and iterator arithmetic
  is arithmetic on the positions of cells in the host list.

* In `SchemaMatching`, `operator<<` is `Begin`, `Stream`, `Grow` as often as the
  loop runs, `WriteOut`; `operator>>` is `ReadIn`, whose recursion through
  `sequencer`, the streamers and the lists is the recursion of the operators
  `Sequencer`, `StreamerIn`, `ListIn` and `Input`, each of which takes and returns
  the private state of the thread (current codon, targets, position in the
  buffer). It pushes targets and switches codons exactly where the code does.
* `HddmC`: `Fetch` is what `read` and `skip` have in common, the record taken into
  the buffer; `TopList`/`PopList` is the matching done in
  the open function, `Unpack...` and `Pack...` are the printed functions.
* `RemoteStreambuf`: `underflow` is `Underflow` up to the join and `Join` after
  it; each `background_fill` ends in a `Fill` or `FillFails`; the destructor
  joins block by block.
* `HddmGenerator`: the recursion of `constructGroup` is the stack `visits`;
  `Descend` looks at the next child (`checkConsistency` if the tag is known),
  `Ascend` writes the class. The tables of what a class inherits, hosts and looks
  up are computed from `parents` and `children` as `writeClassdef` and
  `writeClassimp` compute them.
* `HddmPython`: an action for each kind of printed method. `_ostream_write` takes
  two steps because other threads run between them.
* `XstreamFilters`: one action per call of the tee, in which all destinations get
  the call.

A writer's entry takes two steps, begin (`PutRaw`, `BlockLock`) and end
(`RawDone`, `BlockDone`), so that two threads can be seen inside the sink
together. Null pointers are explicit: a dereference of a null `MY(xcmp)` sets
`crashed` or `fault`.

### Abstractions

* The two compression bits are a set and `m_status_bits` a record; both-bits-set
  is a value the code can reach and is handled as it handles it (an exception).
* The payload of a record is its writer and number, its encoding the
  configuration it was written under. Its size is chosen from `RecordSizes`;
  the fill level of a block decides when it is closed, as in `z.cpp` 309-330.
* A block is one entry. On the reading side the source position is the *effective*
  one: the look-ahead bytes in `m_leftovers` belong to whoever fetches next under
  the mutex, so they count as not read.
* `delete` of a compressor flushes and then syncs, and takes the mutex for each;
  the model takes it once, since the second one finds an empty block.
* The bz buffers have the same structure as the z buffers and are instances of
  the same actions.
* The sink does not fail, memory does not run out. `getPosition` of the output
  stream is left out.

* In `HddmElementList` the element and the list cell that points to it are one
  thing, and attributes are left out. Cells that were freed are handed out again,
  so that a dangling iterator may come to point at a new element. Inserting at a
  dangling iterator is undefined behaviour and ends a behaviour of the model.

* Records (`HddmRecord` and what extends it): an element carries one number for all
  its attributes, repeated as often as its attributes have words. A tag has up to
  three places in a schema. Sizes count words of four bytes; XDR has no others.
* Text in `HddmXml` is a pair of the value and the spelling. `int` stands for the
  types whose text says all (int, long, boolean), `float` for those printed with six
  digits (float, double; the even numbers have no more), and strings come in five
  kinds: empty, plain, with markup that makes the document ill-formed, with an
  entity or a line break that xml reads as other text, and with a `>`. Where
  `hddm-xml` asks the user whether to go on, the user says yes. Limits on the length
  of a line, several top elements in a line, and tags whose names begin alike are
  left out, and what is still in the buffer of a file (`-o`) when `exit` ends
  `xml-hddm` counts as written.
* `XstreamFilters`: sums are the bytes summed. The walk over an erased iterator in
  tee is undefined; the model lets it miss other failed destinations or end.
* `HddmPython`: the references Python itself counts are those of the program's
  variables and of calls in progress. An element has one list, tags are left out.
  A program does not call `__init__` twice, nor use a list after a deletion took
  its elements or its container: the binding does not check either.
* `RemoteStreambuf`: a file is a number of blocks; a request beyond the end
  yields nothing, or an error page with `ErrorHasBody`. If the file ends with a
  compressed block (`packed`), the decompressor that gets this block looks eight
  bytes ahead and meets the end (`z.cpp` 621, `bz.cpp` 656) before any reader is
  told of it; so there is one end more than there are readers. An index behind the
  deque ends a behaviour in the phase `undefined`.
* `HddmPython`: a C++ exception that leaves the block in which `read` and `write` let
  other threads run would go on without Python's lock; this is not modelled.

### Disciplines

The guide claims that streams may be used by any threads "without interlocks".
This is not so for changes of configuration (section 4). The output stream is
therefore checked under what its callers promise, the constant `Discipline`:
`open`, the opener configures before any other thread uses the stream, which is
what the guide calls normal ("normally it is set when the stream is first
opened"); `quiet`, besides, while nothing is compressed,
the integrity checks may be changed when nobody else is inside the library;
`free`, no promise. `MayDisable` says whether compression may be switched off,
and `MayLeave` whether `setPosition` may go from compressed data back to
uncompressed data.

A record is used by one thread, but its lists are not independent: an emptied
list points at the cell that followed it. `Careful` says that callers add to an
emptied list only while that cell is still the first of the list it belongs to,
or the end (`Settled`): always, if nothing was inserted or deleted at the front
of the following list in between. Filling lists in any order, deleting from them
and clearing them is free.

The other parts have disciplines too. Each is needed: when the promise is dropped,
TLC finds a property violated in the instance of `parts`.

* `FewClients`: there are fewer readers than blocks read ahead. Each reader that
  meets the end advances `buffer_index_` once more, and so does the look-ahead of the
  decompressor; nothing brings it back, and the code compares it with the size of the
  deque for equality only (`httpstream.cpp` 90).
* `FirstReadFails`, `ErrorHasBody`: are `FALSE` in the run. With the first, the
  first read of an xrootd file that was opened may fail, and its block is silently
  missing; with the second, the page a server sends with error 416 is served as data.
* `LeafListsMatch`: a repeated tag without contents in the reader's schema has none
  in the file's schema either (`hddm-c.cpp` 1300-1323).
* `FitTwice`: a record fits in twice the buffer of a C reader, which is doubled
  only once (1370-1381).
* `SwitchedOnce`: compression is switched on at most once and never changed or
  switched off; `PlainEnds`: every file that is followed by another one ends
  uncompressed and unchecked (`hddm-xml.cpp` 386-407).
* `AttrNamesDiffer`, an assumption: attributes of different tags have different
  names, or the branch of the inner one is hidden behind that of the outer one.

## 3. Runs

| run | instance | shows |
|---|---|---|
| `ostream_quiet` | 3 threads that all configure, `quiet`, 2 records each, 2 settings, z and bz2; the two that are not the opener are symmetric | `SinkExclusive`, `Framed`, `NoCrash`, `Quiescent`, `Conserved` |
| `ostream_live` | 2 threads, `open`, 2 records, 3 settings, fair | `CallsReturn`, and `ImplementsLog`: the stream implements `RecordLog` |
| `ostream_free` | 2 threads that both configure, `free`, every exception path | `TypeOK`, `MutexTruthful`, which hold whatever callers do |
| `istream_shared` | 2 readers, 4 files whose tokens precede their compressed records, skips, fair | `SourceExclusive`, `NotGarbled`, `ExactlyOnce`, `Complete`, `CallsReturn`, `TypeOK` |
| `istream_seek` | 1 reader, every file of up to 3 entries, 2 skips, 2 seeks | `NoCrash`, `NotGarbled`, `ReadsInOrder`, `EofAtEnd` |
| `element_lists` | 3 containers, 5 cells, 1 or 2 elements per `add`, `Careful`; cells and containers are symmetric | `TypeOK`, `OwnContents`, `EditsPlaced`, `RoundTrip`, `ImplementsSequences` |
| `parts` | the nine remaining parts, each on its own instance | remote: `RemoteInOrder`, `RemoteMemory`, `RemoteReturns`; records: `RecordWhole`, `ReadsCommonPart`; C: `CReadsCommonPart`, `CFilesReadable`; tools: `XmlRoundTrip`, `XmlReadsAll`; `RootRows`, `RootKeys`; `GeneratedClasses`; `PyRecordAlive`; `ParticleTablesAgree`; `FiltersDeliver`; `PartsTypeOK` |
| `ostream_switch_off`, `ostream_toggle`, `istream_late_token`, `istream_seek_back`, `element_lists_refill` | minimal | the disagreements of section 4 |

**Bounds.** Three writers are enough for a holder, a waiter and one that
configures. Two records per writer and blocks of two units give blocks that are
open, closed because they are full, and closed by a setter or the destructor,
with one or two records; three settings reach raw -> z -> bz2 and a change of
the crc. A reader file of three entries has a token, a block and what comes
after it; blocks of three items and two seeks give every case of repositioning:
before, at and after the current item, in the same block and in another one.
Three containers give a list with a neighbour on each side, five cells a list of
three between two others or one that fills the host list; `EditsPlaced` tries
every position and count in every state. `MaxSkips = 2` lets a skip cross a block and the end of the file. The files of
`istream_seek` are generated as *all* sequences of entries the output stream can
produce, within that bound.

In `parts`: two readers of files of up to eight blocks, with the look-back and
read-ahead of the code, reach a full deque, its rotation and three ends at the end
of a compressed file, as many as the deque has room for. Five schemas over four tags nest, reorder and repeat tags, with tags that
occur in two places; each is written and read under each of the others, and
under schemas with another signature or another multiplicity of a tag, so that
tags match, are missing on either side, or clash. An event buffer of four words
doubles several times; two records in a row show what the first leaves behind.
The buffer of a C reader has seven words: some records fit, some do once it is doubled.
For the xml tools up to three records and tokens in up to two files, one record of
them with strings of any kind, and all types of values; for root two records; for the generators all documents with a tag in two places out of a set
that varies attributes, multiplicity and contents; for Python two variables and
three objects. Base64 lines of five characters break inside a group;
four bytes of two values, one a line feed, reach every way of cutting text into calls.
`ParticleTables` is exhaustive: every code in the header.

**Deadlock.** The readers can always be called again, so deadlock is checked in
both passing reader runs. An output stream stops when it is closed, when the
callers have used up their bounds, or after a crash: its runs, and the runs that
stop at a null pointer, do not check deadlock, nor do those of the lists, where
cells run out, nor `parts`, where the bounds end each part;
`CallsReturn` and `RemoteReturns` cover what matters, a call that does not return.

**Fairness.** `LiveSpec` gives each thread weak fairness for the steps of a call
in progress, none for starting a call or closing the stream, and strong fairness
for the two steps that acquire the mutex. A `std::mutex` makes no promise of
order; that a thread which keeps asking gets it eventually is what a preemptive
scheduler provides, and without it a writer could starve in any program.
`RemoteFairness` gives weak fairness to an answer to each request (a server that
never answers blocks the join for ever, in the code too), to the reader that is
waiting in a join, and to the destructor; none to a reader's next call.

**Sensitivity.** Each property has at least one mutant of a modelled operation
(`mutants` in `PROJECT.json`) that violates it in its own run: the compressor
writes without the mutex, a setter does not flush, `unlock` leaves the lent
mutex, the destructor drops an open block, the reader ignores a token, and so on.

## 4. Where the code and its documentation disagree

* `ostream_switch_off`: `setCompression(k_no_compression)` on a compressed stream
  reaches `unlock_streambufs` with `mutex_lock` 2 or 3 and a null compressor
  (`hddm-cpp.cpp` 1861). The guide allows the mode to "be changed at any time".
* `ostream_toggle`: a setter changes `m_status_bits` before it holds the mutex; a
  writer that gets in between puts a record into the file which the token that
  announces its encoding follows (1762). The guide promises thread safety
  "without interlocks".
* `istream_late_token`: a token in a compressed block is obeyed after the mutex
  was given up (1605); another reader may read the next block in the old
  configuration. Readers are safe when the tokens come before the first
  compressed record, which is what `istream_shared` checks.
* `istream_seek_back`: `setPosition` from compressed data to a position got in
  the uncompressed part runs into a null decompressor (1511).
* `element_lists_refill`: delete all elements of one container, add one at the
  front of the next, add to the first again: its element is inserted between
  those of the second, which then iterates over it (1138, 1070-1078). The guide
  says that `getElements` returns the elements contained within *this* element.

Other disagreements have no run of their own: the disciplines exclude them, or the
property says what happens instead.

* A C reader whose schema has a repeated tag without contents loses its place in
  files where that tag has contents; the guide says that for a file with more in it
  than the program's schema "nothing has changed" (`guide.tex` 477-478). See `LeafListsMatch`.
* The guide speaks of "reversibility" (`guide.tex` 547). A `Particle_t` is written by
  `hddm-xml` as name and code, "Gamma(1)", and read by `xml-hddm` as a name: it
  comes back as 99 (`xml-hddm.cpp` 505-516). Floats and doubles are printed with the
  six digits of a stream's default (`hddm-xml.cpp` 592-605). Strings are printed as
  they are (620-626): one with markup makes the document ill-formed, and `xml-hddm`
  gives up; an entity or a line break in one comes back as other text; and a `>`
  in the attribute of a top element without contents is taken for the end of the tag,
  so that `main` looks for an end tag for ever (`xml-hddm.cpp` 276-305). An `anyURI`
  that is empty ends `xml-hddm` with an error (438-445). A list of elements without
  attributes and contents ends `hddm-xml` with an error (`hddm-xml.cpp` 700-711).
  `XmlRoundTrip` says what comes back of each value and where `xml-hddm` stops.
* Three readers of one compressed remote file, with the three blocks that the code
  reads ahead, carry `buffer_index_` behind the deque: the look-ahead of the
  decompressor and each reader meet the end (`httpstream.cpp` 90-92). See `FewClients`.
* Without a discipline the output stream can lose records. `configure_streambufs` reads
  the shared word once for the new compressor and later for the private copy
  (`hddm-cpp.cpp` 1797-1823). If another thread's `fetch_and` (1737) falls in between, and
  its `fetch_or` after both, the thread has a compressor and a private status without
  compression. At its next change that compressor is not deleted, since the status
  does not tell of it (1800-1805), but overwritten, and its open block is lost. TLC finds
  `Conserved` violated so with two threads, two records and two settings under `free`.
* The end tag of a document is recognised by its first characters
  (`xml-hddm.cpp` 300-303).
* Python's `add` methods of list objects return objects of the base class
  (`hddm-py.cpp` 605-627), where the guide shows elements with attributes
  (`guide.tex` 1258).
* Nothing below a second occurrence of a tag is compared by the generators (the
  comment at `hddm-cpp.cpp` 2117 promises the tag group), and what they count
  are descendants; `hddm-cpp` accepts a tag inside itself, `hddm-c` refuses it.
  `GeneratedClasses` states what is accepted.
* `EnumString` gives nuclei their names ("Carbon"), where its comment says "exact match"
  (`particleType.h` 450). Twenty particles have no short name, and codes from 100
  on are unknown to `lookupParticle` (`hddm-cpp.cpp` 4599).
* `dater` drops what follows the last separator of a string, but for its date
  (`dater.cpp` 37-61); base64 widths of 1 to 3 give lines that no decoder reads.

## 5. Proofs

The theorems hold for every value of the constants: any set of threads or readers,
any number of records and settings, any block size, files of any length. The
constants' assumptions (`ASSUME`) are those named in the modules, and say what kind of
values a constant has and which inputs there are (files a writer can have produced,
schemas a generator accepts); a discipline of the callers or a restriction of their
number is a hypothesis of the theorem.

| theorem | about | hypotheses |
|---|---|---|
| `TypeCorrect` | `TypeOK` | none |
| `MutexCorrect` | `MutexTruthful` | none: any discipline, any exception path |
| `OpenSinkExclusive` | `SinkExclusive` | `open`, compression not switched off |
| `OpenNoCrash` | `NoCrash` | the same |
| `OpenQuiescent` | `Quiescent` | the same |
| `OpenFramed` | `Framed` | the same |
| `LogImplemented` | the refinement `ImplementsLog` of `RecordLog` | `open` or `quiet` |
| `LogConserved` | `Conserved` | `open` or `quiet` |
| `AloneTypes`, `AloneNotGarbled`, `AloneNoCrash` | `TypeOK`, `NotGarbled`, `NoCrash` | one reader (`Alone`), no return from compressed to uncompressed data (`~MayLeave`) |
| `AloneReadsInOrder`, `AloneEofAtEnd` | the action properties `ReadsInOrder`, `EofAtEnd` | the same |
| `SharedTypes`, `SharedExclusive`, `SharedNotGarbled`, `SharedNoCrash` | `TypeOK`, `SourceExclusive`, `NotGarbled`, `NoCrash` | any number of readers, no repositioning (`MaxSeeks = 0`), `ConfiguredFirst` |
| `SharedExactlyOnce` | `ExactlyOnce` | the same |
| `SharedComplete` | `Complete` | the same, and there is a reader |
| `RemoteTypes` | `RemoteTypeOK` | none |
| `RemoteMemorySafe` | `RemoteMemory` | `FewClients` |
| `RemoteDelivery` | `RemoteInOrder` | `~FirstReadFails`, `~ErrorHasBody` |
| `PyTypes`, `PyAlive` | `PyTypeOK`, `PyRecordAlive` | none (finitely many variables) |
| `ListsTyped`, `ListsOwn`, `ListsRoundTrip`, `ListEditsPlaced` | `TypeOK`, `OwnContents`, `RoundTrip`, `EditsPlaced` of `HddmElementList` | `Careful` |
| `SequencesImplemented` | the refinement `ImplementsSequences` of `ElementSequences` | `Careful` |

**Output stream** (`HddmOstreamProofs`).
`TypeOK` and `MutexTruthful` are inductive together: the second refers to the
holder of the mutex, `mutex_lock` and the flag of the compressor, and each action
that touches one of them is a case of its own. The others are not inductive.
Whether a thread inside `configure_streambufs` may trust its private status
depends on where it is and on whether the shared word can still change, which in
turn depends on who has used the stream. `OpenInv` adds exactly this:
`SetterAlone` (only the opener is ever in a setter, and while it is, all others
are fresh) and, per thread, `WantOK` and `StatusOK` (what a setter has done to
the shared word so far, and that it never has both bits), `SyncOK` (when the
private status is the shared one), `XcmpOK` (the compressor is the one the
private status names, except while it is being replaced by the one the shared
word names) and `LockOK` (what `lock_streambufs` has locked, seen from every
later point of the call). `LockOK` and `MutexTruthful` give `SinkExclusive`,
`XcmpOK` and `LockOK` give `NoCrash` and `Quiescent`.

`Framed` needs to know what every open block holds. `FramingInv` is `OpenInv`
with `ReplayOK` (the configuration a reader of the sink is in is the shared one,
except while the token of the opener's change is still due, when it is the
opener's private one), `ItemOK` (what each thread is about to write) and
`BlockOK` (an open block holds records encoded as its thread's status says, and a
token only at its end and only until the setter has flushed it). The two steps
that reach the sink go through one lemma, `EmitFits`, on what an entry does to
the reader; the rest of the proof is that no other step disturbs the invariant.
The discipline is the hypothesis `ConfiguredFirst` of `HddmOstreamProofs`.

**The log of the records** (`HddmOstreamLogProofs`). What reaches the sink is right even
where its framing is not: these theorems need only that no thread changes the
configuration while another one is in a call (`SetterExcludes`, which `open` and `quiet`
give), and setters that fail, compression that is switched off and locks that go stale are
among the behaviours. It is needed for one thing: when `configure_streambufs` builds a
compressor, the thread's open block must be out. It is if the private status tells of
every compressor there is, which `ToldInv` says: a status without compression means no
compressor (`Told`), and between the reads of the shared word in
`configure_streambufs` this word does not change. Under `free` it does, and section
4 has the consequence.
The mapping `SinkLog` flattens entries and filters tokens out of them, by recursion over
sequences. The library's induction takes a predicate as a parameter, so the module starts
with an induction stated for a *set* of numbers (`NatSetInduction`), and from it what the
two folds do to a concatenation (`Foldable` and the lemmas behind it): the log of an
appended entry is the log followed by the records of that entry.

`WritingInv` is inductive. `WritesOK` says what a thread inside `operator<<` holds at each
point: the item it made carries its own name and the number after `written`. `LogInv`
divides the records handed over by a thread into two runs: those in the sink, numbered
1 to d and in this order among themselves (`InOrder`), and those in flight, in its open
block or in its hands, numbered from d + 1 on without a gap (`InFlightRun`). Each step of
the stream is then one of three (`Effect`): `Quiet` changes neither run, `Accepts` appends
the next number to the records in flight, `Delivers` moves all of them to the sink. The
three map to a stutter, to `Accept` and to `Deliver` of `RecordLog` (or to a stutter, when
an empty block is delivered).
A record is accepted when its call can no longer fail (`Committed`): `operator<<` may throw
before, at a stale lock or with both compression bits set, and must not after.
`Conserved` follows from the two runs.

**Input stream.** That a file is one a writer can have produced is said without
recursion, so that it can be reasoned about: `InForce(f, e)` is the configuration
the entry in front of `e` leaves behind, and in a `Legible` file every entry fits the
configuration in force, its records carry it and are numbered in order, and data that
were once compressed stay so and can be repositioned in (section 4 says why no writer
switches compression off). That is all `FilesAssumption` asks of the files.

*One reader.* The place of a reader in the file is divided among `pos`, `nextStart`, the
block in the decompressor and a position sought, and each action moves part of it.
`NextEntry` and `NextOff` name that place, and `Good` says for each point of a call
that the number of records in front of it is the number of the record due next, that
the private configuration is the one in force there, and that the decompressor is of
that kind. `ReadsInOrder` and `EofAtEnd` follow for each step, `NotGarbled` and
`NoCrash` since no step of a `Good` reader sets `fault`.

*Several readers.* A stream passes through three phases. In `Quiet` nothing was
compressed and no reader is past `lock_streambufs`. In `Lead(h)` reader `h` has the
mutex, and the others are where they were in `Quiet`, however many tokens `h` meets;
`h` is `Good` as if it were alone, so its steps go through the lemmas on one reader.
In `Settled` the configuration word stands still: every reader that uses the
source has caught up with it (`Tuned`), holds the mutex while it does (`Locked`),
and gets the rest of a block from where it left off (`BlockOK`). `Lead` returns to
`Quiet` when `h` unlocks, or goes over into `Settled` when `h` meets the
first compressed record, and it is here that `ConfiguredFirst` is needed
(this is the definition in `HddmIstreamShared`: no configuration changes behind a
record that was written compressed). Without it the theorems are false:
`istream_late_token` shows it for `NotGarbled`, and for `SourceExclusive` TLC finds
a counterexample in a file whose codec changes after a record, since a decompressor
made for a token inside a block is not lent the mutex before the next call.

*Counting.* `HddmIstreamCounted` names the records a reader has in hand
(`Hand`: those left of its block, and the one taken out of it). Every step either
leaves the hands alone (`Unmoved`), takes the next entry of the file into one hand
(`Fetched`) or moves one record from the hand to what was delivered (`Delivered`);
`Counted` is kept by each: hands do not meet, what was delivered lies behind, and
no record in front of the source is neither in a hand nor delivered.

**Remote sources.** `RemoteMemory` depends on how far `index` has run beyond the block
in use: once for a reader that waits in the join, once for each reader that was
told of the end and once for a look-ahead that met it (`Ends` counts the last two).
`Current` is what remains, and `OpenShape` ties the length of the
deque, the threads that were joined and the blocks' places in the file to it.
`FewClients` keeps the index within the deque once the ends are met. `RemoteTypes`
does not need it, since an index behind the deque ends the behaviour.
`OrderInv` adds `Delivered`: the blocks handed out are those up to the current one,
whichever of the readers got them.

**Python.** `Counted` says that the count of an object is the number of variables
that name it, plus the living objects whose host it is, plus one for a write and one
for a failed read that kept it. It is not inductive alone: releasing an element takes
a reference from its record too, which is right only since every host is a record,
records host themselves (`Shape`) and are therefore not counted among their own
parts. From the counts, `HostLives`: a record lives with any part of it, so deleting
the elements of dead records (`Dropped`) deletes nothing that a living object stands
for (`Founded`). A new element gets an unused serial number, so that it is not
among those that were removed (`Elemental`).

**Element lists** (`HddmElementListProofs`). A list is two iterators and a size in a host
list that all containers of a class share. `ListsInv` says what that amounts to: no
cell occurs twice in the host list, a cell is in it exactly while it has a parent, and for
each container either the list is empty and no cell is its own (`OwnsNone`), or its cells
are a run of neighbours, from the one its first iterator points at to that of its last
(`LiesOwn`). TLC found `ListsInv` to hold on the instance of `element_lists` before it
was proved. For
the list a call is made on, the lemmas turn `insert` and `erase` (front, middle, end,
positions from behind, empty list, whole list) into a splice or a cut of the run, with the
iterators at its new ends (`OwnInserted`, `DelLies`). For every other list the question is
whether the new cells land inside its run (`Apart`): next to cells of the
list's own they do not; an emptied list, whose iterators point at the cell that
followed it, inserts in front of that cell, which must be the first of its run.
This is `Settled`, and the hypothesis `Careful` says that callers refill a list only then.
Without it the theorems are false: `element_lists_refill` is the counterexample.
`EditsPlaced` speaks of the calls possible in a state, so it follows from `ListsInv`, and
`SequencesImplemented` from what each call does to the runs: a splice or a cut of the
sequence of its own container, none of any other.

**Only model-checked.** The `quiet` discipline of the output stream: `LogImplemented` and
`LogConserved` cover it, but `SinkExclusive`, `Framed`, `NoCrash` and `Quiescent` are
proved for `open`. Several readers that reposition, or whose files change configuration
after a compressed record. `PartsTypeOK`, whose parts are composed only for TLC; and the
parts that encode and decode records and schemas (`SchemaMatching`, `HddmC`, `HddmXml`,
`HddmRoot`, `HddmGenerator`), whose operators are recursive over schemas, which the
provers cannot follow. The filters (`FiltersDeliver`), whose buffers are sequences that
each filter rewrites in turn, and the tables of `particleType.h`
(`ParticleTablesAgree`), which are finite and checked exhaustively. All liveness
properties: reasoning with `ENABLED` is out of the prover's reach.

## 6. Not modelled, and what would come next

* Damaged files, and a sink that fails: the library gives up on them, and no
  statement about what follows would be one about the code.
* `getPosition` of the output stream; copies of lists and slices of
  `HDDM_ElementList`, and the difference of its iterators.
* The bytes of a compressed block, the loops around zlib and bzip2, and the
  digests: arithmetic, and libraries that are not in this repository.
* Files that switch compression off, in `HddmIstream`: the output stream cannot
  write them without a crash (`ostream_switch_off`); `HddmXml` has them, but
  `XmlReadsAll` holds, and is checked, only for files without (`SwitchedOnce`).
* `fd`, `posix`, `xdr`, `digest::block_stream` (used by nothing here); attribute access,
  iteration and positions in Python; `savetrees` of `hddm-root`; `make` and `close` of
  the C library; XParsers and XString, which wrap the Xerces DOM; scripts and
  style sheets; the text of the code the generators print, beyond the facts
  `HddmGenerator` takes from it.

What would extend the project: `HddmPipeline`, the writer and the readers composed, so
that the files of the reader model are those the writer model has produced (until then
the two meet in `HddmFormat`, and `Legible` says what they share); `ZIstreambuf`, the
fetch of a block at the level of size words and look-ahead bytes, refining the
block-level fetch of `HddmIstream`; and the proofs of the output stream under `quiet`.
