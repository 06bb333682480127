# myapps-common: a verification project

`myapps-common` is the library that the myapps store, its front servers and its
clients share.  It packs and unpacks the archives in which applications travel
(`utility/archive.hpp`), declares the messages of the front protocols and how
they are serialised (`front_protocol_*.hpp`, `utility/protocol.hpp`), and holds
the encodings, error codes and data types that go with them.  This directory
has TLA+ models of its parts, runs of TLC on small instances and proofs that
TLAPS checks for instances of every size.

    tlc -config MCArchiveCreate.cfg MCArchiveCreate.tla    # one run
    tlapm ArchiveCreateProofs.tla                          # one set of proofs

## 1. The system

| part | state | operations | interacts with |
|---|---|---|---|
| archive creation (`utility/src/archive.cpp:33-120`) | the open `zip_t`, the live `directory_iterator`s, a metadata buffer, the caller's total | `archive_create`, `zip_add_dir`, `zip_add_file`, the caller's `_meta_fnc` | libzip, the source tree, any other program that writes to the tree or to `_zip_path` |
| archive extraction (`archive.cpp:122-200`) | the entry index, bytes read, the caller's total, the destination directory | `archive_extract`, the directory and writer callbacks | libzip, what earlier calls left in the destination |
| version handshake (`Version`, `InitRequest`, `InitResponse` in `front_protocol_core/auth/main.hpp`, `utility/protocol.hpp:81-144`) | the `Version` objects on both sides, the context of a connection | reflecting (reading and writing), `clear`, `operator<=` | solid's mprpc; the server and the client, which are other repositories |
| messages (`front_protocol_core/auth/main.hpp`) | none: records | reflecting, construction of a response from its request, `configure_protocol` | solid's mprpc, the server and the client, the limits of `metadata_factory` |
| data types (`utility/protocol.hpp:146-790`) | packed words, flag sets, names | setters, getters, names, cereal and solid serialisation | the server's store, the messages |
| encoding (`utility/src/encode.cpp`) | none | sha256, base64, hex | OpenSSL, boost |
| errors (`error.hpp`, `error.cpp`) | none: a table that programs of several releases share | `make_error`, `message`, the conditions | `error_` of the responses |
| build version (`version.*`) | none | | cmake |

### What is hard

Nothing in the library is multi-threaded.  What is hard to test is

* **failures nobody looks at**: libzip does its work in `zip_close`, whose result
  is dropped (`archive.cpp:118`); `zip_open` is not tested on extraction (130);
  entries, sources and directories that cannot be added or looked up are skipped
  (38, 43, 64, 137), so is metadata whose lookup fails (153); the last flush of a
  file belongs to a destructor (190);
* **what survives a call**: the destination keeps what a failed or killed call
  left, `create_directory` refuses what is there (143), and the total belongs to
  the caller (138), while creation clears its own (103);
* **other programs**: files change between `file_size` (40) and `zip_close`; the
  archive may appear between `zip_open` with `ZIP_EXCL` (87) and `zip_close`;
* **order**: extraction makes one directory level at a time, so the archive must
  list parents first although directory iterators have no order;
* **two builds on one wire**: a client may be newer than the server that reads its
  versions, and the wire has no field names; a record with flags of a later
  version passes through a program that has no names for them;
* **words**: a state, a type and 52 flags share 64 bits, `flags(_flags)` is given
  more bits than there are, an unknown flag is a shift by 255, which is undefined,
  and masks are made of literals of three widths;
* **streams**: `sha256` ends at the end of the stream only, and the last buffer
  still has bytes of the one before;
* **limits**: `metadata_factory` gives every string and container that says
  nothing else 4096 elements, on both ends of a connection; a message over a limit
  closes the connection under every other request; limits of the same data stand
  in several messages, and an upload has one for each direction;
* **answers**: requests wait together and are answered in any order, by a server
  of another release, which may forget to set `error_`; two responses have none;
* **a process that lives long**: no call of extraction closes its archive.

`PROJECT.json` lists these under `hazards`, each at its line.

### What makes each part correct

* creation: the archive that is closed has every node once, parents first, with
  its own metadata; an archive that is there is not replaced; the walk ends;
* extraction: true means every entry is there, with all of its bytes, whatever
  was there before, and that no file's writer got metadata of another; false has
  a reason; the call ends;
* both: the copy equals the source and the totals agree;
* words: an operation changes what it is named for and nothing else, in this
  program and in all that get a copy; a state keeps its name;
* encoding: decoding undoes encoding, for every length and every byte; the
  digest is that of the whole stream or there is none;
* handshake: a request that was misread is never accepted, a client that the
  server supports always is, nobody takes a missing answer for a success;
* messages: what was accepted from one client can be shown to the others; what
  one end writes the other can read; an error keeps its name, or is unknown, on
  the other side; nobody reads a success that was none.

## 2. The modules

| module | models | extends |
|---|---|---|
| `SourceTree` | the tree, entries, what an archive's order must be | |
| `ArchiveCreate` | `archive_create` | `SourceTree` |
| `TreeCopy` | what extraction is for its callers: a tree copied piece by piece | `SourceTree` |
| `ArchiveExtract` | `do_archive_extract` with `archive_extract`'s callbacks | `SourceTree`, an instance of `TreeCopy` |
| `ArchiveHandles` | the same in a process whose open files are limited | `ArchiveExtract` |
| `ArchiveRoundTrip` | both, sharing only the file at `_zip_path` | `ArchiveCreate`, an instance of `ArchiveExtract` |
| `VersionHandshake` | the first exchange on a connection | |
| `FrontSchema` | the messages: fields, limits, types, which answers which | |
| `ErrorCatalog` | the errors, their numbers, texts and conditions | |
| `FrontMessages` | requests and responses on an admitted connection | `FrontSchema`, `ErrorCatalog` |
| `PackedWord` | words as sets of bit positions, bit-fields | |
| `AppItemFields` | what `AppItemEntry` is for its users: a record | |
| `AppItemEntry` | `AppItemEntry`, the names of states and flags | `PackedWord`, an instance of `AppItemFields` |
| `FlagSets` | what flags are for their users: a set in each program | |
| `FlagWords` | the flags of `Application`, `ApplicationListItem`, `Configuration`, the fetch options | an instance of `FlagSets` |
| `StreamDigest` | the loop of `sha256(std::istream&)` | |
| `Encode` | base64 and hexadecimal | |
| `ArchiveCreateProofs`, `ArchiveExtractProofs`, `VersionHandshakeProofs`, `FrontMessagesProofs`, `AppItemEntryProofs`, `FlagWordsProofs` | theorems | the module they are about, `TLAPS` |
| `EncodingProofs` | theorems | `StreamDigest`, `Encode`, `TLAPS` |
| `RoundTripProofs` | that the copy equals the source and the totals agree | `ArchiveRoundTrip`, `ArchiveCreateProofs`, an instance of `ArchiveExtractProofs` |
| `MC...` | small instances | the module they instantiate |

Definitions whose comment begins with "Variant" are no part of a specification:
each is a plausible mistake, and substituting it for the definition it varies
makes the property named in `PROJECT.json` fail.

### ArchiveCreate

Names are nodes of a tree.  `Parent` is arbitrary but for `TreeAssumption`, an
induction principle that says that every node is reached from `Root`.  The
recursion of `zip_add_dir` is the set `iters` of directories with a live
iterator, `cur` is the innermost, and `visited` is what iterators have given.
`AddDir` is `zip_add_dir` up to its loop, `LeaveDir` the return from it,
`AddFile` and `SkipFile` are `zip_add_file`, `Open`/`OpenFails` the head of
`archive_create` and `Close` its end.  `Throw` is an exception of boost's (or
the end of the process), after which nothing is written.  `dropped` remembers
which failures the code ignored, so that properties can speak of calls without
any.  Contents of files are their sizes; metadata is a sequence, cut to
`MetaWidth` as the 16 bit length cuts it.

External, from the calls in the code: `zip_close` (`Stored`) writes the size a
file has then or had before; it puts the archive in place by a rename
(`OtherCloses` is another program's); without entries it writes nothing.

### ArchiveExtract

`xi` is the loop's index.  Each entry is one step (`SkipEntry`, `ExtractDir`,
`FailDir`, `OpenFile`, `FailFile`), reading is `ReadChunk` per round and
`EndOfFile` or `ReadFails`.  `data` has the bytes each file of the destination
has, and survives calls and `Crash`.  `reported` and `missed` are the failures
the code returns false for, and those it does not notice (`MissedKinds`).  One of
these is no loss of data: `zip_file_extra_field_get_by_id` (153) may fail, and the
writer then gets no metadata, as for an entry without any (`LookUpMeta`).
`xmeta` is what the writer of each file was given; `archive_extract`'s own writer
(187) does not use it, that of a caller may.  Properties of calls that missed
nothing therefore allow it (`OnlyMetaMissed`), and ask that the metadata is the
file's own or none.

That an entry gives no more data than its size is external: libzip wrote both.  A
damaged archive, in which the loop might write more before it returns false, is
not modelled.

`TreeCopy` is the specification that a caller needs: a call adds one directory or
changes one file at a time, anything that goes wrong may leave it there, and it
says true only if all is there or something was missed. It has no index, no
reading and no metadata. `Copy` maps `ArchiveExtract` to it: a call is busy while
it is `Active`, and excused once `missed` has more than a lookup of metadata.

`ArchiveHandles` adds the open files of a process.  No return of
`do_archive_extract` is preceded by `zip_close`, so a call that has opened the
archive keeps one (`Opens`), until the process ends (`Crash`).

### VersionHandshake

A `Version` is the sequence of its fields, the wire a sequence of values.
`ReadVersion` is one structure read by the server, with the condition the code
has (`version_ == version`, which `utility::Version` lacks); the `clear()` branch
is not modelled as a step because its condition compares two constants.
`Answer` and `Receive` are the two reflections of `InitResponse`.  External: the
server accepts if `operator<=` holds of every part, and keeps the request's core
`Version` in the context of the connection or none.

### FrontSchema, ErrorCatalog and FrontMessages

`FrontSchema` is data: the fields of every message by name, where `Small`, `Blob`
and `UploadCut` are the limits (in the code's order, not its numbers), what each
end may read and write (`MaxSizeOf`, of which only `UploadRequest` has two), the
numbers under which `configure_protocol` registers types (`CoreNumbers`,
`AuthNumbers`, `MainNumbers`; a message travels under its protocol and its number,
`TypeId`, and is read as what they stand for, `TypeOf`), which classes answer
which (`OwnResponse`; `Plain` requests are answered by `core::Response`) and which
have an `error_`. A message's body is the size of each field.

`ErrorCatalog` numbers the errors as the enumeration does.  `Later` are errors
that a later release adds, at the end as its comment asks (`error.cpp:58`); a
number that a program has no case for is shown as unknown.  `CatalogAssumption`
asks of later releases that an error is added under a name that no other has.

In `FrontMessages` a client makes requests (`Send`), the server reads and answers
them in any order (`Serve`), the client reads responses (`Receive`), the
connection is lost and made again (`Lose`, `Connect`), and a message over a limit
closes it (`Refuse`). That closing it ends every request on it, and that a
response ends the request whose header it has, is mprpc's, which is not in this
repository: the model has it so, and no property is about it. A response is
constructed from a request: that is its header (`ResponseTo`), and `error_` is -1,
a number of 32 bits that no release has an error for (`Constructed`). `Handle` is
what a handler does with it: it succeeds, or raises an error, or leaves it as it
is. External, from the names the fields have in common: the server stores what
requests give it (`Kept`, `Counted`) and shows it to others (`Shown`).

### AppItemEntry and AppItemFields

A word is the set of the positions of its 1 bits: `|`, `&` and `& ~` are set
operations, the 64 bits need no scaling down, and the provers can reason about
them. `Get` and `Put` read and assign a bit-field of the union, of which
`StateField`, `TypeField` and `FlagsField` are the three. Each accessor is an
action that first computes the word as the code does. `Shifted` is the shift by
`static_cast<uint8_t>(_flag)`. By 255 it is undefined, and any word of
`UndefinedShift`, a set that the proofs leave open, may come of it; the run has
one that touches a known flag and one beyond all. `AppItemFields` has a record per
program; `call` names the operation, so that a step of the words is compared with
the very operation it is, and not with any that has the same effect.

### FlagWords and FlagSets

`kind` says which of the four kinds of flags the words are; it never changes.
`LiteralWidths` are the widths of the literal a mask is made of (`1ULL`, `1UL`,
which is shorter on Windows, and the bitset's own), `Store` the conversion to the
member.  Programs of later versions know more flags (`Known`), after the "add
above" notes of the enumerations.  `TellNames` is `for_each_flag` on one side and
`compute_flags` on the other.

### StreamDigest and Encode

The digest is the sequence of the positions of the bytes in it. `Read`,
`ReadBreaks` and `ReadNothing` are what `std::istream::read` does with a stream
that is good, that fails under way, and that has failed; the stream may come at
any position or have failed already. `Encode` computes on bytes and six-bit groups
as Boost's iterators do; around the functions a text is encoded, for hexadecimal
perhaps cut off or in upper case, and decoded. `Base64Decoder` is enabled only if
the iterator of `base64_decode` stops, so that `DecoderStops` is about its end.

## 3. The runs

| run | instance | shows |
|---|---|---|
| `create` | 2 directories, 3 files, 3 levels, 2 calls, one ignored failure and one change of a file per call | creation's properties, `CallsReturn` |
| `extract` | 4 archives of that tree (none, full, part, files only), reads of at most 2 bytes, files of 0 to 3, 3 calls, 2 failures per call, crashes | extraction's properties, that it implements `TreeCopy`, `CallsEnd` |
| `roundtrip` | 2 directories, 2 files, 2 calls on each side | copy and totals |
| `create_test` | the same, in the order of `test_archive.cpp` | a violation, below |
| `handles_test` | 2 open files, 4 calls, no other failure | a violation, below |
| `handshake` | clients newer in any one or two fields, three servers, both services, 2 connections | the handshake's properties, `RequestsEnd` |
| `transfer` | the same | a violation, below |
| `front` | two requests of any two types, fields of 1, 3 and 4 where the limits are 1, 2 and 3, both ends of one release or either newer, one loss of the connection | what may travel, and what the client is told |
| `item_fields` | 2 programs; flags at both ends of the field and beyond it, a raw value with a state, type and flag that are unknown | the words implement `AppItemFields`, states told by name |
| `flags` | this source and one with every flag there can be; flags at 0, 31, 32 and 63 | the words implement `FlagSets` |
| `digest` | buffers of 3 bytes, streams of 0 to 7, failures anywhere | `DigestIsWhole`, `EndsUnlessBad` |
| `encode` | texts of up to 7 bytes of both signs, hexadecimal cut off anywhere or in upper case | `RoundTrip`, `DecoderStops` |

The bounds let every interesting case happen: a directory is left with a
sibling still to visit, metadata is empty, fits, and overflows, a file is empty,
one read, and two; a second call finds what the first one left, a third what two
left; two fields of two versions differ at once, which is what putting a reader
out of step and hiding it takes.  The state that a longer run would add is a
repetition of the same.

Words keep their width.  A stream of 7 bytes is two buffers and a part of one, one
of 6 exactly two; a text of 7 has every padding after a full group.

Two requests are what it takes to confuse them, or for one to close the
connection under the other.  One field of a message varies at a time; sizes are
below, at and above each limit, and lists are empty or full when the server
starts.

**Deadlock** is not checked where a bound on calls, texts or sessions lets the
system stop.

**Fairness.**  `ArchiveCreate!FairSpec` asks that a call in its walk goes on
(not that it throws, nor that a call is made); `ArchiveExtract!FairSpec` the
same of a call's steps; `VersionHandshake!FairSpec` that both ends go on with
what they have received; `FairDigestSpec` that the loop goes on, not that
the file ever fails.  These are loops of straight-line code.  `FrontMessages` has
none: the code does not say that handlers end.

**Findings.**

* `TestCheck`: `archive_create` returns true although `zip_close` failed, and
  `archive_extract` of the missing file returns true as well.
* `TrueCounts`: `do_archive_extract` never closes its archive; the call after the
  process has used up its files opens nothing and returns true.
* `VersionTransferred`: the test for a newer peer compares the constant
  `version` with itself in all four `Version` structures; a server that meets a
  newer client reads on in the middle of a structure.

Also visible in the models, without a document that says otherwise: the total
of `archive_extract` must be cleared by the caller; an extraction cannot be
repeated on the same destination (`NoResume`); two fields of the versions are not
compared (`Constants` in `VersionHandshake`); `captcha_audio` has the limit of a
name, while the picture beside it has that of an image (`Blobs` in
`FrontSchema`); a response without `error_` is a success, whatever happened
(`NoFalseSuccess` of `FrontMessages`).

## 4. The proofs

`ArchiveCreateProofs` proves the safety properties of the run `create` for every
tree, every metadata function and every bound.  The assumptions are
`TreeAssumption` (a tree) and `CreateAssumption` (types).  The inductive
invariant is `WalkInv` with the properties: the live iterators are a chain from
`Root` to `cur`, directories that are not live have given everything, and
entries and visited nodes match.  `EntriesDistinct` needs that an entry's node
was visited, `ParentsPrecede` that a visited directory has an entry, and
`TrueArchivesAll` that at `Close` nothing but `Root` is live; the last is
`WalkCoversTree`, two uses of `TreeAssumption`.

`ArchiveExtractProofs` proves those of the run `extract` for every well-formed
archive, lookups of metadata that fail included. Its invariant `CallInv` says what
a call under way knows of the entries behind it and of the file it is reading;
`Current` is the lemma that keeps entries apart.

It also proves that `ArchiveExtract` implements `TreeCopy` (`ExtractionCopies`):
under that invariant every step is one of `TreeCopy`'s or changes nothing it
speaks of. That the destination stays part of the archive's tree
(`DestinationStaysPart`) is proved of `TreeCopy`'s steps, and holds of extraction
because it implements them.

`RoundTripProofs` puts the two sides together: `TreeIsRebuilt` says that the copy
equals the source, for every tree and every interleaving, but that the writer of a
file whose metadata's lookup failed got none.  `CreateInv` adds to
creation's invariant that entries have the sizes of a source nobody has changed,
whichever size `zip_close` stores.  Extraction's invariant needs a well-formed
archive, which one made with an ignored failure need not be: `UnpackingInv` claims
it for the others.  Extraction takes the archive for constant; here it appears
while calls are made, but `ZIP_EXCL` lets it appear only where there was none, and
then no call has it open (`CreateStep`).  `RoundTripAssumption` says that no third
program makes the archive.

The totals (`TotalsAreEqual`, `TotalIsSum`) have an invariant of their own:
`PackTotals` says that the total of creation is that of the entries so far, also
while files change, and that of the archive if none did; `UnpackTotals` that the
total of extraction is that of the entries behind it, whatever archive it has
opened.  Such a total is the end of a running sum (`Running`), of which there is
one (`RunningUnique`).  That the library's sum over a set, which takes the members
in the order of `CHOOSE`, is this one is `SumIsRunning`: the recursive function it
chooses exists, and every member adds its weight wherever it stands.  These are
inductions, made without the library's theorems by the smallest number for which
the claim fails (`Smallest`).

`AppItemEntryProofs` proves that `AppItemEntry` implements `AppItemFields` for
any set of programs and any words they are given.  It rests on three facts of
bit-fields (`GetPutSame`, `GetPutOther`, `PutType`) and on `Layout`, that the
three do not overlap and fit; each operation is then one lemma, under the type
invariant alone.  Whatever word an undefined shift gives, `Put` keeps it in the
field of the flags.
`StateNamesTell` needs more than the type: every word of eight bits holds a number
(`WordIsNumber`), and no two states have the same name (`NamesDiffer`).

`FlagWordsProofs` proves the same of `FlagWords` and `FlagSets`, from
`FlagAssumption`: a program knows at least this source's flags and no more than
fit.  `LiteralsCover`, that no mask is made of a literal narrower than its
member, is what the code could get wrong.

`EncodingProofs` proves `DigestIsWhole` for every buffer and stream.
`DigestFollows` is the invariant: the digest has the positions from where the
stream was handed over to where it has been read, without a gap. For `Encode` it
proves `RoundTrip` for texts of every length, whatever bytes they have
(`EncodeAssumption`: a text is a sequence of bytes). The invariant says only that
the encoder's result is that of the text; the rest is about the functions. A byte
is the only number with its bits (`ByteOfBits`) and has those of its two digits
(`DigitBits`); a letter in upper case is read as 32 less, which shows in the upper
three bits of a second digit (`BlurredBits`) and is shifted out of a first. For
base64, the characters have the bits of the text in order (`SameBits`), none is
taken for padding (`PaddingRemoved`), and only the number of bytes that was
encoded needs so many characters (`TakenIsExact`). `DecoderMeetsEnd` is the safety
part of `DecoderStops`: the loop can always stop at the end.

`VersionHandshakeProofs` proves the five safety properties of the run `handshake`
for all builds that `BuildAssumption` allows: clients are as new as this source or
newer, and a part has other fields only with another version number. `NeverWaits`
is about the reader of a request: there is a value wherever the server reads. (A
client may run out of them, when the two ends disagree on what an `InitResponse`
has, and the connection ends.) `HandshakeInv` follows the wire: for every part
read so far, the server's copy is what the client wrote (`InStep`), or it is newer
in a field that the server compares before it is done, and there is enough on the
wire for the server to read on (`Stopped`); `Reading` says what is still on the
wire, `Answering` what the decision and the answer are. The five are consequences
of it.

`FrontMessagesProofs` proves the properties of the run `front` for any number of
requests of any types, fields of any size, any releases and any losses of the
connection.  `IInv` says: what the server keeps is below the limit of every field
that shows it (`StoreInv`); a request that was told has been told how its handler
ended (`CallFine`, `Tells`); every request
that waits has one message under way and every message one request, of a type
that answers it, that both ends can take (`WireInv`); and what has closed the
connection was over the writer's limit, in a request, a field of the server's own
or a list (`ClosedFine`).  The properties follow from it.  The facts of the
tables - no two types have a number, in the three protocols together and those of
responses included (`OneType`), every type has one, no field shows what
another of a larger limit has accepted - are lemmas by cases over `FrontSchema`.
`ConditionTravels` is the fact of the error catalogue: releases only add at the
end, so that a number means the same to both or nothing to one.  The assumptions
are `SchemaAssumption` (the limits are numbers, in their order),
`CatalogAssumption` and `MessagesAssumption` (types of the constants).

Some invariants are only a part of these proofs and no run checks them again:
`WalkInv`, `EntriesDistinct`, `CallInv`, `PackTotals`, `UnpackTotals`,
`DigestFollows`, and `TypeOK` of `FlagWords`, `StreamDigest` and
`VersionHandshake`.

Of the liveness properties the part without fairness is proved: that no call goes
on for ever with steps of its own. `WalkIsFinite`: every step of creation's walk
returns or lowers a count of the nodes not yet given and the live iterators, in
any finite tree, whatever fails and whatever other programs do meanwhile.
`CallIsFinite`: every step of extraction returns, is done with an entry, or has
less of the current one's data left. `ExchangeIsFinite`: every step of the
handshake shortens what is left of the request or is one of the last two.
`DigestAdvances` says it of sha256 on a stream that has not failed. On one that
has, no digest is ever made (`NoDigestOfFailed`), which is the second half of
`EndsUnlessBad`.

Only model-checked: the liveness properties themselves (`CallsReturn`, `CallsEnd`,
`RequestsEnd`, `EndsUnlessBad`, `DecoderStops`). What the proofs leave to the runs
is that there is always such a step to take, and that it is taken: `ENABLED` and
fairness are beyond the prover.

## 5. Not modelled, and the plan

1. Cereal: records kept by a server across a change of the class versions
   (`solid_assert` in `serialize`, `protocol.hpp:178` and after), and
   `operator==` against `computeCheck`.  The stores are the server's, and what
   cereal does with the number it is given is not in this repository.
2. The word of `StorageFetchChunk`, two bit-fields that only other programs fill,
   which is one more use of `PackedWord`; its checksum.

A tree in which a symbolic link leads to an ancestor is excluded by
`TreeAssumption`: `zip_add_dir` (`archive.cpp:71`) goes on in it until the path is
too long, and there is nothing to say of such a call but that.  The build
version's constants have no behaviour.  Compression, encryption and the zip
format belong to libzip.  The servers and clients are elsewhere.
