# blob-decoder in TLA+

`blob-decoder` says what an opaque blob of bytes is. It tries a fixed list of
detectors, scores what they answer, unwraps base64, hex and compressed payloads
and identifies what is inside, down to a depth limit. Two of its parts read
hostile input with code of their own: the identifier (`src/src/identify.rs`) and
the V8 structured-clone reader (`src/src/v8_value.rs`); `src/src/main.rs` is the
command line around them. Everything else is delegated to other crates. The
modules here model all three; TLC checks them on small instances, and TLAPS
proves the results that matter most for every value of the constants.

## The system

| component | state it keeps | operations | talks to | modules |
|---|---|---|---|---|
| V8 reader (`v8_value.rs:223-804`) | `Reader`: the cursor `pos`, the node `budget`, the `id_map` of objects; the call stack of `read_value` | `deserialize`, `deserialize_blink`, `read_value` and one handler per tag, `reserve_id`/`fill_id`, `charge`, `read_reference` | called through `detect_v8_blink` | `V8Reader`, `Ledger`, `V8Ledger` |
| Wire numbers (`v8_value.rs:409-424, 585-602, 768-776, 808-838`) | the locals of `read_varint` and `le_bytes_to_decimal` | varint, declared length, big integer to decimal | called by the reader | `Wire` |
| V8 and Blink detection (`identify.rs:325-363`, `v8_value.rs:243-296, 440-449`) | none | routes a blob that starts with 0xFF to one of the two entry points, by its third byte | calls the reader | `Framing` |
| Identifier (`identify.rs:22-135, 470-571`, `lib.rs`) | `out`, the candidates of each call in progress; the depth | `identify_with_limits`, `build_chain`, the sort, the scores | recursive; calls the detectors | `Identify` |
| Detectors (`identify.rs:159-493`) | `out` of one call | fourteen detectors and their guards | call the codecs, the reader, bounded reads | `Detect` |
| Bounded decompression (`identify.rs:144-153`) | the bytes read so far | `bounded_read` | called by gzip, zlib and Snappy | `BoundedRead` |
| Text heuristics (`identify.rs:370-457, 573-655`) | none | `try_base64`, the hex guard, `mostly_printable`, the UTF-16 and UTF-8 tests | called by the detectors | `Text` |
| Command line (`main.rs`) | the candidates to print; what was written; the exit code | source selection, `load`, `--top`, `print_human`, `--json`, exit code | calls `identify` | `Callers` |
| Summaries and labels | | wording | | not modelled |
| External codecs | | parsing in other crates | | verdicts of `Detect` |
| Fuzzing, scripts, release files | | tooling | | not modelled |

The program is sequential: there are no threads, callbacks, messages, timers or
persisted state, hence no crash recovery, retry or delivery to model. What makes
it hard is that the input decides everything:

* recursion and loops driven by the input, which must stay within limits that
  are checked in other places than where they bite (`depth`, `budget`,
  `max_output`, `max_depth`);
* order: ids are reserved before and filled after the contents of an object,
  and references to them may occur anywhere in between; protobuf is scored by
  what was found before it; a sort decides which reading a wrapper's chain
  continues with; the exit code is decided after `--top` has truncated;
* amplification: a reference clones a value that may hold clones, a sparse
  array has slots no input pays for, a gzip stream can contain itself;
* failure in the middle of any handler, of a stream, or of the output;
* guards that were written one by one and must exclude or cover each other;
* arithmetic at the boundary: the last byte of a varint, the top digit of a
  big integer, `depth + 1` and `cap + 1` at `usize::MAX`.

What makes each part correct: the reader never passes the input, never builds a
cyclic value, and what it materializes stays within its limits; numbers are the
numbers their bytes spell; detection never sends a stream to the reader that
cannot read it; the identifier ends, bounds its work and its payloads, and its
order of candidates is total; a decompressed payload is the truth about its
stream; the exit code and the printed list are the truth about the result.

## The modules

How they depend on each other (`->` is EXTENDS, `=>` implements by INSTANCE):

    V8Ledger -> V8Reader            V8Ledger => Ledger
    Callers  -> Identify
    Detect   -> BoundedRead, Framing -> Text
    Detect   => Identify

Each `...Proofs` module extends the module it is about. `Induction` holds what
four of them share: induction on the naturals, least and greatest members, and
functions defined by iteration.

### `V8Reader`

The whole reader: both entry points, every tag and every error. A recursive
call of `read_value` is a frame on `stack`, with the `depth` its handler was
called with; `Depth` is what the handler passes on to the next call. `pos`, `budget` and `id_map` are the fields of `Reader`; `phase` is
where the code is between two tags. One action is one handler, or the part of a
handler between two calls of `read_value`: `BeginLoop`, `BeginDenseArray`, ...
start a frame (with its `reserve_id` and charges), `Continue` calls
`read_value`, the `Take...` actions use what it returned, the `End...` actions
read the end tag and the trailing counts, fill the id and return. The failing
reads are outcomes of the same actions, or `...Truncated`, `TagVarintBad`, ...
where many handlers fail alike.

The bytes of the input are chosen as they are consumed. This is exact, since no
handler goes back, and it covers every input of at most `InputLen` bytes: an
input that ends is the outcome "truncated", possible at every read. A decoded value is
kept by what the limits and the callers distinguish: whether it can be a key,
an array index or a regexp source, its number of nodes (`count_nodes`), the
nesting levels at which it has values with parts (an object, an array, a map, ...;
a number, a string or a hole has none, whether a tag or a sparse array made it),
its bytes, and whether a resolved reference is part of it. Bytes are those
the decoded value holds, not those on the wire: `Decoded` is what a string of
any encoding becomes, lossy decoding included, `BigIntText` a decimal numeral,
`KeyText` the text of a property key, made of a string, an `Int` or a `Double`.
The varint is a value from `Varints` and a length from `1 .. VarintMax`.

### `Ledger` and `V8Ledger`

`Ledger` is what the reader promises of memory, with no tag, byte or depth in
it: a node is paid for before it exists; objects begin in the order of their
ids and end in the opposite order, with no more nodes than were paid since they
began; only a finished object is shared, and a share pays for all of it again; the call ends with
a value that was paid for or with a refusal. `V8Ledger` is the
refinement mapping: what the budget has lost (`Spent`), the nodes of each id
(`Ids`), the frames as open objects (`Calls`), the phase as an outcome.

### `Wire`

`read_bigint` from its varint to its decimal digits, loop by loop. `weight` is
`2^shift`; the payload of a byte beyond the width is lost, as `<<` loses it.
The size of a varint byte (`GroupSize`), the width (`Modulus`) and the cap are
parameters; a magnitude may be any bytes from `Bytes`.

### `Identify`

`identify_with_limits`, one stack frame per nested call. A blob is its size and
its `lead`, the class of its content: it decides which detectors can answer
together (a gzip magic excludes a JSON parse, hex text is also base64 text). A
text that begins with "80" has a valid zlib header, so one blob may decode as a
stream, as base64 and as hex, and a call makes up to three others.
What depends on the rest of the bytes (does the archive decompress, is
the text printable, does the protobuf parse) is chosen when the detector runs,
and so is the lead of a payload when it is identified. A candidate is the
sequence of its links: `Candidate.inner.best` is its tail. Depths are `usize`:
`depth + 1` is taken modulo `Width`, as in a build without overflow checks.

### `Callers`

Who calls the identifier. `main`: arguments (`Usage`, `Parse`), `load` and its
failures, the call at depth 0, `truncate`, the writes of the human and the JSON
form one by one, each of which may find the output closed, and the exit code.
And programs that call the public `identify_with_limits` at a depth of their
own choosing. The steps of the identifier are those of `Identify`.

### `Text`, `Framing`, `BoundedRead` and `Detect`

`Text` and `Framing` are the byte-level guards as operators on sequences of
bytes: `try_base64`, hex, UTF-16LE, UTF-8 and `mostly_printable`;
`detect_v8_blink` with the headers, envelopes and trailers of the two entry
points. The alphabets, UTF-8 and UTF-16 validity and the base64 crate's rule on
left-over bits belong to libraries and are marked external; they are
modelled as the code relies on them.

`BoundedRead` is `bounded_read` piece by piece: a decoder gives its stream in
pieces of any size, and learns that the stream is corrupt only when it is asked
for more than there is; `take` stops asking at `cap + 1`, computed modulo
`Width`.

`Detect` composes them: one call of `identify_with_limits` on the bytes of a
blob, all fourteen detectors in their order, at the depth cap, where
`build_chain` identifies no payload. What other crates say of the blob (does the
plist, JSON, protobuf or V8 value parse; how long is the stream, is it sound) is
chosen once, from what the bytes allow. `Detect` is a refinement of `Identify`:
`LeadOf` computes the lead from the bytes and verdicts, the first guard that
holds, and each call must be a behaviour of `Identify`'s tables. So what
`Identify` assumes of the detectors is checked against their guards, and, for
blobs of any length, proved. `SizesAssumption` says that the bound `Sizes` is
wide enough for the blobs at hand: it holds their lengths, what their texts decode
to, and whatever a decompression may keep. Of what `serde_json` accepts the
model knows only that it opens with a bracket that is closed, is UTF-8, and has
no control characters but whitespace.

### `MC...` modules and fault variants

`MCV8Reader`, `MCWire`, `MCCallers` and `MCDetect` name the bounds and hold
the properties that quote a document, each of which a run finds violated; the
others stand in the modules they are about, with their reference definitions:
`IsBase64` in `Text`, `V8Stream` and `BlinkStream` in `Framing`, the numbers that
digits stand for in `Wire`, `Tree` in `Identify`, `Total` in `V8Reader`. An
operator marked `Fault:` is a wrong version of the operator that follows it (a
dropped check, a missing reset, a swapped order). No specification uses
one; each states the mistake in the code that a property is there to catch, and
with it in place TLC finds that property violated.

## The runs

Passing runs:

| run | bounds | states | what it shows |
|---|---|---|---|
| `V8Reader.cfg` | inputs up to 11 bytes, all classes of tags, depth 2, 4 nodes, varints 0, 1, 4, 5 of one or two bytes | 460 000 | every handler and every error from both entry points: ids (`OpenIds`, `SlotsWrittenOnce`), limits (`NodesCapped`, `NestingCapped`, `ClonesCapped`, `PayloadRead`), termination (`StepsPaid`, `Terminates`), and `KeepsLedger`: the reader implements `Ledger` |
| `Wire.cfg` | 2-bit groups in a 5-bit integer, magnitudes up to 3 bytes | 20 000 | `NoLeadingZero`, `VarintSpelled`, `RendersMagnitude`, and `StepsPaid`: the steps of `read_bigint` are at most quadratic in the length |
| `Callers.cfg` | depth cap 2, called at 0, 1, 2 and at the largest depth (`Width` 8), sizes 0, 4, 16, 20, three leads, `--top` 0, 2 or none | 1 600 000 | the identifier through its callers: `ChainBounded`, `WorkBounded`, `StrictlySorted`, `ProtobufYields`, `PayloadsBounded`; the command line: `ExitTells`, `ReportsBest` |
| `Detect.cfg` | 27 000 blobs, every verdict, streams up to two bytes past the cap of 3 | 1 170 000 | what each detector claims: `Base64Exact`, `StreamsClaimed`, `RoutingLossless`, `ReadTruthful`, `ReadingsOrdered`; and `ImplementsIdentify` |

Why the bounds are enough. *V8Reader*: depth 2 has a call, a nested call and
one past the limit; the varints 0 and 1 are ids and lengths within the caps, 4
is at the cap, 5 past it. As numbers, 4 and 5 lie on both sides of `IntLimit` (5 here,
2^63 in the code), so an unsigned varint can become a negative `Int`; a numeral has up to
`IntDigits` = 2 digits, the text of a `Double` up to `DoubleText` = 6 bytes (327
in the code), and a byte of input becomes at most `Growth` = 3 bytes (37 in the
code, from a `Double` key). 11 bytes hold an envelope, a header and a shared
object with several references to it, or a sparse array with a pair and its two
counts, and 4 nodes are too few for them, so both outcomes of every charge
occur. *Wire*: three groups of two bits pass the width of five,
the last with one bit too many, as the tenth byte does with 64 bits; the bytes
0, 1, 10, 39, 255 make a zero, a carry of one, two and three digits, and the
magnitudes whose digits become zero below the top. *Callers*: a depth cap of 2
has an outer call, a nested call and a payload at the cap; called at 7 of a
`Width` of 8, `depth + 1` wraps and adds a level. The sizes are zero, at
`MaxOutput`, at `MaxInput` (and the size of a UUID), and past both. The leads are
text that decodes twice (as hex and base64), a zlib header, which texts that
begin with "80" share, so that a blob unwraps three ways and may contain
itself, and binary; the two runs that look for a disagreement use the plain text
as well. *Detect*: the blobs are families around each guard: every tail of up to five bytes over the six
classes of bytes of a serialized stream; streams of both serializers
with an object or a string for a value, behind a trailer too; text and surrogates in UTF-16LE; each
kind of UTF-8 byte after a prefix that makes the printable share cross 90
percent; base64 with padding, blanks and both alphabets; hex; each magic, cut
and whole; texts that begin with "80", a UUID among them; a UUID, sixteen bytes, and texts past `MaxInput`. Streams are
shorter than, as long as, one and two bytes past the cap, sound and corrupt.

Runs that find a disagreement between the code and what is written about it:

| run | what is written | what the code does |
|---|---|---|
| `V8ReaderNesting.cfg` (`NestingWithinMaxDepth`) | `max_depth` is the "Maximum nesting depth of arrays/objects/maps/sets" (`v8_value.rs:146`) | a reference brings in a whole value at the depth it is met; sets of references nest deeper |
| `V8ReaderPayload.cfg` (`PayloadWithinCap`) | a clone is charged "so N references to a large object cannot amplify memory past the cap" (`v8_value.rs:761-762`) | the charge counts an array buffer as one node, whatever its bytes |
| `WireOverflow.cfg` (`VarintOverflowRejected`) | `BadVarint`: "would overflow `u64`" (`v8_value.rs:121`) | the surplus bits of the tenth byte are dropped and the varint is accepted |
| `DetectFallback.cfg` (`BlinkFallsBack`) | `deserialize_blink` "Falls back to a raw V8 read when no Blink envelope is present" (`v8_value.rs:231`) | a raw stream begins with the envelope's own byte, so its header is consumed as an envelope |
| `DetectBom.cfg` (`MediumOpensAsV8`) | "Only report a failed decode when the payload actually opened as V8 (a known value tag right after the version header)" (`identify.rs:345-347`) | the third byte is tested, which for a UTF-16LE text with a byte-order mark belongs to a two-byte version; texts that begin with a tag letter are claimed as V8 |
| `DetectMaxOutput.cfg` (`CappedTellsMore`) | `bounded_read` returns "whether the stream was *capped* (had more to give)" (`identify.rs:141-142`) | with `max_output` = `usize::MAX`, `cap + 1` overflows: it panics with overflow checks, reads nothing and says "not capped" without |
| `CallersMaxOutput.cfg` (`DecodedWithinMaxOutput`) | `max_output` is the "Maximum bytes to hold from a single decompression/decode step" (`lib.rs:201-203`) | base64 and hex decode without it; only `max_input` bounds them |
| `CallersExit.cfg` (`ExitTwoMeansUnknown`) | "`2` nothing matched (Unknown)" (`main.rs:5-6`) | the exit code is decided after `--top`; `--top 0` exits with 2 for an identified blob |

Observed while modelling, and not made into runs: base64 text of
hex text of opaque bytes scores Medium, since its payload's best reading is a
wrapper; a Blink stream whose version needs two varint bytes is not routed to
the Blink reader (`RoutingLossless` is stated for one-byte versions);
`Candidate::inner` is not `None` at the depth cap, as its comment says, but an
`Unknown` link; a `max_depth` of 0 acts as 1; `NodeCap` carries no offset,
unlike what the comment of `V8Error` says of every arm.

## Fairness

`V8Reader` has weak fairness of its whole next-state relation and nothing else;
`Ledger` promises the end it implies as it stands. The reader is a call of a sequential function: nothing can
preempt it, it takes its next step until it returns, and after that it only rests.
The choices within the relation are the input's, and none of them is assumed fair:
`Terminates` and the end of `Ledger` say that whatever the input is, the call
returns. The other modules are run for safety and as a refinement, and state no
fairness; that they end is, for `Wire`, the variant of `StepsPaid`, and for the
identifier the bound of `WorkBounded`, neither of which needs any.

## What is proved

`V8ReaderProofs` proves, for every limit, input length, set of tags and set of
varints, under `ReaderAssumption` (the constants are naturals, a varint has at
least one byte, `Varints` are naturals, `None` is no value) and, for the payload,
`GrowthAssumption` (`Growth` is at least the text a byte of a string, an `Int` or
a `Double` may become):

* `TypeCorrect`: `Spec => []TypeOK`. The cursor stays within the input and the
  budget never goes below zero.
* `OpenIdsCorrect`: the unfilled ids are those of the calls in progress, in
  their order. So a reference never resolves to an enclosing object.
* `NodesCappedCorrect`: a returned value never has more nodes than were
  charged, clones, holes and overwritten elements included.
* `NestingCappedCorrect`: without references, no value with parts lies more than
  `max_depth` levels deep, so a node without parts at most one level deeper: that
  is where a sparse array at `max_depth` has its holes. Since each frame has
  the depth that its handler was given, the theorem depends on every handler
  passing on `depth + 1`.
* `PayloadReadCorrect`: without references, a value carries, as decoded, at most
  `Growth` bytes of text and buffers for each byte that was read.
* `ClonesCappedCorrect`: the clones that `id_map` keeps have together no more
  nodes than `max_depth + 1` times what was charged.
* `WrittenOnce`: `Spec => SlotsWrittenOnce`, the action property of `fill_id`.
* `StepsPaidCorrect`: `Spec => StepsPaid`, the variant behind `Terminates`:
  three steps for each byte not yet read, one for each call in progress, and
  what the phase allows before the next byte go down with every step. So
  `deserialize` runs at most `3 * InputLen + 1` handlers, whatever counts and
  lengths the input declares. That it does not stop before it returned is the
  absence of deadlock, which TLC checks.

The first four come from one inductive invariant, `IInv`, which needs more than the
properties say. `ControlInv` says what each kind of frame waits for and bounds
the stack. `NodesCapped` is not inductive: a value is built from
frames, so `NodesPaid` says for each frame that the nodes it has collected were
paid for between its own start (`base`) and the start of the call it is waiting
for, the last one up to now; a return merges two adjacent intervals. The slots
of a sparse array are summed by `upto`, a running sum that is kept with the
frame because a sum over the slots would be an induction over data; `SlotSums`
says that it is one, which is what an overwritten slot needs. `FrameNesting` is
`NestingCapped` for what a frame has collected. The module has a lemma on each
operator (`Adopt`, `Store`, `ValueOf`, `NewFrame`, the id map), one lemma per
way a step touches the stack (`Opens`, `Returns`, `Updates`, `Closes`), and one step
per action.

`PayloadRead` and `ClonesCapped` are about sums: of the bytes in all frames, and
of the nodes in all filled ids. `NextShape` says that every step is one of six
shapes (it rests, gives a leaf or a copy, opens a frame, updates or closes the
one on top), so each sum is followed through six cases and not thirty actions.
The bytes are an account: what the frames weigh, and the value held, never
exceed `Growth` times `pos`; a value with a reference in it weighs nothing, and since what an id
holds is always an object, no reference can be a key, whose bytes a frame would
take without its mark. The clones are paid level by level: one node is charged
once, and lies in at most one clone for each call around it. So the clones are
split by the level of the call that filled them (`Levels`), and those of one level,
which were filled by different calls, have together no more nodes than the calls of
that level that returned have spent (`Room`): what was charged before the call in
progress at that level began, or up to now if there is none.

`V8LedgerProofs` proves `LedgerKept`: `Spec => L!Safety`, the safety half of the
refinement. The reader's initial states map to the ledger's, and, from the
invariant above, every step of every handler maps to a step of the ledger or to
none. It also needs `NoneAssumption` (an unfilled slot is no number).

`WireProofs` proves, under `WireAssumption`, `TypeCorrect` (a carry stays below 256,
so `d * 256 + carry` is far from the width of a `u32`, and digits are decimal)
and `NoLeadingZeroCorrect`: the induction that the comment at
`v8_value.rs:822-832` sketches and samples. The invariant behind it is `TopInv`:
between bytes the top digit is not zero unless it is alone; inside a byte it
can become zero only if it leaves a carry, and the last digit pushed is a
carry that was below ten. So the final loop never fires, for a magnitude of any
length. `VarintCorrect` and `RenderingCorrect` say what the numbers are: a varint
is what its groups spell, as far as the width reaches, and the text is the decimal
numeral of the magnitude. Numerals are recursive functions of positions (`Above`);
`VarintInv` and `ValueInv` are the invariants of the loops, the latter with the
digits above `place` still to be multiplied; what a multiplied, pushed or stripped
digit does to a numeral are lemmas by induction. `StepsPaidCorrect` is a variant for
the nested loops: the digits still to be visited for the bytes not yet folded in, when
each of them may add three more (`Folding`), a product of two numbers, hence
quadratic. It rests on a carry that stays below a byte, which is `TypeOK`.

`IdentifyProofs` proves, under `IdentifyAssumption` (limits and depths are
`usize`, sizes naturals), `TypeCorrect`, `ChainBoundedCorrect`,
`StrictlySortedCorrect`, `ProtobufYieldsCorrect` and `PayloadsBoundedCorrect`,
for every limit, width, size and depth of call. `ProtobufYields` is about ranks 2
and 3 only: bare text shares the rank of protobuf, and labels order the two. The invariant `StackInv` says of
every call in progress what a result must have later: the chains it holds fit
its levels, their payloads are held by the cap or the outermost blob, no kind
occurs twice and each comes from a detector that had its turn (`Slot`), and
protobuf, if it is there, is the last; between two calls the levels go down by
one, which is where the wrapped depth is dealt with. The head of the sort is a
`CHOOSE`; `BestExists` shows that there is one, by mapping the comparator to a
number (`Key`) and taking the least, so the proof does not rest on the detectors.

`CallersProofs` carries these over to the specification that run `callers`
checks: `CallersBounded` (`ChainBounded`, `PayloadsBounded`) and
`CallersOrdered` (`StrictlySorted`, `ProtobufYields`) of every call that `main`
or a program makes. It adds:

* `WorkBoundedCorrect`: the calls made, and those that the calls in progress may
  still owe, fit a ternary tree as deep as the chains are long. A call owes, for
  each of the detectors that can unwrap its lead and had no turn yet, the tree
  of one level less (`Owes`); `WorkInv` adds them up along the stack.
* `ReportsBestCorrect`: the candidates that sort before one are its place, two of
  them never share a place, and so each place of `Sorted` is taken; what is
  reported is the beginning of it.
* `ExitTellsCorrect`: `Unknown` sorts after every other kind, so the head of the
  report tells whether anything was read; with the phases of `main` the exit
  code tells the rest.
* `CallersTypeCorrect`: `CallersTypeOK`.

`BoundedReadProofs` proves `HeldWithinCap` (never more than `max_output + 1`
bytes, for streams of any length in any pieces) and `ReadTellsTheTruth`
(`ReadTruthful`), the latter from `MaxOutput + 1 < Width`: at the largest cap it
is false, as run `unlimited_output` shows.

`DetectProofs` proves, for all blobs, of any length, and under the assumptions of
`Detect`:

* `RoutingCorrect`: where the version has one byte, and whatever `read_value`
  makes of the value, the third byte chooses the reader that decodes the blob if
  one does, and never do both.
* `DecompressionCorrect`: `ReadTruthful` for the decompressors of a whole call,
  from the same assumption on the cap.
* `DetectTypeCorrect` and `ReadingsOrderedCorrect`: `Steps` reduces every action
  to what it does to the candidates, `SaysFits` gives each detector's candidate
  its turn, and the order follows from the lemmas of `IdentifyProofs`, which
  `DetectProofs` instantiates with the mapped variables.
* `StreamsClaimedCorrect`: an envelope is skipped with all of its trailers, so a
  stream of either serializer whose value begins with any of the 27 tags the reader
  knows, behind a one-byte version, is claimed under its kind: High exactly when
  the value decodes.
* `Base64ExactCorrect`: the guards of `try_base64` accept exactly the groups of
  RFC 4648. Both directions go through `Splits`: where the body ends and the
  padding begins.
* `IdentifyImplemented`: `Spec => ImplementsIdentify`, again below the largest
  cap, since a decompression that reads nothing claims an empty payload.

The last is the refinement, and its heart is that the guards exclude each
other. A blob *opens* with the first of its bytes that is no whitespace (`Opens`); it opens with one byte at
most, and each lead is
made by other opening bytes, which separates all guards but a few. A UUID, hex or
base64 that shares its opening with a magic is told from it by a later byte.
UTF-8 and UTF-16LE are separated by counting: at least a quarter of the bytes of
UTF-16LE text without a mark are NUL, at most a tenth of the bytes of UTF-8 text
(`ManyNuls`, `FewNuls`). `Known` is the invariant the steps rest on: the lead is
what the bytes make it, the read is truthful, and a UTF-16LE reading was one.
`OfferMaps` and `SilenceMaps` then say that a detector may push what `Identify`
lets it and be silent where it lets it; the rest is one lemma per detector. The
pieces of a decompression are stuttering steps.

Induction is used as an instance on sets: what is proved for every number is given
as the set of numbers it holds for (`SetInduction`), which follows from the
well-foundedness of the naturals; so no theorem with an operator parameter is
needed.

Only model-checked: liveness, which is out of the prover's reach (`Terminates` of
the reader and the liveness half of `KeepsLedger`). Its safety core is proved:
`StepsPaid`.

## Not modelled

* Summaries, labels, citations, previews and `head_hex` are wording that no
  state depends on. `V8Value::summary` and `describe_json` recurse into a
  decoded value, but decide nothing.
* The codecs (`flate2`, `snap`, `plist`, `base64`, `hex`, `uuid`, `serde_json`,
  `protobuf-forensic-core`, `clap`) are third-party: what they say is chosen,
  within what the bytes allow. Of `uuid` only the hyphenated form is modelled,
  not the simple, braced and URN forms; `str::trim` is modelled with ASCII
  whitespace.
* The error arm of `to_string_pretty` in `main`: nothing in a candidate can
  fail to serialize.
* Fuzz targets, scripts and release files: harnesses and tooling. The fuzz
  target's call of `identify_with_limits` is the "library" phase of `Callers`.
* `usize` and `u64` are unbounded except where they can matter: in `Wire`, the
  depths of `Identify` and the limit of `BoundedRead`. A build with overflow
  checks panics where the model wraps.

## Plan

1. *A variant* for the walk of `Identify`, as `StepsPaid` is for the reader and for
   `Wire`.
2. *Detection below the depth cap*: `Detect` refines `Identify` for one call; the
   nested calls are `Identify`'s own.
3. *Operators*: which texts `try_hex` and the UTF-8 test let through, against
   definitions of their own, as `Base64Exact` does for base64.
