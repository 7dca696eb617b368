------------------------------- MODULE Detect -------------------------------
(***************************************************************************)
(* One call of identify_with_limits of src/src/identify.rs on the bytes of *)
(* a blob, at the depth cap, where no payload is identified: the guards of *)
(* the detectors as they are in the code, the decompressors piece by piece *)
(* through bounded_read.  What the parsers of other crates say of the blob *)
(* is chosen once, from what its bytes allow.                              *)
(***************************************************************************)
EXTENDS BoundedRead, Framing

CONSTANTS
  MaxInput,    \* Limits.max_input
  Blobs,       \* bound: the blobs
  Sizes        \* bound: their sizes and those of their payloads

ASSUME DetectAssumption ==
  MaxInput \in Nat /\ Blobs \subseteq Seq(Byte) /\ Sizes \subseteq Nat /\ Width > 1

ASSUME SizesAssumption ==
  /\ 0 .. MaxOutput \subseteq Sizes
  /\ \A b \in Blobs :
       /\ Len(b) \in Sizes
       /\ TryBase64(b) /\ Len(b) <= MaxInput => Base64Len(b) \in Sizes
       /\ TryHex(b) /\ Len(b) <= MaxInput => HexLen(b) \in Sizes

VARIABLES
  blob,
  codec,    \* what the crates' parsers say of the blob
  lead,     \* history: what Identify knows of its bytes
  next,     \* the detector whose turn it is, as in Identify
  out       \* the candidates

vars == <<stream, read, blob, codec, lead, next, out>>

(* Chosen once. *)
input == <<blob, codec, lead>>

-----------------------------------------------------------------------------
(* Detect as an implementation of Identify.  The lead of a blob, which     *)
(* Identify takes for granted, is what its bytes and parsers make it.      *)

LeadNames == {"bplist", "xml", "gzip", "zlib", "snappy", "json", "uuid", "v8", "blink",
              "ascii", "bom", "text", "binary"}

BplistMagic == <<98, 112, 108, 105, 115, 116>>                 \* bplist
PlistWord == <<112, 108, 105, 115, 116>>                       \* plist
XmlHeads == {<<60, 63, 120, 109, 108>>,                        \* <?xml
             <<60>> \o PlistWord,                              \* <plist
             <<60, 33, 68, 79, 67, 84, 89, 80, 69>>}           \* <!DOCTYPE
SnappyMagic == <<255, 6, 0, 0, 115, 78, 97, 80, 112, 89>>

Contains(s, word) ==
  \E i \in 1 .. Len(s) - Len(word) + 1 : SubSeq(s, i, i + Len(word) - 1) = word

TrimStart(b) ==
  LET ink == {i \in DOMAIN b : b[i] \notin Whitespace}
  IN IF ink = {} THEN <<>> ELSE SubSeq(b, Min(ink), Len(b))

XmlPlist(b) ==
  LET head == TrimStart(b)  probe == SubSeq(head, 1, Min({Len(head), 1024}))
  IN (\E h \in XmlHeads : StartsWith(probe, h)) /\ Contains(probe, PlistWord)

Compressed(b, d) ==
  CASE d = "Gzip" -> StartsWith(b, <<31, 139>>)
    [] d = "Zlib" -> /\ Len(b) >= 2 /\ b[1] % 16 = 8 /\ b[1] \div 16 <= 7
                     /\ (256 * b[1] + b[2]) % 31 = 0
    [] d = "Snappy" -> StartsWith(b, SnappyMagic)

JsonRoot(b) == Len(Trim(b)) > 0 /\ Trim(b)[1] \in {123, 91}    \* { [

(* str::trim, and the hyphenated form of uuid::Uuid::try_parse *)
Uuid(b) ==
  LET s == Trim(b)
  IN Len(s) = 36 /\ \A i \in 1 .. 36 :
                      IF i \in {9, 14, 19, 24} THEN s[i] = 45 ELSE s[i] \in HexDigits

Done == 15
Returned == 16

Stack == IF next = Returned THEN <<>>
         ELSE <<[size |-> Len(blob), lead |-> lead, depth |-> 0, next |-> next,
                 out |-> out, len |-> 0, capped |-> FALSE]>>

Result == IF next = Returned THEN out ELSE {}

I == INSTANCE Identify WITH MaxDepth <- 1, Leads <- LeadNames,
                            Depths <- {0}, stack <- Stack, result <- Result, calls <- 1

LeadOf(b, c, z) ==
  IF StartsWith(b, BplistMagic) THEN "bplist"
  ELSE IF XmlPlist(b) THEN "xml"
  ELSE IF Compressed(b, "Gzip") THEN "gzip"
  ELSE IF Compressed(b, "Zlib") /\ (z.sound \/ z.len > MaxOutput) THEN "zlib"
  ELSE IF Compressed(b, "Snappy") THEN "snappy"
  ELSE IF c.json THEN "json"
  ELSE IF Uuid(b) THEN "uuid"
  ELSE IF HasBom(b) /\ Len(b) >= 4 THEN "bom"
  ELSE IF DetectV8Blink(b, c.v8).kind = "V8Serialized" THEN "v8"
  ELSE IF DetectV8Blink(b, c.v8).kind = "BlinkSerialized" THEN "blink"
  ELSE IF TryBase64(b) \/ TryHex(b) THEN "ascii"
  ELSE IF Utf8Text(b) THEN "text"
  ELSE "binary"

-----------------------------------------------------------------------------
(* What the parsers can say, and what a decompressor can find: it is asked *)
(* only where the guards let it.  JSON that opens a bracket closes it, and *)
(* has no controls but whitespace; no protobuf key has wire type 6 or 7.   *)

JsonMayParse(b) ==
  /\ JsonRoot(b) /\ Len(Trim(b)) >= 2 /\ ValidUtf8(b)
  /\ \A i \in DOMAIN b : b[i] < 32 => b[i] \in Whitespace

ProtobufMayParse(b) == Len(b) > 0 /\ b[1] % 8 \notin {6, 7}

Verdicts(b) ==
  [plist : IF StartsWith(b, BplistMagic) \/ XmlPlist(b) THEN BOOLEAN ELSE {FALSE},
   json : IF JsonMayParse(b) THEN BOOLEAN ELSE {FALSE},
   v8 : IF At(b, 0) = VersionTag THEN BOOLEAN ELSE {FALSE},
   protobuf : IF ProtobufMayParse(b) THEN {"none", "scalars", "structured"} ELSE {"none"}]

Streams(b) ==
  IF \E d \in {"Gzip", "Zlib", "Snappy"} : Compressed(b, d)
  THEN [len : 0 .. MaxOutput + 2, sound : BOOLEAN]
  ELSE {[len |-> 0, sound |-> TRUE]}

-----------------------------------------------------------------------------
(* identify_with_limits, detector by detector *)

Init == /\ blob \in Blobs /\ codec \in Verdicts(blob) /\ stream \in Streams(blob)
        /\ lead = LeadOf(blob, codec, stream)
        /\ read = Idle /\ next = 1 /\ out = {}

Turn(d) == /\ next < Done /\ I!Detectors[next] = d
           /\ next >= I!Heuristics => Len(blob) <= MaxInput

(* push(&mut out, ...) *)
Pushes(c) == next' = next + 1 /\ out' = out \cup c /\ UNCHANGED <<stream, input>>

Answers(d, guard, c) ==
  Turn(d) /\ Pushes(IF guard THEN {c} ELSE {}) /\ UNCHANGED read

Parsed(ok) == IF ok THEN I!High ELSE I!Medium

DetectBinaryPlist == Answers("BinaryPlist", StartsWith(blob, BplistMagic),
                             I!Leaf("BinaryPlist", Parsed(codec.plist)))

DetectXmlPlist == Answers("XmlPlist", XmlPlist(blob), I!Leaf("XmlPlist", Parsed(codec.plist)))

(* detect_gzip, detect_zlib, detect_snappy *)
NotCompressed == \E d \in {"Gzip", "Zlib", "Snappy"} :
  Turn(d) /\ ~Compressed(blob, d) /\ Pushes({}) /\ UNCHANGED read

BeginDecompression == \E d \in {"Gzip", "Zlib", "Snappy"} :
  Turn(d) /\ Compressed(blob, d) /\ Open /\ UNCHANGED <<input, next, out>>

Decompression ==
  (ReadPiece \/ ReadFails \/ ReadEnds) /\ UNCHANGED <<input, next, out>>

(* build_chain at the depth cap. *)
Decompressed == \E d \in {"Gzip", "Zlib", "Snappy"} :
  /\ Turn(d) /\ read.state = "ok" /\ read' = Idle
  /\ Pushes({I!Wrapper(d, read.held, read.capped, I!DepthCapped)})

(* Two bytes make gzip, ten Snappy, but a zlib header is a coincidence.    *)
NotDecompressed == \E d \in {"Gzip", "Zlib", "Snappy"} :
  /\ Turn(d) /\ read.state = "failed" /\ read' = Idle
  /\ Pushes(IF d = "Zlib" THEN {} ELSE {I!Leaf(d, I!Medium)})

DetectJson == Answers("Json", codec.json, I!Leaf("Json", I!High))

DetectUuidString == Answers("UuidString", Uuid(blob), I!Leaf("Uuid", I!High))

DetectV8 ==
  LET claim == DetectV8Blink(blob, codec.v8)
  IN Answers("V8", claim # NoClaim, I!Leaf(claim.kind, Parsed(claim.score = "High")))

DetectBase64 == Answers("Base64", TryBase64(blob),
                        I!Wrapper("Base64", Base64Len(blob), FALSE, I!DepthCapped))

DetectHex == Answers("Hex", TryHex(blob),
                     I!Wrapper("Hex", HexLen(blob), FALSE, I!DepthCapped))

DetectUuidBytes == Answers("UuidBytes", Len(blob) = 16, I!Leaf("Uuid", I!Low))

DetectUtf16Le == Answers("Utf16Le", Utf16Text(blob),
                         I!Leaf("Utf16Le", IF HasBom(blob) THEN I!Medium ELSE I!Low))

DetectUtf8Text == Answers("Utf8Text", Utf8Text(blob), I!Leaf("Utf8Text", I!Low))

DetectProtobuf ==
  Answers("Protobuf", codec.protobuf # "none",
          I!Leaf("Protobuf", I!ProtobufScore(codec.protobuf = "structured", out)))

SkipHeuristics == /\ next = I!Heuristics /\ Len(blob) > MaxInput /\ next' = Done
                  /\ UNCHANGED <<stream, read, input, out>>

Return == /\ next = Done /\ next' = Returned
          /\ out' = (IF out = {} THEN {I!Unknown} ELSE out)
          /\ UNCHANGED <<stream, read, input>>

Stopped == next = Returned /\ UNCHANGED vars

Next ==
  \/ DetectBinaryPlist \/ DetectXmlPlist
  \/ NotCompressed \/ BeginDecompression \/ Decompression \/ Decompressed \/ NotDecompressed
  \/ DetectJson \/ DetectUuidString \/ DetectV8 \/ DetectBase64 \/ DetectHex
  \/ DetectUuidBytes \/ DetectUtf16Le \/ DetectUtf8Text \/ DetectProtobuf
  \/ SkipHeuristics \/ Return \/ Stopped

Spec == Init /\ [][Next]_vars

-----------------------------------------------------------------------------
(* Properties *)

Answered(d) == next > d

(* The call keeps its types, what bounded_read holds included, and reads   *)
(* only where a decompressor has its turn.                                 *)
TypeOK ==
  /\ ReadTypeOK /\ next \in 1 .. Returned
  /\ blob \in Seq(Byte) /\ codec \in Verdicts(blob) /\ lead \in LeadNames
  /\ out \subseteq Seq(I!Link)
  /\ read.state # "idle" => next \in 3 .. 5 /\ Compressed(blob, I!Detectors[next])

(* identify_with_limits on every class of content: no kind is read twice,  *)
(* the sort has one outcome, and protobuf yields to what came before it.   *)
ReadingsOrdered == I!StrictlySorted /\ I!ProtobufYields

(* detect_v8_blink on the blob at hand. *)
RoutingLossless == RoutesLosslessly(blob, codec.v8)

(* try_base64: the guards let exactly the texts through that encode bytes, *)
(* wherever whitespace stands, and each byte of the payload is three       *)
(* quarters of its text.                                                   *)
Base64Exact ==
  Answered(9) /\ Len(blob) <= MaxInput =>
    LET text == Cleaned(blob)
        payload == (3 * Len(text)) \div 4 - Cardinality({i \in DOMAIN text : text[i] = Pad})
        found == {c \in out : c[1].kind = "Base64"}
    IN IF IsBase64(text) THEN \E c \in found : c[1].len = payload ELSE found = {}

(* Every stream whose value begins with a tag the reader knows, behind a   *)
(* version of one byte and any number of trailers, is claimed under its    *)
(* own kind: High when its value decodes, and Medium when it does not,     *)
(* because it is cut short, is malformed or is a host object.              *)
StreamsClaimed ==
  Answered(8) =>
    \A v \in ValueTags :
      LET decodes == v \in BareTags \/ (codec.v8 /\ v # HostObject)
          score == IF decodes THEN I!High ELSE I!Medium
      IN /\ V8Stream(blob, v) => I!Leaf("V8Serialized", score) \in out
         /\ BlinkStream(blob, v) => I!Leaf("BlinkSerialized", score) \in out

(* Identify's tables of which detectors can answer together, with which    *)
(* scores and payloads, are what the guards on the bytes allow: each call  *)
(* on a blob is a behaviour of Identify.  The tables say, among others,    *)
(* that no text is UTF-8 and UTF-16LE without a BOM, that a blob that      *)
(* decodes as JSON or base64 is not UTF-16LE, and that what begins as gzip,*)
(* Snappy or V8 is no protobuf message.                                    *)
ImplementsIdentify == I!Init /\ [][I!Next]_(I!vars)
=============================================================================
