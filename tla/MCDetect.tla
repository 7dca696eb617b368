------------------------------ MODULE MCDetect ------------------------------
(* The blobs on which TLC checks Detect, and what comments say of the      *)
(* detectors that the code does not do.                                    *)
EXTENDS Detect

Family(prefix, alphabet, lengths) ==
  {prefix \o tail : tail \in UNION {[1 .. n -> alphabet] : n \in lengths}}

(* 0xFF, 0xFE, a continued varint, a version, null, a host object; then a  *)
(* string, an object and no value behind trailers and an inner header.     *)
SerializedBlobs ==
  Family(<<255>>, {255, 254, 128, 15, 48, 92}, 0 .. 5)
    \cup Family(<<255, 15>>, {255, 254, 15, 48, 92}, {5})
    \cup Family(<<255, 15>>, {111, 123, 0}, 1 .. 3)
    \cup Family(<<255, 15, 255, 15>>, {34, 111, 0}, 1 .. 2)
    \cup Family(<<255, 15, 254, 0, 255, 15>>, {34, 111, 0}, 1 .. 2)

(* Text and binary in UTF-16LE: a letter, a quote, NUL, a control and the  *)
(* high bytes of surrogates.                                               *)
Utf16Blobs ==
  Family(<<>>, {97, 0, 4, 220}, 0 .. 6) \cup Family(<<255, 254>>, {97, 34, 0, 4}, 0 .. 4)
    \cup Family(<<97, 0>>, {216, 220, 0}, {4}) \cup Family(<<255, 254>>, {216, 220, 97}, {2, 4})

(* Ten characters, more or less, and every kind of byte of UTF-8. *)
Utf8Blobs ==
  Family([i \in 1 .. 8 |-> 97], {97, 4, 10, 194, 133}, 0 .. 3)
    \cup Family(<<97>>, {195, 169, 224, 160, 240, 144, 97}, 1 .. 3)

Base64Blobs ==
  Family(<<65, 65, 65, 65>>, {65, 66, 61, 43, 45}, {4}) \cup Family(<<>>, {65, 61}, {8, 12})
    \cup Family(<<65, 65, 65, 65>>, {65, 61, 32}, {5, 6})

HexBlobs == Family(<<>>, {97, 103, 32, 12}, {4, 5}) \cup Family(<<97, 97, 97, 97>>, {97, 103}, {4})

MagicBlobs ==
  Family(<<31, 139>>, {0, 97}, 0 .. 2) \cup Family(SnappyMagic, {0, 97}, 0 .. 2)
    \cup Family(<<120>>, {156, 94, 0}, 1 .. 2) \cup Family(<<72, 75>>, {65, 97}, {6})
    \cup Family(BplistMagic, {48, 0}, 0 .. 2)
    \cup {h \o w : h \in XmlHeads, w \in {<<>>, PlistWord, <<0>> \o PlistWord}}
    \cup Family(<<32>>, {123, 91, 125, 32, 0}, 0 .. 3)

UuidText == [i \in 1 .. 36 |-> IF i \in {9, 14, 19, 24} THEN 45 ELSE 97]

(* Text that begins as zlib does: "80", in hexadecimal and in a UUID.      *)
ZlibTexts ==
  Family(<<56, 48>>, {97, 45}, {4, 6}) \cup {[UuidText EXCEPT ![1] = 56, ![2] = 48]}

LongBlobs ==
  {UuidText, UuidText \o <<32>>, UuidText \o [i \in 1 .. 5 |-> 32], [i \in 1 .. 48 |-> 97],
   [i \in 1 .. 16 |-> 0], [i \in 1 .. 16 |-> 97], <<31, 139>> \o [i \in 1 .. 46 |-> 0]}

AllBlobs == SerializedBlobs \cup Utf16Blobs \cup Utf8Blobs \cup Base64Blobs \cup HexBlobs
              \cup MagicBlobs \cup ZlibTexts \cup LongBlobs

BomTexts == {<<255, 254, a, 0, b, 0>> : a, b \in {97, 34, 104}}
GzipBlobs == Family(<<31, 139>>, {0}, 0 .. 2) \cup Family(<<120, 156>>, {0}, 0 .. 2)

-----------------------------------------------------------------------------
(* deserialize_blink, "Falls back to a raw V8 read when no Blink envelope  *)
(* is present", src/src/v8_value.rs:231: a raw V8 stream decodes.          *)
BlinkFallsBack == Deserialize(blob, codec.v8) => DeserializeBlink(blob, codec.v8)

(* detect_v8_blink, "Only report a failed decode when the payload actually *)
(* opened as V8 (a known value tag right after the version header)",       *)
(* src/src/identify.rs:345-347.                                            *)
MediumOpensAsV8 ==
  I!Leaf("V8Serialized", I!Medium) \in out => At(blob, AfterHeader(blob, 0)) \in ValueTags

(* bounded_read, "return the bytes and whether the stream was capped (had  *)
(* more to give)", src/src/identify.rs:141-142.                            *)
CappedTellsMore == read.state = "ok" /\ stream.len > read.held => read.capped
=============================================================================
