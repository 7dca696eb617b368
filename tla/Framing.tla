------------------------------ MODULE Framing ------------------------------
(***************************************************************************)
(* What opens a serialized value: detect_v8_blink of src/src/identify.rs   *)
(* and the two entry points of src/src/v8_value.rs it chooses between, on  *)
(* the bytes of a blob.  A position is how many bytes were consumed.  What *)
(* read_value makes of a value longer than its tag is for V8Reader to say; *)
(* here it is the parameter longer.                                        *)
(***************************************************************************)
EXTENDS Text

CONSTANTS
  VarintMax,   \* the longest varint (10 in the code)
  TrailerLen   \* the length of a Blink trailer's body (12 in the code)

ASSUME FramingAssumption == VarintMax \in Nat \ {0} /\ TrailerLen \in Nat

VersionTag == 255
TrailerTag == 254
HostObject == 92

(* Values that are their tag: the hole, undefined, null, true, false. *)
BareTags == {45, 95, 48, 84, 70}

(* is_value_tag *)
ValueTags ==
  BareTags \cup {73, 85, 78, 90, 83, 34, 99, 94, 111, 97, 65, 68, 121, 120, 110, 122,
                 115, 82, 59, 39, 66, HostObject}

Error == -1     \* V8Error, as a position
End == -1       \* no byte

At(b, pos) == IF pos \in 0 .. Len(b) - 1 THEN b[pos + 1] ELSE End

(* read_varint: the first byte below 128, if it is one of VarintMax. *)
AfterVarint(b, pos) ==
  LET ends == {i \in pos .. pos + VarintMax - 1 :
                 At(b, i) \in 0 .. 127 /\ \A j \in pos .. i - 1 : At(b, j) >= 128}
  IN IF pos = Error \/ ends = {} THEN Error ELSE 1 + CHOOSE i \in ends : TRUE

(* read_version_header *)
AfterHeader(b, pos) ==
  IF pos # Error /\ At(b, pos) = VersionTag THEN AfterVarint(b, pos + 1) ELSE Error

(* while r.peek() == Some(BLINK_TRAILER_OFFSET): the n-th trailer is the   *)
(* first that is not there.                                                *)
AfterTrailers(b, pos) ==
  LET after(n) == pos + n * (1 + TrailerLen)
      ends == {n \in 0 .. Len(b) :
                 /\ At(b, after(n)) # TrailerTag /\ after(n) <= Len(b)
                 /\ \A m \in 0 .. n - 1 : At(b, after(m)) = TrailerTag}
  IN IF pos = Error \/ ends = {} THEN Error ELSE after(CHOOSE n \in ends : TRUE)

(* read_value at the tag at hand *)
Decodes(b, pos, longer) ==
  /\ pos # Error
  /\ \/ At(b, pos) \in BareTags
     \/ longer /\ At(b, pos) \in ValueTags \ {HostObject}

Deserialize(b, longer) == Decodes(b, AfterHeader(b, 0), longer)

(* deserialize_blink: the envelope, if there is one, then the header. *)
AfterEnvelope(b) ==
  IF At(b, 0) = VersionTag THEN AfterTrailers(b, AfterVarint(b, 1)) ELSE 0

DeserializeBlink(b, longer) == Decodes(b, AfterHeader(b, AfterEnvelope(b)), longer)

-----------------------------------------------------------------------------
(* detect_v8_blink *)

(* Fault: only a trailer makes an envelope. *)
IsBlinkByTrailer(b) == At(b, 2) = TrailerTag

IsBlink(b) == At(b, 2) \in {TrailerTag, VersionTag}

(* Fault: a failed decode is reported for a raw stream only. *)
OpensAsV8Raw(b) == At(b, 2) \in ValueTags

OpensAsV8(b) == At(b, 2) \in ValueTags \cup {TrailerTag, VersionTag}

Claim(k, s) == [kind |-> k, score |-> s]
NoClaim == Claim("none", "none")

DetectV8Blink(b, longer) ==
  LET kind == IF IsBlink(b) THEN "BlinkSerialized" ELSE "V8Serialized"
      decoded == IF IsBlink(b) THEN DeserializeBlink(b, longer) ELSE Deserialize(b, longer)
  IN IF At(b, 0) # VersionTag \/ Len(b) < 3 THEN NoClaim
     ELSE IF decoded THEN Claim(kind, "High")
     ELSE IF OpensAsV8(b) THEN Claim(kind, "Medium")
     ELSE NoClaim

-----------------------------------------------------------------------------
(* A header with a version of one byte, at a position. *)
HeaderAt(b, pos) == At(b, pos) = VersionTag /\ At(b, pos + 1) \in 0 .. 127

(* ValueSerializer writes a header and a value; Blink writes a header of   *)
(* its own and its trailers before that.                                   *)
V8Stream(b, v) == HeaderAt(b, 0) /\ At(b, 2) = v

BlinkStream(b, v) ==
  /\ HeaderAt(b, 0)
  /\ \E n \in 0 .. Len(b) :
       LET inner == 2 + n * (1 + TrailerLen)
       IN /\ \A i \in 0 .. n - 1 : At(b, 2 + i * (1 + TrailerLen)) = TrailerTag
          /\ HeaderAt(b, inner) /\ At(b, inner + 2) = v

(* detect_v8_blink chooses a reader by the third byte alone and tries no   *)
(* other.  For a version of one byte the choice loses nothing: the claim   *)
(* is High exactly when one of the two readers decodes the blob, and never *)
(* do both.                                                                *)
RoutesLosslessly(b, longer) ==
  HeaderAt(b, 0) =>
    /\ DetectV8Blink(b, longer).score = "High"
         <=> Deserialize(b, longer) \/ DeserializeBlink(b, longer)
    /\ ~(Deserialize(b, longer) /\ DeserializeBlink(b, longer))
=============================================================================
