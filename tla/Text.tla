-------------------------------- MODULE Text --------------------------------
(***************************************************************************)
(* The text heuristics of src/src/identify.rs, on bytes that are numbers:  *)
(* what counts as base64, as hexadecimal, as UTF-16LE and as UTF-8 text.   *)
(***************************************************************************)
EXTENDS Integers, Sequences, FiniteSets, FiniteSetsExt

Byte == 0 .. 255

Whitespace == {9, 10, 12, 13, 32}        \* u8::is_ascii_whitespace
Digits == 48 .. 57
Alphanumeric == Digits \cup (65 .. 90) \cup (97 .. 122)
HexDigits == Digits \cup (65 .. 70) \cup (97 .. 102)

StartsWith(b, magic) == Len(magic) <= Len(b) /\ SubSeq(b, 1, Len(magic)) = magic

Trim(b) ==
  LET ink == {i \in DOMAIN b : b[i] \notin Whitespace}
  IN IF ink = {} THEN <<>> ELSE SubSeq(b, Min(ink), Max(ink))

-----------------------------------------------------------------------------
(* Base64 and hexadecimal *)

Pad == 61                                \* '='
Standard == Alphanumeric \cup {43, 47}   \* '+' and '/'
UrlSafe == Alphanumeric \cup {45, 95}    \* '-' and '_'

Sextet(c) == CASE c \in 65 .. 90 -> c - 65
               [] c \in 97 .. 122 -> c - 71
               [] c \in Digits -> c + 4
               [] c \in {43, 45} -> 62
               [] c \in {47, 95} -> 63

Cleaned(b) ==
  LET kept[n \in 0 .. Len(b)] ==
        IF n = 0 THEN <<>>
        ELSE IF b[n] \in Whitespace THEN kept[n - 1] ELSE Append(kept[n - 1], b[n])
  IN kept[Len(b)]

(* cleaned.split_at(the first '=') *)
Body(text) ==
  LET pads == {i \in DOMAIN text : text[i] = Pad}
  IN IF pads = {} THEN text ELSE SubSeq(text, 1, Min(pads) - 1)

Padding(text) == SubSeq(text, Len(Body(text)) + 1, Len(text))

Over(s, alphabet) == \A i \in DOMAIN s : s[i] \in alphabet

(* The decoder of the base64 crate, after the guards: the bits that the    *)
(* padding leaves over must be zero.                                       *)
LeftoverClear(body, pads) ==
  Sextet(body[Len(body)]) % (CASE pads = 0 -> 1 [] pads = 1 -> 4 [] pads = 2 -> 16) = 0

(* Fault: whatever follows the first '=' is taken for padding. *)
TryBase64AnyPadding(b) ==
  LET text == Cleaned(b)  body == Body(text)  padding == Padding(text)
  IN /\ Len(text) >= 8 /\ Len(text) % 4 = 0
     /\ Len(padding) <= 2 /\ body # <<>>
     /\ Over(body, Standard) \/ Over(body, UrlSafe)
     /\ LeftoverClear(body, Len(padding))

TryBase64(b) ==
  LET text == Cleaned(b)  body == Body(text)  padding == Padding(text)
  IN /\ Len(text) >= 8 /\ Len(text) % 4 = 0
     /\ Len(padding) <= 2 /\ Over(padding, {Pad}) /\ body # <<>>
     /\ Over(body, Standard) \/ Over(body, UrlSafe)
     /\ LeftoverClear(body, Len(padding))

(* Base64 by RFC 4648: groups of four characters of one alphabet, of which *)
(* the last may have lost one or two to padding, with no bits left over.   *)
IsBase64(text) ==
  /\ Len(text) >= 8 /\ Len(text) % 4 = 0
  /\ \E alphabet \in {Standard, UrlSafe} : \A i \in 1 .. Len(text) \div 4 :
       LET group == SubSeq(text, 4 * i - 3, 4 * i)
           padded(n, spare) == /\ Over(SubSeq(group, 1, 4 - n), alphabet)
                               /\ Over(SubSeq(group, 5 - n, 4), {Pad})
                               /\ Sextet(group[4 - n]) % spare = 0
       IN \/ Over(group, alphabet)
          \/ i = Len(text) \div 4 /\ (padded(1, 4) \/ padded(2, 16))

Base64Len(b) == (6 * Len(Body(Cleaned(b)))) \div 8

TryHex(b) ==
  LET s == Trim(b) IN Len(s) >= 4 /\ Len(s) % 2 = 0 /\ Over(s, HexDigits)

HexLen(b) == Len(Trim(b)) \div 2

-----------------------------------------------------------------------------
(* Text *)

Control == (0 .. 31) \cup (127 .. 159)   \* char::is_control
Printable(c) == c \notin Control \/ c \in {9, 10, 13}

MostlyPrintable(total, printable) == total > 0 /\ printable * 100 >= total * 90

(* std::str::from_utf8.  A character starts at each byte that continues    *)
(* none; CharLen is 0 for a byte that starts none.                         *)
Continuation == 128 .. 191
Starts(b) == {i \in DOMAIN b : b[i] \notin Continuation}

CharLen(c) == CASE c < 128 -> 1
                [] c \in 194 .. 223 -> 2
                [] c \in 224 .. 239 -> 3
                [] c \in 240 .. 244 -> 4
                [] OTHER -> 0

(* The second bytes of overlong forms, surrogates and code points past the *)
(* last.                                                                   *)
BadSecond(c) == CASE c = 224 -> 128 .. 159
                  [] c = 237 -> 160 .. 191
                  [] c = 240 -> 128 .. 143
                  [] c = 244 -> 144 .. 191
                  [] OTHER -> {}

ValidUtf8(b) ==
  \A i \in DOMAIN b :
    /\ i = 1 => i \in Starts(b)
    /\ i \in Starts(b) =>
         LET next == i + CharLen(b[i])
         IN /\ next \in i + 1 .. Len(b) + 1
            /\ next \in Starts(b) \cup {Len(b) + 1}
            /\ \A j \in i + 1 .. next - 1 : j \notin Starts(b)
            /\ next > i + 1 => b[i + 1] \notin BadSecond(b[i])

(* Only characters of one and two bytes can be controls. *)
CodePoint(b, i) == IF CharLen(b[i]) = 2 THEN 64 * (b[i] % 32) + (b[i + 1] % 64)
                   ELSE IF CharLen(b[i]) = 1 THEN b[i] ELSE 2048

Utf8Text(b) ==
  /\ ValidUtf8(b)
  /\ MostlyPrintable(Cardinality(Starts(b)),
                     Cardinality({i \in Starts(b) : Printable(CodePoint(b, i))}))

HasBom(b) == StartsWith(b, <<255, 254>>)

Units(b) ==
  LET skip == IF HasBom(b) THEN 2 ELSE 0
  IN [i \in 1 .. (Len(b) - skip) \div 2 |-> b[skip + 2 * i - 1] + 256 * b[skip + 2 * i]]

HighSurrogate == 55296 .. 56319
LowSurrogate == 56320 .. 57343

(* String::from_utf16 *)
ValidUtf16(u) ==
  \A i \in DOMAIN u :
    /\ u[i] \in HighSurrogate => i < Len(u) /\ u[i + 1] \in LowSurrogate
    /\ u[i] \in LowSurrogate => i > 1 /\ u[i - 1] \in HighSurrogate

(* Fault: even-length binary passes for text. *)
Utf16TextAnyPlane(b) ==
  LET u == Units(b)
      chars == {i \in DOMAIN u : u[i] \notin LowSurrogate}
  IN /\ Len(b) >= 4 /\ Len(b) % 2 = 0
     /\ ValidUtf16(u)
     /\ MostlyPrintable(Cardinality(chars), Cardinality({i \in chars : Printable(u[i])}))

Utf16Text(b) ==
  LET u == Units(b)
      chars == {i \in DOMAIN u : u[i] \notin LowSurrogate}
      ascii_plane == Cardinality({i \in DOMAIN u : u[i] < 256})
  IN /\ Len(b) >= 4 /\ Len(b) % 2 = 0
     /\ ValidUtf16(u)
     /\ MostlyPrintable(Cardinality(chars), Cardinality({i \in chars : Printable(u[i])}))
     /\ HasBom(b) \/ ascii_plane * 2 >= Len(u)
=============================================================================
