---------------------------- MODULE DetectProofs ----------------------------
(***************************************************************************)
(* Proofs about Detect, for every blob: its types, the order of its        *)
(* readings (through the lemmas about Identify), that the choice between   *)
(* the two readers of V8 loses nothing, which streams they claim, which    *)
(* texts are base64, that what the decompressors are told is true, and     *)
(* that a call on the bytes of a blob implements Identify.                 *)
(***************************************************************************)
EXTENDS Detect, BoundedReadProofs, Induction, SequenceTheorems, FiniteSetTheorems

IP == INSTANCE IdentifyProofs WITH MaxDepth <- 1, Leads <- LeadNames,
                                   Depths <- {0}, stack <- Stack, result <- Result, calls <- 1

-----------------------------------------------------------------------------

(* A position is that of a byte, or nothing is there. *)
LEMMA AtTypes ==
  ASSUME NEW b \in Seq(Byte), NEW pos \in Int
  PROVE  /\ At(b, pos) \in Byte \cup {End}
         /\ At(b, pos) # End => pos >= 0 /\ pos < Len(b)
<1>1. CASE pos \in 0 .. Len(b) - 1
  <2>1. pos + 1 \in 1 .. Len(b) /\ At(b, pos) = b[pos + 1]
    BY <1>1 DEF At
  <2> QED
    BY <1>1, <2>1
<1>2. CASE pos \notin 0 .. Len(b) - 1
  BY <1>2 DEF At
<1> QED
  BY <1>1, <1>2

(* No tag opens an envelope, and none is missing. *)
LEMMA TagValues == ASSUME NEW v \in ValueTags PROVE v \in 0 .. 253 /\ v \notin {254, 255}
BY DEF ValueTags, BareTags, HostObject

(* A byte that is there. *)
LEMMA ByteIsThere == ASSUME NEW v \in Byte PROVE v # End
BY DEF Byte, End

(* What continues a varint does not end it. *)
LEMMA EndsOrContinues == ASSUME NEW v \in 0 .. 127 PROVE ~(v >= 128) /\ v \in Byte
BY DEF Byte

(* A version of one byte ends where the varint begins, plus one. *)
LEMMA ShortVarint ==
  ASSUME NEW b \in Seq(Byte), NEW pos \in Nat, At(b, pos) \in 0 .. 127
  PROVE  AfterVarint(b, pos) = pos + 1
<1> DEFINE ends == {i \in pos .. pos + VarintMax - 1 :
                      At(b, i) \in 0 .. 127 /\ \A j \in pos .. i - 1 : At(b, j) >= 128}
<1>1. pos # Error /\ VarintMax \in Nat \ {0}
  BY FramingAssumption DEF Error
<1>2. pos \in ends
  BY <1>1
<1>3. \A i \in ends : i = pos
  <2> SUFFICES ASSUME NEW i \in ends, i # pos PROVE FALSE
    OBVIOUS
  <2>1. pos \in pos .. i - 1
    BY <1>1
  <2>2. At(b, pos) >= 128
    BY <2>1
  <2> QED
    BY <2>2, EndsOrContinues
<1>4. ends = {pos}
  BY <1>2, <1>3
<1>5. AfterVarint(b, pos) = 1 + CHOOSE i \in ends : TRUE
  BY <1>1, <1>4 DEF AfterVarint
<1> HIDE DEF ends
<1> QED
  BY <1>4, <1>5

(* The first three bytes of a stream with a version of one byte. *)
LEMMA HeaderEnds ==
  ASSUME NEW b \in Seq(Byte), HeaderAt(b, 0)
  PROVE  /\ AfterHeader(b, 0) = 2 /\ AfterVarint(b, 1) = 2
         /\ At(b, 0) = VersionTag /\ Len(b) >= 2
<1>1. At(b, 0) = VersionTag /\ At(b, 1) \in 0 .. 127
  BY DEF HeaderAt
<1>2. AfterVarint(b, 1) = 2
  BY <1>1, ShortVarint
<1>3. Len(b) >= 2
  <2>1. At(b, 1) # End
    BY <1>1, EndsOrContinues, ByteIsThere
  <2>2. 1 < Len(b) /\ Len(b) \in Nat
    BY <2>1, AtTypes
  <2> QED
    BY <2>2
<1> QED
  BY <1>1, <1>2, <1>3 DEF AfterHeader, Error

(* Without a trailer there is nothing to skip. *)
LEMMA NoTrailer ==
  ASSUME NEW b \in Seq(Byte), NEW pos \in Nat, pos <= Len(b), At(b, pos) # TrailerTag
  PROVE  AfterTrailers(b, pos) = pos
<1> DEFINE after(n) == pos + n * (1 + TrailerLen)
           ends == {n \in 0 .. Len(b) :
                      /\ At(b, after(n)) # TrailerTag /\ after(n) <= Len(b)
                      /\ \A m \in 0 .. n - 1 : At(b, after(m)) = TrailerTag}
<1>1. TrailerLen \in Nat /\ pos # Error
  BY FramingAssumption DEF Error
<1>2. after(0) = pos
  BY <1>1
<1>3. 0 \in ends
  BY <1>2
<1>4. \A n \in ends : n = 0
  <2> SUFFICES ASSUME NEW n \in ends, n # 0 PROVE FALSE
    OBVIOUS
  <2>1. 0 \in 0 .. n - 1
    OBVIOUS
  <2> HIDE DEF after
  <2> QED
    BY <1>2, <2>1
<1>5. ends = {0}
  BY <1>3, <1>4
<1>6. AfterTrailers(b, pos) = after(CHOOSE n \in ends : TRUE)
  BY <1>1, <1>5 DEF AfterTrailers
<1> QED
  BY <1>2, <1>5, <1>6

(* A raw V8 stream: what follows the header is no header of its own, so    *)
(* the reader of Blink finds none.                                         *)
LEMMA RawRoutes ==
  ASSUME NEW b \in Seq(Byte), NEW longer, HeaderAt(b, 0), ~IsBlink(b)
  PROVE  ~DeserializeBlink(b, longer)
<1>1. At(b, 2) # TrailerTag /\ At(b, 2) # VersionTag
  BY DEF IsBlink
<1>2. AfterEnvelope(b) = 2
  BY <1>1, HeaderEnds, NoTrailer DEF AfterEnvelope
<1>3. AfterHeader(b, 2) = Error
  BY <1>1 DEF AfterHeader
<1> QED
  BY <1>2, <1>3 DEF DeserializeBlink, Decodes

(* An envelope: neither a trailer nor a second header is a value.          *)
LEMMA EnvelopeRoutes ==
  ASSUME NEW b \in Seq(Byte), NEW longer, HeaderAt(b, 0), IsBlink(b)
  PROVE  ~Deserialize(b, longer)
<1>1. At(b, 2) \in {254, 255}
  BY DEF IsBlink, TrailerTag, VersionTag
<1>2. \A v \in ValueTags : v \notin {254, 255}
  BY TagValues
<1> QED
  BY <1>1, <1>2, HeaderEnds DEF Deserialize, Decodes, ValueTags

(* A value that decodes has at least its tag behind the header.            *)
LEMMA DecodedHasTag ==
  ASSUME NEW b \in Seq(Byte), NEW longer, HeaderAt(b, 0), Deserialize(b, longer)
  PROVE  Len(b) >= 3
<1>1. At(b, 2) \in ValueTags
  BY HeaderEnds DEF Deserialize, Decodes, ValueTags
<1>2. At(b, 2) # End
  <2>1. \A v \in ValueTags : v \in Byte
    BY TagValues DEF Byte
  <2> QED
    BY <1>1, <2>1, ByteIsThere
<1> QED
  BY <1>2, AtTypes

(* detect_v8_blink: for every blob with a version of one byte and whatever *)
(* read_value makes of it, the third byte sends it to the reader that      *)
(* decodes it, if one does.                                                *)
LEMMA EveryBlobRoutes ==
  ASSUME NEW b \in Seq(Byte), NEW longer \in BOOLEAN
  PROVE  RoutesLosslessly(b, longer)
<1> SUFFICES ASSUME HeaderAt(b, 0)
             PROVE  /\ DetectV8Blink(b, longer).score = "High"
                         <=> Deserialize(b, longer) \/ DeserializeBlink(b, longer)
                    /\ ~(Deserialize(b, longer) /\ DeserializeBlink(b, longer))
  BY DEF RoutesLosslessly
<1>1. At(b, 0) = VersionTag
  BY HeaderEnds
<1>2. CASE IsBlink(b)
  <2>1. ~Deserialize(b, longer)
    BY <1>2, EnvelopeRoutes
  <2>2. Len(b) >= 3
    <3>1. At(b, 2) # End
      BY <1>2 DEF IsBlink, TrailerTag, VersionTag, End
    <3> QED
      BY <3>1, AtTypes
  <2> QED
    BY <1>1, <1>2, <2>1, <2>2 DEF DetectV8Blink, Claim, NoClaim
<1>3. CASE ~IsBlink(b)
  <2>1. ~DeserializeBlink(b, longer)
    BY <1>3, RawRoutes
  <2>2. Deserialize(b, longer) => Len(b) >= 3
    BY DecodedHasTag
  <2> QED
    BY <1>1, <1>3, <2>1, <2>2 DEF DetectV8Blink, Claim, NoClaim
<1> QED
  BY <1>2, <1>3

-----------------------------------------------------------------------------
(* What a detector says.  The lemmas about candidates are those of the     *)
(* proofs of Identify, whose assumptions hold here.                        *)

(* Detect's parameters are parameters of Identify.                         *)
LEMMA IdentifyAssumed == IP!IdentifyAssumption
BY BoundedReadAssumption, DetectAssumption DEF IP!IdentifyAssumption, LeadNames, IP!LeadMin

(* One name for a candidate, whichever instance makes it.                  *)
LEMMA SameNames ==
  /\ I!Kinds = IP!Kinds /\ I!Link = IP!Link
  /\ {I!Low, I!Medium, I!High} = IP!Scores
  /\ I!Low = IP!Low /\ I!Medium = IP!Medium /\ I!High = IP!High
  /\ \A k, s : I!Leaf(k, s) = IP!Leaf(k, s)
BY DEF I!Kinds, IP!Kinds, I!Link, IP!Link, IP!Scores, I!Low, I!Medium, I!High, IP!Low, IP!Medium,
   IP!High, I!Leaf, IP!Leaf

(* leaf() makes a chain of the kind and score it is told.                  *)
LEMMA LeafSays ==
  ASSUME NEW k \in I!Kinds, NEW s \in {I!Low, I!Medium, I!High}, NEW c, c = I!Leaf(k, s)
  PROVE  IP!Chain(c) /\ IP!Kind(c) = k /\ IP!Score(c) = s
<1>1. k \in IP!Kinds /\ s \in IP!Scores /\ c = IP!Leaf(k, s)
  BY SameNames
<1> QED
  BY <1>1, IdentifyAssumed, IP!LeafChain

(* A candidate of a wrapper at the depth cap.                              *)
WrapsCapped(c, k, len, capped) == c = I!Wrapper(k, len, capped, I!DepthCapped)

(* wrapper() at the depth cap makes a chain of two links.                  *)
LEMMA WrapperSays ==
  ASSUME NEW k, NEW len, NEW capped, NEW c, WrapsCapped(c, k, len, capped),
         k \in IP!Wrappers, len \in Nat, capped \in BOOLEAN
  PROVE  IP!Chain(c) /\ IP!Kind(c) = k /\ c[1].len = len /\ c[1].kind = k
<1> DEFINE s == IF k \in {"Base64", "Hex"} THEN I!WrapperScore(I!Kind(I!DepthCapped)) ELSE I!High
           l == [kind |-> k, score |-> s, len |-> len, capped |-> capped]
           u == [kind |-> "Unknown", score |-> I!Low, len |-> 0, capped |-> FALSE]
<1>1. s \in {I!Low, I!Medium, I!High}
  BY DEF I!WrapperScore
<1>2. k \in I!Kinds
  BY SameNames DEF IP!Wrappers, IP!Kinds
<1>3. u \in I!Link /\ u.kind = "Unknown"
  BY DEF I!Link, I!Kinds
<1>4. c = <<l>> \o <<u>>
  BY DEF WrapsCapped, I!Wrapper, I!DepthCapped, I!Leaf
<1> HIDE DEF s
<1>5. l \in I!Link /\ l.kind = k /\ l.len = len
  BY <1>1, <1>2 DEF I!Link
<1> HIDE DEF l, u
<1>6. c \in Seq(I!Link) /\ Len(c) = 2 /\ c[1] = l /\ c[2] = u
  BY <1>3, <1>4, <1>5
<1>7. \A i \in 1 .. Len(c) - 1 : c[i].kind \in IP!Wrappers
  <2> SUFFICES ASSUME NEW i \in 1 .. Len(c) - 1 PROVE c[i].kind \in IP!Wrappers
    OBVIOUS
  <2>1. i = 1
    BY <1>6
  <2> QED
    BY <1>5, <1>6, <2>1
<1> QED
  BY <1>5, <1>6, <1>7, SameNames DEF IP!Chain, IP!Kind

-----------------------------------------------------------------------------
(* Texts *)

(* A nonempty set of positions has a first and a last.                     *)
LEMMA Ends ==
  ASSUME NEW n \in Nat, NEW T, T \subseteq 1 .. n, T # {}
  PROVE  Min(T) \in T /\ Max(T) \in T /\ \A y \in T : Min(T) <= y /\ y <= Max(T)
<1>1. \E x \in T : \A y \in T : x <= y
  <2>1. T \subseteq Nat
    OBVIOUS
  <2> QED
    BY <2>1, LeastExists, Zenon
<1>2. \E x \in T : \A y \in T : x >= y
  <2>1. T \subseteq 0 .. n
    OBVIOUS
  <2>2. \E x \in T : \A y \in T : y <= x
    BY <2>1, GreatestExists, Zenon
  <2> QED
    BY <2>2
<1>3. Min(T) \in T /\ \A y \in T : Min(T) <= y
  BY <1>1 DEF Min
<1>4. Max(T) \in T /\ \A y \in T : Max(T) >= y
  BY <1>2 DEF Max
<1> QED
  BY <1>3, <1>4

(* trim() does not make a text longer.                                     *)
LEMMA TrimShortens ==
  ASSUME NEW b \in Seq(Byte)
  PROVE  Trim(b) \in Seq(Byte) /\ Len(Trim(b)) \in Nat /\ Len(Trim(b)) <= Len(b)
<1> DEFINE ink == {i \in DOMAIN b : b[i] \notin Whitespace}
<1>1. CASE ink = {}
  BY <1>1 DEF Trim
<1>2. CASE ink # {}
  <2>1. ink \subseteq 1 .. Len(b) /\ Len(b) \in Nat
    OBVIOUS
  <2>2. Min(ink) \in 1 .. Len(b) /\ Max(ink) \in 1 .. Len(b)
    BY <1>2, <2>1, Ends
  <2>3. Trim(b) = SubSeq(b, Min(ink), Max(ink))
    BY <1>2 DEF Trim
  <2> HIDE DEF ink
  <2>4. PICK m \in 1 .. Len(b), n \in 1 .. Len(b) : Trim(b) = SubSeq(b, m, n)
    BY <2>2, <2>3
  <2>5. Trim(b) \in Seq(Byte) /\ Len(Trim(b)) = IF m <= n THEN n - m + 1 ELSE 0
    BY <2>4, SubSeqProperties
  <2> QED
    BY <2>1, <2>5
<1> QED
  BY <1>1, <1>2

(* What is collected of a text, character by character.                    *)
IsKept(f, b) ==
  f = [n \in 0 .. Len(b) |-> IF n = 0 THEN <<>>
                             ELSE IF b[n] \in Whitespace THEN f[n - 1] ELSE Append(f[n - 1], b[n])]

(* The text without its whitespace is what has been collected at the end.  *)
LEMMA CleanedIsKept ==
  ASSUME NEW b \in Seq(Byte)
  PROVE  \E kept : IsKept(kept, b) /\ Cleaned(b) = kept[Len(b)]
<1> DEFINE S == Nat \X Seq(Byte)
           step == [p \in S |-> <<p[1] + 1,
                      IF p[1] + 1 \in DOMAIN b /\ b[p[1] + 1] \notin Whitespace
                      THEN Append(p[2], b[p[1] + 1]) ELSE p[2]>>]
<1>1. <<0, <<>>>> \in S
  <2>1. <<>> \in Seq(Byte) /\ 0 \in Nat
    OBVIOUS
  <2> QED
    BY <2>1, Zenon
<1>2. step \in [S -> S]
  <2> SUFFICES ASSUME NEW p \in S
               PROVE  <<p[1] + 1, IF p[1] + 1 \in DOMAIN b /\ b[p[1] + 1] \notin Whitespace
                                  THEN Append(p[2], b[p[1] + 1]) ELSE p[2]>> \in S
    BY Zenon
  <2>1. PICK n, s : n = p[1] /\ s = p[2]
    OBVIOUS
  <2>2. n \in Nat /\ s \in Seq(Byte)
    BY <2>1
  <2>3. n + 1 \in DOMAIN b => b[n + 1] \in Byte
    OBVIOUS
  <2>4. n + 1 \in Nat
        /\ (IF n + 1 \in DOMAIN b /\ b[n + 1] \notin Whitespace
            THEN Append(s, b[n + 1]) ELSE s) \in Seq(Byte)
    BY <2>2, <2>3
  <2> QED
    BY <2>1, <2>4, Zenon
<1> HIDE DEF S
<1>3. PICK g : Iterated(g, S, <<0, <<>>>>, step)
  <2> HIDE DEF step
  <2> QED
    BY <1>1, <1>2, Iteration, Zenon
<1>4. /\ \A n \in Nat : g[n] \in Nat \X Seq(Byte)
      /\ g[0] = <<0, <<>>>>
      /\ \A n \in Nat : g[n + 1] = <<g[n][1] + 1,
                      IF g[n][1] + 1 \in DOMAIN b /\ b[g[n][1] + 1] \notin Whitespace
                      THEN Append(g[n][2], b[g[n][1] + 1]) ELSE g[n][2]>>
  BY <1>3 DEF Iterated, S
<1>5. \A n \in Nat : g[n][1] = n
  <2> DEFINE P == {n \in Nat : g[n][1] = n}
  <2>1. 0 \in P
    BY <1>4
  <2>2. ASSUME NEW n \in Nat, n \in P PROVE n + 1 \in P
    <3>1. PICK x : g[n + 1] = <<g[n][1] + 1, x>>
      BY <1>4, Zenon
    <3> QED
      BY <2>2, <3>1
  <2> HIDE DEF P
  <2>3. \A n \in Nat : n \in P
    BY <2>1, <2>2, SetInduction
  <2> QED
    BY <2>3 DEF P
<1> DEFINE f == [n \in 0 .. Len(b) |-> g[n][2]]
<1>6. ASSUME NEW n \in 0 .. Len(b), n # 0
      PROVE  f[n] = IF b[n] \in Whitespace THEN f[n - 1] ELSE Append(f[n - 1], b[n])
  <2>1. n - 1 \in 0 .. Len(b) /\ n - 1 \in Nat /\ (n - 1) + 1 = n /\ n \in DOMAIN b
    BY <1>6
  <2>2. g[(n - 1) + 1] = <<g[n - 1][1] + 1,
                      IF g[n - 1][1] + 1 \in DOMAIN b /\ b[g[n - 1][1] + 1] \notin Whitespace
                      THEN Append(g[n - 1][2], b[g[n - 1][1] + 1]) ELSE g[n - 1][2]>>
    BY <1>4, <2>1
  <2>3. g[n - 1][1] = n - 1
    BY <1>5, <2>1
  <2>4. g[n][2] = IF b[n] \notin Whitespace THEN Append(g[n - 1][2], b[n]) ELSE g[n - 1][2]
    BY <2>1, <2>2, <2>3
  <2> QED
    BY <2>1, <2>4
<1>7. f[0] = <<>>
  BY <1>4
<1>8. IsKept(f, b)
  <2>1. f = [n \in 0 .. Len(b) |-> f[n]]
    OBVIOUS
  <2> HIDE DEF f
  <2> QED
    BY <1>6, <1>7, <2>1 DEF IsKept
<1> DEFINE kept == CHOOSE h : IsKept(h, b)
<1>9. IsKept(kept, b) /\ Cleaned(b) = kept[Len(b)]
  <2>1. IsKept(kept, b)
    BY <1>8, Zenon
  <2>2. Cleaned(b) = kept[Len(b)]
    BY Zenon DEF IsKept, Cleaned
  <2> QED
    BY <2>1, <2>2
<1> QED
  BY <1>9

(* What is kept of a text is a text, and lacks nothing but whitespace.     *)
Collects(s, b, n) ==
  /\ s \in Seq(Byte) /\ Len(s) <= n
  /\ \A i \in 1 .. n : b[i] \in Whitespace \/ \E j \in DOMAIN s : s[j] = b[i]

(* The text without its whitespace is such a text.                         *)
LEMMA CleanedCollects == ASSUME NEW b \in Seq(Byte) PROVE Collects(Cleaned(b), b, Len(b))
<1>1. PICK kept : IsKept(kept, b) /\ Cleaned(b) = kept[Len(b)]
  BY CleanedIsKept
<1> DEFINE Q == {n \in Nat : n \in 0 .. Len(b) => Collects(kept[n], b, n)}
<1>2. 0 \in Q
  <2>1. kept[0] = <<>>
    BY <1>1 DEF IsKept
  <2>2. <<>> \in Seq(Byte) /\ Len(<<>>) <= 0 /\ 1 .. 0 = {}
    OBVIOUS
  <2>3. Collects(kept[0], b, 0)
    BY <2>1, <2>2 DEF Collects
  <2> QED
    BY <2>3
<1>3. ASSUME NEW n \in Nat, n \in Q PROVE n + 1 \in Q
  <2> SUFFICES ASSUME n + 1 \in 0 .. Len(b) PROVE Collects(kept[n + 1], b, n + 1)
    OBVIOUS
  <2>1. n \in 0 .. Len(b) /\ n + 1 # 0 /\ (n + 1) - 1 = n /\ b[n + 1] \in Byte
    OBVIOUS
  <2>2. kept[n + 1] = IF b[n + 1] \in Whitespace THEN kept[n] ELSE Append(kept[n], b[n + 1])
    BY <1>1, <2>1 DEF IsKept
  <2>3. PICK s : s = kept[n] /\ Collects(s, b, n)
    BY <1>3, <2>1
  <2>4. \A i \in 1 .. n + 1 : i \in 1 .. n \/ i = n + 1
    OBVIOUS
  <2>5. CASE b[n + 1] \in Whitespace
    <3>1. kept[n + 1] = s
      BY <2>2, <2>3, <2>5
    <3>2. \A i \in 1 .. n + 1 : b[i] \in Whitespace \/ \E j \in DOMAIN s : s[j] = b[i]
      BY <2>3, <2>4, <2>5 DEF Collects
    <3>3. s \in Seq(Byte) /\ Len(s) \in Nat /\ Len(s) <= n
      BY <2>3 DEF Collects
    <3> QED
      BY <3>1, <3>2, <3>3 DEF Collects
  <2>6. CASE b[n + 1] \notin Whitespace
    <3>1. PICK t : t = kept[n + 1] /\ t = Append(s, b[n + 1])
      BY <2>2, <2>3, <2>6
    <3>2. /\ t \in Seq(Byte) /\ Len(t) = Len(s) + 1 /\ t[Len(s) + 1] = b[n + 1]
          /\ \A j \in DOMAIN s : j \in DOMAIN t /\ t[j] = s[j]
      BY <2>1, <2>3, <3>1 DEF Collects
    <3>3. ASSUME NEW i \in 1 .. n + 1
          PROVE  b[i] \in Whitespace \/ \E j \in DOMAIN t : t[j] = b[i]
      <4>1. CASE i \in 1 .. n
        BY <2>3, <3>2, <4>1 DEF Collects
      <4>2. CASE i = n + 1
        BY <3>2, <4>2
      <4> QED
        BY <2>4, <4>1, <4>2
    <3>4. Len(s) \in Nat /\ Len(s) <= n
      BY <2>3 DEF Collects
    <3> QED
      BY <3>1, <3>2, <3>3, <3>4 DEF Collects
  <2> QED
    BY <2>5, <2>6
<1> HIDE DEF Q
<1>4. Len(b) \in Q
  BY <1>2, <1>3, SetInduction
<1> QED
  BY <1>1, <1>4 DEF Q

(* In particular, it is a text.                                            *)
LEMMA CleanedText == ASSUME NEW b \in Seq(Byte) PROVE Cleaned(b) \in Seq(Byte)
BY CleanedCollects DEF Collects

(* What stands before the padding of a text is a part of it.               *)
LEMMA BodyText ==
  ASSUME NEW text \in Seq(Byte)
  PROVE  /\ Len(Body(text)) \in 0 .. Len(text)
         /\ Body(text) = SubSeq(text, 1, Len(Body(text)))
         /\ \A i \in 1 .. Len(Body(text)) : text[i] # Pad
         /\ Len(Body(text)) < Len(text) => text[Len(Body(text)) + 1] = Pad
<1> DEFINE pads == {i \in DOMAIN text : text[i] = Pad}
<1>1. CASE pads = {}
  <2>1. Body(text) = text
    BY <1>1 DEF Body
  <2> QED
    BY <1>1, <2>1
<1>2. CASE pads # {}
  <2>1. /\ pads \subseteq 1 .. Len(text) /\ Len(text) \in Nat
        /\ \A i \in 1 .. Len(text) : i \in pads <=> text[i] = Pad
    OBVIOUS
  <2>3. Body(text) = SubSeq(text, 1, Min(pads) - 1)
    BY <1>2 DEF Body
  <2> HIDE DEF pads
  <2>2. Min(pads) \in pads /\ \A y \in pads : Min(pads) <= y
    BY <1>2, <2>1, Ends
  <2>4. PICK m \in 1 .. Len(text) : m = Min(pads)
    BY <2>1, <2>2
  <2>5. text[m] = Pad /\ \A i \in 1 .. m - 1 : text[i] # Pad
    BY <2>1, <2>2, <2>4
  <2>6. Body(text) = SubSeq(text, 1, m - 1) /\ Len(Body(text)) = m - 1
    BY <2>3, <2>4
  <2> QED
    BY <2>5, <2>6
<1> QED
  BY <1>1, <1>2

(* The lengths of what the text decodings give.                            *)
LEMMA DecodedLengths ==
  ASSUME NEW b \in Seq(Byte)
  PROVE  Base64Len(b) \in Nat /\ HexLen(b) \in Nat
<1>1. Len(Body(Cleaned(b))) \in Nat
  <2>1. Cleaned(b) \in Seq(Byte)
    BY CleanedText
  <2> QED
    BY <2>1, BodyText
<1>2. Len(Trim(b)) \in Nat
  BY TrimShortens
<1> QED
  BY <1>1, <1>2 DEF Base64Len, HexLen

-----------------------------------------------------------------------------
(* The steps of a call *)

(* What the detectors 8, 9 and 12 say of a blob.                           *)
Claimed == LET claim == DetectV8Blink(blob, codec.v8)
           IN I!Leaf(claim.kind, Parsed(claim.score = "High"))
Decoded64 == I!Wrapper("Base64", Base64Len(blob), FALSE, I!DepthCapped)

Text16 == I!Leaf("Utf16Le", IF HasBom(blob) THEN I!Medium ELSE I!Low)

(* The detector of turn n may push a candidate.                            *)
Says(n, c) ==
  \/ n = 1 /\ \E s \in {I!Medium, I!High} : c = I!Leaf("BinaryPlist", s)
  \/ n = 2 /\ \E s \in {I!Medium, I!High} : c = I!Leaf("XmlPlist", s)
  \/ n \in 3 .. 5 /\ c = I!Wrapper(I!Detectors[n], read.held, read.capped, I!DepthCapped)
  \/ n \in {3, 5} /\ c = I!Leaf(I!Detectors[n], I!Medium)
  \/ n = 6 /\ c = I!Leaf("Json", I!High)
  \/ n = 7 /\ Uuid(blob) /\ c = I!Leaf("Uuid", I!High)
  \/ n = 8 /\ DetectV8Blink(blob, codec.v8) # NoClaim /\ c = Claimed
  \/ n = 9 /\ TryBase64(blob) /\ c = Decoded64
  \/ n = 10 /\ c = I!Wrapper("Hex", HexLen(blob), FALSE, I!DepthCapped)
  \/ n = 11 /\ Len(blob) = 16 /\ c = I!Leaf("Uuid", I!Low)
  \/ n = 12 /\ Utf16Text(blob) /\ c = Text16
  \/ n = 13 /\ c = I!Leaf("Utf8Text", I!Low)
  \/ n = 14 /\ \E ok \in BOOLEAN : c = I!Leaf("Protobuf", I!ProtobufScore(ok, out))

(* The steps, by what they do to the candidates.                           *)
Waits == UNCHANGED <<next, out>>
Skips == next = 9 /\ Len(blob) > MaxInput /\ next' = 15 /\ UNCHANGED out
Ends15 == next = 15 /\ next' = 16 /\ out' = IF out = {} THEN {I!Unknown} ELSE out
Adds(added) ==
  /\ next \in 1 .. 14 /\ next' = next + 1 /\ out' = out \cup added
  /\ next >= 9 => Len(blob) <= MaxInput
  /\ \A c \in added : Says(next, c)
  /\ \A c, d \in added : c = d
  /\ next = 8 /\ DetectV8Blink(blob, codec.v8) # NoClaim => Claimed \in added
  /\ next = 9 /\ TryBase64(blob) => Decoded64 \in added
  /\ next \in 3 .. 5 /\ added # {} => read.state \in {"ok", "failed"}

(* A detector has one turn. *)
LEMMA TurnIs ==
  ASSUME next \in 1 .. 16, NEW d, Turn(d)
  PROVE  /\ next \in 1 .. 14 /\ d = I!Detectors[next]
         /\ next >= 9 => Len(blob) <= MaxInput
BY DEF Turn, Done, I!Heuristics

(* The names of the turns. *)
LEMMA TurnNames ==
  ASSUME NEW n \in 1 .. 14
  PROVE  /\ I!Detectors[n] = "BinaryPlist" => n = 1
         /\ I!Detectors[n] = "XmlPlist" => n = 2
         /\ I!Detectors[n] \in {"Gzip", "Zlib", "Snappy"} <=> n \in 3 .. 5
         /\ I!Detectors[n] = "Zlib" <=> n = 4
         /\ I!Detectors[n] = "Json" => n = 6
         /\ I!Detectors[n] = "UuidString" => n = 7
         /\ I!Detectors[n] = "V8" => n = 8
         /\ I!Detectors[n] = "Base64" => n = 9
         /\ I!Detectors[n] = "Hex" => n = 10
         /\ I!Detectors[n] = "UuidBytes" => n = 11
         /\ I!Detectors[n] = "Utf16Le" => n = 12
         /\ I!Detectors[n] = "Utf8Text" => n = 13
         /\ I!Detectors[n] = "Protobuf" => n = 14
BY DEF I!Detectors

(* A detector that pushes at most one candidate, at its turn.              *)
LEMMA AnswerAdds ==
  ASSUME next \in 1 .. 16, NEW d, NEW guard, NEW c, Answers(d, guard, c),
         d \notin {"Gzip", "Zlib", "Snappy"},
         guard => Says(next, c),
         next = 8 /\ DetectV8Blink(blob, codec.v8) # NoClaim => guard /\ Claimed = c,
         next = 9 /\ TryBase64(blob) => guard /\ Decoded64 = c
  PROVE  \E added : Adds(added)
<1> DEFINE added == IF guard THEN {c} ELSE {}
<1>1. next \in 1 .. 14 /\ d = I!Detectors[next] /\ (next >= 9 => Len(blob) <= MaxInput)
  BY TurnIs DEF Answers
<1>2. next \notin 3 .. 5
  BY <1>1, TurnNames
<1>3. next' = next + 1 /\ out' = out \cup added
  BY DEF Answers, Pushes
<1>4. Adds(added)
  BY <1>1, <1>2, <1>3 DEF Adds
<1> QED
  BY <1>4

(* Every step of a call is one of the four.                                *)
LEMMA Steps ==
  ASSUME next \in 1 .. 16, [Next]_vars
  PROVE  Waits \/ Skips \/ Ends15 \/ \E added : Adds(added)
<1> DEFINE Goal == Waits \/ Skips \/ Ends15 \/ \E added : Adds(added)
<1>1. CASE NotCompressed
  <2>1. PICK d \in {"Gzip", "Zlib", "Snappy"} : Turn(d) /\ Pushes({})
    BY <1>1 DEF NotCompressed
  <2>2. next \in 1 .. 14 /\ next \in 3 .. 5
    BY <2>1, TurnIs, TurnNames
  <2>3. Adds({})
    BY <2>1, <2>2 DEF Adds, Pushes
  <2> QED
    BY <2>3
<1>2. CASE BeginDecompression \/ Decompression \/ Stopped \/ UNCHANGED vars
  BY <1>2 DEF BeginDecompression, Decompression, Stopped, vars, Waits
<1>3. CASE Decompressed
  <2>1. PICK d \in {"Gzip", "Zlib", "Snappy"} :
          /\ Turn(d) /\ read.state = "ok"
          /\ Pushes({I!Wrapper(d, read.held, read.capped, I!DepthCapped)})
    BY <1>3 DEF Decompressed
  <2>2. next \in 1 .. 14 /\ next \in 3 .. 5 /\ d = I!Detectors[next]
    BY <2>1, TurnIs, TurnNames
  <2> DEFINE c == I!Wrapper(d, read.held, read.capped, I!DepthCapped)
  <2>3. Says(next, c)
    BY <2>2 DEF Says
  <2>4. next' = next + 1 /\ out' = out \cup {c}
    BY <2>1 DEF Pushes
  <2> HIDE DEF c
  <2>5. Adds({c})
    BY <2>1, <2>2, <2>3, <2>4 DEF Adds
  <2> QED
    BY <2>5
<1>4. CASE NotDecompressed
  <2>1. PICK d \in {"Gzip", "Zlib", "Snappy"} :
          /\ Turn(d) /\ read.state = "failed"
          /\ Pushes(IF d = "Zlib" THEN {} ELSE {I!Leaf(d, I!Medium)})
    BY <1>4 DEF NotDecompressed
  <2>2. /\ next \in 1 .. 14 /\ next \in 3 .. 5 /\ d = I!Detectors[next]
        /\ d = "Zlib" <=> next = 4
    BY <2>1, TurnIs, TurnNames
  <2> DEFINE c == I!Leaf(d, I!Medium)  added == IF d = "Zlib" THEN {} ELSE {c}
  <2>3. ASSUME d # "Zlib" PROVE Says(next, c)
    <3>1. next \in {3, 5} /\ c = I!Leaf(I!Detectors[next], I!Medium)
      BY <2>2, <2>3
    <3> HIDE DEF c
    <3> QED
      BY <3>1 DEF Says
  <2>4. next' = next + 1 /\ out' = out \cup added
    BY <2>1 DEF Pushes
  <2> HIDE DEF c
  <2>5. Adds(added)
    BY <2>1, <2>2, <2>3, <2>4 DEF Adds
  <2> QED
    BY <2>5
<1>5. CASE SkipHeuristics
  BY <1>5 DEF SkipHeuristics, Skips, Done, I!Heuristics
<1>6. CASE Return
  BY <1>6 DEF Return, Ends15, Done, Returned
<1>7. CASE DetectBinaryPlist
  <2> DEFINE c == I!Leaf("BinaryPlist", Parsed(codec.plist))
  <2>1. Answers("BinaryPlist", StartsWith(blob, BplistMagic), c)
    BY <1>7 DEF DetectBinaryPlist
  <2>2. next = 1 /\ next # 9 /\ next # 8
    <3>1. Turn("BinaryPlist")
      BY <2>1 DEF Answers
    <3> QED
      BY <3>1, TurnIs, TurnNames
  <2>3. StartsWith(blob, BplistMagic) => Says(next, c)
    BY <2>2 DEF Says, Parsed
  <2> HIDE DEF c
  <2> QED
    BY <2>1, <2>2, <2>3, AnswerAdds, Zenon
<1>8. CASE DetectXmlPlist
  <2> DEFINE c == I!Leaf("XmlPlist", Parsed(codec.plist))
  <2>1. Answers("XmlPlist", XmlPlist(blob), c)
    BY <1>8 DEF DetectXmlPlist
  <2>2. next = 2 /\ next # 9 /\ next # 8
    <3>1. Turn("XmlPlist")
      BY <2>1 DEF Answers
    <3> QED
      BY <3>1, TurnIs, TurnNames
  <2>3. XmlPlist(blob) => Says(next, c)
    BY <2>2 DEF Says, Parsed
  <2> HIDE DEF c
  <2> QED
    BY <2>1, <2>2, <2>3, AnswerAdds, Zenon
<1>9. CASE DetectJson
  <2> DEFINE c == I!Leaf("Json", I!High)
  <2>1. Answers("Json", codec.json, c)
    BY <1>9 DEF DetectJson
  <2>2. next = 6 /\ next # 9 /\ next # 8
    <3>1. Turn("Json")
      BY <2>1 DEF Answers
    <3> QED
      BY <3>1, TurnIs, TurnNames
  <2>3. codec.json => Says(next, c)
    BY <2>2 DEF Says
  <2> HIDE DEF c
  <2> QED
    BY <2>1, <2>2, <2>3, AnswerAdds, Zenon
<1>10. CASE DetectUuidString
  <2> DEFINE c == I!Leaf("Uuid", I!High)
  <2>1. Answers("UuidString", Uuid(blob), c)
    BY <1>10 DEF DetectUuidString
  <2>2. next = 7 /\ next # 9 /\ next # 8
    <3>1. Turn("UuidString")
      BY <2>1 DEF Answers
    <3> QED
      BY <3>1, TurnIs, TurnNames
  <2>3. Uuid(blob) => Says(next, c)
    BY <2>2 DEF Says
  <2> HIDE DEF c
  <2> QED
    BY <2>1, <2>2, <2>3, AnswerAdds, Zenon
<1>11. CASE DetectV8
  <2> DEFINE c == Claimed
  <2>1. Answers("V8", DetectV8Blink(blob, codec.v8) # NoClaim, c)
    BY <1>11 DEF DetectV8, Claimed
  <2>2. next = 8 /\ next # 9
    <3>1. Turn("V8")
      BY <2>1 DEF Answers
    <3> QED
      BY <3>1, TurnIs, TurnNames
  <2>3. DetectV8Blink(blob, codec.v8) # NoClaim => Says(next, c)
    BY <2>2 DEF Says
  <2> QED
    BY <2>1, <2>2, <2>3, AnswerAdds, Zenon
<1>12. CASE DetectBase64
  <2> DEFINE c == Decoded64
  <2>1. Answers("Base64", TryBase64(blob), c)
    BY <1>12 DEF DetectBase64, Decoded64
  <2>2. next = 9 /\ next # 8
    <3>1. Turn("Base64")
      BY <2>1 DEF Answers
    <3> QED
      BY <3>1, TurnIs, TurnNames
  <2>3. TryBase64(blob) => Says(next, c)
    BY <2>2 DEF Says
  <2> QED
    BY <2>1, <2>2, <2>3, AnswerAdds, Zenon
<1>13. CASE DetectHex
  <2> DEFINE c == I!Wrapper("Hex", HexLen(blob), FALSE, I!DepthCapped)
  <2>1. Answers("Hex", TryHex(blob), c)
    BY <1>13 DEF DetectHex
  <2>2. next = 10 /\ next # 9 /\ next # 8
    <3>1. Turn("Hex")
      BY <2>1 DEF Answers
    <3> QED
      BY <3>1, TurnIs, TurnNames
  <2>3. TryHex(blob) => Says(next, c)
    BY <2>2 DEF Says
  <2> HIDE DEF c
  <2> QED
    BY <2>1, <2>2, <2>3, AnswerAdds, Zenon
<1>14. CASE DetectUuidBytes
  <2> DEFINE c == I!Leaf("Uuid", I!Low)
  <2>1. Answers("UuidBytes", Len(blob) = 16, c)
    BY <1>14 DEF DetectUuidBytes
  <2>2. next = 11 /\ next # 9 /\ next # 8
    <3>1. Turn("UuidBytes")
      BY <2>1 DEF Answers
    <3> QED
      BY <3>1, TurnIs, TurnNames
  <2>3. Len(blob) = 16 => Says(next, c)
    BY <2>2 DEF Says
  <2> HIDE DEF c
  <2> QED
    BY <2>1, <2>2, <2>3, AnswerAdds, Zenon
<1>15. CASE DetectUtf16Le
  <2> DEFINE c == I!Leaf("Utf16Le", IF HasBom(blob) THEN I!Medium ELSE I!Low)
  <2>1. Answers("Utf16Le", Utf16Text(blob), c)
    BY <1>15 DEF DetectUtf16Le
  <2>2. next = 12 /\ next # 9 /\ next # 8
    <3>1. Turn("Utf16Le")
      BY <2>1 DEF Answers
    <3> QED
      BY <3>1, TurnIs, TurnNames
  <2>3. Utf16Text(blob) => Says(next, c)
    BY <2>2, Zenon DEF Says, Text16
  <2> HIDE DEF c
  <2> QED
    BY <2>1, <2>2, <2>3, AnswerAdds, Zenon
<1>16. CASE DetectUtf8Text
  <2> DEFINE c == I!Leaf("Utf8Text", I!Low)
  <2>1. Answers("Utf8Text", Utf8Text(blob), c)
    BY <1>16 DEF DetectUtf8Text
  <2>2. next = 13 /\ next # 9 /\ next # 8
    <3>1. Turn("Utf8Text")
      BY <2>1 DEF Answers
    <3> QED
      BY <3>1, TurnIs, TurnNames
  <2>3. Utf8Text(blob) => Says(next, c)
    BY <2>2 DEF Says
  <2> HIDE DEF c
  <2> QED
    BY <2>1, <2>2, <2>3, AnswerAdds, Zenon
<1>17. CASE DetectProtobuf
  <2> DEFINE c == I!Leaf("Protobuf", I!ProtobufScore(codec.protobuf = "structured", out))
  <2>1. Answers("Protobuf", codec.protobuf # "none", c)
    BY <1>17 DEF DetectProtobuf
  <2>2. next = 14 /\ next # 9 /\ next # 8
    <3>1. Turn("Protobuf")
      BY <2>1 DEF Answers
    <3> QED
      BY <3>1, TurnIs, TurnNames
  <2>3. codec.protobuf # "none" => Says(next, c)
    BY <2>2 DEF Says
  <2> HIDE DEF c
  <2> QED
    BY <2>1, <2>2, <2>3, AnswerAdds, Zenon
<1> QED
  BY <1>1, <1>2, <1>3, <1>4, <1>5, <1>6, <1>7, <1>8, <1>9, <1>10, <1>11, <1>12, <1>13,
     <1>14, <1>15, <1>16, <1>17 DEF Next

-----------------------------------------------------------------------------
(* The call keeps its blob, and what the parsers say of it.                *)
InputInv == blob \in Seq(Byte) /\ codec.v8 \in BOOLEAN

(* The call begins with a blob and a verdict.                              *)
LEMMA InputInit == Init => InputInv
<1> SUFFICES ASSUME Init PROVE InputInv
  OBVIOUS
<1>1. blob \in Seq(Byte)
  BY DetectAssumption DEF Init
<1>2. codec \in Verdicts(blob)
  BY DEF Init
<1>3. codec.v8 \in (IF At(blob, 0) = VersionTag THEN BOOLEAN ELSE {FALSE})
  BY <1>2 DEF Verdicts
<1> QED
  BY <1>1, <1>3 DEF InputInv

(* What a step of a call does to a read: nothing, a step of bounded_read,  *)
(* or the end of the read.                                                 *)
LEMMA Reads ==
  ASSUME [Next]_vars
  PROVE  /\ UNCHANGED input
         /\ [ReadNext]_readVars \/ (read' = Idle /\ UNCHANGED stream)
<1>1. CASE NotCompressed
  BY <1>1 DEF NotCompressed, Pushes, readVars
<1>2. CASE BeginDecompression
  BY <1>2 DEF BeginDecompression, ReadNext, input
<1>3. CASE Decompression
  BY <1>3 DEF Decompression, ReadNext
<1>4. CASE Decompressed
  BY <1>4 DEF Decompressed, Pushes
<1>5. CASE NotDecompressed
  BY <1>5 DEF NotDecompressed, Pushes
<1>6. CASE \/ DetectBinaryPlist \/ DetectXmlPlist \/ DetectJson \/ DetectUuidString \/ DetectV8
           \/ DetectBase64 \/ DetectHex \/ DetectUuidBytes \/ DetectUtf16Le \/ DetectUtf8Text
           \/ DetectProtobuf
  BY <1>6 DEF DetectBinaryPlist, DetectXmlPlist, DetectJson, DetectUuidString, DetectV8,
     DetectBase64, DetectHex, DetectUuidBytes, DetectUtf16Le, DetectUtf8Text, DetectProtobuf,
     Answers, Pushes, readVars
<1>7. CASE SkipHeuristics \/ Return \/ Stopped \/ UNCHANGED vars
  BY <1>7 DEF SkipHeuristics, Return, Stopped, vars, input, readVars
<1> QED
  BY <1>1, <1>2, <1>3, <1>4, <1>5, <1>6, <1>7 DEF Next

-----------------------------------------------------------------------------
(* The candidates *)

(* Candidates of a kind once, by detectors that had their turn; a UUID     *)
(* that is there before the turn of 16 bytes is a text of 36, protobuf     *)
(* knows the candidates before it, and base64 is what its guards let in.   *)
Early(c, n) == /\ IP!Slot(IP!Kind(c)) < n
               /\ IP!Kind(c) = "Uuid" /\ n <= 11 => Len(blob) >= 36
Is64(c) == IP!Kind(c) = "Base64" => TryBase64(blob) /\ c = Decoded64
FoundInv == /\ \A c \in out : IP!Chain(c) /\ Early(c, next) /\ Is64(c)
            /\ IP!Distinct(out) /\ IP!Yields(out)

(* What a detector may say is of its turn. *)
Fitting(n, c) ==
  /\ IP!Chain(c) /\ Is64(c)
  /\ \/ IP!Slot(IP!Kind(c)) = n /\ (IP!Kind(c) = "Uuid" => Len(blob) >= 36)
     \/ IP!Kind(c) = "Uuid" /\ n = 11 /\ Len(blob) = 16
  /\ IP!Kind(c) = "Protobuf" =>
       /\ IP!Score(c) # IP!High
       /\ IP!Score(c) = IP!Medium => \A d \in out : IP!Score(d) # IP!High

(* A leaf of a kind that has no rule of its own fits its turn.             *)
LEMMA LeafFits ==
  ASSUME NEW k \in I!Kinds, NEW s \in {I!Low, I!Medium, I!High}, NEW n, NEW c, c = I!Leaf(k, s),
         IP!Slot(k) = n, k \notin {"Uuid", "Base64", "Protobuf"}
  PROVE  Fitting(n, c)
BY LeafSays, Zenon DEF Fitting, Is64

(* The kinds of the compressions.                                          *)
LEMMA Compressions ==
  ASSUME NEW n \in 3 .. 5
  PROVE  /\ I!Detectors[n] \in IP!Wrappers /\ I!Detectors[n] \in I!Kinds
         /\ IP!Slot(I!Detectors[n]) = n
         /\ I!Detectors[n] \notin {"Uuid", "Base64", "Protobuf"}
BY DEF I!Detectors, IP!Wrappers, I!Kinds, IP!Slot

(* What a detector of detect_v8_blink claims is one of its two kinds.      *)
LEMMA ClaimKinds ==
  ASSUME NEW b, NEW longer, DetectV8Blink(b, longer) # NoClaim
  PROVE  DetectV8Blink(b, longer).kind \in {"V8Serialized", "BlinkSerialized"}
BY DEF DetectV8Blink, Claim

(* Whatever a detector says at its turn fits.                              *)
LEMMA SaysFits ==
  ASSUME NEW n, NEW c, blob \in Seq(Byte), read.held \in Nat, read.capped \in BOOLEAN, Says(n, c)
  PROVE  Fitting(n, c)
<1>1. CASE n \in {1, 2, 6, 12, 13}
  <2> DEFINE k == I!Detectors[n]
  <2>1. k \in I!Kinds /\ IP!Slot(k) = n /\ k \notin {"Uuid", "Base64", "Protobuf"}
    BY <1>1 DEF I!Detectors, I!Kinds, IP!Slot
  <2>2. \/ n = 1 /\ k = "BinaryPlist"
        \/ n = 2 /\ k = "XmlPlist"
        \/ n = 6 /\ k = "Json"
        \/ n = 12 /\ k = "Utf16Le"
        \/ n = 13 /\ k = "Utf8Text"
    BY <1>1 DEF I!Detectors
  <2> HIDE DEF k
  <2>3. PICK s \in {I!Low, I!Medium, I!High} : c = I!Leaf(k, s)
    <3>1. CASE n \in {1, 2}
      <4>1. \E s \in {I!Medium, I!High} : c = I!Leaf(k, s)
        <5>1. CASE n = 1
          BY <2>2, <5>1 DEF Says
        <5>2. CASE n = 2
          BY <2>2, <5>2 DEF Says
        <5> QED
          BY <3>1, <5>1, <5>2
      <4> QED
        BY <4>1
    <3>2. CASE n = 6
      BY <2>2, <3>2 DEF Says
    <3>3. CASE n = 12
      <4>1. k = "Utf16Le"
        BY <2>2, <3>3
      <4>2. c = Text16
        BY <3>3 DEF Says
      <4>3. \E s \in {I!Low, I!Medium} : c = I!Leaf("Utf16Le", s)
        BY <4>2, Zenon DEF Text16
      <4> QED
        BY <4>1, <4>3
    <3>4. CASE n = 13
      BY <2>2, <3>4 DEF Says
    <3> QED
      BY <2>2, <3>1, <3>2, <3>3, <3>4
  <2> QED
    BY <2>1, <2>3, LeafFits
<1>2. CASE n \in 3 .. 5 /\ c = I!Wrapper(I!Detectors[n], read.held, read.capped, I!DepthCapped)
  <2>1. /\ I!Detectors[n] \in IP!Wrappers /\ IP!Slot(I!Detectors[n]) = n
        /\ I!Detectors[n] \notin {"Uuid", "Base64", "Protobuf"}
    BY <1>2, Compressions
  <2>2. WrapsCapped(c, I!Detectors[n], read.held, read.capped)
    BY <1>2 DEF WrapsCapped
  <2>3. IP!Chain(c) /\ IP!Kind(c) = I!Detectors[n]
    BY <2>1, <2>2, WrapperSays
  <2> QED
    BY <2>1, <2>3, Zenon DEF Fitting, Is64
<1>3. CASE n \in {3, 5} /\ c = I!Leaf(I!Detectors[n], I!Medium)
  <2>1. n \in 3 .. 5 /\ I!Medium \in {I!Low, I!Medium, I!High}
    BY <1>3
  <2> QED
    BY <1>3, <2>1, Compressions, LeafFits, Zenon
<1>4. CASE n = 7 /\ Uuid(blob) /\ c = I!Leaf("Uuid", I!High)
  <2>1. "Uuid" \in I!Kinds /\ IP!Slot("Uuid") = 7 /\ I!High \in {I!Low, I!Medium, I!High}
    BY DEF I!Kinds, IP!Slot
  <2>2. Len(blob) >= 36
    <3>1. Len(Trim(blob)) = 36
      BY <1>4 DEF Uuid
    <3> QED
      BY <3>1, TrimShortens
  <2>3. IP!Chain(c) /\ IP!Kind(c) = "Uuid"
    BY <1>4, <2>1, LeafSays
  <2> QED
    BY <1>4, <2>1, <2>2, <2>3 DEF Fitting, Is64
<1>5. CASE n = 8 /\ DetectV8Blink(blob, codec.v8) # NoClaim /\ c = Claimed
  <2>1. PICK k \in {"V8Serialized", "BlinkSerialized"}, s \in {I!Low, I!Medium, I!High} :
          c = I!Leaf(k, s)
    BY <1>5, ClaimKinds DEF Claimed, Parsed
  <2>2. k \in I!Kinds /\ IP!Slot(k) = n /\ k \notin {"Uuid", "Base64", "Protobuf"}
    BY <1>5 DEF I!Kinds, IP!Slot
  <2> QED
    BY <2>1, <2>2, LeafFits
<1>6. CASE n = 9 /\ TryBase64(blob) /\ c = Decoded64
  <2>1. "Base64" \in IP!Wrappers /\ IP!Slot("Base64") = 9 /\ Base64Len(blob) \in Nat
    BY DecodedLengths DEF IP!Wrappers, IP!Slot
  <2>2. PICK capped \in BOOLEAN : WrapsCapped(c, "Base64", Base64Len(blob), capped)
    BY <1>6 DEF WrapsCapped, Decoded64
  <2>3. IP!Chain(c) /\ IP!Kind(c) = "Base64"
    BY <2>1, <2>2, WrapperSays
  <2> QED
    BY <1>6, <2>1, <2>3 DEF Fitting, Is64
<1>7. CASE n = 10 /\ c = I!Wrapper("Hex", HexLen(blob), FALSE, I!DepthCapped)
  <2>1. "Hex" \in IP!Wrappers /\ IP!Slot("Hex") = 10 /\ HexLen(blob) \in Nat
    BY DecodedLengths DEF IP!Wrappers, IP!Slot
  <2>2. PICK capped \in BOOLEAN : WrapsCapped(c, "Hex", HexLen(blob), capped)
    BY <1>7 DEF WrapsCapped
  <2>3. IP!Chain(c) /\ IP!Kind(c) = "Hex"
    BY <2>1, <2>2, WrapperSays
  <2> QED
    BY <1>7, <2>1, <2>3 DEF Fitting, Is64
<1>8. CASE n = 11 /\ Len(blob) = 16 /\ c = I!Leaf("Uuid", I!Low)
  <2>1. "Uuid" \in I!Kinds /\ I!Low \in {I!Low, I!Medium, I!High}
    BY DEF I!Kinds
  <2>2. IP!Chain(c) /\ IP!Kind(c) = "Uuid"
    BY <1>8, <2>1, LeafSays
  <2> QED
    BY <1>8, <2>2 DEF Fitting, Is64
<1>9. CASE n = 14
  <2>1. PICK ok \in BOOLEAN : c = I!Leaf("Protobuf", I!ProtobufScore(ok, out))
    BY <1>9 DEF Says
  <2> DEFINE s == I!ProtobufScore(ok, out)
  <2>2. /\ c = I!Leaf("Protobuf", s) /\ s \in {I!Low, I!Medium}
        /\ s = I!Medium => \A d \in out : I!Score(d) # I!High
    BY <2>1 DEF I!ProtobufScore, I!Low, I!Medium
  <2> HIDE DEF s
  <2>3. /\ "Protobuf" \in I!Kinds /\ IP!Slot("Protobuf") = 14
        /\ s \in {I!Low, I!Medium, I!High} /\ s # I!High
    BY <2>2 DEF I!Kinds, IP!Slot, I!Low, I!Medium, I!High
  <2>4. IP!Chain(c) /\ IP!Kind(c) = "Protobuf" /\ IP!Score(c) = s
    BY <2>2, <2>3, LeafSays
  <2>5. \A d : I!Score(d) = IP!Score(d)
    BY DEF I!Score, IP!Score
  <2> QED
    BY <1>9, <2>2, <2>3, <2>4, <2>5, SameNames DEF Fitting, Is64
<1> QED
  BY <1>1, <1>2, <1>3, <1>4, <1>5, <1>6, <1>7, <1>8, <1>9 DEF Says

(* What was found stays in order.                                          *)
LEMMA FoundNext ==
  ASSUME FoundInv, next \in 1 .. 16, blob \in Seq(Byte), read.held \in Nat,
         read.capped \in BOOLEAN, [Next]_vars
  PROVE  FoundInv'
<1>0. blob' = blob /\ codec' = codec
  BY Reads DEF input
<1>1. Decoded64' = Decoded64 /\ \A c : Is64(c)' <=> Is64(c)
  BY <1>0 DEF Decoded64, Is64
<1>2. CASE Waits
  BY <1>0, <1>1, <1>2 DEF Waits, FoundInv, Early
<1>3. CASE Skips
  <2>1. \A c \in out : Early(c, 15)
    BY <1>3 DEF FoundInv, Early, Skips, IP!Slot
  <2> QED
    BY <1>0, <1>1, <1>3, <2>1 DEF Skips, FoundInv, Early
<1>4. CASE Ends15
  <2>1. \A c \in out : Early(c, 16)
    BY <1>4 DEF FoundInv, Early, Ends15, IP!Slot
  <2>2. CASE out # {}
    BY <1>0, <1>1, <1>4, <2>1, <2>2 DEF Ends15, FoundInv, Early
  <2>3. CASE out = {}
    <3>1. /\ I!Unknown = I!Leaf("Unknown", I!Low) /\ "Unknown" \in I!Kinds
          /\ I!Low \in {I!Low, I!Medium, I!High} /\ IP!Slot("Unknown") = 15
      BY DEF I!Unknown, I!Kinds, IP!Slot
    <3>2. IP!Chain(I!Unknown) /\ IP!Kind(I!Unknown) = "Unknown"
      BY <3>1, LeafSays, Zenon
    <3>3. Early(I!Unknown, 16) /\ Is64(I!Unknown)
      BY <3>1, <3>2 DEF Early, Is64
    <3>4. out' = {I!Unknown} /\ next' = 16
      BY <1>4, <2>3 DEF Ends15
    <3>5. IP!Distinct({I!Unknown}) /\ IP!Yields({I!Unknown})
      BY <3>2 DEF IP!Distinct, IP!Yields
    <3> QED
      BY <1>0, <1>1, <3>2, <3>3, <3>4, <3>5 DEF FoundInv, Early
  <2> QED
    BY <2>2, <2>3
<1>5. ASSUME NEW added, Adds(added) PROVE FoundInv'
  <2>1. /\ next \in 1 .. 14 /\ next' = next + 1 /\ out' = out \cup added
        /\ \A c, d \in added : c = d
    BY <1>5 DEF Adds
  <2>2. \A c \in added : Fitting(next, c)
    BY <1>5, SaysFits DEF Adds
  <2>3. \A c \in out' : IP!Chain(c) /\ Is64(c)
    BY <2>1, <2>2 DEF FoundInv, Fitting
  <2>4. ASSUME NEW c \in out' PROVE Early(c, next + 1)
    <3>1. CASE c \in out
      <4>1. IP!Slot(IP!Kind(c)) \in Nat
        BY DEF IP!Slot
      <4> QED
        BY <2>1, <3>1, <4>1 DEF FoundInv, Early
    <3>2. CASE c \in added
      <4>1. IP!Slot("Uuid") = 7
        BY DEF IP!Slot
      <4> QED
        BY <2>1, <2>2, <3>2, <4>1 DEF Fitting, Early
    <3> QED
      BY <2>1, <3>1, <3>2
  <2>5. ASSUME NEW c \in added, NEW d \in out PROVE IP!Kind(c) # IP!Kind(d)
    <3>1. Early(d, next) /\ Fitting(next, c) /\ Len(blob) \in Nat
      BY <2>2 DEF FoundInv
    <3>2. CASE IP!Slot(IP!Kind(c)) = next
      <4>1. ~(next < next)
        BY <2>1
      <4>2. IP!Slot(IP!Kind(d)) # next
        BY <3>1, <4>1, Zenon DEF Early
      <4> QED
        BY <3>2, <4>2, Zenon
    <3>3. CASE IP!Kind(c) = "Uuid" /\ next = 11 /\ Len(blob) = 16
      BY <3>1, <3>3 DEF Early
    <3> QED
      BY <3>1, <3>2, <3>3, Zenon DEF Fitting
  <2>6. IP!Distinct(out')
    BY <2>1, <2>5 DEF IP!Distinct, FoundInv
  <2>7. \A p \in out : IP!Kind(p) # "Protobuf"
    <3>1. IP!Slot("Protobuf") = 14
      BY DEF IP!Slot
    <3> QED
      BY <2>1, <3>1 DEF FoundInv, Early
  <2>8. IP!Yields(out')
    <3> SUFFICES ASSUME NEW p \in out', IP!Kind(p) = "Protobuf"
                 PROVE  /\ IP!Score(p) # IP!High
                        /\ IP!Score(p) = IP!Medium => \A c \in out' : IP!Score(c) # IP!High
      BY Zenon DEF IP!Yields
    <3>1. p \in added
      BY <2>1, <2>7
    <3>2. Fitting(next, p) /\ \A c \in added : c = p
      BY <2>1, <2>2, <3>1
    <3>3. /\ IP!Score(p) # IP!High
          /\ IP!Score(p) = IP!Medium => \A d \in out : IP!Score(d) # IP!High
      BY <3>2 DEF Fitting
    <3> QED
      BY <2>1, <3>2, <3>3
  <2> QED
    BY <1>0, <1>1, <2>1, <2>3, <2>4, <2>6, <2>8 DEF FoundInv, Early
<1> QED
  BY <1>2, <1>3, <1>4, <1>5, Steps

(* detect_v8_blink loses nothing on any blob that a call is made with.     *)
THEOREM RoutingCorrect == Spec => []RoutingLossless
<1>1. InputInv /\ [Next]_vars => InputInv'
  BY Reads DEF input, InputInv
<1>2. InputInv => RoutingLossless
  BY EveryBlobRoutes DEF InputInv, RoutingLossless
<1> QED
  BY InputInit, <1>1, <1>2, PTL DEF Spec

(* A call begins with a stream and no read.                                *)
LEMMA ReadInit == Init => IInv /\ ReadTruthful
<1>1. Init => stream \in Stream /\ read = Idle
  <2> SUFFICES ASSUME Init PROVE stream \in Stream
    BY DEF Init
  <2>1. stream \in Streams(blob) /\ MaxOutput \in Nat
    BY BoundedReadAssumption DEF Init
  <2>2. \A n \in 0 .. MaxOutput + 2 : n \in Nat
    BY <2>1
  <2>3. stream \in [len : 0 .. MaxOutput + 2, sound : BOOLEAN]
          \/ stream = [len |-> 0, sound |-> TRUE]
    BY <2>1 DEF Streams
  <2>4. CASE stream = [len |-> 0, sound |-> TRUE]
    BY <2>4 DEF Stream
  <2>5. CASE stream \in [len : 0 .. MaxOutput + 2, sound : BOOLEAN]
    <3>1. /\ stream = [len |-> stream.len, sound |-> stream.sound]
          /\ stream.len \in Nat /\ stream.sound \in BOOLEAN
      BY <2>2, <2>5, Zenon
    <3> QED
      BY <3>1, Zenon DEF Stream
  <2> QED
    BY <2>3, <2>4, <2>5
<1> QED
  BY <1>1, IInvInit DEF Idle, Read, ReadTruthful

(* A step of a call keeps the types of a read, below the largest           *)
(* max_output its truth as well.                                           *)
LEMMA ReadsKeep ==
  ASSUME IInv, [Next]_vars
  PROVE  IInv' /\ (ReadTruthful /\ MaxOutput + 1 < Width => ReadTruthful')
<1>1. CASE [ReadNext]_readVars
  BY <1>1, IInvNext, TruthfulNext
<1>2. CASE read' = Idle /\ UNCHANGED stream
  <2>1. stream' \in Stream
    BY <1>2 DEF IInv, ReadTypeOK
  <2> QED
    BY <1>2, <2>1, BoundedReadAssumption
       DEF IInv, ReadTypeOK, HeldBounded, ReadTruthful, Idle, Read
<1> QED
  BY <1>1, <1>2, Reads

(* The decompressors of a call, gzip, zlib and Snappy one after another:   *)
(* below the largest max_output, each is told the truth of its stream.     *)
THEOREM DecompressionCorrect == MaxOutput + 1 < Width => (Spec => []ReadTruthful)
<1> SUFFICES ASSUME MaxOutput + 1 < Width PROVE Spec => []ReadTruthful
  OBVIOUS
<1>1. IInv /\ ReadTruthful /\ [Next]_vars => IInv' /\ ReadTruthful'
  BY ReadsKeep
<1> QED
  BY ReadInit, <1>1, PTL DEF Spec

(* A read is in progress only where a decompressor has its turn.           *)
ReadsInTurn ==
  read.state # "idle" => next \in 3 .. 5 /\ Compressed(blob, I!Detectors[next])

(* What a call knows of itself. *)
DetectInv ==
  /\ IInv /\ FoundInv /\ ReadsInTurn
  /\ next \in 1 .. 16 /\ blob \in Seq(Byte) /\ codec \in Verdicts(blob) /\ lead \in LeadNames

(* A call begins in the invariant.                                         *)
LEMMA DetectInvInit == Init => DetectInv
<1> SUFFICES ASSUME Init PROVE DetectInv
  OBVIOUS
<1>1. blob \in Seq(Byte) /\ codec \in Verdicts(blob) /\ lead = LeadOf(blob, codec, stream)
  BY DetectAssumption DEF Init
<1>2. read.state = "idle" /\ next = 1 /\ out = {}
  BY DEF Init, Idle, Read
<1>3. lead \in LeadNames
  BY <1>1 DEF LeadOf, LeadNames
<1>4. FoundInv
  BY <1>2 DEF FoundInv, IP!Distinct, IP!Yields
<1> QED
  BY <1>1, <1>2, <1>3, <1>4, ReadInit DEF DetectInv, ReadsInTurn

(* A detector that reads nothing leaves no read behind.                    *)
LEMMA ReadsNext == ASSUME DetectInv, [Next]_vars PROVE ReadsInTurn'
<1>0. blob' = blob /\ next \in 1 .. 16
  BY Reads DEF input, DetectInv
<1>1. CASE UNCHANGED read /\ UNCHANGED next
  BY <1>0, <1>1 DEF DetectInv, ReadsInTurn
<1>2. CASE UNCHANGED read /\ read.state = "idle"
  BY <1>2 DEF ReadsInTurn
<1>3. CASE read' = Idle
  BY <1>3 DEF ReadsInTurn, Idle, Read
<1>4. CASE NotCompressed
  <2>1. PICK d \in {"Gzip", "Zlib", "Snappy"} : Turn(d) /\ ~Compressed(blob, d)
    BY <1>4 DEF NotCompressed
  <2>2. d = I!Detectors[next]
    BY <1>0, <2>1, TurnIs
  <2>3. read.state = "idle"
    BY <2>1, <2>2 DEF DetectInv, ReadsInTurn
  <2> QED
    BY <1>2, <1>4, <2>3 DEF NotCompressed
<1>5. CASE BeginDecompression
  <2>1. PICK d \in {"Gzip", "Zlib", "Snappy"} : Turn(d) /\ Compressed(blob, d) /\ next' = next
    BY <1>5 DEF BeginDecompression
  <2>2. next \in 1 .. 14 /\ d = I!Detectors[next] /\ next \in 3 .. 5
    BY <1>0, <2>1, TurnIs, TurnNames
  <2> QED
    BY <1>0, <2>1, <2>2 DEF ReadsInTurn
<1>6. CASE Decompression
  <2>1. read.state = "reading" /\ next' = next
    BY <1>6 DEF Decompression, ReadPiece, ReadFails, ReadEnds, Asks
  <2>2. next \in 3 .. 5 /\ Compressed(blob, I!Detectors[next])
    BY <2>1 DEF DetectInv, ReadsInTurn
  <2> QED
    BY <1>0, <2>1, <2>2 DEF ReadsInTurn
<1>7. ASSUME NEW d, Turn(d), UNCHANGED read, d \notin {"Gzip", "Zlib", "Snappy"}
      PROVE  ReadsInTurn'
  <2>1. next \in 1 .. 14 /\ d = I!Detectors[next]
    BY <1>0, <1>7, TurnIs
  <2>2. next \notin 3 .. 5
    BY <1>7, <2>1, TurnNames
  <2> QED
    BY <1>2, <1>7, <2>2 DEF DetectInv, ReadsInTurn
<1>8. CASE \/ DetectBinaryPlist \/ DetectXmlPlist \/ DetectJson \/ DetectUuidString \/ DetectV8
           \/ DetectBase64 \/ DetectHex \/ DetectUuidBytes \/ DetectUtf16Le \/ DetectUtf8Text
           \/ DetectProtobuf
  <2>1. UNCHANGED read /\ \E d : Turn(d) /\ d \notin {"Gzip", "Zlib", "Snappy"}
    BY <1>8 DEF DetectBinaryPlist, DetectXmlPlist, DetectJson, DetectUuidString, DetectV8,
     DetectBase64, DetectHex, DetectUuidBytes, DetectUtf16Le, DetectUtf8Text, DetectProtobuf,
     Answers
  <2> QED
    BY <1>7, <2>1
<1>9. CASE SkipHeuristics \/ Return
  <2>1. next \notin 3 .. 5 /\ UNCHANGED read
    BY <1>9 DEF SkipHeuristics, Return, Done, I!Heuristics
  <2> QED
    BY <1>2, <2>1 DEF DetectInv, ReadsInTurn
<1>10. CASE Stopped \/ UNCHANGED vars
  BY <1>1, <1>10 DEF Stopped, vars
<1> QED
  BY <1>3, <1>4, <1>5, <1>6, <1>8, <1>9, <1>10 DEF Next, Decompressed, NotDecompressed

(* A step of a call keeps the invariant.                                   *)
LEMMA DetectInvNext == DetectInv /\ [Next]_vars => DetectInv'
<1> SUFFICES ASSUME DetectInv, [Next]_vars PROVE DetectInv'
  OBVIOUS
<1>1. blob' = blob /\ codec' = codec /\ lead' = lead
  BY Reads DEF input
<1>2. read.held \in Nat /\ read.capped \in BOOLEAN
  BY BoundedReadAssumption DEF DetectInv, IInv, ReadTypeOK
<1>3. IInv' /\ FoundInv' /\ ReadsInTurn'
  BY <1>2, ReadsKeep, FoundNext, ReadsNext DEF DetectInv
<1>4. next' \in 1 .. 16
  <2>1. next \in 1 .. 16
    BY DEF DetectInv
  <2> QED
    BY <2>1, Steps DEF Waits, Skips, Ends15, Adds
<1> QED
  BY <1>1, <1>3, <1>4 DEF DetectInv, Verdicts

(* Every state of a call is in the invariant.                              *)
LEMMA DetectInvariance == Spec => []DetectInv
BY DetectInvInit, DetectInvNext, PTL DEF Spec

(* A call on a blob keeps its types, and reads only where a decompressor   *)
(* has its turn and its magic is there.                                    *)
THEOREM DetectTypeCorrect == Spec => []TypeOK
<1>1. DetectInv => TypeOK
  <2> SUFFICES ASSUME DetectInv PROVE TypeOK
    OBVIOUS
  <2>1. out \subseteq Seq(I!Link)
    BY SameNames DEF DetectInv, FoundInv, IP!Chain
  <2> QED
    BY <2>1 DEF DetectInv, TypeOK, IInv, ReadsInTurn, Returned
<1> QED
  BY DetectInvariance, <1>1, PTL

(* identify_with_limits on the bytes of any blob: no kind is read twice,   *)
(* the sort has one outcome, and protobuf yields to what came before it.   *)
THEOREM ReadingsOrderedCorrect == Spec => []ReadingsOrdered
<1>1. DetectInv => IP!ResultInv(Result)
  BY DEF DetectInv, FoundInv, Result, IP!ResultInv, IP!Distinct, IP!Yields
<1>2. IP!ResultInv(Result) => IP!StrictlySorted /\ IP!ProtobufYields
  BY IdentifyAssumed, IP!ResultSorted, IP!ResultYields
<1>3. IP!StrictlySorted => I!StrictlySorted
  BY DEF I!StrictlySorted, IP!StrictlySorted, I!Kind, IP!Kind, I!Score, IP!Score, I!SortsBefore,
     IP!SortsBefore, I!KindRank, IP!KindRank, I!LabelPosition, IP!LabelPosition, I!ByLabel,
     IP!ByLabel
<1>4. IP!ProtobufYields => I!ProtobufYields
  BY DEF I!ProtobufYields, IP!ProtobufYields, I!Kind, IP!Kind, I!Score, IP!Score, I!SortsBefore,
     IP!SortsBefore, I!KindRank, IP!KindRank, I!LabelPosition, IP!LabelPosition, I!ByLabel,
     IP!ByLabel, I!Medium, IP!Medium, I!High, IP!High
<1>5. DetectInv => ReadingsOrdered
  BY <1>1, <1>2, <1>3, <1>4 DEF ReadingsOrdered
<1> QED
  BY DetectInvariance, <1>5, PTL
-----------------------------------------------------------------------------
(* Streams of V8 and Blink *)

(* The value at tag v decodes, if what follows the tag lets it.            *)
Readable(v, longer) == v \in BareTags \/ (longer /\ v # HostObject)

(* A raw stream of one value is claimed as V8.                             *)
LEMMA V8StreamClaims ==
  ASSUME NEW b \in Seq(Byte), NEW longer \in BOOLEAN, NEW v \in ValueTags, V8Stream(b, v)
  PROVE  DetectV8Blink(b, longer)
           = Claim("V8Serialized", IF Readable(v, longer) THEN "High" ELSE "Medium")
<1>1. HeaderAt(b, 0) /\ At(b, 2) = v /\ v \in 0 .. 122
  BY DEF V8Stream, ValueTags, BareTags, HostObject
<1>2. At(b, 0) = VersionTag /\ AfterHeader(b, 0) = 2
  BY <1>1, HeaderEnds
<1>3. Len(b) >= 3
  <2>1. At(b, 2) # End
    BY <1>1 DEF End
  <2> QED
    BY <2>1, AtTypes
<1>4. ~IsBlink(b)
  BY <1>1 DEF IsBlink, TrailerTag, VersionTag
<1>6. Deserialize(b, longer) <=> Readable(v, longer)
  BY <1>1, <1>2 DEF Deserialize, Decodes, Error, Readable
<1>7. OpensAsV8(b)
  BY <1>1 DEF OpensAsV8
<1> QED
  BY <1>2, <1>3, <1>4, <1>6, <1>7 DEF DetectV8Blink

(* The trailers of an envelope end at the header within.                   *)
LEMMA TrailersEnd ==
  ASSUME NEW b \in Seq(Byte), NEW t \in 0 .. Len(b),
         \A i \in 0 .. t - 1 : At(b, 2 + i * (1 + TrailerLen)) = TrailerTag,
         At(b, 2 + t * (1 + TrailerLen)) = VersionTag
  PROVE  AfterTrailers(b, 2) = 2 + t * (1 + TrailerLen)
<1> DEFINE after(n) == 2 + n * (1 + TrailerLen)
           ends == {n \in 0 .. Len(b) :
                      /\ At(b, after(n)) # TrailerTag /\ after(n) <= Len(b)
                      /\ \A m \in 0 .. n - 1 : At(b, after(m)) = TrailerTag}
<1>1. TrailerLen \in Nat /\ 2 # Error /\ VersionTag # TrailerTag /\ VersionTag # End
  BY FramingAssumption DEF Error, VersionTag, TrailerTag, End
<1>2. after(t) \in Int
  BY <1>1
<1>3. ends # {} => AfterTrailers(b, 2) = after(CHOOSE n \in ends : TRUE)
  BY <1>1 DEF AfterTrailers
<1>4. \A i \in 0 .. t - 1 : At(b, after(i)) = TrailerTag
  OBVIOUS
<1>5. At(b, after(t)) = VersionTag
  OBVIOUS
<1> HIDE DEF after
<1>6. after(t) <= Len(b)
  BY <1>1, <1>2, <1>5, AtTypes
<1>7. t \in ends
  BY <1>1, <1>4, <1>5, <1>6
<1>8. \A n \in ends : n = t
  <2> SUFFICES ASSUME NEW n \in ends, n # t PROVE FALSE
    OBVIOUS
  <2>1. CASE n < t
    <3>1. n \in 0 .. t - 1
      BY <2>1
    <3> QED
      BY <1>4, <3>1
  <2>2. CASE t < n
    <3>1. t \in 0 .. n - 1
      BY <2>2
    <3> QED
      BY <1>1, <1>5, <3>1
  <2> QED
    BY <2>1, <2>2
<1>9. ends = {t}
  BY <1>7, <1>8
<1>10. AfterTrailers(b, 2) = after(t)
  BY <1>3, <1>9
<1> QED
  BY <1>10 DEF after

(* A stream in an envelope, with trailers or without, is claimed as Blink. *)
LEMMA BlinkStreamClaims ==
  ASSUME NEW b \in Seq(Byte), NEW longer \in BOOLEAN, NEW v \in ValueTags,
         BlinkStream(b, v)
  PROVE  DetectV8Blink(b, longer)
           = Claim("BlinkSerialized", IF Readable(v, longer) THEN "High" ELSE "Medium")
<1>1. PICK n \in 0 .. Len(b) :
        /\ \A i \in 0 .. n - 1 : At(b, 2 + i * (1 + TrailerLen)) = TrailerTag
        /\ HeaderAt(b, 2 + n * (1 + TrailerLen))
        /\ At(b, 2 + n * (1 + TrailerLen) + 2) = v
  BY DEF BlinkStream
<1>2. PICK inner \in Nat : inner = 2 + n * (1 + TrailerLen) /\ (n = 0 => inner = 2)
  BY FramingAssumption
<1>3. HeaderAt(b, 0)
  BY DEF BlinkStream
<1>4. At(b, inner) = VersionTag /\ At(b, inner + 1) \in 0 .. 127 /\ At(b, inner + 2) = v
  BY <1>1, <1>2 DEF HeaderAt
<1>5. At(b, 0) = VersionTag /\ AfterVarint(b, 1) = 2
  BY <1>3, HeaderEnds
<1>6. AfterTrailers(b, 2) = inner
  BY <1>1, <1>2, <1>4, TrailersEnd
<1>7. AfterEnvelope(b) = inner
  BY <1>5, <1>6 DEF AfterEnvelope
<1>8. AfterHeader(b, inner) = inner + 2
  <2>1. AfterVarint(b, inner + 1) = inner + 2
    BY <1>4, ShortVarint
  <2>2. inner # Error
    BY DEF Error
  <2> QED
    BY <1>4, <2>1, <2>2 DEF AfterHeader
<1>9. IsBlink(b) /\ Len(b) >= 3 /\ OpensAsV8(b)
  <2>1. At(b, 2) \in {TrailerTag, VersionTag}
    <3>1. CASE n = 0
      BY <1>2, <1>4, <3>1
    <3>2. CASE n # 0
      <4>1. 0 \in 0 .. n - 1 /\ 2 + 0 * (1 + TrailerLen) = 2
        BY <3>2, FramingAssumption
      <4> QED
        BY <1>1, <4>1
    <3> QED
      BY <3>1, <3>2
  <2>2. At(b, 2) # End
    BY <2>1 DEF TrailerTag, VersionTag, End
  <2>3. Len(b) >= 3
    BY <2>2, AtTypes
  <2> QED
    BY <2>1, <2>3 DEF IsBlink, OpensAsV8
<1>10. DeserializeBlink(b, longer) <=> Readable(v, longer)
  BY <1>4, <1>7, <1>8 DEF DeserializeBlink, Decodes, Error, Readable
<1> QED
  BY <1>5, <1>9, <1>10 DEF DetectV8Blink

(* What detectors 8 and 9 say stays among the candidates.                  *)
ClaimInv ==
  /\ next > 8 /\ DetectV8Blink(blob, codec.v8) # NoClaim => Claimed \in out
  /\ next > 9 /\ Len(blob) <= MaxInput /\ TryBase64(blob) => Decoded64 \in out

(* The call begins with nothing said.                                      *)
LEMMA ClaimInit == Init => ClaimInv
BY DEF Init, ClaimInv

(* No step takes a candidate back.                                         *)
LEMMA ClaimNext == ASSUME ClaimInv, next \in 1 .. 16, [Next]_vars PROVE ClaimInv'
<1>1. blob' = blob /\ codec' = codec
  BY Reads DEF input
<1>2. Claimed' = Claimed /\ Decoded64' = Decoded64
  BY <1>1 DEF Claimed, Decoded64
<1>3. ASSUME NEW added, Adds(added) PROVE ClaimInv'
  <2>1. next \in 1 .. 14 /\ next' = next + 1 /\ out \subseteq out' /\ added \subseteq out'
    BY <1>3 DEF Adds
  <2>2. next' > 8 /\ DetectV8Blink(blob, codec.v8) # NoClaim => Claimed \in out'
    <3>1. next' > 8 => next > 8 \/ next = 8
      BY <2>1
    <3> QED
      BY <1>3, <2>1, <3>1 DEF Adds, ClaimInv
  <2>3. next' > 9 /\ Len(blob) <= MaxInput /\ TryBase64(blob) => Decoded64 \in out'
    <3>1. next' > 9 => next > 9 \/ next = 9
      BY <2>1
    <3> QED
      BY <1>3, <2>1, <3>1 DEF Adds, ClaimInv
  <2> QED
    BY <1>1, <1>2, <2>2, <2>3 DEF ClaimInv
<1>4. CASE Waits
  BY <1>1, <1>2, <1>4 DEF Waits, ClaimInv
<1>5. CASE Skips
  <2>1. ~(Len(blob) <= MaxInput)
    <3>1. Len(blob) > MaxInput
      BY <1>5 DEF Skips
    <3> QED
      BY <3>1, DetectAssumption
  <2> QED
    BY <1>1, <1>2, <1>5, <2>1 DEF Skips, ClaimInv
<1>6. CASE Ends15
  BY <1>1, <1>2, <1>6 DEF Ends15, ClaimInv
<1> QED
  BY <1>3, <1>4, <1>5, <1>6, Steps

(* Every state of a call keeps what was said.                              *)
LEMMA ClaimInvariance == Spec => [](DetectInv /\ ClaimInv)
<1>1. DetectInv /\ ClaimInv /\ [Next]_vars => ClaimInv'
  BY ClaimNext DEF DetectInv
<1> QED
  BY DetectInvInit, DetectInvNext, ClaimInit, <1>1, PTL DEF Spec

(* detect_v8_blink: every stream whose value begins with a tag the reader  *)
(* knows is claimed under its kind, High exactly when the value decodes,   *)
(* behind any number of trailers of any length.                            *)
THEOREM StreamsClaimedCorrect == Spec => []StreamsClaimed
<1>1. DetectInv /\ ClaimInv => StreamsClaimed
  <2> SUFFICES ASSUME DetectInv, ClaimInv, next > 8, NEW v \in ValueTags
               PROVE  LET decodes == v \in BareTags \/ (codec.v8 /\ v # HostObject)
                          score == IF decodes THEN I!High ELSE I!Medium
                      IN /\ V8Stream(blob, v) => I!Leaf("V8Serialized", score) \in out
                         /\ BlinkStream(blob, v) => I!Leaf("BlinkSerialized", score) \in out
    BY DEF StreamsClaimed, Answered
  <2> DEFINE named == IF Readable(v, codec.v8) THEN "High" ELSE "Medium"
  <2>1. blob \in Seq(Byte) /\ codec.v8 \in BOOLEAN
    <3>1. codec.v8 \in (IF At(blob, 0) = VersionTag THEN BOOLEAN ELSE {FALSE})
      BY DEF DetectInv, Verdicts
    <3> QED
      BY <3>1 DEF DetectInv
  <2>2. Parsed(named = "High") = IF Readable(v, codec.v8) THEN I!High ELSE I!Medium
    BY DEF Parsed
  <2>3. ASSUME NEW k \in {"V8Serialized", "BlinkSerialized"},
               DetectV8Blink(blob, codec.v8) = Claim(k, named)
        PROVE  I!Leaf(k, IF Readable(v, codec.v8) THEN I!High ELSE I!Medium) \in out
    <3>1. DetectV8Blink(blob, codec.v8) # NoClaim
      BY <2>3 DEF Claim, NoClaim
    <3>2. Claimed = I!Leaf(k, Parsed(named = "High"))
      BY <2>3 DEF Claimed, Claim
    <3> QED
      BY <2>2, <3>1, <3>2 DEF ClaimInv
  <2> QED
    BY <2>1, <2>3, V8StreamClaims, BlinkStreamClaims DEF Readable
<1> QED
  BY ClaimInvariance, <1>1, PTL

-----------------------------------------------------------------------------
(* Base64 *)

(* The guards of try_base64 on the text without whitespace.                *)
Guards64(text) ==
  /\ Len(text) >= 8 /\ Len(text) % 4 = 0
  /\ Len(Padding(text)) <= 2 /\ Over(Padding(text), {Pad}) /\ Body(text) # <<>>
  /\ Over(Body(text), Standard) \/ Over(Body(text), UrlSafe)
  /\ LeftoverClear(Body(text), Len(Padding(text)))

(* The last group of four characters from position n on, with p of them    *)
(* lost to padding, over an alphabet.                                      *)
Ending(text, n, p, alphabet) ==
  /\ \A k \in 1 .. 4 - p : text[n + k] \in alphabet
  /\ \A k \in 5 - p .. 4 : text[n + k] = Pad
  /\ p = 1 => Sextet(text[n + 3]) % 4 = 0
  /\ p = 2 => Sextet(text[n + 2]) % 16 = 0

(* A text of groups, by its characters.                                    *)
Grouped(text, q, p, alphabet) ==
  /\ Len(text) = 4 * q /\ \A j \in 1 .. 4 * (q - 1) : text[j] \in alphabet
  /\ Ending(text, 4 * (q - 1), p, alphabet)

(* The characters of an alphabet stand for six bits; none is the pad.      *)
LEMMA Sextets ==
  ASSUME NEW alphabet \in {Standard, UrlSafe}, NEW c \in alphabet
  PROVE  c # Pad /\ Sextet(c) \in 0 .. 63
BY DEF Standard, UrlSafe, Alphanumeric, Digits, Pad, Sextet

(* The places of a group.                                                  *)
LEMMA GroupPlaces == ASSUME NEW g, g \in Seq(Byte), Len(g) = 4 PROVE DOMAIN g = 1 .. 4
OBVIOUS

(* A group of a text.                                                      *)
LEMMA Group ==
  ASSUME NEW text \in Seq(Byte), NEW i \in Nat \ {0}, 4 * i <= Len(text)
  PROVE  /\ SubSeq(text, 4 * i - 3, 4 * i) \in Seq(Byte)
         /\ Len(SubSeq(text, 4 * i - 3, 4 * i)) = 4
         /\ \A k \in 1 .. 4 : SubSeq(text, 4 * i - 3, 4 * i)[k] = text[4 * (i - 1) + k]
<1>1. PICK m \in Int, n \in Int : m = 4 * i - 3 /\ n = 4 * i
  OBVIOUS
<1>2. m \in 1 .. Len(text) + 1 /\ n \in m - 1 .. Len(text) /\ n - m + 1 = 4 /\ m - 1 = 4 * (i - 1)
  BY <1>1
<1>3. /\ SubSeq(text, m, n) \in Seq(Byte) /\ Len(SubSeq(text, m, n)) = 4
      /\ \A k \in 1 .. 4 : SubSeq(text, m, n)[k] = text[(m - 1) + k]
  BY <1>2
<1> QED
  BY <1>1, <1>2, <1>3

(* RFC 4648 in characters.                                                 *)
LEMMA RfcGroups ==
  ASSUME NEW text \in Seq(Byte)
  PROVE  IsBase64(text) <=> \E q \in Nat, p \in 0 .. 2, alphabet \in {Standard, UrlSafe} :
                              q >= 2 /\ Grouped(text, q, p, alphabet)
<1> DEFINE grp(i) == SubSeq(text, 4 * i - 3, 4 * i)
           padded(g, n, spare, alphabet) ==
             /\ Over(SubSeq(g, 1, 4 - n), alphabet)
             /\ Over(SubSeq(g, 5 - n, 4), {Pad})
             /\ Sextet(g[4 - n]) % spare = 0
           whole(q, alphabet) == \A i \in 1 .. q :
             \/ Over(grp(i), alphabet)
             \/ i = q /\ (padded(grp(i), 1, 4, alphabet) \/ padded(grp(i), 2, 16, alphabet))
<1>1. IsBase64(text) <=> /\ Len(text) >= 8 /\ Len(text) % 4 = 0
                         /\ \E alphabet \in {Standard, UrlSafe} : whole(Len(text) \div 4, alphabet)
  BY Zenon DEF IsBase64
<1>2. ASSUME NEW i \in Nat \ {0}, 4 * i <= Len(text), NEW alphabet
      PROVE  /\ Over(grp(i), alphabet) <=> Ending(text, 4 * (i - 1), 0, alphabet)
             /\ padded(grp(i), 1, 4, alphabet) <=> Ending(text, 4 * (i - 1), 1, alphabet)
             /\ padded(grp(i), 2, 16, alphabet) <=> Ending(text, 4 * (i - 1), 2, alphabet)
  <2>1. PICK g \in Seq(Byte) : /\ g = grp(i) /\ Len(g) = 4
                               /\ \A k \in 1 .. 4 : g[k] = text[4 * (i - 1) + k]
    BY <1>2, Group
  <2>2. PICK n \in Int : n = 4 * (i - 1)
    OBVIOUS
  <2>3. /\ g[1] = text[n + 1] /\ g[2] = text[n + 2] /\ g[3] = text[n + 3] /\ g[4] = text[n + 4]
    BY <2>1, <2>2
  <2>4. Over(g, alphabet) <=> Ending(text, n, 0, alphabet)
    <3>1. Over(g, alphabet) <=> \A k \in 1 .. 4 : g[k] \in alphabet
      <4>1. DOMAIN g = 1 .. 4
        BY <2>1, GroupPlaces
      <4> QED
        BY <4>1, Zenon DEF Over
    <3>2. 4 - 0 = 4 /\ 5 - 0 .. 4 = {}
      OBVIOUS
    <3>3. Ending(text, n, 0, alphabet) <=> \A k \in 1 .. 4 : text[n + k] \in alphabet
      BY <3>2 DEF Ending
    <3> QED
      BY <2>1, <2>2, <3>1, <3>3
  <2>5. padded(g, 1, 4, alphabet) <=> Ending(text, n, 1, alphabet)
    <3>1. /\ DOMAIN SubSeq(g, 1, 3) = 1 .. 3 /\ \A k \in 1 .. 3 : SubSeq(g, 1, 3)[k] = g[k]
          /\ DOMAIN SubSeq(g, 4, 4) = 1 .. 1 /\ SubSeq(g, 4, 4)[1] = g[4]
      BY <2>1
    <3>2. Over(SubSeq(g, 1, 3), alphabet) <=> \A k \in 1 .. 3 : text[n + k] \in alphabet
      <4>1. Over(SubSeq(g, 1, 3), alphabet) <=> \A k \in 1 .. 3 : g[k] \in alphabet
        BY <3>1, Zenon DEF Over
      <4> QED
        BY <2>3, <4>1
    <3>3. Over(SubSeq(g, 4, 4), {Pad}) <=> text[n + 4] = Pad
      BY <2>3, <3>1 DEF Over
    <3>4. padded(g, 1, 4, alphabet) <=> /\ Over(SubSeq(g, 1, 3), alphabet)
                                        /\ Over(SubSeq(g, 4, 4), {Pad})
                                        /\ Sextet(g[3]) % 4 = 0
      OBVIOUS
    <3> QED
      BY <2>3, <3>2, <3>3, <3>4 DEF Ending
  <2>6. padded(g, 2, 16, alphabet) <=> Ending(text, n, 2, alphabet)
    <3>1. /\ DOMAIN SubSeq(g, 1, 2) = 1 .. 2 /\ \A k \in 1 .. 2 : SubSeq(g, 1, 2)[k] = g[k]
          /\ DOMAIN SubSeq(g, 3, 4) = 1 .. 2
          /\ SubSeq(g, 3, 4)[1] = g[3] /\ SubSeq(g, 3, 4)[2] = g[4]
      BY <2>1
    <3>2. Over(SubSeq(g, 1, 2), alphabet) <=> \A k \in 1 .. 2 : text[n + k] \in alphabet
      <4>1. Over(SubSeq(g, 1, 2), alphabet) <=> \A k \in 1 .. 2 : g[k] \in alphabet
        BY <3>1, Zenon DEF Over
      <4> QED
        BY <2>3, <4>1
    <3>3. Over(SubSeq(g, 3, 4), {Pad}) <=> text[n + 3] = Pad /\ text[n + 4] = Pad
      <4>1. Over(SubSeq(g, 3, 4), {Pad}) <=> \A k \in 1 .. 2 : SubSeq(g, 3, 4)[k] \in {Pad}
        BY <3>1, Zenon DEF Over
      <4> QED
        BY <2>3, <3>1, <4>1
    <3>4. padded(g, 2, 16, alphabet) <=> /\ Over(SubSeq(g, 1, 2), alphabet)
                                         /\ Over(SubSeq(g, 3, 4), {Pad})
                                         /\ Sextet(g[2]) % 16 = 0
      OBVIOUS
    <3> QED
      BY <2>3, <3>2, <3>3, <3>4 DEF Ending
  <2> HIDE DEF padded
  <2> QED
    BY <2>1, <2>2, <2>4, <2>5, <2>6
<1> HIDE DEF grp, padded
<1>3. ASSUME NEW q \in Nat, q >= 2, Len(text) = 4 * q, NEW alphabet
      PROVE  whole(q, alphabet) <=> \E p \in 0 .. 2 : Grouped(text, q, p, alphabet)
  <2>1. \A i \in 1 .. q : i \in Nat \ {0} /\ 4 * i <= Len(text)
    BY <1>3
  <2>2. ASSUME whole(q, alphabet) PROVE \E p \in 0 .. 2 : Grouped(text, q, p, alphabet)
    <3>1. ASSUME NEW j \in 1 .. 4 * (q - 1) PROVE text[j] \in alphabet
      <4>1. PICK i \in 1 .. q - 1, k \in 1 .. 4 : j = 4 * (i - 1) + k
        <5>1. (j - 1) \div 4 + 1 \in 1 .. q - 1 /\ ((j - 1) % 4) + 1 \in 1 .. 4
              /\ j = 4 * (((j - 1) \div 4 + 1) - 1) + (((j - 1) % 4) + 1)
          BY <1>3
        <5> QED
          BY <5>1
      <4>2. i \in 1 .. q /\ i # q
        BY <1>3
      <4>3. Over(grp(i), alphabet)
        BY <2>2, <4>2
      <4>4. Ending(text, 4 * (i - 1), 0, alphabet)
        BY <1>2, <2>1, <4>2, <4>3
      <4> QED
        BY <4>1, <4>4 DEF Ending
    <3>2. \E p \in 0 .. 2 : Ending(text, 4 * (q - 1), p, alphabet)
      <4>1. q \in 1 .. q
        BY <1>3
      <4>2. \/ Over(grp(q), alphabet) \/ padded(grp(q), 1, 4, alphabet)
            \/ padded(grp(q), 2, 16, alphabet)
        BY <2>2, <4>1
      <4> QED
        BY <1>2, <2>1, <4>1, <4>2
    <3> QED
      BY <1>3, <3>1, <3>2 DEF Grouped
  <2>3. ASSUME NEW p \in 0 .. 2, Grouped(text, q, p, alphabet) PROVE whole(q, alphabet)
    <3> SUFFICES ASSUME NEW i \in 1 .. q
                 PROVE  \/ Over(grp(i), alphabet)
                        \/ i = q /\ \/ padded(grp(i), 1, 4, alphabet)
                                    \/ padded(grp(i), 2, 16, alphabet)
      OBVIOUS
    <3>1. CASE i = q
      <4>1. p = 0 \/ p = 1 \/ p = 2
        OBVIOUS
      <4>2. Ending(text, 4 * (q - 1), p, alphabet)
        BY <2>3 DEF Grouped
      <4> QED
        BY <1>2, <2>1, <3>1, <4>1, <4>2
    <3>2. CASE i # q
      <4>1. ASSUME NEW k \in 1 .. 4 PROVE text[4 * (i - 1) + k] \in alphabet
        <5>1. 4 * (i - 1) + k \in 1 .. 4 * (q - 1)
          BY <3>2
        <5> QED
          BY <2>3, <5>1 DEF Grouped
      <4>2. Ending(text, 4 * (i - 1), 0, alphabet)
        BY <4>1 DEF Ending
      <4> QED
        BY <1>2, <2>1, <4>2
    <3> QED
      BY <3>1, <3>2
  <2> QED
    BY <2>2, <2>3
<1> HIDE DEF whole
<1>4. Len(text) >= 8 /\ Len(text) % 4 = 0 =>
        Len(text) \div 4 \in Nat /\ Len(text) \div 4 >= 2 /\ Len(text) = 4 * (Len(text) \div 4)
  OBVIOUS
<1>5. ASSUME NEW q \in Nat, q >= 2, Len(text) = 4 * q
      PROVE  Len(text) >= 8 /\ Len(text) % 4 = 0 /\ Len(text) \div 4 = q
  BY <1>5
<1>6. ASSUME NEW q, NEW p, NEW alphabet, Grouped(text, q, p, alphabet) PROVE Len(text) = 4 * q
  BY <1>6 DEF Grouped
<1> QED
  BY <1>1, <1>3, <1>4, <1>5, <1>6

(* A grouped text splits at the first pad into its characters and its      *)
(* padding.                                                                *)
Splits(text, m, p) ==
  /\ m \in 0 .. Len(text) /\ p = Len(text) - m
  /\ Body(text) = SubSeq(text, 1, m) /\ Len(Body(text)) = m /\ Len(Padding(text)) = p
  /\ \A j \in 1 .. m : Body(text)[j] = text[j]
  /\ \A k \in 1 .. p : Padding(text)[k] = text[m + k]
  /\ DOMAIN Body(text) = 1 .. m /\ DOMAIN Padding(text) = 1 .. p

(* Every text splits so. *)
LEMMA TextSplits ==
  ASSUME NEW text \in Seq(Byte)
  PROVE  \E m, p \in Nat : /\ Splits(text, m, p)
                           /\ \A i \in 1 .. m : text[i] # Pad
                           /\ m < Len(text) => text[m + 1] = Pad
<1>1. PICK m \in 0 .. Len(text) :
        /\ m = Len(Body(text)) /\ Body(text) = SubSeq(text, 1, m)
        /\ \A i \in 1 .. m : text[i] # Pad
        /\ m < Len(text) => text[m + 1] = Pad
  BY BodyText
<1>2. PICK p \in Nat : p = Len(text) - m
  OBVIOUS
<1>3. /\ DOMAIN SubSeq(text, 1, m) = 1 .. m /\ \A j \in 1 .. m : SubSeq(text, 1, m)[j] = text[j]
  OBVIOUS
<1>4. /\ Len(SubSeq(text, m + 1, Len(text))) = p /\ DOMAIN SubSeq(text, m + 1, Len(text)) = 1 .. p
      /\ \A k \in 1 .. p : SubSeq(text, m + 1, Len(text))[k] = text[m + k]
  BY <1>2
<1>5. Padding(text) = SubSeq(text, m + 1, Len(text))
  BY <1>1 DEF Padding
<1>6. Splits(text, m, p)
  BY <1>1, <1>2, <1>3, <1>4, <1>5 DEF Splits
<1> QED
  BY <1>1, <1>2, <1>6

(* What the guards let through is grouped. *)
LEMMA GuardsGroup ==
  ASSUME NEW text \in Seq(Byte), Guards64(text)
  PROVE  \E q \in Nat, p \in 0 .. 2, alphabet \in {Standard, UrlSafe} :
           q >= 2 /\ Grouped(text, q, p, alphabet)
<1>1. PICK m \in Nat, p \in Nat : Splits(text, m, p)
  BY TextSplits
<1>2. PICK q \in Nat : q >= 2 /\ Len(text) = 4 * q
  <2>1. Len(text) >= 8 /\ Len(text) % 4 = 0 /\ Len(text) \in Nat
    BY DEF Guards64
  <2>2. Len(text) \div 4 \in Nat /\ Len(text) \div 4 >= 2 /\ Len(text) = 4 * (Len(text) \div 4)
    BY <2>1
  <2> QED
    BY <2>2
<1>3. p \in 0 .. 2 /\ m = 4 * q - p
  BY <1>1, <1>2 DEF Guards64, Splits
<1>4. PICK alphabet \in {Standard, UrlSafe} : Over(Body(text), alphabet)
  BY DEF Guards64
<1>5. \A j \in 1 .. m : text[j] \in alphabet
  BY <1>1, <1>4 DEF Over, Splits
<1>6. \A k \in 1 .. p : text[m + k] = Pad
  BY <1>1 DEF Over, Splits, Guards64
<1>7. /\ p = 1 => Sextet(text[m]) % 4 = 0
      /\ p = 2 => Sextet(text[m]) % 16 = 0
  <2>1. Body(text)[Len(Body(text))] = text[m]
    <3>1. m \in 1 .. m
      BY <1>2, <1>3
    <3>2. Len(Body(text)) = m /\ \A j \in 1 .. m : Body(text)[j] = text[j]
      BY <1>1 DEF Splits
    <3> QED
      BY <3>1, <3>2
  <2>2. Len(Padding(text)) = p
    BY <1>1 DEF Splits
  <2> QED
    BY <2>1, <2>2 DEF Guards64, LeftoverClear
<1>8. PICK n \in Int : n = 4 * (q - 1)
  OBVIOUS
<1>9. Ending(text, n, p, alphabet)
  <2>1. ASSUME NEW k \in 1 .. 4 - p PROVE text[n + k] \in alphabet
    <3>1. n + k \in 1 .. m
      BY <1>2, <1>3, <1>8
    <3> QED
      BY <1>5, <3>1
  <2>2. ASSUME NEW k \in 5 - p .. 4 PROVE text[n + k] = Pad
    <3>1. n + k - m \in 1 .. p /\ m + (n + k - m) = n + k
      BY <1>2, <1>3, <1>8
    <3> QED
      BY <1>6, <3>1
  <2>3. (p = 1 => m = n + 3) /\ (p = 2 => m = n + 2)
    BY <1>2, <1>3, <1>8
  <2> QED
    BY <1>7, <2>1, <2>2, <2>3 DEF Ending
<1>10. \A j \in 1 .. n : text[j] \in alphabet
  <2>1. \A j \in 1 .. n : j \in 1 .. m
    BY <1>2, <1>3, <1>8
  <2> QED
    BY <1>5, <2>1
<1> QED
  BY <1>2, <1>3, <1>8, <1>9, <1>10 DEF Grouped

(* A grouped text passes the guards, and its first pad is where it ends.   *)
LEMMA GroupsGuard ==
  ASSUME NEW text \in Seq(Byte), NEW q \in Nat, q >= 2, NEW p \in 0 .. 2,
         NEW alphabet \in {Standard, UrlSafe}, Grouped(text, q, p, alphabet)
  PROVE  Guards64(text) /\ Splits(text, 4 * q - p, p)
<1>1. PICK n \in Int : n = 4 * (q - 1)
  OBVIOUS
<1>2. /\ Len(text) = 4 * q /\ \A j \in 1 .. n : text[j] \in alphabet
      /\ Ending(text, n, p, alphabet)
  BY <1>1 DEF Grouped
<1>3. PICK m \in Nat, s \in Nat :
        /\ Splits(text, m, s) /\ \A i \in 1 .. m : text[i] # Pad
        /\ m < Len(text) => text[m + 1] = Pad
  BY TextSplits
<1>4. ASSUME NEW j \in 1 .. 4 * q - p PROVE text[j] \in alphabet
  <2>1. CASE j <= n
    BY <1>2, <2>1
  <2>2. CASE j > n
    <3>1. PICK k \in 1 .. 4 - p : j = n + k
      <4>1. j - n \in 1 .. 4 - p /\ j = n + (j - n)
        BY <1>1, <2>2
      <4> QED
        BY <4>1
    <3> QED
      BY <1>2, <3>1 DEF Ending
  <2> QED
    BY <1>1, <2>1, <2>2
<1>5. ASSUME NEW j \in 4 * q - p + 1 .. 4 * q PROVE text[j] = Pad
  <2>1. PICK k \in 5 - p .. 4 : j = n + k
    <3>1. j - n \in 5 - p .. 4 /\ j = n + (j - n)
      BY <1>1
    <3> QED
      BY <3>1
  <2> QED
    BY <1>2, <2>1 DEF Ending
<1>6. m <= Len(text) /\ s = Len(text) - m
  BY <1>3 DEF Splits
<1>7. m = 4 * q - p
  <2>1. CASE m < 4 * q - p
    <3>1. m + 1 \in 1 .. 4 * q - p /\ m < Len(text)
      BY <1>2, <2>1
    <3>2. text[m + 1] \in alphabet /\ text[m + 1] = Pad
      BY <1>3, <1>4, <3>1
    <3> QED
      BY <3>2, Sextets
  <2>2. CASE m > 4 * q - p
    <3>1. 4 * q - p + 1 \in 1 .. m /\ 4 * q - p + 1 \in 4 * q - p + 1 .. 4 * q
      BY <1>2, <1>6, <2>2
    <3> QED
      BY <1>3, <1>5, <3>1
  <2> QED
    BY <2>1, <2>2
<1>8. s = p
  BY <1>2, <1>6, <1>7
<1>9. Over(Body(text), alphabet)
  BY <1>3, <1>4, <1>7 DEF Over, Splits
<1>10. Over(Padding(text), {Pad})
  <2>1. \A k \in 1 .. p : m + k \in 4 * q - p + 1 .. 4 * q
    BY <1>7
  <2>2. \A k \in 1 .. p : Padding(text)[k] = Pad
    BY <1>3, <1>5, <1>8, <2>1 DEF Splits
  <2> QED
    BY <1>3, <1>8, <2>2 DEF Over, Splits
<1>11. LeftoverClear(Body(text), Len(Padding(text)))
  <2>1. Len(Body(text)) = m /\ Len(Padding(text)) = p /\ Body(text)[m] = text[m]
    BY <1>3, <1>7, <1>8 DEF Splits
  <2>2. Sextet(text[m]) \in Nat
    <3>1. m \in 1 .. 4 * q - p
      BY <1>7
    <3>2. text[m] \in alphabet
      BY <1>4, <3>1
    <3>3. Sextet(text[m]) \in 0 .. 63
      BY <3>2, Sextets, Zenon
    <3>4. \A x \in 0 .. 63 : x \in Nat
      OBVIOUS
    <3> QED
      BY <3>3, <3>4, Zenon
  <2>3. (p = 1 => m = n + 3) /\ (p = 2 => m = n + 2)
    BY <1>1, <1>7
  <2>4. /\ p = 1 => Sextet(text[m]) % 4 = 0
        /\ p = 2 => Sextet(text[m]) % 16 = 0
    BY <1>2, <2>3 DEF Ending
  <2>5. Sextet(text[m]) % 1 = 0
    BY <2>2
  <2> QED
    BY <2>1, <2>4, <2>5 DEF LeftoverClear
<1>12. Body(text) # <<>> /\ Len(text) >= 8 /\ Len(text) % 4 = 0 /\ Len(Padding(text)) = p
  <2>1. Len(Body(text)) = m /\ m > 0 /\ Len(Padding(text)) = p
    BY <1>3, <1>7, <1>8 DEF Splits
  <2>2. Len(<<>>) = 0
    OBVIOUS
  <2>3. Body(text) # <<>>
    BY <2>1, <2>2
  <2> QED
    BY <1>2, <2>1, <2>3
<1>13. Guards64(text)
  BY <1>9, <1>10, <1>11, <1>12 DEF Guards64
<1> QED
  BY <1>3, <1>7, <1>8, <1>13

(* try_base64 lets exactly the texts of RFC 4648 through. *)
LEMMA GuardsAreRfc == ASSUME NEW text \in Seq(Byte) PROVE Guards64(text) <=> IsBase64(text)
BY GuardsGroup, GroupsGuard, RfcGroups

(* Three quarters of the text, less the padding.                           *)
LEMMA PayloadLength ==
  ASSUME NEW text \in Seq(Byte), IsBase64(text)
  PROVE  (6 * Len(Body(text))) \div 8
           = (3 * Len(text)) \div 4 - Cardinality({i \in DOMAIN text : text[i] = Pad})
<1>1. PICK q \in Nat, p \in 0 .. 2, alphabet \in {Standard, UrlSafe} :
        q >= 2 /\ Grouped(text, q, p, alphabet)
  BY RfcGroups
<1>2. PICK m \in Nat : m = 4 * q - p
  <2>1. q \in Nat /\ q >= 2 /\ p \in 0 .. 2
    BY <1>1
  <2>2. 4 * q - p \in Nat
    BY <2>1
  <2> QED
    BY <2>2
<1>3. Splits(text, m, p) /\ Guards64(text) /\ Len(text) = 4 * q
  BY <1>1, <1>2, GroupsGuard DEF Grouped
<1>4. {i \in DOMAIN text : text[i] = Pad} = m + 1 .. 4 * q
  <2>1. \A j \in 1 .. m : text[j] # Pad
    <3>1. PICK n \in Nat : /\ n = Len(Body(text)) /\ \A i \in 1 .. n : text[i] # Pad
      BY BodyText
    <3> QED
      BY <1>3, <3>1 DEF Splits
  <2>2. ASSUME NEW j \in m + 1 .. 4 * q PROVE text[j] = Pad
    <3>1. j - m \in 1 .. p /\ m + (j - m) = j
      BY <1>2
    <3>2. \A k \in 1 .. p : Padding(text)[k] = Pad
      BY <1>3 DEF Guards64, Over, Splits
    <3> QED
      BY <1>3, <3>1, <3>2 DEF Splits
  <2>3. DOMAIN text = 1 .. 4 * q /\ m <= 4 * q
    BY <1>2, <1>3
  <2> QED
    BY <1>2, <2>1, <2>2, <2>3
<1>5. Cardinality(m + 1 .. 4 * q) = p
  <2>1. m + 1 \in Int /\ 4 * q \in Int
    OBVIOUS
  <2>2. Cardinality(m + 1 .. 4 * q) = IF m + 1 > 4 * q THEN 0 ELSE 4 * q - (m + 1) + 1
    BY <2>1, FS_Interval
  <2> QED
    BY <1>2, <2>2
<1>6. Len(Body(text)) = m
  BY <1>3 DEF Splits
<1>7. (6 * m) \div 8 = (3 * (4 * q)) \div 4 - p
  BY <1>2
<1> QED
  BY <1>3, <1>4, <1>5, <1>6, <1>7

(* try_base64, on every blob: exactly the texts that encode bytes are read *)
(* as base64, and the payload has the length they encode.                  *)
THEOREM Base64ExactCorrect == Spec => []Base64Exact
<1>1. DetectInv /\ ClaimInv => Base64Exact
  <2> SUFFICES ASSUME DetectInv, ClaimInv, next > 9, Len(blob) <= MaxInput
               PROVE  Base64Exact
    BY DEF Base64Exact, Answered
  <2> DEFINE text == Cleaned(blob)
             payload == (3 * Len(text)) \div 4
                          - Cardinality({i \in DOMAIN text : text[i] = Pad})
  <2>1. blob \in Seq(Byte) /\ text \in Seq(Byte)
    BY CleanedText DEF DetectInv
  <2>2. TryBase64(blob) <=> IsBase64(text)
    <3>1. TryBase64(blob) <=> Guards64(text)
      BY DEF TryBase64, Guards64
    <3> QED
      BY <2>1, <3>1, GuardsAreRfc
  <2>3. ASSUME IsBase64(text)
        PROVE  \E c \in out : c[1].kind = "Base64" /\ c[1].len = payload
    <3>1. Decoded64 \in out
      BY <2>2, <2>3 DEF ClaimInv
    <3>2. Base64Len(blob) = payload
      BY <2>1, <2>3, PayloadLength DEF Base64Len
    <3>3. Base64Len(blob) \in Nat /\ "Base64" \in IP!Wrappers
      BY <2>1, DecodedLengths DEF IP!Wrappers
    <3>4. PICK capped \in BOOLEAN : WrapsCapped(Decoded64, "Base64", Base64Len(blob), capped)
      BY DEF WrapsCapped, Decoded64
    <3>5. Decoded64[1].kind = "Base64" /\ Decoded64[1].len = Base64Len(blob)
      BY <3>3, <3>4, WrapperSays
    <3> QED
      BY <3>1, <3>2, <3>5
  <2>4. ASSUME ~IsBase64(text), NEW c \in out PROVE c[1].kind # "Base64"
    BY <2>2, <2>4 DEF DetectInv, FoundInv, Is64, IP!Kind
  <2> HIDE DEF text, payload
  <2>5. LET found == {c \in out : c[1].kind = "Base64"}
        IN IF IsBase64(text) THEN \E c \in found : c[1].len = payload ELSE found = {}
    BY <2>3, <2>4
  <2> QED
    BY <2>5 DEF Base64Exact, text, payload
<1> QED
  BY ClaimInvariance, <1>1, PTL

-----------------------------------------------------------------------------
(* The bytes that open a blob *)

(* The first byte that is no whitespace.                                   *)
Opens(b, c) == \E i \in DOMAIN b : /\ b[i] = c /\ c \notin Whitespace
                                   /\ \A j \in 1 .. i - 1 : b[j] \in Whitespace

(* A text opens with one byte.                                             *)
LEMMA OpensOnce ==
  ASSUME NEW b \in Seq(Byte), NEW c, NEW d, Opens(b, c), Opens(b, d)
  PROVE  c = d
<1>1. PICK i \in 1 .. Len(b) : /\ b[i] = c /\ c \notin Whitespace
                               /\ \A j \in 1 .. i - 1 : b[j] \in Whitespace
  BY DEF Opens
<1>2. PICK k \in 1 .. Len(b) : /\ b[k] = d /\ d \notin Whitespace
                               /\ \A j \in 1 .. k - 1 : b[j] \in Whitespace
  BY DEF Opens
<1>3. ~(i < k) /\ ~(k < i)
  <2>1. i < k => i \in 1 .. k - 1
    OBVIOUS
  <2>2. k < i => k \in 1 .. i - 1
    OBVIOUS
  <2> QED
    BY <1>1, <1>2, <2>1, <2>2
<1> QED
  BY <1>1, <1>2, <1>3

(* What begins with no whitespace opens with its first byte.               *)
LEMMA FirstOpens ==
  ASSUME NEW b \in Seq(Byte), Len(b) > 0, b[1] \notin Whitespace
  PROVE  Opens(b, b[1])
<1>1. 1 \in DOMAIN b /\ \A j \in 1 .. 1 - 1 : b[j] \in Whitespace
  OBVIOUS
<1> QED
  BY <1>1 DEF Opens

(* trim() and its halves keep the byte that opens a text, and nothing that *)
(* is not in it.                                                           *)
LEMMA TrimOpens ==
  ASSUME NEW b \in Seq(Byte)
  PROVE  /\ Len(Trim(b)) > 0 => Opens(b, Trim(b)[1])
         /\ Len(TrimStart(b)) > 0 => Opens(b, TrimStart(b)[1])
<1> DEFINE ink == {i \in DOMAIN b : b[i] \notin Whitespace}
<1>1. CASE ink = {}
  BY <1>1 DEF Trim, TrimStart
<1>2. CASE ink # {}
  <2>1. ink \subseteq 1 .. Len(b) /\ Len(b) \in Nat
    OBVIOUS
  <2>2. /\ Min(ink) \in ink /\ Max(ink) \in ink
        /\ \A y \in ink : Min(ink) <= y /\ y <= Max(ink)
    BY <1>2, <2>1, Ends
  <2>3. PICK m \in 1 .. Len(b), n \in 1 .. Len(b) : m = Min(ink) /\ n = Max(ink)
    BY <2>1, <2>2
  <2>4. Trim(b) = SubSeq(b, m, n) /\ TrimStart(b) = SubSeq(b, m, Len(b))
    BY <1>2, <2>3 DEF Trim, TrimStart
  <2>5. m <= n /\ b[m] \notin Whitespace
    BY <2>2, <2>3
  <2>6. \A j \in 1 .. m - 1 : b[j] \in Whitespace
    <3> SUFFICES ASSUME NEW j \in 1 .. m - 1, b[j] \notin Whitespace PROVE FALSE
      OBVIOUS
    <3>1. j \in DOMAIN b /\ j < m
      BY <2>1
    <3>2. j \in ink
      BY <2>6, <3>1
    <3>3. Min(ink) <= j
      BY <2>2, <3>2
    <3> QED
      BY <2>3, <3>1, <3>3
  <2>7. Opens(b, b[m])
    BY <2>5, <2>6 DEF Opens
  <2>8. Trim(b)[1] = b[m] /\ TrimStart(b)[1] = b[m]
    <3>1. 1 \in 1 .. n - m + 1 /\ 1 \in 1 .. Len(b) - m + 1
      BY <2>5
    <3> QED
      BY <2>4, <3>1, SubSeqProperties
  <2> QED
    BY <2>7, <2>8
<1> QED
  BY <1>1, <1>2

(* What starts with a magic has its bytes.                                 *)
LEMMA MagicBytes ==
  ASSUME NEW b \in Seq(Byte), NEW magic \in Seq(Byte), StartsWith(b, magic)
  PROVE  Len(b) >= Len(magic) /\ \A i \in 1 .. Len(magic) : b[i] = magic[i]
<1>1. Len(magic) <= Len(b) /\ SubSeq(b, 1, Len(magic)) = magic
  BY DEF StartsWith
<1>2. \A i \in 1 .. Len(magic) : SubSeq(b, 1, Len(magic))[i] = b[i]
  BY <1>1, SubSeqProperties
<1> QED
  BY <1>1, <1>2

(* What each magic says of the first bytes.                                *)
LEMMA MagicsSay ==
  ASSUME NEW b \in Seq(Byte)
  PROVE  /\ StartsWith(b, BplistMagic) => Len(b) >= 6 /\ b[1] = 98 /\ b[2] = 112
         /\ Compressed(b, "Gzip") => Len(b) >= 2 /\ b[1] = 31 /\ b[2] = 139
         /\ Compressed(b, "Snappy") => Len(b) >= 10 /\ b[1] = 255 /\ b[2] = 6 /\ b[3] = 0
         /\ Compressed(b, "Zlib") =>
              Len(b) >= 2 /\ b[1] \in {8, 24, 40, 56, 72, 88, 104, 120}
         /\ HasBom(b) => Len(b) >= 2 /\ b[1] = 255 /\ b[2] = 254
<1>1. /\ BplistMagic \in Seq(Byte) /\ SnappyMagic \in Seq(Byte) /\ <<31, 139>> \in Seq(Byte)
      /\ <<255, 254>> \in Seq(Byte)
  BY DEF BplistMagic, SnappyMagic, Byte
<1>2. ASSUME StartsWith(b, BplistMagic) PROVE Len(b) >= 6 /\ b[1] = 98 /\ b[2] = 112
  <2>1. Len(b) >= Len(BplistMagic) /\ \A i \in 1 .. Len(BplistMagic) : b[i] = BplistMagic[i]
    BY <1>1, <1>2, MagicBytes
  <2>2. /\ Len(BplistMagic) = 6 /\ BplistMagic[1] = 98 /\ BplistMagic[2] = 112
        /\ 1 \in 1 .. 6 /\ 2 \in 1 .. 6
    BY DEF BplistMagic
  <2> QED
    BY <2>1, <2>2
<1>3. ASSUME Compressed(b, "Gzip") PROVE Len(b) >= 2 /\ b[1] = 31 /\ b[2] = 139
  <2>1. StartsWith(b, <<31, 139>>)
    BY <1>3 DEF Compressed
  <2>2. PICK m \in Seq(Byte) : m = <<31, 139>>
    BY <1>1
  <2>3. Len(b) >= Len(m) /\ \A i \in 1 .. Len(m) : b[i] = m[i]
    BY <2>1, <2>2, MagicBytes
  <2>4. Len(m) = 2 /\ m[1] = 31 /\ m[2] = 139 /\ 1 \in 1 .. 2 /\ 2 \in 1 .. 2
    BY <2>2
  <2> QED
    BY <2>3, <2>4
<1>4. ASSUME Compressed(b, "Snappy")
      PROVE  Len(b) >= 10 /\ b[1] = 255 /\ b[2] = 6 /\ b[3] = 0
  <2>1. StartsWith(b, SnappyMagic)
    BY <1>4 DEF Compressed
  <2>2. Len(b) >= Len(SnappyMagic) /\ \A i \in 1 .. Len(SnappyMagic) : b[i] = SnappyMagic[i]
    BY <1>1, <2>1, MagicBytes
  <2>3. /\ Len(SnappyMagic) = 10 /\ SnappyMagic[1] = 255 /\ SnappyMagic[2] = 6
        /\ SnappyMagic[3] = 0 /\ 1 \in 1 .. 10 /\ 2 \in 1 .. 10 /\ 3 \in 1 .. 10
    BY DEF SnappyMagic
  <2> QED
    BY <2>2, <2>3
<1>5. ASSUME Compressed(b, "Zlib")
      PROVE  Len(b) >= 2 /\ b[1] \in {8, 24, 40, 56, 72, 88, 104, 120}
  <2>1. Len(b) >= 2 /\ b[1] % 16 = 8 /\ b[1] \div 16 <= 7
    BY <1>5 DEF Compressed
  <2>2. PICK x \in 0 .. 255 : x = b[1]
    <3>1. b[1] \in Byte
      BY <2>1
    <3> QED
      BY <3>1 DEF Byte
  <2>3. x % 16 = 8 /\ x \div 16 <= 7
    BY <2>1, <2>2
  <2>4. x \in {8, 24, 40, 56, 72, 88, 104, 120}
    BY <2>3
  <2> QED
    BY <2>1, <2>2, <2>4
<1>6. ASSUME HasBom(b) PROVE Len(b) >= 2 /\ b[1] = 255 /\ b[2] = 254
  <2>1. StartsWith(b, <<255, 254>>)
    BY <1>6 DEF HasBom
  <2>2. PICK m \in Seq(Byte) : m = <<255, 254>>
    BY <1>1
  <2>3. Len(b) >= Len(m) /\ \A i \in 1 .. Len(m) : b[i] = m[i]
    BY <2>1, <2>2, MagicBytes
  <2>4. Len(m) = 2 /\ m[1] = 255 /\ m[2] = 254 /\ 1 \in 1 .. 2 /\ 2 \in 1 .. 2
    BY <2>2
  <2> QED
    BY <2>3, <2>4
<1> QED
  BY <1>2, <1>3, <1>4, <1>5, <1>6

(* A nonempty set of naturals has its least member.                        *)
LEMMA MinIn == ASSUME NEW T, T \subseteq Nat, T # {} PROVE Min(T) \in T
<1>1. \E x \in T : \A y \in T : x <= y
  BY LeastExists, Zenon
<1> QED
  BY <1>1 DEF Min

(* An XML property list opens with '<' and has six bytes.                  *)
LEMMA XmlOpens == ASSUME NEW b \in Seq(Byte), XmlPlist(b) PROVE Opens(b, 60) /\ Len(b) >= 6
<1> DEFINE head == TrimStart(b)  n == Min({Len(head), 1024})  probe == SubSeq(head, 1, n)
<1>1. PICK h \in XmlHeads : StartsWith(probe, h) /\ Contains(probe, PlistWord)
  BY DEF XmlPlist
<1>2. h \in Seq(Byte) /\ Len(h) >= 5 /\ h[1] = 60
  <2>1. CASE h = <<60, 63, 120, 109, 108>>
    BY <2>1 DEF Byte
  <2>2. CASE h = <<60>> \o PlistWord
    <3>1. <<60>> \in Seq(Byte) /\ PlistWord \in Seq(Byte) /\ Len(PlistWord) = 5
      BY DEF PlistWord, Byte
    <3> QED
      BY <2>2, <3>1, ConcatProperties
  <2>3. CASE h = <<60, 33, 68, 79, 67, 84, 89, 80, 69>>
    BY <2>3 DEF Byte
  <2> QED
    BY <2>1, <2>2, <2>3 DEF XmlHeads
<1>3. head \in Seq(Byte) /\ Len(head) \in Nat /\ Len(head) <= Len(b)
  <2> DEFINE ink == {i \in DOMAIN b : b[i] \notin Whitespace}
  <2>1. CASE ink = {}
    BY <2>1 DEF TrimStart
  <2>2. CASE ink # {}
    <3>1. ink \subseteq Nat /\ ink \subseteq 1 .. Len(b)
      OBVIOUS
    <3>2. Min(ink) \in 1 .. Len(b)
      BY <2>2, <3>1, MinIn
    <3>3. PICK m \in 1 .. Len(b) : head = SubSeq(b, m, Len(b))
      BY <2>2, <3>2 DEF TrimStart
    <3> QED
      BY <3>3
  <2> QED
    BY <2>1, <2>2
<1>4. TrimStart(b) = head
  OBVIOUS
<1> HIDE DEF head
<1>5. n \in Nat /\ n <= Len(head)
  <2>1. {Len(head), 1024} \subseteq Nat /\ {Len(head), 1024} # {}
    BY <1>3
  <2>3. \E x \in {Len(head), 1024} : \A y \in {Len(head), 1024} : x <= y
    BY <1>3
  <2>4. n \in {Len(head), 1024} /\ n <= Len(head)
    BY <2>3 DEF Min
  <2> QED
    BY <2>1, <2>4
<1> HIDE DEF n
<1>6. probe \in Seq(Byte) /\ Len(probe) = n /\ \A i \in 1 .. n : probe[i] = head[i]
  BY <1>3, <1>5, SubSeqProperties
<1> HIDE DEF probe
<1>7. Len(probe) >= 5 /\ probe[1] = 60
  <2>1. Len(probe) >= Len(h) /\ \A i \in 1 .. Len(h) : probe[i] = h[i]
    BY <1>1, <1>2, <1>6, MagicBytes
  <2> QED
    BY <1>2, <2>1
<1>8. head[1] = 60 /\ Len(head) > 0
  BY <1>5, <1>6, <1>7
<1>9. Opens(b, 60)
  BY <1>4, <1>8, TrimOpens
<1>10. n >= 6
  <2>1. PICK i \in 1 .. Len(probe) - Len(PlistWord) + 1 :
          SubSeq(probe, i, i + Len(PlistWord) - 1) = PlistWord
    BY <1>1 DEF Contains
  <2>2. Len(PlistWord) = 5 /\ PlistWord[1] = 112
    BY DEF PlistWord
  <2>3. i \in 1 .. Len(probe) - 4 /\ SubSeq(probe, i, i + 4)[1] = 112
    BY <2>1, <2>2
  <2>4. SubSeq(probe, i, i + 4)[1] = probe[i]
    BY <1>6, <2>3, SubSeqProperties
  <2> QED
    BY <1>5, <1>6, <1>7, <2>3, <2>4
<1> QED
  BY <1>3, <1>5, <1>9, <1>10

(* What trim() leaves: all that is no whitespace, and every byte if the    *)
(* first is none.                                                          *)
LEMMA TrimKeeps ==
  ASSUME NEW b \in Seq(Byte)
  PROVE  /\ \A i \in DOMAIN b : \/ b[i] \in Whitespace
                                \/ \E j \in DOMAIN Trim(b) : Trim(b)[j] = b[i]
         /\ Len(b) > 0 /\ b[1] \notin Whitespace
              => \A j \in DOMAIN Trim(b) : Trim(b)[j] = b[j]
<1> DEFINE ink == {i \in DOMAIN b : b[i] \notin Whitespace}
<1>1. CASE ink = {}
  BY <1>1 DEF Trim
<1>2. CASE ink # {}
  <2>1. ink \subseteq 1 .. Len(b) /\ Len(b) \in Nat
    OBVIOUS
  <2>2. \A i \in DOMAIN b : b[i] \in Whitespace \/ i \in ink
    OBVIOUS
  <2>3. \A i \in ink : Min(ink) <= i /\ i <= Max(ink)
    BY <1>2, <2>1, Ends
  <2>4. PICK m \in 1 .. Len(b), n \in 1 .. Len(b) : m = Min(ink) /\ n = Max(ink)
    BY <1>2, <2>1, Ends
  <2>5. Trim(b) = SubSeq(b, m, n)
    BY <1>2, <2>4 DEF Trim
  <2>6. 1 \in DOMAIN b /\ b[1] \notin Whitespace => 1 \in ink
    OBVIOUS
  <2> HIDE DEF ink
  <2>7. m <= n /\ \A i \in ink : m <= i /\ i <= n
    <3>1. \E i \in ink : i \in 1 .. Len(b)
      BY <1>2, <2>1
    <3> QED
      BY <2>3, <2>4, <3>1
  <2>8. /\ DOMAIN Trim(b) = 1 .. n - m + 1
        /\ \A j \in 1 .. n - m + 1 : Trim(b)[j] = b[m + j - 1]
    BY <2>5, <2>7, SubSeqProperties
  <2>9. ASSUME NEW i \in ink PROVE \E j \in DOMAIN Trim(b) : Trim(b)[j] = b[i]
    <3>1. i \in 1 .. Len(b) /\ m <= i /\ i <= n
      BY <2>1, <2>7
    <3>2. i - m + 1 \in 1 .. n - m + 1 /\ m + (i - m + 1) - 1 = i
      BY <3>1
    <3> QED
      BY <2>8, <3>2
  <2>10. ASSUME 1 \in ink PROVE \A j \in DOMAIN Trim(b) : Trim(b)[j] = b[j]
    <3>1. m = 1
      BY <2>7, <2>10
    <3> QED
      BY <2>8, <3>1
  <2> QED
    BY <2>2, <2>6, <2>9, <2>10
<1> QED
  BY <1>1, <1>2

(* A JSON root is a bracket.                                               *)
LEMMA JsonOpens ==
  ASSUME NEW b \in Seq(Byte), JsonMayParse(b)
  PROVE  /\ Opens(b, 123) \/ Opens(b, 91)
         /\ Len(b) >= 2 /\ \A i \in DOMAIN b : b[i] # 0
<1>1. Len(Trim(b)) > 0 /\ Trim(b)[1] \in {123, 91} /\ Len(Trim(b)) >= 2
  BY DEF JsonMayParse, JsonRoot
<1>2. Len(b) >= 2
  BY <1>1, TrimShortens
<1>3. ASSUME NEW i \in DOMAIN b PROVE b[i] # 0
  BY DEF JsonMayParse, Whitespace
<1> QED
  BY <1>1, <1>2, <1>3, TrimOpens

(* Text of a UUID.                                                         *)
LEMMA UuidOpens ==
  ASSUME NEW b \in Seq(Byte), Uuid(b)
  PROVE  /\ \E c \in HexDigits : Opens(b, c)
         /\ Len(b) >= 36 /\ Len(Trim(b)) = 36 /\ Trim(b)[2] \in HexDigits /\ Trim(b)[9] = 45
         /\ \A i \in DOMAIN b : b[i] \in Whitespace \cup HexDigits \cup {45}
<1>1. Len(Trim(b)) = 36 /\ \A i \in 1 .. 36 :
         IF i \in {9, 14, 19, 24} THEN Trim(b)[i] = 45 ELSE Trim(b)[i] \in HexDigits
  BY DEF Uuid
<1>2. Trim(b)[1] \in HexDigits /\ Trim(b)[2] \in HexDigits /\ Trim(b)[9] = 45
  <2>1. 1 \in 1 .. 36 /\ 2 \in 1 .. 36 /\ 9 \in 1 .. 36
    OBVIOUS
  <2> QED
    BY <1>1, <2>1
<1>3. \A i \in DOMAIN b : b[i] \in Whitespace \cup HexDigits \cup {45}
  <2>1. \A j \in 1 .. 36 : Trim(b)[j] \in HexDigits \cup {45}
    BY <1>1
  <2>2. DOMAIN Trim(b) = 1 .. 36
    <3>1. Trim(b) \in Seq(Byte)
      BY TrimShortens
    <3> QED
      BY <1>1, <3>1
  <2>3. ASSUME NEW i \in DOMAIN b, b[i] \notin Whitespace PROVE b[i] \in HexDigits \cup {45}
    <3>1. PICK j \in DOMAIN Trim(b) : Trim(b)[j] = b[i]
      BY <2>3, TrimKeeps
    <3> QED
      BY <2>1, <2>2, <3>1
  <2> QED
    BY <2>3
<1>4. Opens(b, Trim(b)[1]) /\ Len(b) >= 36
  <2>1. Len(Trim(b)) = 36 /\ Len(Trim(b)) > 0
    BY <1>1
  <2>2. Opens(b, Trim(b)[1])
    BY <2>1, TrimOpens
  <2>3. Len(b) >= 36
    BY <2>1, TrimShortens
  <2> QED
    BY <2>2, <2>3
<1> QED
  BY <1>1, <1>2, <1>3, <1>4

(* Hexadecimal text.                                                       *)
LEMMA HexOpens ==
  ASSUME NEW b \in Seq(Byte), TryHex(b)
  PROVE  /\ \A j \in DOMAIN Trim(b) : Trim(b)[j] \in HexDigits
         /\ Len(Trim(b)) >= 4 /\ Len(b) >= Len(Trim(b)) /\ Len(Trim(b)) \in Nat
         /\ \A i \in DOMAIN b : b[i] \in Whitespace \cup HexDigits
<1>1. /\ \A j \in DOMAIN Trim(b) : Trim(b)[j] \in HexDigits
      /\ Len(Trim(b)) >= 4
  BY DEF TryHex, Over
<1> QED
  BY <1>1, TrimShortens, TrimKeeps

(* The characters of base64, in either alphabet.                           *)
Base64Chars == Alphanumeric \cup {43, 47, 45, 95, 61}

(* Base64 text.                                                            *)
LEMMA Base64Opens ==
  ASSUME NEW b \in Seq(Byte), TryBase64(b)
  PROVE  /\ \A i \in DOMAIN b : b[i] \in Whitespace \cup Base64Chars
         /\ Len(b) >= Len(Cleaned(b)) /\ Len(Cleaned(b)) >= 8
         /\ Len(Body(Cleaned(b))) \in Len(Cleaned(b)) - 2 .. Len(Cleaned(b))
<1>1. PICK text \in Seq(Byte) : text = Cleaned(b) /\ Collects(text, b, Len(b))
  BY CleanedCollects DEF Collects
<1>2. Guards64(text)
  BY <1>1 DEF TryBase64, Guards64
<1>3. PICK n \in 0 .. Len(text) : n = Len(Body(text)) /\ Body(text) = SubSeq(text, 1, n)
  BY BodyText
<1>4. Padding(text) = SubSeq(text, n + 1, Len(text)) /\ Len(text) \in Nat
  BY <1>3 DEF Padding
<1>5. Len(Padding(text)) = Len(text) - n
  BY <1>4, SubSeqProperties
<1>6. \A j \in 1 .. n : text[j] = Body(text)[j] /\ j \in DOMAIN Body(text)
  BY <1>3, SubSeqProperties
<1>7. ASSUME NEW j \in n + 1 .. Len(text)
      PROVE  text[j] = Padding(text)[j - n] /\ j - n \in DOMAIN Padding(text)
  <2>1. j - n \in 1 .. Len(text) - n /\ (n + 1) + (j - n) - 1 = j
    OBVIOUS
  <2> QED
    BY <1>4, <2>1, SubSeqProperties
<1>8. ASSUME NEW j \in DOMAIN text PROVE text[j] \in Base64Chars
  <2>1. CASE j \in 1 .. n
    BY <1>2, <1>6, <2>1 DEF Guards64, Over, Standard, UrlSafe, Base64Chars
  <2>2. CASE j \in n + 1 .. Len(text)
    BY <1>2, <1>7, <2>2 DEF Guards64, Over, Pad, Base64Chars
  <2>3. j \in 1 .. n \/ j \in n + 1 .. Len(text)
    OBVIOUS
  <2> QED
    BY <2>1, <2>2, <2>3
<1>9. \A i \in DOMAIN b : b[i] \in Whitespace \cup Base64Chars
  BY <1>1, <1>8 DEF Collects
<1>10. Len(b) >= Len(text) /\ Len(text) >= 8 /\ n \in Len(text) - 2 .. Len(text)
  <2>1. Len(text) >= 8 /\ Len(Padding(text)) <= 2 /\ Len(text) <= Len(b)
    BY <1>1, <1>2 DEF Guards64, Collects
  <2> QED
    BY <1>5, <2>1
<1> QED
  BY <1>1, <1>3, <1>9, <1>10

(* A claim of detect_v8_blink.                                             *)
LEMMA ClaimOpens ==
  ASSUME NEW b \in Seq(Byte), NEW longer, DetectV8Blink(b, longer) # NoClaim
  PROVE  /\ Len(b) >= 3 /\ b[1] = 255 /\ ~(b[2] = 6 /\ b[3] = 0)
<1>1. /\ At(b, 0) = VersionTag /\ Len(b) >= 3
  BY DEF DetectV8Blink
<1>2. At(b, 0) = b[1] /\ At(b, 1) = b[2] /\ At(b, 2) = b[3]
  <2>1. 0 \in 0 .. Len(b) - 1 /\ 1 \in 0 .. Len(b) - 1 /\ 2 \in 0 .. Len(b) - 1
    BY <1>1
  <2> QED
    BY <2>1 DEF At
<1>3. ASSUME b[2] = 6, b[3] = 0 PROVE FALSE
  <2>1. At(b, 1) = 6 /\ At(b, 2) = 0 /\ HeaderAt(b, 0)
    BY <1>1, <1>2, <1>3 DEF HeaderAt
  <2>2. 0 \notin ValueTags /\ 0 \notin BareTags
    BY DEF ValueTags, BareTags, HostObject
  <2>3. ~OpensAsV8(b) /\ ~IsBlink(b)
    BY <2>1, <2>2 DEF OpensAsV8, IsBlink, TrailerTag, VersionTag
  <2>4. ~Deserialize(b, longer)
    BY <2>1, <2>2, HeaderEnds DEF Deserialize, Decodes
  <2> QED
    BY <2>3, <2>4 DEF DetectV8Blink
<1> QED
  BY <1>1, <1>2, <1>3 DEF VersionTag

-----------------------------------------------------------------------------
(* The lead of a blob *)

(* The verdicts are of their types.                                        *)
LEMMA VerdictTypes ==
  ASSUME NEW b \in Seq(Byte), NEW c \in Verdicts(b)
  PROVE  /\ c.json \in BOOLEAN /\ c.plist \in BOOLEAN /\ c.v8 \in BOOLEAN
         /\ c.json => JsonMayParse(b)
         /\ c.protobuf \in {"none", "scalars", "structured"}
         /\ c.protobuf # "none" => ProtobufMayParse(b)
<1>1. c.json \in IF JsonMayParse(b) THEN BOOLEAN ELSE {FALSE}
  BY DEF Verdicts
<1>2. c.plist \in IF StartsWith(b, BplistMagic) \/ XmlPlist(b) THEN BOOLEAN ELSE {FALSE}
  BY DEF Verdicts
<1>3. c.v8 \in IF At(b, 0) = VersionTag THEN BOOLEAN ELSE {FALSE}
  BY DEF Verdicts
<1>4. c.protobuf \in IF ProtobufMayParse(b) THEN {"none", "scalars", "structured"} ELSE {"none"}
  BY DEF Verdicts
<1> QED
  BY <1>1, <1>2, <1>3, <1>4

(* A claim or none.                                                        *)
LEMMA ClaimIs ==
  ASSUME NEW b, NEW longer
  PROVE  \/ DetectV8Blink(b, longer) = NoClaim /\ DetectV8Blink(b, longer).kind = "none"
         \/ /\ DetectV8Blink(b, longer) # NoClaim
            /\ DetectV8Blink(b, longer).kind \in {"V8Serialized", "BlinkSerialized"}
BY DEF DetectV8Blink, Claim, NoClaim

(* The first guard that holds makes the lead.                              *)
LEMMA LeadMeans ==
  ASSUME NEW b, NEW c, NEW z, NEW l, l = LeadOf(b, c, z)
  PROVE  /\ l = "bplist" => StartsWith(b, BplistMagic)
         /\ l = "xml" => XmlPlist(b)
         /\ l = "gzip" => Compressed(b, "Gzip")
         /\ l = "zlib" => Compressed(b, "Zlib") /\ (z.sound \/ z.len > MaxOutput)
         /\ l = "snappy" => Compressed(b, "Snappy")
         /\ l = "json" => c.json
         /\ l = "uuid" => Uuid(b)
         /\ l = "bom" => HasBom(b) /\ Len(b) >= 4
         /\ l = "v8" => DetectV8Blink(b, c.v8).kind = "V8Serialized"
         /\ l = "blink" => DetectV8Blink(b, c.v8).kind = "BlinkSerialized"
         /\ l = "ascii" => TryBase64(b) \/ TryHex(b)
         /\ l = "text" => Utf8Text(b)
         /\ l \in LeadNames
BY DEF LeadOf, LeadNames

(* What a guard makes of the lead, when those before it do not hold.       *)
LEMMA LeadFirst ==
  ASSUME NEW b, NEW c, NEW z, NEW l, l = LeadOf(b, c, z)
  PROVE  /\ StartsWith(b, BplistMagic) => l = "bplist"
         /\ XmlPlist(b) => l \in {"bplist", "xml"}
         /\ Compressed(b, "Gzip") => l \in {"bplist", "xml", "gzip"}
         /\ Compressed(b, "Zlib") /\ (z.sound \/ z.len > MaxOutput) =>
              l \in {"bplist", "xml", "gzip", "zlib"}
         /\ Compressed(b, "Snappy") => l \in {"bplist", "xml", "gzip", "zlib", "snappy"}
         /\ c.json => l \in {"bplist", "xml", "gzip", "zlib", "snappy", "json"}
         /\ Uuid(b) => l \in {"bplist", "xml", "gzip", "zlib", "snappy", "json", "uuid"}
         /\ HasBom(b) /\ Len(b) >= 4 =>
              l \in {"bplist", "xml", "gzip", "zlib", "snappy", "json", "uuid", "bom"}
         /\ DetectV8Blink(b, c.v8).kind \in {"V8Serialized", "BlinkSerialized"} =>
              \/ l \in {"bplist", "xml", "gzip", "zlib", "snappy", "json", "uuid", "bom"}
              \/ l = "v8" /\ DetectV8Blink(b, c.v8).kind = "V8Serialized"
              \/ l = "blink" /\ DetectV8Blink(b, c.v8).kind = "BlinkSerialized"
         /\ TryBase64(b) \/ TryHex(b) => l \notin {"text", "binary"}
         /\ Utf8Text(b) => l # "binary"
BY DEF LeadOf

(* The bytes that open what each lead is made of.                          *)
LEMMA LeadOpens ==
  ASSUME NEW b \in Seq(Byte), NEW c \in Verdicts(b), NEW z, NEW l, l = LeadOf(b, c, z)
  PROVE  /\ l = "bplist" => b[1] = 98 /\ b[2] = 112 /\ Len(b) >= 6 /\ Opens(b, 98)
         /\ l = "xml" => Opens(b, 60) /\ Len(b) >= 6
         /\ l = "gzip" => b[1] = 31 /\ b[2] = 139 /\ Len(b) >= 2 /\ Opens(b, 31)
         /\ l = "zlib" => /\ b[1] \in {8, 24, 40, 56, 72, 88, 104, 120} /\ Len(b) >= 2
                          /\ Opens(b, b[1])
         /\ l = "snappy" => b[1] = 255 /\ b[2] = 6 /\ b[3] = 0 /\ Len(b) >= 10 /\ Opens(b, 255)
         /\ l = "json" => /\ Opens(b, 123) \/ Opens(b, 91)
                          /\ Len(b) >= 2 /\ \A i \in DOMAIN b : b[i] # 0
         /\ l = "uuid" => Uuid(b)
         /\ l = "bom" => b[1] = 255 /\ b[2] = 254 /\ Len(b) >= 4 /\ Opens(b, 255)
         /\ l \in {"v8", "blink"} => Len(b) >= 3 /\ b[1] = 255 /\ Opens(b, 255)
<1>1. \A x : Len(b) > 0 /\ b[1] = x /\ x \notin Whitespace => Opens(b, x)
  BY FirstOpens
<1>2. /\ 98 \notin Whitespace /\ 31 \notin Whitespace /\ 255 \notin Whitespace
      /\ \A x \in {8, 24, 40, 56, 72, 88, 104, 120} : x \notin Whitespace
  BY DEF Whitespace
<1>3. l = "bplist" => b[1] = 98 /\ b[2] = 112 /\ Len(b) >= 6 /\ Opens(b, 98)
  <2>1. l = "bplist" => StartsWith(b, BplistMagic)
    BY LeadMeans
  <2>2. l = "bplist" => b[1] = 98 /\ b[2] = 112 /\ Len(b) >= 6
    BY <2>1, MagicsSay
  <2>3. Len(b) \in Nat
    OBVIOUS
  <2> QED
    BY <1>1, <1>2, <2>2, <2>3
<1>4. l = "xml" => Opens(b, 60) /\ Len(b) >= 6
  BY LeadMeans, XmlOpens
<1>5. l = "gzip" => b[1] = 31 /\ b[2] = 139 /\ Len(b) >= 2 /\ Opens(b, 31)
  <2>1. l = "gzip" => Compressed(b, "Gzip")
    BY LeadMeans
  <2>2. l = "gzip" => b[1] = 31 /\ b[2] = 139 /\ Len(b) >= 2
    BY <2>1, MagicsSay
  <2>3. Len(b) \in Nat
    OBVIOUS
  <2> QED
    BY <1>1, <1>2, <2>2, <2>3
<1>6. l = "zlib" => /\ b[1] \in {8, 24, 40, 56, 72, 88, 104, 120} /\ Len(b) >= 2
                    /\ Opens(b, b[1])
  <2>1. l = "zlib" => Compressed(b, "Zlib")
    BY LeadMeans
  <2>2. l = "zlib" => b[1] \in {8, 24, 40, 56, 72, 88, 104, 120} /\ Len(b) >= 2
    BY <2>1, MagicsSay
  <2>3. Len(b) \in Nat
    OBVIOUS
  <2> QED
    BY <1>1, <1>2, <2>2, <2>3
<1>7. l = "snappy" => b[1] = 255 /\ b[2] = 6 /\ b[3] = 0 /\ Len(b) >= 10 /\ Opens(b, 255)
  <2>1. l = "snappy" => Compressed(b, "Snappy")
    BY LeadMeans
  <2>2. l = "snappy" => b[1] = 255 /\ b[2] = 6 /\ b[3] = 0 /\ Len(b) >= 10
    BY <2>1, MagicsSay
  <2>3. Len(b) \in Nat
    OBVIOUS
  <2> QED
    BY <1>1, <1>2, <2>2, <2>3
<1>8. l = "json" => /\ Opens(b, 123) \/ Opens(b, 91)
                    /\ Len(b) >= 2 /\ \A i \in DOMAIN b : b[i] # 0
  <2> SUFFICES ASSUME l = "json" PROVE JsonMayParse(b)
    BY JsonOpens
  <2>1. c.json
    BY LeadMeans
  <2> QED
    BY <2>1, VerdictTypes
<1>9. l = "uuid" => Uuid(b)
  BY LeadMeans
<1>10. l = "bom" => b[1] = 255 /\ b[2] = 254 /\ Len(b) >= 4 /\ Opens(b, 255)
  <2>1. l = "bom" => HasBom(b) /\ Len(b) >= 4
    BY LeadMeans
  <2>2. l = "bom" => b[1] = 255 /\ b[2] = 254 /\ Len(b) >= 4
    BY <2>1, MagicsSay
  <2>3. Len(b) \in Nat
    OBVIOUS
  <2> QED
    BY <1>1, <1>2, <2>2, <2>3
<1>11. l \in {"v8", "blink"} => Len(b) >= 3 /\ b[1] = 255 /\ Opens(b, 255)
  <2> SUFFICES ASSUME l \in {"v8", "blink"} PROVE Len(b) >= 3 /\ b[1] = 255 /\ Opens(b, 255)
    OBVIOUS
  <2>1. DetectV8Blink(b, c.v8) # NoClaim
    BY LeadMeans, ClaimIs
  <2>2. Len(b) >= 3 /\ b[1] = 255
    BY <2>1, ClaimOpens
  <2> QED
    BY <1>1, <1>2, <2>2
<1> QED
  BY <1>3, <1>4, <1>5, <1>6, <1>7, <1>8, <1>9, <1>10, <1>11

(* The byte that opens a blob, by its lead.                                *)
LEMMA LeadOpening ==
  ASSUME NEW b \in Seq(Byte), NEW c \in Verdicts(b), NEW z, NEW l, l = LeadOf(b, c, z),
         NEW x, Opens(b, x)
  PROVE  /\ l = "bplist" => x = 98
         /\ l = "xml" => x = 60
         /\ l = "gzip" => x = 31
         /\ l = "zlib" => x \in {8, 24, 40, 56, 72, 88, 104, 120}
         /\ l = "json" => x \in {123, 91}
         /\ l = "uuid" => x \in HexDigits
         /\ l \in {"snappy", "bom", "v8", "blink"} => x = 255
<1>1. \A y : Opens(b, y) => x = y
  BY OpensOnce
<1>2. l = "uuid" => \E y \in HexDigits : Opens(b, y)
  <2>1. l = "uuid" => Uuid(b)
    BY LeadMeans
  <2> QED
    BY <2>1, UuidOpens
<1> QED
  BY <1>1, <1>2, LeadOpens

(* The leads that magics and parsers make are theirs alone.                *)
LEMMA LeadIff ==
  ASSUME NEW b \in Seq(Byte), NEW c \in Verdicts(b), NEW z, NEW l, l = LeadOf(b, c, z)
  PROVE  /\ StartsWith(b, BplistMagic) <=> l = "bplist"
         /\ XmlPlist(b) <=> l = "xml"
         /\ Compressed(b, "Gzip") <=> l = "gzip"
         /\ Compressed(b, "Zlib") /\ (z.sound \/ z.len > MaxOutput) <=> l = "zlib"
         /\ Compressed(b, "Snappy") <=> l = "snappy"
         /\ c.json <=> l = "json"
         /\ Uuid(b) => l \in {"zlib", "uuid"}
         /\ HasBom(b) /\ Len(b) >= 4 <=> l = "bom"
<1>1. StartsWith(b, BplistMagic) <=> l = "bplist"
  BY LeadFirst, LeadMeans
<1>2. XmlPlist(b) <=> l = "xml"
  <2>1. ASSUME XmlPlist(b) PROVE l # "bplist"
    BY <2>1, XmlOpens, LeadOpening
  <2> QED
    BY <2>1, LeadFirst, LeadMeans
<1>3. Compressed(b, "Gzip") <=> l = "gzip"
  <2>1. ASSUME Compressed(b, "Gzip") PROVE Opens(b, 31)
    <3>1. Len(b) > 0 /\ b[1] = 31 /\ 31 \notin Whitespace
      BY <2>1, MagicsSay DEF Whitespace
    <3> QED
      BY <3>1, FirstOpens
  <2>2. ASSUME Compressed(b, "Gzip") PROVE l \notin {"bplist", "xml"}
    BY <2>1, <2>2, LeadOpening
  <2> QED
    BY <2>2, LeadFirst, LeadMeans
<1>4. Compressed(b, "Zlib") /\ (z.sound \/ z.len > MaxOutput) <=> l = "zlib"
  <2>1. ASSUME Compressed(b, "Zlib")
        PROVE  \E x \in {8, 24, 40, 56, 72, 88, 104, 120} : Opens(b, x)
    <3>1. Len(b) > 0 /\ b[1] \in {8, 24, 40, 56, 72, 88, 104, 120} /\ b[1] \notin Whitespace
      BY <2>1, MagicsSay DEF Whitespace
    <3> QED
      BY <3>1, FirstOpens
  <2>2. ASSUME Compressed(b, "Zlib") PROVE l \notin {"bplist", "xml", "gzip"}
    BY <2>1, <2>2, LeadOpening
  <2> QED
    BY <2>2, LeadFirst, LeadMeans
<1>5. ASSUME Len(b) > 0, b[1] = 255
      PROVE  l \notin {"bplist", "xml", "gzip", "zlib", "json", "uuid"}
  <2>1. Opens(b, 255)
    BY <1>5, FirstOpens DEF Whitespace
  <2>2. 255 \notin HexDigits
    BY DEF HexDigits, Digits
  <2> QED
    BY <2>1, <2>2, LeadOpening
<1>6. Compressed(b, "Snappy") <=> l = "snappy"
  <2>1. ASSUME Compressed(b, "Snappy") PROVE Len(b) > 0 /\ b[1] = 255
    BY <2>1, MagicsSay
  <2> QED
    BY <1>5, <2>1, LeadFirst, LeadMeans
<1>7. c.json <=> l = "json"
  <2>1. ASSUME c.json PROVE l \notin {"bplist", "xml", "gzip", "zlib", "snappy"}
    <3>1. JsonMayParse(b)
      BY <2>1, VerdictTypes
    <3>2. Opens(b, 123) \/ Opens(b, 91)
      BY <3>1, JsonOpens
    <3> QED
      BY <3>2, LeadOpening
  <2>2. c.json => l = "json"
    BY <2>1, LeadFirst
  <2>3. l = "json" => c.json
    BY LeadMeans
  <2> QED
    BY <2>2, <2>3, VerdictTypes
<1>8. Uuid(b) => l \in {"zlib", "uuid"}
  <2> SUFFICES ASSUME Uuid(b) PROVE l \in {"zlib", "uuid"}
    OBVIOUS
  <2>1. PICK x \in HexDigits : Opens(b, x)
    BY UuidOpens
  <2>2. x \notin {60, 31, 255, 123, 91}
    BY DEF HexDigits, Digits
  <2>3. l # "bplist"
    <3> SUFFICES ASSUME l = "bplist" PROVE FALSE
      OBVIOUS
    <3>1. b[1] = 98 /\ b[2] = 112 /\ Len(b) >= 6
      <4>1. StartsWith(b, BplistMagic)
        BY LeadMeans, Zenon
      <4> QED
        BY <4>1, MagicsSay
    <3>2. Trim(b) \in Seq(Byte) /\ Len(Trim(b)) = 36 /\ Trim(b)[2] \in HexDigits
      BY UuidOpens, TrimShortens
    <3>3. 98 \notin Whitespace /\ 112 \notin HexDigits
      BY DEF Whitespace, HexDigits, Digits
    <3>4. \A j \in DOMAIN Trim(b) : Trim(b)[j] = b[j]
      BY <3>1, <3>3, TrimKeeps
    <3>5. 2 \in DOMAIN Trim(b)
      BY <3>2
    <3> QED
      BY <3>1, <3>2, <3>3, <3>4, <3>5
  <2> QED
    BY <2>1, <2>2, <2>3, LeadFirst, LeadOpening
<1>9. HasBom(b) /\ Len(b) >= 4 <=> l = "bom"
  <2>1. ASSUME HasBom(b), Len(b) >= 4
        PROVE  l \notin {"bplist", "xml", "gzip", "zlib", "json", "uuid"}
    BY <1>5, <2>1, MagicsSay
  <2>2. ASSUME HasBom(b) PROVE l # "snappy"
    <3>1. b[2] = 254
      BY <2>2, MagicsSay
    <3> QED
      BY <3>1, LeadOpens
  <2> QED
    BY <2>1, <2>2, LeadFirst, LeadMeans
<1> QED
  BY <1>1, <1>2, <1>3, <1>4, <1>6, <1>7, <1>8, <1>9

(* A claim of detect_v8_blink makes the lead, unless a byte-order mark does. *)
LEMMA ClaimLead ==
  ASSUME NEW b \in Seq(Byte), NEW c \in Verdicts(b), NEW z, NEW l, l = LeadOf(b, c, z),
         DetectV8Blink(b, c.v8) # NoClaim
  PROVE  \/ l = "bom"
         \/ l = "v8" /\ DetectV8Blink(b, c.v8).kind = "V8Serialized"
         \/ l = "blink" /\ DetectV8Blink(b, c.v8).kind = "BlinkSerialized"
<1>1. Len(b) >= 3 /\ b[1] = 255 /\ ~(b[2] = 6 /\ b[3] = 0)
  BY ClaimOpens
<1>2. Opens(b, 255) /\ 255 \notin HexDigits
  <2>1. Len(b) > 0 /\ 255 \notin Whitespace
    BY <1>1 DEF Whitespace
  <2> QED
    BY <1>1, <2>1, FirstOpens DEF HexDigits, Digits
<1>3. l \notin {"bplist", "xml", "gzip", "zlib", "json", "uuid"}
  BY <1>2, LeadOpening
<1>4. l # "snappy"
  BY <1>1, LeadOpens
<1> QED
  BY <1>3, <1>4, LeadFirst, ClaimIs

(* Text that decodes has no lead that only other bytes have.               *)
LEMMA DecodedLead ==
  ASSUME NEW b \in Seq(Byte), NEW c \in Verdicts(b), NEW z, NEW l, l = LeadOf(b, c, z)
  PROVE  /\ TryBase64(b) => l \in {"bplist", "zlib", "uuid", "ascii"}
         /\ TryHex(b) => l \in {"zlib", "ascii"}
<1>1. ASSUME NEW S, \A i \in DOMAIN b : b[i] \in Whitespace \cup S, NEW x, Opens(b, x)
      PROVE  x \in S
  BY <1>1 DEF Opens
<1>2. ASSUME TryBase64(b) PROVE l \in {"bplist", "zlib", "uuid", "ascii"}
  <2>1. \A x : Opens(b, x) => x \in Base64Chars
    BY <1>1, <1>2, Base64Opens
  <2>2. {60, 31, 255, 123, 91} \cap Base64Chars = {}
    BY DEF Base64Chars, Alphanumeric, Digits
  <2>3. l \notin {"xml", "gzip", "snappy", "json", "bom", "v8", "blink"}
    BY <2>1, <2>2, LeadOpens
  <2> QED
    BY <1>2, <2>3, LeadFirst, LeadMeans DEF LeadNames
<1>3. ASSUME TryHex(b) PROVE l \in {"zlib", "ascii"}
  <2>1. \A x : Opens(b, x) => x \in HexDigits
    BY <1>1, <1>3, HexOpens
  <2>2. {60, 31, 255, 123, 91, 112, 45} \cap HexDigits = {}
    BY DEF HexDigits, Digits
  <2>3. l \notin {"xml", "gzip", "snappy", "json", "bom", "v8", "blink"}
    BY <2>1, <2>2, LeadOpens
  <2>4. l # "bplist"
    <3> SUFFICES ASSUME l = "bplist" PROVE FALSE
      OBVIOUS
    <3>1. b[2] = 112 /\ Len(b) >= 6
      <4>1. StartsWith(b, BplistMagic)
        BY LeadMeans, Zenon
      <4> QED
        BY <4>1, MagicsSay
    <3>2. 2 \in DOMAIN b /\ 112 \notin Whitespace
      BY <3>1 DEF Whitespace
    <3>3. b[2] \in Whitespace \cup HexDigits
      BY <1>3, <3>2, HexOpens
    <3> QED
      BY <2>2, <3>1, <3>2, <3>3
  <2>5. l # "uuid"
    <3> SUFFICES ASSUME l = "uuid" PROVE FALSE
      OBVIOUS
    <3>1. Trim(b)[9] = 45 /\ Len(Trim(b)) = 36 /\ Trim(b) \in Seq(Byte)
      <4>1. Uuid(b)
        BY LeadMeans, Zenon
      <4> QED
        BY <4>1, UuidOpens, TrimShortens
    <3>2. 9 \in DOMAIN Trim(b)
      BY <3>1
    <3>3. Trim(b)[9] \in HexDigits
      BY <1>3, <3>2, HexOpens
    <3> QED
      BY <2>2, <3>1, <3>3
  <2> QED
    BY <1>3, <2>3, <2>4, <2>5, LeadFirst, LeadMeans DEF LeadNames
<1> QED
  BY <1>2, <1>3

-----------------------------------------------------------------------------
(* NULs *)

(* The bytes that are zero.                                                *)
Nuls(b) == {j \in DOMAIN b : b[j] = 0}

(* Positions are finitely many.                                            *)
LEMMA PlacesFinite ==
  ASSUME NEW n \in Nat, NEW T, T \subseteq 1 .. n
  PROVE  IsFiniteSet(T) /\ Cardinality(T) \in Nat /\ Cardinality(T) <= n
<1>1. IsFiniteSet(1 .. n) /\ Cardinality(1 .. n) = n
  BY FS_Interval
<1> QED
  BY <1>1, FS_Subset, FS_CardinalityType

(* UTF-16LE text without a byte-order mark: half of its units are ASCII,   *)
(* and the high byte of each is zero.                                      *)
LEMMA ManyNuls ==
  ASSUME NEW b \in Seq(Byte), Utf16Text(b), ~HasBom(b)
  PROVE  Len(b) >= 4 /\ 4 * Cardinality(Nuls(b)) >= Len(b)
<1> DEFINE u == Units(b)  A == {i \in DOMAIN u : u[i] < 256}
<1>1. Len(b) >= 4 /\ Len(b) % 2 = 0 /\ Cardinality(A) * 2 >= Len(u)
  BY DEF Utf16Text
<1>2. PICK n \in Nat : Len(b) = 2 * n
  <2>1. Len(b) = 2 * (Len(b) \div 2) /\ Len(b) \div 2 \in Nat
    BY <1>1
  <2> QED
    BY <2>1
<1>a. \A k \in 1 .. Len(b) : b[k] \in 0 .. 255
  <2>1. \A k \in 1 .. Len(b) : b[k] \in Byte
    OBVIOUS
  <2> QED
    BY <2>1 DEF Byte
<1>b. \A i \in 1 .. n : 2 * i \in 1 .. Len(b) /\ 2 * i - 1 \in 1 .. Len(b)
  BY <1>2
<1>c. \A i \in 1 .. n : b[2 * i] \in 0 .. 255 /\ b[2 * i - 1] \in 0 .. 255
  BY <1>a, <1>b
<1>3. u = [i \in 1 .. n |-> b[2 * i - 1] + 256 * b[2 * i]]
  <2>1. (Len(b) - 0) \div 2 = n
    BY <1>2
  <2>2. u = [i \in 1 .. (Len(b) - 0) \div 2 |-> b[0 + 2 * i - 1] + 256 * b[0 + 2 * i]]
    BY DEF Units
  <2>3. \A i \in 1 .. n : 0 + 2 * i - 1 = 2 * i - 1 /\ 0 + 2 * i = 2 * i
    OBVIOUS
  <2> QED
    BY <2>1, <2>2, <2>3
<1>4. Len(u) = n /\ DOMAIN u = 1 .. n
  <2>1. DOMAIN u = 1 .. n
    BY <1>3
  <2>2. u \in Seq(Int)
    <3>1. ASSUME NEW i \in 1 .. n PROVE b[2 * i - 1] + 256 * b[2 * i] \in Int
      <4>1. PICK x \in 0 .. 255, y \in 0 .. 255 : x = b[2 * i - 1] /\ y = b[2 * i]
        BY <1>c
      <4> QED
        BY <4>1
    <3>2. u \in [1 .. n -> Int]
      BY <1>3, <3>1
    <3> QED
      BY <3>2
  <2> QED
    BY <2>1, <2>2
<1>5. A \subseteq 1 .. n
  BY <1>4
<1>6. \A i \in A : b[2 * i] = 0 /\ 2 * i \in DOMAIN b
  <2> SUFFICES ASSUME NEW i \in 1 .. n, u[i] < 256 PROVE b[2 * i] = 0 /\ 2 * i \in DOMAIN b
    BY <1>5
  <2>1. PICK x \in 0 .. 255, y \in 0 .. 255 : x = b[2 * i - 1] /\ y = b[2 * i]
    BY <1>c
  <2>2. x + 256 * y < 256
    BY <1>3, <2>1
  <2>3. y = 0
    BY <2>2
  <2> QED
    BY <1>b, <2>1, <2>3
<1> HIDE DEF A, u
<1>7. /\ IsFiniteSet(A) /\ Cardinality(A) \in Nat
      /\ IsFiniteSet(Nuls(b)) /\ Cardinality(Nuls(b)) \in Nat
  <2>1. Nuls(b) \subseteq 1 .. Len(b) /\ Len(b) \in Nat
    BY DEF Nuls
  <2> QED
    BY <1>5, <2>1, PlacesFinite
<1>8. ~(Cardinality(Nuls(b)) < Cardinality(A))
  <2> DEFINE f == [i \in A |-> 2 * i]
  <2>1. f \in [A -> Nuls(b)]
    BY <1>6 DEF Nuls
  <2>2. \A x, y \in A : f[x] = f[y] => x = y
    BY <1>5
  <2> HIDE DEF f
  <2> QED
    BY <1>7, <2>1, <2>2, FS_PigeonHole
<1> QED
  BY <1>1, <1>2, <1>4, <1>7, <1>8

(* UTF-8 text: a tenth of its characters at most are controls, and a zero  *)
(* is one.                                                                 *)
LEMMA FewNuls ==
  ASSUME NEW b \in Seq(Byte), Utf8Text(b)
  PROVE  Len(b) > 0 /\ 10 * Cardinality(Nuls(b)) <= Len(b)
<1> DEFINE S == Starts(b)  P == {i \in S : Printable(CodePoint(b, i))}  Z == Nuls(b)
<1>1. Cardinality(S) > 0 /\ Cardinality(P) * 100 >= Cardinality(S) * 90
  BY DEF Utf8Text, MostlyPrintable
<1>2. S \subseteq 1 .. Len(b) /\ Len(b) \in Nat
  BY DEF Starts
<1>3. Z \subseteq S /\ P \subseteq S
  <2>1. 0 \notin Continuation
    BY DEF Continuation
  <2> QED
    BY <2>1 DEF Nuls, Starts
<1>4. P \cap Z = {}
  <2> SUFFICES ASSUME NEW i \in Z PROVE ~Printable(CodePoint(b, i))
    OBVIOUS
  <2>1. b[i] = 0
    BY DEF Nuls
  <2>2. CharLen(0) = 1
    BY DEF CharLen
  <2>3. CodePoint(b, i) = 0
    BY <2>1, <2>2 DEF CodePoint
  <2> QED
    BY <2>3 DEF Printable, Control
<1> HIDE DEF S, P, Z
<1>5. /\ IsFiniteSet(S) /\ IsFiniteSet(P) /\ IsFiniteSet(Z)
      /\ Cardinality(S) \in Nat /\ Cardinality(P) \in Nat /\ Cardinality(Z) \in Nat
      /\ Cardinality(S) <= Len(b)
  <2>1. Z \subseteq 1 .. Len(b) /\ P \subseteq 1 .. Len(b)
    BY <1>2, <1>3
  <2> QED
    BY <1>2, <2>1, PlacesFinite
<1>6. Cardinality(P) + Cardinality(Z) <= Cardinality(S)
  <2>1. Cardinality(P \cup Z) = Cardinality(P) + Cardinality(Z) - Cardinality(P \cap Z)
    BY <1>5, FS_Union
  <2>2. Cardinality(P \cap Z) = 0
    BY <1>4, FS_EmptySet
  <2>3. Cardinality(P \cup Z) <= Cardinality(S)
    <3>1. P \cup Z \in SUBSET S
      BY <1>3
    <3> QED
      BY <1>5, <3>1, FS_Subset
  <2> QED
    BY <1>5, <2>1, <2>2, <2>3
<1>7. Len(b) > 0 /\ 10 * Cardinality(Z) <= Len(b)
  BY <1>1, <1>2, <1>5, <1>6
<1> QED
  BY <1>7 DEF Z

(* No text is UTF-8 and UTF-16LE without a byte-order mark.                *)
LEMMA TextIsOne == ASSUME NEW b \in Seq(Byte), Utf16Text(b), ~HasBom(b) PROVE ~Utf8Text(b)
<1>1. Cardinality(Nuls(b)) \in Nat
  <2>1. Nuls(b) \subseteq 1 .. Len(b) /\ Len(b) \in Nat
    BY DEF Nuls
  <2> QED
    BY <2>1, PlacesFinite
<1> QED
  BY <1>1, ManyNuls, FewNuls

(* UTF-16LE text without a byte-order mark has a zero.                     *)
LEMMA SomeNul ==
  ASSUME NEW b \in Seq(Byte), Utf16Text(b), ~HasBom(b)
  PROVE  \E j \in DOMAIN b : b[j] = 0
<1>1. IsFiniteSet(Nuls(b)) /\ Cardinality(Nuls(b)) \in Nat
  <2>1. Nuls(b) \subseteq 1 .. Len(b) /\ Len(b) \in Nat
    BY DEF Nuls
  <2> QED
    BY <2>1, PlacesFinite
<1>2. Cardinality(Nuls(b)) # 0
  BY <1>1, ManyNuls
<1>3. Nuls(b) # {}
  BY <1>2, FS_EmptySet
<1> QED
  BY <1>3 DEF Nuls

(* What UTF-16LE text can be besides.                                      *)
LEMMA Utf16Lead ==
  ASSUME NEW b \in Seq(Byte), NEW c \in Verdicts(b), NEW z, NEW l, l = LeadOf(b, c, z),
         Utf16Text(b)
  PROVE  /\ l \notin {"json", "uuid", "ascii", "text"}
         /\ HasBom(b) <=> l = "bom"
         /\ Len(b) >= 4 /\ Len(b) % 2 = 0
<1>1. Len(b) >= 4 /\ Len(b) % 2 = 0
  BY DEF Utf16Text
<1>2. HasBom(b) <=> l = "bom"
  BY <1>1, LeadIff
<1>3. ASSUME ~HasBom(b) PROVE l \notin {"json", "uuid", "ascii", "text"}
  <2>1. PICK j \in DOMAIN b : b[j] = 0
    BY <1>3, SomeNul
  <2>2. l # "json"
    <3>1. l = "json" => JsonMayParse(b)
      BY LeadMeans, VerdictTypes
    <3> QED
      BY <2>1, <3>1, JsonOpens
  <2>3. 0 \notin Whitespace /\ 0 \notin HexDigits /\ 0 \notin Base64Chars
    BY DEF Whitespace, HexDigits, Base64Chars, Alphanumeric, Digits
  <2>4. ~Uuid(b)
    <3> SUFFICES ASSUME Uuid(b) PROVE FALSE
      OBVIOUS
    <3>1. b[j] \in Whitespace \cup HexDigits \cup {45}
      BY <2>1, UuidOpens
    <3> QED
      BY <2>1, <2>3, <3>1
  <2>5. ~TryHex(b)
    <3> SUFFICES ASSUME TryHex(b) PROVE FALSE
      OBVIOUS
    <3>1. b[j] \in Whitespace \cup HexDigits
      BY <2>1, HexOpens
    <3> QED
      BY <2>1, <2>3, <3>1
  <2>6. ~TryBase64(b)
    <3> SUFFICES ASSUME TryBase64(b) PROVE FALSE
      OBVIOUS
    <3>1. b[j] \in Whitespace \cup Base64Chars
      BY <2>1, Base64Opens
    <3> QED
      BY <2>1, <2>3, <3>1
  <2>7. ~Utf8Text(b)
    BY <1>3, TextIsOne
  <2> QED
    BY <2>2, <2>4, <2>5, <2>6, <2>7, LeadMeans
<1> QED
  BY <1>1, <1>2, <1>3

(* What UTF-8 text can be besides.                                         *)
LEMMA Utf8Lead ==
  ASSUME NEW b \in Seq(Byte), NEW c \in Verdicts(b), NEW z, NEW l, l = LeadOf(b, c, z),
         Utf8Text(b)
  PROVE  l \in {"bplist", "xml", "zlib", "json", "uuid", "ascii", "text"}
<1>1. Len(b) > 0 /\ 1 \in DOMAIN b
  <2>1. Len(b) > 0
    BY FewNuls
  <2> QED
    BY <2>1
<1>2. LET following == 1 + CharLen(b[1])
      IN following \in 1 + 1 .. Len(b) + 1 /\ following \in Starts(b) \cup {Len(b) + 1}
  BY <1>1 DEF Utf8Text, ValidUtf8
<1>3. b[1] # 255
  <2>1. CharLen(255) = 0
    BY DEF CharLen
  <2> QED
    BY <1>2, <2>1
<1>4. ~(Len(b) >= 2 /\ b[1] = 31 /\ b[2] = 139)
  <2> SUFFICES ASSUME Len(b) >= 2, b[1] = 31, b[2] = 139 PROVE FALSE
    OBVIOUS
  <2>1. CharLen(31) = 1
    BY DEF CharLen
  <2>2. 2 \in Starts(b) \cup {Len(b) + 1}
    BY <1>2, <2>1
  <2>3. 139 \in Continuation /\ 2 # Len(b) + 1
    BY DEF Continuation
  <2> QED
    BY <2>2, <2>3 DEF Starts
<1>5. l \notin {"gzip", "snappy", "bom", "v8", "blink"}
  BY <1>3, <1>4, LeadOpens
<1> QED
  BY <1>5, LeadFirst, LeadMeans DEF LeadNames

(* What a protobuf message can be besides.                                 *)
LEMMA ProtobufLead ==
  ASSUME NEW b \in Seq(Byte), NEW c \in Verdicts(b), NEW z, NEW l, l = LeadOf(b, c, z),
         ProtobufMayParse(b)
  PROVE  Len(b) > 0 /\ l \notin {"gzip", "snappy", "v8", "blink", "bom"}
<1>1. Len(b) > 0 /\ b[1] % 8 \notin {6, 7}
  BY DEF ProtobufMayParse
<1>2. b[1] # 31 /\ b[1] # 255
  <2>1. 31 % 8 = 7 /\ 255 % 8 = 7
    OBVIOUS
  <2> QED
    BY <1>1, <2>1
<1> QED
  BY <1>1, <1>2, LeadOpens

-----------------------------------------------------------------------------
(* Steps of a call as steps of Identify *)

(* The frame of Identify that the call stands for.                         *)
Me == [size |-> Len(blob), lead |-> lead, depth |-> 0, next |-> next, out |-> out,
       len |-> 0, capped |-> FALSE]

(* While it runs, the call is the only frame.                              *)
LEMMA OneFrame ==
  ASSUME next \in 1 .. 15
  PROVE  Stack = <<Me>> /\ Len(Stack) = 1 /\ I!Top = Me /\ Result = {}
<1>1. Stack = <<Me>> /\ Result = {}
  <2>1. next # Returned
    BY DEF Returned
  <2> QED
    BY <2>1, Zenon DEF Stack, Result, Me
<1> HIDE DEF Me
<1>2. Len(Stack) = 1 /\ Stack[1] = Me
  BY <1>1
<1> QED
  BY <1>1, <1>2 DEF I!Top

(* The detector whose turn it is has its turn in Identify.                 *)
LEMMA TurnMaps ==
  ASSUME next \in 1 .. 14, next >= 9 => Len(blob) <= MaxInput
  PROVE  I!Running /\ I!Detector = I!Detectors[next] /\ Len(Stack) > 0 /\ Me.next = next
<1>1. I!Top = Me /\ Len(Stack) = 1
  BY OneFrame
<1>2. Me.next = next /\ Me.size = Len(blob)
  BY DEF Me
<1>3. I!Done = 15 /\ I!Heuristics = 9
  BY DEF I!Done, I!Heuristics, I!Detectors
<1> QED
  BY <1>1, <1>2, <1>3 DEF I!Running, I!Detector

(* What is pushed here is pushed there.                                    *)
LEMMA PushMaps ==
  ASSUME next \in 1 .. 14, NEW added, next' = next + 1, out' = out \cup added, UNCHANGED input
  PROVE  I!Pushes(added)
<1>1. Stack = <<Me>> /\ Len(Stack) = 1 /\ I!Top = Me /\ Result = {}
  BY OneFrame
<1>2. blob' = blob /\ lead' = lead /\ next' \in 2 .. 15
  BY DEF input
<1>3. Stack' = <<[Me EXCEPT !.next = @ + 1, !.out = @ \cup added]>>
  <2>1. Stack' = <<[size |-> Len(blob), lead |-> lead, depth |-> 0, next |-> next + 1,
                    out |-> out \cup added, len |-> 0, capped |-> FALSE]>>
    <3>1. next' # Returned
      BY <1>2 DEF Returned
    <3> QED
      BY <1>2, <3>1, Zenon DEF Stack
  <2>2. [Me EXCEPT !.next = @ + 1, !.out = @ \cup added]
          = [size |-> Len(blob), lead |-> lead, depth |-> 0, next |-> next + 1,
             out |-> out \cup added, len |-> 0, capped |-> FALSE]
    <3>1. Me.next = next /\ Me.out = out
      BY DEF Me
    <3>2. [Me EXCEPT !.next = next + 1, !.out = out \cup added]
            = [size |-> Len(blob), lead |-> lead, depth |-> 0, next |-> next + 1,
               out |-> out \cup added, len |-> 0, capped |-> FALSE]
      <4>1. PICK s, z, f, m, q : /\ s = Len(blob) /\ z = 0 /\ f = FALSE /\ m = next + 1
                                 /\ q = out \cup added
        BY Zenon
      <4>2. PICK r : r = [size |-> s, lead |-> lead, depth |-> z, next |-> next, out |-> out,
                          len |-> z, capped |-> f]
        BY Zenon
      <4>3. [r EXCEPT !.next = m, !.out = q]
              = [size |-> s, lead |-> lead, depth |-> z, next |-> m, out |-> q,
                 len |-> z, capped |-> f]
        <5>1. PICK t : t = [r EXCEPT !.next = m]
          BY Zenon
        <5>2. t = [size |-> s, lead |-> lead, depth |-> z, next |-> m, out |-> out,
                   len |-> z, capped |-> f]
          BY <5>1, <4>2
        <5>3. [t EXCEPT !.out = q]
                = [size |-> s, lead |-> lead, depth |-> z, next |-> m, out |-> q,
                   len |-> z, capped |-> f]
          BY <5>2
        <5>4. [[r EXCEPT !.next = m] EXCEPT !.out = q] = [r EXCEPT !.next = m, !.out = q]
          OBVIOUS
        <5> QED
          BY <5>1, <5>3, <5>4, Zenon
      <4> QED
        BY <4>1, <4>2, <4>3, Zenon DEF Me
    <3> QED
      BY <3>1, <3>2, Zenon
  <2> QED
    BY <2>1, <2>2, Zenon
<1>4. Result' = {}
  BY <1>2 DEF Result, Returned
<1> HIDE DEF Me
<1>5. \A f : [<<Me>> EXCEPT ![1] = f] = <<f>>
  OBVIOUS
<1> QED
  BY <1>1, <1>3, <1>4, <1>5 DEF I!Pushes, I!Replace

(* A candidate that Identify lets a detector push.                         *)
Offers(d, c) ==
  \/ c \in I!LeafReadings(Me, d)
  \/ \E p \in I!Payloads(Me, d) : c = I!Wrapper(d, p.len, p.capped, I!DepthCapped)
  \/ /\ d = "Protobuf" /\ I!ParsesAsProtobuf(Me)
     /\ \E structured \in BOOLEAN : c = I!Leaf("Protobuf", I!ProtobufScore(structured, out))

(* A detector that pushes such a candidate is a step of Identify.          *)
LEMMA OfferMaps ==
  ASSUME next \in 1 .. 14, next >= 9 => Len(blob) <= MaxInput,
         NEW c, next' = next + 1, out' = out \cup {c}, UNCHANGED input,
         Offers(I!Detectors[next], c)
  PROVE  I!Next
<1>1. I!Running /\ I!Detector = I!Detectors[next] /\ I!Top = Me
  BY TurnMaps, OneFrame
<1>2. I!Pushes({c})
  BY PushMaps
<1>3. CASE c \in I!LeafReadings(Me, I!Detectors[next])
  <2>1. I!LeafReading
    BY <1>1, <1>2, <1>3 DEF I!LeafReading
  <2> QED
    BY <2>1 DEF I!Next, I!Step
<1>4. CASE \E p \in I!Payloads(Me, I!Detectors[next]) :
             c = I!Wrapper(I!Detectors[next], p.len, p.capped, I!DepthCapped)
  <2>1. I!AtDepthCap(Me)
    <3>1. Me.depth = 0 /\ (0 + 1) % Width = 1
      BY BoundedReadAssumption, DetectAssumption DEF Me
    <3> QED
      BY <3>1 DEF I!AtDepthCap, I!Deeper
  <2>2. I!UnwrapCapped
    BY <1>1, <1>2, <1>4, <2>1 DEF I!UnwrapCapped
  <2> QED
    BY <2>2 DEF I!Next, I!Step
<1>5. CASE /\ I!Detectors[next] = "Protobuf" /\ I!ParsesAsProtobuf(Me)
           /\ \E structured \in BOOLEAN :
                c = I!Leaf("Protobuf", I!ProtobufScore(structured, out))
  <2>1. Me.out = out
    BY DEF Me
  <2>2. I!ProtobufReading
    BY <1>1, <1>2, <1>5, <2>1 DEF I!ProtobufReading
  <2> QED
    BY <2>2 DEF I!Next, I!Step
<1> QED
  BY <1>3, <1>4, <1>5 DEF Offers

(* A detector that is silent where it may be is a step of Identify.        *)
LEMMA SilenceMaps ==
  ASSUME next \in 1 .. 14, next >= 9 => Len(blob) <= MaxInput,
         next' = next + 1, out' = out, UNCHANGED input,
         ~I!Answers(Me, I!Detectors[next])
  PROVE  I!Next
<1>1. I!Running /\ I!Detector = I!Detectors[next] /\ I!Top = Me
  BY TurnMaps, OneFrame
<1>2. I!Pushes({})
  <2>1. out' = out \cup {}
    OBVIOUS
  <2> QED
    BY <2>1, PushMaps
<1>3. I!NoReading
  BY <1>1, <1>2 DEF I!NoReading
<1> QED
  BY <1>3 DEF I!Next, I!Step

(* Large blobs skip the same detectors, and calls return alike.            *)
LEMMA SkipMaps ==
  ASSUME next = 9, Len(blob) > MaxInput, next' = 15, UNCHANGED <<out, input>>
  PROVE  I!Next
<1>1. Stack = <<Me>> /\ Len(Stack) = 1 /\ I!Top = Me /\ Result = {}
  BY OneFrame
<1>2. Stack' = <<[Me EXCEPT !.next = 15]>> /\ Result' = {}
  <2>1. Stack' = <<[size |-> Len(blob), lead |-> lead, depth |-> 0, next |-> 15,
                    out |-> out, len |-> 0, capped |-> FALSE]>>
    <3>1. next' # Returned /\ lead' = lead /\ blob' = blob
      BY DEF Returned, input
    <3> QED
      BY <3>1, Zenon DEF Stack
  <2>2. [Me EXCEPT !.next = 15]
          = [size |-> Len(blob), lead |-> lead, depth |-> 0, next |-> 15, out |-> out,
             len |-> 0, capped |-> FALSE]
    <3>1. PICK s, z, f, m : s = Len(blob) /\ z = 0 /\ f = FALSE /\ m = 15
      BY Zenon
    <3>2. PICK r : r = [size |-> s, lead |-> lead, depth |-> z, next |-> next, out |-> out,
                        len |-> z, capped |-> f]
      BY Zenon
    <3>3. [r EXCEPT !.next = m]
            = [size |-> s, lead |-> lead, depth |-> z, next |-> m, out |-> out,
               len |-> z, capped |-> f]
      BY <3>2
    <3> QED
      BY <3>1, <3>2, <3>3, Zenon DEF Me
  <2>3. Result' = {}
    BY DEF Result, Returned
  <2> QED
    BY <2>1, <2>2, <2>3, Zenon
<1>3. Me.next = 9 /\ Me.size = Len(blob) /\ I!Heuristics = 9 /\ I!Done = 15
  BY DEF Me, I!Heuristics, I!Done, I!Detectors
<1> HIDE DEF Me
<1>4. [<<Me>> EXCEPT ![1] = [Me EXCEPT !.next = 15]] = <<[Me EXCEPT !.next = 15]>>
  OBVIOUS
<1>5. I!SkipHeuristics
  BY <1>1, <1>2, <1>3, <1>4 DEF I!SkipHeuristics, I!Replace
<1> QED
  BY <1>5 DEF I!Next, I!Step

(* The end of a call is the end of the outermost call.                     *)
LEMMA ReturnMaps == ASSUME Return PROVE I!Next
<1>1. next = 15 /\ next' = 16 /\ out' = IF out = {} THEN {I!Unknown} ELSE out
  BY DEF Return, Done, Returned
<1>2. Len(Stack) = 1 /\ I!Top = Me
  BY <1>1, OneFrame
<1>3. Stack' = <<>> /\ Result' = out'
  BY <1>1 DEF Stack, Result, Returned
<1>4. Me.next = 15 /\ Me.out = out /\ I!Done = 15
  BY <1>1 DEF Me, I!Done, I!Detectors
<1>5. I!Candidates(Me) = out'
  BY <1>1, <1>4 DEF I!Candidates
<1>6. I!Finish
  BY <1>2, <1>3, <1>4, <1>5 DEF I!Finish
<1> QED
  BY <1>6 DEF I!Next, I!Step

-----------------------------------------------------------------------------
(* What the refinement rests on *)

(* What is read as UTF-16LE is what its guard let in.                      *)
Read16 == \A c \in out : IP!Kind(c) = "Utf16Le" => Utf16Text(blob) /\ c = Text16

(* What the refinement rests on: the lead is what the bytes, the parsers   *)
(* and the stream make it.                                                 *)
Known ==
  /\ DetectInv /\ ReadTruthful /\ Read16
  /\ blob \in Blobs /\ lead = LeadOf(blob, codec, stream)

(* A call begins in it.                                                    *)
LEMMA KnownInit == Init => Known
<1> SUFFICES ASSUME Init PROVE Known
  OBVIOUS
<1>1. Read16 /\ blob \in Blobs /\ lead = LeadOf(blob, codec, stream)
  BY DEF Init, Read16
<1> QED
  BY <1>1, DetectInvInit, ReadInit DEF Known

(* What is there stays, and what comes is said at its turn.                *)
LEMMA Read16Next == ASSUME DetectInv, Read16, [Next]_vars PROVE Read16'
<1>1. blob' = blob /\ next \in 1 .. 16 /\ blob \in Seq(Byte)
  BY Reads DEF input, DetectInv
<1>2. Text16' = Text16
  BY <1>1 DEF Text16
<1>3. CASE Waits \/ Skips
  BY <1>1, <1>2, <1>3 DEF Waits, Skips, Read16
<1>4. CASE Ends15
  <2>1. IP!Kind(I!Unknown) = "Unknown"
    <3>1. /\ I!Unknown = I!Leaf("Unknown", I!Low) /\ "Unknown" \in I!Kinds
          /\ I!Low \in {I!Low, I!Medium, I!High}
      BY DEF I!Unknown, I!Kinds
    <3> QED
      BY <3>1, LeafSays, Zenon
  <2>2. out' = IF out = {} THEN {I!Unknown} ELSE out
    BY <1>4 DEF Ends15
  <2> QED
    BY <1>1, <1>2, <2>1, <2>2 DEF Read16
<1>5. ASSUME NEW added, Adds(added) PROVE Read16'
  <2>1. out' = out \cup added /\ \A c \in added : Says(next, c)
    BY <1>5 DEF Adds
  <2>2. ASSUME NEW c \in added, IP!Kind(c) = "Utf16Le" PROVE Utf16Text(blob) /\ c = Text16
    <3>1. read.held \in Nat /\ read.capped \in BOOLEAN
      BY BoundedReadAssumption DEF DetectInv, IInv, ReadTypeOK
    <3>2. Says(next, c)
      BY <2>1
    <3>3. Fitting(next, c)
      BY <1>1, <3>1, <3>2, SaysFits
    <3>4. IP!Slot("Utf16Le") = 12
      BY DEF IP!Slot
    <3>5. next = 12
      BY <2>2, <3>3, <3>4 DEF Fitting
    <3> QED
      BY <3>2, <3>5 DEF Says
  <2> QED
    BY <1>1, <1>2, <2>1, <2>2 DEF Read16
<1> QED
  BY <1>1, <1>3, <1>4, <1>5, Steps

(* A stream stays what it is.                                              *)
LEMMA StreamStays == ASSUME [Next]_vars PROVE stream' = stream
<1>1. CASE [ReadNext]_readVars
  BY <1>1 DEF ReadNext, Open, ReadPiece, ReadFails, ReadEnds, readVars
<1> QED
  BY <1>1, Reads

(* Every step keeps it, below the largest max_output.                      *)
LEMMA KnownNext == ASSUME MaxOutput + 1 < Width, Known, [Next]_vars PROVE Known'
<1>1. blob' = blob /\ codec' = codec /\ lead' = lead /\ stream' = stream
  BY Reads, StreamStays DEF input
<1>2. DetectInv' /\ Read16'
  BY DetectInvNext, Read16Next DEF Known
<1>3. ReadTruthful'
  BY ReadsKeep DEF Known, DetectInv
<1> QED
  BY <1>1, <1>2, <1>3 DEF Known

(* A reading as UTF-16LE without a BOM is one.                             *)
LEMMA NoBomRead ==
  ASSUME Known, I!Leaf("Utf16Le", I!Low) \in out
  PROVE  Utf16Text(blob) /\ ~HasBom(blob)
<1>1. PICK c : c = I!Leaf("Utf16Le", I!Low)
  BY Zenon
<1>2. IP!Kind(c) = "Utf16Le" /\ IP!Score(c) = I!Low
  BY <1>1, LeafSays DEF I!Kinds
<1>3. Utf16Text(blob) /\ c = Text16
  BY <1>1, <1>2 DEF Known, Read16
<1>4. ASSUME HasBom(blob) PROVE FALSE
  <2>1. c = I!Leaf("Utf16Le", I!Medium)
    BY <1>3, <1>4, Zenon DEF Text16
  <2>2. IP!Score(c) = I!Medium
    BY <2>1, LeafSays DEF I!Kinds
  <2> QED
    BY <1>2, <2>2 DEF I!Low, I!Medium
<1> QED
  BY <1>3, <1>4

-----------------------------------------------------------------------------
(* Detectors as steps of Identify *)

(* The call's frame and what it was given.                                 *)
LEMMA MeIs ==
  Me.size = Len(blob) /\ Me.lead = lead /\ Me.out = out /\ Me.depth = 0 /\ Me.next = next
BY DEF Me

(* Which leads make a detector answer.                                     *)
LEMMA Silences ==
  ASSUME NEW f
  PROVE  /\ I!Answers(f, "BinaryPlist") => f.lead = "bplist"
         /\ I!Answers(f, "XmlPlist") => f.lead = "xml"
         /\ I!Answers(f, "Gzip") => f.lead = "gzip"
         /\ I!Answers(f, "Zlib") => f.lead = "zlib"
         /\ I!Answers(f, "Snappy") => f.lead = "snappy"
         /\ I!Answers(f, "Json") => f.lead = "json"
         /\ I!Answers(f, "UuidString") => f.lead = "uuid"
         /\ I!Answers(f, "V8") => f.lead \in {"v8", "blink"}
         /\ I!Answers(f, "UuidBytes") => f.size = 16
         /\ \A d \in {"Base64", "Hex", "Utf16Le", "Utf8Text", "Protobuf"} : ~I!Answers(f, d)
BY DEF I!Answers

(* A detector whose guard offers what Identify allows, and whose silence   *)
(* Identify allows, is a step of Identify.                                 *)
LEMMA AnswerMaps ==
  ASSUME next \in 1 .. 16, NEW d, NEW guard, NEW c, Answers(d, guard, c),
         guard => Offers(d, c), ~guard => ~I!Answers(Me, d)
  PROVE  I!Next
<1>1. /\ next \in 1 .. 14 /\ d = I!Detectors[next]
      /\ next >= 9 => Len(blob) <= MaxInput
  BY TurnIs DEF Answers
<1>2. next' = next + 1 /\ UNCHANGED input
  BY DEF Answers, Pushes
<1>3. CASE guard
  <2>1. out' = out \cup {c} /\ Offers(I!Detectors[next], c)
    BY <1>1, <1>3 DEF Answers, Pushes
  <2> QED
    BY <1>1, <1>2, <2>1, OfferMaps
<1>4. CASE ~guard
  <2>1. out' = out /\ ~I!Answers(Me, I!Detectors[next])
    BY <1>1, <1>4 DEF Answers, Pushes
  <2> QED
    BY <1>1, <1>2, <2>1, SilenceMaps
<1> QED
  BY <1>3, <1>4

(* What the call knows of its blob, in the form the lemmas ask for.        *)
LEMMA KnownBlob ==
  ASSUME Known
  PROVE  /\ blob \in Seq(Byte) /\ codec \in Verdicts(blob) /\ lead = LeadOf(blob, codec, stream)
         /\ next \in 1 .. 16 /\ Len(blob) \in Nat
BY DEF Known, DetectInv

(* The parsed kinds. *)
LEMMA ParsedMaps ==
  ASSUME Known, DetectBinaryPlist \/ DetectXmlPlist \/ DetectJson
  PROVE  I!Next
<1>0. next \in 1 .. 16
  BY KnownBlob
<1>1. /\ StartsWith(blob, BplistMagic) <=> lead = "bplist"
      /\ XmlPlist(blob) <=> lead = "xml"
      /\ codec.json <=> lead = "json"
  BY KnownBlob, LeadIff
<1>2. \A ok : Parsed(ok) \in {I!Medium, I!High}
  BY DEF Parsed
<1>3. CASE DetectBinaryPlist
  <2> DEFINE c == I!Leaf("BinaryPlist", Parsed(codec.plist))
  <2>1. Answers("BinaryPlist", StartsWith(blob, BplistMagic), c)
    BY <1>3 DEF DetectBinaryPlist
  <2>2. lead = "bplist" => c \in I!LeafReadings(Me, "BinaryPlist")
    BY <1>2, MeIs DEF I!LeafReadings
  <2> HIDE DEF c
  <2> QED
    BY <1>0, <1>1, <2>1, <2>2, AnswerMaps, MeIs, Silences DEF Offers
<1>4. CASE DetectXmlPlist
  <2> DEFINE c == I!Leaf("XmlPlist", Parsed(codec.plist))
  <2>1. Answers("XmlPlist", XmlPlist(blob), c)
    BY <1>4 DEF DetectXmlPlist
  <2>2. lead = "xml" => c \in I!LeafReadings(Me, "XmlPlist")
    BY <1>2, MeIs DEF I!LeafReadings
  <2> HIDE DEF c
  <2> QED
    BY <1>0, <1>1, <2>1, <2>2, AnswerMaps, MeIs, Silences DEF Offers
<1>5. CASE DetectJson
  <2> DEFINE c == I!Leaf("Json", I!High)
  <2>1. Answers("Json", codec.json, c)
    BY <1>5 DEF DetectJson
  <2>2. lead = "json" => c \in I!LeafReadings(Me, "Json")
    BY MeIs DEF I!LeafReadings
  <2> HIDE DEF c
  <2> QED
    BY <1>0, <1>1, <2>1, <2>2, AnswerMaps, MeIs, Silences DEF Offers
<1> QED
  BY <1>3, <1>4, <1>5

(* UUIDs, as texts and as bytes.                                           *)
LEMMA UuidMaps == ASSUME Known, DetectUuidString \/ DetectUuidBytes PROVE I!Next
<1>0. next \in 1 .. 16
  BY KnownBlob
<1>1. CASE DetectUuidString
  <2> DEFINE c == I!Leaf("Uuid", I!High)
  <2>1. Answers("UuidString", Uuid(blob), c)
    BY <1>1 DEF DetectUuidString
  <2>2. /\ Uuid(blob) => lead \in {"zlib", "uuid"} /\ Len(blob) >= 36
        /\ lead = "uuid" => Uuid(blob)
    BY KnownBlob, LeadIff, LeadMeans, UuidOpens
  <2>3. Uuid(blob) => c \in I!LeafReadings(Me, "UuidString")
    BY <2>2, MeIs DEF I!LeafReadings
  <2> HIDE DEF c
  <2> QED
    BY <1>0, <2>1, <2>2, <2>3, AnswerMaps, MeIs, Silences DEF Offers
<1>2. CASE DetectUuidBytes
  <2> DEFINE c == I!Leaf("Uuid", I!Low)
  <2>1. Answers("UuidBytes", Len(blob) = 16, c)
    BY <1>2 DEF DetectUuidBytes
  <2>2. Len(blob) = 16 => c \in I!LeafReadings(Me, "UuidBytes")
    BY MeIs DEF I!LeafReadings
  <2> HIDE DEF c
  <2> QED
    BY <1>0, <2>1, <2>2, AnswerMaps, MeIs, Silences DEF Offers
<1> QED
  BY <1>1, <1>2

(* detect_v8_blink. *)
LEMMA V8Maps == ASSUME Known, DetectV8 PROVE I!Next
<1>0. next \in 1 .. 16
  BY KnownBlob
<1>1. PICK claim : claim = DetectV8Blink(blob, codec.v8)
  BY Zenon
<1>2. PICK c : c = I!Leaf(claim.kind, Parsed(claim.score = "High"))
  BY Zenon
<1>3. Answers("V8", claim # NoClaim, c)
  BY <1>1, <1>2, Zenon DEF DetectV8
<1>4. claim # NoClaim =>
        \/ lead = "bom" /\ claim.kind \in {"V8Serialized", "BlinkSerialized"}
        \/ lead = "v8" /\ claim.kind = "V8Serialized"
        \/ lead = "blink" /\ claim.kind = "BlinkSerialized"
  BY <1>1, KnownBlob, ClaimLead, ClaimKinds
<1>5. claim = NoClaim => lead \notin {"v8", "blink"}
  <2>1. NoClaim.kind \notin {"V8Serialized", "BlinkSerialized"}
    BY DEF NoClaim, Claim
  <2>2. /\ lead = "v8" => claim.kind = "V8Serialized"
        /\ lead = "blink" => claim.kind = "BlinkSerialized"
    BY <1>1, KnownBlob, LeadMeans
  <2> QED
    BY <2>1, <2>2
<1>6. claim # NoClaim => c \in I!LeafReadings(Me, "V8")
  <2>1. PICK s \in {I!Medium, I!High} : c = I!Leaf(claim.kind, s)
    BY <1>2 DEF Parsed
  <2> QED
    BY <1>4, <2>1, MeIs DEF I!LeafReadings
<1> QED
  BY <1>0, <1>3, <1>5, <1>6, AnswerMaps, MeIs, Silences DEF Offers

(* What try_base64 and try_hex let in decodes to a payload of its size.    *)
LEMMA DecodedPayload ==
  ASSUME NEW b \in Seq(Byte)
  PROVE  /\ TryBase64(b) => /\ Base64Len(b) \in Nat /\ Base64Len(b) >= 4
                            /\ 4 * Base64Len(b) <= 3 * Len(b) /\ Len(b) >= 8
         /\ TryHex(b) => /\ HexLen(b) \in Nat /\ HexLen(b) >= 2 /\ 2 * HexLen(b) <= Len(b)
                         /\ Len(b) >= 4
<1>1. ASSUME TryBase64(b)
      PROVE  /\ Base64Len(b) \in Nat /\ Base64Len(b) >= 4
             /\ 4 * Base64Len(b) <= 3 * Len(b) /\ Len(b) >= 8
  <2>1. PICK m, n, k : /\ m = Len(b) /\ n = Len(Cleaned(b)) /\ k = Len(Body(Cleaned(b)))
    BY Zenon
  <2>2. m \in Nat /\ m >= n /\ n >= 8 /\ k \in n - 2 .. n /\ n \in Nat
    BY <1>1, <2>1, Base64Opens, CleanedText
  <2>3. Base64Len(b) = (6 * k) \div 8
    BY <2>1, Zenon DEF Base64Len
  <2>4. /\ (6 * k) \div 8 \in Nat /\ (6 * k) \div 8 >= 4
        /\ 4 * ((6 * k) \div 8) <= 3 * m
    BY <2>2
  <2> QED
    BY <2>1, <2>2, <2>3, <2>4
<1>2. ASSUME TryHex(b)
      PROVE  /\ HexLen(b) \in Nat /\ HexLen(b) >= 2 /\ 2 * HexLen(b) <= Len(b)
             /\ Len(b) >= 4
  <2>1. PICK m, n : m = Len(b) /\ n = Len(Trim(b))
    BY Zenon
  <2>2. m \in Nat /\ m >= n /\ n >= 4 /\ n \in Nat
    BY <1>2, <2>1, HexOpens
  <2>3. HexLen(b) = n \div 2
    BY <2>1, Zenon DEF HexLen
  <2>4. n \div 2 \in Nat /\ n \div 2 >= 2 /\ 2 * (n \div 2) <= m
    BY <2>2
  <2> QED
    BY <2>1, <2>2, <2>3, <2>4
<1> QED
  BY <1>1, <1>2

(* A wrapper at the depth cap with one of the payloads of Identify.        *)
LEMMA WrapperOffered ==
  ASSUME NEW d, NEW n, NEW capped, [len |-> n, capped |-> capped] \in I!Payloads(Me, d)
  PROVE  Offers(d, I!Wrapper(d, n, capped, I!DepthCapped))
<1>1. PICK p : p = [len |-> n, capped |-> capped]
  OBVIOUS
<1>2. p.len = n /\ p.capped = capped /\ p \in I!Payloads(Me, d)
  BY <1>1
<1>3. I!Wrapper(d, n, capped, I!DepthCapped) = I!Wrapper(d, p.len, p.capped, I!DepthCapped)
  BY <1>2, Zenon
<1> QED
  BY <1>2, <1>3, Zenon DEF Offers

(* Base64 and hex. *)
LEMMA DecodedMaps == ASSUME Known, DetectBase64 \/ DetectHex PROVE I!Next
<1>0. next \in 1 .. 16
  BY KnownBlob
<1>1. CASE DetectBase64
  <2>1. PICK n, c : n = Base64Len(blob) /\ c = I!Wrapper("Base64", n, FALSE, I!DepthCapped)
    BY Zenon
  <2>2. Answers("Base64", TryBase64(blob), c)
    BY <1>1, <2>1, Zenon DEF DetectBase64
  <2>3. Len(blob) <= MaxInput
    <3>1. next = 9
      BY <1>0, <2>2, TurnIs, TurnNames DEF Answers
    <3> QED
      BY <1>0, <2>2, <3>1, TurnIs DEF Answers
  <2>4. ASSUME TryBase64(blob) PROVE Offers("Base64", c)
    <3>1. lead \in {"bplist", "zlib", "uuid", "ascii"}
      BY <2>4, KnownBlob, DecodedLead
    <3>2. n \in Sizes
      BY <2>1, <2>3, <2>4, SizesAssumption DEF Known
    <3>3. n >= 4 /\ 4 * n <= 3 * Len(blob) /\ Len(blob) >= 8
      BY <2>1, <2>4, KnownBlob, DecodedPayload
    <3>4. [len |-> n, capped |-> FALSE] \in I!Payloads(Me, "Base64")
      BY <3>1, <3>2, <3>3, MeIs DEF I!Payloads
    <3> QED
      BY <2>1, <3>4, WrapperOffered
  <2> QED
    BY <1>0, <2>2, <2>4, AnswerMaps, Silences
<1>2. CASE DetectHex
  <2>1. PICK n, c : n = HexLen(blob) /\ c = I!Wrapper("Hex", n, FALSE, I!DepthCapped)
    BY Zenon
  <2>2. Answers("Hex", TryHex(blob), c)
    BY <1>2, <2>1, Zenon DEF DetectHex
  <2>3. Len(blob) <= MaxInput
    <3>1. next = 10
      BY <1>0, <2>2, TurnIs, TurnNames DEF Answers
    <3> QED
      BY <1>0, <2>2, <3>1, TurnIs DEF Answers
  <2>4. ASSUME TryHex(blob) PROVE Offers("Hex", c)
    <3>1. lead \in {"zlib", "ascii"}
      BY <2>4, KnownBlob, DecodedLead
    <3>2. n \in Sizes
      BY <2>1, <2>3, <2>4, SizesAssumption DEF Known
    <3>3. n >= 2 /\ 2 * n <= Len(blob) /\ Len(blob) >= 4
      BY <2>1, <2>4, KnownBlob, DecodedPayload
    <3>4. [len |-> n, capped |-> FALSE] \in I!Payloads(Me, "Hex")
      BY <3>1, <3>2, <3>3, MeIs DEF I!Payloads
    <3> QED
      BY <2>1, <3>4, WrapperOffered
  <2> QED
    BY <1>0, <2>2, <2>4, AnswerMaps, Silences
<1> QED
  BY <1>1, <1>2

(* The text heuristics, of which UTF-8 comes after UTF-16LE.               *)
LEMMA TextMaps == ASSUME Known, DetectUtf16Le \/ DetectUtf8Text PROVE I!Next
<1>0. next \in 1 .. 16
  BY KnownBlob
<1>1. CASE DetectUtf16Le
  <2>1. PICK c : c = Text16
    BY Zenon
  <2>2. Answers("Utf16Le", Utf16Text(blob), c)
    BY <1>1, <2>1, Zenon DEF DetectUtf16Le, Text16
  <2>3. ASSUME Utf16Text(blob) PROVE Offers("Utf16Le", c)
    <3>1. /\ lead \notin {"json", "uuid", "ascii", "text"}
          /\ HasBom(blob) <=> lead = "bom"
          /\ Len(blob) >= 4 /\ Len(blob) % 2 = 0
      BY <2>3, KnownBlob, Utf16Lead
    <3>2. c = I!Leaf("Utf16Le", IF lead = "bom" THEN I!Medium ELSE I!Low)
      <4>1. (IF HasBom(blob) THEN I!Medium ELSE I!Low) = IF lead = "bom" THEN I!Medium ELSE I!Low
        BY <3>1
      <4> QED
        BY <2>1, <4>1, Zenon DEF Text16
    <3>3. c \in I!LeafReadings(Me, "Utf16Le")
      BY <3>1, <3>2, MeIs DEF I!LeafReadings
    <3> QED
      BY <3>3 DEF Offers
  <2> QED
    BY <1>0, <2>2, <2>3, AnswerMaps, Silences
<1>2. CASE DetectUtf8Text
  <2>1. PICK c : c = I!Leaf("Utf8Text", I!Low)
    BY Zenon
  <2>2. Answers("Utf8Text", Utf8Text(blob), c)
    BY <1>2, <2>1, Zenon DEF DetectUtf8Text
  <2>3. ASSUME Utf8Text(blob) PROVE Offers("Utf8Text", c)
    <3>1. lead \in {"bplist", "xml", "zlib", "json", "uuid", "ascii", "text"}
      BY <2>3, KnownBlob, Utf8Lead
    <3>2. I!Leaf("Utf16Le", I!Low) \notin out
      BY <2>3, KnownBlob, NoBomRead, TextIsOne
    <3>3. c \in I!LeafReadings(Me, "Utf8Text")
      BY <2>1, <3>1, <3>2, MeIs DEF I!LeafReadings
    <3> QED
      BY <3>3 DEF Offers
  <2> QED
    BY <1>0, <2>2, <2>3, AnswerMaps, Silences
<1> QED
  BY <1>1, <1>2

(* Protobuf. *)
LEMMA ProtobufMaps == ASSUME Known, DetectProtobuf PROVE I!Next
<1>0. next \in 1 .. 16
  BY KnownBlob
<1>1. PICK ok \in BOOLEAN : ok = (codec.protobuf = "structured")
  OBVIOUS
<1>2. PICK c : c = I!Leaf("Protobuf", I!ProtobufScore(ok, out))
  BY Zenon
<1>3. Answers("Protobuf", codec.protobuf # "none", c)
  BY <1>1, <1>2, Zenon DEF DetectProtobuf
<1>4. ASSUME codec.protobuf # "none" PROVE Offers("Protobuf", c)
  <2>1. ProtobufMayParse(blob)
    BY <1>4, KnownBlob, VerdictTypes
  <2>2. Len(blob) > 0 /\ lead \notin {"gzip", "snappy", "v8", "blink", "bom"}
    BY <2>1, KnownBlob, ProtobufLead
  <2>3. I!ParsesAsProtobuf(Me)
    BY <2>2, MeIs DEF I!ParsesAsProtobuf
  <2> QED
    BY <1>2, <2>3, Zenon DEF Offers
<1> QED
  BY <1>0, <1>3, <1>4, AnswerMaps, Silences

-----------------------------------------------------------------------------
(* Compressions as steps of Identify *)

(* The lead of each compression.                                           *)
LeadOfMagic == [Gzip |-> "gzip", Zlib |-> "zlib", Snappy |-> "snappy"]

(* A magic makes its lead, but a zlib header only with a stream that       *)
(* decodes or is longer than what is kept of it.                           *)
LEMMA MagicLeads ==
  ASSUME Known, NEW d \in {"Gzip", "Zlib", "Snappy"}
  PROVE  /\ lead = LeadOfMagic[d] => Compressed(blob, d)
         /\ Compressed(blob, d) /\ (d = "Zlib" => stream.sound \/ stream.len > MaxOutput)
              => lead = LeadOfMagic[d]
         /\ lead = "zlib" => stream.sound \/ stream.len > MaxOutput
<1>1. /\ LeadOfMagic["Gzip"] = "gzip" /\ LeadOfMagic["Zlib"] = "zlib"
      /\ LeadOfMagic["Snappy"] = "snappy"
  BY DEF LeadOfMagic
<1>2. /\ Compressed(blob, "Gzip") <=> lead = "gzip"
      /\ Compressed(blob, "Zlib") /\ (stream.sound \/ stream.len > MaxOutput) <=> lead = "zlib"
      /\ Compressed(blob, "Snappy") <=> lead = "snappy"
  BY KnownBlob, LeadIff
<1> QED
  BY <1>1, <1>2

(* What a read that ended well gives is a payload of Identify.             *)
LEMMA ReadPayload ==
  ASSUME Known, read.state = "ok", NEW d \in {"Gzip", "Zlib", "Snappy"}, lead = LeadOfMagic[d]
  PROVE  [len |-> read.held, capped |-> read.capped] \in I!Payloads(Me, d)
<1>1. IF stream.len > MaxOutput THEN read = Read("ok", MaxOutput, TRUE)
      ELSE read = Read("ok", stream.len, FALSE) /\ stream.sound
  BY DEF Known, ReadTruthful
<1>2. stream.len \in Nat /\ MaxOutput \in Nat
  BY BoundedReadAssumption DEF Known, DetectInv, IInv, ReadTypeOK, Stream
<1>3. Me.lead = [Gzip |-> "gzip", Zlib |-> "zlib", Snappy |-> "snappy"][d]
  BY MeIs DEF LeadOfMagic
<1>4. \/ read.held = MaxOutput /\ read.capped = TRUE
      \/ read.held \in 0 .. MaxOutput /\ read.capped = FALSE
  BY <1>1, <1>2 DEF Read
<1>5. \A n \in 0 .. MaxOutput : n \in Sizes /\ n <= MaxOutput
  BY <1>2, SizesAssumption
<1>6. PICK p : p = [len |-> read.held, capped |-> read.capped]
  OBVIOUS
<1>7. p \in {[len |-> n, capped |-> FALSE] : n \in {s \in Sizes : s <= MaxOutput}}
            \cup {[len |-> MaxOutput, capped |-> TRUE]}
  BY <1>4, <1>5, <1>6
<1> QED
  BY <1>3, <1>6, <1>7 DEF I!Payloads

(* The compressions, whose reads are between the turns of Identify.        *)
LEMMA CompressionMaps ==
  ASSUME Known, NotCompressed \/ Decompressed \/ NotDecompressed
  PROVE  I!Next
<1>0. next \in 1 .. 16
  BY KnownBlob
<1>1. /\ LeadOfMagic["Gzip"] = "gzip" /\ LeadOfMagic["Zlib"] = "zlib"
      /\ LeadOfMagic["Snappy"] = "snappy"
  BY DEF LeadOfMagic
<1>2. ASSUME NEW d \in {"Gzip", "Zlib", "Snappy"}, Turn(d), Pushes({}), lead # LeadOfMagic[d]
      PROVE  I!Next
  <2>1. next \in 1 .. 14 /\ d = I!Detectors[next] /\ (next >= 9 => Len(blob) <= MaxInput)
    BY <1>0, <1>2, TurnIs
  <2>2. ~I!Answers(Me, d)
    BY <1>1, <1>2, MeIs, Silences
  <2>3. next' = next + 1 /\ out' = out /\ UNCHANGED input
    BY <1>2 DEF Pushes
  <2> QED
    BY <2>1, <2>2, <2>3, SilenceMaps
<1>3. ASSUME NEW d \in {"Gzip", "Zlib", "Snappy"}, NEW c, Turn(d), Pushes({c}), Offers(d, c)
      PROVE  I!Next
  <2>1. next \in 1 .. 14 /\ d = I!Detectors[next] /\ (next >= 9 => Len(blob) <= MaxInput)
    BY <1>0, <1>3, TurnIs
  <2>2. next' = next + 1 /\ out' = out \cup {c} /\ UNCHANGED input
    BY <1>3 DEF Pushes
  <2> QED
    BY <1>3, <2>1, <2>2, OfferMaps
<1>4. ASSUME NEW d \in {"Gzip", "Zlib", "Snappy"}, Turn(d), read.state # "idle"
      PROVE  Compressed(blob, d)
  <2>1. d = I!Detectors[next]
    BY <1>0, <1>4, TurnIs
  <2> QED
    BY <1>4, <2>1 DEF Known, DetectInv, ReadsInTurn
<1>5. CASE NotCompressed
  <2>1. PICK d \in {"Gzip", "Zlib", "Snappy"} :
          Turn(d) /\ ~Compressed(blob, d) /\ Pushes({})
    BY <1>5 DEF NotCompressed
  <2>2. lead # LeadOfMagic[d]
    BY <2>1, MagicLeads
  <2> QED
    BY <1>2, <2>1, <2>2
<1>6. CASE Decompressed
  <2>1. PICK d \in {"Gzip", "Zlib", "Snappy"} :
          /\ Turn(d) /\ read.state = "ok"
          /\ Pushes({I!Wrapper(d, read.held, read.capped, I!DepthCapped)})
    BY <1>6 DEF Decompressed
  <2>2. stream.sound \/ stream.len > MaxOutput
    BY <2>1 DEF Known, ReadTruthful
  <2>3. lead = LeadOfMagic[d]
    BY <1>4, <2>1, <2>2, MagicLeads
  <2>4. Offers(d, I!Wrapper(d, read.held, read.capped, I!DepthCapped))
    BY <2>1, <2>3, ReadPayload, WrapperOffered
  <2> QED
    BY <1>3, <2>1, <2>4
<1>7. CASE NotDecompressed
  <2>1. PICK d \in {"Gzip", "Zlib", "Snappy"} :
          /\ Turn(d) /\ read.state = "failed"
          /\ Pushes(IF d = "Zlib" THEN {} ELSE {I!Leaf(d, I!Medium)})
    BY <1>7 DEF NotDecompressed
  <2>2. CASE d = "Zlib"
    <3>1. ~stream.sound /\ ~(stream.len > MaxOutput)
      <4>1. stream.len \in Nat /\ MaxOutput \in Nat
        BY BoundedReadAssumption DEF Known, DetectInv, IInv, ReadTypeOK, Stream
      <4> QED
        BY <2>1, <4>1 DEF Known, ReadTruthful
    <3>2. lead # LeadOfMagic[d]
      BY <1>1, <2>2, <3>1, MagicLeads
    <3> QED
      BY <1>2, <2>1, <2>2, <3>2
  <2>3. CASE d # "Zlib"
    <3>1. lead = LeadOfMagic[d]
      BY <1>4, <2>1, <2>3, MagicLeads
    <3>2. I!Leaf(d, I!Medium) \in I!LeafReadings(Me, d)
      BY <1>1, <2>3, <3>1, MeIs DEF I!LeafReadings
    <3> QED
      BY <1>3, <2>1, <2>3, <3>2 DEF Offers
  <2> QED
    BY <2>2, <2>3
<1> QED
  BY <1>5, <1>6, <1>7

(* The reading goes on inside one turn, and a call that returned stays.    *)
LEMMA StepsMap == ASSUME Known, [Next]_vars PROVE [I!Next]_(I!vars)
<1>1. CASE \/ DetectBinaryPlist \/ DetectXmlPlist \/ DetectJson \/ DetectUuidString \/ DetectV8
           \/ DetectBase64 \/ DetectHex \/ DetectUuidBytes \/ DetectUtf16Le \/ DetectUtf8Text
           \/ DetectProtobuf
  BY <1>1, ParsedMaps, UuidMaps, V8Maps, DecodedMaps, TextMaps, ProtobufMaps, Zenon
<1>2. CASE NotCompressed \/ Decompressed \/ NotDecompressed
  BY <1>2, CompressionMaps
<1>3. CASE BeginDecompression \/ Decompression \/ Stopped \/ UNCHANGED vars
  <2>1. blob' = blob /\ lead' = lead /\ next' = next /\ out' = out
    BY <1>3 DEF BeginDecompression, Decompression, Stopped, vars, input
  <2>2. Stack' = Stack /\ Result' = Result
    BY <2>1, Zenon DEF Stack, Result
  <2> QED
    BY <2>2 DEF I!vars
<1>4. CASE SkipHeuristics
  <2>1. next = 9 /\ Len(blob) > MaxInput /\ next' = 15 /\ UNCHANGED <<out, input>>
    BY <1>4 DEF SkipHeuristics, I!Heuristics, Done
  <2> QED
    BY <2>1, SkipMaps
<1>5. CASE Return
  BY <1>5, ReturnMaps
<1> QED
  BY <1>1, <1>2, <1>3, <1>4, <1>5 DEF Next

(* The blobs of a lead are as long as its magic.                           *)
LEMMA LeadsFit == ASSUME Known PROVE Len(blob) >= I!LeadMin[lead]
<1>1. /\ blob \in Seq(Byte) /\ codec \in Verdicts(blob) /\ lead = LeadOf(blob, codec, stream)
      /\ Len(blob) \in Nat /\ lead \in LeadNames
  BY KnownBlob DEF Known, DetectInv
<1>2. /\ lead \in {"bplist", "xml"} => Len(blob) >= 6
      /\ lead \in {"gzip", "zlib", "json"} => Len(blob) >= 2
      /\ lead = "snappy" => Len(blob) >= 10
      /\ lead = "uuid" => Uuid(blob)
      /\ lead = "bom" => Len(blob) >= 4
      /\ lead \in {"v8", "blink"} => Len(blob) >= 3
  BY <1>1, LeadOpens
<1>3. lead = "uuid" => Len(blob) >= 36
  BY <1>1, <1>2, UuidOpens
<1>4. lead = "ascii" => Len(blob) >= 4
  <2>1. lead = "ascii" => TryBase64(blob) \/ TryHex(blob)
    BY <1>1, LeadMeans, Zenon
  <2>2. TryBase64(blob) \/ TryHex(blob) => Len(blob) >= 4
    BY <1>1, DecodedPayload
  <2> QED
    BY <2>1, <2>2
<1>5. lead = "text" => Len(blob) >= 1
  <2>1. lead = "text" => Utf8Text(blob)
    BY <1>1, LeadMeans, Zenon
  <2>2. Utf8Text(blob) => Len(blob) >= 1
    BY <1>1, FewNuls
  <2> QED
    BY <2>1, <2>2
<1> QED
  BY <1>1, <1>2, <1>3, <1>4, <1>5 DEF I!LeadMin, LeadNames

(* A call begins as the outermost call of Identify.                        *)
LEMMA InitMaps == Init => I!Init
<1> SUFFICES ASSUME Init PROVE I!Init
  OBVIOUS
<1>1. Known /\ next = 1 /\ out = {}
  BY KnownInit DEF Init
<1>2. Len(blob) \in Sizes /\ lead \in LeadNames /\ Len(blob) >= I!LeadMin[lead]
  BY <1>1, LeadsFit, SizesAssumption DEF Known, DetectInv
<1>3. Stack = <<I!Enter(Len(blob), lead, 0)>> /\ Result = {}
  <2>1. next # Returned
    BY <1>1 DEF Returned
  <2> QED
    BY <1>1, <2>1, Zenon DEF Stack, Result, I!Enter
<1> QED
  BY <1>2, <1>3 DEF I!Init

(* What Identify takes for granted of its leads is what the bytes of a     *)
(* blob allow: whatever the blobs, the parsers' verdicts and the streams,  *)
(* each call on the bytes of a blob is a behaviour of Identify, below the  *)
(* largest max_output.                                                     *)
THEOREM IdentifyImplemented == MaxOutput + 1 < Width => (Spec => ImplementsIdentify)
<1> SUFFICES ASSUME MaxOutput + 1 < Width PROVE Spec => ImplementsIdentify
  OBVIOUS
<1>1. Known /\ [Next]_vars => Known'
  BY KnownNext
<1>2. Known /\ [Next]_vars => [I!Next]_(I!vars)
  BY StepsMap
<1> QED
  BY KnownInit, InitMaps, <1>1, <1>2, PTL DEF Spec, ImplementsIdentify
=============================================================================
