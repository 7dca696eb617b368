---------------------------- MODULE IdentifyProofs ----------------------------
(***************************************************************************)
(* Proofs about Identify, for every limit, width, size of blob and depth   *)
(* of call: how deep calls nest, how long payloads are, how candidates are *)
(* ordered, and how much work one call is.                                 *)
(***************************************************************************)
EXTENDS Identify, Induction, SequenceTheorems, TLAPS

Scores == {Low, Medium, High}

(* The turn of the detector that answers with a kind; the one of a UUID in *)
(* binary is of a later turn.                                              *)
Slot(k) == CASE k = "BinaryPlist" -> 1
             [] k = "XmlPlist" -> 2
             [] k = "Gzip" -> 3
             [] k = "Zlib" -> 4
             [] k = "Snappy" -> 5
             [] k = "Json" -> 6
             [] k = "Uuid" -> 7
             [] k \in {"V8Serialized", "BlinkSerialized"} -> 8
             [] k = "Base64" -> 9
             [] k = "Hex" -> 10
             [] k = "Utf16Le" -> 12
             [] k = "Utf8Text" -> 13
             [] k = "Protobuf" -> 14
             [] OTHER -> 15

(* The candidates as chains, and what a call knows of its own: a kind once,*)
(* from a detector that had its turn, and protobuf last.                   *)
Chain(c) == /\ c \in Seq(Link) /\ Len(c) > 0
            /\ \A i \in 1 .. Len(c) - 1 : c[i].kind \in Wrappers

Distinct(out) == \A a, b \in out : a # b => Kind(a) # Kind(b)

-----------------------------------------------------------------------------
(* The order of the candidates *)

(* The number that the comparator of the sort compares, in effect. *)
Key(c) == 200 * (3 - Score(c)) + 40 * (3 - KindRank(Kind(c))) + LabelPosition(Kind(c))

(* Each kind has one label, at its own position. *)
LEMMA LabelPositions ==
  ASSUME NEW k \in Kinds
  PROVE  LabelPosition(k) \in 1 .. 15 /\ ByLabel[LabelPosition(k)] = k
<1>1. \E i \in 1 .. 15 : ByLabel[i] = k
  BY DEF Kinds, ByLabel
<1>2. DOMAIN ByLabel = 1 .. 15
  BY DEF ByLabel
<1> QED
  BY <1>1, <1>2 DEF LabelPosition

(* Two kinds have two labels. *)
LEMMA LabelsDistinct ==
  ASSUME NEW k \in Kinds, NEW l \in Kinds, LabelPosition(k) = LabelPosition(l)
  PROVE  k = l
BY LabelPositions

(* The ranks of kind_rank.                                                 *)
LEMMA Ranks == ASSUME NEW k \in Kinds PROVE KindRank(k) \in 0 .. 3
BY DEF KindRank

(* The head of a chain. *)
LEMMA Heads ==
  ASSUME NEW c, Chain(c)
  PROVE  Kind(c) \in Kinds /\ Score(c) \in Scores
<1>1. c[1] \in Link
  BY DEF Chain
<1> QED
  BY <1>1 DEF Link, Kind, Score, Scores

(* A chain has a key, a natural number.                                    *)
LEMMA Keys == ASSUME NEW c, Chain(c) PROVE Key(c) \in Nat
<1>1. Score(c) \in 1 .. 3 /\ KindRank(Kind(c)) \in 0 .. 3 /\ LabelPosition(Kind(c)) \in 1 .. 15
  BY Heads, Ranks, LabelPositions DEF Scores, Low, Medium, High
<1> QED
  BY <1>1 DEF Key

(* The comparator is the order of the keys. *)
LEMMA KeysOrder ==
  ASSUME NEW a, NEW b, Chain(a), Chain(b)
  PROVE  SortsBefore(a, b) <=> Key(a) < Key(b)
<1>1. /\ Score(a) \in 1 .. 3 /\ KindRank(Kind(a)) \in 0 .. 3 /\ LabelPosition(Kind(a)) \in 1 .. 15
      /\ Score(b) \in 1 .. 3 /\ KindRank(Kind(b)) \in 0 .. 3 /\ LabelPosition(Kind(b)) \in 1 .. 15
  BY Heads, Ranks, LabelPositions DEF Scores, Low, Medium, High
<1> DEFINE s1 == Score(a)  s2 == Score(b)  k1 == KindRank(Kind(a))  k2 == KindRank(Kind(b))
           l1 == LabelPosition(Kind(a))  l2 == LabelPosition(Kind(b))
<1>2. SortsBefore(a, b) <=> \/ s1 > s2
                            \/ s1 = s2 /\ (k1 > k2 \/ (k1 = k2 /\ l1 < l2))
  BY DEF SortsBefore
<1>3. /\ Key(a) = 200 * (3 - s1) + 40 * (3 - k1) + l1
      /\ Key(b) = 200 * (3 - s2) + 40 * (3 - k2) + l2
  BY DEF Key
<1> HIDE DEF s1, s2, k1, k2, l1, l2
<1>4. s1 \in 1 .. 3 /\ s2 \in 1 .. 3 /\ k1 \in 0 .. 3 /\ k2 \in 0 .. 3
        /\ l1 \in 1 .. 15 /\ l2 \in 1 .. 15
  BY <1>1 DEF s1, s2, k1, k2, l1, l2
<1> QED
  BY <1>2, <1>3, <1>4

(* Candidates of different kinds are never equal to the comparator. *)
LEMMA DistinctSort ==
  ASSUME NEW a, NEW b, Chain(a), Chain(b), Kind(a) # Kind(b)
  PROVE  SortsBefore(a, b) \/ SortsBefore(b, a)
<1>1. LabelPosition(Kind(a)) # LabelPosition(Kind(b))
  BY Heads, LabelsDistinct
<1>2. /\ Score(a) \in 1 .. 3 /\ KindRank(Kind(a)) \in 0 .. 3 /\ LabelPosition(Kind(a)) \in 1 .. 15
      /\ Score(b) \in 1 .. 3 /\ KindRank(Kind(b)) \in 0 .. 3 /\ LabelPosition(Kind(b)) \in 1 .. 15
  BY Heads, Ranks, LabelPositions DEF Scores, Low, Medium, High
<1> QED
  BY <1>1, <1>2 DEF SortsBefore

(* The sort has a head: Candidate.inner.best is one of the candidates. *)
LEMMA BestExists ==
  ASSUME NEW out, out # {}, \A c \in out : Chain(c), Distinct(out)
  PROVE  Best(out) \in out
<1> DEFINE R == OpToRel(<, Nat)  T == {Key(c) : c \in out}
<1>1. T \subseteq Nat /\ T # {}
  BY Keys
<1>2. PICK k \in T : \A l \in T : ~(<<l, k>> \in R)
  <2> HIDE DEF R, T
  <2>1. IsWellFoundedOn(R, Nat)
    BY NatLessThanWellFounded DEF R
  <2> QED
    BY <1>1, <2>1, WFMin
<1>3. \A l \in T : ~(l < k)
  BY <1>1, <1>2 DEF OpToRel
<1>4. PICK c \in out : k = Key(c)
  BY <1>2
<1>5. \A d \in out \ {c} : SortsBefore(c, d)
  BY <1>3, <1>4, KeysOrder, DistinctSort DEF Distinct
<1> QED
  BY <1>4, <1>5 DEF Best

-----------------------------------------------------------------------------
(* The inductive invariant *)

Held(n, size) == n <= size \/ n <= MaxOutput

HeldLink(l, size) == Held(l.len, size) /\ (l.capped => l.len = MaxOutput)

(* A candidate of a call on f, below an outermost blob of that size. *)
Fits(c, f, size) ==
  /\ Chain(c) /\ Len(c) - 1 <= Levels(f)
  /\ \A k \in 1 .. Len(c) : HeldLink(c[k], size)

(* A candidate comes from a detector that had its turn; a UUID that is     *)
(* there before the turn of 16 bytes is a text of 36.                      *)
InTurn(c, f) == /\ Slot(Kind(c)) < f.next
                /\ Kind(c) = "Uuid" /\ f.next <= 11 => f.size >= 36

Yields(out) == \A p \in out : Kind(p) = "Protobuf" =>
                 /\ Score(p) # High
                 /\ Score(p) = Medium => \A c \in out : Score(c) # High

FrameInv(f, size) ==
  /\ f \in Frame /\ f.size >= LeadMin[f.lead] /\ Held(f.size, size)
  /\ \A c \in f.out : Fits(c, f, size) /\ InTurn(c, f)
  /\ Distinct(f.out) /\ Yields(f.out)

(* A call that waits for the one it made. *)
Nested(f, g, size) ==
  /\ f.next < Done /\ Detectors[f.next] \in Wrappers
  /\ ~AtDepthCap(f) /\ g.depth = Deeper(f)
  /\ HeldLink(f, size)

(* The levels that a call may still nest go down by one with each call. *)
StackInv(st) ==
  /\ st \in Seq(Frame)
  /\ \A i \in 1 .. Len(st) : FrameInv(st[i], st[1].size)
  /\ \A i \in 1 .. Len(st) - 1 : Nested(st[i], st[i + 1], st[1].size)
  /\ \A i \in 1 .. Len(st) : Levels(st[i]) = Levels(st[1]) - (i - 1)

ResultInv(r) == (\A c \in r : Chain(c)) /\ Distinct(r) /\ Yields(r)

IInv == /\ StackInv(stack) /\ ResultInv(result) /\ calls \in Nat \ {0}
        /\ stack = <<>> => result # {}

-----------------------------------------------------------------------------
(* Leaves and wrappers *)

(* leaf() and unknown() make a chain of one link, of the given kind and    *)
(* score.                                                                  *)
LEMMA LeafChain ==
  ASSUME NEW k \in Kinds, NEW s \in Scores
  PROVE  /\ Chain(Leaf(k, s)) /\ Len(Leaf(k, s)) = 1
         /\ Kind(Leaf(k, s)) = k /\ Score(Leaf(k, s)) = s
         /\ Leaf(k, s)[1].len = 0 /\ Leaf(k, s)[1].capped = FALSE
<1> DEFINE l == [kind |-> k, score |-> s, len |-> 0, capped |-> FALSE]
<1>1. l \in Link /\ l.kind = k /\ l.score = s /\ l.len = 0 /\ l.capped = FALSE
  BY DEF Link, Scores
<1>2. Leaf(k, s) = <<l>>
  BY DEF Leaf
<1> HIDE DEF l
<1>3. <<l>> \in Seq(Link) /\ Len(<<l>>) = 1 /\ <<l>>[1] = l
  BY <1>1
<1> QED
  BY <1>1, <1>2, <1>3 DEF Chain, Kind, Score

(* The chain of a wrapper around a payload. *)
Measured(p, size) == p.len \in Nat /\ p.capped \in BOOLEAN /\ HeldLink(p, size)

Wraps(w, k, p, best) == w = Wrapper(k, p.len, p.capped, best)

Prepends(w, l, best) == w = <<l>> \o best

(* A chain that a call on f may wrap. *)
FitsInside(best, f, size) ==
  /\ Chain(best) /\ Len(best) <= Levels(f)
  /\ \A i \in 1 .. Len(best) : HeldLink(best[i], size)

(* The first link that wrapper() makes has the type of a link.             *)
LEMMA WrapperLink ==
  ASSUME NEW k \in Wrappers, NEW p, NEW size, Measured(p, size), NEW best,
         NEW w, Wraps(w, k, p, best)
  PROVE  \E l \in Link : Prepends(w, l, best) /\ l.kind = k /\ HeldLink(l, size)
<1> DEFINE s == IF k \in {"Base64", "Hex"} THEN WrapperScore(Kind(best)) ELSE High
           l == [kind |-> k, score |-> s, len |-> p.len, capped |-> p.capped]
<1>1. s \in {Low, Medium, High}
  BY DEF WrapperScore
<1> HIDE DEF s
<1>2. l \in Link
  BY <1>1 DEF Link, Wrappers, Kinds, Measured
<1>3. l.kind = k /\ l.len = p.len /\ l.capped = p.capped
  OBVIOUS
<1>4. HeldLink(l, size)
  BY <1>3 DEF HeldLink, Measured
<1>5. Prepends(w, l, best)
  BY DEF Prepends, Wraps, Wrapper, s
<1> HIDE DEF l
<1> QED
  BY <1>2, <1>3, <1>4, <1>5

(* wrapper() puts a link before the chain of the payload: a chain one      *)
(* longer, whose payloads are held.                                        *)
LEMMA WrapperFits ==
  ASSUME NEW f, NEW size, NEW k \in Wrappers, NEW p, Measured(p, size),
         NEW best, FitsInside(best, f, size), NEW w, Wraps(w, k, p, best)
  PROVE  Fits(w, f, size) /\ Kind(w) = k
<1>1. PICK l \in Link : Prepends(w, l, best) /\ l.kind = k /\ HeldLink(l, size)
  BY WrapperLink
<1>2. w = <<l>> \o best
  BY <1>1 DEF Prepends
<1>3. best \in Seq(Link) /\ Len(best) \in Nat /\ Len(best) > 0
  BY DEF FitsInside, Chain
<1>4. /\ <<l>> \in Seq(Link) /\ Len(<<l>>) = 1 /\ <<l>>[1] = l
  OBVIOUS
<1>5. /\ w \in Seq(Link) /\ Len(w) = 1 + Len(best)
      /\ \A i \in 1 .. Len(w) : w[i] = IF i <= 1 THEN <<l>>[i] ELSE best[i - 1]
  BY <1>2, <1>3, <1>4, ConcatProperties
<1>6. w[1] = l /\ \A i \in 2 .. Len(w) : w[i] = best[i - 1]
  <2>1. 1 \in 1 .. Len(w) /\ \A i \in 2 .. Len(w) : i \in 1 .. Len(w) /\ ~(i <= 1)
    BY <1>3, <1>5
  <2> QED
    BY <1>4, <1>5, <2>1
<1>7. ASSUME NEW i \in 1 .. Len(w) - 1 PROVE w[i].kind \in Wrappers
  <2>1. CASE i = 1
    BY <1>1, <1>6, <2>1
  <2>2. CASE i > 1
    <3>1. i \in 2 .. Len(w) /\ i - 1 \in 1 .. Len(best) - 1
      BY <1>3, <1>5, <2>2
    <3> QED
      BY <1>6, <3>1 DEF FitsInside, Chain
  <2> QED
    BY <1>3, <1>5, <2>1, <2>2
<1>8. ASSUME NEW i \in 1 .. Len(w) PROVE HeldLink(w[i], size)
  <2>1. CASE i = 1
    BY <1>1, <1>6, <2>1
  <2>2. CASE i > 1
    <3>1. i \in 2 .. Len(w) /\ i - 1 \in 1 .. Len(best)
      BY <1>3, <1>5, <2>2
    <3> QED
      BY <1>6, <3>1 DEF FitsInside
  <2> QED
    BY <1>3, <1>5, <2>1, <2>2
<1>9. Chain(w)
  BY <1>3, <1>5, <1>7 DEF Chain
<1>10. Len(w) - 1 = Len(best)
  BY <1>3, <1>5
<1> QED
  BY <1>1, <1>6, <1>8, <1>9, <1>10 DEF Fits, FitsInside, Kind

(* The levels of a call, and of the call it makes. *)
LEMMA DepthWraps ==
  ASSUME NEW f \in Frame
  PROVE  Deeper(f) \in 0 .. Width - 1
<1>1. f.depth \in 0 .. Width - 1 /\ Width \in Nat \ {0}
  BY IdentifyAssumption DEF Frame
<1>2. CASE f.depth + 1 = Width
  BY <1>1, <1>2 DEF Deeper
<1>3. CASE f.depth + 1 < Width
  BY <1>1, <1>3 DEF Deeper
<1> QED
  BY <1>1, <1>2, <1>3

(* A call can unwrap at least one level.                                   *)
LEMMA LevelsPositive ==
  ASSUME NEW f \in Frame
  PROVE  Levels(f) \in Nat \ {0} /\ (~AtDepthCap(f) => Levels(f) > 1)
<1>1. Deeper(f) \in Nat /\ MaxDepth \in Nat
  BY DepthWraps, IdentifyAssumption
<1> QED
  BY <1>1 DEF Levels, AtDepthCap

(* Below the cap, the call for a payload has one level less and is not at  *)
(* max_depth.                                                              *)
LEMMA LevelsNested ==
  ASSUME NEW f \in Frame, NEW g \in Frame, ~AtDepthCap(f), g.depth = Deeper(f)
  PROVE  Levels(g) = Levels(f) - 1 /\ g.depth < MaxDepth
<1>1. Deeper(f) \in Nat /\ MaxDepth \in 0 .. Width - 1 /\ Width \in Nat \ {0}
  BY DepthWraps, IdentifyAssumption
<1>2. g.depth < MaxDepth
  BY <1>1 DEF AtDepthCap
<1>3. Deeper(g) = g.depth + 1
  <2>1. g.depth + 1 \in Nat /\ g.depth + 1 < Width
    BY <1>1, <1>2
  <2> QED
    BY <1>1, <2>1 DEF Deeper
<1>4. Levels(g) = MaxDepth - g.depth
  BY <1>1, <1>2, <1>3 DEF Levels, AtDepthCap
<1> QED
  BY <1>1, <1>2, <1>4 DEF Levels

-----------------------------------------------------------------------------
(* What a detector adds *)

(* Fourteen detectors, and the end.                                        *)
LEMMA DoneIsLast == Done = 15
BY DEF Done, Detectors

(* The turns of the detectors. *)
LEMMA Turns ==
  ASSUME NEW i \in 1 .. 14
  PROVE  /\ Detectors[i] \in Wrappers => Slot(Detectors[i]) = i /\ Detectors[i] # "Uuid"
         /\ Detectors[i] = "Protobuf" <=> i = 14
BY DEF Detectors, Wrappers, Slot

(* A leaf reading is of a kind whose turn it is, and of its score. *)
LEMMA LeafReadingsFit ==
  ASSUME NEW f, f.next \in 1 .. 14, f.size >= LeadMin[f.lead],
         NEW c \in LeafReadings(f, Detectors[f.next])
  PROVE  \E k \in Kinds, s \in Scores :
           /\ c = Leaf(k, s) /\ k # "Protobuf"
           /\ \/ Slot(k) = f.next /\ (k = "Uuid" => f.size >= 36)
              \/ k = "Uuid" /\ f.next = 11 /\ f.size = 16
<1> DEFINE d == Detectors[f.next]
<1>1. CASE f.next = 1 /\ d = "BinaryPlist"
  BY <1>1 DEF LeafReadings, Scores, Kinds, Slot
<1>2. CASE f.next = 2 /\ d = "XmlPlist"
  BY <1>2 DEF LeafReadings, Scores, Kinds, Slot
<1>3. CASE f.next = 3 /\ d = "Gzip"
  BY <1>3 DEF LeafReadings, Scores, Kinds, Slot
<1>4. CASE f.next = 4 /\ d = "Zlib"
  BY <1>4 DEF LeafReadings, Scores, Kinds, Slot
<1>5. CASE f.next = 5 /\ d = "Snappy"
  BY <1>5 DEF LeafReadings, Scores, Kinds, Slot
<1>6. CASE f.next = 6 /\ d = "Json"
  BY <1>6 DEF LeafReadings, Scores, Kinds, Slot
<1>7. CASE f.next = 7 /\ d = "UuidString"
  <2>1. LeadMin["uuid"] = 36
    BY DEF LeadMin
  <2>2. c = Leaf("Uuid", High) /\ (f.lead = "uuid" \/ f.size >= 36)
    BY <1>7 DEF LeafReadings
  <2>3. f.size >= 36
    BY <2>1, <2>2
  <2> QED
    BY <1>7, <2>2, <2>3 DEF Scores, Kinds, Slot
<1>8. CASE f.next = 8 /\ d = "V8"
  BY <1>8 DEF LeafReadings, Scores, Kinds, Slot
<1>9. CASE f.next \in {9, 10, 14} /\ d \in {"Base64", "Hex", "Protobuf"}
  BY <1>9 DEF LeafReadings
<1>10. CASE f.next = 11 /\ d = "UuidBytes"
  <2>1. f.size = 16 /\ c = Leaf("Uuid", Low)
    BY <1>10 DEF LeafReadings
  <2> QED
    BY <1>10, <2>1 DEF Scores, Kinds
<1>11. CASE f.next = 12 /\ d = "Utf16Le"
  BY <1>11 DEF LeafReadings, Scores, Kinds, Slot
<1>12. CASE f.next = 13 /\ d = "Utf8Text"
  BY <1>12 DEF LeafReadings, Scores, Kinds, Slot
<1> QED
  <2>1. \/ f.next = 1 /\ d = "BinaryPlist"
        \/ f.next = 2 /\ d = "XmlPlist"
        \/ f.next = 3 /\ d = "Gzip"
        \/ f.next = 4 /\ d = "Zlib"
        \/ f.next = 5 /\ d = "Snappy"
        \/ f.next = 6 /\ d = "Json"
        \/ f.next = 7 /\ d = "UuidString"
        \/ f.next = 8 /\ d = "V8"
        \/ f.next \in {9, 10, 14} /\ d \in {"Base64", "Hex", "Protobuf"}
        \/ f.next = 11 /\ d = "UuidBytes"
        \/ f.next = 12 /\ d = "Utf16Le"
        \/ f.next = 13 /\ d = "Utf8Text"
    BY DEF Detectors
  <2> QED
    BY <1>1, <1>2, <1>3, <1>4, <1>5, <1>6, <1>7, <1>8, <1>9, <1>10, <1>11, <1>12, <2>1

(* A payload comes from a wrapper and is no longer than the outermost blob *)
(* or the cap; one that was cut is the cap.                                *)
LEMMA PayloadsHeld ==
  ASSUME NEW f \in Frame, NEW size \in Nat, Held(f.size, size), NEW d, NEW p \in Payloads(f, d)
  PROVE  d \in Wrappers /\ p.len \in Nat /\ p.capped \in BOOLEAN /\ HeldLink(p, size)
<1>1. Sizes \subseteq Nat /\ MaxOutput \in Nat /\ f.size \in Nat
  BY IdentifyAssumption DEF Frame
<1>2. CASE d \in {"Gzip", "Zlib", "Snappy"}
  <2>1. p \in {[len |-> n, capped |-> FALSE] : n \in {s \in Sizes : s <= MaxOutput}}
                \cup {[len |-> MaxOutput, capped |-> TRUE]}
    BY <1>2 DEF Payloads
  <2>2. \/ \E n \in Sizes : n <= MaxOutput /\ p = [len |-> n, capped |-> FALSE]
        \/ p = [len |-> MaxOutput, capped |-> TRUE]
    BY <2>1
  <2>3. /\ p.len \in Nat /\ p.len <= MaxOutput
        /\ p.capped \in BOOLEAN /\ (p.capped => p.len = MaxOutput)
    <3>1. CASE p = [len |-> MaxOutput, capped |-> TRUE]
      <4>1. p.len = MaxOutput /\ p.capped = TRUE
        BY <3>1
      <4>2. p.len \in Nat /\ p.len <= MaxOutput
        BY <1>1, <4>1
      <4>3. p.capped \in BOOLEAN
        BY <4>1, Zenon
      <4> QED
        BY <4>1, <4>2, <4>3, Zenon
    <3>2. ASSUME NEW n \in Sizes, n <= MaxOutput, p = [len |-> n, capped |-> FALSE]
          PROVE  p.len \in Nat /\ p.len <= MaxOutput /\ p.capped = FALSE
      BY <1>1, <3>2
    <3> QED
      BY <2>2, <3>1, <3>2
  <2> QED
    BY <1>2, <2>3 DEF Wrappers, HeldLink, Held
<1>3. CASE d = "Base64"
  <2>1. p \in {[len |-> n, capped |-> FALSE] : n \in {s \in Sizes : s >= 4 /\ 4 * s <= 3 * f.size}}
    BY <1>3 DEF Payloads
  <2>2. PICK n \in Sizes : p = [len |-> n, capped |-> FALSE] /\ 4 * n <= 3 * f.size
    BY <2>1
  <2>3. n \in Nat /\ n <= f.size
    BY <1>1, <2>2
  <2> QED
    BY <1>1, <1>3, <2>2, <2>3 DEF Wrappers, HeldLink, Held
<1>4. CASE d = "Hex"
  <2>1. p \in {[len |-> n, capped |-> FALSE] : n \in {s \in Sizes : s >= 2 /\ 2 * s <= f.size}}
    BY <1>4 DEF Payloads
  <2>2. PICK n \in Sizes : p = [len |-> n, capped |-> FALSE] /\ 2 * n <= f.size
    BY <2>1
  <2>3. n \in Nat /\ n <= f.size
    BY <1>1, <2>2
  <2> QED
    BY <1>1, <1>4, <2>2, <2>3 DEF Wrappers, HeldLink, Held
<1>5. CASE d \notin {"Gzip", "Zlib", "Snappy", "Base64", "Hex"}
  BY <1>5 DEF Payloads
<1> QED
  BY <1>2, <1>3, <1>4, <1>5

(* The best of what a call found, or Unknown, ends the chain of a wrapper. *)
LEMMA BestFits ==
  ASSUME NEW f, NEW size \in Nat, FrameInv(f, size)
  PROVE  Best(Candidates(f)) \in Candidates(f) /\ Fits(Best(Candidates(f)), f, size)
<1>1. f \in Frame /\ Levels(f) \in Nat \ {0}
  BY LevelsPositive DEF FrameInv
<1>2. Fits(Unknown, f, size)
  <2>1. "Unknown" \in Kinds /\ Low \in Scores
    BY DEF Kinds, Scores
  <2>2. /\ Chain(Unknown) /\ Len(Unknown) = 1
        /\ Unknown[1].len = 0 /\ Unknown[1].capped = FALSE
    BY <2>1, LeafChain DEF Unknown
  <2>3. ASSUME NEW k \in 1 .. Len(Unknown) PROVE HeldLink(Unknown[k], size)
    <3>1. k = 1 /\ 0 <= size
      BY <2>2
    <3> QED
      BY <2>2, <3>1 DEF HeldLink, Held
  <2> QED
    BY <1>1, <2>2, <2>3 DEF Fits
<1>3. \A c \in Candidates(f) : Fits(c, f, size)
  BY <1>2 DEF Candidates, FrameInv
<1>4. Candidates(f) # {} /\ Distinct(Candidates(f))
  BY DEF Candidates, FrameInv, Distinct
<1>5. Best(Candidates(f)) \in Candidates(f)
  BY <1>3, <1>4, BestExists DEF Fits
<1> QED
  BY <1>3, <1>5

(* A detector that had its turn, with or without a candidate. *)
LEMMA NothingAdded ==
  ASSUME NEW f, NEW size \in Nat, FrameInv(f, size), NEW g \in Frame,
         g.size = f.size, g.lead = f.lead, g.depth = f.depth, g.out = f.out,
         g.next >= f.next
  PROVE  FrameInv(g, size)
<1>1. f.next \in Nat /\ g.next \in Nat /\ Levels(g) = Levels(f)
  BY DEF FrameInv, Frame, Done, Levels, AtDepthCap, Deeper
<1>2. ASSUME NEW c \in g.out PROVE Fits(c, g, size) /\ InTurn(c, g)
  <2>1. Fits(c, f, size) /\ InTurn(c, f)
    BY DEF FrameInv
  <2>2. Slot(Kind(c)) \in Nat
    BY DEF Slot
  <2> QED
    BY <1>1, <2>1, <2>2 DEF Fits, InTurn
<1> QED
  BY <1>2 DEF FrameInv

(* A detector that pushes a candidate of its own kind keeps what is known  *)
(* of its call.                                                            *)
LEMMA CandidateAdded ==
  ASSUME NEW f, NEW size \in Nat, FrameInv(f, size), f.next < Done, NEW g \in Frame,
         g.size = f.size, g.lead = f.lead, g.depth = f.depth, g.next = f.next + 1,
         NEW c, g.out = f.out \cup {c}, Fits(c, f, size),
         \/ Slot(Kind(c)) = f.next /\ (Kind(c) = "Uuid" => f.size >= 36)
         \/ Kind(c) = "Uuid" /\ f.next = 11 /\ f.size = 16,
         Kind(c) = "Protobuf" =>
           Score(c) # High /\ (Score(c) = Medium => \A d \in f.out : Score(d) # High)
  PROVE  FrameInv(g, size)
<1>1. f.next \in 1 .. 14 /\ Levels(g) = Levels(f) /\ Done = 15
  BY DEF FrameInv, Frame, Done, Detectors, Levels, AtDepthCap, Deeper
<1>2. \A d \in f.out : Slot(Kind(d)) \in Nat /\ Slot(Kind(d)) < f.next
  BY DEF FrameInv, InTurn, Slot
<1>3. Slot("Uuid") = 7 /\ Slot("Protobuf") = 14
  BY DEF Slot
<1>4. ASSUME NEW d \in f.out PROVE Fits(d, g, size) /\ InTurn(d, g) /\ Kind(d) # Kind(c)
  <2>1. Fits(d, f, size) /\ InTurn(d, f)
    BY DEF FrameInv
  <2>2. Slot(Kind(d)) \in Nat /\ Slot(Kind(d)) < f.next
    BY <1>2
  <2>3. Fits(d, g, size)
    BY <1>1, <2>1 DEF Fits
  <2>4. Kind(d) # Kind(c)
    BY <1>1, <1>3, <2>1, <2>2 DEF InTurn
  <2>5. InTurn(d, g)
    BY <1>1, <2>1, <2>2 DEF InTurn
  <2> QED
    BY <2>3, <2>4, <2>5
<1>5. Fits(c, g, size) /\ InTurn(c, g)
  BY <1>1, <1>3 DEF Fits, InTurn
<1>6. Distinct(g.out)
  BY <1>4 DEF FrameInv, Distinct
<1>7. Yields(g.out)
  <2>1. \A p \in f.out : Kind(p) # "Protobuf"
    BY <1>1, <1>2, <1>3
  <2> QED
    BY <2>1 DEF Yields
<1> QED
  BY <1>4, <1>5, <1>6, <1>7 DEF FrameInv

-----------------------------------------------------------------------------
(* What a step does to the stack *)

(* The innermost call is one that the invariant speaks of.                 *)
LEMMA StackTop ==
  ASSUME NEW st, StackInv(st), st # <<>>
  PROVE  /\ Len(st) \in Nat \ {0} /\ DOMAIN st = 1 .. Len(st)
         /\ st[Len(st)] \in Frame /\ st[1] \in Frame
         /\ FrameInv(st[Len(st)], st[1].size) /\ st[1].size \in Nat
<1>1. st \in Seq(Frame)
  BY DEF StackInv
<1>2. Len(st) \in Nat \ {0} /\ DOMAIN st = 1 .. Len(st)
  BY <1>1, LenProperties
<1>3. st[Len(st)] \in Frame /\ st[1] \in Frame
  BY <1>1, <1>2
<1>4. FrameInv(st[Len(st)], st[1].size)
  BY <1>2 DEF StackInv
<1> QED
  BY <1>2, <1>3, <1>4 DEF Frame

(* The innermost call goes on. *)
LEMMA TopReplaced ==
  ASSUME NEW st, StackInv(st), st # <<>>, NEW g,
         FrameInv(g, st[1].size),
         g.size = st[Len(st)].size, g.depth = st[Len(st)].depth
  PROVE  StackInv([st EXCEPT ![Len(st)] = g])
<1> DEFINE n == Len(st)  new == [st EXCEPT ![n] = g]
<1>1. st \in Seq(Frame) /\ n \in Nat \ {0} /\ DOMAIN st = 1 .. n /\ g \in Frame
  BY StackTop DEF StackInv, FrameInv
<1>1a. n \in 1 .. Len(st)
  BY <1>1
<1>2. /\ new \in Seq(Frame) /\ Len(new) = n
      /\ \A j \in 1 .. n : new[j] = IF j = n THEN g ELSE st[j]
  BY <1>1, <1>1a, ExceptSeq
<1> HIDE DEF n, new
<1>3. new[n] = g /\ \A i \in 1 .. n - 1 : new[i] = st[i]
  <2>1. n \in 1 .. n /\ \A i \in 1 .. n - 1 : i \in 1 .. n /\ i # n
    BY <1>1
  <2> QED
    BY <1>2, <2>1
<1>4. n - 1 \in Nat /\ \A i \in 1 .. n : i = n \/ i \in 1 .. n - 1
  BY <1>1
<1>5. new[1].size = st[1].size /\ Levels(new[1]) = Levels(st[1])
  <2>1. n = 1 \/ 1 \in 1 .. n - 1
    BY <1>1
  <2>2. new[1].size = st[1].size /\ new[1].depth = st[1].depth
    BY <1>3, <2>1 DEF n
  <2> QED
    BY <2>2 DEF Levels, AtDepthCap, Deeper
<1>6. ASSUME NEW i \in 1 .. n PROVE FrameInv(new[i], st[1].size)
  BY <1>3, <1>4 DEF StackInv, n
<1>7. ASSUME NEW i \in 1 .. n - 1 PROVE Nested(new[i], new[i + 1], st[1].size)
  <2>1. Nested(st[i], st[i + 1], st[1].size) /\ new[i] = st[i]
    BY <1>3 DEF StackInv, n
  <2>2. new[i + 1].depth = st[i + 1].depth
    <3>1. i + 1 = n \/ i + 1 \in 1 .. n - 1
      BY <1>1
    <3> QED
      BY <1>3, <3>1 DEF n
  <2> QED
    BY <2>1, <2>2 DEF Nested
<1>8. ASSUME NEW i \in 1 .. n PROVE Levels(new[i]) = Levels(st[1]) - (i - 1)
  <2>1. Levels(st[i]) = Levels(st[1]) - (i - 1)
    BY DEF StackInv, n
  <2>2. new[i].depth = st[i].depth
    BY <1>3, <1>4 DEF n
  <2> QED
    BY <2>1, <2>2 DEF Levels, AtDepthCap, Deeper
<1>9. StackInv(new)
  BY <1>2, <1>5, <1>6, <1>7, <1>8 DEF StackInv
<1> QED
  BY <1>9 DEF new, n

(* The innermost call makes another one. *)
LEMMA CallPushed ==
  ASSUME NEW st, StackInv(st), st # <<>>, NEW g,
         FrameInv(g, st[1].size), Nested(st[Len(st)], g, st[1].size)
  PROVE  StackInv(Append(st, g))
<1> DEFINE n == Len(st)  new == Append(st, g)
<1>1. st \in Seq(Frame) /\ n \in Nat \ {0} /\ DOMAIN st = 1 .. n /\ g \in Frame
        /\ st[n] \in Frame
  BY StackTop DEF StackInv, FrameInv
<1>2. new \in Seq(Frame) /\ Len(new) = n + 1 /\ new[n + 1] = g
        /\ \A i \in 1 .. n : new[i] = st[i]
  BY <1>1, AppendProperties
<1> HIDE DEF n, new
<1>3. new[1] = st[1] /\ \A i \in 1 .. n + 1 : i = n + 1 \/ i \in 1 .. n
  BY <1>1, <1>2
<1>4. ASSUME NEW i \in 1 .. n + 1 PROVE FrameInv(new[i], st[1].size)
  BY <1>2, <1>3 DEF StackInv, n
<1>5. ASSUME NEW i \in 1 .. n PROVE Nested(new[i], new[i + 1], st[1].size)
  <2>1. CASE i = n
    BY <1>2, <2>1 DEF n
  <2>2. CASE i \in 1 .. n - 1
    <3>1. i + 1 \in 1 .. n
      BY <1>1, <2>2
    <3> QED
      BY <1>2, <2>2, <3>1 DEF StackInv, n
  <2> QED
    BY <1>1, <2>1, <2>2
<1>6. ASSUME NEW i \in 1 .. n + 1 PROVE Levels(new[i]) = Levels(st[1]) - (i - 1)
  <2>1. CASE i \in 1 .. n
    BY <1>2, <2>1 DEF StackInv, n
  <2>2. CASE i = n + 1
    <3>1. Levels(g) = Levels(st[n]) - 1
      BY <1>1, LevelsNested DEF Nested, n
    <3>2. Levels(st[n]) = Levels(st[1]) - (n - 1)
      BY <1>1 DEF StackInv, n
    <3>3. Levels(st[1]) \in Nat
      BY <1>1, LevelsPositive, StackTop
    <3> QED
      BY <1>1, <1>2, <2>2, <3>1, <3>2, <3>3
  <2> QED
    BY <1>3, <2>1, <2>2
<1>7. StackInv(new)
  <2>1. Len(new) - 1 = n
    BY <1>1, <1>2
  <2> QED
    BY <1>2, <1>3, <1>4, <1>5, <1>6, <2>1 DEF StackInv
<1> QED
  BY <1>7 DEF new

(* The innermost call is gone. *)
LEMMA CallPopped ==
  ASSUME NEW st, StackInv(st), Len(st) > 1
  PROVE  LET rest == SubSeq(st, 1, Len(st) - 1)
         IN /\ StackInv(rest) /\ rest # <<>> /\ Len(rest) = Len(st) - 1
            /\ \A i \in 1 .. Len(st) - 1 : rest[i] = st[i]
<1> DEFINE n == Len(st) - 1  rest == SubSeq(st, 1, n)
<1>1. st \in Seq(Frame) /\ n \in Nat \ {0} /\ Len(st) = n + 1
  BY LenProperties DEF StackInv
<1>2. rest \in Seq(Frame) /\ Len(rest) = n /\ \A i \in 1 .. n : rest[i] = st[i]
  BY <1>1, SubSeqProperties
<1> HIDE DEF n, rest
<1>3. n - 1 \in Nat /\ rest[1] = st[1] /\ rest # <<>>
  <2>1. n - 1 \in Nat /\ 1 \in 1 .. n /\ Len(<<>>) # n
    BY <1>1
  <2> QED
    BY <1>2, <2>1
<1>4. ASSUME NEW i \in 1 .. n
      PROVE  FrameInv(rest[i], rest[1].size) /\ Levels(rest[i]) = Levels(rest[1]) - (i - 1)
  <2>1. i \in 1 .. Len(st)
    BY <1>1
  <2> QED
    BY <1>2, <1>3, <2>1 DEF StackInv
<1>5. ASSUME NEW i \in 1 .. n - 1 PROVE Nested(rest[i], rest[i + 1], rest[1].size)
  <2>1. i \in 1 .. Len(st) - 1 /\ i \in 1 .. n /\ i + 1 \in 1 .. n
    BY <1>1
  <2> QED
    BY <1>2, <1>3, <2>1 DEF StackInv
<1>6. StackInv(rest)
  BY <1>2, <1>4, <1>5 DEF StackInv
<1> QED
  BY <1>2, <1>3, <1>6 DEF rest, n

-----------------------------------------------------------------------------
(* The invariant holds *)

(* A call that has just begun. *)
LEMMA EnterFits ==
  ASSUME NEW s \in Nat, NEW l \in Leads, NEW d \in 0 .. Width - 1, NEW size \in Nat,
         s >= LeadMin[l], Held(s, size)
  PROVE  FrameInv(Enter(s, l, d), size)
<1>1. l \in DOMAIN LeadMin
  BY IdentifyAssumption
<1>2. 1 \in 1 .. Done
  BY DEF Done, Detectors
<1>3. Enter(s, l, d) \in Frame
  BY <1>1, <1>2 DEF Enter, Frame
<1> QED
  BY <1>3 DEF Enter, FrameInv, Distinct, Yields

(* The outermost call alone. *)
LEMMA FirstCall ==
  ASSUME NEW f, FrameInv(f, f.size)
  PROVE  StackInv(<<f>>) /\ <<f>> # <<>>
<1>1. f \in Frame /\ Levels(f) \in Nat
  BY LevelsPositive DEF FrameInv
<1>2. <<f>> \in Seq(Frame) /\ Len(<<f>>) = 1 /\ <<f>>[1] = f
  BY <1>1
<1>3. \A i \in 1 .. Len(<<f>>) : i = 1
  BY <1>2
<1>4. ~ \E i \in 1 .. Len(<<f>>) - 1 : TRUE
  BY <1>2
<1>5. Levels(f) = Levels(f) - (1 - 1)
  BY <1>1
<1> QED
  BY <1>2, <1>3, <1>4, <1>5 DEF StackInv

(* The outermost call begins in the invariant.                             *)
LEMMA IInvInit == Init => IInv
<1> SUFFICES ASSUME Init PROVE IInv
  OBVIOUS
<1>1. PICK s \in Sizes, l \in Leads, d \in Depths : s >= LeadMin[l] /\ stack = <<Enter(s, l, d)>>
  BY DEF Init
<1>2. s \in Nat /\ d \in 0 .. Width - 1 /\ Held(s, s)
  BY IdentifyAssumption DEF Held
<1>3. FrameInv(Enter(s, l, d), s) /\ Enter(s, l, d).size = s
  BY <1>1, <1>2, EnterFits DEF Enter
<1>4. StackInv(stack) /\ stack # <<>>
  BY <1>1, <1>3, FirstCall
<1> QED
  BY <1>4 DEF Init, IInv, ResultInv, Distinct, Yields

(* What a call keeps while it runs. *)
LEMMA TopGoesOn ==
  ASSUME IInv, stack # <<>>, NEW g, FrameInv(g, stack[1].size),
         g.size = Top.size, g.depth = Top.depth, Replace(g), UNCHANGED <<result, calls>>
  PROVE  IInv'
<1>1. StackInv([stack EXCEPT ![Len(stack)] = g])
  BY TopReplaced DEF IInv, Top
<1>2. stack' # <<>>
  <2>1. Len(stack) \in Nat \ {0} /\ stack \in Seq(Frame) /\ g \in Frame
    BY StackTop DEF IInv, StackInv, FrameInv
  <2>2. Len([stack EXCEPT ![Len(stack)] = g]) = Len(stack)
    BY <2>1, ExceptSeq
  <2> QED
    BY <2>1, <2>2 DEF Replace
<1> QED
  BY <1>1, <1>2 DEF IInv, Replace

(* A candidate that fits the turn and the call. *)
LEMMA CandidatePushed ==
  ASSUME IInv, Running, NEW c, Fits(c, Top, stack[1].size), Pushes({c}),
         \/ Slot(Kind(c)) = Top.next /\ (Kind(c) = "Uuid" => Top.size >= 36)
         \/ Kind(c) = "Uuid" /\ Top.next = 11 /\ Top.size = 16,
         Kind(c) = "Protobuf" =>
           Score(c) # High /\ (Score(c) = Medium => \A d \in Top.out : Score(d) # High)
  PROVE  IInv'
<1>1. PICK g : g = [Top EXCEPT !.next = @ + 1, !.out = @ \cup {c}]
  OBVIOUS
<1>2. stack # <<>> /\ Top.next < Done
  BY DEF Running
<1>3. Top \in Frame /\ FrameInv(Top, stack[1].size) /\ stack[1].size \in Nat
  BY <1>2, StackTop DEF IInv, Top
<1>4. {c} \in SUBSET Seq(Link)
  BY DEF Fits, Chain
<1>5. /\ g \in Frame /\ g.size = Top.size /\ g.lead = Top.lead /\ g.depth = Top.depth
      /\ g.next = Top.next + 1 /\ g.out = Top.out \cup {c}
  <2>1. Top.next \in 1 .. 14
    BY <1>2, <1>3, DoneIsLast DEF Frame
  <2>2. Top.next + 1 \in 1 .. Done
    BY <2>1, DoneIsLast
  <2>3. Top.out \cup {c} \in SUBSET Seq(Link)
    BY <1>3, <1>4 DEF Frame
  <2> QED
    BY <1>1, <1>3, <2>2, <2>3 DEF Frame
<1>6. FrameInv(g, stack[1].size)
  BY <1>2, <1>3, <1>5, CandidateAdded
<1> QED
  BY <1>1, <1>2, <1>5, <1>6, TopGoesOn DEF Pushes

(* A nested call returns into the one below: the last call is gone and the *)
(* one before it is replaced.                                              *)
PopsInto(t, st, n, g) == t = [SubSeq(st, 1, n - 1) EXCEPT ![n - 1] = g]

(* A stack without its last two calls and with a new one is such a stack.  *)
LEMMA PoppedInto ==
  ASSUME NEW st, NEW n, NEW g, NEW t, st \in Seq(Frame), n = Len(st), n > 1, g \in Frame,
         t = Append(SubSeq(st, 1, n - 2), g)
  PROVE  PopsInto(t, st, n, g)
<1> DEFINE low == SubSeq(st, 1, n - 2)  rest == SubSeq(st, 1, n - 1)
<1>1. /\ n \in Nat /\ n - 1 \in 1 .. n /\ n - 1 \in 1 .. n - 1 /\ n - 2 \in Nat
      /\ (n - 2) + 1 = n - 1
  OBVIOUS
<1>2. /\ low \in Seq(Frame) /\ Len(low) = n - 2
      /\ \A i \in 1 .. n - 2 : low[i] = st[i]
  BY <1>1, SubSeqProperties
<1>3. /\ rest \in Seq(Frame) /\ Len(rest) = n - 1
      /\ \A i \in 1 .. n - 1 : rest[i] = st[i]
  BY <1>1, SubSeqProperties
<1> HIDE DEF low, rest
<1>4. /\ Append(low, g) \in Seq(Frame) /\ Len(Append(low, g)) = n - 1
      /\ \A i \in 1 .. n - 2 : Append(low, g)[i] = st[i]
      /\ Append(low, g)[n - 1] = g
  BY <1>1, <1>2, AppendProperties
<1>5. /\ [rest EXCEPT ![n - 1] = g] \in Seq(Frame)
      /\ Len([rest EXCEPT ![n - 1] = g]) = n - 1
      /\ \A i \in 1 .. n - 1 :
           [rest EXCEPT ![n - 1] = g][i] = IF i = n - 1 THEN g ELSE rest[i]
  BY <1>1, <1>3, ExceptSeq
<1> DEFINE a == Append(low, g)  b == [rest EXCEPT ![n - 1] = g]
<1>6. ASSUME NEW i \in 1 .. n - 1 PROVE a[i] = b[i]
  <2>1. i = n - 1 \/ i \in 1 .. n - 2
    BY <1>1
  <2> QED
    BY <1>3, <1>4, <1>5, <2>1
<1> HIDE DEF a, b
<1>7. a = b
  BY <1>4, <1>5, <1>6, SeqEqual DEF a, b
<1> QED
  BY <1>7, Zenon DEF a, b, low, rest, PopsInto

(* Every step of identify_with_limits keeps the invariant.                 *)
LEMMA IInvNext == IInv /\ [Next]_vars => IInv'
<1> SUFFICES ASSUME IInv, [Next]_vars PROVE IInv'
  OBVIOUS
<1> DEFINE size == stack[1].size
<1>0. ASSUME stack # <<>>
      PROVE  /\ Top \in Frame /\ FrameInv(Top, size) /\ size \in Nat
             /\ Top.next \in 1 .. Done /\ Levels(Top) \in Nat \ {0} /\ Len(stack) \in Nat \ {0}
  BY <1>0, StackTop, LevelsPositive DEF IInv, Top, Frame
<1>1. CASE NoReading
  <2>1. PICK g : g = [Top EXCEPT !.next = @ + 1, !.out = @ \cup {}]
    OBVIOUS
  <2>2. stack # <<>> /\ Top.next < Done /\ Pushes({})
    BY <1>1 DEF NoReading, Running
  <2>3. /\ g \in Frame /\ g.size = Top.size /\ g.lead = Top.lead /\ g.depth = Top.depth
        /\ g.next = Top.next + 1 /\ g.out = Top.out
    <3>1. Top.next \in 1 .. 14
      BY <1>0, <2>2, DoneIsLast
    <3>2. Top.next + 1 \in 1 .. Done
      BY <3>1, DoneIsLast
    <3> QED
      BY <1>0, <2>1, <2>2, <3>2 DEF Frame
  <2>4. g.next >= Top.next
    BY <1>0, <2>2, <2>3
  <2>5. FrameInv(g, size)
    BY <1>0, <2>2, <2>3, <2>4, NothingAdded
  <2> QED
    BY <2>1, <2>2, <2>3, <2>5, TopGoesOn DEF Pushes
<1>2. CASE LeafReading
  <2>1. PICK c \in LeafReadings(Top, Detector) : Pushes({c})
    BY <1>2 DEF LeafReading
  <2>2. Running /\ stack # <<>> /\ Top.next < Done
    BY <1>2 DEF LeafReading, Running
  <2>3. Top.next \in 1 .. 14 /\ Top.size >= LeadMin[Top.lead]
    BY <1>0, <2>2, DoneIsLast DEF FrameInv
  <2>4. PICK k \in Kinds, s \in Scores :
          /\ c = Leaf(k, s) /\ k # "Protobuf"
          /\ \/ Slot(k) = Top.next /\ (k = "Uuid" => Top.size >= 36)
             \/ k = "Uuid" /\ Top.next = 11 /\ Top.size = 16
    BY <2>1, <2>3, LeafReadingsFit DEF Detector
  <2>5. /\ Chain(c) /\ Len(c) = 1 /\ Kind(c) = k
        /\ c[1].len = 0 /\ c[1].capped = FALSE
    BY <2>4, LeafChain
  <2>6. Fits(c, Top, size)
    <3>1. \A i \in 1 .. Len(c) : i = 1
      BY <2>5
    <3>2. 0 <= size /\ Len(c) - 1 <= Levels(Top)
      BY <1>0, <2>2, <2>5
    <3> QED
      BY <2>5, <3>1, <3>2 DEF Fits, HeldLink, Held
  <2> QED
    BY <2>1, <2>2, <2>4, <2>5, <2>6, CandidatePushed
<1>3. CASE ProtobufReading
  <2>1. PICK structured \in BOOLEAN :
          Pushes({Leaf("Protobuf", ProtobufScore(structured, Top.out))})
    BY <1>3 DEF ProtobufReading
  <2> DEFINE s == ProtobufScore(structured, Top.out)  c == Leaf("Protobuf", s)
  <2>2. Running /\ stack # <<>> /\ Top.next < Done /\ Detector = "Protobuf"
    BY <1>3 DEF ProtobufReading, Running
  <2>3. Top.next = 14
    <3>1. Top.next \in 1 .. 14
      BY <1>0, <2>2, DoneIsLast
    <3> QED
      BY <2>2, <3>1, Turns DEF Detector
  <2>4. s \in {Low, Medium} /\ (s = Medium => \A d \in Top.out : Score(d) # High)
    <3>1. CASE structured /\ ~\E d \in Top.out : Score(d) = High
      BY <3>1 DEF ProtobufScore
    <3>2. CASE ~(structured /\ ~\E d \in Top.out : Score(d) = High)
      BY <3>2 DEF ProtobufScore, Low, Medium
    <3> QED
      BY <3>1, <3>2
  <2>5. s \in Scores /\ s # High /\ "Protobuf" \in Kinds
    BY <2>4 DEF Scores, Low, Medium, High, Kinds
  <2>6. /\ Chain(c) /\ Len(c) = 1 /\ Kind(c) = "Protobuf" /\ Score(c) = s
        /\ c[1].len = 0 /\ c[1].capped = FALSE
    BY <2>5, LeafChain
  <2> HIDE DEF s, c
  <2>7. Fits(c, Top, size)
    <3>1. \A i \in 1 .. Len(c) : i = 1
      BY <2>6
    <3>2. 0 <= size /\ Len(c) - 1 <= Levels(Top)
      BY <1>0, <2>2, <2>6
    <3> QED
      BY <2>6, <3>1, <3>2 DEF Fits, HeldLink, Held
  <2>8. Slot(Kind(c)) = Top.next /\ Kind(c) # "Uuid"
    BY <2>3, <2>6 DEF Slot
  <2>9. Pushes({c})
    BY <2>1 DEF c, s
  <2> QED
    BY <2>2, <2>4, <2>5, <2>6, <2>7, <2>8, <2>9, CandidatePushed
<1>4. CASE UnwrapCapped
  <2>1. PICK p \in Payloads(Top, Detector) :
          Pushes({Wrapper(Detector, p.len, p.capped, DepthCapped)})
    BY <1>4 DEF UnwrapCapped
  <2> DEFINE c == Wrapper(Detector, p.len, p.capped, DepthCapped)
  <2>2. Running /\ stack # <<>> /\ Top.next < Done /\ AtDepthCap(Top)
    BY <1>4 DEF UnwrapCapped, Running
  <2>3. Detector \in Wrappers /\ Measured(p, size)
    BY <1>0, <2>2, PayloadsHeld DEF FrameInv, Measured
  <2>4. /\ Chain(DepthCapped) /\ Len(DepthCapped) = 1
        /\ DepthCapped[1].len = 0 /\ DepthCapped[1].capped = FALSE
    BY LeafChain DEF DepthCapped, Kinds, Scores
  <2>5. ASSUME NEW i \in 1 .. Len(DepthCapped) PROVE HeldLink(DepthCapped[i], size)
    <3>1. i = 1 /\ 0 <= size
      BY <1>0, <2>2, <2>4
    <3> QED
      BY <2>4, <3>1 DEF HeldLink, Held
  <2>6. FitsInside(DepthCapped, Top, size) /\ Wraps(c, Detector, p, DepthCapped)
    BY <1>0, <2>2, <2>4, <2>5 DEF FitsInside, Wraps
  <2>7. Pushes({c})
    BY <2>1
  <2> HIDE DEF c
  <2>8. Fits(c, Top, size) /\ Kind(c) = Detector
    BY <2>3, <2>6, WrapperFits
  <2>9. Top.next \in 1 .. 14
    BY <1>0, <2>2, DoneIsLast
  <2>10. Slot(Kind(c)) = Top.next /\ Kind(c) # "Uuid" /\ Kind(c) # "Protobuf"
    BY <2>3, <2>8, <2>9, Turns DEF Detector, Wrappers
  <2> QED
    BY <2>2, <2>7, <2>8, <2>10, CandidatePushed
<1>5. CASE Unwrap
  <2>1. PICK p \in Payloads(Top, Detector), l \in Leads :
          /\ p.len >= LeadMin[l]
          /\ stack' = Append([stack EXCEPT ![Len(stack)].len = p.len,
                                           ![Len(stack)].capped = p.capped],
                             Enter(p.len, l, Deeper(Top)))
    BY <1>5 DEF Unwrap
  <2>2. Running /\ stack # <<>> /\ Top.next < Done /\ ~AtDepthCap(Top)
        /\ calls' = calls + 1 /\ UNCHANGED result
    BY <1>5 DEF Unwrap, Running
  <2>3. Detector \in Wrappers /\ Measured(p, size)
    BY <1>0, <2>2, PayloadsHeld DEF FrameInv, Measured
  <2>4. PICK f : f = [Top EXCEPT !.len = p.len, !.capped = p.capped]
    OBVIOUS
  <2>5. /\ f \in Frame /\ f.size = Top.size /\ f.lead = Top.lead /\ f.depth = Top.depth
        /\ f.next = Top.next /\ f.out = Top.out /\ HeldLink(f, size)
    <3>1. f \in Frame
      BY <1>0, <2>2, <2>3, <2>4 DEF Frame, Measured
    <3>2. f.len = p.len /\ f.capped = p.capped
      BY <1>0, <2>2, <2>4 DEF Frame
    <3>3. HeldLink(f, size)
      BY <2>3, <3>2 DEF HeldLink, Measured
    <3> QED
      BY <1>0, <2>2, <2>4, <3>1, <3>3 DEF Frame
  <2>6. f.next >= Top.next
    BY <1>0, <2>2, <2>5
  <2>7. FrameInv(f, size)
    BY <1>0, <2>2, <2>5, <2>6, NothingAdded
  <2> DEFINE st == [stack EXCEPT ![Len(stack)] = f]
  <2>8. StackInv(st)
    BY <2>2, <2>5, <2>7, TopReplaced DEF IInv, Top
  <2>9. /\ stack \in Seq(Frame) /\ Len(stack) \in 1 .. Len(stack) /\ Len(stack) \in Nat
        /\ st \in Seq(Frame) /\ Len(st) = Len(stack)
        /\ \A j \in 1 .. Len(stack) : st[j] = IF j = Len(stack) THEN f ELSE stack[j]
    <3>1. stack \in Seq(Frame) /\ Len(stack) \in 1 .. Len(stack)
      BY <1>0, <2>2 DEF IInv, StackInv
    <3> QED
      BY <2>5, <3>1, ExceptSeq
  <2>10. st[Len(st)] = f /\ st[1].size = size /\ st # <<>>
    <3>1. Len(stack) = 1 \/ 1 # Len(stack)
      OBVIOUS
    <3>2. st[1].size = size
      BY <2>5, <2>9, <3>1 DEF Top
    <3> QED
      BY <2>9, <3>2
  <2> DEFINE g == Enter(p.len, l, Deeper(Top))
  <2>11. FrameInv(g, size)
    <3>1. p.len \in Nat /\ Held(p.len, size) /\ Deeper(Top) \in 0 .. Width - 1
      BY <1>0, <2>2, <2>3, DepthWraps DEF Measured, HeldLink
    <3> QED
      BY <1>0, <2>1, <2>2, <3>1, EnterFits
  <2>12. g.depth = Deeper(f)
    BY <2>5 DEF Enter, Deeper
  <2>13. Nested(f, g, size)
    BY <2>2, <2>3, <2>5, <2>12 DEF Nested, Detector, AtDepthCap, Deeper
  <2>14. stack' = Append(st, g)
    <3>1. [stack EXCEPT ![Len(stack)].len = p.len, ![Len(stack)].capped = p.capped] = st
      BY <2>4, <2>9 DEF Top
    <3> QED
      BY <2>1, <3>1
  <2> HIDE DEF st, g
  <2>15. StackInv(stack')
    BY <2>8, <2>10, <2>11, <2>13, <2>14, CallPushed
  <2>16. stack' # <<>>
    <3>1. g \in Frame
      BY <2>11 DEF FrameInv
    <3>2. Len(stack') = Len(st) + 1
      BY <2>9, <2>14, <3>1, AppendProperties
    <3> QED
      BY <2>9, <3>2
  <2> QED
    BY <2>2, <2>15, <2>16 DEF IInv
<1>6. CASE SkipHeuristics
  <2>1. stack # <<>> /\ Top.next = Heuristics /\ UNCHANGED <<result, calls>>
    BY <1>6 DEF SkipHeuristics
  <2>2. PICK g : g = [Top EXCEPT !.next = Done]
    OBVIOUS
  <2>3. /\ g \in Frame /\ g.size = Top.size /\ g.lead = Top.lead /\ g.depth = Top.depth
        /\ g.next = Done /\ g.out = Top.out
    <3>1. Done \in 1 .. Done
      BY DoneIsLast
    <3> QED
      BY <1>0, <2>1, <2>2, <3>1 DEF Frame
  <2>4. g.next >= Top.next
    BY <1>0, <2>1, <2>3, DoneIsLast
  <2>5. FrameInv(g, size)
    BY <1>0, <2>1, <2>3, <2>4, NothingAdded
  <2> QED
    BY <1>6, <2>1, <2>2, <2>3, <2>5, TopGoesOn DEF SkipHeuristics
<1>7. CASE Return
  <2> DEFINE n == Len(stack)  up == stack[n - 1]  best == Best(Candidates(Top))
  <2>1. /\ n > 1 /\ Top.next = Done /\ stack # <<>> /\ n \in Nat /\ UNCHANGED <<result, calls>>
        /\ stack \in Seq(Frame)
    BY <1>0, <1>7 DEF Return, IInv, StackInv
  <2>2. n - 1 \in 1 .. n /\ n - 1 \in 1 .. n - 1 /\ n - 2 \in Nat /\ (n - 1) + 1 = n
    BY <2>1
  <2>3. up \in Frame /\ FrameInv(up, size) /\ Nested(up, Top, size)
    BY <2>1, <2>2 DEF IInv, StackInv, Top
  <2>4. FrameInv(Top, size) /\ size \in Nat /\ Top \in Frame
    BY <1>0, <2>1
  <2>5. Levels(Top) = Levels(up) - 1 /\ Levels(up) \in Nat
    BY <2>3, <2>4, LevelsNested, LevelsPositive DEF Nested
  <2>6. FitsInside(best, up, size)
    <3>1. Fits(best, Top, size)
      BY <2>4, BestFits
    <3>2. Len(best) \in Nat
      BY <3>1 DEF Fits, Chain
    <3> QED
      BY <2>5, <3>1, <3>2 DEF Fits, FitsInside
  <2>7. Measured(up, size) /\ Detectors[up.next] \in Wrappers /\ up.next \in 1 .. 14
    BY <2>3, DoneIsLast DEF Measured, Nested, Frame
  <2> DEFINE c == Wrapper(Detectors[up.next], up.len, up.capped, best)
  <2>8. PICK g : g = [up EXCEPT !.next = @ + 1, !.out = @ \cup {c}, !.len = 0, !.capped = FALSE]
    OBVIOUS
  <2>9. stack' = Append(SubSeq(stack, 1, n - 2), g)
    BY <1>7, <2>8 DEF Return
  <2>10. Wraps(c, Detectors[up.next], up, best)
    BY DEF Wraps
  <2> HIDE DEF c, best
  <2>11. Fits(c, up, size) /\ Kind(c) = Detectors[up.next]
    BY <2>6, <2>7, <2>10, WrapperFits
  <2>12. Slot(Kind(c)) = up.next /\ Kind(c) # "Uuid" /\ Kind(c) # "Protobuf"
    BY <2>7, <2>11, Turns DEF Wrappers
  <2>13. /\ g \in Frame /\ g.size = up.size /\ g.lead = up.lead /\ g.depth = up.depth
         /\ g.next = up.next + 1 /\ g.out = up.out \cup {c}
    <3>1. up.next + 1 \in 1 .. Done
      BY <2>7, DoneIsLast
    <3>2. up.out \cup {c} \in SUBSET Seq(Link)
      BY <2>3, <2>11 DEF Frame, Fits, Chain
    <3> QED
      BY <2>3, <2>8, <3>1, <3>2 DEF Frame
  <2>14. FrameInv(g, size)
    <3>1. up.next < Done
      BY <2>7, DoneIsLast
    <3> QED
      BY <2>3, <2>4, <2>11, <2>12, <2>13, <3>1, CandidateAdded
  <2> DEFINE rest == SubSeq(stack, 1, n - 1)
  <2>15. /\ StackInv(rest) /\ rest # <<>> /\ Len(rest) = n - 1
         /\ \A i \in 1 .. n - 1 : rest[i] = stack[i]
    BY <2>1, CallPopped DEF IInv
  <2>16. rest[1].size = size /\ rest[Len(rest)] = up
    <3>1. 1 \in 1 .. n - 1
      BY <2>1
    <3> QED
      BY <2>2, <2>15, <3>1
  <2>17. StackInv([rest EXCEPT ![Len(rest)] = g])
    <3> HIDE DEF rest, n, up, size
    <3> QED
      BY <2>13, <2>14, <2>15, <2>16, TopReplaced
  <2>18. stack' = [rest EXCEPT ![n - 1] = g]
    <3>1. g \in Frame /\ stack \in Seq(Frame) /\ n > 1 /\ n = Len(stack)
      BY <2>1, <2>13
    <3> HIDE DEF n
    <3>2. PopsInto(stack', stack, n, g)
      BY <2>9, <3>1, PoppedInto, Zenon
    <3> QED
      BY <3>2, Zenon DEF PopsInto
  <2>19. StackInv(stack')
    BY <2>15, <2>17, <2>18
  <2>20. stack' # <<>>
    <3>1. Len(stack') = n - 1
      <4>1. rest \in Seq(Frame) /\ n - 1 \in 1 .. Len(rest)
        BY <2>2, <2>15 DEF StackInv
      <4> QED
        BY <2>13, <2>15, <2>18, <4>1, ExceptSeq
    <3> QED
      BY <2>1, <3>1
  <2> QED
    BY <2>1, <2>19, <2>20 DEF IInv
<1>8. CASE Finish
  <2>1. stack # <<>> /\ result' = Candidates(Top) /\ stack' = <<>> /\ UNCHANGED calls
    BY <1>8 DEF Finish
  <2>2. FrameInv(Top, size) /\ size \in Nat
    BY <1>0, <2>1
  <2>3. Chain(Unknown) /\ Kind(Unknown) = "Unknown"
    BY LeafChain DEF Unknown, Kinds, Scores
  <2>4. ResultInv(Candidates(Top)) /\ Candidates(Top) # {}
    BY <2>2, <2>3 DEF Candidates, ResultInv, FrameInv, Fits, Distinct, Yields
  <2>5. StackInv(<<>>)
    BY DEF StackInv
  <2> QED
    BY <2>1, <2>4, <2>5 DEF IInv
<1>9. CASE UNCHANGED vars
  BY <1>9 DEF vars, IInv
<1> QED
  BY <1>1, <1>2, <1>3, <1>4, <1>5, <1>6, <1>7, <1>8, <1>9 DEF Next, Step, Returned

(* The invariant holds of every call.                                      *)
LEMMA Invariance == Spec => []IInv
BY IInvInit, IInvNext, PTL DEF Spec

-----------------------------------------------------------------------------
(* The theorems *)

(* Calls, candidates and results keep their types, a result is not empty,  *)
(* and only wrappers wrap: identify_with_limits for every limit and blob.  *)
THEOREM TypeCorrect == Spec => []TypeOK
<1>1. IInv => TypeOK
  BY DEF IInv, StackInv, ResultInv, Chain, TypeOK
<1> QED
  BY <1>1, Invariance, PTL

(* The length of the chains, from the invariant of the stack.              *)
LEMMA StackChains == ASSUME StackInv(stack) PROVE ChainBounded
<1> SUFFICES ASSUME NEW i \in DOMAIN stack
             PROVE  /\ \A c \in stack[i].out : Len(c) - 1 <= Levels(stack[i])
                    /\ Len(stack) - i < Levels(stack[i])
                    /\ i > 1 => stack[i].depth < MaxDepth
  BY DEF ChainBounded
<1> DEFINE n == Len(stack)
<1>1. /\ n \in Nat /\ i \in 1 .. n /\ n \in 1 .. n /\ 1 \in 1 .. n
      /\ \A j \in 1 .. n : stack[j] \in Frame
  BY LenProperties DEF StackInv
<1>2. \A c \in stack[i].out : Len(c) - 1 <= Levels(stack[i])
  BY <1>1 DEF StackInv, FrameInv, Fits
<1>3. n - i < Levels(stack[i])
  <2>1. /\ Levels(stack[i]) = Levels(stack[1]) - (i - 1)
        /\ Levels(stack[n]) = Levels(stack[1]) - (n - 1)
    BY <1>1 DEF StackInv
  <2>2. Levels(stack[n]) \in Nat \ {0} /\ Levels(stack[1]) \in Nat
    BY <1>1, LevelsPositive
  <2> QED
    BY <1>1, <2>1, <2>2
<1>4. ASSUME i > 1 PROVE stack[i].depth < MaxDepth
  <2>1. i - 1 \in 1 .. n - 1 /\ i - 1 \in 1 .. n /\ (i - 1) + 1 = i
    BY <1>1, <1>4
  <2>2. Nested(stack[i - 1], stack[i], stack[1].size)
    BY <2>1 DEF StackInv
  <2> QED
    BY <1>1, <2>1, <2>2, LevelsNested DEF Nested
<1> QED
  BY <1>2, <1>3, <1>4

(* The payloads, from the invariant of the stack.                          *)
LEMMA StackPayloads == ASSUME StackInv(stack) PROVE PayloadsBounded
<1> SUFFICES ASSUME NEW i \in DOMAIN stack
             PROVE  /\ Held(stack[i].size, stack[1].size)
                    /\ \A c \in stack[i].out : \A k \in DOMAIN c :
                         Held(c[k].len, stack[1].size) /\ (c[k].capped => c[k].len = MaxOutput)
  BY DEF PayloadsBounded, Held
<1>1. i \in 1 .. Len(stack)
  BY LenProperties DEF StackInv
<1>2. FrameInv(stack[i], stack[1].size)
  BY <1>1 DEF StackInv
<1>3. ASSUME NEW c \in stack[i].out, NEW k \in DOMAIN c
      PROVE  HeldLink(c[k], stack[1].size)
  <2>1. Fits(c, stack[i], stack[1].size)
    BY <1>2 DEF FrameInv
  <2>2. DOMAIN c = 1 .. Len(c)
    BY <2>1, LenProperties DEF Fits, Chain
  <2> QED
    BY <1>3, <2>1, <2>2 DEF Fits
<1> QED
  BY <1>2, <1>3 DEF FrameInv, HeldLink

(* The strict order, from the invariant of a result.                       *)
LEMMA ResultSorted == ASSUME ResultInv(result) PROVE StrictlySorted
BY DistinctSort DEF ResultInv, Distinct, StrictlySorted

(* The score of protobuf, from the invariant of a result.                  *)
LEMMA ResultYields == ASSUME ResultInv(result) PROVE ProtobufYields
<1> SUFFICES ASSUME NEW p \in result, Kind(p) = "Protobuf"
             PROVE  /\ Score(p) = Medium => \A c \in result : Score(c) # High
                    /\ Score(p) # High
                    /\ \A c \in result :
                         Score(c) >= Score(p) /\ KindRank(Kind(c)) >= 2 => SortsBefore(c, p)
  BY DEF ProtobufYields
<1>1. Yields(result) /\ \A c \in result : Chain(c)
  BY DEF ResultInv
<1>2. KindRank("Protobuf") = 1
  BY DEF KindRank
<1>3. ASSUME NEW c \in result, Score(c) >= Score(p), KindRank(Kind(c)) >= 2
      PROVE  SortsBefore(c, p)
  <2>1. Score(c) \in 1 .. 3 /\ Score(p) \in 1 .. 3 /\ KindRank(Kind(c)) \in 0 .. 3
    BY <1>1, Heads, Ranks DEF Scores, Low, Medium, High
  <2>2. Score(c) > Score(p) \/ Score(c) = Score(p)
    BY <1>3, <2>1
  <2>3. KindRank(Kind(c)) > KindRank(Kind(p))
    BY <1>2, <1>3, <2>1
  <2> QED
    BY <2>2, <2>3 DEF SortsBefore
<1> QED
  BY <1>1, <1>3 DEF Yields

(* build_chain: the chains and the recursion stay within what max_depth    *)
(* leaves to a call, for every depth of the first call, usize::MAX         *)
(* included.                                                               *)
THEOREM ChainBoundedCorrect == Spec => []ChainBounded
<1>1. IInv => ChainBounded
  BY StackChains DEF IInv
<1> QED
  BY <1>1, Invariance, PTL

(* sort_by: whatever the detectors answer, no two candidates of a result   *)
(* are equal to the comparator.                                            *)
THEOREM StrictlySortedCorrect == Spec => []StrictlySorted
<1>1. IInv => StrictlySorted
  BY ResultSorted DEF IInv
<1> QED
  BY <1>1, Invariance, PTL

(* detect_protobuf: its score knows every candidate of the result.         *)
THEOREM ProtobufYieldsCorrect == Spec => []ProtobufYields
<1>1. IInv => ProtobufYields
  BY ResultYields DEF IInv
<1> QED
  BY <1>1, Invariance, PTL

(* bounded_read, detect_base64, detect_hex: through every nesting, a       *)
(* payload is within max_output or within the outermost blob.              *)
THEOREM PayloadsBoundedCorrect == Spec => []PayloadsBounded
<1>1. IInv => PayloadsBounded
  BY StackPayloads DEF IInv
<1> QED
  BY <1>1, Invariance, PTL

-----------------------------------------------------------------------------
(* The work of a call *)

(* A tree of one level more has three times the nodes, and one.            *)
IsTree(f) == f = [levels \in Nat |-> IF levels <= 1 THEN 1 ELSE 1 + 3 * f[levels - 1]]

(* Tree is the function of that equation, and its values are numbers.      *)
LEMMA TreeGrows ==
  /\ \A n \in Nat : Tree[n] \in Nat
  /\ \A n \in Nat : Tree[n] = IF n <= 1 THEN 1 ELSE 1 + 3 * Tree[n - 1]
<1> DEFINE step == [v \in Nat |-> 1 + 3 * v]
<1>1. step \in [Nat -> Nat] /\ 1 \in Nat
  OBVIOUS
<1>2. PICK f \in [Nat -> Nat] : f[0] = 1 /\ \A n \in Nat : f[n + 1] = 1 + 3 * f[n]
  <2>1. \E f : Iterated(f, Nat, 1, step)
    BY <1>1, Iteration, Zenon
  <2> QED
    BY <2>1 DEF Iterated
<1> DEFINE g == [n \in Nat |-> IF n = 0 THEN 1 ELSE f[n - 1]]
<1>3. g \in [Nat -> Nat]
  OBVIOUS
<1>4. ASSUME NEW n \in Nat PROVE g[n] = IF n <= 1 THEN 1 ELSE 1 + 3 * g[n - 1]
  <2>1. CASE n <= 1
    <3>1. n = 0 \/ n = 1
      BY <2>1
    <3> QED
      BY <1>2, <3>1
  <2>2. CASE ~(n <= 1)
    <3>1. n - 1 \in Nat /\ n - 2 \in Nat /\ (n - 2) + 1 = n - 1 /\ n # 0 /\ n - 1 # 0
          /\ (n - 1) - 1 = n - 2
      BY <2>2
    <3>2. f[(n - 2) + 1] = 1 + 3 * f[n - 2]
      BY <1>2, <3>1
    <3> QED
      BY <2>2, <3>1, <3>2
  <2> QED
    BY <2>1, <2>2
<1> HIDE DEF g
<1>5. IsTree(g)
  BY <1>3, <1>4 DEF IsTree
<1>6. IsTree(Tree)
  BY <1>5, Zenon DEF IsTree, Tree
<1>7. \A n \in Nat : Tree[n] = IF n <= 1 THEN 1 ELSE 1 + 3 * Tree[n - 1]
  BY <1>6, Zenon DEF IsTree
<1> DEFINE P == {n \in Nat : Tree[n] \in Nat /\ Tree[n + 1] \in Nat}
<1>8. 0 \in P
  BY <1>7
<1>9. ASSUME NEW n \in Nat, n \in P PROVE n + 1 \in P
  BY <1>7, <1>9
<1> HIDE DEF P
<1>10. \A n \in Nat : n \in P
  BY <1>8, <1>9, SetInduction
<1>11. \A n \in Nat : Tree[n] \in Nat
  BY <1>10 DEF P
<1> QED
  BY <1>7, <1>11

(* The detectors that can unwrap a blob, by its lead: a stream, a base64   *)
(* and a hex text; 0 when one cannot.                                      *)
FirstUnwrap(lead) == CASE lead = "gzip" -> 3 [] lead = "zlib" -> 4 [] lead = "snappy" -> 5
                       [] OTHER -> 0
SecondUnwrap(lead) == IF lead \in {"bplist", "zlib", "uuid", "ascii"} THEN 9 ELSE 0
LastUnwrap(lead) == IF lead \in {"zlib", "ascii"} THEN 10 ELSE 0

(* The calls that identify a payload of a call at most, and those that a   *)
(* call at a detector has yet to make.                                     *)
Sub(f) == IF Levels(f) > 1 THEN Tree[Levels(f) - 1] ELSE 0
Owes(f, next) == (IF next <= FirstUnwrap(f.lead) THEN Sub(f) ELSE 0)
                   + (IF next <= SecondUnwrap(f.lead) THEN Sub(f) ELSE 0)
                   + (IF next <= LastUnwrap(f.lead) THEN Sub(f) ELSE 0)

(* What the calls below the last have yet to make, and the bound: all that *)
(* was and will be called fits the tree.                                   *)
Owed(st, owed) ==
  /\ owed \in Seq(Nat) /\ Len(owed) = Len(st) /\ owed[1] = 0
  /\ \A i \in 1 .. Len(st) - 1 : owed[i + 1] = owed[i] + Owes(st[i], st[i].next + 1)
FitsTree(st, n, owed, made) ==
  made + owed[Len(st)] + Owes(st[Len(st)], n) <= Tree[Levels(st[1])]
WorkInv(st, made) ==
  st # <<>> => \E owed : Owed(st, owed) /\ FitsTree(st, st[Len(st)].next, owed, made)

(* What a call owes is less at a later detector.                           *)
LEMMA OwesLess ==
  ASSUME NEW f, NEW n, NEW m, f \in Frame, n \in Nat, m \in Nat, n <= m
  PROVE  Sub(f) \in Nat /\ Owes(f, n) \in Nat /\ Owes(f, m) \in Nat /\ Owes(f, m) <= Owes(f, n)
<1>1. Levels(f) \in Nat
  BY LevelsPositive
<1>2. Sub(f) \in Nat
  BY <1>1, TreeGrows DEF Sub
<1>3. FirstUnwrap(f.lead) \in Nat /\ SecondUnwrap(f.lead) \in Nat /\ LastUnwrap(f.lead) \in Nat
  BY DEF FirstUnwrap, SecondUnwrap, LastUnwrap
<1> HIDE DEF Sub
<1> QED
  BY <1>2, <1>3 DEF Owes

(* A detector that unwraps is one of those that can: what is owed after    *)
(* it is less by the calls for a payload.                                  *)
LEMMA OwesPayload ==
  ASSUME NEW f, NEW n, f \in Frame, n = f.next, n \in 1 .. 14, Payloads(f, Detectors[n]) # {}
  PROVE  Owes(f, n) = Owes(f, n + 1) + Sub(f)
<1>1. \/ n = 3 /\ f.lead = "gzip"
      \/ n = 4 /\ f.lead = "zlib"
      \/ n = 5 /\ f.lead = "snappy"
      \/ n = 9 /\ f.lead \in {"bplist", "zlib", "uuid", "ascii"}
      \/ n = 10 /\ f.lead \in {"zlib", "ascii"}
  <2> DEFINE d == Detectors[n]
  <2>1. d = "Gzip" => n = 3
    BY DEF Detectors
  <2>2. d = "Zlib" => n = 4
    BY DEF Detectors
  <2>3. d = "Snappy" => n = 5
    BY DEF Detectors
  <2>4. d = "Base64" => n = 9
    BY DEF Detectors
  <2>5. d = "Hex" => n = 10
    BY DEF Detectors
  <2> HIDE DEF d
  <2>6. \/ d = "Gzip" /\ f.lead = "gzip"
        \/ d = "Zlib" /\ f.lead = "zlib"
        \/ d = "Snappy" /\ f.lead = "snappy"
        \/ d = "Base64" /\ f.lead \in {"bplist", "zlib", "uuid", "ascii"}
        \/ d = "Hex" /\ f.lead \in {"zlib", "ascii"}
    <3>1. Payloads(f, d) # {}
      BY DEF d
    <3>2. PICK p : p \in Payloads(f, d)
      BY <3>1
    <3> QED
      BY <3>2 DEF Payloads
  <2> QED
    BY <2>1, <2>2, <2>3, <2>4, <2>5, <2>6
<1>2. Sub(f) \in Nat
  <2>1. 0 \in Nat /\ 0 <= 0
    OBVIOUS
  <2> QED
    BY <2>1, OwesLess
<1> QED
  BY <1>1, <1>2 DEF Owes, FirstUnwrap, SecondUnwrap, LastUnwrap

(* The turns of a call end one after the last detector.                    *)
LEMMA NextDetector == ASSUME NEW f, f \in Frame PROVE f.next \in 1 .. 15 /\ f.next \in Nat
<1>1. f.next \in 1 .. Done
  BY DEF Frame
<1> QED
  BY <1>1, DoneIsLast

(* It depends on no more of a call than its lead and its depth.            *)
LEMMA OwesSame ==
  ASSUME NEW f, NEW g, f.lead = g.lead, f.depth = g.depth
  PROVE  Levels(f) = Levels(g) /\ Sub(f) = Sub(g) /\ \A n : Owes(f, n) = Owes(g, n)
<1>1. Levels(f) = Levels(g)
  BY DEF Levels, AtDepthCap, Deeper
<1>2. Sub(f) = Sub(g)
  BY <1>1 DEF Sub
<1> QED
  BY <1>1, <1>2 DEF Owes

(* A stack with one call of it replaced.                                   *)
Replaced(t, st, i, g) ==
  /\ t \in Seq(Frame) /\ Len(t) = Len(st)
  /\ \A j \in 1 .. Len(st) : t[j] = IF j = i THEN g ELSE st[j]

(* EXCEPT replaces that call and no other.                                 *)
LEMMA FrameReplaced ==
  ASSUME NEW st, NEW i, NEW g, st \in Seq(Frame), i \in 1 .. Len(st), g \in Frame
  PROVE  Replaced([st EXCEPT ![i] = g], st, i, g)
BY ExceptSeq DEF Replaced

(* A detector that makes no call.                                          *)
LEMMA WorkTop ==
  ASSUME NEW st, NEW made, NEW g, StackInv(st), st # <<>>, made \in Nat, WorkInv(st, made),
         g \in Frame, g.lead = st[Len(st)].lead, g.depth = st[Len(st)].depth,
         g.next >= st[Len(st)].next
  PROVE  WorkInv([st EXCEPT ![Len(st)] = g], made)
<1> DEFINE n == Len(st)  top == st[n]  to == [st EXCEPT ![n] = g]
<1>1. /\ st \in Seq(Frame) /\ n \in Nat \ {0} /\ top \in Frame /\ st[1] \in Frame
  BY StackTop DEF StackInv
<1>2. PICK owed : Owed(st, owed) /\ FitsTree(st, top.next, owed, made)
  BY DEF WorkInv
<1>3. /\ to \in Seq(Frame) /\ Len(to) = n
      /\ \A i \in 1 .. n : to[i] = IF i = n THEN g ELSE st[i]
  <2>1. Len(st) \in 1 .. Len(st)
    BY <1>1
  <2> QED
    BY <1>1, <2>1, ExceptSeq
<1>4. to[n] = g /\ Levels(to[1]) = Levels(st[1])
  <2>1. 1 \in 1 .. n /\ n \in 1 .. n
    BY <1>1
  <2>2. to[1] = st[1] \/ (n = 1 /\ to[1] = g)
    BY <1>3, <2>1
  <2> QED
    BY <1>3, <2>1, <2>2, OwesSame
<1>5. Owed(to, owed)
  <2>1. \A i \in 1 .. n - 1 : to[i] = st[i]
    BY <1>1, <1>3
  <2> HIDE DEF to, n
  <2> QED
    BY <1>2, <1>3, <2>1 DEF Owed, n
<1>6. FitsTree(to, g.next, owed, made)
  <2>1. g.next \in Nat /\ top.next \in Nat
    BY <1>1, NextDetector, Zenon
  <2>2. Owes(g, g.next) <= Owes(top, top.next)
        /\ Owes(g, g.next) \in Nat /\ Owes(top, top.next) \in Nat
    <3>1. /\ Owes(g, g.next) <= Owes(g, top.next)
          /\ Owes(g, g.next) \in Nat /\ Owes(g, top.next) \in Nat
      BY <2>1, OwesLess
    <3> QED
      BY <3>1, OwesSame
  <2>3. owed[n] \in Nat
    BY <1>1, <1>2 DEF Owed
  <2>4. Tree[Levels(st[1])] \in Nat
    BY <1>1, LevelsPositive, TreeGrows
  <2>5. made + owed[n] + Owes(top, top.next) <= Tree[Levels(st[1])]
    BY <1>2 DEF FitsTree
  <2>6. made + owed[n] + Owes(g, g.next) <= Tree[Levels(st[1])]
    BY <2>2, <2>3, <2>4, <2>5
  <2> HIDE DEF to, n
  <2> QED
    BY <1>3, <1>4, <2>6 DEF FitsTree
<1> HIDE DEF to, n
<1> QED
  BY <1>3, <1>4, <1>5, <1>6 DEF WorkInv, n, to

(* A call for a payload takes its share of what is owed.                   *)
LEMMA WorkPush ==
  ASSUME NEW st, NEW made, NEW f, NEW h, StackInv(st), st # <<>>, made \in Nat,
         WorkInv(st, made), f = st[Len(st)], Owes(f, f.next) = Owes(f, f.next + 1) + Sub(f),
         h \in Frame, h.next = 1, Levels(f) > 1, Levels(h) = Levels(f) - 1
  PROVE  WorkInv(Append(st, h), made + 1)
<1> DEFINE n == Len(st)  to == Append(st, h)
<1>1. st \in Seq(Frame) /\ n \in Nat \ {0} /\ f \in Frame /\ st[1] \in Frame
  BY StackTop DEF StackInv
<1>2. PICK owed : Owed(st, owed) /\ FitsTree(st, f.next, owed, made)
  BY DEF WorkInv
<1> DEFINE more == owed[n] + Owes(f, f.next + 1)  all == Append(owed, more)
<1>3. f.next \in Nat /\ f.next + 1 \in Nat /\ f.next <= f.next + 1
  BY <1>1, NextDetector
<1>4. /\ owed \in Seq(Nat) /\ Len(owed) = n /\ owed[n] \in Nat /\ more \in Nat
      /\ Owes(f, f.next + 1) \in Nat /\ Sub(f) \in Nat
  <2>1. Owes(f, f.next + 1) \in Nat /\ Sub(f) \in Nat
    BY <1>1, <1>3, OwesLess
  <2>2. owed \in Seq(Nat) /\ Len(owed) = n
    BY <1>2 DEF Owed
  <2> QED
    BY <1>1, <2>1, <2>2
<1>5. /\ to \in Seq(Frame) /\ Len(to) = n + 1 /\ to[n + 1] = h
      /\ \A i \in 1 .. n : to[i] = st[i]
  BY <1>1, AppendProperties
<1> HIDE DEF more
<1>6. /\ all \in Seq(Nat) /\ Len(all) = n + 1 /\ all[n + 1] = more
      /\ \A i \in 1 .. n : all[i] = owed[i]
  BY <1>4, AppendProperties
<1> HIDE DEF to, all
<1>7. Owed(to, all)
  <2>1. all[1] = 0
    BY <1>1, <1>2, <1>6 DEF Owed
  <2>2. ASSUME NEW i \in 1 .. n PROVE all[i + 1] = all[i] + Owes(to[i], to[i].next + 1)
    <3>1. CASE i = n
      BY <1>1, <1>5, <1>6, <3>1 DEF more
    <3>2. CASE i # n
      <4>1. i \in 1 .. n - 1 /\ i + 1 \in 1 .. n
        BY <1>1, <3>2
      <4> QED
        BY <1>2, <1>5, <1>6, <4>1 DEF Owed
    <3> QED
      BY <3>1, <3>2
  <2>3. Len(to) - 1 = n
    BY <1>1, <1>5
  <2> QED
    BY <1>5, <1>6, <2>1, <2>2, <2>3 DEF Owed
<1>8. FitsTree(to, h.next, all, made + 1)
  <2>1. Levels(f) \in Nat /\ Levels(h) \in Nat \ {0} /\ Levels(st[1]) \in Nat
    BY <1>1, LevelsPositive
  <2>2. Sub(f) = Tree[Levels(h)]
    BY DEF Sub
  <2>3. Owes(h, h.next) \in Nat /\ Owes(h, h.next) + 1 <= Tree[Levels(h)]
    <3>1. Sub(h) \in Nat
      BY OwesLess, 1 \in Nat, 1 <= 1
    <3>2. Tree[Levels(h)] = 1 + 3 * Sub(h)
      <4>1. Tree[Levels(h)] = IF Levels(h) <= 1 THEN 1 ELSE 1 + 3 * Tree[Levels(h) - 1]
        BY <2>1, TreeGrows
      <4> QED
        BY <2>1, <4>1 DEF Sub
    <3> HIDE DEF Sub
    <3>3. Owes(h, h.next) <= 3 * Sub(h) /\ Owes(h, h.next) \in Nat
      BY <3>1, h.next \in Nat DEF Owes
    <3> QED
      BY <3>1, <3>2, <3>3
  <2>4. Tree[Levels(st[1])] \in Nat
    BY <2>1, TreeGrows
  <2>5. made + owed[n] + Owes(f, f.next) <= Tree[Levels(st[1])]
    BY <1>2 DEF FitsTree
  <2>6. (made + 1) + more + Owes(h, h.next) <= Tree[Levels(st[1])]
    <3>1. Owes(f, f.next) = Owes(f, f.next + 1) + Sub(f) /\ Owes(h, h.next) + 1 <= Sub(f)
      BY <2>2, <2>3
    <3>2. more = owed[n] + Owes(f, f.next + 1)
      BY DEF more
    <3>3. Tree[Levels(h)] \in Nat /\ Owes(f, f.next) \in Nat
      BY <1>4, <2>1, <3>1, TreeGrows
    <3> HIDE DEF n
    <3>4. PICK b : b = Owes(f, f.next)
      OBVIOUS
    <3>5. PICK a : a = Owes(f, f.next + 1)
      OBVIOUS
    <3>6. PICK x : x = Owes(h, h.next)
      OBVIOUS
    <3>7. PICK t : t = Tree[Levels(st[1])]
      OBVIOUS
    <3>8. PICK s : s = Sub(f)
      OBVIOUS
    <3>9. PICK o : o = owed[n]
      OBVIOUS
    <3>10. /\ a \in Nat /\ b \in Nat /\ x \in Nat /\ t \in Nat /\ s \in Nat /\ o \in Nat
           /\ b = a + s /\ x + 1 <= s /\ more = o + a /\ made + o + b <= t
      BY <1>4, <2>3, <2>4, <2>5, <3>1, <3>2, <3>3, <3>4, <3>5, <3>6, <3>7, <3>8, <3>9, Zenon
    <3>11. (made + 1) + more + x <= t
      BY <3>10
    <3> QED
      BY <3>6, <3>7, <3>11, Zenon
  <2>7. to[1] = st[1]
    BY <1>1, <1>5
  <2> QED
    BY <1>5, <1>6, <2>6, <2>7 DEF FitsTree
<1> QED
  BY <1>5, <1>7, <1>8 DEF WorkInv, to

(* A call that returns owes nothing.                                       *)
LEMMA WorkPop ==
  ASSUME NEW st, NEW made, NEW g, NEW rest, NEW n, NEW m, StackInv(st), n = Len(st), n > 1,
         m = n - 1, made \in Nat, WorkInv(st, made), rest = SubSeq(st, 1, m), g \in Frame,
         g.lead = st[m].lead, g.depth = st[m].depth, g.next = st[m].next + 1
  PROVE  WorkInv([rest EXCEPT ![m] = g], made)
<1> DEFINE up == st[m]  top == st[n]  to == [rest EXCEPT ![m] = g]
<1>1. /\ st \in Seq(Frame) /\ n \in Nat /\ st # <<>> /\ m \in Nat \ {0} /\ m + 1 = n
      /\ m \in 1 .. m /\ 1 \in 1 .. m
  BY DEF StackInv
<1>2. top \in Frame /\ up \in Frame /\ st[1] \in Frame
  BY <1>1
<1>3. PICK owed : Owed(st, owed) /\ FitsTree(st, top.next, owed, made)
  BY <1>1 DEF WorkInv
<1> DEFINE all == SubSeq(owed, 1, m)
<1>4. owed \in Seq(Nat) /\ Len(owed) = n
  BY <1>3 DEF Owed
<1>5. /\ all \in Seq(Nat) /\ Len(all) = m
      /\ \A i \in 1 .. m : all[i] = owed[i]
  BY <1>1, <1>4, SubSeqProperties
<1>6. /\ rest \in Seq(Frame) /\ Len(rest) = m
      /\ \A i \in 1 .. m : rest[i] = st[i]
  BY <1>1, SubSeqProperties
<1>7. /\ to \in Seq(Frame) /\ Len(to) = m
      /\ \A i \in 1 .. m : to[i] = IF i = m THEN g ELSE rest[i]
  <2>1. m \in 1 .. Len(rest) /\ Len(rest) = m
    BY <1>1, <1>6
  <2>2. Replaced(to, rest, m, g)
    BY <1>6, <2>1, FrameReplaced, Zenon
  <2> QED
    BY <2>1, <2>2, Zenon DEF Replaced
<1> HIDE DEF to, all
<1>8. Owed(to, all)
  <2>1. \A i \in 1 .. m - 1 : i \in 1 .. m /\ i + 1 \in 1 .. m /\ i # m /\ i \in 1 .. n - 1
    BY <1>1
  <2>2. \A i \in 1 .. m - 1 : to[i] = st[i] /\ all[i] = owed[i] /\ all[i + 1] = owed[i + 1]
    BY <1>5, <1>6, <1>7, <2>1
  <2>3. all[1] = 0
    BY <1>1, <1>3, <1>5 DEF Owed
  <2> QED
    BY <1>3, <1>5, <1>7, <2>1, <2>2, <2>3 DEF Owed
<1>9. FitsTree(to, g.next, all, made)
  <2>1. g.next \in Nat /\ top.next \in Nat
    BY <1>2, NextDetector, Zenon
  <2>2. Owes(top, top.next) \in Nat /\ Owes(g, g.next) \in Nat
    BY <1>2, <2>1, OwesLess
  <2>3. owed[n] = owed[m] + Owes(g, g.next)
    <3>1. owed[m + 1] = owed[m] + Owes(up, up.next + 1)
      BY <1>1, <1>3 DEF Owed
    <3> QED
      BY <1>1, <3>1, OwesSame
  <2>4. owed[m] \in Nat /\ owed[n] \in Nat
    BY <1>1, <1>4
  <2>5. Tree[Levels(st[1])] \in Nat
    BY <1>2, LevelsPositive, TreeGrows
  <2>6. made + owed[n] + Owes(top, top.next) <= Tree[Levels(st[1])]
    BY <1>3 DEF FitsTree
  <2>7. made + owed[m] + Owes(g, g.next) <= Tree[Levels(st[1])]
    BY <2>2, <2>3, <2>4, <2>5, <2>6
  <2>8. Levels(to[1]) = Levels(st[1]) /\ to[m] = g /\ all[m] = owed[m]
    <3>1. to[1] = st[1] \/ (m = 1 /\ to[1] = g)
      BY <1>1, <1>6, <1>7
    <3> QED
      BY <1>1, <1>5, <1>7, <3>1, OwesSame
  <2> QED
    BY <1>7, <2>7, <2>8 DEF FitsTree
<1> QED
  <2>1. to[Len(to)] = g
    BY <1>1, <1>7
  <2> QED
    BY <1>8, <1>9, <2>1 DEF WorkInv, to

(* The first call owes at most a payload's calls three times.              *)
LEMMA WorkFirst ==
  ASSUME NEW f, f \in Frame, f.next = 1
  PROVE  WorkInv(<<f>>, 1)
<1> DEFINE owed == <<0>>
<1>1. <<f>> \in Seq(Frame) /\ Len(<<f>>) = 1 /\ <<f>>[1] = f
  OBVIOUS
<1>2. Owed(<<f>>, owed)
  <2>1. \A i \in 1 .. 1 - 1 : FALSE
    OBVIOUS
  <2>2. owed \in Seq(Nat) /\ Len(owed) = 1 /\ owed[1] = 0
    OBVIOUS
  <2> HIDE DEF owed
  <2> QED
    BY <1>1, <2>1, <2>2 DEF Owed
<1>3. Levels(f) \in Nat \ {0}
  BY LevelsPositive
<1>4. Tree[Levels(f)] = 1 + 3 * Sub(f)
  <2>1. Tree[Levels(f)] = IF Levels(f) <= 1 THEN 1 ELSE 1 + 3 * Tree[Levels(f) - 1]
    BY <1>3, TreeGrows
  <2> QED
    BY <1>3, <2>1 DEF Sub
<1>5. Sub(f) \in Nat
  BY OwesLess, 1 \in Nat, 1 <= 1
<1>6. PICK s : s = Sub(f)
  OBVIOUS
<1>7. PICK o : o = Owes(f, f.next)
  OBVIOUS
<1>8. o = (IF f.next <= FirstUnwrap(f.lead) THEN s ELSE 0)
            + (IF f.next <= SecondUnwrap(f.lead) THEN s ELSE 0)
            + (IF f.next <= LastUnwrap(f.lead) THEN s ELSE 0)
  BY <1>6, <1>7, Zenon DEF Owes
<1>9. s \in Nat /\ Tree[Levels(f)] = 1 + 3 * s
  BY <1>4, <1>5, <1>6, Zenon
<1>10. 1 + 0 + o <= 1 + 3 * s
  BY <1>8, <1>9
<1>11. 1 + 0 + Owes(f, f.next) <= Tree[Levels(f)]
  BY <1>7, <1>9, <1>10, Zenon
<1>12. owed[1] = 0
  OBVIOUS
<1>13. FitsTree(<<f>>, f.next, owed, 1)
  BY <1>1, <1>11, <1>12, Zenon DEF FitsTree
<1> HIDE DEF owed
<1>14. WorkInv(<<f>>, 1)
  BY <1>1, <1>2, <1>13, Zenon DEF WorkInv
<1> QED
  BY <1>14

(* Unwrapping replaces the last call, which notes the payload, and adds    *)
(* the payload's.                                                          *)
LEMMA WorkUnwraps ==
  ASSUME IInv, WorkInv(stack, calls), Unwrap
  PROVE  WorkInv(stack', calls')
<1> DEFINE n == Len(stack)
<1>1. PICK p \in Payloads(Top, Detector), l \in Leads :
        /\ p.len >= LeadMin[l]
        /\ stack' = Append([stack EXCEPT ![Len(stack)].len = p.len,
                                         ![Len(stack)].capped = p.capped],
                           Enter(p.len, l, Deeper(Top)))
  BY DEF Unwrap
<1>2. /\ Running /\ stack # <<>> /\ Top.next < Done /\ ~AtDepthCap(Top)
      /\ calls' = calls + 1 /\ StackInv(stack) /\ calls \in Nat
  BY DEF Unwrap, Running, IInv
<1>3. /\ Top \in Frame /\ FrameInv(Top, stack[1].size) /\ stack[1].size \in Nat
      /\ n \in Nat \ {0} /\ stack \in Seq(Frame)
  BY <1>2, StackTop DEF Top, StackInv
<1>4. Detector \in Wrappers /\ Measured(p, stack[1].size)
  BY <1>3, PayloadsHeld DEF FrameInv, Measured
<1>5. PICK f : f = [Top EXCEPT !.len = p.len, !.capped = p.capped]
  OBVIOUS
<1>6. /\ f \in Frame /\ f.size = Top.size /\ f.lead = Top.lead /\ f.depth = Top.depth
      /\ f.next = Top.next /\ f.out = Top.out
  BY <1>3, <1>4, <1>5 DEF Frame, Measured
<1>7. HeldLink(f, stack[1].size) /\ FrameInv(f, stack[1].size)
  <2>1. f.len = p.len /\ f.capped = p.capped
    BY <1>3, <1>5 DEF Frame
  <2>2. f.next >= Top.next
    BY <1>6, NextDetector
  <2>3. FrameInv(f, stack[1].size)
    BY <1>3, <1>6, <2>2, NothingAdded
  <2> QED
    BY <1>4, <2>1, <2>3 DEF HeldLink, Measured
<1> DEFINE st == [stack EXCEPT ![n] = f]  g == Enter(p.len, l, Deeper(Top))
<1>8. Replaced(st, stack, n, f) /\ StackInv(st) /\ WorkInv(st, calls)
  <2>1. n \in 1 .. n /\ f.next >= Top.next
    BY <1>3, <1>6, NextDetector
  <2>2. Replaced(st, stack, n, f)
    BY <1>3, <1>6, <2>1, FrameReplaced, Zenon
  <2>3. StackInv(st)
    BY <1>2, <1>6, <1>7, TopReplaced DEF Top
  <2>4. WorkInv(st, calls)
    BY <1>2, <1>6, <2>1, WorkTop DEF Top
  <2> QED
    BY <2>2, <2>3, <2>4
<1>9. stack' = Append(st, g)
  <2>1. [stack EXCEPT ![Len(stack)].len = p.len, ![Len(stack)].capped = p.capped] = st
    BY <1>3, <1>5 DEF Top
  <2> QED
    BY <1>1, <2>1
<1>10. g \in Frame /\ g.next = 1 /\ Levels(g) = Levels(f) - 1 /\ Levels(f) > 1
  <2>1. p.len \in Nat /\ Deeper(Top) \in 0 .. Width - 1
    BY <1>3, <1>4, DepthWraps DEF Measured
  <2>2. g \in Frame /\ g.next = 1 /\ g.depth = Deeper(Top)
    <3>1. Held(p.len, p.len)
      BY <2>1 DEF Held
    <3>2. FrameInv(g, p.len)
      BY <1>1, <2>1, <3>1, EnterFits
    <3> QED
      BY <3>2 DEF FrameInv, Enter
  <2>3. ~AtDepthCap(f) /\ g.depth = Deeper(f)
    BY <1>2, <1>6, <2>2 DEF AtDepthCap, Deeper
  <2> HIDE DEF g
  <2> QED
    BY <1>6, <2>2, <2>3, LevelsNested, LevelsPositive
<1>11. Owes(f, f.next) = Owes(f, f.next + 1) + Sub(f)
  <2>1. Top.next \in 1 .. 14 /\ Payloads(Top, Detectors[Top.next]) # {}
    <3>1. Top.next \in 1 .. 15
      BY <1>3, NextDetector
    <3> QED
      BY <1>1, <1>2, <3>1, DoneIsLast DEF Detector
  <2>2. Owes(Top, Top.next) = Owes(Top, Top.next + 1) + Sub(Top)
    BY <1>3, <2>1, OwesPayload
  <2> QED
    BY <1>6, <2>2, OwesSame
<1>12. st # <<>> /\ f = st[Len(st)]
  <2>1. n \in 1 .. n /\ Len(<<>>) = 0
    BY <1>3
  <2> HIDE DEF st, n
  <2> QED
    BY <1>3, <1>8, <2>1 DEF Replaced, n
<1> HIDE DEF st, g
<1>13. WorkInv(Append(st, g), calls + 1)
  BY <1>2, <1>8, <1>10, <1>11, <1>12, WorkPush
<1> QED
  BY <1>2, <1>9, <1>13

(* A nested call returns.                                                  *)
LEMMA WorkReturns ==
  ASSUME IInv, WorkInv(stack, calls), Return
  PROVE  WorkInv(stack', calls')
<1> DEFINE n == Len(stack)  up == stack[n - 1]
<1>1. PICK c : stack' = Append(SubSeq(stack, 1, n - 2),
                               [up EXCEPT !.next = @ + 1, !.out = @ \cup {c},
                                          !.len = 0, !.capped = FALSE])
  BY DEF Return
<1>2. /\ n > 1 /\ n \in Nat /\ stack \in Seq(Frame) /\ StackInv(stack)
      /\ calls \in Nat /\ calls' = calls
  BY DEF Return, IInv, StackInv
<1>3. up \in Frame /\ up.next < Done
  <2>1. n - 1 \in 1 .. n /\ n - 1 \in 1 .. n - 1
    BY <1>2
  <2> QED
    BY <1>2, <2>1 DEF StackInv, Nested
<1>4. PICK g : g = [up EXCEPT !.next = @ + 1, !.out = @ \cup {c}, !.len = 0, !.capped = FALSE]
  OBVIOUS
<1>5. g.lead = up.lead /\ g.depth = up.depth /\ g.next = up.next + 1
  BY <1>3, <1>4 DEF Frame
<1>6. g \in Frame
  <2> DEFINE low == SubSeq(stack, 1, n - 2)  S == Frame \cup {g}
  <2>1. low \in Seq(S) /\ Len(low) = n - 2 /\ g \in S
    <3>1. n - 2 \in Nat /\ n - 2 <= n /\ n = Len(stack) /\ 1 \in 1 .. (n - 2) + 1
      BY <1>2
    <3>2. low \in Seq(Frame) /\ Len(low) = n - 2
      <4> HIDE DEF n
      <4> QED
        BY <1>2, <3>1, SubSeqProperties
    <3> HIDE DEF low
    <3> QED
      BY <3>2
  <2> HIDE DEF low, S
  <2>2. Append(low, g)[Len(low) + 1] = g /\ Len(Append(low, g)) = Len(low) + 1
        /\ Append(low, g) \in Seq(S)
    BY <2>1, AppendProperties
  <2>3. Append(low, g)[n - 1] = g /\ Len(Append(low, g)) = n - 1
    <3>1. Len(low) + 1 = n - 1
      BY <1>2, <2>1
    <3> QED
      BY <2>2, <3>1
  <2>4. stack' = Append(low, g)
    BY <1>1, <1>4 DEF low
  <2>5. stack' \in Seq(Frame)
    BY IInvNext DEF Next, Step, IInv, StackInv
  <2>6. n - 1 \in 1 .. n - 1
    BY <1>2
  <2> QED
    BY <2>3, <2>4, <2>5, <2>6
<1>7. PopsInto(stack', stack, n, g)
  <2>1. n = Len(stack) /\ stack' = Append(SubSeq(stack, 1, n - 2), g)
    BY <1>1, <1>4
  <2> HIDE DEF n
  <2> QED
    BY <1>2, <1>6, <2>1, PoppedInto, Zenon
<1> DEFINE m == n - 1  rest == SubSeq(stack, 1, m)
<1>8. WorkInv([rest EXCEPT ![m] = g], calls)
  BY <1>2, <1>5, <1>6, WorkPop
<1>9. stack' = [rest EXCEPT ![m] = g]
  BY <1>7 DEF PopsInto
<1> QED
  BY <1>2, <1>8, <1>9

(* Every step leaves what was and will be called within the tree.          *)
LEMMA WorkNext == IInv /\ WorkInv(stack, calls) /\ [Next]_vars => WorkInv(stack', calls')
<1> SUFFICES ASSUME IInv, WorkInv(stack, calls), [Next]_vars PROVE WorkInv(stack', calls')
  OBVIOUS
<1>1. CASE \/ NoReading \/ LeafReading \/ ProtobufReading \/ UnwrapCapped \/ SkipHeuristics
  <2>0. SkipHeuristics \/ \E c : Running /\ Pushes(c)
    BY <1>1, Zenon DEF NoReading, LeafReading, ProtobufReading, UnwrapCapped
  <2>1. stack # <<>> /\ calls' = calls /\ calls \in Nat /\ StackInv(stack)
    <3>1. Len(stack) > 0 /\ calls' = calls
      BY <2>0, Zenon DEF SkipHeuristics, Running, Pushes
    <3>2. Len(<<>>) = 0
      OBVIOUS
    <3> QED
      BY <3>1, <3>2 DEF IInv
  <2>2. Top \in Frame /\ Top.next \in Nat /\ Len(stack) \in 1 .. Len(stack)
        /\ stack \in Seq(Frame)
    BY <2>1, StackTop, NextDetector DEF Top, StackInv
  <2>3. \E g : Replace(g) /\ g.lead = Top.lead /\ g.depth = Top.depth /\ g.next >= Top.next
    <3>1. ASSUME NEW c, Pushes(c)
          PROVE  \E g : Replace(g) /\ g.lead = Top.lead /\ g.depth = Top.depth
                        /\ g.next >= Top.next
      <4>1. PICK g : g = [Top EXCEPT !.next = @ + 1, !.out = @ \cup c]
        OBVIOUS
      <4>2. g.lead = Top.lead /\ g.depth = Top.depth /\ g.next = Top.next + 1
        BY <2>2, <4>1 DEF Frame
      <4>3. Replace(g)
        BY <3>1, <4>1, Zenon DEF Pushes
      <4>4. g.next >= Top.next
        BY <2>2, <4>2
      <4> QED
        BY <4>2, <4>3, <4>4, Zenon
    <3>2. CASE SkipHeuristics
      <4>1. PICK g : g = [Top EXCEPT !.next = Done]
        OBVIOUS
      <4>2. g.lead = Top.lead /\ g.depth = Top.depth /\ g.next = Done
        BY <2>2, <4>1 DEF Frame
      <4>3. Top.next <= Done
        BY <2>2, NextDetector, DoneIsLast
      <4> QED
        BY <3>2, <4>1, <4>2, <4>3 DEF SkipHeuristics
    <3> QED
      BY <2>0, <3>1, <3>2, Zenon
  <2>4. PICK g : Replace(g) /\ g.lead = Top.lead /\ g.depth = Top.depth /\ g.next >= Top.next
    BY <2>3
  <2>5. g \in Frame
    <3>1. stack' \in Seq(Frame)
      BY <1>1, IInvNext DEF Next, Step, IInv, StackInv
    <3>2. stack' = [stack EXCEPT ![Len(stack)] = g]
      BY <2>4 DEF Replace
    <3>3. Len(stack) \in DOMAIN stack' /\ stack'[Len(stack)] = g /\ DOMAIN stack' = 1 .. Len(stack')
      BY <2>2, <3>1, <3>2
    <3> QED
      BY <3>1, <3>3
  <2> QED
    BY <2>1, <2>4, <2>5, WorkTop DEF Replace, Top
<1>2. CASE Unwrap
  BY <1>2, WorkUnwraps
<1>3. CASE Return
  BY <1>3, WorkReturns
<1>4. CASE Finish
  BY <1>4 DEF Finish, WorkInv
<1>5. CASE UNCHANGED vars
  BY <1>5 DEF vars
<1> QED
  BY <1>1, <1>2, <1>3, <1>4, <1>5 DEF Next, Step, Returned

(* What was called is within the tree.                                     *)
LEMMA WorkFits == ASSUME IInv, WorkInv(stack, calls) PROVE WorkBounded
<1> SUFFICES ASSUME stack # <<>> PROVE calls <= Tree[Levels(stack[1])]
  BY DEF WorkBounded
<1> DEFINE n == Len(stack)
<1>1. PICK owed : Owed(stack, owed) /\ FitsTree(stack, stack[n].next, owed, calls)
  BY DEF WorkInv
<1>2. /\ stack[n] \in Frame /\ stack[1] \in Frame /\ n \in Nat \ {0} /\ calls \in Nat
  BY StackTop DEF IInv
<1>3. owed[n] \in Nat
  BY <1>1, <1>2 DEF Owed
<1>4. Owes(stack[n], stack[n].next) \in Nat
  <2>1. stack[n].next \in Nat /\ stack[n].next <= stack[n].next
    BY <1>2, NextDetector
  <2> QED
    BY <1>2, <2>1, OwesLess
<1>5. Tree[Levels(stack[1])] \in Nat
  BY <1>2, LevelsPositive, TreeGrows
<1>6. calls + owed[n] + Owes(stack[n], stack[n].next) <= Tree[Levels(stack[1])]
  BY <1>1 DEF FitsTree
<1> QED
  BY <1>2, <1>3, <1>4, <1>5, <1>6
=============================================================================
