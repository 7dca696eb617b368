--------------------------- MODULE V8ReaderProofs ---------------------------
(***************************************************************************)
(* The reader keeps its types, never resolves an object that is still      *)
(* open, never rewrites an id, and stays within max_nodes and max_depth;   *)
(* its values carry a bounded number of bytes for each byte that was read, *)
(* the clones it keeps have no more nodes than max_depth + 1 times what    *)
(* was charged, and it runs a bounded number of steps for a byte: for      *)
(* every value of the limits and every input.                              *)
(***************************************************************************)
EXTENDS V8Reader, Induction, SequenceTheorems, FiniteSetTheorems, TLAPS

(* A value without parts is a value of one node, and nests nothing. *)
LEMMA LeafIsValue ==
  ASSUME NEW t \in {"String", "Int", "Double", "Other"}, NEW i \in Int, NEW b \in Int
  PROVE  /\ Leaf(t, i, b) \in Value
         /\ Leaf(t, i, b).nodes = 1
         /\ Leaf(t, i, b).levels = {}
         /\ ~Leaf(t, i, b).shared
BY DEF Leaf, Value

(* So is a primitive, and the hole of a sparse array is one. *)
LEMMA PrimitiveIsValue ==
  /\ Primitive \in Value /\ Primitive.nodes = 1 /\ Primitive.levels = {}
  /\ ~Primitive.shared
BY LeafIsValue DEF Primitive

(* Whatever its varint, an Int is an integer. *)
LEMMA IntIsInt ==
  ASSUME NEW u \in Nat
  PROVE  ZigZag(u) \in Int /\ AsI64(u) \in Int
BY ReaderAssumption DEF ZigZag, AsI64

(* Decoding at most triples a text. *)
LEMMA DecodedBounds ==
  ASSUME NEW t, NEW u \in Nat, NEW b \in Decoded(t, u)
  PROVE  b \in Nat /\ b <= 3 * u
BY DEF Decoded

(* A decimal numeral is at most three times as long as the magnitude and   *)
(* two bytes more.                                                         *)
LEMMA BigIntBounds ==
  ASSUME NEW u \in Nat, NEW b \in BigIntText(u)
  PROVE  b \in Nat /\ b <= 3 * u + 2
BY DEF BigIntText

(* The text of an Int has at most the digits of an i64 and a minus sign.   *)
LEMMA IntTextBounds ==
  ASSUME NEW i \in Int
  PROVE  IntText(i) \in Nat /\ IntText(i) <= 1 + IntDigits
<1> DEFINE m == IF i < 0 THEN -i ELSE i
           K == {k \in 1 .. IntDigits - 1 : m >= 10^k}
<1>1. IntDigits \in Nat \ {0}
  BY ReaderAssumption
<1>2. IsFiniteSet(1 .. IntDigits - 1) /\ Cardinality(1 .. IntDigits - 1) <= IntDigits - 1
  BY <1>1, FS_Interval
<1>3. K \subseteq 1 .. IntDigits - 1
  OBVIOUS
<1>4. Cardinality(K) \in Nat /\ Cardinality(K) <= Cardinality(1 .. IntDigits - 1)
      /\ Cardinality(1 .. IntDigits - 1) \in Nat
  BY <1>2, <1>3, FS_Subset, FS_CardinalityType
<1>5. IntText(i) = (IF i < 0 THEN 1 ELSE 0) + 1 + Cardinality(K)
  BY DEF IntText
<1> HIDE DEF K
<1> QED
  BY <1>1, <1>2, <1>4, <1>5

(* The text of a key has a length. *)
LEMMA KeyTextIsInt ==
  ASSUME NEW v \in Value, NEW n \in KeyText(v)
  PROVE  n \in Int
<1>1. v.bytes \in Int /\ v.number \in Int
  BY DEF Value
<1>2. IntText(v.number) \in Int
  BY <1>1, IntTextBounds
<1>3. n \in {v.bytes} \/ n \in {IntText(v.number)} \/ n \in 1 .. DoubleText
  BY DEF KeyText
<1> QED
  BY <1>1, <1>2, <1>3, ReaderAssumption

(* Levels move down by one with the value they belong to. *)
LEMMA DeeperLevels ==
  ASSUME NEW levels \in SUBSET Nat
  PROVE  /\ Deeper(levels) \in SUBSET Nat
         /\ \A l \in Deeper(levels) : l - 1 \in levels
BY DEF Deeper

(* What makes the slots of one frame add up (SlotSums, for one frame). *)
SumsUp(f) ==
  /\ Len(f.slots) <= MaxNodes /\ f.upto[0] = 0
  /\ \A i \in DOMAIN f.slots : f.upto[i] = f.upto[i - 1] + f.slots[i].nodes
  /\ \A j, k \in 0 .. MaxNodes : j <= k => f.upto[j] <= f.upto[k]

(* The nesting a frame at position d of the stack has used up.             *)
NestsAt(f, d) ==
  /\ ~f.shared => \A l \in f.levels : d - 1 + l <= MaxDepth
  /\ \A i \in DOMAIN f.slots :
       ~f.slots[i].shared => \A l \in f.slots[i].levels : d + l <= MaxDepth

(* A value nests below position d of the stack. *)
FitsAt(v, d) == ~v.shared => \A l \in v.levels : d + l <= MaxDepth

(* A frame has nodes, and they were paid from somewhere. *)
LEMMA NodesOfFrame ==
  ASSUME NEW f \in Frame
  PROVE  NodesOf(f) \in Nat \ {0} /\ f.base \in 0 .. MaxNodes
BY ReaderAssumption DEF NodesOf, Frame

(* The same for every frame of the stack. *)
LEMMA StackNodes ==
  ASSUME stack \in Seq(Frame), NEW d \in DOMAIN stack
  PROVE  NodesOf(stack[d]) \in Nat \ {0} /\ stack[d].base \in 0 .. MaxNodes
<1>1. stack[d] \in Frame
  OBVIOUS
<1> QED
  BY <1>1, NodesOfFrame

(* A frame stays one when it adopts a value, and its nodes are the sum. *)
LEMMA AdoptIsFrame ==
  ASSUME NEW f \in Frame, NEW v \in Value, NEW d \in Nat,
         SumsUp(f), NestsAt(f, d), FitsAt(v, d)
  PROVE  /\ Adopt(f, v) \in Frame /\ SumsUp(Adopt(f, v)) /\ NestsAt(Adopt(f, v), d)
         /\ NodesOf(Adopt(f, v)) = NodesOf(f) + v.nodes
         /\ Adopt(f, v).id = f.id /\ Adopt(f, v).base = f.base
         /\ Adopt(f, v).kind = f.kind /\ Adopt(f, v).left = f.left
         /\ Adopt(f, v).depth = f.depth
<1> DEFINE g == Adopt(f, v)
<1>0. MaxNodes \in Nat /\ MaxDepth \in Nat
  BY ReaderAssumption
<1>1. /\ Deeper(v.levels) \in SUBSET Nat
      /\ \A l \in Deeper(v.levels) : l - 1 \in v.levels
  BY DeeperLevels DEF Value
<1>2. /\ g.nodes = f.nodes + v.nodes /\ g.levels = f.levels \cup Deeper(v.levels)
      /\ g.bytes = f.bytes + v.bytes /\ g.shared = (f.shared \/ v.shared)
      /\ g.slots = f.slots /\ g.upto = f.upto /\ g.id = f.id /\ g.base = f.base
      /\ g.kind = f.kind /\ g.left = f.left /\ g.want = f.want /\ g.key = f.key
      /\ g.depth = f.depth
  BY DEF Adopt, Frame
<1>3. g \in Frame
  <2>1. /\ f.nodes + v.nodes \in Nat \ {0} /\ f.bytes + v.bytes \in Int
        /\ f.levels \cup Deeper(v.levels) \in SUBSET Nat
    <3>1. /\ f.nodes \in Nat \ {0} /\ f.bytes \in Int /\ f.levels \in SUBSET Nat
          /\ v.nodes \in Nat \ {0} /\ v.bytes \in Int
      BY DEF Frame, Value
    <3> QED
      BY <1>1, <3>1
  <2>2. (f.shared \/ v.shared) \in BOOLEAN
    OBVIOUS
  <2> QED
    BY <2>1, <2>2 DEF Adopt, Frame
<1>4. SumsUp(g)
  BY <1>2 DEF SumsUp
<1>5. NodesOf(g) = NodesOf(f) + v.nodes
  <2>1. f.nodes \in Int /\ f.upto[MaxNodes] \in Int /\ v.nodes \in Int
    BY <1>0 DEF Frame, Value
  <2>2. g.nodes = f.nodes + v.nodes /\ g.upto = f.upto
    BY <1>2
  <2> HIDE DEF g
  <2> QED
    BY <2>1, <2>2 DEF NodesOf
<1>6. NestsAt(g, d)
  <2>1. ASSUME ~g.shared, NEW l \in g.levels
        PROVE  d - 1 + l <= MaxDepth
    <3>1. ~f.shared /\ ~v.shared
      BY <1>2, <2>1 DEF Frame, Value
    <3>2. CASE l \in f.levels
      BY <3>1, <3>2 DEF NestsAt
    <3>3. CASE l \in Deeper(v.levels)
      BY <1>0, <1>1, <3>1, <3>3 DEF FitsAt, Value
    <3> QED
      BY <1>2, <2>1, <3>2, <3>3
  <2> QED
    BY <1>2, <2>1 DEF NestsAt
<1> QED
  BY <1>2, <1>3, <1>4, <1>5, <1>6

(* A text is added to a frame without a node. *)
LEMMA AdoptTextIsFrame ==
  ASSUME NEW f \in Frame, NEW n \in Int, NEW d \in Nat, SumsUp(f), NestsAt(f, d)
  PROVE  /\ AdoptText(f, n) \in Frame /\ SumsUp(AdoptText(f, n))
         /\ NestsAt(AdoptText(f, n), d)
         /\ NodesOf(AdoptText(f, n)) = NodesOf(f)
         /\ AdoptText(f, n).id = f.id /\ AdoptText(f, n).base = f.base
         /\ AdoptText(f, n).kind = f.kind /\ AdoptText(f, n).left = f.left
         /\ AdoptText(f, n).depth = f.depth
<1> DEFINE g == AdoptText(f, n)
<1>1. g \in Frame
  <2>1. f.bytes + n \in Int
    BY DEF Frame
  <2> QED
    BY <2>1 DEF AdoptText, Frame
<1>2. /\ g.nodes = f.nodes /\ g.levels = f.levels /\ g.shared = f.shared
      /\ g.slots = f.slots /\ g.upto = f.upto /\ g.id = f.id /\ g.base = f.base
      /\ g.kind = f.kind /\ g.left = f.left /\ g.depth = f.depth
  BY DEF AdoptText, Frame
<1> QED
  BY <1>1, <1>2 DEF SumsUp, NestsAt, NodesOf

(* A sparse array's slot takes a value in the place of another: the nodes  *)
(* grow by no more than those of the value.                                *)
LEMMA StoreIsFrame ==
  ASSUME NEW f \in Frame, NEW v \in Value, NEW d \in Nat,
         SumsUp(f), NestsAt(f, d), FitsAt(v, d)
  PROVE  /\ Store(f, v) \in Frame /\ SumsUp(Store(f, v)) /\ NestsAt(Store(f, v), d)
         /\ NodesOf(Store(f, v)) <= NodesOf(f) + v.nodes
         /\ Store(f, v).id = f.id /\ Store(f, v).base = f.base
         /\ Store(f, v).kind = f.kind /\ Store(f, v).left = f.left
         /\ Store(f, v).depth = f.depth
<1>0. MaxNodes \in Nat /\ MaxDepth \in Nat
  BY ReaderAssumption
<1>1. CASE f.key + 1 \notin DOMAIN f.slots
  <2>1. Store(f, v) = f
    BY <1>1 DEF Store
  <2>2. NodesOf(f) \in Nat /\ v.nodes \in Nat
    BY <1>0 DEF NodesOf, Frame, Value
  <2> QED
    BY <2>1, <2>2
<1>2. CASE f.key + 1 \in DOMAIN f.slots
  <2> DEFINE g == Store(f, v)
             at == f.key + 1
             old == f.slots[at]
  <2>0. /\ f.slots \in Seq(Value) /\ f.key \in Int /\ f.upto \in [0 .. MaxNodes -> Nat]
        /\ f.nodes \in Nat \ {0} /\ v.nodes \in Nat \ {0} /\ old.nodes \in Nat \ {0}
        /\ at \in 1 .. Len(f.slots) /\ at \in 1 .. MaxNodes /\ f.key \in 0 .. MaxNodes
        /\ f.bytes + v.bytes - old.bytes \in Int /\ old = f.slots[at]
    <3>1. f.slots \in Seq(Value) /\ f.key \in Int /\ f.upto \in [0 .. MaxNodes -> Nat]
          /\ f.nodes \in Nat \ {0} /\ v.nodes \in Nat \ {0}
          /\ f.bytes \in Int /\ v.bytes \in Int
      BY DEF Frame, Value
    <3>2. at \in 1 .. Len(f.slots) /\ Len(f.slots) \in Nat /\ Len(f.slots) <= MaxNodes
      BY <1>2, <3>1 DEF SumsUp
    <3>3. at \in 1 .. MaxNodes /\ f.key \in 0 .. MaxNodes
      BY <1>0, <3>1, <3>2
    <3>4. old \in Value
      BY <3>1, <3>2
    <3>5. old.nodes \in Nat \ {0} /\ old.bytes \in Int
      BY <3>4 DEF Value
    <3>6. old = f.slots[at]
      OBVIOUS
    <3>7. f.bytes + v.bytes - old.bytes \in Int
      BY <3>1, <3>5
    <3> HIDE DEF old, at
    <3> QED
      BY <3>1, <3>2, <3>3, <3>5, <3>6, <3>7
  <2>1. /\ g.slots = [f.slots EXCEPT ![at] = v]
        /\ g.upto = [k \in 0 .. MaxNodes |->
                       IF k > f.key THEN f.upto[k] + v.nodes - old.nodes ELSE f.upto[k]]
        /\ g.nodes = f.nodes /\ g.levels = f.levels /\ g.shared = f.shared
        /\ g.id = f.id /\ g.base = f.base /\ g.kind = f.kind /\ g.left = f.left
        /\ g.depth = f.depth
        /\ g = [f EXCEPT !.slots = g.slots, !.bytes = f.bytes + v.bytes - old.bytes,
                        !.upto = g.upto]
    BY <1>2 DEF Store, Frame
  <2> HIDE DEF g, old
  <2>u. g.upto = [k \in 0 .. MaxNodes |->
                    IF k > f.key THEN f.upto[k] + v.nodes - old.nodes ELSE f.upto[k]]
    BY <2>1
  <2>k. f.key \in 0 .. MaxNodes /\ at \in 0 .. MaxNodes /\ v.nodes \in Nat /\ old.nodes \in Nat
        /\ \A k \in 0 .. MaxNodes : f.upto[k] \in Nat
    <3>1. at \in 0 .. MaxNodes /\ f.key \in 0 .. MaxNodes
      BY <1>0, <2>0
    <3>2. \A k \in 0 .. MaxNodes : f.upto[k] \in Nat
      BY <2>0
    <3>3. v.nodes \in Nat /\ old.nodes \in Nat
      BY <2>0
    <3> QED
      BY <3>1, <3>2, <3>3
  <2>m. \A j, k \in 0 .. MaxNodes : j <= k => f.upto[j] <= f.upto[k]
    BY DEF SumsUp
  <2>2. \A k \in 0 .. MaxNodes : k > f.key => f.upto[k] >= f.upto[f.key] + old.nodes
    <3>1. f.upto[at] = f.upto[f.key] + old.nodes
      BY <1>2, <2>0 DEF SumsUp
    <3> QED
      BY <1>0, <2>k, <2>m, <3>1
  <2>3. \A k \in 0 .. MaxNodes :
          /\ g.upto[k] = IF k > f.key THEN f.upto[k] + v.nodes - old.nodes ELSE f.upto[k]
          /\ g.upto[k] \in Nat
    <3>1. ASSUME NEW k \in 0 .. MaxNodes
          PROVE  g.upto[k] = IF k > f.key THEN f.upto[k] + v.nodes - old.nodes ELSE f.upto[k]
      BY <2>u
    <3>2. ASSUME NEW k \in 0 .. MaxNodes
          PROVE  g.upto[k] \in Nat
      BY <1>0, <2>k, <2>2, <3>1
    <3> QED
      BY <3>1, <3>2
  <2>4. g.slots \in Seq(Value) /\ Len(g.slots) = Len(f.slots)
        /\ DOMAIN g.slots = DOMAIN f.slots
        /\ \A i \in DOMAIN f.slots : g.slots[i] = IF i = at THEN v ELSE f.slots[i]
    <3>1. f.slots \in Seq(Value) /\ at \in DOMAIN f.slots
      BY <1>2, <2>0
    <3>2. g.slots = [f.slots EXCEPT ![at] = v]
      BY <2>1
    <3> HIDE DEF at
    <3> QED
      BY <3>1, <3>2
  <2>5. g \in Frame
    <3>1. g.upto \in [0 .. MaxNodes -> Nat]
      BY <2>u, <2>3
    <3> QED
      BY <2>0, <2>1, <2>4, <3>1 DEF Frame
  <2>6. SumsUp(g)
    <3>1. ASSUME NEW i \in DOMAIN g.slots
          PROVE  g.upto[i] = g.upto[i - 1] + g.slots[i].nodes
      <4>1. i \in DOMAIN f.slots /\ i \in 1 .. Len(f.slots)
            /\ f.upto[i] = f.upto[i - 1] + f.slots[i].nodes
        BY <2>0, <2>4, <3>1 DEF SumsUp
      <4>2. i \in 1 .. MaxNodes /\ i \in 0 .. MaxNodes /\ i - 1 \in 0 .. MaxNodes
        <5>1. Len(f.slots) \in Nat /\ Len(f.slots) <= MaxNodes
          BY <2>0 DEF SumsUp
        <5> QED
          BY <1>0, <4>1, <5>1
      <4>3. f.slots[i].nodes \in Nat
        <5>1. f.slots[i] \in Value
          BY <2>0, <4>1
        <5> QED
          BY <5>1 DEF Value
      <4>4. CASE i = at
        <5>1. g.slots[i] = v /\ f.slots[i] = old
          BY <2>0, <2>4, <4>1, <4>4 DEF old
        <5>2. g.upto[i] = f.upto[i] + v.nodes - old.nodes /\ g.upto[i - 1] = f.upto[i - 1]
          BY <2>3, <2>k, <4>2, <4>4
        <5>3. f.upto[i] \in Nat /\ f.upto[i - 1] \in Nat
          BY <2>k, <4>2
        <5>4. v.nodes \in Nat /\ old.nodes \in Nat
          BY <2>k
        <5>5. f.upto[i] = f.upto[i - 1] + old.nodes
          BY <4>1, <5>1
        <5>6. g.upto[i] = g.upto[i - 1] + v.nodes
          BY <5>2, <5>3, <5>4, <5>5
        <5> QED
          BY <5>1, <5>6
      <4>5. CASE i # at
        <5>1. g.slots[i] = f.slots[i]
          BY <2>4, <4>1, <4>5
        <5>2. i > f.key <=> i - 1 > f.key
          BY <1>0, <2>k, <4>2, <4>5
        <5>3. CASE i > f.key
          <6>1. /\ g.upto[i] = f.upto[i] + v.nodes - old.nodes
                /\ g.upto[i - 1] = f.upto[i - 1] + v.nodes - old.nodes
            BY <2>3, <4>2, <5>2, <5>3
          <6>2. f.upto[i] \in Nat /\ f.upto[i - 1] \in Nat
            BY <2>k, <4>2
          <6>3. v.nodes \in Nat /\ old.nodes \in Nat
            BY <2>k
          <6>4. f.upto[i] = f.upto[i - 1] + f.slots[i].nodes
            BY <4>1
          <6>5. g.upto[i] = g.upto[i - 1] + f.slots[i].nodes
            BY <4>3, <6>1, <6>2, <6>3, <6>4
          <6> QED
            BY <5>1, <6>5
        <5>4. CASE ~(i > f.key)
          BY <1>0, <2>3, <2>k, <4>1, <4>2, <4>3, <5>1, <5>2, <5>4
        <5> QED
          BY <5>3, <5>4
      <4> QED
        BY <4>4, <4>5
    <3>2. ASSUME NEW j \in 0 .. MaxNodes, NEW k \in 0 .. MaxNodes, j <= k
          PROVE  g.upto[j] <= g.upto[k]
      <4>1. f.upto[j] <= f.upto[k]
        BY <2>m, <3>2
      <4>2. CASE j > f.key \/ k <= f.key
        BY <1>0, <2>k, <2>3, <3>2, <4>1, <4>2
      <4>3. CASE j <= f.key /\ k > f.key
        <5>1. f.upto[j] <= f.upto[f.key] /\ f.upto[k] >= f.upto[f.key] + old.nodes
          BY <2>k, <2>m, <2>2, <4>3
        <5>2. g.upto[j] = f.upto[j] /\ g.upto[k] = f.upto[k] + v.nodes - old.nodes
          BY <1>0, <2>k, <2>3, <4>3
        <5> QED
          BY <2>k, <5>1, <5>2
      <4> QED
        BY <1>0, <2>k, <4>2, <4>3
    <3>3. g.upto[0] = 0
      BY <1>0, <2>k, <2>3 DEF SumsUp
    <3> QED
      BY <2>4, <3>1, <3>2, <3>3 DEF SumsUp
  <2>7. NodesOf(g) <= NodesOf(f) + v.nodes
    <3>1. MaxNodes \in 0 .. MaxNodes
      BY <1>0
    <3>2. f.nodes \in Nat
      BY <2>0
    <3>3. g.nodes = f.nodes
      BY <2>1
    <3>4. g.upto[MaxNodes] <= f.upto[MaxNodes] + v.nodes /\ g.upto[MaxNodes] \in Nat
      BY <2>k, <2>3, <3>1
    <3>5. f.upto[MaxNodes] \in Nat /\ v.nodes \in Nat
      BY <2>k, <3>1
    <3> QED
      BY <3>2, <3>3, <3>4, <3>5 DEF NodesOf
  <2>8. NestsAt(g, d)
    BY <2>1, <2>4 DEF NestsAt, FitsAt
  <2> QED
    BY <2>1, <2>5, <2>6, <2>7, <2>8 DEF g
<1> QED
  BY <1>1, <1>2

(* The value a finished frame becomes: its nodes, and nesting that fits    *)
(* the depth its read_value was called with.                               *)
LEMMA ValueOfIsValue ==
  ASSUME NEW f \in Frame, NEW d \in Nat \ {0}, SumsUp(f), NestsAt(f, d)
  PROVE  /\ ValueOf(f) \in Value
         /\ ValueOf(f).nodes = NodesOf(f)
         /\ FitsAt(ValueOf(f), d - 1)
<1> DEFINE v == ValueOf(f)
           below == UNION {Deeper(f.slots[i].levels) : i \in DOMAIN f.slots}
<1>0. MaxNodes \in Nat /\ MaxDepth \in Nat
  BY ReaderAssumption
<1>1. \A i \in DOMAIN f.slots : f.slots[i] \in Value
  BY DEF Frame
<1>2. \A i \in DOMAIN f.slots :
         /\ Deeper(f.slots[i].levels) \in SUBSET Nat
         /\ \A l \in Deeper(f.slots[i].levels) : l - 1 \in f.slots[i].levels
  BY <1>1, DeeperLevels DEF Value
<1>3. f.levels \cup below \in SUBSET Nat
  BY <1>2 DEF Frame
<1>4. f.nodes + f.upto[MaxNodes] \in Nat \ {0}
  BY <1>0 DEF Frame
<1>5. v \in Value
  <2>1. f.bytes \in Int
    BY DEF Frame
  <2>2. f.shared \in BOOLEAN
    BY DEF Frame
  <2>3. v = [type |-> "Other", number |-> -1, nodes |-> f.nodes + f.upto[MaxNodes],
             levels |-> f.levels \cup below, bytes |-> f.bytes,
             shared |-> f.shared \/ \E i \in DOMAIN f.slots : f.slots[i].shared]
    BY DEF ValueOf
  <2>4. (f.shared \/ \E i \in DOMAIN f.slots : f.slots[i].shared) \in BOOLEAN
    OBVIOUS
  <2> HIDE DEF v, below
  <2> QED
    BY <1>3, <1>4, <2>1, <2>3, <2>4 DEF Value
<1>6. v.nodes = NodesOf(f)
  BY DEF ValueOf, NodesOf
<1>7. ASSUME ~v.shared, NEW l \in v.levels
      PROVE  d - 1 + l <= MaxDepth
  <2>1. ~f.shared /\ \A i \in DOMAIN f.slots : ~f.slots[i].shared
    BY <1>7 DEF ValueOf
  <2>2. CASE l \in f.levels
    BY <2>1, <2>2 DEF NestsAt
  <2>3. CASE l \in below
    <3>1. PICK i \in DOMAIN f.slots : l \in Deeper(f.slots[i].levels)
      BY <2>3
    <3>2. l - 1 \in f.slots[i].levels /\ d + (l - 1) <= MaxDepth
      BY <1>2, <2>1, <3>1 DEF NestsAt
    <3>3. l \in Nat
      BY <1>2, <3>1
    <3> QED
      BY <1>0, <3>2, <3>3
  <2> QED
    BY <1>7, <2>2, <2>3 DEF ValueOf
<1> QED
  BY <1>0, <1>5, <1>6, <1>7 DEF FitsAt

-----------------------------------------------------------------------------
(* The shapes of the reader's steps, each of which keeps the invariant.    *)

(* The reader starts with no value, no frame and the whole budget. *)
LEMMA InitIInv == Init => IInv
BY ReaderAssumption DEF Init, IInv, TypeOK, ControlInv, OpenIds, SlotSums, NodesPaid,
   NodesCapped, FrameNesting, NestingCapped, Phases, Errors

(* An error leaves what was read as it is. *)
LEMMA FailIInv ==
  ASSUME IInv, NEW e \in Errors, Fail(e), phase # "error"
  PROVE  IInv'
<1>1. TypeOK'
  BY DEF IInv, TypeOK, Fail, Errors, Phases
<1>2. ControlInv' /\ OpenIds' /\ SlotSums' /\ NodesCapped' /\ FrameNesting' /\ NestingCapped'
  BY DEF IInv, ControlInv, OpenIds, SlotSums, NodesCapped, FrameNesting, NestingCapped, Fail
<1>3. NodesPaid'
  <2>1. phase = "return" => ret.nodes \in Nat
    BY DEF IInv, TypeOK, Value
  <2>2. \A d \in DOMAIN stack : NodesOf(stack[d]) \in Nat /\ stack[d].base \in Nat
    BY StackNodes, ReaderAssumption DEF IInv, TypeOK
  <2> QED
    BY <2>1, <2>2 DEF IInv, TypeOK, NodesPaid, NodesOf, Fail
<1> QED
  BY <1>1, <1>2, <1>3 DEF IInv

(* The framing before the value. *)
LEMMA ConsumesIInv ==
  ASSUME IInv, NEW n \in Nat, NEW next \in {"trailers", "header", "call"},
         phase \in {"envelope", "trailers", "header"}, Consumes(n, next)
  PROVE  IInv'
<1>1. TypeOK'
  BY ReaderAssumption DEF IInv, TypeOK, Consumes, Has, Phases
<1>2. ControlInv' /\ OpenIds' /\ SlotSums' /\ NodesPaid' /\ NodesCapped' /\ FrameNesting'
      /\ NestingCapped'
  BY DEF IInv, ControlInv, OpenIds, SlotSums, NodesPaid, NodesCapped, FrameNesting,
     NestingCapped, Consumes
<1> QED
  BY <1>1, <1>2 DEF IInv

(* A value without parts, or a resolved reference: no more nodes than were *)
(* charged, and no deeper than the call.                                   *)
LEMMA ReturnsIInv ==
  ASSUME IInv, NEW n \in Nat, NEW c \in 1 .. budget, NEW v \in Value,
         phase = "call", Has(n), v.nodes <= c, FitsAt(v, Len(stack)), Returns(n, c, v),
         id_map' = id_map \/ id_map' = Append(id_map, v)
  PROVE  IInv'
<1>0. /\ MaxNodes \in Nat /\ MaxDepth \in Nat /\ InputLen \in Nat /\ None \notin Value
      /\ stack \in Seq(Frame) /\ id_map \in Seq(Value \cup {None})
      /\ budget \in 0 .. MaxNodes /\ pos \in 0 .. InputLen
  BY ReaderAssumption DEF IInv, TypeOK
<1>1. TypeOK'
  BY <1>0 DEF IInv, TypeOK, Returns, Has, Phases, Errors
<1>2. ControlInv'
  BY DEF IInv, ControlInv, Returns
<1>3. OpenIds'
  <2>1. CASE id_map' = id_map
    BY <2>1 DEF IInv, OpenIds, Returns
  <2>2. CASE id_map' = Append(id_map, v)
    <3>1. v # None
      BY <1>0
    <3>2. /\ DOMAIN id_map' = DOMAIN id_map \cup {Len(id_map) + 1}
          /\ id_map'[Len(id_map) + 1] = v
          /\ \A i \in DOMAIN id_map : id_map'[i] = id_map[i] /\ i # Len(id_map) + 1
      BY <1>0, <2>2
    <3> QED
      BY <3>1, <3>2 DEF IInv, OpenIds, Returns
  <2> QED
    BY <2>1, <2>2
<1>4. SlotSums' /\ FrameNesting'
  <2>1. stack' = stack
    BY DEF Returns
  <2>2. SlotSums'
    BY <2>1 DEF IInv, SlotSums
  <2>3. FrameNesting'
    BY <2>1 DEF IInv, FrameNesting
  <2> QED
    BY <2>2, <2>3
<1>5. NodesPaid'
  <2>1. \A d \in DOMAIN stack : NodesOf(stack[d]) \in Nat /\ stack[d].base \in Nat
    BY <1>0, StackNodes
  <2>2. v.nodes \in Nat
    BY DEF Value
  <2>3. /\ stack' = stack /\ budget' = budget - c /\ ret' = v /\ phase' = "return"
        /\ phase # "return"
    BY DEF Returns
  <2>4. ASSUME NEW d \in DOMAIN stack
        PROVE  IF d < Len(stack) THEN NodesOf(stack[d]) <= stack[d].base - stack[d + 1].base
               ELSE NodesOf(stack[d]) + v.nodes <= stack[d].base - (budget - c)
    <3>1. IF d < Len(stack) THEN NodesOf(stack[d]) <= stack[d].base - stack[d + 1].base
          ELSE NodesOf(stack[d]) + 0 <= stack[d].base - budget
      BY <2>3 DEF IInv, NodesPaid
    <3>2. NodesOf(stack[d]) \in Nat /\ stack[d].base \in Nat
      BY <2>1
    <3> QED
      BY <1>0, <2>2, <3>1, <3>2
  <2> QED
    BY <2>3, <2>4 DEF NodesPaid, NodesOf
<1>6. NodesCapped'
  BY <1>0 DEF NodesCapped, Returns, Value
<1>7. NestingCapped'
  BY DEF NestingCapped, FitsAt, Returns
<1> QED
  BY <1>1, <1>2, <1>3, <1>4, <1>5, <1>6, <1>7 DEF IInv

(* A frame whose nodes are those charged is pushed, with an id of its own. *)
LEMMA OpensIInv ==
  ASSUME IInv, NEW n \in Nat, NEW c \in 1 .. budget, NEW f \in Frame,
         NEW next \in {"call", "loop"},
         phase = "call", Len(stack) <= MaxDepth, Has(n), Opens(n, c, f, next),
         SumsUp(f), NodesOf(f) = c, f.id = Len(id_map) + 1, f.base = budget,
         f.depth = Len(stack),
         NestsAt(f, Len(stack) + 1), next = "call" => f.kind # "dense",
         f.want \in {"propkey", "propval"} => f.kind \in {"object", "dense"}
  PROVE  IInv'
<1>0. /\ MaxNodes \in Nat /\ MaxDepth \in Nat /\ InputLen \in Nat
      /\ stack \in Seq(Frame) /\ id_map \in Seq(Value \cup {None})
      /\ budget \in 0 .. MaxNodes /\ pos \in 0 .. InputLen
  BY ReaderAssumption DEF IInv, TypeOK
<1>s. /\ Len(stack') = Len(stack) + 1 /\ Len(stack) \in Nat
      /\ DOMAIN stack' = 1 .. Len(stack) + 1 /\ DOMAIN stack = 1 .. Len(stack)
      /\ stack'[Len(stack) + 1] = f
      /\ \A d \in DOMAIN stack : stack'[d] = stack[d]
      /\ stack' \in Seq(Frame)
  BY <1>0 DEF Opens
<1>i. /\ DOMAIN id_map' = 1 .. Len(id_map) + 1 /\ DOMAIN id_map = 1 .. Len(id_map)
      /\ Len(id_map) \in Nat
      /\ id_map'[Len(id_map) + 1] = None
      /\ \A i \in DOMAIN id_map : id_map'[i] = id_map[i]
      /\ id_map' \in Seq(Value \cup {None})
  BY <1>0 DEF Opens
<1>1. TypeOK'
  BY <1>0, <1>s, <1>i DEF IInv, TypeOK, Opens, Has, Phases, Errors
<1>2. ControlInv'
  BY <1>0, <1>s DEF IInv, ControlInv, Opens
<1>3. OpenIds'
  <2>1. \A d \in DOMAIN stack : stack[d].id \in 1 .. Len(id_map)
    BY <1>i DEF IInv, OpenIds
  <2>2. f.id = Len(id_map) + 1 /\ f.id \notin DOMAIN id_map
    BY <1>i
  <2>3. ASSUME NEW i \in DOMAIN id_map'
        PROVE  id_map'[i] = None <=> \E d \in DOMAIN stack' : stack'[d].id = i
    <3>1. CASE i = Len(id_map) + 1
      BY <1>s, <1>i, <2>2, <3>1
    <3>2. CASE i \in DOMAIN id_map
      <4>1. id_map'[i] = None <=> \E d \in DOMAIN stack : stack[d].id = i
        BY <1>i, <3>2 DEF IInv, OpenIds
      <4>2. \A d \in DOMAIN stack' : d \in DOMAIN stack \/ d = Len(stack) + 1
        BY <1>s
      <4>3. i # f.id
        BY <2>2, <3>2
      <4> QED
        BY <1>s, <4>1, <4>2, <4>3
    <3> QED
      BY <1>i, <3>1, <3>2
  <2>4. \A d \in DOMAIN stack' : stack'[d].id \in DOMAIN id_map'
    BY <1>s, <1>i, <2>1, <2>2
  <2>5. \A d, e \in DOMAIN stack' : d < e => stack'[d].id < stack'[e].id
    <3>1. \A d, e \in DOMAIN stack : d < e => stack[d].id < stack[e].id
      BY DEF IInv, OpenIds
    <3> QED
      BY <1>s, <1>i, <2>1, <2>2, <3>1
  <2> QED
    BY <2>3, <2>4, <2>5 DEF OpenIds
<1>4. SlotSums'
  <2>1. \A d \in DOMAIN stack : SumsUp(stack[d])
    BY DEF IInv, SlotSums, SumsUp
  <2>2. \A d \in DOMAIN stack' : SumsUp(stack'[d])
    BY <1>s, <2>1
  <2> QED
    BY <2>2 DEF SlotSums, SumsUp
<1>5. NodesPaid'
  <2>1. \A d \in DOMAIN stack : NodesOf(stack[d]) \in Nat /\ stack[d].base \in Nat
    BY <1>0, StackNodes
  <2>2. budget' = budget - c /\ phase' # "return"
    BY DEF Opens
  <2>3. ASSUME NEW d \in DOMAIN stack'
        PROVE  IF d < Len(stack') THEN NodesOf(stack'[d]) <= stack'[d].base - stack'[d + 1].base
               ELSE NodesOf(stack'[d]) <= stack'[d].base - budget'
    <3>1. CASE d = Len(stack) + 1
      BY <1>0, <1>s, <2>2, <3>1
    <3>2. CASE d = Len(stack)
      <4>1. d \in DOMAIN stack /\ ~(d < Len(stack)) /\ phase # "return"
        BY <1>s, <3>2
      <4>2. NodesOf(stack[d]) + 0 <= stack[d].base - budget
        BY <4>1 DEF IInv, NodesPaid
      <4>3. NodesOf(stack[d]) \in Nat /\ stack[d].base \in Nat
        BY <2>1, <4>1
      <4> QED
        BY <1>0, <1>s, <3>2, <4>1, <4>2, <4>3
    <3>3. CASE d < Len(stack)
      <4>1. d \in DOMAIN stack /\ d + 1 \in DOMAIN stack
        BY <1>s, <2>3, <3>3
      <4>2. NodesOf(stack[d]) <= stack[d].base - stack[d + 1].base
        BY <3>3, <4>1 DEF IInv, NodesPaid
      <4>3. stack'[d] = stack[d] /\ stack'[d + 1] = stack[d + 1] /\ d < Len(stack')
        BY <1>s, <3>3, <4>1
      <4> QED
        BY <4>2, <4>3
    <3> QED
      BY <1>s, <2>3, <3>1, <3>2, <3>3
  <2> QED
    BY <1>0, <1>s, <2>2, <2>3 DEF NodesPaid, NodesOf
<1>6. NodesCapped'
  BY <1>0 DEF IInv, TypeOK, NodesCapped, Opens, Value
<1>7. FrameNesting'
  <2>1. \A d \in DOMAIN stack : NestsAt(stack[d], d)
    BY DEF IInv, FrameNesting, NestsAt
  <2>2. \A d \in DOMAIN stack' : NestsAt(stack'[d], d)
    BY <1>s, <2>1
  <2> QED
    BY <2>2 DEF FrameNesting, NestsAt
<1>8. NestingCapped'
  BY DEF IInv, TypeOK, NestingCapped, Opens
<1> QED
  BY <1>1, <1>2, <1>3, <1>4, <1>5, <1>6, <1>7, <1>8 DEF IInv

(* The frame on top takes the value returned to it, or starts its next part. *)
LEMMA UpdatesIInv ==
  ASSUME IInv, NEW n \in Nat, NEW f \in Frame, NEW next \in {"call", "loop"},
         phase \in {"return", "loop"}, stack # <<>>, Has(n), Updates(n, f, next),
         SumsUp(f), NestsAt(f, Len(stack)), f.id = Top.id, f.base = Top.base,
         f.depth = Top.depth,
         NodesOf(f) <= NodesOf(Top) + (IF phase = "return" THEN ret.nodes ELSE 0),
         f.kind = "dense" /\ next = "call" => f.left > 0,
         f.want \in {"propkey", "propval"} => f.kind \in {"object", "dense"}
  PROVE  IInv'
<1>0. /\ MaxNodes \in Nat /\ MaxDepth \in Nat /\ InputLen \in Nat
      /\ stack \in Seq(Frame) /\ budget \in 0 .. MaxNodes /\ pos \in 0 .. InputLen
  BY ReaderAssumption DEF IInv, TypeOK
<1>s. /\ Len(stack') = Len(stack) /\ Len(stack) \in Nat \ {0}
      /\ DOMAIN stack' = 1 .. Len(stack) /\ DOMAIN stack = 1 .. Len(stack)
      /\ stack'[Len(stack)] = f
      /\ \A d \in DOMAIN stack : d # Len(stack) => stack'[d] = stack[d]
      /\ \A d \in DOMAIN stack : stack'[d].id = stack[d].id /\ stack'[d].base = stack[d].base
      /\ \A d \in DOMAIN stack : stack'[d].depth = stack[d].depth
      /\ stack' \in Seq(Frame)
  BY <1>0 DEF Updates, Top
<1>1. TypeOK'
  BY <1>0, <1>s DEF IInv, TypeOK, Updates, Has, Phases, Errors
<1>2. ControlInv'
  BY <1>0, <1>s DEF IInv, ControlInv, Updates
<1>3. OpenIds'
  BY <1>s DEF IInv, OpenIds, Updates
<1>4. SlotSums'
  <2>1. \A d \in DOMAIN stack : SumsUp(stack[d])
    BY DEF IInv, SlotSums, SumsUp
  <2>2. \A d \in DOMAIN stack' : SumsUp(stack'[d])
    BY <1>s, <2>1
  <2> QED
    BY <2>2 DEF SlotSums, SumsUp
<1>5. NodesPaid'
  <2>1. \A d \in DOMAIN stack : NodesOf(stack[d]) \in Nat /\ stack[d].base \in Nat
    BY <1>0, StackNodes
  <2>2. budget' = budget /\ phase' # "return"
    BY DEF Updates
  <2>3. ASSUME NEW d \in DOMAIN stack'
        PROVE  IF d < Len(stack') THEN NodesOf(stack'[d]) <= stack'[d].base - stack'[d + 1].base
               ELSE NodesOf(stack'[d]) <= stack'[d].base - budget'
    <3>1. CASE d = Len(stack)
      <4>1. NodesOf(Top) + (IF phase = "return" THEN ret.nodes ELSE 0) <= Top.base - budget
        BY <1>0, <1>s, <3>1 DEF IInv, NodesPaid, Top
      <4>2. NodesOf(f) \in Nat /\ NodesOf(Top) \in Nat /\ Top.base \in Nat
        BY <1>s, <2>1, NodesOfFrame DEF Top
      <4>3. (IF phase = "return" THEN ret.nodes ELSE 0) \in Nat
        BY DEF IInv, TypeOK, Value
      <4> QED
        BY <1>0, <1>s, <2>2, <3>1, <4>1, <4>2, <4>3
    <3>2. CASE d < Len(stack)
      <4>1. NodesOf(stack[d]) <= stack[d].base - stack[d + 1].base
        BY <1>s, <3>2 DEF IInv, NodesPaid
      <4>2. d + 1 \in DOMAIN stack /\ d \in DOMAIN stack
        BY <1>s, <3>2
      <4> QED
        BY <1>s, <3>2, <4>1, <4>2
    <3> QED
      BY <1>s, <3>1, <3>2
  <2>4. \A d \in DOMAIN stack' :
          IF d < Len(stack') THEN NodesOf(stack'[d]) <= stack'[d].base - stack'[d + 1].base
          ELSE NodesOf(stack'[d]) + 0 <= stack'[d].base - budget'
    BY <1>0, <1>s, <2>3, NodesOfFrame
  <2> QED
    BY <2>2, <2>4 DEF NodesPaid, NodesOf
<1>6. NodesCapped' /\ NestingCapped'
  BY DEF NodesCapped, NestingCapped, Updates
<1>7. FrameNesting'
  <2>1. \A d \in DOMAIN stack : NestsAt(stack[d], d)
    BY DEF IInv, FrameNesting, NestsAt
  <2>2. \A d \in DOMAIN stack' : NestsAt(stack'[d], d)
    BY <1>s, <2>1
  <2> QED
    BY <2>2 DEF FrameNesting, NestsAt
<1> QED
  BY <1>1, <1>2, <1>3, <1>4, <1>5, <1>6, <1>7 DEF IInv

(* The sequence without its last element. *)
LEMMA Popped ==
  ASSUME NEW S, NEW s \in Seq(S), Len(s) \in Nat \ {0}
  PROVE  /\ SubSeq(s, 1, Len(s) - 1) \in Seq(S)
         /\ Len(SubSeq(s, 1, Len(s) - 1)) = Len(s) - 1
         /\ \A d \in 1 .. Len(s) - 1 : SubSeq(s, 1, Len(s) - 1)[d] = s[d]
<1>1. PICK m \in Nat : m = Len(s) - 1
  OBVIOUS
<1>2. \A d \in 1 .. m : s[d] \in S
  BY <1>1
<1>3. /\ SubSeq(s, 1, m) \in Seq(S)
      /\ Len(SubSeq(s, 1, m)) = IF 1 <= m THEN m - 1 + 1 ELSE 0
      /\ \A d \in 1 .. m - 1 + 1 : SubSeq(s, 1, m)[d] = s[1 + d - 1]
  BY <1>2, SubSeqProperties
<1>4. Len(SubSeq(s, 1, m)) = m
  BY <1>3
<1>5. \A d \in 1 .. m : d \in 1 .. m - 1 + 1 /\ 1 + d - 1 = d
  OBVIOUS
<1>6. \A d \in 1 .. m : SubSeq(s, 1, m)[d] = s[d]
  BY <1>3, <1>5
<1> QED
  BY <1>1, <1>3, <1>4, <1>6

(* The frame on top becomes a value: its id is filled, and what its nodes  *)
(* cost is what the frame below pays for them.                             *)
LEMMA ClosesIInv ==
  ASSUME IInv, NEW n \in Nat, NEW f \in Frame,
         phase \in {"return", "loop"}, stack # <<>>, Has(n), Closes(n, f),
         SumsUp(f), NestsAt(f, Len(stack)), f.id = Top.id, f.base = Top.base,
         NodesOf(f) <= NodesOf(Top) + (IF phase = "return" THEN ret.nodes ELSE 0)
  PROVE  IInv'
<1> DEFINE v == ValueOf(f)
<1>0. /\ MaxNodes \in Nat /\ MaxDepth \in Nat /\ InputLen \in Nat /\ None \notin Value
      /\ stack \in Seq(Frame) /\ budget \in 0 .. MaxNodes /\ pos \in 0 .. InputLen
      /\ id_map \in Seq(Value \cup {None})
  BY ReaderAssumption DEF IInv, TypeOK
<1>s. /\ Len(stack) \in Nat \ {0} /\ Len(stack') = Len(stack) - 1
      /\ DOMAIN stack' = 1 .. Len(stack) - 1 /\ DOMAIN stack = 1 .. Len(stack)
      /\ \A d \in DOMAIN stack' : stack'[d] = stack[d]
      /\ stack' \in Seq(Frame)
  <2>1. Len(stack) \in Nat \ {0} /\ stack' = SubSeq(stack, 1, Len(stack) - 1)
    BY <1>0 DEF Closes
  <2>2. stack' \in Seq(Frame) /\ Len(stack') = Len(stack) - 1
        /\ \A d \in 1 .. Len(stack) - 1 : stack'[d] = stack[d]
    BY <1>0, <2>1, Popped
  <2> QED
    BY <1>0, <2>1, <2>2
<1>v. /\ v \in Value /\ v # None /\ v.nodes = NodesOf(f) /\ NodesOf(f) \in Nat
      /\ FitsAt(v, Len(stack) - 1)
  <2>1. Len(stack) \in Nat \ {0}
    BY <1>s
  <2> HIDE DEF v
  <2>2. v \in Value /\ v.nodes = NodesOf(f) /\ FitsAt(v, Len(stack) - 1)
    BY <2>1, ValueOfIsValue DEF v
  <2> QED
    BY <1>0, <2>2, NodesOfFrame
<1> HIDE DEF v
<1>c. /\ id_map' = [id_map EXCEPT ![f.id] = v] /\ pos' = pos + n /\ phase' = "return"
      /\ ret' = v /\ budget' = budget /\ err' = err
  BY DEF Closes, v
<1>i. /\ f.id \in DOMAIN id_map /\ id_map'[f.id] = v /\ DOMAIN id_map' = DOMAIN id_map
      /\ \A i \in DOMAIN id_map : i # f.id => id_map'[i] = id_map[i]
      /\ id_map' \in Seq(Value \cup {None})
  <2>1. f.id \in DOMAIN id_map
    BY <1>s DEF IInv, OpenIds, Top
  <2> QED
    BY <1>0, <1>v, <1>c, <2>1
<1>p. NodesOf(f) <= f.base - budget /\ f.base \in 0 .. MaxNodes
  <2>1. NodesOf(Top) + (IF phase = "return" THEN ret.nodes ELSE 0) <= Top.base - budget
    BY <1>0, <1>s DEF IInv, NodesPaid, Top
  <2>2. NodesOf(Top) \in Nat /\ Top.base \in 0 .. MaxNodes
    BY <1>0, <1>s, StackNodes DEF Top
  <2>3. (IF phase = "return" THEN ret.nodes ELSE 0) \in Nat
    BY DEF IInv, TypeOK, Value
  <2> QED
    BY <1>0, <1>v, <2>1, <2>2, <2>3
<1>1. TypeOK'
  BY <1>0, <1>s, <1>v, <1>c, <1>i DEF IInv, TypeOK, Has, Phases, Errors
<1>2. ControlInv'
  BY <1>0, <1>s, <1>c DEF IInv, ControlInv
<1>3. OpenIds'
  <2>1. \A d, e \in DOMAIN stack : d < e => stack[d].id < stack[e].id
    BY DEF IInv, OpenIds
  <2>2. \A d \in DOMAIN stack : stack[d].id \in Nat
    <3>1. \A d \in DOMAIN stack : stack[d] \in Frame
      BY <1>0
    <3> QED
      BY <3>1 DEF Frame
  <2>3. \A d \in DOMAIN stack' : stack[d].id # f.id
    BY <1>s, <2>1, <2>2 DEF Top
  <2>4. ASSUME NEW i \in DOMAIN id_map'
        PROVE  id_map'[i] = None <=> \E d \in DOMAIN stack' : stack'[d].id = i
    <3>1. CASE i = f.id
      BY <1>s, <1>v, <1>i, <2>3, <3>1
    <3>2. CASE i # f.id
      <4>1. id_map[i] = None <=> \E d \in DOMAIN stack : stack[d].id = i
        BY <1>i DEF IInv, OpenIds
      <4>2. \A d \in DOMAIN stack : stack[d].id = i => d \in DOMAIN stack'
        BY <1>s, <3>2 DEF Top
      <4> QED
        BY <1>s, <1>i, <3>2, <4>1, <4>2
    <3> QED
      BY <3>1, <3>2
  <2>5. \A d \in DOMAIN stack' : stack'[d].id \in DOMAIN id_map'
    BY <1>s, <1>i DEF IInv, OpenIds
  <2>6. \A d, e \in DOMAIN stack' : d < e => stack'[d].id < stack'[e].id
    BY <1>s, <2>1
  <2> QED
    BY <2>4, <2>5, <2>6 DEF OpenIds
<1>4. SlotSums'
  <2>1. \A d \in DOMAIN stack : SumsUp(stack[d])
    BY DEF IInv, SlotSums, SumsUp
  <2>2. \A d \in DOMAIN stack' : SumsUp(stack'[d])
    BY <1>s, <2>1
  <2> QED
    BY <2>2 DEF SlotSums, SumsUp
<1>5. NodesPaid'
  <2>1. \A d \in DOMAIN stack : NodesOf(stack[d]) \in Nat /\ stack[d].base \in Nat
    BY <1>0, StackNodes
  <2>2. \A d \in DOMAIN stack' : NodesOf(stack[d]) <= stack[d].base - stack[d + 1].base
    BY <1>s DEF IInv, NodesPaid
  <2>3. ASSUME NEW d \in DOMAIN stack'
        PROVE  IF d < Len(stack') THEN NodesOf(stack'[d]) <= stack'[d].base - stack'[d + 1].base
               ELSE NodesOf(stack'[d]) + v.nodes <= stack'[d].base - budget
    <3>1. CASE d = Len(stack')
      <4>1. stack[d + 1] = Top /\ d \in DOMAIN stack
        BY <1>s, <3>1 DEF Top
      <4>2. NodesOf(stack[d]) <= stack[d].base - f.base
        BY <2>2, <4>1
      <4>3. NodesOf(stack[d]) + v.nodes <= stack[d].base - budget
        <5>1. NodesOf(stack[d]) \in Nat /\ stack[d].base \in Nat
          BY <2>1, <4>1
        <5>2. budget \in Nat /\ f.base \in Nat /\ v.nodes \in Nat /\ v.nodes <= f.base - budget
          BY <1>0, <1>v, <1>p
        <5> HIDE DEF v
        <5> QED
          BY <4>2, <5>1, <5>2
      <4> QED
        BY <1>s, <3>1, <4>3
    <3>2. CASE d < Len(stack')
      <4>1. d + 1 \in DOMAIN stack'
        BY <1>s, <3>2
      <4> QED
        BY <1>s, <2>2, <3>2, <4>1
    <3> QED
      BY <1>s, <3>1, <3>2
  <2> QED
    BY <1>c, <2>3 DEF NodesPaid, NodesOf
<1>6. NodesCapped'
  BY <1>0, <1>v, <1>c, <1>p DEF NodesCapped
<1>7. FrameNesting'
  BY <1>s DEF IInv, FrameNesting
<1>8. NestingCapped'
  BY <1>s, <1>v, <1>c DEF NestingCapped, FitsAt
<1> QED
  BY <1>1, <1>2, <1>3, <1>4, <1>5, <1>6, <1>7, <1>8 DEF IInv

-----------------------------------------------------------------------------
(* Every action is one of these shapes.                                    *)

(* The depth passed on is the number of calls that wait. *)
LEMMA DepthCounts == IInv => Depth = Len(stack) /\ Len(stack) \in Nat
<1> SUFFICES ASSUME IInv PROVE Depth = Len(stack) /\ Len(stack) \in Nat
  OBVIOUS
<1>1. stack \in Seq(Frame) /\ \A d \in DOMAIN stack : stack[d].depth = d - 1
  BY DEF IInv, TypeOK, ControlInv
<1>2. CASE stack = <<>>
  BY <1>2 DEF Depth
<1>3. CASE stack # <<>>
  <2>1. Len(stack) \in DOMAIN stack /\ Len(stack) \in Nat
    BY <1>1, <1>3
  <2>2. Top.depth = Len(stack) - 1
    BY <1>1, <2>1 DEF Top
  <2> QED
    BY <1>3, <2>1, <2>2 DEF Depth
<1> QED
  BY <1>2, <1>3

(* What the guards of a call give to the shapes. *)
LEMMA ReadsFacts ==
  ASSUME IInv, NEW t, Reads(t)
  PROVE  /\ phase = "call" /\ Depth = Len(stack)
         /\ Len(stack) <= MaxDepth /\ Len(stack) \in Nat
         /\ budget \in 1 .. MaxNodes /\ 1 \in 1 .. budget /\ Has(1)
         /\ \A l \in {0} : Len(stack) + l <= MaxDepth
         /\ id_map \in Seq(Value \cup {None})
BY DepthCounts, ReaderAssumption DEF Reads, IInv, TypeOK

(* A value without parts costs the node read_value charged. *)
LEMMA LeafIInv ==
  ASSUME IInv, NEW t, Reads(t), NEW n \in Nat, Has(n),
         NEW type \in {"String", "Int", "Double", "Other"}, NEW i \in Int, NEW b \in Int,
         Returns(n, 1, Leaf(type, i, b)),
         id_map' = id_map \/ id_map' = Append(id_map, Leaf(type, i, b))
  PROVE  IInv'
<1> DEFINE v == Leaf(type, i, b)
<1>1. v \in Value /\ v.nodes = 1 /\ v.levels = {} /\ ~v.shared
  BY LeafIsValue
<1> HIDE DEF v
<1>2. FitsAt(v, Len(stack)) /\ v.nodes <= 1
  BY <1>1, ReadsFacts DEF FitsAt
<1>3. Returns(n, 1, v) /\ (id_map' = id_map \/ id_map' = Append(id_map, v))
  BY DEF v
<1> QED
  BY <1>1, <1>2, <1>3, ReadsFacts, ReturnsIInv

(* The actions of read_value that return without calling it again. *)
LEMMA LeafActionsIInv ==
  ASSUME IInv,
         \/ ReadPrimitive \/ ReadDouble \/ ReadDate \/ ReadBooleanObject
         \/ \E u \in Varints, w \in Widths :
              \/ \E t \in {"int32", "uint32"} : ReadInt(t, u, w)
              \/ \E t \in {"string", "utf16"} : ReadString(t, u, w)
              \/ ReadBigInt(u, w) \/ ReadBigIntObject(u, w) \/ ReadArrayBuffer(u, w)
  PROVE  IInv'
<1>0. /\ Varints \subseteq Nat /\ Widths \subseteq Nat /\ DoubleLen \in Nat
      /\ -1 \in Int /\ 0 \in Int /\ 1 \in Nat
  BY ReaderAssumption DEF Widths
<1>1. CASE ReadPrimitive
  BY <1>0, <1>1, LeafIInv, ReadsFacts DEF ReadPrimitive, Primitive
<1>2. CASE ReadDouble
  BY <1>0, <1>2, LeafIInv DEF ReadDouble
<1>3. CASE ReadDate
  BY <1>0, <1>3, LeafIInv DEF ReadDate, ReturnsObject, Primitive
<1>4. CASE ReadBooleanObject
  BY <1>0, <1>4, LeafIInv, ReadsFacts DEF ReadBooleanObject, ReturnsObject, Primitive
<1>5. ASSUME NEW u \in Varints, NEW w \in Widths, NEW t \in {"int32", "uint32"}, ReadInt(t, u, w)
      PROVE  IInv'
  <2> DEFINE i == IF t = "int32" THEN ZigZag(u) ELSE AsI64(u)
  <2>1. i \in Int /\ 1 + w \in Nat
    BY <1>0, IntIsInt
  <2>2. Reads(t) /\ Has(1 + w) /\ Returns(1 + w, 1, Leaf("Int", i, 0)) /\ id_map' = id_map
    BY <1>5 DEF ReadInt
  <2> HIDE DEF i
  <2> QED
    BY <1>0, <2>1, <2>2, LeafIInv
<1>6. ASSUME NEW u \in Varints, NEW w \in Widths, NEW t \in {"string", "utf16"}, ReadString(t, u, w)
      PROVE  IInv'
  <2>1. u \in Int /\ 1 + w + u \in Nat
    BY <1>0
  <2>2. PICK b \in Decoded(t, u) : Returns(1 + w + u, 1, Leaf("String", -1, b))
    BY <1>6 DEF ReadString
  <2>3. b \in Int
    BY <1>0, DecodedBounds
  <2> QED
    BY <1>0, <1>6, <2>1, <2>2, <2>3, LeafIInv DEF ReadString
<1>7. ASSUME NEW u \in Varints, NEW w \in Widths,
             ReadBigInt(u, w) \/ ReadBigIntObject(u, w) \/ ReadArrayBuffer(u, w)
      PROVE  IInv'
  <2>1. DeclaredLen("bigint", u) \in Nat /\ DeclaredLen("bigintobj", u) \in Nat
    BY <1>0 DEF DeclaredLen
  <2>2. /\ 1 + w + u \in Nat /\ 1 + w + DeclaredLen("bigint", u) \in Nat
        /\ 1 + w + DeclaredLen("bigintobj", u) \in Nat
    BY <1>0, <2>1
  <2>3. CASE ReadBigInt(u, w)
    <3> DEFINE len == DeclaredLen("bigint", u)
    <3>1. PICK b \in BigIntText(len) : Returns(1 + w + len, 1, Leaf("Other", -1, b))
      BY <2>3 DEF ReadBigInt
    <3>2. b \in Int
      BY DEF BigIntText
    <3> QED
      BY <1>0, <2>1, <2>2, <2>3, <3>1, <3>2, LeafIInv DEF ReadBigInt
  <2>4. CASE ReadBigIntObject(u, w)
    <3> DEFINE len == DeclaredLen("bigintobj", u)
    <3>1. PICK b \in BigIntText(len) : ReturnsObject(1 + w + len, Leaf("Other", -1, b))
      BY <2>4 DEF ReadBigIntObject
    <3>2. b \in Int
      BY DEF BigIntText
    <3> QED
      BY <1>0, <2>1, <2>2, <2>4, <3>1, <3>2, LeafIInv DEF ReadBigIntObject, ReturnsObject
  <2>5. CASE ReadArrayBuffer(u, w)
    BY <1>0, <2>1, <2>2, <2>5, LeafIInv DEF ReadArrayBuffer, ReturnsObject
  <2> QED
    BY <1>7, <2>3, <2>4, <2>5
<1> QED
  BY <1>1, <1>2, <1>3, <1>4, <1>5, <1>6, <1>7

(* A reference pays for every node of what it resolves to. *)
LEMMA ReferenceIInv ==
  ASSUME IInv, NEW u \in Varints, NEW w \in Widths, ReadReference(u, w)
  PROVE  IInv'
<1>0. Reads("reference") /\ Has(1 + w) /\ 1 + w \in Nat /\ phase # "error"
  BY ReaderAssumption, ReadsFacts DEF ReadReference, Reads, Widths
<1>1. CASE Fail("NodeCap") \/ Fail("BadReference")
  BY <1>0, <1>1, FailIInv DEF Errors
<1>2. CASE /\ u + 1 \in DOMAIN id_map /\ id_map[u + 1] # None
           /\ ReferenceCost(id_map[u + 1]) <= budget
           /\ Returns(1 + w, ReferenceCost(id_map[u + 1]),
                      [id_map[u + 1] EXCEPT !.shared = TRUE])
           /\ UNCHANGED id_map
  <2> DEFINE r == id_map[u + 1]
             v == [r EXCEPT !.shared = TRUE]
             c == ReferenceCost(r)
  <2>1. r \in Value
    BY <1>0, <1>2, ReadsFacts
  <2>2. v \in Value /\ v.nodes = r.nodes /\ v.shared
    BY <2>1 DEF Value
  <2>3. c = 1 + r.nodes /\ r.nodes \in Nat \ {0} /\ c <= budget /\ budget \in Nat
    BY <1>0, <1>2, <2>1, ReadsFacts, ReaderAssumption DEF ReferenceCost, Value
  <2>4. Returns(1 + w, c, v) /\ id_map' = id_map
    BY <1>2
  <2> HIDE DEF v, c
  <2>5. c \in 1 .. budget /\ v.nodes <= c /\ FitsAt(v, Len(stack))
    BY <2>2, <2>3 DEF FitsAt
  <2> QED
    BY <1>0, <2>2, <2>4, <2>5, ReadsFacts, ReturnsIInv
<1> QED
  BY <1>1, <1>2 DEF ReadReference

(* The tags that open a frame. *)
LEMMA BeginIInv ==
  ASSUME IInv, NEW t, Reads(t), NEW n \in Nat, Has(n),
         NEW kind \in {"object", "dense", "sparse", "map", "set", "regexp", "stringobj"},
         NEW want \in {"elem", "key", "value", "propkey", "propval", "source", "inner"},
         NEW left \in Nat, NEW length \in 0 .. MaxNodes, 1 + length <= budget,
         NEW next \in {"call", "loop"}, next = "call" => kind # "dense",
         want \in {"propkey", "propval"} => kind \in {"object", "dense"},
         Opens(n, 1 + length, NewFrame(kind, want, left, length), next)
  PROVE  IInv'
<1>f. PICK f : f = NewFrame(kind, want, left, length)
  OBVIOUS
<1>0. /\ budget \in 0 .. MaxNodes /\ id_map \in Seq(Value \cup {None}) /\ MaxNodes \in Nat
      /\ Len(stack) + 1 \in Nat /\ Len(stack) + 1 <= MaxDepth + 1
      /\ phase = "call" /\ Len(stack) <= MaxDepth /\ Depth = Len(stack)
  BY ReadsFacts, ReaderAssumption DEF IInv, TypeOK
<1>1. /\ f \in Frame /\ SumsUp(f) /\ NodesOf(f) = 1 + length
      /\ f.kind = kind /\ f.want = want
      /\ f.id = Len(id_map) + 1 /\ f.base = budget /\ f.depth = Len(stack)
      /\ NestsAt(f, Len(stack) + 1)
  <2> DEFINE d == Len(stack) + 1
  <2>0. MaxNodes \in Nat /\ MaxDepth \in Nat
    BY ReaderAssumption
  <2>1. f.slots \in Seq(Value) /\ Len(f.slots) = length
        /\ \A i \in DOMAIN f.slots : f.slots[i] = Primitive
    <3>1. f.slots = [i \in 1 .. length |-> Primitive]
      BY <1>f DEF NewFrame
    <3>2. length \in Nat /\ Primitive \in Value
      BY <2>0, PrimitiveIsValue
    <3> QED
      BY <3>1, <3>2
  <2>2. f.upto \in [0 .. MaxNodes -> Nat]
        /\ \A k \in 0 .. MaxNodes : f.upto[k] = IF k <= length THEN k ELSE length
    <3>1. f.upto = [k \in 0 .. MaxNodes |-> IF k <= length THEN k ELSE length]
      BY <1>f DEF NewFrame
    <3> QED
      BY <2>0, <3>1
  <2>3. f \in Frame
    BY <1>f, <1>0, <2>0, <2>1, <2>2 DEF NewFrame, Frame
  <2>4. SumsUp(f)
    <3>0. Primitive.nodes = 1
      BY PrimitiveIsValue
    <3>1. \A i \in DOMAIN f.slots : f.upto[i] = f.upto[i - 1] + f.slots[i].nodes
      <4>1. ASSUME NEW i \in DOMAIN f.slots
            PROVE  /\ i \in 0 .. MaxNodes /\ i - 1 \in 0 .. MaxNodes /\ i <= length /\ i \in Nat
                   /\ f.slots[i].nodes = 1
        BY <2>0, <2>1, <3>0, <4>1
      <4> QED
        BY <2>0, <2>2, <4>1
    <3>2. \A j, k \in 0 .. MaxNodes : j <= k => f.upto[j] <= f.upto[k]
      BY <2>0, <2>2
    <3> QED
      BY <2>0, <2>1, <2>2, <3>1, <3>2 DEF SumsUp
  <2>5. NodesOf(f) = 1 + length
    BY <1>f, <1>0, <2>0, <2>2 DEF NodesOf, NewFrame
  <2>6. NestsAt(f, d)
    BY <1>f, <1>0, <2>0, <2>1, PrimitiveIsValue DEF NestsAt, NewFrame
  <2>7. f.kind = kind /\ f.want = want /\ f.left = left
        /\ f.id = Len(id_map) + 1 /\ f.base = budget /\ f.depth = Len(stack)
    BY <1>f, <1>0 DEF NewFrame
  <2> QED
    BY <2>3, <2>4, <2>5, <2>6, <2>7
<1>2. 1 + length \in 1 .. budget
  BY <1>0
<1>3. Opens(n, 1 + length, f, next)
  BY <1>f
<1> QED
  BY <1>0, <1>1, <1>2, <1>3, OpensIInv

(* Objects, arrays, maps, sets, regexps and String objects. *)
LEMMA BeginActionsIInv ==
  ASSUME IInv,
         \/ BeginLoop \/ BeginWrapper
         \/ \E u \in Varints, w \in Widths : BeginDenseArray(u, w) \/ BeginSparseArray(u, w)
  PROVE  IInv'
<1>0. Varints \subseteq Nat /\ Widths \subseteq Nat /\ MaxNodes \in Nat
  BY ReaderAssumption DEF Widths
<1>1. ASSUME NEW t, Reads(t)
      PROVE  Has(1) /\ 1 \in Nat /\ 0 \in Nat /\ 0 \in 0 .. MaxNodes /\ 1 + 0 <= budget /\ 1 + 0 = 1
  BY <1>0, <1>1, ReadsFacts
<1>2. CASE BeginLoop
  <2>1. CASE Reads("object") /\ Opens(1, 1, NewFrame("object", "propkey", 0, 0), "loop")
    BY <1>1, <2>1, BeginIInv
  <2>2. CASE Reads("map") /\ Opens(1, 1, NewFrame("map", "key", 0, 0), "loop")
    BY <1>1, <2>2, BeginIInv
  <2>3. CASE Reads("set") /\ Opens(1, 1, NewFrame("set", "elem", 0, 0), "loop")
    BY <1>1, <2>3, BeginIInv
  <2> QED
    BY <1>2, <2>1, <2>2, <2>3 DEF BeginLoop
<1>3. CASE BeginWrapper
  <2>1. CASE Reads("regexp") /\ Opens(1, 1, NewFrame("regexp", "source", 0, 0), "call")
    BY <1>1, <2>1, BeginIInv
  <2>2. CASE Reads("stringobj") /\ Opens(1, 1, NewFrame("stringobj", "inner", 0, 0), "call")
    BY <1>1, <2>2, BeginIInv
  <2> QED
    BY <1>3, <2>1, <2>2 DEF BeginWrapper
<1>4. ASSUME NEW u \in Varints, NEW w \in Widths, BeginDenseArray(u, w)
      PROVE  IInv'
  <2>1. /\ Reads("dense") /\ Has(1 + w) /\ 1 + w \in Nat /\ u \in Nat
        /\ Opens(1 + w, 1, NewFrame("dense", "elem", u, 0), "loop")
    BY <1>0, <1>4 DEF BeginDenseArray
  <2> QED
    BY <1>1, <2>1, BeginIInv
<1>5. ASSUME NEW u \in Varints, NEW w \in Widths, BeginSparseArray(u, w)
      PROVE  IInv'
  <2>1. Reads("sparse") /\ Has(1 + w) /\ 1 + w \in Nat /\ u \in 0 .. MaxNodes /\ 0 \in Nat
    BY <1>0, <1>5 DEF BeginSparseArray
  <2>2. CASE 1 + u <= budget /\ Opens(1 + w, 1 + u, NewFrame("sparse", "key", 0, u), "loop")
    BY <2>1, <2>2, BeginIInv
  <2>3. CASE Fail("NodeCap")
    BY <2>1, <2>3, ReadsFacts, FailIInv DEF Errors
  <2> QED
    BY <1>5, <2>2, <2>3 DEF BeginSparseArray
<1> QED
  BY <1>2, <1>3, <1>4, <1>5

-----------------------------------------------------------------------------
(* The loops and the returns to the calls that wait.                       *)

(* What is known of the frame on top. *)
LEMMA TopFacts ==
  ASSUME IInv, stack # <<>>
  PROVE  /\ Top \in Frame /\ SumsUp(Top) /\ NestsAt(Top, Len(stack))
         /\ Len(stack) \in Nat \ {0} /\ Len(stack) \in DOMAIN stack
         /\ NodesOf(Top) \in Nat
         /\ Top.want \in {"propkey", "propval"} => Top.kind \in {"object", "dense"}
         /\ phase = "return" /\ Top.kind = "dense" => Top.left > 0
         /\ (IF phase = "return" THEN ret.nodes ELSE 0) \in Nat
<1>1. stack \in Seq(Frame) /\ Len(stack) \in Nat \ {0} /\ Len(stack) \in DOMAIN stack
  BY DEF IInv, TypeOK
<1>2. Top \in Frame
  BY <1>1 DEF Top
<1>3. SumsUp(Top) /\ NestsAt(Top, Len(stack))
  BY <1>1 DEF IInv, SlotSums, SumsUp, FrameNesting, NestsAt, Top
<1>4. (IF phase = "return" THEN ret.nodes ELSE 0) \in Nat
  BY DEF IInv, TypeOK, Value
<1> QED
  BY <1>1, <1>2, <1>3, <1>4, NodesOfFrame DEF IInv, ControlInv, Top

(* A frame that holds the same as another, and waits for something else. *)
SameContents(f, g) ==
  /\ f.id = g.id /\ f.base = g.base /\ f.kind = g.kind /\ f.depth = g.depth
  /\ f.nodes = g.nodes /\ f.levels = g.levels /\ f.shared = g.shared
  /\ f.slots = g.slots /\ f.upto = g.upto

(* It adds up, nests and costs the same. *)
LEMMA SameFacts ==
  ASSUME NEW f \in Frame, NEW g \in Frame, SameContents(f, g), NEW d \in Nat,
         SumsUp(g), NestsAt(g, d)
  PROVE  SumsUp(f) /\ NestsAt(f, d) /\ NodesOf(f) = NodesOf(g)
BY DEF SameContents, SumsUp, NestsAt, NodesOf

(* A frame that ends as it is. *)
LEMMA CloseTopIInv ==
  ASSUME IInv, phase = "loop", NEW n \in Nat, Has(n), Closes(n, Top)
  PROVE  IInv'
<1>1. stack # <<>>
  BY DEF IInv, ControlInv
<1> QED
  BY <1>1, TopFacts, ClosesIInv

(* The ends of the loops, and their next rounds. *)
LEMMA LoopIInv ==
  ASSUME IInv,
         \/ Continue \/ EndLoop \/ EndTruncated \/ DenseTruncated
         \/ \E w \in Widths : EndDenseArray(w) \/ \E u \in Varints : EndElements(u, w)
  PROVE  IInv'
<1>0. Varints \subseteq Nat /\ Widths \subseteq Nat /\ phase = "loop" /\ phase # "error"
  <2>1. ASSUME Continue \/ EndLoop
        PROVE  phase = "loop"
    BY <2>1 DEF Continue, EndLoop, Looping
  <2>2. ASSUME EndTruncated \/ DenseTruncated
        PROVE  phase = "loop"
    BY <2>2 DEF EndTruncated, DenseTruncated, Looping
  <2>3. ASSUME NEW w \in Widths, EndDenseArray(w) \/ \E u \in Varints : EndElements(u, w)
        PROVE  phase = "loop"
    BY <2>3 DEF EndDenseArray, EndElements, Looping
  <2>4. Varints \subseteq Nat /\ Widths \subseteq Nat
    BY ReaderAssumption DEF Widths
  <2> QED
    BY <2>1, <2>2, <2>3, <2>4
<1>1. stack # <<>>
  BY <1>0 DEF IInv, ControlInv
<1>2. CASE \E e \in Errors : Fail(e)
  BY <1>0, <1>2, FailIInv
<1>3. CASE Continue
  <2>1. TypeOK'
    BY <1>3 DEF IInv, TypeOK, Continue, Phases, Looping
  <2>2. ControlInv'
    <3>1. \A d \in DOMAIN stack : d < Len(stack) \/ d = Len(stack)
      BY DEF IInv, TypeOK
    <3>2. Top.kind = "dense" => Top.left > 0
      BY <1>3 DEF Continue, Looping
    <3> QED
      BY <1>0, <1>1, <1>3, <3>1, <3>2 DEF IInv, ControlInv, Continue, Top
  <2>3. OpenIds' /\ SlotSums' /\ NodesCapped' /\ FrameNesting' /\ NestingCapped'
    BY <1>3 DEF IInv, OpenIds, SlotSums, NodesCapped, FrameNesting, NestingCapped, Continue
  <2>4. NodesPaid'
    BY <1>0, <1>3 DEF IInv, NodesPaid, NodesOf, Continue
  <2> QED
    BY <2>1, <2>2, <2>3, <2>4 DEF IInv
<1>4. ASSUME NEW w1 \in Widths, NEW w2 \in Widths,
             \/ Has(1 + w1) /\ Closes(1 + w1, Top)
             \/ Has(1 + w1 + w2) /\ Closes(1 + w1 + w2, Top)
             \/ Has(w1) /\ Closes(w1, Top)
      PROVE  IInv'
  <2>1. 1 + w1 \in Nat /\ 1 + w1 + w2 \in Nat /\ w1 \in Nat
    BY <1>0
  <2> QED
    BY <1>0, <1>4, <2>1, CloseTopIInv
<1>5. CASE EndLoop
  BY <1>2, <1>4, <1>5 DEF EndLoop, BadVarint, Errors
<1>6. CASE EndTruncated \/ DenseTruncated
  BY <1>2, <1>6 DEF EndTruncated, DenseTruncated, Errors
<1>7. ASSUME NEW w \in Widths, EndDenseArray(w)
      PROVE  IInv'
  BY <1>2, <1>4, <1>7 DEF EndDenseArray, BadVarint, Errors
<1>8. ASSUME NEW w \in Widths, NEW u \in Varints, EndElements(u, w)
      PROVE  IInv'
  <2>1. CASE /\ Has(1 + w)
             /\ Updates(1 + w, [Top EXCEPT !.want = "propkey", !.left = u], "loop")
    <3> DEFINE f == [Top EXCEPT !.want = "propkey", !.left = u]
    <3>1. /\ Top \in Frame /\ Top.kind = "dense" /\ u \in Nat /\ 1 + w \in Nat
          /\ SumsUp(Top) /\ NestsAt(Top, Len(stack)) /\ NodesOf(Top) \in Nat /\ Len(stack) \in Nat
      <4>1. Top.kind = "dense"
        BY <1>8 DEF EndElements, Looping
      <4>2. u \in Nat /\ 1 + w \in Nat
        BY <1>0
      <4> QED
        BY <1>1, <4>1, <4>2, TopFacts
    <3>2. f \in Frame /\ SameContents(f, Top) /\ f.kind = "dense"
      BY <3>1 DEF Frame, SameContents
    <3>3. Updates(1 + w, f, "loop")
      BY <2>1
    <3> HIDE DEF f
    <3>4. SumsUp(f) /\ NestsAt(f, Len(stack)) /\ NodesOf(f) = NodesOf(Top)
      BY <3>1, <3>2, SameFacts
    <3>5. NodesOf(f) <= NodesOf(Top) + (IF phase = "return" THEN ret.nodes ELSE 0)
      BY <1>0, <3>1, <3>4
    <3>6. f.id = Top.id /\ f.base = Top.base /\ f.depth = Top.depth
      BY <3>2 DEF SameContents
    <3> QED
      BY <1>0, <1>1, <2>1, <3>1, <3>2, <3>3, <3>4, <3>5, <3>6, UpdatesIInv
  <2> QED
    BY <1>2, <1>8, <2>1 DEF EndElements, BadVarint, Errors
<1> QED
  BY <1>3, <1>5, <1>6, <1>7, <1>8

(* What a value returned to a frame gives to the shapes. *)
LEMMA ReturningFacts ==
  ASSUME IInv, NEW wants, Returning(wants)
  PROVE  /\ phase = "return" /\ stack # <<>> /\ ret \in Value /\ Top.want \in wants
         /\ FitsAt(ret, Len(stack)) /\ Has(0) /\ 0 \in Nat
         /\ (IF phase = "return" THEN ret.nodes ELSE 0) = ret.nodes
         /\ ret.nodes \in Nat \ {0} /\ ret.number \in Int
<1>1. phase = "return" /\ stack # <<>> /\ Top.want \in wants
  BY DEF Returning
<1>2. ret \in Value
  BY <1>1 DEF IInv, TypeOK
<1>3. FitsAt(ret, Len(stack))
  <2>1. ret # None
    BY <1>2, ReaderAssumption
  <2> QED
    BY <2>1 DEF IInv, NestingCapped, FitsAt
<1>4. Has(0)
  BY ReaderAssumption DEF IInv, TypeOK, Has
<1> QED
  BY <1>1, <1>2, <1>3, <1>4 DEF Value

(* A value is taken into the frame on top, which then waits for another. *)
LEMMA TakesIInv ==
  ASSUME IInv, NEW wants, Returning(wants), NEW f \in Frame, NEW g \in Frame,
         NEW next \in {"call", "loop"}, Updates(0, g, next), SameContents(g, f),
         SumsUp(f), NestsAt(f, Len(stack)), f.id = Top.id, f.base = Top.base /\ f.depth = Top.depth,
         NodesOf(f) <= NodesOf(Top) + ret.nodes,
         g.kind = "dense" /\ next = "call" => g.left > 0,
         g.want \in {"propkey", "propval"} => g.kind \in {"object", "dense"}
  PROVE  IInv'
<1>1. Len(stack) \in Nat
  BY ReturningFacts, TopFacts
<1>2. SumsUp(g) /\ NestsAt(g, Len(stack)) /\ NodesOf(g) = NodesOf(f)
  BY <1>1, SameFacts
<1>3. g.id = Top.id /\ g.base = Top.base /\ g.depth = Top.depth
  BY DEF SameContents
<1>4. NodesOf(g) <= NodesOf(Top) + (IF phase = "return" THEN ret.nodes ELSE 0)
  BY <1>2, ReturningFacts
<1> QED
  BY <1>2, <1>3, <1>4, ReturningFacts, UpdatesIInv

(* Adopt and Store, for the value returned to the frame on top. *)
LEMMA TopTakes ==
  ASSUME IInv, NEW wants, Returning(wants),
         NEW f, f \in {Adopt(Top, ret), Store(Top, ret), Top}
  PROVE  /\ f \in Frame /\ SumsUp(f) /\ NestsAt(f, Len(stack))
         /\ f.id = Top.id /\ f.base = Top.base /\ f.depth = Top.depth /\ f.kind = Top.kind /\ f.left = Top.left
         /\ NodesOf(f) <= NodesOf(Top) + ret.nodes
<1>1. /\ Top \in Frame /\ SumsUp(Top) /\ NestsAt(Top, Len(stack)) /\ Len(stack) \in Nat
      /\ NodesOf(Top) \in Nat
  BY ReturningFacts, TopFacts
<1>2. ret \in Value /\ FitsAt(ret, Len(stack)) /\ ret.nodes \in Nat
  BY ReturningFacts
<1>3. CASE f = Adopt(Top, ret)
  BY <1>1, <1>2, <1>3, AdoptIsFrame
<1>4. CASE f = Store(Top, ret)
  BY <1>1, <1>2, <1>4, StoreIsFrame
<1>5. CASE f = Top
  BY <1>1, <1>2, <1>5
<1> QED
  BY <1>3, <1>4, <1>5

(* AdoptText, for a text that is made of that value. *)
LEMMA TopTakesText ==
  ASSUME IInv, NEW wants, Returning(wants), NEW n \in Int
  PROVE  LET f == AdoptText(Top, n)
         IN  /\ f \in Frame /\ SumsUp(f) /\ NestsAt(f, Len(stack))
             /\ f.id = Top.id /\ f.base = Top.base /\ f.depth = Top.depth
             /\ f.kind = Top.kind /\ f.left = Top.left
             /\ NodesOf(f) <= NodesOf(Top) + ret.nodes
<1>1. /\ Top \in Frame /\ SumsUp(Top) /\ NestsAt(Top, Len(stack)) /\ Len(stack) \in Nat
      /\ NodesOf(Top) \in Nat
  BY ReturningFacts, TopFacts
<1>2. ret.nodes \in Nat
  BY ReturningFacts
<1> QED
  BY <1>1, <1>2, AdoptTextIsFrame

(* Elements, keys, values and properties. *)
LEMMA TakeIInv ==
  ASSUME IInv, TakeElement \/ TakeKey \/ TakeValue \/ TakePropertyKey \/ TakeProperty
  PROVE  IInv'
<1>1. CASE TakeElement
  <2> DEFINE f == Adopt(Top, ret)
             g == [f EXCEPT !.left = IF Top.kind = "dense" THEN @ - 1 ELSE @]
  <2>1. Returning({"elem"}) /\ Updates(0, g, "loop")
    BY <1>1 DEF TakeElement
  <2>2. /\ f \in Frame /\ SumsUp(f) /\ NestsAt(f, Len(stack))
        /\ f.id = Top.id /\ f.base = Top.base /\ f.depth = Top.depth /\ f.kind = Top.kind /\ f.left = Top.left
        /\ NodesOf(f) <= NodesOf(Top) + ret.nodes
    BY <2>1, TopTakes
  <2>3. f.want = "elem"
    BY <2>1, ReturningFacts, TopFacts DEF Adopt, Frame
  <2>4. Top.kind = "dense" => f.left > 0
    BY <2>1, <2>2, ReturningFacts, TopFacts
  <2> HIDE DEF f
  <2>5. (IF Top.kind = "dense" THEN f.left - 1 ELSE f.left) \in Nat
    BY <2>2, <2>4 DEF Frame
  <2>6. g \in Frame /\ SameContents(g, f) /\ g.want = "elem"
    BY <2>2, <2>3, <2>5 DEF Frame, SameContents
  <2> HIDE DEF g
  <2> QED
    BY <2>1, <2>2, <2>6, TakesIInv
<1>2. CASE TakeKey
  <2>1. CASE Top.kind = "map"
    <3> DEFINE f == Adopt(Top, ret)
               g == [f EXCEPT !.want = "value"]
    <3>1. Returning({"key"}) /\ Updates(0, g, "call")
      BY <1>2, <2>1 DEF TakeKey
    <3>2. /\ f \in Frame /\ SumsUp(f) /\ NestsAt(f, Len(stack))
          /\ f.id = Top.id /\ f.base = Top.base /\ f.depth = Top.depth /\ f.kind = Top.kind
          /\ NodesOf(f) <= NodesOf(Top) + ret.nodes
      BY <3>1, TopTakes
    <3> HIDE DEF f
    <3>3. g \in Frame /\ SameContents(g, f) /\ g.want = "value" /\ g.kind # "dense"
      BY <2>1, <3>2 DEF Frame, SameContents
    <3> HIDE DEF g
    <3> QED
      BY <3>1, <3>2, <3>3, TakesIInv
  <2>2. CASE Top.kind # "map"
    <3> DEFINE g == [Top EXCEPT !.want = "value", !.key = ret.number]
    <3>1. Returning({"key"}) /\ Updates(0, g, "call")
      BY <1>2, <2>2 DEF TakeKey
    <3>2. /\ Top \in Frame /\ SumsUp(Top) /\ NestsAt(Top, Len(stack))
          /\ NodesOf(Top) <= NodesOf(Top) + ret.nodes
      BY <3>1, TopTakes
    <3>3. ret.number \in Int /\ (Top.kind = "dense" => Top.left > 0)
      BY <3>1, ReturningFacts, TopFacts
    <3>4. /\ g \in Frame /\ SameContents(g, Top) /\ g.want = "value" /\ g.kind = Top.kind
          /\ g.left = Top.left
      BY <3>2, <3>3 DEF Frame, SameContents
    <3> HIDE DEF g
    <3> QED
      BY <3>1, <3>2, <3>3, <3>4, TakesIInv
  <2> QED
    BY <2>1, <2>2
<1>3. CASE TakeValue
  <2> DEFINE f == IF Top.kind = "map" THEN Adopt(Top, ret) ELSE Store(Top, ret)
             g == [f EXCEPT !.want = "key", !.key = -1]
  <2>1. Returning({"value"}) /\ Updates(0, g, "loop")
    BY <1>3 DEF TakeValue
  <2>2. /\ f \in Frame /\ SumsUp(f) /\ NestsAt(f, Len(stack))
        /\ f.id = Top.id /\ f.base = Top.base /\ f.depth = Top.depth
        /\ NodesOf(f) <= NodesOf(Top) + ret.nodes
    BY <2>1, TopTakes
  <2> HIDE DEF f
  <2>3. g \in Frame /\ SameContents(g, f) /\ g.want = "key"
    <3>1. -1 \in Int
      OBVIOUS
    <3> QED
      BY <2>2, <3>1 DEF Frame, SameContents
  <2> HIDE DEF g
  <2> QED
    BY <2>1, <2>2, <2>3, TakesIInv
<1>4. CASE TakePropertyKey
  <2>1. CASE Fail("BadKey")
    BY <1>4, <2>1, ReturningFacts, FailIInv DEF TakePropertyKey, Errors
  <2>2. ASSUME NEW n \in KeyText(ret),
               Updates(0, [IF Top.kind = "object" THEN AdoptText(Top, n) ELSE Top
                             EXCEPT !.want = "propval"], "call")
        PROVE  IInv'
    <3> DEFINE f == IF Top.kind = "object" THEN AdoptText(Top, n) ELSE Top
               g == [f EXCEPT !.want = "propval"]
    <3>1. Returning({"propkey"}) /\ Updates(0, g, "call")
      BY <1>4, <2>2 DEF TakePropertyKey
    <3>n. n \in Int
      BY <3>1, ReturningFacts, KeyTextIsInt
    <3>2. /\ f \in Frame /\ SumsUp(f) /\ NestsAt(f, Len(stack))
          /\ f.id = Top.id /\ f.base = Top.base /\ f.depth = Top.depth /\ f.kind = Top.kind /\ f.left = Top.left
          /\ NodesOf(f) <= NodesOf(Top) + ret.nodes
      BY <3>1, <3>n, TopTakes, TopTakesText
    <3>3. Top.kind \in {"object", "dense"} /\ (Top.kind = "dense" => Top.left > 0)
      BY <3>1, ReturningFacts, TopFacts
    <3> HIDE DEF f
    <3>4. g \in Frame /\ SameContents(g, f) /\ g.kind = f.kind /\ g.left = f.left
      BY <3>2 DEF Frame, SameContents
    <3> HIDE DEF g
    <3> QED
      BY <3>1, <3>2, <3>3, <3>4, TakesIInv
  <2> QED
    BY <1>4, <2>1, <2>2 DEF TakePropertyKey
<1>5. CASE TakeProperty
  <2>0. Returning({"propval"}) /\ Top \in Frame /\ Top.kind \in {"object", "dense"}
        /\ (Top.kind = "dense" => Top.left > 0)
    BY <1>5, ReturningFacts, TopFacts DEF TakeProperty
  <2>1. CASE Top.kind = "object"
    <3> DEFINE f == Adopt(Top, ret)
               g == [f EXCEPT !.want = "propkey"]
    <3>1. Updates(0, g, "loop")
      BY <1>5, <2>1 DEF TakeProperty
    <3>2. /\ f \in Frame /\ SumsUp(f) /\ NestsAt(f, Len(stack))
          /\ f.id = Top.id /\ f.base = Top.base /\ f.depth = Top.depth /\ f.kind = Top.kind
          /\ NodesOf(f) <= NodesOf(Top) + ret.nodes
      BY <2>0, TopTakes
    <3> HIDE DEF f
    <3>3. g \in Frame /\ SameContents(g, f) /\ g.kind = "object"
      BY <2>1, <3>2 DEF Frame, SameContents
    <3> HIDE DEF g
    <3> QED
      BY <2>0, <3>1, <3>2, <3>3, TakesIInv
  <2>2. CASE Top.kind = "dense"
    <3> DEFINE h == [Top EXCEPT !.left = @ - 1]
               g == [h EXCEPT !.want = "propkey"]
    <3>1. Updates(0, g, "loop")
      BY <1>5, <2>2 DEF TakeProperty
    <3>2. /\ Top \in Frame /\ SumsUp(Top) /\ NestsAt(Top, Len(stack))
          /\ NodesOf(Top) <= NodesOf(Top) + ret.nodes
      BY <2>0, TopTakes
    <3>3. Top.left - 1 \in Nat
      BY <2>0, <2>2 DEF Frame
    <3>4. h \in Frame /\ SameContents(h, Top)
      BY <3>2, <3>3 DEF Frame, SameContents
    <3> HIDE DEF h
    <3>5. g \in Frame /\ SameContents(g, Top) /\ g.kind = "dense"
      BY <2>2, <3>4 DEF Frame, SameContents
    <3> HIDE DEF g
    <3> QED
      BY <2>0, <3>1, <3>2, <3>5, TakesIInv
  <2> QED
    BY <2>0, <2>1, <2>2
<1> QED
  BY <1>1, <1>2, <1>3, <1>4, <1>5

(* The source of a regexp and the text of a String object end the frame. *)
LEMMA WrapperIInv ==
  ASSUME IInv, TakeSource \/ TakeInner
  PROVE  IInv'
<1>0. Returning({"source", "inner"}) /\ phase # "error"
  BY DEF TakeSource, TakeInner, Returning
<1>1. CASE \E e \in Errors : Fail(e)
  BY <1>0, <1>1, FailIInv
<1>2. ASSUME NEW n \in Nat, Has(n), Closes(n, AdoptText(Top, ret.bytes))
      PROVE  IInv'
  <2> DEFINE f == AdoptText(Top, ret.bytes)
  <2>1. /\ f \in Frame /\ SumsUp(f) /\ NestsAt(f, Len(stack))
        /\ f.id = Top.id /\ f.base = Top.base /\ f.depth = Top.depth
        /\ NodesOf(f) <= NodesOf(Top) + ret.nodes
    <3>1. ret.bytes \in Int
      BY <1>0, ReturningFacts DEF Value
    <3> QED
      BY <1>0, <3>1, TopTakesText
  <2>2. Closes(n, f)
    BY <1>2
  <2> HIDE DEF f
  <2>3. NodesOf(f) <= NodesOf(Top) + (IF phase = "return" THEN ret.nodes ELSE 0)
    BY <1>0, <2>1, ReturningFacts
  <2> QED
    BY <1>0, <1>2, <2>1, <2>2, <2>3, ReturningFacts, ClosesIInv
<1>3. CASE TakeSource
  BY <1>1, <1>2, <1>3, ReaderAssumption DEF TakeSource, BadVarint, Errors, Widths
<1>4. CASE TakeInner
  BY <1>0, <1>1, <1>2, <1>4, ReturningFacts DEF TakeInner, Errors
<1> QED
  BY <1>3, <1>4

(* The version header and the Blink envelope. *)
LEMMA FramingIInv ==
  ASSUME IInv, ReadEnvelope \/ ReadTrailers \/ ReadVersionHeader
  PROVE  IInv'
<1>0. phase \in {"envelope", "trailers", "header"} /\ phase # "error"
  BY DEF ReadEnvelope, ReadTrailers, ReadVersionHeader
<1>1. CASE \E e \in Errors : Fail(e)
  BY <1>0, <1>1, FailIInv
<1>2. ASSUME NEW n \in Nat, NEW next \in {"trailers", "header", "call"}, Consumes(n, next)
      PROVE  IInv'
  BY <1>0, <1>2, ConsumesIInv
<1>3. \A w \in Widths : 1 + w \in Nat
  BY ReaderAssumption DEF Widths
<1>4. 1 + TrailerLen \in Nat /\ 0 \in Nat
  BY ReaderAssumption
<1>5. CASE ReadEnvelope
  BY <1>1, <1>2, <1>3, <1>5 DEF ReadEnvelope, BadVarint, Errors
<1>6. CASE ReadTrailers
  BY <1>1, <1>2, <1>4, <1>6 DEF ReadTrailers, Errors
<1>7. CASE ReadVersionHeader
  BY <1>1, <1>2, <1>3, <1>7 DEF ReadVersionHeader, BadVarint, Errors
<1> QED
  BY <1>5, <1>6, <1>7

(* What read_value refuses. *)
LEMMA RefusedIInv ==
  ASSUME IInv,
         \/ DepthCapped \/ NodeCapped \/ CallTruncated \/ TagVarintBad
         \/ UnsupportedTag \/ HostObject \/ LengthCapped \/ OddUtf16
  PROVE  IInv'
<1>1. phase # "error" /\ \E e \in Errors : Fail(e)
  BY DEF DepthCapped, NodeCapped, CallTruncated, TagVarintBad, UnsupportedTag, HostObject,
         LengthCapped, OddUtf16, Reads, BadVarint, Errors
<1> QED
  BY <1>1, FailIInv

(* Every step keeps the invariant. *)
LEMMA NextIInv == IInv /\ [Next]_vars => IInv'
<1> SUFFICES ASSUME IInv, [Next]_vars PROVE IInv'
  OBVIOUS
<1>1. CASE ReadEnvelope \/ ReadTrailers \/ ReadVersionHeader
  BY <1>1, FramingIInv
<1>2. CASE \/ DepthCapped \/ NodeCapped \/ CallTruncated \/ TagVarintBad
           \/ UnsupportedTag \/ HostObject \/ LengthCapped \/ OddUtf16
  BY <1>2, RefusedIInv
<1>3. CASE ReadPrimitive \/ ReadDouble \/ ReadDate \/ ReadBooleanObject
  BY <1>3, LeafActionsIInv
<1>4. CASE BeginLoop \/ BeginWrapper
  BY <1>4, BeginActionsIInv
<1>5. ASSUME NEW u \in Varints, NEW w \in Widths, ReadsVarint(u, w)
      PROVE  IInv'
  <2>1. CASE \/ \E t \in {"int32", "uint32"} : ReadInt(t, u, w)
             \/ \E t \in {"string", "utf16"} : ReadString(t, u, w)
             \/ ReadBigInt(u, w) \/ ReadBigIntObject(u, w) \/ ReadArrayBuffer(u, w)
    BY <2>1, LeafActionsIInv
  <2>2. CASE ReadReference(u, w)
    BY <2>2, ReferenceIInv
  <2>3. CASE BeginDenseArray(u, w) \/ BeginSparseArray(u, w)
    BY <2>3, BeginActionsIInv
  <2>4. CASE EndElements(u, w)
    BY <2>4, LoopIInv
  <2> QED
    BY <1>5, <2>1, <2>2, <2>3, <2>4 DEF ReadsVarint
<1>6. CASE Continue \/ EndLoop \/ EndTruncated \/ DenseTruncated
  BY <1>6, LoopIInv
<1>7. CASE \E w \in Widths : EndDenseArray(w)
  BY <1>7, LoopIInv
<1>8. CASE TakeElement \/ TakeKey \/ TakeValue \/ TakePropertyKey \/ TakeProperty
  BY <1>8, TakeIInv
<1>9. CASE TakeSource \/ TakeInner
  BY <1>9, WrapperIInv
<1>10. CASE Finish
  BY <1>10 DEF Finish, IInv, TypeOK, ControlInv, OpenIds, SlotSums, NodesPaid, NodesOf,
     NodesCapped, FrameNesting, NestingCapped, Phases
<1>11. CASE UNCHANGED vars
  BY <1>11 DEF vars, IInv, TypeOK, ControlInv, OpenIds, SlotSums, NodesPaid, NodesOf,
     NodesCapped, FrameNesting, NestingCapped
<1> QED
  BY <1>1, <1>2, <1>3, <1>4, <1>5, <1>6, <1>7, <1>8, <1>9, <1>10, <1>11 DEF Next, Returned

-----------------------------------------------------------------------------
(* The reader's invariant holds in every run, for all limits and inputs. *)
THEOREM Invariance == Spec => []IInv
<1>1. Init => IInv
  BY InitIInv
<1>2. IInv /\ [Next]_vars => IInv'
  BY NextIInv
<1> QED
  BY <1>1, <1>2, PTL DEF Spec

(* Positions, budgets, frames and values keep their types. *)
THEOREM TypeCorrect == Spec => []TypeOK
<1>1. IInv => TypeOK
  BY DEF IInv
<1> QED
  BY <1>1, Invariance, PTL

(* No reference ever sees an object that is still being read. *)
THEOREM OpenIdsCorrect == Spec => []OpenIds
<1>1. IInv => OpenIds
  BY DEF IInv
<1> QED
  BY <1>1, Invariance, PTL

(* No value has more nodes than the budget has paid, so none has more than *)
(* max_nodes, whatever references and sparse arrays it is made of.         *)
THEOREM NodesCappedCorrect == Spec => []NodesCapped
<1>1. IInv => NodesCapped
  BY DEF IInv
<1> QED
  BY <1>1, Invariance, PTL

(* Without references, no value with parts lies deeper than max_depth. *)
THEOREM NestingCappedCorrect == Spec => []NestingCapped
<1>1. IInv => NestingCapped
  BY DEF IInv
<1> QED
  BY <1>1, Invariance, PTL

(* One step never rewrites an id that is filled: ids are appended, or the  *)
(* open id of the frame on top is filled.                                  *)
LEMMA StepWritesOnce ==
  IInv /\ [Next]_vars =>
    \A i \in DOMAIN id_map :
       i \in DOMAIN id_map' /\ (id_map[i] # None => id_map'[i] = id_map[i])
<1> SUFFICES ASSUME IInv, [Next]_vars, NEW i \in DOMAIN id_map
             PROVE  i \in DOMAIN id_map' /\ (id_map[i] # None => id_map'[i] = id_map[i])
  OBVIOUS
<1>0. id_map \in Seq(Value \cup {None}) /\ stack \in Seq(Frame)
  BY DEF IInv, TypeOK
<1>1. CASE id_map' = id_map
  BY <1>1
<1>2. CASE \E v : id_map' = Append(id_map, v)
  BY <1>0, <1>2
<1>3. ASSUME stack # <<>>, NEW v, id_map' = [id_map EXCEPT ![Top.id] = v]
      PROVE  i \in DOMAIN id_map' /\ (id_map[i] # None => id_map'[i] = id_map[i])
  <2>1. Len(stack) \in DOMAIN stack
    BY <1>0, <1>3
  <2>2. id_map[Top.id] = None
    BY <2>1 DEF IInv, OpenIds, Top
  <2> QED
    BY <1>0, <1>3, <2>2
<1>4. CASE \/ ReadEnvelope \/ ReadTrailers \/ ReadVersionHeader
           \/ DepthCapped \/ NodeCapped \/ CallTruncated \/ TagVarintBad
           \/ UnsupportedTag \/ HostObject \/ LengthCapped \/ OddUtf16
           \/ ReadPrimitive \/ ReadDouble
           \/ Continue \/ EndTruncated \/ DenseTruncated
           \/ TakeElement \/ TakeKey \/ TakeValue \/ TakePropertyKey \/ TakeProperty
           \/ Finish \/ Returned \/ UNCHANGED vars
  <2>1. id_map' = id_map
    BY <1>4 DEF ReadEnvelope, ReadTrailers, ReadVersionHeader, DepthCapped, NodeCapped,
       CallTruncated, TagVarintBad, UnsupportedTag, HostObject, LengthCapped, OddUtf16,
       ReadPrimitive, ReadDouble, Continue, EndTruncated, DenseTruncated, TakeElement,
       TakeKey, TakeValue, TakePropertyKey, TakeProperty, Finish, Returned, vars,
       Consumes, Fail, BadVarint, Updates
  <2> QED
    BY <1>1, <2>1
<1>5. CASE ReadDate \/ ReadBooleanObject \/ BeginLoop \/ BeginWrapper
  <2>1. \E v : id_map' = Append(id_map, v)
    BY <1>5 DEF ReadDate, ReadBooleanObject, BeginLoop, BeginWrapper, ReturnsObject, Opens
  <2> QED
    BY <1>2, <2>1
<1>6. ASSUME NEW u \in Varints, NEW w \in Widths, ReadsVarint(u, w)
      PROVE  id_map' = id_map \/ \E v : id_map' = Append(id_map, v)
  <2>1. CASE \/ \E t \in {"int32", "uint32"} : ReadInt(t, u, w)
             \/ \E t \in {"string", "utf16"} : ReadString(t, u, w)
             \/ ReadBigInt(u, w) \/ ReadReference(u, w) \/ EndElements(u, w)
    BY <2>1 DEF ReadInt, ReadString, ReadBigInt, ReadReference, EndElements, Fail, BadVarint,
       Updates
  <2>2. CASE \/ ReadBigIntObject(u, w) \/ ReadArrayBuffer(u, w)
             \/ BeginDenseArray(u, w) \/ BeginSparseArray(u, w)
    BY <2>2 DEF ReadBigIntObject, ReadArrayBuffer, BeginDenseArray, BeginSparseArray,
       ReturnsObject, Opens, Fail
  <2> QED
    BY <1>6, <2>1, <2>2 DEF ReadsVarint
<1>7. ASSUME phase = "loop", NEW n, Closes(n, Top)
      PROVE  i \in DOMAIN id_map' /\ (id_map[i] # None => id_map'[i] = id_map[i])
  BY <1>3, <1>7 DEF Closes, IInv, ControlInv
<1>8. CASE EndLoop \/ \E w \in Widths : EndDenseArray(w)
  BY <1>1, <1>7, <1>8 DEF EndLoop, EndDenseArray, Looping, BadVarint, Fail
<1>9. CASE TakeSource \/ TakeInner
  <2>1. Returning({"source", "inner"})
    BY <1>9 DEF TakeSource, TakeInner, Returning
  <2>2. AdoptText(Top, ret.bytes).id = Top.id
    <3>1. ret.bytes \in Int
      BY <2>1, ReturningFacts DEF Value
    <3> QED
      BY <2>1, <3>1, TopTakesText
  <2>3. stack # <<>>
    BY <2>1, ReturningFacts
  <2> QED
    BY <1>1, <1>3, <1>9, <2>2, <2>3 DEF TakeSource, TakeInner, Closes, BadVarint, Fail
<1> QED
  BY <1>1, <1>2, <1>4, <1>5, <1>6, <1>8, <1>9 DEF Next

(* What a reference to an id yields never changes once the id is filled. *)
THEOREM WrittenOnce == Spec => SlotsWrittenOnce
<1>1. IInv /\ [Next]_vars =>
        [\A i \in DOMAIN id_map :
           /\ i \in DOMAIN id_map'
           /\ id_map[i] # None => id_map'[i] = id_map[i]]_vars
  BY StepWritesOnce
<1> QED
  BY <1>1, Invariance, PTL DEF Spec, SlotsWrittenOnce

-----------------------------------------------------------------------------
(* Sums of sequences *)

(* The running sums of the first n numbers of a sequence.                  *)
Sums(f, ns, n) ==
  /\ f \in [0 .. n -> Int] /\ f[0] = 0
  /\ \A i \in 1 .. n : f[i] = f[i - 1] + ns[i]

(* The equation of Total, of a function f.                                 *)
IsTotal(f, ns) == f = [n \in 0 .. Len(ns) |-> IF n = 0 THEN 0 ELSE f[n - 1] + ns[n]]

(* There are running sums.                                                 *)
LEMMA SumsExist ==
  ASSUME NEW ns, NEW n, n \in Nat, \A i \in 1 .. n : ns[i] \in Int
  PROVE  \E f : Sums(f, ns, n)
<1> DEFINE S == {k \in Nat : k <= n => \E f : Sums(f, ns, k)}
<1>1. 0 \in S
  <2>1. Sums([i \in 0 .. 0 |-> 0], ns, 0)
    BY DEF Sums
  <2> QED
    BY <2>1
<1>2. ASSUME NEW k \in Nat, k \in S PROVE k + 1 \in S
  <2> SUFFICES ASSUME k + 1 <= n PROVE \E f : Sums(f, ns, k + 1)
    OBVIOUS
  <2>1. PICK f : Sums(f, ns, k)
    BY <1>2
  <2> DEFINE g == [i \in 0 .. k + 1 |-> IF i = k + 1 THEN f[k] + ns[k + 1] ELSE f[i]]
  <2>2. k + 1 \in 1 .. n /\ k \in 0 .. k /\ ns[k + 1] \in Int /\ f[k] \in Int
    BY <2>1 DEF Sums
  <2>3. g \in [0 .. k + 1 -> Int] /\ g[0] = 0
    BY <2>1, <2>2 DEF Sums
  <2>4. ASSUME NEW i \in 1 .. k + 1 PROVE g[i] = g[i - 1] + ns[i]
    BY <2>1, <2>2 DEF Sums
  <2> HIDE DEF g
  <2>5. Sums(g, ns, k + 1)
    BY <2>3, <2>4 DEF Sums
  <2> QED
    BY <2>5
<1> HIDE DEF S
<1>3. n \in S
  BY <1>1, <1>2, SetInduction
<1> QED
  BY <1>3 DEF S

(* The last of them is the total.                                          *)
LEMMA TotalIsSum ==
  ASSUME NEW ns, ns \in Seq(Int)
  PROVE  \E f : Sums(f, ns, Len(ns)) /\ Total(ns) = f[Len(ns)] /\ Total(ns) \in Int
<1>1. Len(ns) \in Nat /\ \A i \in 1 .. Len(ns) : ns[i] \in Int
  OBVIOUS
<1>2. PICK g : Sums(g, ns, Len(ns))
  BY <1>1, SumsExist
<1>3. IsTotal(g, ns)
  <2> DEFINE h == [n \in 0 .. Len(ns) |-> IF n = 0 THEN 0 ELSE g[n - 1] + ns[n]]
  <2>1. \A n \in 0 .. Len(ns) : g[n] = h[n]
    BY <1>1, <1>2 DEF Sums
  <2>2. DOMAIN g = 0 .. Len(ns) /\ g = [n \in DOMAIN g |-> g[n]]
    BY <1>2 DEF Sums
  <2>3. DOMAIN h = 0 .. Len(ns) /\ h = [n \in DOMAIN h |-> h[n]]
    OBVIOUS
  <2> HIDE DEF h
  <2>4. g = h
    BY <2>1, <2>2, <2>3
  <2> QED
    BY <2>4 DEF IsTotal, h
<1> DEFINE f == CHOOSE upTo : IsTotal(upTo, ns)
<1>4. IsTotal(f, ns) /\ Total(ns) = f[Len(ns)]
  <2>1. IsTotal(f, ns)
    BY <1>3, Zenon
  <2>2. Total(ns) = f[Len(ns)]
    BY Zenon DEF Total, IsTotal
  <2> QED
    BY <2>1, <2>2
<1> HIDE DEF f
<1> DEFINE S == {k \in Nat : k <= Len(ns) => f[k] \in Int}
<1>5. ASSUME NEW n \in 0 .. Len(ns) PROVE f[n] = IF n = 0 THEN 0 ELSE f[n - 1] + ns[n]
  BY <1>4, Zenon DEF IsTotal
<1>6. 0 \in S
  BY <1>1, <1>5
<1>7. ASSUME NEW k \in Nat, k \in S PROVE k + 1 \in S
  <2> SUFFICES ASSUME k + 1 <= Len(ns) PROVE f[k + 1] \in Int
    OBVIOUS
  <2>1. k + 1 \in 0 .. Len(ns) /\ k + 1 # 0 /\ (k + 1) - 1 = k /\ ns[k + 1] \in Int
    BY <1>1
  <2>2. f[k] \in Int
    BY <1>7
  <2> QED
    BY <1>5, <2>1, <2>2
<1> HIDE DEF S
<1>8. \A k \in Nat : k \in S
  BY <1>6, <1>7, SetInduction
<1>9. \A k \in 0 .. Len(ns) : f[k] \in Int
  BY <1>1, <1>8 DEF S
<1>10. f \in [0 .. Len(ns) -> Int]
  <2>1. f = [n \in 0 .. Len(ns) |-> IF n = 0 THEN 0 ELSE f[n - 1] + ns[n]]
    BY <1>4, Zenon DEF IsTotal
  <2>2. \A n \in 0 .. Len(ns) : (IF n = 0 THEN 0 ELSE f[n - 1] + ns[n]) \in Int
    BY <1>5, <1>9
  <2> QED
    BY <2>1, <2>2
<1>11. Sums(f, ns, Len(ns))
  BY <1>1, <1>5, <1>10 DEF Sums
<1> QED
  BY <1>1, <1>4, <1>9, <1>11

(* The first m numbers differ by x at place j, and nowhere else.           *)
DifferAt(ms, ns, m, j, x) ==
  \A i \in 1 .. m : ns[i] \in Int /\ ms[i] = ns[i] + (IF i = j THEN x ELSE 0)

(* Sums of sequences that differ in one place, if at all, differ by that.  *)
LEMMA SumsDiffer ==
  ASSUME NEW f, NEW g, NEW ns, NEW ms, NEW m, NEW n, NEW j, NEW x,
         m \in Nat, n \in Nat, m <= n, Sums(f, ns, m), Sums(g, ms, n), x \in Int, j \in Nat \ {0},
         DifferAt(ms, ns, m, j, x)
  PROVE  g[m] = f[m] + (IF j <= m THEN x ELSE 0)
<1> DEFINE S == {k \in Nat : k <= m => g[k] = f[k] + (IF j <= k THEN x ELSE 0)}
<1>1. 0 \in S
  BY DEF Sums
<1>2. ASSUME NEW k \in Nat, k \in S PROVE k + 1 \in S
  <2> SUFFICES ASSUME k + 1 <= m
               PROVE  g[k + 1] = f[k + 1] + (IF j <= k + 1 THEN x ELSE 0)
    OBVIOUS
  <2>1. g[k] = f[k] + (IF j <= k THEN x ELSE 0)
    BY <1>2
  <2>2. k + 1 \in 1 .. m /\ k + 1 \in 1 .. n /\ (k + 1) - 1 = k /\ k \in 0 .. m
    OBVIOUS
  <2>3. f[k + 1] = f[k] + ns[k + 1] /\ g[k + 1] = g[k] + ms[k + 1] /\ f[k] \in Int
    BY <2>2 DEF Sums
  <2>4. ns[k + 1] \in Int /\ ms[k + 1] = ns[k + 1] + (IF k + 1 = j THEN x ELSE 0)
    BY <2>2 DEF DifferAt
  <2> HIDE DEF S
  <2> QED
    BY <2>1, <2>3, <2>4
<1> HIDE DEF S
<1>3. m \in S
  BY <1>1, <1>2, SetInduction
<1> QED
  BY <1>3 DEF S

(* The total of nothing.                                                   *)
LEMMA TotalEmpty ==
  ASSUME NEW ns, ns \in Seq(Int), Len(ns) = 0
  PROVE  Total(ns) = 0
BY TotalIsSum DEF Sums

(* A sequence that begins as another does.                                 *)
Extends(ms, ns) == Len(ms) = Len(ns) + 1 /\ \A i \in 1 .. Len(ns) : ms[i] = ns[i]

(* A number more is that much more.                                        *)
LEMMA TotalExtended ==
  ASSUME NEW ns, NEW ms, ns \in Seq(Int), ms \in Seq(Int), Extends(ms, ns)
  PROVE  Total(ms) = Total(ns) + ms[Len(ms)]
<1>1. PICK f : Sums(f, ns, Len(ns)) /\ Total(ns) = f[Len(ns)] /\ Total(ns) \in Int
  BY TotalIsSum
<1>2. PICK g : Sums(g, ms, Len(ms)) /\ Total(ms) = g[Len(ms)]
  BY TotalIsSum
<1>3. Len(ns) \in Nat /\ Len(ms) = Len(ns) + 1 /\ ms[Len(ms)] \in Int /\ Len(ms) \in 1 .. Len(ms)
      /\ Len(ms) - 1 = Len(ns)
  BY DEF Extends
<1>4. DifferAt(ms, ns, Len(ns), 1, 0)
  BY DEF Extends, DifferAt
<1>5. g[Len(ns)] = f[Len(ns)] + (IF 1 <= Len(ns) THEN 0 ELSE 0)
  <2>1. Len(ns) \in Nat /\ Len(ms) \in Nat /\ Len(ns) <= Len(ms) /\ 0 \in Int /\ 1 \in Nat \ {0}
    BY <1>3
  <2> QED
    BY <1>1, <1>2, <1>4, <2>1, SumsDiffer
<1>6. g[Len(ms)] = g[Len(ns)] + ms[Len(ms)]
  BY <1>2, <1>3 DEF Sums
<1> QED
  BY <1>1, <1>2, <1>3, <1>5, <1>6

(* The total of a sequence that differs by x at one place does so, too.    *)
LEMMA TotalDiffers ==
  ASSUME NEW ns, NEW ms, NEW j, NEW x, ns \in Seq(Int), ms \in Seq(Int),
         x \in Int, j \in 1 .. Len(ns),
         Len(ms) = Len(ns), DifferAt(ms, ns, Len(ns), j, x)
  PROVE  Total(ms) = Total(ns) + x
<1>1. PICK f : Sums(f, ns, Len(ns)) /\ Total(ns) = f[Len(ns)] /\ Total(ns) \in Int
  BY TotalIsSum
<1>2. PICK g : Sums(g, ms, Len(ms)) /\ Total(ms) = g[Len(ms)]
  BY TotalIsSum
<1>3. Len(ns) \in Nat /\ Len(ms) = Len(ns) /\ j \in Nat \ {0} /\ j <= Len(ns) /\ Len(ns) <= Len(ns)
  OBVIOUS
<1>5. g[Len(ns)] = f[Len(ns)] + (IF j <= Len(ns) THEN x ELSE 0)
  <2>1. Sums(g, ms, Len(ns)) /\ Len(ns) \in Nat /\ Len(ns) <= Len(ns) /\ j \in Nat \ {0} /\ x \in Int
    BY <1>2, <1>3
  <2> QED
    BY <1>1, <2>1, SumsDiffer, Zenon
<1> QED
  BY <1>1, <1>2, <1>3, <1>5

(* Naturals of at most c each.                                             *)
LEMMA TotalBounds ==
  ASSUME NEW ns, NEW c, ns \in Seq(Int), c \in Nat, \A i \in 1 .. Len(ns) : ns[i] \in 0 .. c
  PROVE  Total(ns) >= 0 /\ Total(ns) <= Len(ns) * c
<1>1. PICK f : Sums(f, ns, Len(ns)) /\ Total(ns) = f[Len(ns)]
  BY TotalIsSum
<1>2. Len(ns) \in Nat
  OBVIOUS
<1> DEFINE S == {k \in Nat : k <= Len(ns) => f[k] >= 0 /\ f[k] <= k * c}
<1>3. 0 \in S
  BY <1>1 DEF Sums
<1>4. ASSUME NEW k \in Nat, k \in S PROVE k + 1 \in S
  <2> SUFFICES ASSUME k + 1 <= Len(ns) PROVE f[k + 1] >= 0 /\ f[k + 1] <= (k + 1) * c
    OBVIOUS
  <2>1. f[k] >= 0 /\ f[k] <= k * c /\ f[k] \in Int
    <3>1. k <= Len(ns) /\ k \in 0 .. Len(ns)
      BY <1>2
    <3> QED
      BY <1>1, <1>4, <3>1 DEF Sums
  <2>2. k + 1 \in 1 .. Len(ns) /\ (k + 1) - 1 = k
    OBVIOUS
  <2>3. f[k + 1] = f[k] + ns[k + 1] /\ ns[k + 1] \in 0 .. c
    BY <1>1, <2>2 DEF Sums
  <2>4. (k + 1) * c = k * c + c
    OBVIOUS
  <2> HIDE DEF S
  <2>5. k * c \in Int
    OBVIOUS
  <2> QED
    BY <2>1, <2>3, <2>4, <2>5
<1> HIDE DEF S
<1>5. Len(ns) \in S
  BY <1>2, <1>3, <1>4, SetInduction
<1> QED
  BY <1>1, <1>2, <1>5 DEF S

(* Naturals have a natural total.                                          *)
LEMMA TotalNatural ==
  ASSUME NEW ns, ns \in Seq(Int), \A i \in 1 .. Len(ns) : ns[i] >= 0
  PROVE  Total(ns) \in Nat
<1>1. PICK f : Sums(f, ns, Len(ns)) /\ Total(ns) = f[Len(ns)]
  BY TotalIsSum
<1>2. Len(ns) \in Nat
  OBVIOUS
<1> DEFINE S == {k \in Nat : k <= Len(ns) => f[k] >= 0}
<1>3. 0 \in S
  BY <1>1 DEF Sums
<1>4. ASSUME NEW k \in Nat, k \in S PROVE k + 1 \in S
  <2> SUFFICES ASSUME k + 1 <= Len(ns) PROVE f[k + 1] >= 0
    OBVIOUS
  <2>1. k <= Len(ns) /\ k \in 0 .. Len(ns)
    BY <1>2
  <2>2. f[k] >= 0 /\ f[k] \in Int
    BY <1>1, <1>4, <2>1 DEF Sums
  <2>3. k + 1 \in 1 .. Len(ns) /\ (k + 1) - 1 = k
    OBVIOUS
  <2>4. f[k + 1] = f[k] + ns[k + 1] /\ ns[k + 1] \in Int /\ ns[k + 1] >= 0
    BY <1>1, <2>3 DEF Sums
  <2> HIDE DEF S
  <2> QED
    BY <2>2, <2>4
<1> HIDE DEF S
<1>5. Len(ns) \in S
  BY <1>2, <1>3, <1>4, SetInduction
<1>6. f[Len(ns)] >= 0 /\ f[Len(ns)] \in Int
  BY <1>1, <1>2, <1>5 DEF S, Sums
<1> QED
  BY <1>1, <1>6

-----------------------------------------------------------------------------
(* The payload of a value *)

(* The bytes of a value that no reference is part of; those of the slots   *)
(* of a frame, all and clean; those of the frame itself.                   *)
Clean(v) == IF v.shared THEN 0 ELSE v.bytes
AllBytes(slots) == [i \in DOMAIN slots |-> slots[i].bytes]
CleanBytes(slots) == [i \in DOMAIN slots |-> Clean(slots[i])]
Own(f) == f.bytes - Total(AllBytes(f.slots))

(* What a frame holds of the input, if no reference was read into it.      *)
Weight(f) == IF f.shared THEN 0 ELSE Own(f) + Total(CleanBytes(f.slots))
Weights(st) == [d \in DOMAIN st |-> Weight(st[d])]

(* What a value may add to the frame that takes it: its own bytes, or the  *)
(* text of a key that is made of it.                                       *)
MostText(v) == IF v.type = "Double" THEN DoubleText
               ELSE IF v.type = "Int" THEN 1 + IntDigits ELSE Clean(v)

(* No bytes of it are less than none.                                      *)
Carries(f) == /\ ~f.shared => Own(f) >= 0
              /\ \A i \in DOMAIN f.slots : Clean(f.slots[i]) >= 0

(* References are to objects, which are no keys: what the frames and the   *)
(* value being returned hold was made of different bytes of the input.     *)
PayloadInv ==
  /\ \A i \in DOMAIN id_map : id_map[i] # None => id_map[i].type = "Other"
  /\ ret # None => Clean(ret) \in 0 .. MostText(ret) /\ (ret.shared => ret.type = "Other")
  /\ \A d \in DOMAIN stack : Carries(stack[d])
  /\ Total(Weights(stack)) + (IF ret = None THEN 0 ELSE MostText(ret)) <= Growth * pos

(* The input grows with what is read, and decoding at most triples it.     *)
LEMMA Grows ==
  ASSUME NEW n \in Nat
  PROVE  Growth * n \in Nat /\ 3 * n <= Growth * n
<1>1. PICK k \in Nat : Growth = 3 + k
  <2>1. Growth \in Nat /\ Growth - 3 \in Nat
    BY ReaderAssumption, GrowthAssumption
  <2>2. Growth = 3 + (Growth - 3)
    BY <2>1
  <2> QED
    BY <2>1, <2>2
<1>2. (3 + k) * n = 3 * n + k * n /\ k * n \in Nat
  OBVIOUS
<1> QED
  BY <1>1, <1>2

(* It grows step by step.                                                  *)
LEMMA GrowsOn ==
  ASSUME NEW m \in Nat, NEW n \in Nat
  PROVE  /\ Growth * (m + n) = Growth * m + Growth * n
         /\ Growth * m \in Nat /\ Growth * n \in Nat
BY ReaderAssumption, Grows

(* The text of a key is among what its value may add.                      *)
LEMMA KeyTextFits ==
  ASSUME NEW v \in Value, NEW n \in KeyText(v), v.shared => v.type = "Other",
         Clean(v) \in 0 .. MostText(v)
  PROVE  n \in 0 .. MostText(v)
<1>1. v.bytes \in Int /\ v.number \in Int
  BY DEF Value
<1>2. CASE v.type = "String"
  <2>1. n = v.bytes
    BY <1>2 DEF KeyText
  <2>2. MostText(v) = Clean(v) /\ Clean(v) = v.bytes
    BY <1>2 DEF MostText, Clean
  <2> QED
    BY <1>1, <2>1, <2>2
<1>3. CASE v.type = "Int"
  <2>1. n = IntText(v.number) /\ MostText(v) = 1 + IntDigits
    BY <1>3 DEF KeyText, MostText
  <2> QED
    BY <1>1, <2>1, IntTextBounds, ReaderAssumption
<1>4. CASE v.type = "Double"
  <2>1. n \in 1 .. DoubleText /\ MostText(v) = DoubleText
    BY <1>4 DEF KeyText, MostText
  <2> QED
    BY <2>1, ReaderAssumption
<1>5. CASE v.type \notin {"String", "Int", "Double"}
  BY <1>5 DEF KeyText
<1> QED
  BY <1>2, <1>3, <1>4, <1>5

(* The slots of a frame as sequences of numbers.                           *)
LEMMA SlotBytes ==
  ASSUME NEW slots, slots \in Seq(Value)
  PROVE  /\ AllBytes(slots) \in Seq(Int) /\ CleanBytes(slots) \in Seq(Int)
         /\ Len(AllBytes(slots)) = Len(slots) /\ Len(CleanBytes(slots)) = Len(slots)
         /\ \A i \in 1 .. Len(slots) : /\ AllBytes(slots)[i] = slots[i].bytes
                                       /\ CleanBytes(slots)[i] = Clean(slots[i])
                                       /\ Clean(slots[i]) \in Int /\ slots[i].bytes \in Int
                                       /\ i \in DOMAIN slots
         /\ Total(AllBytes(slots)) \in Int /\ Total(CleanBytes(slots)) \in Int
<1>1. Len(slots) \in Nat /\ DOMAIN slots = 1 .. Len(slots)
  OBVIOUS
<1>2. \A i \in 1 .. Len(slots) : slots[i].bytes \in Int /\ Clean(slots[i]) \in Int
  <2> SUFFICES ASSUME NEW i \in 1 .. Len(slots)
               PROVE  slots[i].bytes \in Int /\ Clean(slots[i]) \in Int
    OBVIOUS
  <2>1. slots[i] \in Value
    BY <1>1
  <2>2. slots[i].bytes \in Int
    BY <2>1 DEF Value
  <2> QED
    BY <2>2 DEF Clean
<1>3. AllBytes(slots) \in Seq(Int) /\ Len(AllBytes(slots)) = Len(slots)
  <2>1. AllBytes(slots) = [i \in 1 .. Len(slots) |-> slots[i].bytes]
    BY <1>1 DEF AllBytes
  <2> QED
    BY <1>1, <1>2, <2>1
<1>4. CleanBytes(slots) \in Seq(Int) /\ Len(CleanBytes(slots)) = Len(slots)
  <2>1. CleanBytes(slots) = [i \in 1 .. Len(slots) |-> Clean(slots[i])]
    BY <1>1 DEF CleanBytes
  <2> QED
    BY <1>1, <1>2, <2>1
<1>5. \A i \in 1 .. Len(slots) : AllBytes(slots)[i] = slots[i].bytes
  <2>1. AllBytes(slots) = [i \in 1 .. Len(slots) |-> slots[i].bytes]
    BY <1>1, Zenon DEF AllBytes
  <2> QED
    BY <2>1, Zenon
<1>7. \A i \in 1 .. Len(slots) : CleanBytes(slots)[i] = Clean(slots[i])
  <2>1. CleanBytes(slots) = [i \in 1 .. Len(slots) |-> Clean(slots[i])]
    BY <1>1, Zenon DEF CleanBytes
  <2> QED
    BY <2>1, Zenon
<1>6. Total(AllBytes(slots)) \in Int /\ Total(CleanBytes(slots)) \in Int
  BY <1>3, <1>4, TotalIsSum
<1> QED
  BY <1>1, <1>2, <1>3, <1>4, <1>5, <1>6, <1>7

(* What a frame holds is a number, and none less than none.                *)
LEMMA WeightIsInt ==
  ASSUME NEW f, f.bytes \in Int, f.slots \in Seq(Value), f.shared \in BOOLEAN
  PROVE  Weight(f) \in Int /\ Own(f) \in Int /\ (Carries(f) => Weight(f) >= 0)
<1>1. /\ Total(AllBytes(f.slots)) \in Int /\ Total(CleanBytes(f.slots)) \in Int
  BY SlotBytes
<1>2. Own(f) \in Int /\ Weight(f) \in Int
  BY <1>1 DEF Weight, Own
<1>3. ASSUME Carries(f) PROVE Weight(f) >= 0
  <2>1. Total(CleanBytes(f.slots)) \in Nat
    <3>1. \A i \in 1 .. Len(CleanBytes(f.slots)) : CleanBytes(f.slots)[i] >= 0
      BY <1>3, SlotBytes DEF Carries
    <3> QED
      BY <3>1, SlotBytes, TotalNatural
  <2> QED
    BY <1>2, <1>3, <2>1 DEF Weight, Carries
<1> QED
  BY <1>2, <1>3

(* A new frame holds nothing.                                              *)
LEMMA NewFrameHolds ==
  ASSUME NEW f, f.bytes = 0, f.slots \in Seq(Value), f.shared = FALSE,
         \A i \in DOMAIN f.slots : f.slots[i] = Primitive
  PROVE  Carries(f) /\ Weight(f) = 0
<1>1. Primitive.bytes = 0 /\ Clean(Primitive) = 0
  BY DEF Primitive, Leaf, Clean
<1>2. \A i \in 1 .. Len(f.slots) : AllBytes(f.slots)[i] \in 0 .. 0 /\ CleanBytes(f.slots)[i] \in 0 .. 0
  BY <1>1, SlotBytes
<1>3. Total(AllBytes(f.slots)) = 0 /\ Total(CleanBytes(f.slots)) = 0
  <2>1. Len(f.slots) \in Nat /\ 0 \in Nat
    OBVIOUS
  <2>2. Total(AllBytes(f.slots)) >= 0 /\ Total(AllBytes(f.slots)) <= Len(AllBytes(f.slots)) * 0
    BY <1>2, <2>1, SlotBytes, TotalBounds
  <2>3. Total(CleanBytes(f.slots)) >= 0 /\ Total(CleanBytes(f.slots)) <= Len(CleanBytes(f.slots)) * 0
    BY <1>2, <2>1, SlotBytes, TotalBounds
  <2>4. Len(f.slots) * 0 = 0
    BY <2>1
  <2> QED
    BY <2>2, <2>3, <2>4, SlotBytes
<1> QED
  BY <1>1, <1>3 DEF Carries, Weight, Own

(* A frame that took something holds no more than c bytes in addition.     *)
TakesBytes(g, f, c) == Carries(g) /\ Weight(g) <= Weight(f) + c

(* As long as no reference is part of it, its own bytes are what it took.  *)
LEMMA GrowsBytes ==
  ASSUME NEW f \in Frame, NEW g, NEW c \in Nat, Carries(f), g.slots = f.slots,
         g.shared \/ (~g.shared /\ ~f.shared /\ \E n \in 0 .. c : g.bytes = f.bytes + n)
  PROVE  TakesBytes(g, f, c)
<1>1. f.bytes \in Int /\ f.slots \in Seq(Value) /\ f.shared \in BOOLEAN
  BY DEF Frame
<1>2. Weight(f) \in Int /\ Own(f) \in Int /\ Weight(f) >= 0
  BY <1>1, WeightIsInt
<1>4. Total(AllBytes(f.slots)) \in Int /\ Total(CleanBytes(f.slots)) \in Int
  BY <1>1, SlotBytes
<1>5. CASE g.shared
  BY <1>2, <1>5 DEF TakesBytes, Carries, Weight
<1>6. CASE ~g.shared /\ ~f.shared /\ \E n \in 0 .. c : g.bytes = f.bytes + n
  <2>1. PICK n \in 0 .. c : g.bytes = f.bytes + n
    BY <1>6
  <2>2. Own(g) = Own(f) + n
    BY <1>1, <1>4, <2>1 DEF Own
  <2>3. Weight(f) = Own(f) + Total(CleanBytes(f.slots))
        /\ Weight(g) = Own(g) + Total(CleanBytes(f.slots)) /\ Own(f) >= 0
    BY <1>6, Zenon DEF Weight, Carries
  <2>4. Own(g) >= 0 /\ Weight(g) <= Weight(f) + c
    BY <1>2, <1>4, <2>1, <2>2, <2>3
  <2> QED
    BY <1>6, <2>4, Zenon DEF TakesBytes, Carries
<1> QED
  BY <1>5, <1>6

(* Adopt.                                                                  *)
LEMMA AdoptsBytes ==
  ASSUME NEW f \in Frame, NEW v \in Value, Carries(f), Clean(v) >= 0
  PROVE  TakesBytes(Adopt(f, v), f, Clean(v))
<1> DEFINE g == Adopt(f, v)
<1>1. g.slots = f.slots /\ g.bytes = f.bytes + v.bytes /\ g.shared = (f.shared \/ v.shared)
  BY DEF Adopt, Frame
<1>2. v.bytes \in Int /\ v.shared \in BOOLEAN /\ f.shared \in BOOLEAN
  BY DEF Value, Frame
<1>3. Clean(v) \in Nat /\ (~v.shared => v.bytes = Clean(v))
  BY <1>2 DEF Clean
<1> HIDE DEF g
<1>4. g.shared \/ (~g.shared /\ ~f.shared /\ \E n \in 0 .. Clean(v) : g.bytes = f.bytes + n)
  <2>1. CASE f.shared \/ v.shared
    BY <1>1, <2>1
  <2>2. CASE ~f.shared /\ ~v.shared
    <3>1. Clean(v) \in 0 .. Clean(v) /\ g.bytes = f.bytes + Clean(v)
      BY <1>1, <1>3, <2>2
    <3> QED
      BY <1>1, <2>2, <3>1
  <2> QED
    BY <2>1, <2>2
<1>5. TakesBytes(g, f, Clean(v))
  BY <1>1, <1>3, <1>4, GrowsBytes
<1> QED
  BY <1>5 DEF g

(* AdoptText.                                                              *)
LEMMA AdoptsText ==
  ASSUME NEW f \in Frame, NEW n \in Nat, Carries(f)
  PROVE  TakesBytes(AdoptText(f, n), f, n)
<1> DEFINE g == AdoptText(f, n)
<1>1. g.slots = f.slots /\ g.bytes = f.bytes + n /\ g.shared = f.shared
  BY DEF AdoptText, Frame
<1>2. n \in 0 .. n /\ f.shared \in BOOLEAN
  BY DEF Frame
<1> HIDE DEF g
<1>3. TakesBytes(g, f, n)
  BY <1>1, <1>2, GrowsBytes
<1> QED
  BY <1>3 DEF g

(* A value stored in a slot, in the place of another.                      *)
LEMMA StoresBytes ==
  ASSUME NEW f, NEW v, NEW g, f \in Frame, v \in Value, Carries(f), Clean(v) >= 0, g = Store(f, v)
  PROVE  TakesBytes(g, f, Clean(v))
<1>1. /\ f.bytes \in Int /\ f.slots \in Seq(Value) /\ f.shared \in BOOLEAN /\ f.key \in Int
      /\ v.bytes \in Int /\ v.shared \in BOOLEAN /\ Clean(v) \in Int
  BY DEF Frame, Value, Clean
<1>2. CASE f.key + 1 \notin DOMAIN f.slots
  <2>1. g = f
    BY <1>2 DEF Store
  <2>2. Weight(f) \in Int
    BY <1>1, WeightIsInt
  <2> QED
    BY <1>1, <2>1, <2>2 DEF TakesBytes
<1>3. CASE f.key + 1 \in DOMAIN f.slots
  <2> DEFINE j == f.key + 1  old == f.slots[j]  new == [f.slots EXCEPT ![j] = v]
  <2>1. /\ g.slots = new /\ g.bytes = f.bytes + v.bytes - old.bytes /\ g.shared = f.shared
    BY <1>3 DEF Store, Frame
  <2>2. j \in 1 .. Len(f.slots) /\ old \in Value /\ old.bytes \in Int /\ Clean(old) \in Int
        /\ Clean(old) >= 0
    <3>1. j \in 1 .. Len(f.slots) /\ old \in Value
      BY <1>1, <1>3
    <3>2. old.bytes \in Int /\ Clean(old) \in Int
      BY <3>1 DEF Value, Clean
    <3>3. Clean(old) >= 0
      BY <1>3, Zenon DEF Carries
    <3> HIDE DEF j, old
    <3> QED
      BY <3>1, <3>2, <3>3
  <2>3. new \in Seq(Value) /\ Len(new) = Len(f.slots)
        /\ \A i \in 1 .. Len(f.slots) : new[i] = IF i = j THEN v ELSE f.slots[i]
    BY <1>1, <2>2, ExceptSeq
  <2>4. Total(AllBytes(new)) = Total(AllBytes(f.slots)) + (v.bytes - old.bytes)
    <3>1. DifferAt(AllBytes(new), AllBytes(f.slots), Len(f.slots), j, v.bytes - old.bytes)
      <4> SUFFICES ASSUME NEW i \in 1 .. Len(f.slots)
                   PROVE  /\ AllBytes(f.slots)[i] \in Int
                          /\ AllBytes(new)[i] = AllBytes(f.slots)[i]
                                                 + (IF i = j THEN v.bytes - old.bytes ELSE 0)
        BY DEF DifferAt
      <4>1. AllBytes(f.slots)[i] = f.slots[i].bytes /\ f.slots[i].bytes \in Int
        BY <1>1, SlotBytes
      <4>2. AllBytes(new)[i] = new[i].bytes
        BY <2>3, SlotBytes
      <4>3. new[i] = IF i = j THEN v ELSE f.slots[i]
        BY <2>3
      <4> HIDE DEF new, j
      <4>4. CASE i = j
        BY <1>1, <2>2, <4>1, <4>2, <4>3, <4>4
      <4>5. CASE i # j
        BY <4>1, <4>2, <4>3, <4>5
      <4> QED
        BY <4>4, <4>5
    <3>2. v.bytes - old.bytes \in Int
      BY <1>1, <2>2
    <3>3. /\ AllBytes(f.slots) \in Seq(Int) /\ Len(AllBytes(f.slots)) = Len(f.slots)
          /\ AllBytes(new) \in Seq(Int) /\ Len(AllBytes(new)) = Len(f.slots)
      BY <1>1, <2>3, SlotBytes
    <3> HIDE DEF new, j, old
    <3> QED
      BY <2>2, <3>1, <3>2, <3>3, TotalDiffers
  <2>5. Total(CleanBytes(new)) = Total(CleanBytes(f.slots)) + (Clean(v) - Clean(old))
    <3>1. DifferAt(CleanBytes(new), CleanBytes(f.slots), Len(f.slots), j, Clean(v) - Clean(old))
      <4> SUFFICES ASSUME NEW i \in 1 .. Len(f.slots)
                   PROVE  /\ CleanBytes(f.slots)[i] \in Int
                          /\ CleanBytes(new)[i] = CleanBytes(f.slots)[i]
                                                 + (IF i = j THEN Clean(v) - Clean(old) ELSE 0)
        BY DEF DifferAt
      <4>1. CleanBytes(f.slots)[i] = Clean(f.slots[i]) /\ Clean(f.slots[i]) \in Int
        BY <1>1, SlotBytes
      <4>2. CleanBytes(new)[i] = Clean(new[i])
        BY <2>3, SlotBytes
      <4>3. new[i] = IF i = j THEN v ELSE f.slots[i]
        BY <2>3
      <4> HIDE DEF new, j
      <4>4. CASE i = j
        BY <1>1, <2>2, <4>1, <4>2, <4>3, <4>4
      <4>5. CASE i # j
        BY <4>1, <4>2, <4>3, <4>5
      <4> QED
        BY <4>4, <4>5
    <3>2. Clean(v) - Clean(old) \in Int
      BY <1>1, <2>2
    <3>3. /\ CleanBytes(f.slots) \in Seq(Int) /\ Len(CleanBytes(f.slots)) = Len(f.slots)
          /\ CleanBytes(new) \in Seq(Int) /\ Len(CleanBytes(new)) = Len(f.slots)
      BY <1>1, <2>3, SlotBytes
    <3> HIDE DEF new, j, old
    <3> QED
      BY <2>2, <3>1, <3>2, <3>3, TotalDiffers
  <2>6. \A i \in DOMAIN new : Clean(new[i]) >= 0
    BY <1>1, <2>3 DEF Carries
  <2>7. Total(AllBytes(f.slots)) \in Int /\ Total(CleanBytes(f.slots)) \in Int
    BY <1>1, SlotBytes
  <2> HIDE DEF new, j, old
  <2>8. Own(g) = Own(f) /\ Own(f) \in Int
    BY <1>1, <2>1, <2>2, <2>4, <2>7 DEF Own
  <2>9. Carries(g)
    BY <2>1, <2>6, <2>8 DEF Carries
  <2>10. Weight(g) <= Weight(f) + Clean(v)
    BY <1>1, <2>1, <2>2, <2>5, <2>7, <2>8 DEF Weight
  <2> QED
    BY <2>9, <2>10 DEF TakesBytes
<1> QED
  BY <1>2, <1>3

(* A finished frame is a value that carries what the frame held.           *)
LEMMA ValueBytes ==
  ASSUME NEW f, f \in Frame, Carries(f)
  PROVE  /\ Clean(ValueOf(f)) >= 0 /\ Clean(ValueOf(f)) <= Weight(f)
         /\ ValueOf(f).type = "Other"
<1>1. f.bytes \in Int /\ f.slots \in Seq(Value) /\ f.shared \in BOOLEAN
  BY DEF Frame
<1>2. Weight(f) >= 0 /\ Weight(f) \in Int
  BY <1>1, WeightIsInt
<1>3. ValueOf(f).type = "Other" /\ ValueOf(f).bytes = f.bytes
      /\ ValueOf(f).shared = (f.shared \/ \E i \in DOMAIN f.slots : f.slots[i].shared)
  BY DEF ValueOf
<1>4. CASE ValueOf(f).shared
  BY <1>2, <1>3, <1>4 DEF Clean
<1>5. CASE ~ValueOf(f).shared
  <2>1. ~f.shared /\ \A i \in DOMAIN f.slots : ~f.slots[i].shared
    BY <1>3, <1>5
  <2>2. AllBytes(f.slots) = CleanBytes(f.slots)
    BY <2>1 DEF AllBytes, CleanBytes, Clean
  <2>3. Weight(f) = f.bytes
    BY <1>1, <2>1, <2>2, SlotBytes DEF Weight, Own
  <2> QED
    BY <1>2, <1>3, <1>5, <2>3 DEF Clean
<1> QED
  BY <1>3, <1>4, <1>5

-----------------------------------------------------------------------------
(* What the steps of the reader do to values and frames *)

(* Input is read, or none; a value without parts, or a copy of an object,  *)
(* is returned; a frame is opened, changed, or ends as a value.            *)
Rests == \E n \in Nat : pos' = pos + n /\ UNCHANGED <<budget, id_map, stack, ret>>

GivesLeaf ==
  \E n, b \in Nat, i \in Int, t \in {"String", "Int", "Double", "Other"} :
    /\ phase = "call" /\ Len(stack) <= MaxDepth /\ budget >= 1
    /\ b <= MostText(Leaf(t, i, b)) /\ MostText(Leaf(t, i, b)) <= Growth * n
    /\ Returns(n, 1, Leaf(t, i, b))
    /\ \/ id_map' = id_map
       \/ t = "Other" /\ id_map' = Append(id_map, Leaf(t, i, b))

GivesCopy ==
  \E n \in Nat, i \in DOMAIN id_map :
    /\ phase = "call" /\ id_map[i] # None
    /\ Returns(n, ReferenceCost(id_map[i]), [id_map[i] EXCEPT !.shared = TRUE])
    /\ id_map' = id_map

OpensFrame ==
  \E n, left \in Nat, length \in 0 .. MaxNodes : \E kind, want, next :
    /\ phase = "call"
    /\ Opens(n, 1 + length, NewFrame(kind, want, left, length), next)

(* A frame that holds the same bytes and slots.                            *)
SamePayload(g, f) ==
  g.base = f.base /\ g.bytes = f.bytes /\ g.shared = f.shared /\ g.slots = f.slots

(* What becomes of a frame with the value that is returned to it.          *)
Took(f) ==
  \/ f = Top
  \/ phase = "return" /\ f \in {Adopt(Top, ret), Store(Top, ret)}
  \/ phase = "return" /\ \E m \in KeyText(ret) : f = AdoptText(Top, m)

UpdatesTop ==
  \E n \in Nat : \E g, f, next :
    /\ stack # <<>> /\ phase \in {"loop", "return"}
    /\ Took(f) /\ SamePayload(g, f) /\ Updates(n, g, next)

ClosesTop ==
  \E n \in Nat : \E f :
    /\ stack # <<>> /\ phase \in {"loop", "return"}
    /\ \/ f = Top
       \/ phase = "return" /\ \E m \in KeyText(ret) : f = AdoptText(Top, m)
    /\ Closes(n, f)

Shaped == Rests \/ GivesLeaf \/ GivesCopy \/ OpensFrame \/ UpdatesTop \/ ClosesTop

(* Steps that change nothing but the phase, and what was read.             *)
LEMMA RestsShape ==
  ASSUME IInv,
         \/ \E e : Fail(e)
         \/ \E n \in Nat : \E next : Consumes(n, next)
         \/ UNCHANGED <<pos, budget, id_map, stack, ret>>
  PROVE  Rests
<1>1. pos + 0 = pos /\ 0 \in Nat
  BY DEF IInv, TypeOK
<1> QED
  BY <1>1 DEF Rests, Fail, Consumes

(* The tags without parts.                                                 *)
LEMMA LeafShape ==
  ASSUME IInv,
         \/ ReadPrimitive \/ ReadDouble \/ ReadDate \/ ReadBooleanObject
         \/ \E u \in Varints, w \in Widths :
              \/ \E t \in {"int32", "uint32"} : ReadInt(t, u, w)
              \/ \E t \in {"string", "utf16"} : ReadString(t, u, w)
              \/ ReadBigInt(u, w) \/ ReadBigIntObject(u, w) \/ ReadArrayBuffer(u, w)
  PROVE  GivesLeaf
<1>0. /\ Varints \subseteq Nat /\ Widths \subseteq Nat /\ DoubleLen \in Nat
      /\ -1 \in Int /\ 0 \in Nat /\ 1 \in Nat
  BY ReaderAssumption DEF Widths
<1>g. ASSUME NEW t, Reads(t), NEW n \in Nat, NEW b \in Nat, NEW i \in Int,
             NEW type \in {"String", "Int", "Double", "Other"},
             b <= MostText(Leaf(type, i, b)), MostText(Leaf(type, i, b)) <= Growth * n,
             Returns(n, 1, Leaf(type, i, b)),
             \/ id_map' = id_map
             \/ type = "Other" /\ id_map' = Append(id_map, Leaf(type, i, b))
      PROVE  GivesLeaf
  <2>1. phase = "call" /\ Len(stack) <= MaxDepth /\ budget >= 1
    BY <1>g, ReadsFacts DEF Reads
  <2> QED
    BY <1>g, <2>1, Zenon DEF GivesLeaf
<1>r. ASSUME NEW t, Reads(t), NEW n \in Nat, NEW b \in Nat, b <= 3 * n,
             NEW type \in {"String", "Other"}, Returns(n, 1, Leaf(type, -1, b)),
             \/ id_map' = id_map
             \/ type = "Other" /\ id_map' = Append(id_map, Leaf(type, -1, b))
      PROVE  GivesLeaf
  <2>1. MostText(Leaf(type, -1, b)) = b
    BY <1>r DEF MostText, Leaf, Clean
  <2>2. b <= Growth * n /\ b <= b
    BY <1>r, Grows
  <2> QED
    BY <1>0, <1>r, <1>g, <2>1, <2>2
<1>1. CASE ReadPrimitive
  BY <1>0, <1>1, <1>r DEF ReadPrimitive, Primitive
<1>2. CASE ReadDate
  <2>1. 1 + DoubleLen \in Nat /\ 0 <= 3 * (1 + DoubleLen)
    BY <1>0
  <2> QED
    BY <1>0, <1>2, <1>r, <2>1 DEF ReadDate, ReturnsObject, Primitive
<1>3. CASE ReadDouble
  <2> DEFINE n == 1 + DoubleLen
  <2>1. n \in Nat /\ MostText(Leaf("Double", -1, 0)) = DoubleText /\ 0 <= DoubleText
    BY <1>0, ReaderAssumption DEF MostText, Leaf
  <2>2. DoubleText <= Growth * n
    <3>1. n * Growth >= DoubleText
      BY GrowthAssumption
    <3>2. n * Growth = Growth * n
      BY <2>1, ReaderAssumption
    <3> QED
      BY <2>1, <3>1, <3>2, Grows, ReaderAssumption
  <2>3. Reads("double") /\ Returns(n, 1, Leaf("Double", -1, 0)) /\ id_map' = id_map
    BY <1>3 DEF ReadDouble
  <2> HIDE DEF n
  <2> QED
    BY <1>0, <1>g, <2>1, <2>2, <2>3
<1>4. CASE ReadBooleanObject
  BY <1>0, <1>4, <1>r DEF ReadBooleanObject, ReturnsObject, Primitive
<1>5. ASSUME NEW u \in Varints, NEW w \in Widths, NEW t \in {"int32", "uint32"}, ReadInt(t, u, w)
      PROVE  GivesLeaf
  <2> DEFINE i == IF t = "int32" THEN ZigZag(u) ELSE AsI64(u)
             n == 1 + w
  <2>1. i \in Int /\ n \in Nat /\ n >= 2
    BY <1>0, IntIsInt DEF Widths
  <2>2. Reads(t) /\ Returns(n, 1, Leaf("Int", i, 0)) /\ id_map' = id_map
    BY <1>5 DEF ReadInt
  <2> HIDE DEF i, n
  <2>3. MostText(Leaf("Int", i, 0)) = 1 + IntDigits /\ 0 <= 1 + IntDigits
    BY ReaderAssumption DEF MostText, Leaf
  <2>4. 1 + IntDigits <= Growth * n
    <3>1. PICK k \in Nat : n = 2 + k
      <4>1. n - 2 \in Nat /\ n = 2 + (n - 2)
        BY <2>1
      <4> QED
        BY <4>1
    <3>2. Growth * (2 + k) = Growth * 2 + Growth * k /\ Growth * k \in Nat
      BY GrowsOn
    <3> QED
      BY <3>1, <3>2, ReaderAssumption, GrowthAssumption
  <2> QED
    BY <1>0, <1>g, <2>1, <2>2, <2>3, <2>4
<1>6. ASSUME NEW u \in Varints, NEW w \in Widths, NEW t \in {"string", "utf16"}, ReadString(t, u, w)
      PROVE  GivesLeaf
  <2>1. u \in Nat /\ 1 + w + u \in Nat /\ 3 * u <= 3 * (1 + w + u)
    BY <1>0
  <2>2. PICK b \in Decoded(t, u) : Returns(1 + w + u, 1, Leaf("String", -1, b))
    BY <1>6 DEF ReadString
  <2>3. b \in Nat /\ b <= 3 * (1 + w + u)
    <3>1. b \in Nat /\ b <= 3 * u
      BY <2>1, DecodedBounds
    <3> QED
      BY <1>0, <2>1, <3>1
  <2>4. Reads(t) /\ id_map' = id_map
    BY <1>6 DEF ReadString
  <2> QED
    BY <1>r, <2>1, <2>2, <2>3, <2>4
<1>7. ASSUME NEW u \in Varints, NEW w \in Widths,
             ReadBigInt(u, w) \/ ReadBigIntObject(u, w) \/ ReadArrayBuffer(u, w)
      PROVE  GivesLeaf
  <2> DEFINE len == u \div 2
  <2>1. len \in Nat /\ 1 + w + len \in Nat /\ 3 * len + 2 <= 3 * (1 + w + len)
        /\ u \in Nat /\ 1 + w + u \in Nat /\ u <= 3 * (1 + w + u)
    BY <1>0
  <2>2. DeclaredLen("bigint", u) = len /\ DeclaredLen("bigintobj", u) = len
    BY DEF DeclaredLen
  <2> HIDE DEF len
  <2>b. ASSUME NEW b \in BigIntText(len)
        PROVE  b \in Nat /\ b <= 3 * (1 + w + len)
    <3>1. b \in Nat /\ b <= 3 * len + 2
      BY <2>1, BigIntBounds
    <3> QED
      BY <1>0, <2>1, <3>1
  <2>3. CASE ReadBigInt(u, w)
    <3>1. PICK b \in BigIntText(len) : Returns(1 + w + len, 1, Leaf("Other", -1, b))
      BY <2>2, <2>3 DEF ReadBigInt
    <3>2. Reads("bigint") /\ id_map' = id_map
      BY <2>3 DEF ReadBigInt
    <3> QED
      BY <1>r, <2>1, <2>b, <3>1, <3>2
  <2>4. CASE ReadBigIntObject(u, w)
    <3>1. PICK b \in BigIntText(len) : ReturnsObject(1 + w + len, Leaf("Other", -1, b))
      BY <2>2, <2>4 DEF ReadBigIntObject
    <3>2. Reads("bigintobj")
      BY <2>4 DEF ReadBigIntObject
    <3>3. Returns(1 + w + len, 1, Leaf("Other", -1, b)) /\ id_map' = Append(id_map, Leaf("Other", -1, b))
      BY <3>1 DEF ReturnsObject
    <3> QED
      BY <1>r, <2>1, <2>b, <3>1, <3>2, <3>3
  <2>5. CASE ReadArrayBuffer(u, w)
    BY <1>0, <1>r, <2>1, <2>5 DEF ReadArrayBuffer, ReturnsObject
  <2> QED
    BY <1>7, <2>3, <2>4, <2>5
<1> QED
  BY <1>1, <1>2, <1>3, <1>4, <1>5, <1>6, <1>7

(* The tags with parts.                                                    *)
LEMMA BeginShape ==
  ASSUME IInv,
         \/ BeginLoop \/ BeginWrapper
         \/ \E u \in Varints, w \in Widths : BeginDenseArray(u, w) \/ BeginSparseArray(u, w)
  PROVE  Rests \/ OpensFrame
<1>0. /\ Varints \subseteq Nat /\ Widths \subseteq Nat /\ MaxNodes \in Nat
      /\ 0 \in Nat /\ 1 \in Nat /\ 0 \in 0 .. MaxNodes /\ 1 + 0 = 1
  BY ReaderAssumption DEF Widths
<1>r. ASSUME NEW t, Reads(t), NEW n \in Nat, NEW left \in Nat, NEW length \in 0 .. MaxNodes,
             NEW c, c = 1 + length, NEW kind, NEW want, NEW next,
             Opens(n, c, NewFrame(kind, want, left, length), next)
      PROVE  OpensFrame
  BY <1>r, Zenon DEF OpensFrame, Reads
<1>1. CASE BeginLoop
  BY <1>0, <1>1, <1>r DEF BeginLoop
<1>2. CASE BeginWrapper
  BY <1>0, <1>2, <1>r DEF BeginWrapper
<1>3. ASSUME NEW u \in Varints, NEW w \in Widths, BeginDenseArray(u, w)
      PROVE  OpensFrame
  <2>1. u \in Nat /\ 1 + w \in Nat
    BY <1>0
  <2> QED
    BY <1>0, <1>3, <1>r, <2>1 DEF BeginDenseArray
<1>4. ASSUME NEW u \in Varints, NEW w \in Widths, BeginSparseArray(u, w)
      PROVE  Rests \/ OpensFrame
  <2>1. u \in Nat /\ 1 + w \in Nat /\ (u <= MaxNodes => u \in 0 .. MaxNodes)
    BY <1>0
  <2>2. CASE Fail("NodeCap")
    BY <2>2, RestsShape
  <2>3. CASE Opens(1 + w, 1 + u, NewFrame("sparse", "key", 0, u), "loop")
    BY <1>0, <1>4, <1>r, <2>1, <2>3 DEF BeginSparseArray
  <2> QED
    BY <1>4, <2>2, <2>3 DEF BeginSparseArray
<1> QED
  BY <1>1, <1>2, <1>3, <1>4

(* References.                                                             *)
LEMMA ReferenceShape ==
  ASSUME IInv, NEW u \in Varints, NEW w \in Widths, ReadReference(u, w)
  PROVE  Rests \/ GivesCopy
<1>0. 1 + w \in Nat
  BY ReaderAssumption DEF Widths
<1>1. CASE Fail("NodeCap") \/ Fail("BadReference")
  BY <1>1, RestsShape
<1>2. CASE /\ u + 1 \in DOMAIN id_map /\ id_map[u + 1] # None
           /\ Returns(1 + w, ReferenceCost(id_map[u + 1]),
                      [id_map[u + 1] EXCEPT !.shared = TRUE])
           /\ UNCHANGED id_map
  <2>1. phase = "call"
    BY DEF ReadReference, Reads
  <2> QED
    BY <1>0, <1>2, <2>1, Zenon DEF GivesCopy
<1> QED
  BY <1>1, <1>2 DEF ReadReference

(* The ends of the loops, and their next rounds.                           *)
LEMMA LoopShape ==
  ASSUME IInv,
         \/ Continue \/ EndLoop \/ EndTruncated \/ DenseTruncated
         \/ \E w \in Widths : EndDenseArray(w) \/ \E u \in Varints : EndElements(u, w)
  PROVE  Rests \/ UpdatesTop \/ ClosesTop
<1>0. Widths \subseteq Nat /\ 1 \in Nat
  BY ReaderAssumption DEF Widths
<1>1. CASE Continue \/ EndTruncated \/ DenseTruncated
  BY <1>1, RestsShape DEF Continue, EndTruncated, DenseTruncated
<1>f. ASSUME NEW e, Fail(e) PROVE Rests
  BY <1>f, RestsShape
<1>r. ASSUME phase = "loop", NEW n \in Nat, Closes(n, Top)
      PROVE  ClosesTop
  <2>1. stack # <<>> /\ phase \in {"loop", "return"}
    BY <1>r DEF IInv, ControlInv
  <2> QED
    BY <1>r, <2>1, Zenon DEF ClosesTop
<1>2. CASE EndLoop
  <2>1. phase = "loop"
    BY <1>2 DEF EndLoop, Looping
  <2>2. \A w1, w2 \in Widths : 1 + w1 \in Nat /\ 1 + w1 + w2 \in Nat
    BY <1>0
  <2> QED
    BY <1>2, <1>f, <1>r, <2>1, <2>2 DEF EndLoop, BadVarint
<1>3. ASSUME NEW w \in Widths, EndDenseArray(w)
      PROVE  Rests \/ ClosesTop
  <2>1. phase = "loop" /\ w \in Nat
    BY <1>0, <1>3 DEF EndDenseArray, Looping
  <2> QED
    BY <1>3, <1>f, <1>r, <2>1 DEF EndDenseArray, BadVarint
<1>4. ASSUME NEW w \in Widths, NEW u \in Varints, EndElements(u, w)
      PROVE  Rests \/ UpdatesTop
  <2>0. phase = "loop"
    BY <1>4 DEF EndElements, Looping
  <2>1. phase = "loop" /\ 1 + w \in Nat
    BY <1>0, <2>0
  <2>2. stack # <<>>
    BY <2>1 DEF IInv, ControlInv
  <2>3. CASE Updates(1 + w, [Top EXCEPT !.want = "propkey", !.left = u], "loop")
    <3> DEFINE g == [Top EXCEPT !.want = "propkey", !.left = u]
    <3>1. Top \in Frame
      BY <2>2, TopFacts
    <3>2. SamePayload(g, Top)
      BY <3>1 DEF SamePayload, Frame
    <3>3. Updates(1 + w, g, "loop")
      BY <2>3
    <3> HIDE DEF g
    <3> QED
      BY <2>1, <2>2, <3>2, <3>3, Zenon DEF UpdatesTop, Took
  <2> QED
    BY <1>4, <1>f, <2>3 DEF EndElements, BadVarint
<1> QED
  BY <1>1, <1>2, <1>3, <1>4

(* A frame that took a value, and waits for another.                       *)
LEMMA TookShape ==
  ASSUME IInv, NEW wants, Returning(wants), NEW f, Took(f), NEW g, SamePayload(g, f),
         NEW next, Updates(0, g, next)
  PROVE  UpdatesTop
<1>1. stack # <<>> /\ phase \in {"loop", "return"} /\ 0 \in Nat
  BY ReturningFacts
<1> QED
  BY <1>1, Zenon DEF UpdatesTop

(* Elements, keys, values and properties.                                  *)
LEMMA TakeShape ==
  ASSUME IInv, TakeElement \/ TakeKey \/ TakeValue \/ TakePropertyKey \/ TakeProperty
  PROVE  Rests \/ UpdatesTop
<1>0. \E wants : Returning(wants)
  BY DEF TakeElement, TakeKey, TakeValue, TakePropertyKey, TakeProperty
<1>t. phase = "return" /\ stack # <<>> /\ Top \in Frame /\ ret \in Value
  BY <1>0, ReturningFacts, TopFacts
<1>f. ASSUME NEW f, f \in {Adopt(Top, ret), Store(Top, ret), Top}
      PROVE  f \in Frame
  BY <1>0, <1>f, TopTakes
<1>s. ASSUME NEW f \in Frame, NEW g,
             \/ \E x : g = [f EXCEPT !.left = x]
             \/ \E x : g = [f EXCEPT !.want = x]
             \/ \E x, y : g = [f EXCEPT !.want = x, !.key = y]
             \/ \E x, y : g = [[f EXCEPT !.left = y] EXCEPT !.want = x]
      PROVE  SamePayload(g, f)
  BY <1>s DEF SamePayload, Frame
<1>1. CASE TakeElement
  <2> DEFINE f == Adopt(Top, ret)
             g == [f EXCEPT !.left = IF Top.kind = "dense" THEN @ - 1 ELSE @]
  <2>1. Returning({"elem"}) /\ Updates(0, g, "loop")
    BY <1>1 DEF TakeElement
  <2>2. f \in Frame /\ Took(f)
    BY <1>f, <1>t DEF Took
  <2> HIDE DEF f
  <2>3. SamePayload(g, f)
    BY <1>s, <2>2
  <2> HIDE DEF g
  <2> QED
    BY <2>1, <2>2, <2>3, TookShape
<1>2. CASE TakeKey
  <2> DEFINE f == IF Top.kind = "map" THEN Adopt(Top, ret) ELSE Top
             g == IF Top.kind = "map" THEN [f EXCEPT !.want = "value"]
                  ELSE [f EXCEPT !.want = "value", !.key = ret.number]
  <2>1. Returning({"key"}) /\ Updates(0, g, "call")
    BY <1>2 DEF TakeKey
  <2>2. f \in Frame /\ Took(f)
    BY <1>f, <1>t DEF Took
  <2> HIDE DEF f
  <2>3. SamePayload(g, f)
    BY <1>s, <2>2
  <2> HIDE DEF g
  <2> QED
    BY <2>1, <2>2, <2>3, TookShape
<1>3. CASE TakeValue
  <2> DEFINE f == IF Top.kind = "map" THEN Adopt(Top, ret) ELSE Store(Top, ret)
             g == [f EXCEPT !.want = "key", !.key = -1]
  <2>1. Returning({"value"}) /\ Updates(0, g, "loop")
    BY <1>3 DEF TakeValue
  <2>2. f \in Frame /\ Took(f)
    BY <1>f, <1>t DEF Took
  <2> HIDE DEF f
  <2>3. SamePayload(g, f)
    BY <1>s, <2>2
  <2> HIDE DEF g
  <2> QED
    BY <2>1, <2>2, <2>3, TookShape
<1>4. CASE TakePropertyKey
  <2>1. CASE Fail("BadKey")
    BY <2>1, RestsShape
  <2>2. ASSUME NEW m \in KeyText(ret), Returning({"propkey"}),
               Updates(0, [IF Top.kind = "object" THEN AdoptText(Top, m) ELSE Top
                             EXCEPT !.want = "propval"], "call")
        PROVE  UpdatesTop
    <3> DEFINE f == IF Top.kind = "object" THEN AdoptText(Top, m) ELSE Top
               g == [f EXCEPT !.want = "propval"]
    <3>0. Updates(0, g, "call")
      BY <2>2
    <3>1. f \in Frame /\ Took(f)
      <4>1. m \in Int
        BY <1>t, KeyTextIsInt
      <4>2. AdoptText(Top, m) \in Frame
        BY <2>2, <4>1, TopTakesText
      <4> QED
        BY <1>t, <4>2 DEF Took
    <3> HIDE DEF f
    <3>2. SamePayload(g, f)
      BY <1>s, <3>1
    <3> HIDE DEF g
    <3> QED
      BY <2>2, <3>0, <3>1, <3>2, TookShape
  <2> QED
    BY <1>4, <2>1, <2>2 DEF TakePropertyKey
<1>5. CASE TakeProperty
  <2> DEFINE f == IF Top.kind = "object" THEN Adopt(Top, ret) ELSE Top
             g == IF Top.kind = "object" THEN [f EXCEPT !.want = "propkey"]
                  ELSE [[f EXCEPT !.left = @ - 1] EXCEPT !.want = "propkey"]
  <2>1. Returning({"propval"}) /\ Updates(0, g, "loop")
    BY <1>5 DEF TakeProperty
  <2>2. f \in Frame /\ Took(f)
    BY <1>f, <1>t DEF Took
  <2> HIDE DEF f
  <2>3. SamePayload(g, f)
    BY <1>s, <2>2
  <2> HIDE DEF g
  <2> QED
    BY <2>1, <2>2, <2>3, TookShape
<1> QED
  BY <1>1, <1>2, <1>3, <1>4, <1>5

(* The source of a regexp and the text of a String object.                 *)
LEMMA WrapperShape ==
  ASSUME IInv, TakeSource \/ TakeInner
  PROVE  Rests \/ ClosesTop
<1>0. phase = "return" /\ stack # <<>>
  BY ReturningFacts DEF TakeSource, TakeInner
<1>f. ASSUME NEW e, Fail(e) PROVE Rests
  BY <1>f, RestsShape
<1>r. ASSUME ret.type = "String", NEW n \in Nat, Closes(n, AdoptText(Top, ret.bytes))
      PROVE  ClosesTop
  <2>1. ret.bytes \in KeyText(ret)
    BY <1>r DEF KeyText
  <2> QED
    BY <1>0, <1>r, <2>1 DEF ClosesTop
<1>1. CASE TakeSource
  <2>1. Widths \subseteq Nat
    BY ReaderAssumption DEF Widths
  <2> QED
    BY <1>1, <1>f, <1>r, <2>1 DEF TakeSource, BadVarint
<1>2. CASE TakeInner
  <2>1. 0 \in Nat
    OBVIOUS
  <2> QED
    BY <1>2, <1>f, <1>r, <2>1 DEF TakeInner
<1> QED
  BY <1>1, <1>2

(* Every step has one of the shapes.                                       *)
LEMMA NextShape == IInv /\ [Next]_vars => Shaped
<1> SUFFICES ASSUME IInv, [Next]_vars PROVE Shaped
  OBVIOUS
<1>1. CASE ReadEnvelope \/ ReadTrailers \/ ReadVersionHeader
  <2>1. /\ Widths \subseteq Nat /\ 1 + TrailerLen \in Nat /\ 0 \in Nat
        /\ \A w \in Widths : 1 + w \in Nat
    BY ReaderAssumption DEF Widths
  <2>2. (\E e : Fail(e)) \/ \E n \in Nat : \E next : Consumes(n, next)
    BY <1>1, <2>1 DEF ReadEnvelope, ReadTrailers, ReadVersionHeader, BadVarint
  <2> QED
    BY <2>2, RestsShape DEF Shaped
<1>2. CASE \/ DepthCapped \/ NodeCapped \/ CallTruncated \/ TagVarintBad
           \/ UnsupportedTag \/ HostObject \/ LengthCapped \/ OddUtf16
  <2>1. \E e : Fail(e)
    BY <1>2 DEF DepthCapped, NodeCapped, CallTruncated, TagVarintBad, UnsupportedTag, HostObject,
           LengthCapped, OddUtf16, BadVarint
  <2> QED
    BY <2>1, RestsShape DEF Shaped
<1>3. CASE ReadPrimitive \/ ReadDouble \/ ReadDate \/ ReadBooleanObject
  BY <1>3, LeafShape DEF Shaped
<1>4. CASE BeginLoop \/ BeginWrapper
  BY <1>4, BeginShape DEF Shaped
<1>5. ASSUME NEW u \in Varints, NEW w \in Widths, ReadsVarint(u, w)
      PROVE  Shaped
  <2>1. CASE \/ \E t \in {"int32", "uint32"} : ReadInt(t, u, w)
             \/ \E t \in {"string", "utf16"} : ReadString(t, u, w)
             \/ ReadBigInt(u, w) \/ ReadBigIntObject(u, w) \/ ReadArrayBuffer(u, w)
    BY <2>1, LeafShape DEF Shaped
  <2>2. CASE ReadReference(u, w)
    BY <2>2, ReferenceShape DEF Shaped
  <2>3. CASE BeginDenseArray(u, w) \/ BeginSparseArray(u, w)
    BY <2>3, BeginShape DEF Shaped
  <2>4. CASE EndElements(u, w)
    BY <2>4, LoopShape DEF Shaped
  <2> QED
    BY <1>5, <2>1, <2>2, <2>3, <2>4 DEF ReadsVarint
<1>6. CASE Continue \/ EndLoop \/ EndTruncated \/ DenseTruncated
  BY <1>6, LoopShape DEF Shaped
<1>7. CASE \E w \in Widths : EndDenseArray(w)
  BY <1>7, LoopShape DEF Shaped
<1>8. CASE TakeElement \/ TakeKey \/ TakeValue \/ TakePropertyKey \/ TakeProperty
  BY <1>8, TakeShape DEF Shaped
<1>9. CASE TakeSource \/ TakeInner
  BY <1>9, WrapperShape DEF Shaped
<1>10. CASE Finish \/ UNCHANGED vars
  BY <1>10, RestsShape DEF Finish, vars, Shaped
<1> QED
  BY <1>1, <1>2, <1>3, <1>4, <1>5, <1>6, <1>7, <1>8, <1>9, <1>10 DEF Next, Returned

-----------------------------------------------------------------------------
(* What the calls in progress hold of the input *)

(* The weights of the frames of a stack are a sequence of numbers.         *)
LEMMA WeightsOfStack ==
  ASSUME NEW st, st \in Seq(Frame)
  PROVE  /\ Weights(st) \in Seq(Int) /\ Len(Weights(st)) = Len(st) /\ Len(st) \in Nat
         /\ \A d \in 1 .. Len(st) : Weights(st)[d] = Weight(st[d]) /\ Weight(st[d]) \in Int
         /\ Total(Weights(st)) \in Int
<1>1. Len(st) \in Nat /\ DOMAIN st = 1 .. Len(st)
  OBVIOUS
<1>2. \A d \in 1 .. Len(st) : Weight(st[d]) \in Int
  <2> SUFFICES ASSUME NEW d \in 1 .. Len(st) PROVE Weight(st[d]) \in Int
    OBVIOUS
  <2>1. st[d] \in Frame
    BY <1>1
  <2>2. st[d].bytes \in Int /\ st[d].slots \in Seq(Value) /\ st[d].shared \in BOOLEAN
    BY <2>1 DEF Frame
  <2> QED
    BY <2>2, WeightIsInt, Zenon
<1>3. Weights(st) = [d \in 1 .. Len(st) |-> Weight(st[d])]
  BY <1>1, Zenon DEF Weights
<1>4. Weights(st) \in Seq(Int) /\ Len(Weights(st)) = Len(st)
  BY <1>1, <1>2, <1>3
<1>5. \A d \in 1 .. Len(st) : Weights(st)[d] = Weight(st[d])
  BY <1>3, Zenon
<1>6. Total(Weights(st)) \in Int
  BY <1>4, TotalIsSum
<1> QED
  BY <1>1, <1>2, <1>4, <1>5, <1>6

(* A frame more.                                                           *)
LEMMA WeightPushed ==
  ASSUME NEW st, NEW f, st \in Seq(Frame), f \in Frame
  PROVE  Total(Weights(Append(st, f))) = Total(Weights(st)) + Weight(f)
<1>1. PICK new : new = Append(st, f)
  OBVIOUS
<1>2. /\ new \in Seq(Frame) /\ Len(new) = Len(st) + 1 /\ new[Len(st) + 1] = f
      /\ \A d \in 1 .. Len(st) : new[d] = st[d]
  BY <1>1
<1>3. Len(st) \in Nat /\ Len(st) + 1 \in 1 .. Len(st) + 1 /\ 1 .. Len(st) \subseteq 1 .. Len(st) + 1
  OBVIOUS
<1>4. Extends(Weights(new), Weights(st)) /\ Weights(new)[Len(new)] = Weight(f)
  <2>1. Len(Weights(new)) = Len(Weights(st)) + 1
    BY <1>2, WeightsOfStack, Zenon
  <2>2. \A d \in 1 .. Len(Weights(st)) : Weights(new)[d] = Weights(st)[d]
    <3>1. \A d \in 1 .. Len(st) : Weights(st)[d] = Weight(st[d])
      BY WeightsOfStack, Zenon
    <3>2. \A d \in 1 .. Len(new) : Weights(new)[d] = Weight(new[d])
      BY <1>2, WeightsOfStack, Zenon
    <3>3. Len(Weights(st)) = Len(st)
      BY WeightsOfStack, Zenon
    <3> QED
      BY <1>2, <1>3, <3>1, <3>2, <3>3, Zenon
  <2>3. Weights(new)[Len(new)] = Weight(f)
    BY <1>2, <1>3, WeightsOfStack, Zenon
  <2> QED
    BY <2>1, <2>2, <2>3, Zenon DEF Extends
<1>5. /\ Weights(st) \in Seq(Int) /\ Weights(new) \in Seq(Int) /\ Len(Weights(new)) = Len(new)
  BY <1>2, WeightsOfStack, Zenon
<1> QED
  BY <1>1, <1>4, <1>5, TotalExtended, Zenon

(* A frame less.                                                           *)
LEMMA WeightPopped ==
  ASSUME NEW st, st \in Seq(Frame), Len(st) \in Nat \ {0}
  PROVE  Total(Weights(st)) = Total(Weights(SubSeq(st, 1, Len(st) - 1))) + Weight(st[Len(st)])
<1>1. PICK new : new = SubSeq(st, 1, Len(st) - 1)
  OBVIOUS
<1>2. /\ new \in Seq(Frame) /\ Len(new) = Len(st) - 1
      /\ \A d \in 1 .. Len(st) - 1 : new[d] = st[d]
  BY <1>1, Popped, Zenon
<1>3. /\ 1 .. Len(st) - 1 \subseteq 1 .. Len(st) /\ Len(st) \in 1 .. Len(st)
      /\ Len(st) = (Len(st) - 1) + 1
  OBVIOUS
<1>4. Extends(Weights(st), Weights(new)) /\ Weights(st)[Len(st)] = Weight(st[Len(st)])
  <2>1. Len(Weights(st)) = Len(Weights(new)) + 1
    BY <1>2, <1>3, WeightsOfStack, Zenon
  <2>2. \A d \in 1 .. Len(Weights(new)) : Weights(st)[d] = Weights(new)[d]
    BY <1>2, <1>3, WeightsOfStack, Zenon
  <2>3. Weights(st)[Len(st)] = Weight(st[Len(st)])
    BY <1>3, WeightsOfStack, Zenon
  <2> QED
    BY <2>1, <2>2, <2>3, Zenon DEF Extends
<1>5. /\ Weights(st) \in Seq(Int) /\ Weights(new) \in Seq(Int) /\ Len(Weights(st)) = Len(st)
  BY <1>2, WeightsOfStack, Zenon
<1> QED
  BY <1>1, <1>4, <1>5, TotalExtended, Zenon

(* Another frame on top.                                                   *)
LEMMA WeightReplaced ==
  ASSUME NEW st, NEW g, st \in Seq(Frame), Len(st) \in Nat \ {0}, g \in Frame
  PROVE  Total(Weights([st EXCEPT ![Len(st)] = g]))
           = Total(Weights(st)) + (Weight(g) - Weight(st[Len(st)]))
<1>1. PICK new : new = [st EXCEPT ![Len(st)] = g]
  OBVIOUS
<1>2. PICK j : j = Len(st)
  OBVIOUS
<1>3. j \in 1 .. Len(st) /\ new = [st EXCEPT ![j] = g]
  BY <1>1, <1>2
<1>4. /\ new \in Seq(Frame) /\ Len(new) = Len(st)
      /\ \A d \in 1 .. Len(st) : new[d] = IF d = j THEN g ELSE st[d]
  BY <1>3, ExceptSeq
<1>5. PICK x : x = Weight(g) - Weight(st[j])
  OBVIOUS
<1>6. Weight(g) \in Int /\ Weight(st[j]) \in Int
  <2>1. new[j] = g
    BY <1>3, <1>4
  <2> QED
    BY <1>3, <1>4, <2>1, WeightsOfStack, Zenon
<1>7. DifferAt(Weights(new), Weights(st), Len(Weights(st)), j, x)
  <2> SUFFICES ASSUME NEW d \in 1 .. Len(st)
               PROVE  Weights(st)[d] \in Int
                      /\ Weights(new)[d] = Weights(st)[d] + (IF d = j THEN x ELSE 0)
    BY WeightsOfStack, Zenon DEF DifferAt
  <2>1. Weights(st)[d] = Weight(st[d]) /\ Weight(st[d]) \in Int /\ Weights(new)[d] = Weight(new[d])
    BY <1>4, WeightsOfStack, Zenon
  <2>2. CASE d = j
    <3>1. new[d] = g /\ st[d] = st[j]
      BY <1>4, <2>2
    <3> QED
      BY <1>5, <1>6, <2>1, <2>2, <3>1
  <2>3. CASE d # j
    <3>1. new[d] = st[d]
      BY <1>4, <2>3
    <3> QED
      BY <2>1, <2>3, <3>1
  <2> QED
    BY <2>2, <2>3
<1>8. /\ Weights(st) \in Seq(Int) /\ Weights(new) \in Seq(Int)
      /\ Len(Weights(new)) = Len(Weights(st)) /\ j \in 1 .. Len(Weights(st))
  BY <1>3, <1>4, WeightsOfStack, Zenon
<1>9. x \in Int
  BY <1>5, <1>6
<1>10. Total(Weights(new)) = Total(Weights(st)) + x
  BY <1>7, <1>8, <1>9, TotalDiffers, Zenon
<1> QED
  BY <1>1, <1>2, <1>5, <1>10

(* What the value being returned may add.                                  *)
Held == IF ret = None THEN 0 ELSE MostText(ret)

ReferencesAreObjects == \A i \in DOMAIN id_map : id_map[i] # None => id_map[i].type = "Other"

(* The facts about a state that the shapes share.                          *)
LEMMA PayloadFacts ==
  ASSUME IInv, PayloadInv
  PROVE  /\ stack \in Seq(Frame) /\ Len(stack) \in Nat /\ pos \in Nat
         /\ Total(Weights(stack)) \in Int /\ Held \in Int /\ Held >= 0
         /\ Total(Weights(stack)) + Held <= Growth * pos
         /\ ReferencesAreObjects
         /\ phase \notin {"return", "done", "error"} => ret = None
         /\ phase = "return" => ret \in Value /\ Held = MostText(ret) /\ ret # None
<1>1. stack \in Seq(Frame) /\ Len(stack) \in Nat /\ pos \in Nat
  BY DEF IInv, TypeOK
<1>2. ret # None => MostText(ret) \in Int /\ MostText(ret) >= 0
  <2>1. ret # None => Clean(ret) \in Int
    BY DEF IInv, TypeOK, Value, Clean
  <2>2. ret # None => MostText(ret) \in Int
    BY <2>1, ReaderAssumption DEF MostText
  <2> QED
    BY <2>1, <2>2 DEF PayloadInv
<1>3. phase \notin {"return", "done", "error"} => ret = None
  BY DEF IInv, TypeOK
<1>4. phase = "return" => ret \in Value /\ ret # None
  BY DEF IInv, TypeOK
<1>5. Held \in Int /\ Held >= 0 /\ Total(Weights(stack)) + Held <= Growth * pos
  BY <1>2 DEF Held, PayloadInv
<1>6. Total(Weights(stack)) \in Int
  BY <1>1, WeightsOfStack, Zenon
<1>7. ReferencesAreObjects
  BY Zenon DEF PayloadInv, ReferencesAreObjects
<1> QED
  BY <1>1, <1>3, <1>4, <1>5, <1>6, <1>7 DEF Held

(* References are to objects, after a step, too.                           *)
LEMMA ObjectsStep ==
  ASSUME IInv, ReferencesAreObjects,
         \/ id_map' = id_map
         \/ id_map' = Append(id_map, None)
         \/ \E v : v.type = "Other" /\ id_map' = Append(id_map, v)
         \/ \E v, i : v.type = "Other" /\ id_map' = [id_map EXCEPT ![i] = v]
  PROVE  ReferencesAreObjects'
<1>0. id_map \in Seq(Value \cup {None})
  BY DEF IInv, TypeOK
<1>1. ASSUME NEW v, id_map' = Append(id_map, v), v # None => v.type = "Other",
             NEW i \in DOMAIN id_map', id_map'[i] # None
      PROVE  id_map'[i].type = "Other"
  <2>1. \/ i \in DOMAIN id_map /\ id_map'[i] = id_map[i]
        \/ id_map'[i] = v
    BY <1>0, <1>1
  <2> QED
    BY <1>1, <2>1 DEF ReferencesAreObjects
<1>2. ASSUME NEW v, NEW j, id_map' = [id_map EXCEPT ![j] = v], v.type = "Other",
             NEW i \in DOMAIN id_map', id_map'[i] # None
      PROVE  id_map'[i].type = "Other"
  <2>1. i \in DOMAIN id_map /\ (id_map'[i] = id_map[i] \/ id_map'[i] = v)
    BY <1>0, <1>2
  <2> QED
    BY <1>2, <2>1 DEF ReferencesAreObjects
<1>3. CASE id_map' = id_map
  BY <1>3 DEF ReferencesAreObjects
<1> QED
  BY <1>1, <1>2, <1>3 DEF ReferencesAreObjects

(* What is to be shown of the state after a step.                          *)
LEMMA PayloadBack ==
  ASSUME ReferencesAreObjects',
         ret' # None => Clean(ret') \in 0 .. MostText(ret') /\ (ret'.shared => ret'.type = "Other"),
         \A d \in DOMAIN stack' : Carries(stack'[d]),
         Total(Weights(stack')) + (IF ret' = None THEN 0 ELSE MostText(ret')) <= Growth * pos'
  PROVE  PayloadInv'
BY Zenon DEF PayloadInv, ReferencesAreObjects, Carries, Weights, Weight, Own, Clean, MostText, Total, AllBytes, CleanBytes

(* A frame with the value it took holds no more than both did.             *)
LEMMA TookBytes ==
  ASSUME IInv, PayloadInv, stack # <<>>, phase \in {"loop", "return"}, NEW f, Took(f)
  PROVE  f \in Frame /\ Carries(f) /\ Weight(f) <= Weight(Top) + Held
<1>1. /\ Top \in Frame /\ Top = stack[Len(stack)] /\ Len(stack) \in DOMAIN stack
  BY TopFacts DEF Top
<1>2. Carries(Top) /\ Weight(Top) \in Int
  <2>1. Carries(Top)
    BY <1>1, Zenon DEF PayloadInv
  <2>2. Top.bytes \in Int /\ Top.slots \in Seq(Value) /\ Top.shared \in BOOLEAN
    BY <1>1 DEF Frame
  <2> QED
    BY <2>1, <2>2, WeightIsInt, Zenon
<1>3. Held \in Int /\ Held >= 0
  BY PayloadFacts, Zenon
<1>4. CASE f = Top
  BY <1>1, <1>2, <1>3, <1>4
<1>5. CASE f # Top
  <2>1. phase = "return"
    BY <1>5 DEF Took
  <2>2. ret \in Value /\ ret # None /\ Held = MostText(ret)
    BY <2>1, PayloadFacts, Zenon
  <2>3. (ret.shared => ret.type = "Other") /\ Clean(ret) \in 0 .. MostText(ret)
    BY <2>2, Zenon DEF PayloadInv
  <2>c. Clean(ret) \in Nat /\ Clean(ret) <= Held
    BY <1>3, <2>2, <2>3
  <2>r. Returning({Top.want})
    BY <1>1, <2>1, TopFacts DEF Returning
  <2>4. CASE f \in {Adopt(Top, ret), Store(Top, ret)}
    <3>1. f \in Frame
      BY <2>4, <2>r, TopTakes, Zenon
    <3>2. TakesBytes(f, Top, Clean(ret))
      BY <1>1, <1>2, <2>2, <2>4, <2>c, AdoptsBytes, StoresBytes
    <3>3. Carries(f) /\ Weight(f) <= Weight(Top) + Clean(ret)
      BY <3>2, Zenon DEF TakesBytes
    <3>4. Weight(f) \in Int
      <4>1. f.bytes \in Int /\ f.slots \in Seq(Value) /\ f.shared \in BOOLEAN
        BY <3>1 DEF Frame
      <4> QED
        BY <4>1, WeightIsInt, Zenon
    <3> QED
      BY <1>2, <1>3, <2>c, <3>1, <3>3, <3>4
  <2>5. ASSUME NEW m \in KeyText(ret), f = AdoptText(Top, m)
        PROVE  f \in Frame /\ Carries(f) /\ Weight(f) <= Weight(Top) + Held
    <3>1. m \in Nat /\ m <= Held
      <4>1. m \in 0 .. MostText(ret)
        BY <2>2, <2>3, KeyTextFits
      <4> QED
        BY <1>3, <2>2, <4>1
    <3>2. f \in Frame
      BY <2>5, <2>r, <3>1, TopTakesText
    <3>3. Carries(f) /\ Weight(f) <= Weight(Top) + m
      BY <1>1, <1>2, <2>5, <3>1, AdoptsText DEF TakesBytes
    <3>4. Weight(f) \in Int
      <4>1. f.bytes \in Int /\ f.slots \in Seq(Value) /\ f.shared \in BOOLEAN
        BY <3>2 DEF Frame
      <4> QED
        BY <4>1, WeightIsInt, Zenon
    <3> QED
      BY <1>2, <1>3, <3>1, <3>2, <3>3, <3>4
  <2> QED
    BY <1>5, <2>4, <2>5 DEF Took
<1> QED
  BY <1>4, <1>5

(* Each step keeps the account.                                            *)
LEMMA PayloadStep ==
  ASSUME IInv, IInv', PayloadInv, Shaped
  PROVE  PayloadInv'
<1> DEFINE total == Total(Weights(stack))
<1>0. /\ stack \in Seq(Frame) /\ Len(stack) \in Nat /\ pos \in Nat
      /\ total \in Int /\ Held \in Int /\ Held >= 0 /\ total + Held <= Growth * pos
      /\ ReferencesAreObjects
      /\ (phase \notin {"return", "done", "error"} => ret = None)
      /\ (phase = "return" => ret \in Value /\ Held = MostText(ret) /\ ret # None)
  BY PayloadFacts, Zenon
<1>n. None \notin Value
  BY ReaderAssumption
<1>c. \A d \in DOMAIN stack : Carries(stack[d])
  BY Zenon DEF PayloadInv
<1>r. ret # None => Clean(ret) \in 0 .. MostText(ret) /\ (ret.shared => ret.type = "Other")
  BY Zenon DEF PayloadInv
<1>t. \A d \in DOMAIN stack : Weight(stack[d]) \in Int /\ Weight(stack[d]) >= 0
  <2> SUFFICES ASSUME NEW d \in DOMAIN stack PROVE Weight(stack[d]) \in Int /\ Weight(stack[d]) >= 0
    OBVIOUS
  <2>1. stack[d] \in Frame
    BY <1>0
  <2>2. stack[d].bytes \in Int /\ stack[d].slots \in Seq(Value) /\ stack[d].shared \in BOOLEAN
    BY <2>1 DEF Frame
  <2> QED
    BY <1>c, <2>2, WeightIsInt, Zenon
<1>p. stack # <<>> => /\ Top \in Frame /\ Carries(Top) /\ Top = stack[Len(stack)]
                      /\ Len(stack) \in Nat \ {0} /\ Weight(Top) \in Int
  <2>1. stack # <<>> => Len(stack) \in DOMAIN stack /\ Len(stack) \in Nat \ {0}
    BY <1>0
  <2> QED
    BY <1>c, <1>t, <2>1, TopFacts, Zenon DEF Top
<1> HIDE DEF total
<1>g. ASSUME NEW n \in Nat, pos' = pos + n
      PROVE  \E had, has, more \in Nat : /\ Growth * pos = had /\ Growth * pos' = has
                                        /\ Growth * n = more /\ has = had + more
  <2>1. /\ Growth * (pos + n) = Growth * pos + Growth * n
        /\ Growth * pos \in Nat /\ Growth * n \in Nat
    BY <1>0, GrowsOn
  <2>2. Growth * pos' = Growth * (pos + n)
    BY <1>g
  <2>3. PICK had, more \in Nat : Growth * pos = had /\ Growth * n = more
    BY <2>1
  <2>4. had + more \in Nat /\ Growth * pos' = had + more
    BY <2>1, <2>2, <2>3
  <2> QED
    BY <2>3, <2>4, Zenon
<1>1. CASE Rests
  <2>1. PICK n \in Nat : pos' = pos + n /\ UNCHANGED <<budget, id_map, stack, ret>>
    BY <1>1 DEF Rests
  <2>g. PICK had, has, more \in Nat : /\ Growth * pos = had /\ Growth * pos' = has
                                      /\ Growth * n = more /\ has = had + more
    BY <1>g, <2>1
  <2>2. total + Held <= Growth * pos'
    BY <1>0, <2>g
  <2>3. Total(Weights(stack')) + (IF ret' = None THEN 0 ELSE MostText(ret')) <= Growth * pos'
    BY <2>1, <2>2, Zenon DEF Held, total
  <2>4. ReferencesAreObjects'
    BY <1>0, <2>1, ObjectsStep
  <2>5. ret' # None => Clean(ret') \in 0 .. MostText(ret') /\ (ret'.shared => ret'.type = "Other")
    BY <1>r, <2>1
  <2>6. \A d \in DOMAIN stack' : Carries(stack'[d])
    BY <1>c, <2>1
  <2> QED
    BY <2>3, <2>4, <2>5, <2>6, PayloadBack
<1>2. ASSUME NEW n \in Nat, NEW c, NEW v \in Value, phase = "call", Returns(n, c, v),
             Clean(v) \in 0 .. MostText(v), MostText(v) \in Int, MostText(v) <= Growth * n,
             v.shared => v.type = "Other", ReferencesAreObjects'
      PROVE  PayloadInv'
  <2>1. pos' = pos + n /\ ret' = v /\ stack' = stack
    BY <1>2 DEF Returns
  <2>2. ret = None /\ Held = 0
    BY <1>0, <1>2 DEF Held
  <2>g. PICK had, has, more \in Nat : /\ Growth * pos = had /\ Growth * pos' = has
                                      /\ Growth * n = more /\ has = had + more
    BY <1>g, <2>1
  <2>3. total + MostText(v) <= Growth * pos'
    BY <1>0, <1>2, <2>2, <2>g
  <2>4. Total(Weights(stack')) + (IF ret' = None THEN 0 ELSE MostText(ret')) <= Growth * pos'
    BY <1>n, <2>1, <2>3, Zenon DEF total
  <2>5. Clean(ret') \in 0 .. MostText(ret') /\ (ret'.shared => ret'.type = "Other")
    BY <1>2, <2>1
  <2>6. \A d \in DOMAIN stack' : Carries(stack'[d])
    BY <1>c, <2>1
  <2> QED
    BY <1>2, <2>4, <2>5, <2>6, PayloadBack
<1>3. CASE GivesLeaf
  <2>1. PICK n \in Nat, b \in Nat, i \in Int, t \in {"String", "Int", "Double", "Other"} :
          /\ phase = "call" /\ Len(stack) <= MaxDepth /\ budget >= 1
          /\ b <= MostText(Leaf(t, i, b)) /\ MostText(Leaf(t, i, b)) <= Growth * n
          /\ Returns(n, 1, Leaf(t, i, b))
          /\ \/ id_map' = id_map
             \/ t = "Other" /\ id_map' = Append(id_map, Leaf(t, i, b))
    BY <1>3, Zenon DEF GivesLeaf
  <2>2. PICK v : v = Leaf(t, i, b)
    OBVIOUS
  <2>3. v \in Value /\ ~v.shared /\ v.bytes = b /\ v.type = t
    BY <2>2, LeafIsValue DEF Leaf
  <2>4. Clean(v) = b
    BY <2>3, Zenon DEF Clean
  <2>m. MostText(v) \in Int
    BY <2>4, ReaderAssumption DEF MostText
  <2>5. Clean(v) \in 0 .. MostText(v) /\ MostText(v) <= Growth * n
    BY <2>1, <2>2, <2>4, <2>m
  <2>6. ReferencesAreObjects'
    BY <1>0, <2>1, <2>2, <2>3, ObjectsStep
  <2> QED
    BY <1>2, <2>1, <2>2, <2>3, <2>m, <2>5, <2>6, Zenon
<1>4. CASE GivesCopy
  <2>1. PICK n \in Nat, i \in DOMAIN id_map :
          /\ phase = "call" /\ id_map[i] # None
          /\ Returns(n, ReferenceCost(id_map[i]), [id_map[i] EXCEPT !.shared = TRUE])
          /\ id_map' = id_map
    BY <1>4, Zenon DEF GivesCopy
  <2>2. PICK v : v = [id_map[i] EXCEPT !.shared = TRUE]
    OBVIOUS
  <2>3. id_map[i] \in Value /\ id_map[i].type = "Other"
    BY <1>0, <2>1 DEF ReferencesAreObjects, IInv, TypeOK
  <2>4. v \in Value /\ v.shared = TRUE /\ v.type = "Other"
    BY <2>2, <2>3 DEF Value
  <2>5. Clean(v) = 0 /\ MostText(v) = 0
    BY <2>4 DEF Clean, MostText
  <2>6. 0 \in 0 .. 0 /\ 0 \in Int /\ 0 <= Growth * n
    BY Grows
  <2>7. ReferencesAreObjects'
    BY <1>0, <2>1, ObjectsStep
  <2> QED
    BY <1>2, <2>1, <2>2, <2>4, <2>5, <2>6, <2>7, Zenon
<1>5. CASE OpensFrame
  <2>0. PICK n \in Nat, left \in Nat, length \in 0 .. MaxNodes : \E kind, want, next :
          /\ phase = "call"
          /\ Opens(n, 1 + length, NewFrame(kind, want, left, length), next)
    BY <1>5, Zenon DEF OpensFrame
  <2>1. PICK kind, want, next :
          /\ phase = "call"
          /\ Opens(n, 1 + length, NewFrame(kind, want, left, length), next)
    BY <2>0
  <2>2. PICK f : f = NewFrame(kind, want, left, length)
    OBVIOUS
  <2>3. pos' = pos + n /\ ret' = ret /\ stack' = Append(stack, f) /\ id_map' = Append(id_map, None)
    BY <2>1, <2>2 DEF Opens
  <2>4. ret = None /\ Held = 0
    BY <1>0, <2>1 DEF Held
  <2>5. f \in Frame /\ stack' \in Seq(Frame) /\ Len(stack') = Len(stack) + 1
    <3>1. stack' \in Seq(Frame)
      BY DEF IInv, TypeOK
    <3>2. Len(stack') = Len(stack) + 1 /\ stack'[Len(stack) + 1] = f
      BY <1>0, <2>3
    <3>3. Len(stack) + 1 \in 1 .. Len(stack')
      BY <1>0, <3>2
    <3> QED
      BY <3>1, <3>2, <3>3
  <2>6. f.bytes = 0 /\ f.shared = FALSE /\ f.slots \in Seq(Value)
        /\ \A i \in DOMAIN f.slots : f.slots[i] = Primitive
    <3>1. f.bytes = 0 /\ f.shared = FALSE /\ f.slots = [i \in 1 .. length |-> Primitive]
      BY <2>2 DEF NewFrame
    <3>2. f.slots \in Seq(Value)
      BY <2>5 DEF Frame
    <3> QED
      BY <3>1, <3>2
  <2>7. Carries(f) /\ Weight(f) = 0
    BY <2>6, NewFrameHolds
  <2>8. Total(Weights(stack')) = total + 0
    BY <1>0, <2>3, <2>5, <2>7, WeightPushed, Zenon DEF total
  <2>g. PICK had, has, more \in Nat : /\ Growth * pos = had /\ Growth * pos' = has
                                      /\ Growth * n = more /\ has = had + more
    BY <1>g, <2>3
  <2>9. total + 0 + 0 <= Growth * pos'
    BY <1>0, <2>4, <2>g
  <2>10. Total(Weights(stack')) + (IF ret' = None THEN 0 ELSE MostText(ret')) <= Growth * pos'
    BY <2>3, <2>4, <2>8, <2>9, Zenon
  <2>11. \A d \in DOMAIN stack' : Carries(stack'[d])
    <3>1. ASSUME NEW d \in DOMAIN stack' 
          PROVE  \/ d \in DOMAIN stack /\ stack'[d] = stack[d]
                 \/ stack'[d] = f
      BY <1>0, <2>3
    <3> QED
      BY <1>c, <2>7, <3>1
  <2>12. ReferencesAreObjects'
    BY <1>0, <2>3, ObjectsStep
  <2>13. ret' # None => Clean(ret') \in 0 .. MostText(ret') /\ (ret'.shared => ret'.type = "Other")
    BY <2>3, <2>4
  <2> QED
    BY <2>10, <2>11, <2>12, <2>13, PayloadBack
<1>6. CASE UpdatesTop
  <2>0. PICK n \in Nat : \E g, f, next :
          /\ stack # <<>> /\ phase \in {"loop", "return"}
          /\ Took(f) /\ SamePayload(g, f) /\ Updates(n, g, next)
    BY <1>6, Zenon DEF UpdatesTop
  <2>1. PICK g, f, next :
          /\ stack # <<>> /\ phase \in {"loop", "return"}
          /\ Took(f) /\ SamePayload(g, f) /\ Updates(n, g, next)
    BY <2>0
  <2>2. Carries(f) /\ Weight(f) <= Weight(Top) + Held
    BY <2>1, TookBytes
  <2>3. Carries(g) /\ Weight(g) = Weight(f)
    BY <2>1, <2>2, Zenon DEF SamePayload, Carries, Weight, Own
  <2>4. pos' = pos + n /\ ret' = None /\ id_map' = id_map
        /\ stack' = [stack EXCEPT ![Len(stack)] = g]
    BY <2>1 DEF Updates
  <2>5. Len(stack) \in Nat \ {0} /\ Top = stack[Len(stack)] /\ Weight(Top) \in Int
    BY <1>p, <2>1
  <2>6. /\ stack'[Len(stack)] = g /\ stack' \in Seq(Frame) /\ Len(stack) \in DOMAIN stack'
        /\ DOMAIN stack' = DOMAIN stack
        /\ \A d \in DOMAIN stack' : d # Len(stack) => stack'[d] = stack[d]
    BY <1>0, <2>4, <2>5 DEF IInv, TypeOK
  <2>7. g \in Frame
    BY <2>6
  <2>8. Weight(g) \in Int
    BY <2>6, WeightsOfStack
  <2>9. Total(Weights(stack')) = total + (Weight(g) - Weight(Top))
    BY <1>0, <2>4, <2>5, <2>7, WeightReplaced, Zenon DEF total
  <2>g. PICK had, has, more \in Nat : /\ Growth * pos = had /\ Growth * pos' = has
                                      /\ Growth * n = more /\ has = had + more
    BY <1>g, <2>4
  <2>10. Total(Weights(stack')) <= Growth * pos'
    BY <1>0, <2>2, <2>3, <2>5, <2>8, <2>9, <2>g
  <2>11. Total(Weights(stack')) \in Int
    BY <2>6, WeightsOfStack, Zenon
  <2>12. Total(Weights(stack')) + (IF ret' = None THEN 0 ELSE MostText(ret')) <= Growth * pos'
    BY <2>4, <2>10, <2>11
  <2>13. \A d \in DOMAIN stack' : Carries(stack'[d])
    BY <1>c, <2>3, <2>6
  <2>14. ReferencesAreObjects'
    BY <1>0, <2>4, ObjectsStep
  <2> QED
    BY <2>4, <2>12, <2>13, <2>14, PayloadBack
<1>7. CASE ClosesTop
  <2>0. PICK n \in Nat : \E f :
          /\ stack # <<>> /\ phase \in {"loop", "return"}
          /\ \/ f = Top
             \/ phase = "return" /\ \E m \in KeyText(ret) : f = AdoptText(Top, m)
          /\ Closes(n, f)
    BY <1>7, Zenon DEF ClosesTop
  <2>1. PICK f :
          /\ stack # <<>> /\ phase \in {"loop", "return"}
          /\ \/ f = Top
             \/ phase = "return" /\ \E m \in KeyText(ret) : f = AdoptText(Top, m)
          /\ Closes(n, f)
    BY <2>0
  <2>2. f \in Frame /\ Carries(f) /\ Weight(f) <= Weight(Top) + Held
    BY <2>1, TookBytes, Zenon DEF Took
  <2>3. PICK v : v = ValueOf(f)
    OBVIOUS
  <2>4. Clean(v) >= 0 /\ Clean(v) <= Weight(f) /\ v.type = "Other"
    BY <2>2, <2>3, ValueBytes
  <2>5. pos' = pos + n /\ ret' = v /\ id_map' = [id_map EXCEPT ![f.id] = v]
        /\ stack' = SubSeq(stack, 1, Len(stack) - 1)
    BY <2>1, <2>3 DEF Closes
  <2>6. Len(stack) \in Nat \ {0} /\ Top = stack[Len(stack)] /\ Weight(Top) \in Int
    BY <1>p, <2>1
  <2>7. v \in Value /\ v # None
    <3>1. phase' = "return"
      BY <2>1 DEF Closes
    <3> QED
      BY <2>5, <3>1 DEF IInv, TypeOK
  <2>8. Clean(v) \in Int /\ Weight(f) \in Int
    <3>1. v.bytes \in Int
      BY <2>7 DEF Value
    <3>2. f.bytes \in Int /\ f.slots \in Seq(Value) /\ f.shared \in BOOLEAN
      BY <2>2 DEF Frame
    <3> QED
      BY <3>1, <3>2, WeightIsInt DEF Clean
  <2>9. total = Total(Weights(stack')) + Weight(Top)
    BY <1>0, <2>5, <2>6, WeightPopped, Zenon DEF total
  <2>10. stack' \in Seq(Frame) /\ \A d \in DOMAIN stack' : d \in DOMAIN stack /\ stack'[d] = stack[d]
    <3>1. /\ stack' \in Seq(Frame) /\ Len(stack') = Len(stack) - 1
          /\ \A d \in 1 .. Len(stack) - 1 : stack'[d] = stack[d]
      BY <1>0, <2>5, <2>6, Popped, Zenon
    <3> QED
      BY <2>6, <3>1
  <2>11. Total(Weights(stack')) \in Int
    BY <2>10, WeightsOfStack, Zenon
  <2>g. PICK had, has, more \in Nat : /\ Growth * pos = had /\ Growth * pos' = has
                                      /\ Growth * n = more /\ has = had + more
    BY <1>g, <2>5
  <2>m. MostText(v) = Clean(v)
    BY <2>4 DEF MostText
  <2>12. Total(Weights(stack')) + MostText(v) <= Growth * pos'
    BY <1>0, <2>2, <2>4, <2>6, <2>8, <2>9, <2>11, <2>g, <2>m
  <2>13. Total(Weights(stack')) + (IF ret' = None THEN 0 ELSE MostText(ret')) <= Growth * pos'
    BY <2>5, <2>7, <2>12
  <2>14. \A d \in DOMAIN stack' : Carries(stack'[d])
    BY <1>c, <2>10
  <2>15. ReferencesAreObjects'
    BY <1>0, <2>4, <2>5, ObjectsStep
  <2>16. Clean(ret') \in 0 .. MostText(ret') /\ ret'.type = "Other"
    BY <2>4, <2>5, <2>8, <2>m
  <2> QED
    BY <2>13, <2>14, <2>15, <2>16, PayloadBack
<1> QED
  BY <1>1, <1>3, <1>4, <1>5, <1>6, <1>7 DEF Shaped

(* A reader that starts holds nothing.                                     *)
LEMMA PayloadInit == Init => PayloadInv
<1> SUFFICES ASSUME Init PROVE PayloadInv
  OBVIOUS
<1>1. /\ stack = <<>> /\ id_map = <<>> /\ ret = None /\ pos = 0
  BY DEF Init
<1>2. stack \in Seq(Frame) /\ Len(stack) = 0 /\ DOMAIN stack = {} /\ DOMAIN id_map = {}
  BY <1>1
<1>3. Total(Weights(stack)) = 0
  BY <1>2, WeightsOfStack, TotalEmpty
<1>4. Growth * pos = 0
  BY <1>1, ReaderAssumption
<1> QED
  BY <1>1, <1>2, <1>3, <1>4 DEF PayloadInv

(* Without references in it, a value that is returned carries no more than *)
(* Growth bytes for each byte that was read, for all limits and inputs:    *)
(* what the calls in progress hold and what the value carries was read in  *)
(* different places.                                                       *)
THEOREM PayloadReadCorrect == Spec => []PayloadRead
<1>1. Init => IInv /\ PayloadInv
  BY InitIInv, PayloadInit
<1>2. IInv /\ PayloadInv /\ [Next]_vars => IInv' /\ PayloadInv'
  BY NextIInv, NextShape, PayloadStep
<1>3. IInv /\ PayloadInv => PayloadRead
  <2> SUFFICES ASSUME IInv, PayloadInv, ret # None, ~ret.shared
               PROVE  ret.bytes <= Growth * pos
    BY DEF PayloadRead
  <2>1. stack \in Seq(Frame) /\ pos \in Nat /\ Total(Weights(stack)) + Held <= Growth * pos
        /\ Held \in Int
    BY PayloadFacts, Zenon
  <2>2. Total(Weights(stack)) \in Nat
    <3>1. /\ Weights(stack) \in Seq(Int) /\ Len(Weights(stack)) = Len(stack)
          /\ \A d \in 1 .. Len(stack) : Weights(stack)[d] = Weight(stack[d])
      BY <2>1, WeightsOfStack, Zenon
    <3>2. \A d \in 1 .. Len(stack) : Weight(stack[d]) >= 0
      <4> SUFFICES ASSUME NEW d \in 1 .. Len(stack) PROVE Weight(stack[d]) >= 0
        OBVIOUS
      <4>1. d \in DOMAIN stack /\ stack[d] \in Frame
        BY <2>1
      <4>2. stack[d].bytes \in Int /\ stack[d].slots \in Seq(Value) /\ stack[d].shared \in BOOLEAN
        BY <4>1 DEF Frame
      <4>3. Carries(stack[d])
        BY <4>1, Zenon DEF PayloadInv
      <4> QED
        BY <4>2, <4>3, WeightIsInt, Zenon
    <3>3. \A d \in 1 .. Len(Weights(stack)) : Weights(stack)[d] >= 0
      BY <3>1, <3>2
    <3> QED
      BY <3>1, <3>3, TotalNatural, Zenon
  <2>3. ret.bytes \in Int /\ Clean(ret) = ret.bytes /\ Held = MostText(ret)
    BY DEF Held, Clean, IInv, TypeOK, Value
  <2>4. Clean(ret) \in 0 .. MostText(ret)
    BY DEF PayloadInv
  <2>5. Growth * pos \in Nat
    BY <2>1, Grows
  <2> QED
    BY <2>1, <2>2, <2>3, <2>4, <2>5
<1> QED
  BY <1>1, <1>2, <1>3, PTL DEF Spec

-----------------------------------------------------------------------------
(* The clones that id_map keeps *)

NodesIn(v) == IF v = None THEN 0 ELSE v.nodes
Filled(m) == [i \in DOMAIN m |-> IF m[i] = None THEN 0 ELSE m[i].nodes]

(* The filled ids as a sequence of numbers.                                *)
LEMMA FilledIds ==
  ASSUME NEW m, m \in Seq(Value \cup {None})
  PROVE  /\ Filled(m) \in Seq(Int) /\ Len(Filled(m)) = Len(m) /\ Len(m) \in Nat
         /\ \A i \in 1 .. Len(m) : Filled(m)[i] = NodesIn(m[i]) /\ NodesIn(m[i]) \in Nat
         /\ Total(Filled(m)) \in Int
<1>1. Len(m) \in Nat /\ DOMAIN m = 1 .. Len(m)
  OBVIOUS
<1>2. \A i \in 1 .. Len(m) : NodesIn(m[i]) \in Nat
  <2> SUFFICES ASSUME NEW i \in 1 .. Len(m) PROVE NodesIn(m[i]) \in Nat
    OBVIOUS
  <2>1. m[i] \in Value \cup {None}
    BY <1>1
  <2> QED
    BY <2>1 DEF NodesIn, Value
<1>3. Filled(m) = [i \in 1 .. Len(m) |-> NodesIn(m[i])]
  BY <1>1, Zenon DEF Filled, NodesIn
<1>4. Filled(m) \in Seq(Int) /\ Len(Filled(m)) = Len(m)
  BY <1>1, <1>2, <1>3
<1>5. \A i \in 1 .. Len(m) : Filled(m)[i] = NodesIn(m[i])
  BY <1>3, Zenon
<1>6. Total(Filled(m)) \in Int
  BY <1>4, TotalIsSum
<1> QED
  BY <1>1, <1>2, <1>4, <1>5, <1>6

(* An id more.                                                             *)
LEMMA FilledMore ==
  ASSUME NEW m, NEW v, m \in Seq(Value \cup {None}), v \in Value \cup {None}
  PROVE  Total(Filled(Append(m, v))) = Total(Filled(m)) + NodesIn(v)
<1>1. PICK new : new = Append(m, v)
  OBVIOUS
<1>2. /\ new \in Seq(Value \cup {None}) /\ Len(new) = Len(m) + 1 /\ new[Len(m) + 1] = v
      /\ \A i \in 1 .. Len(m) : new[i] = m[i]
  BY <1>1
<1>3. Len(m) \in Nat /\ Len(m) + 1 \in 1 .. Len(m) + 1 /\ 1 .. Len(m) \subseteq 1 .. Len(m) + 1
  OBVIOUS
<1>4. Extends(Filled(new), Filled(m)) /\ Filled(new)[Len(new)] = NodesIn(v)
  <2>1. Len(Filled(new)) = Len(Filled(m)) + 1
    BY <1>2, FilledIds, Zenon
  <2>2. \A i \in 1 .. Len(Filled(m)) : Filled(new)[i] = Filled(m)[i]
    <3>1. \A i \in 1 .. Len(m) : Filled(m)[i] = NodesIn(m[i])
      BY FilledIds, Zenon
    <3>2. \A i \in 1 .. Len(new) : Filled(new)[i] = NodesIn(new[i])
      BY <1>2, FilledIds, Zenon
    <3>3. Len(Filled(m)) = Len(m)
      BY FilledIds, Zenon
    <3> QED
      BY <1>2, <1>3, <3>1, <3>2, <3>3, Zenon
  <2>3. Filled(new)[Len(new)] = NodesIn(v)
    BY <1>2, <1>3, FilledIds, Zenon
  <2> QED
    BY <2>1, <2>2, <2>3, Zenon DEF Extends
<1>5. /\ Filled(m) \in Seq(Int) /\ Filled(new) \in Seq(Int) /\ Len(Filled(new)) = Len(new)
  BY <1>2, FilledIds, Zenon
<1> QED
  BY <1>1, <1>4, <1>5, TotalExtended, Zenon

(* An id that is filled.                                                   *)
LEMMA FilledNow ==
  ASSUME NEW m, NEW v, NEW j, m \in Seq(Value \cup {None}), v \in Value,
         j \in 1 .. Len(m), m[j] = None
  PROVE  Total(Filled([m EXCEPT ![j] = v])) = Total(Filled(m)) + NodesIn(v)
<1>1. PICK new : new = [m EXCEPT ![j] = v]
  OBVIOUS
<1>2. PICK S : S = Value \cup {None}
  OBVIOUS
<1>4. /\ new \in Seq(S) /\ Len(new) = Len(m)
      /\ \A i \in 1 .. Len(m) : new[i] = IF i = j THEN v ELSE m[i]
  <2>1. v \in S /\ m \in Seq(S)
    BY <1>2
  <2> QED
    BY <1>1, <2>1, ExceptSeq
<1>5. NodesIn(v) \in Int /\ NodesIn(m[j]) = 0
  <2>1. NodesIn(new[j]) \in Nat /\ new[j] = v
    BY <1>2, <1>4, FilledIds
  <2> QED
    BY <2>1 DEF NodesIn
<1>7. DifferAt(Filled(new), Filled(m), Len(Filled(m)), j, NodesIn(v))
  <2> SUFFICES ASSUME NEW i \in 1 .. Len(m)
               PROVE  Filled(m)[i] \in Int
                      /\ Filled(new)[i] = Filled(m)[i] + (IF i = j THEN NodesIn(v) ELSE 0)
    BY FilledIds, Zenon DEF DifferAt
  <2>1. Filled(m)[i] = NodesIn(m[i]) /\ NodesIn(m[i]) \in Nat /\ Filled(new)[i] = NodesIn(new[i])
    BY <1>2, <1>4, FilledIds, Zenon
  <2>2. CASE i = j
    BY <1>4, <1>5, <2>1, <2>2
  <2>3. CASE i # j
    BY <1>4, <2>1, <2>3
  <2> QED
    BY <2>2, <2>3
<1>8. /\ Filled(m) \in Seq(Int) /\ Filled(new) \in Seq(Int)
      /\ Len(Filled(new)) = Len(Filled(m)) /\ j \in 1 .. Len(Filled(m))
  BY <1>2, <1>4, FilledIds, Zenon
<1> QED
  BY <1>1, <1>5, <1>7, <1>8, TotalDiffers, Zenon

(* What the calls at a level of nesting have spent: those that returned,   *)
(* and none of the one in progress.                                        *)
Room(d) == MaxNodes - (IF d <= Len(stack) THEN stack[d].base ELSE budget)

(* The clones of the objects of each level, which are parts of different   *)
(* calls of that level, have no more nodes than those calls spent.         *)
Levels(at) == /\ at \in [1 .. MaxDepth + 1 -> Nat]
              /\ FilledNodes <= Total(at)
              /\ \A d \in 1 .. MaxDepth + 1 : at[d] <= Room(d)

ClonesInv == /\ \A d \in DOMAIN stack : stack[d].base >= budget
             /\ \E at : Levels(at)

(* What a step adds to the clones of a level, if anything, its calls spent. *)
Spends(j, x) ==
  /\ FilledNodes' = FilledNodes + x
  /\ \A d \in 1 .. MaxDepth + 1 : Room(d)' >= Room(d) + (IF d = j THEN x ELSE 0)

(* Rooms and nodes are numbers.                                            *)
LEMMA RoomIsInt ==
  ASSUME IInv
  PROVE  /\ FilledNodes \in Int /\ FilledNodes = Total(Filled(id_map))
         /\ \A d \in 1 .. MaxDepth + 1 : Room(d) \in Int
         /\ MaxNodes \in Nat /\ MaxDepth \in Nat /\ budget \in 0 .. MaxNodes
         /\ id_map \in Seq(Value \cup {None}) /\ stack \in Seq(Frame) /\ Len(stack) \in Nat
<1>1. /\ MaxNodes \in Nat /\ MaxDepth \in Nat /\ budget \in 0 .. MaxNodes
      /\ id_map \in Seq(Value \cup {None}) /\ stack \in Seq(Frame) /\ Len(stack) \in Nat
  BY ReaderAssumption DEF IInv, TypeOK
<1>2. FilledNodes = Total(Filled(id_map))
  BY Zenon DEF FilledNodes, Filled
<1>3. Total(Filled(id_map)) \in Int
  BY <1>1, FilledIds, Zenon
<1>4. ASSUME NEW d \in 1 .. MaxDepth + 1 PROVE Room(d) \in Int
  <2>1. d <= Len(stack) => d \in DOMAIN stack /\ stack[d] \in Frame
    BY <1>1
  <2>2. d <= Len(stack) => stack[d].base \in Int
    BY <2>1 DEF Frame
  <2> QED
    BY <1>1, <2>2 DEF Room
<1> QED
  BY <1>1, <1>2, <1>3, <1>4

(* Such a step keeps the account of the levels.                            *)
LEMMA SpendsKeepsLevels ==
  ASSUME IInv, IInv', \E at : Levels(at), NEW j \in 1 .. MaxDepth + 1, NEW x \in Nat, Spends(j, x)
  PROVE  \E at : Levels(at)'
<1>1. PICK at : Levels(at)
  OBVIOUS
<1>0. /\ MaxDepth \in Nat /\ FilledNodes \in Int
      /\ \A d \in 1 .. MaxDepth + 1 : Room(d) \in Int /\ Room(d)' \in Int
  <2>1. /\ MaxNodes \in Nat /\ budget' \in 0 .. MaxNodes /\ stack' \in Seq(Frame) /\ Len(stack') \in Nat
    BY ReaderAssumption DEF IInv, TypeOK
  <2>2. ASSUME NEW d \in 1 .. MaxDepth + 1 PROVE Room(d)' \in Int
    <3>1. d <= Len(stack') => d \in DOMAIN stack' /\ stack'[d] \in Frame
      BY <2>1
    <3>2. d <= Len(stack') => stack'[d].base \in Int
      BY <3>1 DEF Frame
    <3> QED
      BY <2>1, <3>2 DEF Room
  <2> QED
    BY <2>2, RoomIsInt
<1>2. PICK new : new = [at EXCEPT ![j] = at[j] + x]
  OBVIOUS
<1>3. /\ at \in [1 .. MaxDepth + 1 -> Nat] /\ FilledNodes <= Total(at)
      /\ \A d \in 1 .. MaxDepth + 1 : at[d] <= Room(d) /\ at[d] \in Nat
  BY <1>1 DEF Levels
<1>4. /\ new \in [1 .. MaxDepth + 1 -> Nat]
      /\ \A d \in 1 .. MaxDepth + 1 : new[d] = at[d] + (IF d = j THEN x ELSE 0)
  BY <1>2, <1>3
<1>5. /\ at \in Seq(Int) /\ new \in Seq(Int) /\ Len(at) = MaxDepth + 1 /\ Len(new) = MaxDepth + 1
  <2>1. at \in [1 .. MaxDepth + 1 -> Int] /\ new \in [1 .. MaxDepth + 1 -> Int] /\ MaxDepth + 1 \in Nat
    BY <1>0, <1>3, <1>4
  <2> QED
    BY <2>1
<1>6. DifferAt(new, at, Len(at), j, x)
  BY <1>3, <1>4, <1>5 DEF DifferAt
<1>7. Total(new) = Total(at) + x
  BY <1>5, <1>6, TotalDiffers
<1>8. Total(at) \in Int
  BY <1>5, TotalIsSum
<1>9. FilledNodes' <= Total(new)
  BY <1>0, <1>3, <1>7, <1>8 DEF Spends
<1>10. ASSUME NEW d \in 1 .. MaxDepth + 1 PROVE new[d] <= Room(d)'
  <2>1. Room(d)' >= Room(d) + (IF d = j THEN x ELSE 0)
    BY DEF Spends
  <2>2. /\ new[d] = at[d] + (IF d = j THEN x ELSE 0) /\ at[d] <= Room(d) /\ at[d] \in Nat
        /\ Room(d) \in Int /\ Room(d)' \in Int
    BY <1>0, <1>3, <1>4
  <2> QED
    BY <2>1, <2>2
<1>11. Levels(new)'
  BY <1>4, <1>9, <1>10, Zenon DEF Levels
<1> QED
  BY <1>11

(* Each step adds to one level at most, and no more than it spends.        *)
LEMMA ClonesStep ==
  ASSUME IInv, IInv', ClonesInv, Shaped
  PROVE  ClonesInv'
<1>0. /\ FilledNodes \in Int /\ FilledNodes = Total(Filled(id_map))
      /\ \A d \in 1 .. MaxDepth + 1 : Room(d) \in Int
      /\ MaxNodes \in Nat /\ MaxDepth \in Nat /\ budget \in 0 .. MaxNodes
      /\ id_map \in Seq(Value \cup {None}) /\ stack \in Seq(Frame) /\ Len(stack) \in Nat
  BY RoomIsInt, Zenon
<1>n. FilledNodes' = Total(Filled(id_map')) /\ budget' \in 0 .. MaxNodes
  <2>1. FilledNodes' = Total(Filled(id_map'))
    BY Zenon DEF FilledNodes, Filled
  <2> QED
    BY <2>1 DEF IInv, TypeOK
<1>b. \A d \in DOMAIN stack : stack[d].base \in Nat /\ stack[d].base >= budget
  <2>1. \A d \in DOMAIN stack : stack[d].base \in Nat
    BY <1>0, StackNodes
  <2> QED
    BY <2>1 DEF ClonesInv
<1>l. \E at : Levels(at)
  BY DEF ClonesInv
<1>d. 1 \in 1 .. MaxDepth + 1 /\ 0 \in Nat
  BY <1>0
<1>s. ASSUME NEW j \in 1 .. MaxDepth + 1, NEW x \in Nat, Spends(j, x),
             \A d \in DOMAIN stack' : stack'[d].base >= budget'
      PROVE  ClonesInv'
  <2>1. \E at : Levels(at)'
    BY <1>l, <1>s, SpendsKeepsLevels
  <2> QED
    BY <1>s, <2>1 DEF ClonesInv
(* The stack is left alone, and the budget does not grow.                  *)
<1>1. ASSUME NEW c \in Nat, budget' = budget - c, stack' = stack,
             NEW j \in 1 .. MaxDepth + 1, NEW x \in Nat, FilledNodes' = FilledNodes + x,
             x = 0 \/ (j > Len(stack) /\ x <= c)
      PROVE  ClonesInv'
  <2>1. ASSUME NEW d \in 1 .. MaxDepth + 1
        PROVE  Room(d)' >= Room(d) + (IF d = j THEN x ELSE 0)
    <3>1. CASE d <= Len(stack)
      <4>1. Room(d)' = Room(d)
        BY <1>1, <3>1 DEF Room
      <4>2. d = j => x = 0
        BY <1>0, <1>1, <3>1
      <4> QED
        BY <1>0, <1>1, <4>1, <4>2
    <3>2. CASE ~(d <= Len(stack))
      <4>1. Room(d) = MaxNodes - budget /\ Room(d)' = MaxNodes - (budget - c)
        BY <1>1, <3>2 DEF Room
      <4>2. x <= c
        BY <1>1
      <4> QED
        BY <1>0, <1>1, <4>1, <4>2
    <3> QED
      BY <3>1, <3>2
  <2>2. Spends(j, x)
    BY <1>1, <2>1, Zenon DEF Spends
  <2>3. \A d \in DOMAIN stack' : stack'[d].base >= budget'
    BY <1>0, <1>1, <1>b
  <2> QED
    BY <1>1, <1>s, <2>2, <2>3
<1>2. CASE Rests
  <2>1. UNCHANGED <<budget, id_map, stack, ret>>
    BY <1>2 DEF Rests
  <2>2. budget' = budget - 0 /\ FilledNodes' = FilledNodes + 0 /\ stack' = stack
    BY <1>0, <1>n, <2>1
  <2> QED
    BY <1>1, <1>d, <2>2
<1>3. CASE GivesLeaf
  <2>1. PICK n \in Nat, b \in Nat, i \in Int, t \in {"String", "Int", "Double", "Other"} :
          /\ phase = "call" /\ Len(stack) <= MaxDepth /\ budget >= 1
          /\ Returns(n, 1, Leaf(t, i, b))
          /\ \/ id_map' = id_map
             \/ t = "Other" /\ id_map' = Append(id_map, Leaf(t, i, b))
    BY <1>3, Zenon DEF GivesLeaf
  <2>2. budget' = budget - 1 /\ stack' = stack /\ 1 \in Nat
    BY <2>1 DEF Returns
  <2>3. CASE id_map' = id_map
    <3>1. FilledNodes' = FilledNodes + 0
      BY <1>0, <1>n, <2>3
    <3> QED
      BY <1>1, <1>d, <2>2, <3>1
  <2>4. CASE id_map' = Append(id_map, Leaf(t, i, b))
    <3>1. Leaf(t, i, b) \in Value /\ Leaf(t, i, b).nodes = 1
      BY LeafIsValue
    <3>2. NodesIn(Leaf(t, i, b)) = 1
      BY <3>1, ReaderAssumption DEF NodesIn
    <3>3. FilledNodes' = FilledNodes + 1
      BY <1>0, <1>n, <2>4, <3>1, <3>2, FilledMore
    <3>4. Len(stack) + 1 \in 1 .. MaxDepth + 1 /\ Len(stack) + 1 > Len(stack) /\ 1 <= 1
      BY <1>0, <2>1
    <3> QED
      BY <1>1, <2>2, <3>3, <3>4
  <2> QED
    BY <2>1, <2>3, <2>4
<1>4. CASE GivesCopy
  <2>1. PICK n \in Nat, i \in DOMAIN id_map :
          /\ phase = "call" /\ id_map[i] # None
          /\ Returns(n, ReferenceCost(id_map[i]), [id_map[i] EXCEPT !.shared = TRUE])
          /\ id_map' = id_map
    BY <1>4, Zenon DEF GivesCopy
  <2>2. id_map[i] \in Value
    BY <1>0, <2>1
  <2>3. ReferenceCost(id_map[i]) \in Nat
    BY <2>2 DEF Value, ReferenceCost
  <2>4. budget' = budget - ReferenceCost(id_map[i]) /\ stack' = stack
    BY <2>1 DEF Returns
  <2>5. FilledNodes' = FilledNodes + 0
    BY <1>0, <1>n, <2>1
  <2> QED
    BY <1>1, <1>d, <2>3, <2>4, <2>5
<1>5. CASE OpensFrame
  <2>0. PICK n \in Nat, left \in Nat, length \in 0 .. MaxNodes : \E kind, want, next :
          /\ phase = "call"
          /\ Opens(n, 1 + length, NewFrame(kind, want, left, length), next)
    BY <1>5, Zenon DEF OpensFrame
  <2>1. PICK kind, want, next :
          /\ phase = "call"
          /\ Opens(n, 1 + length, NewFrame(kind, want, left, length), next)
    BY <2>0
  <2>2. PICK f : f = NewFrame(kind, want, left, length)
    OBVIOUS
  <2>3. f.base = budget
    BY <2>2 DEF NewFrame
  <2>4. budget' = budget - (1 + length) /\ stack' = Append(stack, f) /\ id_map' = Append(id_map, None)
    BY <2>1, <2>2 DEF Opens
  <2>5. /\ Len(stack') = Len(stack) + 1 /\ stack'[Len(stack) + 1] = f
        /\ \A d \in DOMAIN stack : stack'[d] = stack[d]
        /\ DOMAIN stack' = 1 .. Len(stack) + 1 /\ DOMAIN stack = 1 .. Len(stack)
    BY <1>0, <2>4
  <2>6. FilledNodes' = FilledNodes + 0
    <3>1. NodesIn(None) = 0 /\ None \in Value \cup {None}
      BY DEF NodesIn
    <3> QED
      BY <1>0, <1>n, <2>4, <3>1, FilledMore
  <2>7. ASSUME NEW d \in 1 .. MaxDepth + 1
        PROVE  Room(d)' >= Room(d) + (IF d = 1 THEN 0 ELSE 0)
    <3>1. CASE d <= Len(stack)
      BY <1>0, <2>5, <3>1 DEF Room
    <3>2. CASE d = Len(stack) + 1
      <4>1. Room(d) = MaxNodes - budget /\ Room(d)' = MaxNodes - f.base
        BY <1>0, <2>5, <3>2 DEF Room
      <4> QED
        BY <1>0, <2>3, <4>1
    <3>3. CASE d > Len(stack) + 1
      <4>1. Room(d) = MaxNodes - budget /\ Room(d)' = MaxNodes - budget'
        BY <1>0, <2>5, <3>3 DEF Room
      <4> QED
        BY <1>0, <2>0, <2>4, <4>1
    <3> QED
      BY <1>0, <3>1, <3>2, <3>3
  <2>8. Spends(1, 0)
    BY <2>6, <2>7, Zenon DEF Spends
  <2>9. \A d \in DOMAIN stack' : stack'[d].base >= budget'
    <3>1. length \in Nat
      BY <1>0, <2>0
    <3>2. ASSUME NEW d \in DOMAIN stack' PROVE stack'[d].base \in Nat /\ stack'[d].base >= budget
      BY <1>0, <1>b, <2>3, <2>5, <3>2
    <3> QED
      BY <1>0, <2>4, <3>1, <3>2
  <2> QED
    BY <1>d, <1>s, <2>8, <2>9
<1>6. CASE UpdatesTop
  <2>0. PICK n \in Nat : \E g, f, next :
          /\ stack # <<>> /\ phase \in {"loop", "return"}
          /\ Took(f) /\ SamePayload(g, f) /\ Updates(n, g, next)
    BY <1>6, Zenon DEF UpdatesTop
  <2>1. PICK g, f, next :
          /\ stack # <<>> /\ phase \in {"loop", "return"}
          /\ Took(f) /\ SamePayload(g, f) /\ Updates(n, g, next)
    BY <2>0
  <2>2. f.base = Top.base
    <3>1. CASE f = Top
      BY <3>1
    <3>2. CASE f # Top
      <4>1. /\ phase = "return"
            /\ \/ f \in {Adopt(Top, ret), Store(Top, ret), Top}
               \/ \E m \in KeyText(ret) : f = AdoptText(Top, m)
        BY <2>1, <3>2 DEF Took
      <4>2. Returning({Top.want})
        BY <2>1, <4>1, TopFacts DEF Returning
      <4>3. CASE f \in {Adopt(Top, ret), Store(Top, ret), Top}
        BY <4>2, <4>3, TopTakes, Zenon
      <4>4. ASSUME NEW m \in KeyText(ret), f = AdoptText(Top, m) PROVE f.base = Top.base
        <5>1. m \in Int
          BY <4>2, <4>4, ReturningFacts, KeyTextIsInt
        <5> QED
          BY <4>2, <4>4, <5>1, TopTakesText, Zenon
      <4> QED
        BY <4>1, <4>3, <4>4
    <3> QED
      BY <3>1, <3>2
  <2>3. g.base = Top.base
    BY <2>1, <2>2 DEF SamePayload
  <2>4. budget' = budget /\ id_map' = id_map /\ stack' = [stack EXCEPT ![Len(stack)] = g]
    BY <2>1 DEF Updates
  <2>5. Len(stack') = Len(stack) /\ DOMAIN stack' = DOMAIN stack /\ DOMAIN stack = 1 .. Len(stack)
        /\ \A d \in DOMAIN stack : stack'[d].base = stack[d].base
    BY <1>0, <2>3, <2>4 DEF Top
  <2>6. FilledNodes' = FilledNodes + 0
    BY <1>0, <1>n, <2>4
  <2>7. ASSUME NEW d \in 1 .. MaxDepth + 1
        PROVE  Room(d)' >= Room(d) + (IF d = 1 THEN 0 ELSE 0)
    <3>1. CASE d <= Len(stack)
      <4>1. d <= Len(stack') /\ stack'[d].base = stack[d].base
        BY <1>0, <2>5, <3>1
      <4> QED
        BY <1>0, <3>1, <4>1 DEF Room
    <3>2. CASE ~(d <= Len(stack))
      <4>1. ~(d <= Len(stack'))
        BY <2>5, <3>2
      <4> QED
        BY <1>0, <2>4, <3>2, <4>1 DEF Room
    <3> QED
      BY <3>1, <3>2
  <2>8. Spends(1, 0)
    BY <2>6, <2>7, Zenon DEF Spends
  <2>9. \A d \in DOMAIN stack' : stack'[d].base >= budget'
    BY <1>b, <2>4, <2>5
  <2> QED
    BY <1>d, <1>s, <2>8, <2>9
<1>7. CASE ClosesTop
  <2>0. PICK n \in Nat : \E f :
          /\ stack # <<>> /\ phase \in {"loop", "return"}
          /\ \/ f = Top
             \/ phase = "return" /\ \E m \in KeyText(ret) : f = AdoptText(Top, m)
          /\ Closes(n, f)
    BY <1>7, Zenon DEF ClosesTop
  <2>1. PICK f :
          /\ stack # <<>> /\ phase \in {"loop", "return"}
          /\ \/ f = Top
             \/ phase = "return" /\ \E m \in KeyText(ret) : f = AdoptText(Top, m)
          /\ Closes(n, f)
    BY <2>0
  <2>2. /\ Top \in Frame /\ SumsUp(Top) /\ NestsAt(Top, Len(stack)) /\ Len(stack) \in Nat \ {0}
        /\ Len(stack) \in DOMAIN stack /\ Top = stack[Len(stack)] /\ NodesOf(Top) \in Nat
    BY <2>1, TopFacts DEF Top
  <2>3. /\ f \in Frame /\ SumsUp(f) /\ NestsAt(f, Len(stack)) /\ NodesOf(f) = NodesOf(Top)
        /\ f.id = Top.id /\ f.base = Top.base
    <3>1. CASE f = Top
      BY <2>2, <3>1
    <3>2. ASSUME phase = "return", NEW m \in KeyText(ret), f = AdoptText(Top, m)
          PROVE  /\ f \in Frame /\ SumsUp(f) /\ NestsAt(f, Len(stack)) /\ NodesOf(f) = NodesOf(Top)
                 /\ f.id = Top.id /\ f.base = Top.base
      <4>1. Returning({Top.want})
        BY <2>1, <3>2, TopFacts DEF Returning
      <4>2. m \in Int /\ Len(stack) \in Nat
        BY <2>2, <3>2, <4>1, ReturningFacts, KeyTextIsInt
      <4> QED
        BY <2>2, <3>2, <4>2, AdoptTextIsFrame, Zenon
    <3> QED
      BY <2>1, <3>1, <3>2
  <2>4. PICK v : v = ValueOf(f)
    OBVIOUS
  <2>5. v \in Value /\ v.nodes = NodesOf(Top)
    BY <2>2, <2>3, <2>4, ValueOfIsValue
  <2>6. NodesOf(Top) <= Top.base - budget
    <3>1. NodesOf(Top) + (IF phase = "return" THEN ret.nodes ELSE 0) <= Top.base - budget
      BY <1>0, <2>2 DEF IInv, NodesPaid
    <3>2. (IF phase = "return" THEN ret.nodes ELSE 0) \in Nat
      BY <2>1, TopFacts
    <3>3. Top.base \in Nat
      BY <1>b, <2>2
    <3> QED
      BY <1>0, <2>2, <3>1, <3>2, <3>3
  <2>7. budget' = budget /\ id_map' = [id_map EXCEPT ![Top.id] = v]
        /\ stack' = SubSeq(stack, 1, Len(stack) - 1)
    BY <2>1, <2>3, <2>4 DEF Closes
  <2>8. Top.id \in 1 .. Len(id_map) /\ id_map[Top.id] = None
    <3>1. Top.id \in DOMAIN id_map /\ id_map[Top.id] = None
      BY <2>2 DEF IInv, OpenIds
    <3> QED
      BY <1>0, <3>1
  <2>9. NodesIn(v) = NodesOf(Top)
    BY <2>5, ReaderAssumption DEF NodesIn
  <2>10. FilledNodes' = FilledNodes + NodesOf(Top)
    BY <1>0, <1>n, <2>5, <2>7, <2>8, <2>9, FilledNow
  <2>11. /\ Len(stack') = Len(stack) - 1
         /\ \A d \in 1 .. Len(stack) - 1 : stack'[d] = stack[d]
    BY <1>0, <2>2, <2>7, Popped, Zenon
  <2>12. Len(stack) \in 1 .. MaxDepth + 1
    BY <1>0, <2>2 DEF IInv, ControlInv
  <2>13. ASSUME NEW d \in 1 .. MaxDepth + 1
         PROVE  Room(d)' >= Room(d) + (IF d = Len(stack) THEN NodesOf(Top) ELSE 0)
    <3>1. CASE d < Len(stack)
      <4>1. stack'[d] = stack[d] /\ d <= Len(stack) /\ d <= Len(stack')
        BY <1>0, <2>11, <3>1
      <4>2. Room(d)' = Room(d)
        BY <4>1 DEF Room
      <4> QED
        BY <1>0, <3>1, <4>2
    <3>2. CASE d = Len(stack)
      <4>1. d <= Len(stack) /\ ~(d <= Len(stack')) /\ stack[d] = Top
        BY <1>0, <2>2, <2>11, <3>2
      <4>2. Room(d) = MaxNodes - Top.base /\ Room(d)' = MaxNodes - budget
        BY <2>7, <4>1 DEF Room
      <4>3. Top.base \in Nat /\ MaxNodes \in Nat /\ budget \in Nat /\ NodesOf(Top) \in Nat
        BY <1>0, <1>b, <2>2
      <4>4. MaxNodes - budget >= MaxNodes - Top.base + NodesOf(Top)
        BY <2>6, <4>3
      <4> QED
        BY <3>2, <4>2, <4>4
    <3>3. CASE d > Len(stack)
      <4>1. ~(d <= Len(stack)) /\ ~(d <= Len(stack'))
        BY <1>0, <2>11, <3>3
      <4>2. Room(d)' = Room(d)
        BY <2>7, <4>1 DEF Room
      <4> QED
        BY <1>0, <3>3, <4>2
    <3> QED
      BY <1>0, <3>1, <3>2, <3>3
  <2>14. Spends(Len(stack), NodesOf(Top))
    BY <2>10, <2>13, Zenon DEF Spends
  <2>15. \A d \in DOMAIN stack' : stack'[d].base >= budget'
    <3>1. DOMAIN stack' = 1 .. Len(stack) - 1 /\ 1 .. Len(stack) - 1 \subseteq DOMAIN stack
      BY <1>0, <2>2, <2>11 DEF IInv, TypeOK
    <3> QED
      BY <1>b, <2>7, <2>11, <3>1
  <2> QED
    BY <1>s, <2>2, <2>12, <2>14, <2>15
<1> QED
  BY <1>2, <1>3, <1>4, <1>5, <1>6, <1>7 DEF Shaped

(* A reader that starts keeps no clones.                                   *)
LEMMA ClonesInit == Init => ClonesInv
<1> SUFFICES ASSUME Init PROVE ClonesInv
  OBVIOUS
<1>1. /\ stack = <<>> /\ id_map = <<>> /\ budget = MaxNodes /\ IInv
  BY InitIInv DEF Init
<1>2. MaxNodes \in Nat /\ MaxDepth \in Nat /\ FilledNodes = Total(Filled(id_map))
  BY <1>1, RoomIsInt
<1>3. FilledNodes = 0
  <2>1. id_map \in Seq(Value \cup {None}) /\ Len(id_map) = 0
    BY <1>1
  <2> QED
    BY <1>2, <2>1, FilledIds, TotalEmpty
<1>4. PICK at : at = [d \in 1 .. MaxDepth + 1 |-> 0]
  OBVIOUS
<1>5. at \in [1 .. MaxDepth + 1 -> Nat] /\ \A d \in 1 .. MaxDepth + 1 : at[d] = 0
  BY <1>4
<1>6. Total(at) >= 0
  <2>1. at \in Seq(Int) /\ Len(at) = MaxDepth + 1
    <3>1. at \in [1 .. MaxDepth + 1 -> Int] /\ MaxDepth + 1 \in Nat
      BY <1>2, <1>5
    <3> QED
      BY <3>1
  <2>2. \A i \in 1 .. Len(at) : at[i] >= 0
    BY <1>5, <2>1
  <2>3. Total(at) \in Nat
    BY <2>1, <2>2, TotalNatural
  <2> QED
    BY <2>3
<1>7. \A d \in 1 .. MaxDepth + 1 : at[d] <= Room(d)
  BY <1>1, <1>2, <1>5 DEF Room
<1>8. Levels(at)
  BY <1>3, <1>5, <1>6, <1>7 DEF Levels
<1> QED
  BY <1>1, <1>8 DEF ClonesInv

(* All the clones that are kept for references have no more nodes than     *)
(* max_depth + 1 times what was charged, for all limits and inputs: the    *)
(* objects of one level are parts of different calls of that level.        *)
THEOREM ClonesCappedCorrect == Spec => []ClonesCapped
<1>1. Init => IInv /\ ClonesInv
  BY InitIInv, ClonesInit
<1>2. IInv /\ ClonesInv /\ [Next]_vars => IInv' /\ ClonesInv'
  BY NextIInv, NextShape, ClonesStep
<1>3. IInv /\ ClonesInv => ClonesCapped
  <2> SUFFICES ASSUME IInv, ClonesInv PROVE ClonesCapped
    OBVIOUS
  <2>1. PICK at : Levels(at)
    BY DEF ClonesInv
  <2>2. MaxNodes \in Nat /\ MaxDepth \in Nat /\ budget \in 0 .. MaxNodes /\ FilledNodes \in Int
        /\ Len(stack) \in Nat /\ DOMAIN stack = 1 .. Len(stack) /\ stack \in Seq(Frame)
    BY RoomIsInt
  <2>3. PICK c \in Nat : c = MaxNodes - budget
    BY <2>2
  <2>4. ASSUME NEW d \in 1 .. MaxDepth + 1 PROVE at[d] \in 0 .. c
    <3>1. at[d] \in Nat /\ at[d] <= Room(d)
      BY <2>1 DEF Levels
    <3>2. CASE d <= Len(stack)
      <4>1. d \in DOMAIN stack
        BY <2>2, <3>2
      <4>2. stack[d].base \in Nat /\ stack[d].base >= budget
        BY <2>2, <4>1, StackNodes DEF ClonesInv
      <4>3. Room(d) = MaxNodes - stack[d].base
        BY <3>2 DEF Room
      <4> QED
        BY <2>2, <2>3, <3>1, <4>2, <4>3
    <3>3. CASE ~(d <= Len(stack))
      BY <2>2, <2>3, <3>1, <3>3 DEF Room
    <3> QED
      BY <3>2, <3>3
  <2>5. at \in Seq(Int) /\ Len(at) = MaxDepth + 1
    <3>1. at \in [1 .. MaxDepth + 1 -> Int] /\ MaxDepth + 1 \in Nat
      BY <2>1, <2>2 DEF Levels
    <3> QED
      BY <3>1
  <2>6. Total(at) <= (MaxDepth + 1) * c
    <3>1. \A i \in 1 .. Len(at) : at[i] \in 0 .. c
      BY <2>4, <2>5
    <3>2. Total(at) <= Len(at) * c
      BY <2>5, <3>1, TotalBounds
    <3> QED
      BY <2>5, <3>2
  <2>7. FilledNodes <= Total(at) /\ Total(at) \in Int
    BY <2>1, <2>5, TotalIsSum DEF Levels
  <2>8. (MaxDepth + 1) * c \in Int
    BY <2>2
  <2>9. FilledNodes <= (MaxDepth + 1) * c
    BY <2>2, <2>6, <2>7, <2>8
  <2> QED
    BY <2>3, <2>9, Zenon DEF ClonesCapped
<1> QED
  BY <1>1, <1>2, <1>3, PTL DEF Spec

-----------------------------------------------------------------------------
(* Steps and bytes *)

(* What a step reads, how many calls of read_value it adds or ends, and    *)
(* what the reader does next.                                              *)
Moves(n, d, to) == pos' = pos + n /\ Len(stack') = Len(stack) + d /\ phase' = to

(* A step that reads enough for what it adds is paid.                      *)
LEMMA MovePays ==
  ASSUME IInv, NEW n \in Nat, NEW d \in Int, NEW to \in Phases, Moves(n, d, to),
         3 * n > d + BeforeByte[to] - BeforeByte[phase]
  PROVE  StepsLeft' < StepsLeft
<1>1. PICK q : q = StepsLeft
  OBVIOUS
<1>2. BeforeByte[phase] \in Int /\ BeforeByte[to] \in Int
  BY DEF IInv, TypeOK, Phases, BeforeByte
<1>3. InputLen \in Int /\ pos \in Int /\ Len(stack) \in Int
  BY ReaderAssumption DEF IInv, TypeOK
<1>4. StepsLeft' = 3 * (InputLen - (pos + n)) + (Len(stack) + d) + BeforeByte[to]
  BY DEF StepsLeft, Moves
<1> QED
  BY <1>2, <1>3, <1>4 DEF StepsLeft

(* A failed step ends the read.                                            *)
LEMMA FailPays ==
  ASSUME IInv, NEW e, Fail(e), phase \notin {"done", "error"}
  PROVE  StepsLeft' < StepsLeft
<1>1. BeforeByte[phase] > 0 /\ BeforeByte["error"] = 0 /\ "error" \in Phases
  BY DEF IInv, TypeOK, Phases, BeforeByte
<1>2. Moves(0, 0, "error")
  BY DEF Moves, Fail, IInv, TypeOK
<1>3. BeforeByte[phase] \in Int
  BY DEF IInv, TypeOK, Phases, BeforeByte
<1> QED
  BY <1>1, <1>2, <1>3, MovePays

(* A call that returns has read its tag at least.                          *)
LEMMA ReturnPays ==
  ASSUME IInv, phase = "call", NEW n \in Nat \ {0}, NEW c, NEW v, Returns(n, c, v)
  PROVE  StepsLeft' < StepsLeft
<1>1. BeforeByte["call"] = 1 /\ BeforeByte["return"] = 3 /\ "return" \in Phases
  BY DEF Phases, BeforeByte
<1>2. Moves(n, 0, "return")
  BY DEF Moves, Returns, IInv, TypeOK
<1> QED
  BY <1>1, <1>2, MovePays

(* A call that opens a frame has read its tag.                             *)
LEMMA OpenPays ==
  ASSUME IInv, phase = "call", NEW n \in Nat \ {0}, NEW c, NEW f, NEW to \in {"call", "loop"},
         Opens(n, c, f, to)
  PROVE  StepsLeft' < StepsLeft
<1>1. BeforeByte["call"] = 1 /\ BeforeByte["loop"] = 2 /\ to \in Phases
  BY DEF Phases, BeforeByte
<1>2. Moves(n, 1, to)
  BY DEF Moves, Opens, IInv, TypeOK
<1> QED
  BY <1>1, <1>2, MovePays

(* A frame takes what was returned to it, or reads for more.               *)
LEMMA UpdatePays ==
  ASSUME IInv, NEW n \in Nat, NEW f, NEW to \in {"call", "loop"}, Updates(n, f, to),
         phase = "return" \/ (phase = "loop" /\ n > 0)
  PROVE  StepsLeft' < StepsLeft
<1>1. /\ BeforeByte["call"] = 1 /\ BeforeByte["loop"] = 2 /\ BeforeByte["return"] = 3
      /\ to \in Phases
  BY DEF Phases, BeforeByte
<1>2. Moves(n, 0, to)
  BY DEF Moves, Updates, IInv, TypeOK
<1>3. 3 * n > 0 + BeforeByte[to] - BeforeByte[phase]
  <2>1. PICK a, b : a = BeforeByte[phase] /\ b = BeforeByte[to]
    BY Zenon
  <2>2. b \in 1 .. 2 /\ (a = 3 \/ (a = 2 /\ n > 0))
    BY <1>1, <2>1
  <2>3. 3 * n > 0 + b - a
    BY <2>2
  <2> QED
    BY <2>1, <2>3, Zenon
<1> QED
  BY <1>1, <1>2, <1>3, MovePays

(* A frame that closes is one less, and returns what it built.             *)
LEMMA ClosePays ==
  ASSUME IInv, NEW n \in Nat, NEW f, Closes(n, f), stack # <<>>,
         phase = "return" \/ (phase = "loop" /\ n > 0)
  PROVE  StepsLeft' < StepsLeft
<1>1. BeforeByte["loop"] = 2 /\ BeforeByte["return"] = 3 /\ "return" \in Phases
  BY DEF Phases, BeforeByte
<1>2. stack \in Seq(Frame) /\ Len(stack) \in Nat \ {0}
  BY DEF IInv, TypeOK
<1>3. Len(SubSeq(stack, 1, Len(stack) - 1)) = Len(stack) - 1
  BY <1>2, Popped
<1>4. Moves(n, -1, "return")
  BY <1>2, <1>3 DEF Moves, Closes
<1> QED
  BY <1>1, <1>4, MovePays

(* The header, with or without its envelope.                               *)
LEMMA FramingPays ==
  ASSUME IInv, ReadEnvelope \/ ReadTrailers \/ ReadVersionHeader
  PROVE  StepsLeft' < StepsLeft
<1>0. /\ BeforeByte["envelope"] = 1 /\ BeforeByte["trailers"] = 2 /\ BeforeByte["header"] = 1
      /\ BeforeByte["call"] = 1 /\ {"trailers", "header", "call"} \subseteq Phases
      /\ TrailerLen \in Nat /\ Widths \subseteq Nat
  BY ReaderAssumption DEF Phases, BeforeByte, Widths
<1>1. CASE \E e : Fail(e)
  BY <1>1, FailPays DEF ReadEnvelope, ReadTrailers, ReadVersionHeader
<1>2. ASSUME NEW n \in Nat, NEW to \in {"trailers", "header", "call"}, Consumes(n, to),
             3 * n > 0 + BeforeByte[to] - BeforeByte[phase]
      PROVE  StepsLeft' < StepsLeft
  <2>1. Moves(n, 0, to)
    BY <1>2 DEF Moves, Consumes, IInv, TypeOK
  <2> QED
    BY <1>0, <1>2, <2>1, MovePays
<1>3. CASE ReadEnvelope
  BY <1>0, <1>1, <1>2, <1>3 DEF ReadEnvelope, BadVarint
<1>4. CASE ReadTrailers
  BY <1>0, <1>1, <1>2, <1>4 DEF ReadTrailers
<1>5. CASE ReadVersionHeader
  BY <1>0, <1>1, <1>2, <1>5 DEF ReadVersionHeader, BadVarint
<1> QED
  BY <1>3, <1>4, <1>5

(* What is refused before or after a tag.                                  *)
LEMMA RefusedPays ==
  ASSUME IInv, \/ DepthCapped \/ NodeCapped \/ CallTruncated \/ TagVarintBad
               \/ UnsupportedTag \/ HostObject \/ LengthCapped \/ OddUtf16
  PROVE  StepsLeft' < StepsLeft
<1>1. phase = "call" /\ \E e : Fail(e)
  BY DEF DepthCapped, NodeCapped, CallTruncated, TagVarintBad, UnsupportedTag, HostObject,
     LengthCapped, OddUtf16, Reads, BadVarint
<1> QED
  BY <1>1, FailPays

(* Values without parts, and the beginnings of the others.                 *)
LEMMA ReadPays ==
  ASSUME IInv, \/ ReadPrimitive \/ ReadDouble \/ ReadDate \/ ReadBooleanObject
               \/ BeginLoop \/ BeginWrapper
  PROVE  StepsLeft' < StepsLeft
<1>0. DoubleLen \in Nat /\ 1 \in Nat \ {0} /\ 1 + DoubleLen \in Nat \ {0}
  BY ReaderAssumption
<1>1. CASE ReadPrimitive \/ ReadDouble \/ ReadDate \/ ReadBooleanObject
  <2>1. phase = "call" /\ \E n \in Nat \ {0} : \E c, v : Returns(n, c, v)
    BY <1>0, <1>1 DEF ReadPrimitive, ReadDouble, ReadDate, ReadBooleanObject, ReturnsObject,
       Reads
  <2> QED
    BY <2>1, ReturnPays
<1>2. CASE BeginLoop \/ BeginWrapper
  <2>1. phase = "call" /\ \E c, f : \E to \in {"call", "loop"} : Opens(1, c, f, to)
    BY <1>2 DEF BeginLoop, BeginWrapper, Reads
  <2> QED
    BY <1>0, <2>1, OpenPays
<1> QED
  BY <1>1, <1>2

(* Tags with a varint. *)
LEMMA VarintPays ==
  ASSUME IInv, NEW u \in Varints, NEW w \in Widths, ReadsVarint(u, w)
  PROVE  StepsLeft' < StepsLeft
<1>0. u \in Nat /\ w \in Nat \ {0} /\ 1 + w \in Nat \ {0} /\ 1 + w + u \in Nat \ {0}
  BY ReaderAssumption DEF Widths
<1>1. CASE \/ \E t \in {"int32", "uint32"} : ReadInt(t, u, w)
           \/ \E t \in {"string", "utf16"} : ReadString(t, u, w)
           \/ ReadArrayBuffer(u, w)
  <2>1. phase = "call" /\ \E n \in Nat \ {0} : \E c, v : Returns(n, c, v)
    <3>1. CASE \E t \in {"int32", "uint32"} : ReadInt(t, u, w)
      BY <1>0, <3>1 DEF ReadInt, Reads
    <3>2. CASE \E t \in {"string", "utf16"} : ReadString(t, u, w)
      BY <1>0, <3>2 DEF ReadString, Reads
    <3>3. CASE ReadArrayBuffer(u, w)
      BY <1>0, <3>3 DEF ReadArrayBuffer, ReturnsObject, Reads
    <3> QED
      BY <1>1, <3>1, <3>2, <3>3
  <2> QED
    BY <2>1, ReturnPays
<1>2. CASE ReadBigInt(u, w) \/ ReadBigIntObject(u, w)
  <2>1. u \div 2 \in Nat
    BY <1>0
  <2>2. 1 + w + u \div 2 \in Nat \ {0}
    BY <1>0, <2>1
  <2>3. phase = "call" /\ \E c, v : Returns(1 + w + u \div 2, c, v)
    BY <1>2 DEF ReadBigInt, ReadBigIntObject, ReturnsObject, Reads, DeclaredLen
  <2> QED
    BY <2>2, <2>3, ReturnPays
<1>3. CASE ReadReference(u, w)
  <2>1. phase = "call" /\ \/ \E c, v : Returns(1 + w, c, v)
                          \/ \E e : Fail(e)
    BY <1>3 DEF ReadReference, Reads
  <2> QED
    BY <1>0, <2>1, ReturnPays, FailPays
<1>4. CASE BeginDenseArray(u, w) \/ BeginSparseArray(u, w)
  <2>1. phase = "call" /\ \/ \E c, f : Opens(1 + w, c, f, "loop")
                          \/ \E e : Fail(e)
    BY <1>4 DEF BeginDenseArray, BeginSparseArray, Reads
  <2> QED
    BY <1>0, <2>1, OpenPays, FailPays
<1>5. CASE EndElements(u, w)
  <2>1. phase = "loop" /\ \/ \E f : Updates(1 + w, f, "loop")
                          \/ \E e : Fail(e)
    BY <1>5 DEF EndElements, Looping, BadVarint
  <2> QED
    BY <1>0, <2>1, UpdatePays, FailPays
<1> QED
  BY <1>1, <1>2, <1>3, <1>4, <1>5 DEF ReadsVarint

(* The loops. *)
LEMMA LoopPays ==
  ASSUME IInv, \/ Continue \/ EndLoop \/ EndTruncated \/ DenseTruncated
               \/ \E w \in Widths : EndDenseArray(w)
  PROVE  StepsLeft' < StepsLeft
<1>0. phase = "loop" /\ stack # <<>> /\ Widths \subseteq Nat \ {0}
  <2>1. phase = "loop"
    BY DEF Continue, EndLoop, EndTruncated, DenseTruncated, EndDenseArray, Looping
  <2> QED
    BY <2>1 DEF IInv, ControlInv, Widths
<1>1. CASE Continue
  <2>1. Moves(0, 0, "call")
    BY <1>1 DEF Moves, Continue, IInv, TypeOK
  <2>2. BeforeByte["call"] = 1 /\ BeforeByte["loop"] = 2 /\ "call" \in Phases
    BY DEF Phases, BeforeByte
  <2> QED
    BY <1>0, <2>1, <2>2, MovePays
<1>2. CASE EndTruncated \/ DenseTruncated
  BY <1>0, <1>2, FailPays DEF EndTruncated, DenseTruncated
<1>3. ASSUME NEW n \in Nat \ {0}, Closes(n, Top) PROVE StepsLeft' < StepsLeft
  BY <1>0, <1>3, ClosePays
<1>4. CASE EndLoop \/ \E w \in Widths : EndDenseArray(w)
  <2>1. \/ \E n \in Nat \ {0} : Closes(n, Top)
        \/ \E e : Fail(e)
    <3>1. \A w \in Widths : 1 + w \in Nat \ {0} /\ \A v \in Widths : 1 + w + v \in Nat \ {0}
      BY <1>0
    <3> QED
      BY <1>0, <1>4, <3>1 DEF EndLoop, EndDenseArray, BadVarint
  <2> QED
    BY <1>0, <1>3, <2>1, FailPays
<1> QED
  BY <1>1, <1>2, <1>4

(* A value that is used.                                                   *)
LEMMA TakePays ==
  ASSUME IInv, \/ TakeElement \/ TakeKey \/ TakeValue \/ TakePropertyKey \/ TakeProperty
               \/ TakeSource \/ TakeInner \/ Finish
  PROVE  StepsLeft' < StepsLeft
<1>0. phase = "return" /\ Widths \subseteq Nat
  BY DEF TakeElement, TakeKey, TakeValue, TakePropertyKey, TakeProperty, TakeSource, TakeInner,
     Finish, Returning, Widths
<1>1. CASE TakeElement \/ TakeKey \/ TakeValue \/ TakePropertyKey \/ TakeProperty
  <2>1. \/ \E f : \E to \in {"call", "loop"} : Updates(0, f, to)
        \/ \E e : Fail(e)
    BY <1>1 DEF TakeElement, TakeKey, TakeValue, TakePropertyKey, TakeProperty
  <2> QED
    BY <1>0, <2>1, UpdatePays, FailPays
<1>2. CASE TakeSource \/ TakeInner
  <2>1. stack # <<>>
    BY <1>2 DEF TakeSource, TakeInner, Returning, IInv, TypeOK
  <2>2. \/ \E n \in Nat : \E f : Closes(n, f)
        \/ \E e : Fail(e)
    BY <1>0, <1>2 DEF TakeSource, TakeInner, BadVarint
  <2> QED
    BY <1>0, <2>1, <2>2, ClosePays, FailPays
<1>3. CASE Finish
  <2>1. Moves(0, 0, "done")
    BY <1>3 DEF Moves, Finish, IInv, TypeOK
  <2>2. BeforeByte["done"] = 0 /\ BeforeByte["return"] = 3 /\ "done" \in Phases
    BY DEF Phases, BeforeByte
  <2> QED
    BY <1>0, <2>1, <2>2, MovePays
<1> QED
  BY <1>1, <1>2, <1>3

(* deserialize runs no more than three handlers for a byte of its input,   *)
(* whatever the limits are and whatever lengths and counts the input       *)
(* declares: the variant behind Terminates.                                *)
THEOREM StepsPaidCorrect == Spec => StepsPaid
<1>1. ASSUME IInv, Next PROVE StepsLeft' < StepsLeft \/ UNCHANGED vars
  BY <1>1, FramingPays, RefusedPays, ReadPays, VarintPays, LoopPays, TakePays
     DEF Next, Returned
<1>2. IInv /\ [Next]_vars => [StepsLeft' < StepsLeft]_vars
  BY <1>1
<1> QED
  BY <1>2, Invariance, PTL DEF Spec, StepsPaid
=============================================================================
