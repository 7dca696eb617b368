------------------------------ MODULE V8Reader ------------------------------
(***************************************************************************)
(* The structured-clone reader of src/src/v8_value.rs: Reader, its         *)
(* recursive read_value, the raw and the Blink entry points.               *)
(*                                                                         *)
(* The input is revealed as it is read: no handler looks back, so a choice *)
(* of what the next bytes hold, made when they are consumed, covers every  *)
(* input of at most InputLen bytes; that the input may end at any read is  *)
(* one more outcome of the read.  A recursive call is a frame on `stack',  *)
(* with the depth its handler got as an argument.  A decoded value is kept *)
(* by what the limits and the callers tell apart: whether it can be a key, *)
(* an index or a regexp source, how many nodes it has, at which levels it  *)
(* has values with parts, how many bytes of text and buffers it carries    *)
(* and whether a resolved reference is part of it.                         *)
(***************************************************************************)
EXTENDS Integers, Sequences, FiniteSets

CONSTANTS
  MaxDepth,    \* V8Limits.max_depth
  MaxNodes,    \* V8Limits.max_nodes
  InputLen,    \* bound: the longest input
  Varints,     \* bound: the values a varint may carry
  VarintMax,   \* the longest varint (10 in the code)
  DoubleLen,   \* the length of an f64 (8 in the code)
  TrailerLen,  \* the length of a Blink trailer's body (12 in the code)
  IntLimit,    \* one more than the largest i64 (2^63 in the code)
  IntDigits,   \* the digits of IntLimit (19 in the code)
  DoubleText,  \* the longest text of an f64 (327 bytes in the code)
  Growth,      \* the most bytes decoded from a byte of input (37 in the code)
  Tags,        \* bound: the classes of tags the input may hold
  None         \* an id that is reserved and not filled

AllTags == {"primitive", "int32", "uint32", "double", "bigint", "string", "utf16",
            "date", "boolobj", "bigintobj", "buffer", "object", "dense", "sparse",
            "map", "set", "regexp", "stringobj", "reference", "host", "unsupported"}

Value == [type   : {"String", "Int", "Double", "Other"},
          number : Int,          \* what an Int is, -1 for any other value
          nodes  : Nat \ {0},    \* count_nodes
          levels : SUBSET Nat,   \* the levels of the values with parts in it, its own being 0
          bytes  : Int,          \* bytes of texts and buffers in it, as decoded
          shared : BOOLEAN]      \* a resolved reference is part of it

Frame == [kind   : {"object", "dense", "sparse", "map", "set", "regexp", "stringobj"},
          depth  : Nat,          \* the depth its handler was called with
          id     : Nat,          \* the id reserve_id returned
          base   : 0 .. MaxNodes,  \* history: the budget when its read_value began
          want   : {"elem", "key", "value", "propkey", "propval", "source", "inner"},
          left   : Nat,          \* elements, then properties, a dense array still reads
          key    : Int,          \* the index a sparse array's pending value goes to
          nodes  : Nat \ {0}, levels : SUBSET Nat, bytes : Int, shared : BOOLEAN,
          slots  : Seq(Value),   \* the elements of a sparse array
          upto   : [0 .. MaxNodes -> Nat]]  \* upto[k]: the nodes in its first k slots

Errors == {"Truncated", "BadVersion", "BadVarint", "BadReference", "BadKey", "OddUtf16",
           "UnsupportedTag", "HostObject", "LengthCap", "NodeCap", "DepthCap"}

ASSUME ReaderAssumption ==
  /\ MaxDepth \in Nat /\ MaxNodes \in Nat /\ InputLen \in Nat
  /\ DoubleLen \in Nat /\ TrailerLen \in Nat /\ VarintMax \in Nat \ {0}
  /\ IntLimit \in Nat /\ IntDigits \in Nat \ {0} /\ DoubleText \in Nat /\ Growth \in Nat
  /\ Varints \subseteq Nat
  /\ Tags \subseteq AllTags
  /\ None \notin Value

(* An unpaired byte becomes U+FFFD, which takes three; an Int is at least  *)
(* two bytes of input, and a Double 1 + DoubleLen.                         *)
ASSUME GrowthAssumption ==
  /\ Growth >= 3 /\ 2 * Growth >= 1 + IntDigits
  /\ (1 + DoubleLen) * Growth >= DoubleText

VARIABLES
  phase,    \* what the reader does next
  pos,      \* bytes consumed
  budget,   \* nodes still allowed
  id_map,   \* id_map[i]: the object with id i - 1, or None while it is open
  stack,    \* the calls of read_value in progress that wait for a value
  ret,      \* the value read_value is returning, None otherwise
  err       \* the error deserialize returned

vars == <<phase, pos, budget, id_map, stack, ret, err>>

Phases == {"envelope", "trailers", "header", "call", "return", "loop", "done", "error"}

Widths == 1 .. VarintMax

-----------------------------------------------------------------------------
(* Values and frames *)

Leaf(t, i, b) == [type |-> t, number |-> i, nodes |-> 1, levels |-> {},
                  bytes |-> b, shared |-> FALSE]

(* undefined, null, the hole, true, false: the same whether a tag asks for *)
(* it or vec![Hole; length] puts it in a sparse array.                     *)
Primitive == Leaf("Other", -1, 0)

Deeper(levels) == {l + 1 : l \in levels}

Top == stack[Len(stack)]

(* Fault: read_set passes its own depth on. *)
DepthOfSetKept == IF stack = <<>> THEN 0
                  ELSE IF Top.kind = "set" THEN Top.depth ELSE Top.depth + 1

(* The depth of the next read_value. *)
Depth == IF stack = <<>> THEN 0 ELSE Top.depth + 1

(* nodes counts the value itself and what it adopted; a sparse array's     *)
(* slots are counted by upto, since a later pair may overwrite one.        *)
NewFrame(kind, want, left, length) ==
  [kind |-> kind, depth |-> Depth, id |-> Len(id_map) + 1, base |-> budget,
   want |-> want, left |-> left, key |-> -1, nodes |-> 1, levels |-> {0}, bytes |-> 0,
   shared |-> FALSE, slots |-> [i \in 1 .. length |-> Primitive],
   upto |-> [k \in 0 .. MaxNodes |-> IF k <= length THEN k ELSE length]]

Adopt(f, v) ==
  [f EXCEPT !.nodes = @ + v.nodes, !.levels = @ \cup Deeper(v.levels),
            !.bytes = @ + v.bytes, !.shared = @ \/ v.shared]

(* The text of a key, a source or a string object: n bytes, and no node. *)
AdoptText(f, n) == [f EXCEPT !.bytes = @ + n]

(* elems[idx] = value, when the key was an index below the length. *)
Store(f, v) ==
  IF f.key + 1 \in DOMAIN f.slots
  THEN LET old == f.slots[f.key + 1]
       IN [f EXCEPT !.slots = [@ EXCEPT ![f.key + 1] = v],
                    !.bytes = @ + v.bytes - old.bytes,
                    !.upto = [k \in 0 .. MaxNodes |->
                                IF k > f.key THEN f.upto[k] + v.nodes - old.nodes
                                             ELSE f.upto[k]]]
  ELSE f

ValueOf(f) ==
  [type |-> "Other", number |-> -1, nodes |-> f.nodes + f.upto[MaxNodes],
   levels |-> f.levels \cup UNION {Deeper(f.slots[i].levels) : i \in DOMAIN f.slots},
   bytes |-> f.bytes,
   shared |-> f.shared \/ \E i \in DOMAIN f.slots : f.slots[i].shared]

-----------------------------------------------------------------------------
(* Texts *)

(* The bytes of the String made of n bytes of input: Latin-1 takes up to   *)
(* two for one, from_utf8_lossy up to three, from_utf16_lossy one to three *)
(* for every two.                                                          *)
Decoded(t, n) == IF t = "utf16" THEN n \div 2 .. 3 * (n \div 2) ELSE n .. 3 * n

(* The decimal digits of a magnitude of n bytes, at most 2.41 a byte, and  *)
(* a minus sign.                                                           *)
BigIntText(n) == 1 .. 2 + (241 * n) \div 100

(* i64::to_string *)
IntText(i) ==
  LET m == IF i < 0 THEN -i ELSE i
  IN  (IF i < 0 THEN 1 ELSE 0) + 1 + Cardinality({k \in 1 .. IntDigits - 1 : m >= 10^k})

(* read_property_key: the texts the key v may have. *)
KeyText(v) == CASE v.type = "String" -> {v.bytes}
                [] v.type = "Int" -> {IntText(v.number)}
                [] v.type = "Double" -> 1 .. DoubleText
                [] OTHER -> {}

-----------------------------------------------------------------------------
(* Steps of the reader *)

Has(n) == pos + n <= InputLen

(* The reader is dropped with its state when an error is returned. *)
Fail(e) == /\ phase' = "error" /\ err' = e
           /\ UNCHANGED <<pos, budget, id_map, stack, ret>>

(* Ten bytes that all ask for another one. *)
BadVarint(offset) == Has(offset + VarintMax) /\ Fail("BadVarint")

(* read_value(depth) passes its two checks and reads a tag of class t. *)
Reads(t) == /\ phase = "call" /\ t \in Tags
            /\ Depth <= MaxDepth /\ budget >= 1 /\ Has(1)

(* It returns v, having consumed n bytes and charged c nodes. *)
Returns(n, c, v) == /\ pos' = pos + n /\ budget' = budget - c
                    /\ ret' = v /\ phase' = "return"
                    /\ UNCHANGED <<stack, err>>

(* It opens frame f, having consumed n bytes and charged c nodes. *)
Opens(n, c, f, next) == /\ pos' = pos + n /\ budget' = budget - c
                        /\ id_map' = Append(id_map, None)
                        /\ stack' = Append(stack, f) /\ phase' = next
                        /\ UNCHANGED <<ret, err>>

(* The frame on top becomes f, having consumed n bytes. *)
Updates(n, f, next) == /\ stack' = [stack EXCEPT ![Len(stack)] = f]
                       /\ pos' = pos + n /\ phase' = next /\ ret' = None
                       /\ UNCHANGED <<budget, id_map, err>>

(* Fault: no fill_id. *)
ClosesUnfilled(n, f) == /\ stack' = SubSeq(stack, 1, Len(stack) - 1)
                        /\ pos' = pos + n /\ phase' = "return" /\ ret' = ValueOf(f)
                        /\ UNCHANGED <<budget, id_map, err>>

(* Fault: fill_id of the newest id instead of the one that was reserved. *)
ClosesNewest(n, f) == /\ id_map' = [id_map EXCEPT ![Len(id_map)] = ValueOf(f)]
                      /\ stack' = SubSeq(stack, 1, Len(stack) - 1)
                      /\ pos' = pos + n /\ phase' = "return" /\ ret' = ValueOf(f)
                      /\ UNCHANGED <<budget, err>>

(* fill_id, then the return of the frame on top, with final contents f. *)
Closes(n, f) == /\ id_map' = [id_map EXCEPT ![f.id] = ValueOf(f)]
                /\ stack' = SubSeq(stack, 1, Len(stack) - 1)
                /\ pos' = pos + n /\ phase' = "return" /\ ret' = ValueOf(f)
                /\ UNCHANGED <<budget, err>>

-----------------------------------------------------------------------------
(* The two entry points: the version header, and Blink's envelope before it *)

Init == /\ phase \in {"envelope", "header"}
        /\ pos = 0 /\ budget = MaxNodes /\ id_map = <<>> /\ stack = <<>>
        /\ ret = None /\ err = "none"

Consumes(n, next) == /\ Has(n) /\ pos' = pos + n /\ phase' = next
                     /\ UNCHANGED <<budget, id_map, stack, ret, err>>

(* Without the envelope the header reads the same byte, which is not 0xFF. *)
ReadEnvelope ==
  /\ phase = "envelope"
  /\ \/ \E w \in Widths : Consumes(1 + w, "trailers")
     \/ Has(1) /\ Fail("BadVersion")
     \/ BadVarint(1)
     \/ Fail("Truncated")

(* Fault: the loop steps over nothing and waits for the end of the input. *)
ReadTrailersInPlace ==
  /\ phase = "trailers"
  /\ \/ Has(1) /\ UNCHANGED vars
     \/ ~Has(1) /\ Consumes(0, "header")

ReadTrailers ==
  /\ phase = "trailers"
  /\ \/ Consumes(1 + TrailerLen, "trailers")
     \/ Has(1) /\ Fail("Truncated")
     \/ Consumes(0, "header")

ReadVersionHeader ==
  /\ phase = "header"
  /\ \/ \E w \in Widths : Consumes(1 + w, "call")
     \/ Has(1) /\ Fail("BadVersion")
     \/ BadVarint(1)
     \/ Fail("Truncated")

-----------------------------------------------------------------------------
(* read_value: the checks before the tag, and every way the tag's own      *)
(* bytes can fail                                                          *)

DepthCapped == phase = "call" /\ Depth > MaxDepth /\ Fail("DepthCap")

NodeCapped == /\ phase = "call" /\ Depth <= MaxDepth /\ budget = 0
              /\ Fail("NodeCap")

(* The input ends before the tag, or inside what follows it. *)
CallTruncated == /\ phase = "call" /\ Depth <= MaxDepth /\ budget >= 1
                 /\ Fail("Truncated")

VarintTags == {"int32", "uint32", "bigint", "string", "utf16", "bigintobj", "buffer",
               "dense", "sparse", "reference"}

TagVarintBad == \E t \in VarintTags : Reads(t) /\ BadVarint(1)

UnsupportedTag == Reads("unsupported") /\ Fail("UnsupportedTag")

HostObject == Reads("host") /\ Fail("HostObject")

(* checked_len: the declared length a tag's varint carries. *)
DeclaredLen(t, u) == IF t \in {"bigint", "bigintobj"} THEN u \div 2 ELSE u

LengthCapped ==
  \E t \in VarintTags \ {"int32", "uint32", "reference"}, u \in Varints, w \in Widths :
    /\ Reads(t) /\ Has(1 + w)
    /\ DeclaredLen(t, u) > MaxNodes
    /\ Fail("LengthCap")

OddUtf16 == \E u \in Varints, w \in Widths :
              /\ Reads("utf16") /\ Has(1 + w)
              /\ u <= MaxNodes /\ u % 2 # 0
              /\ Fail("OddUtf16")

-----------------------------------------------------------------------------
(* read_value: the tags that call nothing *)

(* Fault: the tag is looked at and not taken. *)
ReadPrimitivePeeked == /\ Reads("primitive")
                       /\ Returns(0, 1, Primitive) /\ UNCHANGED id_map

(* undefined, null, the hole, true, false *)
ReadPrimitive == /\ Reads("primitive")
                 /\ Returns(1, 1, Primitive) /\ UNCHANGED id_map

(* read_zigzag, and the cast of an unsigned varint to i64. *)
ZigZag(u) == IF u % 2 = 0 THEN u \div 2 ELSE -(u \div 2) - 1
AsI64(u) == IF u < IntLimit THEN u ELSE u - 2 * IntLimit

ReadInt(t, u, w) ==
  /\ t \in {"int32", "uint32"} /\ Reads(t) /\ Has(1 + w)
  /\ Returns(1 + w, 1, Leaf("Int", IF t = "int32" THEN ZigZag(u) ELSE AsI64(u), 0))
  /\ UNCHANGED id_map

(* Fault: no check that the eight bytes are there. *)
ReadDoubleUnchecked == /\ Reads("double")
                       /\ Returns(1 + DoubleLen, 1, Leaf("Double", -1, 0)) /\ UNCHANGED id_map

ReadDouble == /\ Reads("double") /\ Has(1 + DoubleLen)
              /\ Returns(1 + DoubleLen, 1, Leaf("Double", -1, 0)) /\ UNCHANGED id_map

(* Fault: length and text are read ahead of the cursor, which stays put. *)
ReadStringInPlace(t, u, w) ==
  /\ t \in {"string", "utf16"} /\ Reads(t)
  /\ u <= MaxNodes /\ (t = "utf16" => u % 2 = 0) /\ Has(1 + w + u)
  /\ \E n \in Decoded(t, u) : Returns(1, 1, Leaf("String", -1, n))
  /\ UNCHANGED id_map

ReadString(t, u, w) ==
  /\ t \in {"string", "utf16"} /\ Reads(t)
  /\ u <= MaxNodes /\ (t = "utf16" => u % 2 = 0) /\ Has(1 + w + u)
  /\ \E n \in Decoded(t, u) : Returns(1 + w + u, 1, Leaf("String", -1, n))
  /\ UNCHANGED id_map

ReadBigInt(u, w) ==
  LET len == DeclaredLen("bigint", u)
  IN /\ Reads("bigint") /\ len <= MaxNodes /\ Has(1 + w + len)
     /\ \E n \in BigIntText(len) : Returns(1 + w + len, 1, Leaf("Other", -1, n))
     /\ UNCHANGED id_map

(* Objects without parts: reserve_id and fill_id in one handler. *)
ReturnsObject(n, v) == Returns(n, 1, v) /\ id_map' = Append(id_map, v)

(* Date and Number objects; Boolean objects; BigInt objects *)
ReadDate == /\ Reads("date") /\ Has(1 + DoubleLen)
            /\ ReturnsObject(1 + DoubleLen, Primitive)

ReadBooleanObject == Reads("boolobj") /\ ReturnsObject(1, Primitive)

ReadBigIntObject(u, w) ==
  LET len == DeclaredLen("bigintobj", u)
  IN /\ Reads("bigintobj") /\ len <= MaxNodes /\ Has(1 + w + len)
     /\ \E n \in BigIntText(len) : ReturnsObject(1 + w + len, Leaf("Other", -1, n))

ReadArrayBuffer(u, w) ==
  /\ Reads("buffer") /\ u <= MaxNodes /\ Has(1 + w + u)
  /\ ReturnsObject(1 + w + u, Leaf("Other", -1, u))

(* Fault: a clone costs what any other value does. *)
ReferenceAsLeaf(v) == 1

(* The object with id u, cloned; its nodes are charged on top of the one   *)
(* read_value charged.                                                     *)
ReferenceCost(v) == 1 + v.nodes

ReadReference(u, w) ==
  /\ Reads("reference") /\ Has(1 + w)
  /\ \/ /\ u + 1 \in DOMAIN id_map /\ id_map[u + 1] # None
        /\ \/ /\ ReferenceCost(id_map[u + 1]) <= budget
              /\ Returns(1 + w, ReferenceCost(id_map[u + 1]),
                         [id_map[u + 1] EXCEPT !.shared = TRUE])
              /\ UNCHANGED id_map
           \/ ReferenceCost(id_map[u + 1]) > budget /\ Fail("NodeCap")
     \/ /\ u + 1 \in DOMAIN id_map => id_map[u + 1] = None
        /\ Fail("BadReference")

-----------------------------------------------------------------------------
(* read_value: the tags that read parts *)

(* js_object, map and set loop until their end tag; regexp and string      *)
(* objects read one value first.                                           *)
BeginLoop == \/ Reads("object") /\ Opens(1, 1, NewFrame("object", "propkey", 0, 0), "loop")
             \/ Reads("map") /\ Opens(1, 1, NewFrame("map", "key", 0, 0), "loop")
             \/ Reads("set") /\ Opens(1, 1, NewFrame("set", "elem", 0, 0), "loop")

BeginWrapper ==
  \/ Reads("regexp") /\ Opens(1, 1, NewFrame("regexp", "source", 0, 0), "call")
  \/ Reads("stringobj") /\ Opens(1, 1, NewFrame("stringobj", "inner", 0, 0), "call")

BeginDenseArray(u, w) ==
  /\ Reads("dense") /\ Has(1 + w) /\ u <= MaxNodes
  /\ Opens(1 + w, 1, NewFrame("dense", "elem", u, 0), "loop")

(* Fault: the slots are not charged. *)
BeginSparseArrayFree(u, w) ==
  /\ Reads("sparse") /\ Has(1 + w) /\ u <= MaxNodes
  /\ Opens(1 + w, 1, NewFrame("sparse", "key", 0, u), "loop")

(* Every slot of a sparse array is charged before any is read. *)
BeginSparseArray(u, w) ==
  /\ Reads("sparse") /\ Has(1 + w) /\ u <= MaxNodes
  /\ \/ /\ 1 + u <= budget
        /\ Opens(1 + w, 1 + u, NewFrame("sparse", "key", 0, u), "loop")
     \/ 1 + u > budget /\ Fail("NodeCap")

-----------------------------------------------------------------------------
(* The loops *)

Looping(kinds) == phase = "loop" /\ Top.kind \in kinds

(* The next byte is not the end tag, or there is none: read_value finds out. *)
Continue == /\ \/ Looping({"object", "map", "set", "sparse"})
               \/ Looping({"dense"}) /\ Top.left > 0
            /\ phase' = "call"
            /\ UNCHANGED <<pos, budget, id_map, stack, ret, err>>

(* The end tag, then the trailing counts, which are read and not compared. *)
EndLoop ==
  /\ \/ /\ Looping({"object", "map", "set"})
        /\ \/ \E w \in Widths : Has(1 + w) /\ Closes(1 + w, Top)
           \/ BadVarint(1)
     \/ /\ Looping({"sparse"})
        /\ \/ \E w1, w2 \in Widths : Has(1 + w1 + w2) /\ Closes(1 + w1 + w2, Top)
           \/ \E w1 \in Widths : BadVarint(1 + w1)
           \/ BadVarint(1)

EndTruncated == /\ Looping({"object", "map", "set", "sparse"})
                /\ Has(1) /\ Fail("Truncated")

(* After the last element: the end tag and the number of named properties. *)
EndElements(n, w) ==
  /\ Looping({"dense"}) /\ Top.want = "elem" /\ Top.left = 0
  /\ \/ Has(1 + w) /\ Updates(1 + w, [Top EXCEPT !.want = "propkey", !.left = n], "loop")
     \/ Has(1) /\ Fail("UnsupportedTag")
     \/ BadVarint(1)

(* After the last property: the length again. *)
EndDenseArray(w) ==
  /\ Looping({"dense"}) /\ Top.want = "propkey" /\ Top.left = 0
  /\ \/ Has(w) /\ Closes(w, Top)
     \/ BadVarint(0)

DenseTruncated == Looping({"dense"}) /\ Top.left = 0 /\ Fail("Truncated")

-----------------------------------------------------------------------------
(* A value returns to the call that waits for it *)

Returning(wants) == phase = "return" /\ Len(stack) > 0 /\ Top.want \in wants

(* Elements of dense arrays and members of sets. *)
TakeElement ==
  /\ Returning({"elem"})
  /\ Updates(0, [Adopt(Top, ret) EXCEPT !.left = IF Top.kind = "dense" THEN @ - 1 ELSE @],
             "loop")

(* A map keeps its keys; a sparse array uses a key as an index. *)
TakeKey ==
  /\ Returning({"key"})
  /\ Updates(0, IF Top.kind = "map" THEN [Adopt(Top, ret) EXCEPT !.want = "value"]
                ELSE [Top EXCEPT !.want = "value", !.key = ret.number], "call")

TakeValue ==
  /\ Returning({"value"})
  /\ Updates(0, [IF Top.kind = "map" THEN Adopt(Top, ret) ELSE Store(Top, ret)
                   EXCEPT !.want = "key", !.key = -1], "loop")

IsKey(v) == v.type \in {"String", "Int", "Double"}

(* read_property_key; the properties of a dense array are read and dropped. *)
TakePropertyKey ==
  /\ Returning({"propkey"})
  /\ \/ \E n \in KeyText(ret) :
          Updates(0, [IF Top.kind = "object" THEN AdoptText(Top, n) ELSE Top
                        EXCEPT !.want = "propval"], "call")
     \/ ~IsKey(ret) /\ Fail("BadKey")

TakeProperty ==
  /\ Returning({"propval"})
  /\ Updates(0, [IF Top.kind = "object" THEN Adopt(Top, ret) ELSE [Top EXCEPT !.left = @ - 1]
                   EXCEPT !.want = "propkey"], "loop")

(* The source of a regexp, then its flags. *)
TakeSource ==
  /\ Returning({"source"})
  /\ \/ /\ ret.type = "String"
        /\ \/ \E w \in Widths : Has(w) /\ Closes(w, AdoptText(Top, ret.bytes))
           \/ BadVarint(0)
           \/ Fail("Truncated")
     \/ ret.type # "String" /\ Fail("BadKey")

TakeInner ==
  /\ Returning({"inner"})
  /\ \/ ret.type = "String" /\ Closes(0, AdoptText(Top, ret.bytes))
     \/ ret.type # "String" /\ Fail("UnsupportedTag")

(* read_value(0) returns: deserialize ignores what follows the value. *)
Finish == /\ phase = "return" /\ stack = <<>>
          /\ phase' = "done" /\ UNCHANGED <<pos, budget, id_map, stack, ret, err>>

(* Nothing runs after the call returned; only then may the reader rest. *)
Returned == phase \in {"done", "error"} /\ UNCHANGED vars

-----------------------------------------------------------------------------
ReadsVarint(u, w) ==
  \/ \E t \in {"int32", "uint32"} : ReadInt(t, u, w)
  \/ \E t \in {"string", "utf16"} : ReadString(t, u, w)
  \/ ReadBigInt(u, w) \/ ReadBigIntObject(u, w) \/ ReadArrayBuffer(u, w)
  \/ ReadReference(u, w) \/ BeginDenseArray(u, w) \/ BeginSparseArray(u, w)
  \/ EndElements(u, w)

Next ==
  \/ ReadEnvelope \/ ReadTrailers \/ ReadVersionHeader
  \/ DepthCapped \/ NodeCapped \/ CallTruncated \/ TagVarintBad
  \/ UnsupportedTag \/ HostObject \/ LengthCapped \/ OddUtf16
  \/ ReadPrimitive \/ ReadDouble \/ ReadDate \/ ReadBooleanObject
  \/ BeginLoop \/ BeginWrapper
  \/ \E u \in Varints, w \in Widths : ReadsVarint(u, w)
  \/ Continue \/ EndLoop \/ EndTruncated
  \/ \E w \in Widths : EndDenseArray(w)
  \/ DenseTruncated
  \/ TakeElement \/ TakeKey \/ TakeValue \/ TakePropertyKey \/ TakeProperty
  \/ TakeSource \/ TakeInner \/ Finish \/ Returned

(* deserialize is a sequential call that runs until it returns. *)
Spec == Init /\ [][Next]_vars /\ WF_vars(Next)

-----------------------------------------------------------------------------
(* Properties *)

(* Every variable stays in its type; a value is held exactly from the      *)
(* return of a read_value to its use.                                      *)
TypeOK ==
  /\ phase \in Phases
  /\ pos \in 0 .. InputLen
  /\ budget \in 0 .. MaxNodes
  /\ id_map \in Seq(Value \cup {None})
  /\ stack \in Seq(Frame)
  /\ ret \in Value \cup {None}
  /\ err \in Errors \cup {"none"}
  /\ phase = "error" <=> err # "none"
  /\ phase \in {"return", "done"} => ret # None
  /\ ret # None => phase \in {"return", "done", "error"}

(* The ids that are reserved and not filled are those of the calls in      *)
(* progress, in the order of the calls (reserve_id, fill_id): a reference  *)
(* met inside an object can never resolve to that object or to one around  *)
(* it, so no cyclic value is built, and when the outermost call returns    *)
(* every id is filled.                                                     *)
OpenIds ==
  /\ \A i \in DOMAIN id_map :
       id_map[i] = None <=> \E d \in DOMAIN stack : stack[d].id = i
  /\ \A d \in DOMAIN stack : stack[d].id \in DOMAIN id_map
  /\ \A d, e \in DOMAIN stack : d < e => stack[d].id < stack[e].id

(* charge: whatever read_value returns has no more nodes than the budget   *)
(* has paid, resolved references, the holes of sparse arrays and elements  *)
(* that were overwritten included.                                         *)
NodesCapped == ret # None => ret.nodes <= MaxNodes - budget

(* max_depth, "Maximum nesting depth of arrays/objects/maps/sets": without *)
(* references in it, no value with parts lies more than max_depth levels   *)
(* below the outermost one, whatever depth each handler passes on; a node  *)
(* without parts lies at most one level deeper, which is where the holes   *)
(* of a sparse array are.                                                  *)
NestingCapped ==
  ret # None /\ ~ret.shared => \A l \in ret.levels : Len(stack) + l <= MaxDepth

(* checked_len bounds the bytes of the input, not the text made of them:   *)
(* lossy decoding, decimal numerals and keys made of numbers all grow.     *)
(* Yet without references in it, a value carries no more than Growth bytes *)
(* for each byte of input that was read.                                   *)
PayloadRead == ret # None /\ ~ret.shared => ret.bytes <= Growth * pos

(* The sum of a sequence of numbers. *)
Total(ns) ==
  LET upTo[n \in 0 .. Len(ns)] == IF n = 0 THEN 0 ELSE upTo[n - 1] + ns[n]
  IN upTo[Len(ns)]

FilledNodes ==
  Total([i \in DOMAIN id_map |-> IF id_map[i] = None THEN 0 ELSE id_map[i].nodes])

(* id_map keeps a clone of every object next to the copies in the objects  *)
(* around it (fill_id): these clones are not charged, yet one node is in   *)
(* at most one clone for each level above it, so all of them together have *)
(* no more nodes than max_depth + 1 times what was charged.                *)
ClonesCapped == FilledNodes <= (MaxDepth + 1) * (MaxNodes - budget)

(* fill_id: an id is filled once, and what a reference to it yields never  *)
(* changes afterwards.                                                     *)
SlotsWrittenOnce ==
  [][\A i \in DOMAIN id_map :
       /\ i \in DOMAIN id_map'
       /\ id_map[i] # None => id_map'[i] = id_map[i]]_vars

(* The steps that may follow before the next byte is read, and in all: a   *)
(* value returns, its loop goes on, the next value is read; each call of   *)
(* read_value in progress returns once.                                    *)
BeforeByte == [envelope |-> 1, trailers |-> 2, header |-> 1, call |-> 1, loop |-> 2,
               return |-> 3, done |-> 0, error |-> 0]
StepsLeft == 3 * (InputLen - pos) + Len(stack) + BeforeByte[phase]

(* deserialize runs no more than three handlers for a byte of its input,   *)
(* whatever lengths and counts the input declares.                         *)
StepsPaid == [][StepsLeft' < StepsLeft]_vars

(* No input makes the reader run for ever: every loop consumes input or    *)
(* counts down.                                                            *)
Terminates == <>(phase \in {"done", "error"})
-----------------------------------------------------------------------------
(* The inductive invariant behind OpenIds, NodesCapped and NestingCapped *)

NodesOf(f) == f.nodes + f.upto[MaxNodes]

(* A frame waits for what its kind reads, and a dense array only for what  *)
(* is left of it; the stack never grows past the depth check, and the      *)
(* handlers count the depth as it is.                                      *)
ControlInv ==
  /\ phase = "loop" => stack # <<>>
  /\ Len(stack) <= MaxDepth + 1
  /\ \A d \in DOMAIN stack : stack[d].depth = d - 1
  /\ phase \in {"envelope", "trailers", "header"} => stack = <<>>
  /\ \A d \in DOMAIN stack :
       stack[d].kind = "dense" /\ (d < Len(stack) \/ phase \in {"call", "return"})
         => stack[d].left > 0
  /\ \A d \in DOMAIN stack :
       stack[d].want \in {"propkey", "propval"} => stack[d].kind \in {"object", "dense"}

(* upto is what it is said to be. *)
SlotSums ==
  \A d \in DOMAIN stack :
    LET f == stack[d]
    IN /\ Len(f.slots) <= MaxNodes /\ f.upto[0] = 0
       /\ \A i \in DOMAIN f.slots : f.upto[i] = f.upto[i - 1] + f.slots[i].nodes
       /\ \A j, k \in 0 .. MaxNodes : j <= k => f.upto[j] <= f.upto[k]

(* The nodes of a frame were paid for between its start and the start of   *)
(* the call it waits for; those of the last frame, with the value that is  *)
(* being returned to it, between its start and now.                        *)
NodesPaid ==
  \A d \in DOMAIN stack :
    IF d < Len(stack) THEN NodesOf(stack[d]) <= stack[d].base - stack[d + 1].base
    ELSE NodesOf(stack[d]) + (IF phase = "return" THEN ret.nodes ELSE 0)
           <= stack[d].base - budget

(* Frame d reads a value of depth d - 1. *)
FrameNesting ==
  \A d \in DOMAIN stack :
    /\ ~stack[d].shared => \A l \in stack[d].levels : d - 1 + l <= MaxDepth
    /\ \A i \in DOMAIN stack[d].slots :
         ~stack[d].slots[i].shared =>
           \A l \in stack[d].slots[i].levels : d + l <= MaxDepth

IInv == TypeOK /\ ControlInv /\ OpenIds /\ SlotSums /\ NodesPaid /\ NodesCapped
          /\ FrameNesting /\ NestingCapped
=============================================================================
