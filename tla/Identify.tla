------------------------------ MODULE Identify ------------------------------
(***************************************************************************)
(* The recursive identifier of src/src/identify.rs: identify_with_limits   *)
(* runs its detectors in order, a detector that unwraps a payload calls    *)
(* identify_with_limits on it through build_chain, and the candidates are  *)
(* sorted best first.                                                      *)
(*                                                                         *)
(* A blob is its size and its lead, the class of its first bytes and of    *)
(* its text, which decides which detectors can answer together.  What the  *)
(* external decoders make of it (a parse that fails, the size of a         *)
(* payload) is chosen when its detector runs, and the payload's own lead   *)
(* when it is identified.  A candidate is the sequence of its links, from  *)
(* the outermost wrapper to the best reading of the innermost payload:     *)
(* Candidate.inner.best is the rest of the sequence.                       *)
(***************************************************************************)
EXTENDS Integers, Sequences

CONSTANTS
  MaxDepth, MaxOutput, MaxInput,   \* Limits
  Width,                           \* usize is the numbers below it (2^64)
  Sizes,                           \* bound: the sizes of blobs and payloads
  Leads,                           \* bound: the classes of content
  Depths                           \* bound: the depths identify is called with

Low == 1
Medium == 2
High == 3

LeadMin == [bplist |-> 6, xml |-> 6, gzip |-> 2, zlib |-> 2, snappy |-> 10, json |-> 2,
            uuid |-> 36, v8 |-> 3, blink |-> 3, ascii |-> 1, bom |-> 4, text |-> 1,
            binary |-> 0]

ASSUME IdentifyAssumption ==
  /\ Width \in Nat \ {0} /\ MaxDepth \in 0 .. Width - 1 /\ Depths \subseteq 0 .. Width - 1
  /\ MaxOutput \in Nat /\ MaxInput \in Nat /\ Sizes \subseteq Nat
  /\ Leads \subseteq DOMAIN LeadMin

Kinds == {"BinaryPlist", "XmlPlist", "Gzip", "Zlib", "Snappy", "Base64", "Hex", "Uuid",
          "Json", "Protobuf", "V8Serialized", "BlinkSerialized", "Utf16Le", "Utf8Text",
          "Unknown"}

Wrappers == {"Gzip", "Zlib", "Snappy", "Base64", "Hex"}

Link == [kind : Kinds, score : {Low, Medium, High},
         len : Nat, capped : BOOLEAN]      \* of the payload, 0 and FALSE for a leaf

(* The order of the detectors; those from Heuristics on need max_input. *)
Detectors == <<"BinaryPlist", "XmlPlist", "Gzip", "Zlib", "Snappy", "Json", "UuidString",
               "V8", "Base64", "Hex", "UuidBytes", "Utf16Le", "Utf8Text", "Protobuf">>
Heuristics == 9
Done == Len(Detectors) + 1

VARIABLES
  stack,    \* the calls of identify_with_limits in progress, outermost first
  result,   \* the candidates the outermost call returned, {} before
  calls     \* history: the calls of identify_with_limits made so far

vars == <<stack, result, calls>>

-----------------------------------------------------------------------------
(* Candidates and their order *)

KindRank(k) == CASE k \in {"Base64", "Hex"} -> 2
                 [] k \in {"Protobuf", "Utf16Le", "Utf8Text"} -> 1
                 [] k = "Unknown" -> 0
                 [] OTHER -> 3

(* The kinds in the order of their labels. *)
ByLabel == <<"XmlPlist", "BinaryPlist", "BlinkSerialized", "Json", "Protobuf", "Snappy",
             "Utf16Le", "Utf8Text", "Uuid", "V8Serialized", "Base64", "Gzip", "Hex",
             "Unknown", "Zlib">>
LabelPosition(k) == CHOOSE i \in DOMAIN ByLabel : ByLabel[i] = k

Kind(c) == c[1].kind
Score(c) == c[1].score

(* Fault: no comparison of the labels. *)
SortsBeforeByRank(a, b) ==
  \/ Score(a) > Score(b)
  \/ Score(a) = Score(b) /\ KindRank(Kind(a)) > KindRank(Kind(b))

SortsBefore(a, b) ==
  \/ Score(a) > Score(b)
  \/ /\ Score(a) = Score(b)
     /\ \/ KindRank(Kind(a)) > KindRank(Kind(b))
        \/ /\ KindRank(Kind(a)) = KindRank(Kind(b))
           /\ LabelPosition(Kind(a)) < LabelPosition(Kind(b))

Best(out) == CHOOSE c \in out : \A d \in out \ {c} : SortsBefore(c, d)

Leaf(k, s) == <<[kind |-> k, score |-> s, len |-> 0, capped |-> FALSE]>>

DepthCapped == Leaf("Unknown", Low)
Unknown == Leaf("Unknown", Low)

WrapperScore(inner) == IF inner \in {"Unknown", "Utf8Text", "Utf16Le"} THEN Low ELSE Medium

(* A magic wrapper that decoded is High; base64 and hex depend on what     *)
(* the payload is.                                                         *)
Wrapper(k, len, capped, best) ==
  <<[kind |-> k, score |-> IF k \in {"Base64", "Hex"} THEN WrapperScore(Kind(best)) ELSE High,
     len |-> len, capped |-> capped]>> \o best

-----------------------------------------------------------------------------
(* What the detectors can answer *)

(* The detector whose magic or parse makes the lead always answers, and    *)
(* any 16 bytes are a UUID.                                                *)
Answers(f, d) ==
  \/ <<f.lead, d>> \in {<<"bplist", "BinaryPlist">>, <<"xml", "XmlPlist">>, <<"gzip", "Gzip">>,
                        <<"zlib", "Zlib">>, <<"snappy", "Snappy">>, <<"json", "Json">>,
                        <<"uuid", "UuidString">>, <<"v8", "V8">>, <<"blink", "V8">>}
  \/ d = "UuidBytes" /\ f.size = 16

(* Leaf readings: what parsed is High, a magic that did not parse Medium.  *)
(* A text that begins with 80 has the header of zlib.                      *)
(* Half of the units of UTF-16LE text without a BOM are ASCII, and the     *)
(* same bytes have too many NULs to be UTF-8 text.                         *)
LeafReadings(f, d) ==
  CASE d = "BinaryPlist" /\ f.lead = "bplist" -> {Leaf(d, s) : s \in {Medium, High}}
    [] d = "XmlPlist" /\ f.lead = "xml" -> {Leaf(d, s) : s \in {Medium, High}}
    [] d = "Gzip" /\ f.lead = "gzip" -> {Leaf(d, Medium)}
    [] d = "Snappy" /\ f.lead = "snappy" -> {Leaf(d, Medium)}
    [] d = "Json" /\ f.lead = "json" -> {Leaf(d, High)}
    [] d = "UuidString" /\ (f.lead = "uuid" \/ (f.lead = "zlib" /\ f.size >= 36)) ->
         {Leaf("Uuid", High)}
    [] d = "V8" /\ f.lead = "v8" -> {Leaf("V8Serialized", s) : s \in {Medium, High}}
    [] d = "V8" /\ f.lead = "bom" ->
         {Leaf(k, s) : k \in {"V8Serialized", "BlinkSerialized"}, s \in {Medium, High}}
    [] d = "V8" /\ f.lead = "blink" -> {Leaf("BlinkSerialized", s) : s \in {Medium, High}}
    [] d = "UuidBytes" /\ f.size = 16 -> {Leaf("Uuid", Low)}
    [] d = "Utf16Le" /\ f.lead \notin {"json", "uuid", "ascii", "text"}
         /\ f.size >= 4 /\ f.size % 2 = 0 ->
         {Leaf(d, IF f.lead = "bom" THEN Medium ELSE Low)}
    [] d = "Utf8Text" /\ f.lead \in {"bplist", "xml", "zlib", "json", "uuid", "ascii", "text"}
         /\ Leaf("Utf16Le", Low) \notin f.out -> {Leaf(d, Low)}
    [] OTHER -> {}

(* Whole-input messages with a field; 0x1f and 0xff start no valid tag.    *)
ParsesAsProtobuf(f) ==
  f.size > 0 /\ f.lead \notin {"gzip", "snappy", "v8", "blink", "bom"}

(* Fault: a decompression that stops only at the end of its stream. *)
PayloadsUncapped(f, d) ==
  IF d \in {"Gzip", "Zlib", "Snappy"} /\ f.lead \in {"gzip", "zlib", "snappy"}
  THEN {[len |-> n, capped |-> FALSE] : n \in Sizes}
  ELSE {}

(* The payloads a wrapper can decode to: decompression stops at max_output *)
(* (bounded_read), the text decodings are as long as the text makes them.  *)
Payloads(f, d) ==
  CASE d \in {"Gzip", "Zlib", "Snappy"} /\ f.lead = [Gzip |-> "gzip", Zlib |-> "zlib",
                                                     Snappy |-> "snappy"][d] ->
         {[len |-> n, capped |-> FALSE] : n \in {s \in Sizes : s <= MaxOutput}}
           \cup {[len |-> MaxOutput, capped |-> TRUE]}
    [] d = "Base64" /\ f.lead \in {"bplist", "zlib", "uuid", "ascii"} /\ f.size >= 8 ->
         {[len |-> n, capped |-> FALSE] : n \in {s \in Sizes : s >= 4 /\ 4 * s <= 3 * f.size}}
    [] d = "Hex" /\ f.lead \in {"zlib", "ascii"} /\ f.size >= 4 ->
         {[len |-> n, capped |-> FALSE] : n \in {s \in Sizes : s >= 2 /\ 2 * s <= f.size}}
    [] OTHER -> {}

-----------------------------------------------------------------------------
(* identify_with_limits *)

Frame == [size : Nat, lead : DOMAIN LeadMin, depth : 0 .. Width - 1, next : 1 .. Done,
          out : SUBSET Seq(Link), len : Nat, capped : BOOLEAN]

Enter(size, lead, depth) ==
  [size |-> size, lead |-> lead, depth |-> depth, next |-> 1, out |-> {},
   len |-> 0, capped |-> FALSE]

Init == /\ \E s \in Sizes, l \in Leads, d \in Depths :
             s >= LeadMin[l] /\ stack = <<Enter(s, l, d)>>
        /\ result = {} /\ calls = 1

Top == stack[Len(stack)]

Running == Len(stack) > 0 /\ Top.next < Done
             /\ (Top.next >= Heuristics => Top.size <= MaxInput)

Detector == Detectors[Top.next]

Replace(f) == stack' = [stack EXCEPT ![Len(stack)] = f]

(* push(&mut out, detect_..(..)) *)
Pushes(c) == /\ Replace([Top EXCEPT !.next = @ + 1, !.out = @ \cup c])
             /\ UNCHANGED <<result, calls>>

NoReading == Running /\ ~Answers(Top, Detector) /\ Pushes({})

LeafReading == Running /\ \E c \in LeafReadings(Top, Detector) : Pushes({c})

(* Fault: strong_present is ignored. *)
ProtobufScoreAlone(structured, out) == IF structured THEN Medium ELSE Low

(* Protobuf is downgraded when a High reading came before it. *)
ProtobufScore(structured, out) ==
  IF structured /\ ~\E c \in out : Score(c) = High THEN Medium ELSE Low

ProtobufReading ==
  /\ Running /\ Detector = "Protobuf" /\ ParsesAsProtobuf(Top)
  /\ \E structured \in BOOLEAN :
       Pushes({Leaf("Protobuf", ProtobufScore(structured, Top.out))})

(* The depth of a payload, in a build without overflow checks. *)
Deeper(f) == (f.depth + 1) % Width

(* Fault: the cap is compared with the depth of the wrapper. *)
AtDepthCapLate(f) == f.depth >= MaxDepth

(* build_chain at the cap: the payload is not identified. *)
AtDepthCap(f) == Deeper(f) >= MaxDepth

UnwrapCapped ==
  /\ Running /\ AtDepthCap(Top)
  /\ \E p \in Payloads(Top, Detector) :
       Pushes({Wrapper(Detector, p.len, p.capped, DepthCapped)})

(* build_chain below the cap: a call of identify_with_limits. *)
Unwrap ==
  /\ Running /\ ~AtDepthCap(Top)
  /\ \E p \in Payloads(Top, Detector), l \in Leads :
       /\ p.len >= LeadMin[l]
       /\ stack' = Append([stack EXCEPT ![Len(stack)].len = p.len,
                                        ![Len(stack)].capped = p.capped],
                          Enter(p.len, l, Deeper(Top)))
  /\ calls' = calls + 1 /\ UNCHANGED result

SkipHeuristics ==
  /\ Len(stack) > 0 /\ Top.next = Heuristics /\ Top.size > MaxInput
  /\ Replace([Top EXCEPT !.next = Done]) /\ UNCHANGED <<result, calls>>

(* Fault: no Unknown when nothing matched. *)
CandidatesOnly(f) == f.out

Candidates(f) == IF f.out = {} THEN {Unknown} ELSE f.out

(* A nested call returns: the best of its candidates goes into the chain   *)
(* of the wrapper that made it.                                            *)
Return ==
  /\ Len(stack) > 1 /\ Top.next = Done
  /\ LET up == stack[Len(stack) - 1]
         c == Wrapper(Detectors[up.next], up.len, up.capped, Best(Candidates(Top)))
     IN stack' = Append(SubSeq(stack, 1, Len(stack) - 2),
                        [up EXCEPT !.next = @ + 1, !.out = @ \cup {c},
                                   !.len = 0, !.capped = FALSE])
  /\ UNCHANGED <<result, calls>>

Finish == /\ Len(stack) = 1 /\ Top.next = Done
          /\ result' = Candidates(Top) /\ stack' = <<>> /\ UNCHANGED calls

Returned == stack = <<>> /\ UNCHANGED vars

Step == \/ NoReading \/ LeafReading \/ ProtobufReading \/ UnwrapCapped \/ Unwrap
        \/ SkipHeuristics \/ Return \/ Finish

Next == Step \/ Returned

Spec == Init /\ [][Next]_vars

-----------------------------------------------------------------------------
(* Properties *)

(* Calls, candidates and results keep their types; a result is never       *)
(* empty and every link but the last of a candidate is a wrapper.          *)
TypeOK ==
  /\ stack \in Seq(Frame) /\ result \in SUBSET Seq(Link) /\ calls \in Nat
  /\ stack = <<>> /\ calls > 0 => result # {}
  /\ \A c \in result : Len(c) > 0 /\ \A i \in 1 .. Len(c) - 1 : c[i].kind \in Wrappers

(* No result names a kind twice, so the comparator orders the candidates   *)
(* strictly: the sort has one outcome, and the head is the best.           *)
StrictlySorted ==
  \A a, b \in result : a # b => Kind(a) # Kind(b) /\ (SortsBefore(a, b) \/ SortsBefore(b, a))

(* detect_protobuf runs last: a protobuf reading is Medium only when no    *)
(* candidate of the whole result is High, and it never sorts before a      *)
(* rank-3 or rank-2 kind of its own confidence.                            *)
ProtobufYields ==
  \A p \in result : Kind(p) = "Protobuf" =>
    /\ Score(p) = Medium => \A c \in result : Score(c) # High
    /\ Score(p) # High
    /\ \A c \in result : Score(c) >= Score(p) /\ KindRank(Kind(c)) >= 2 => SortsBefore(c, p)

(* The wrappers a call can unwrap, one in another. *)
Levels(f) == IF AtDepthCap(f) THEN 1 ELSE MaxDepth - Deeper(f) + 1

(* build_chain: a call at depth d returns no chain of more than            *)
(* max_depth - d wrappers, or of one when the cap is reached at once, and  *)
(* no call but the first starts at max_depth.  A first call at the largest *)
(* depth wraps to depth 0 and adds one level, no more.                     *)
ChainBounded ==
  \A i \in DOMAIN stack :
    /\ \A c \in stack[i].out : Len(c) - 1 <= Levels(stack[i])
    /\ Len(stack) - i < Levels(stack[i])
    /\ i > 1 => stack[i].depth < MaxDepth

(* The nodes of a ternary tree that is levels deep. *)
Tree[levels \in Nat] == IF levels <= 1 THEN 1 ELSE 1 + 3 * Tree[levels - 1]

(* A blob is unwrapped at most three times, as zlib, base64 and hex, and   *)
(* the depth cap ends the nesting: whatever the payloads are, a gzip that  *)
(* contains itself included, the calls that identify a blob are no more    *)
(* than a ternary tree that is as deep as its chains are long.             *)
WorkBounded == stack # <<>> => calls <= Tree[Levels(stack[1])]

(* "no OOM", src/src/identify.rs:6-7: whatever the nesting of compressions *)
(* and text decodings, no payload is longer than both the outermost input  *)
(* and max_output, and one that was cut is the whole of max_output.        *)
PayloadsBounded ==
  \A i \in DOMAIN stack :
    LET held(n) == n <= stack[1].size \/ n <= MaxOutput
    IN /\ held(stack[i].size)
       /\ \A c \in stack[i].out : \A k \in DOMAIN c :
            held(c[k].len) /\ (c[k].capped => c[k].len = MaxOutput)
=============================================================================
