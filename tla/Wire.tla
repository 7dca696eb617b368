-------------------------------- MODULE Wire --------------------------------
(***************************************************************************)
(* The numbers of the wire format, src/src/v8_value.rs: read_bigint, with  *)
(* the read_varint and the checked_len it calls and le_bytes_to_decimal,   *)
(* loop by loop.  The bytes of the input are chosen as they are read.      *)
(***************************************************************************)
EXTENDS Integers, Sequences

CONSTANTS
  GroupSize,  \* the payloads of a varint byte (2^7 in the code)
  Modulus,    \* the values of a u64 (2^64 in the code)
  MaxNodes,   \* V8Limits.max_nodes, the cap of checked_len
  Bytes       \* bound: the bytes a magnitude may hold

ASSUME WireAssumption ==
  /\ GroupSize \in Nat \ {0, 1} /\ Modulus \in Nat \ {0} /\ MaxNodes \in Nat
  /\ Bytes \subseteq 0 .. 255

VARIABLES
  phase,     \* what read_bigint does next
  groups,    \* history: the payloads of the varint's bytes
  result,    \* the varint so far
  weight,    \* 2^shift, the weight of its next byte
  digits,    \* the magnitude, least significant byte first
  byte,      \* the bytes of it that are still to be folded in
  decimal,   \* the decimal digits, least significant first
  place,     \* the digit the inner loop is at
  carry

vars == <<phase, groups, result, weight, digits, byte, decimal, place, carry>>

varint == <<groups, result, weight>>
rendering == <<digits, byte, decimal, place, carry>>

Phases == {"varint", "length", "take", "byte", "digit", "carry", "strip", "done",
           "Truncated", "BadVarint", "LengthCap"}

-----------------------------------------------------------------------------
(* read_varint *)

Init == /\ phase = "varint" /\ groups = <<>> /\ result = 0 /\ weight = 1
        /\ digits = <<>> /\ byte = 0 /\ decimal = <<0>> /\ place = 1 /\ carry = 0

BadVarint == /\ phase = "varint" /\ weight >= Modulus
             /\ phase' = "BadVarint" /\ UNCHANGED <<varint, rendering>>

Truncated == /\ phase = "varint" /\ weight < Modulus
             /\ phase' = "Truncated" /\ UNCHANGED <<varint, rendering>>

(* Fault: the payload is not shifted. *)
WithGroupUnshifted(p) == (result + p) % Modulus

(* u64: what is shifted past the width is lost. *)
WithGroup(p) == (result + p * weight) % Modulus

ReadGroup ==
  /\ phase = "varint" /\ weight < Modulus
  /\ \E p \in 0 .. GroupSize - 1, more \in BOOLEAN :
       /\ groups' = Append(groups, p) /\ result' = WithGroup(p)
       /\ IF more THEN weight' = weight * GroupSize /\ UNCHANGED phase
          ELSE phase' = "length" /\ UNCHANGED weight
  /\ UNCHANGED rendering

-----------------------------------------------------------------------------
(* read_bigint: the sign, the length and the magnitude *)

Negative == result % 2 = 1
ByteLen == result \div 2

LengthCapped == /\ phase = "length" /\ ByteLen > MaxNodes
                /\ phase' = "LengthCap" /\ UNCHANGED <<varint, rendering>>

Take ==
  /\ phase = "length" /\ ByteLen <= MaxNodes
  /\ \/ phase' = "Truncated" /\ UNCHANGED <<varint, rendering>>
     \/ /\ \E d \in [1 .. ByteLen -> Bytes] : digits' = d
        /\ byte' = ByteLen /\ phase' = "byte"
        /\ UNCHANGED <<varint, decimal, place, carry>>

-----------------------------------------------------------------------------
(* le_bytes_to_decimal *)

(* for &byte in bytes.iter().rev() *)
NextByte ==
  /\ phase = "byte"
  /\ IF byte > 0 THEN phase' = "digit" /\ carry' = digits[byte] /\ place' = 1
     ELSE phase' = "strip" /\ UNCHANGED <<carry, place>>
  /\ UNCHANGED <<varint, digits, byte, decimal>>

(* for d in &mut decimal *)
MulDigit ==
  /\ phase = "digit" /\ place <= Len(decimal)
  /\ LET v == decimal[place] * 256 + carry
     IN decimal' = [decimal EXCEPT ![place] = v % 10] /\ carry' = v \div 10
  /\ place' = place + 1 /\ UNCHANGED <<phase, varint, digits, byte>>

EndDigits == /\ phase = "digit" /\ place > Len(decimal)
             /\ phase' = "carry" /\ UNCHANGED <<varint, rendering>>

(* Fault: the carry is pushed once, whatever is left of it. *)
PushCarryOnce ==
  /\ phase = "carry" /\ carry > 0
  /\ decimal' = Append(decimal, carry % 10) /\ carry' = 0
  /\ UNCHANGED <<phase, varint, digits, byte, place>>

(* Fault: the carry is pushed whole, as if a byte were less than ten. *)
PushCarryWhole ==
  /\ phase = "carry" /\ carry > 0
  /\ decimal' = Append(decimal, carry) /\ carry' = 0
  /\ UNCHANGED <<phase, varint, digits, byte, place>>

(* Fault: the loop pushes before it tests. *)
PushCarryFirst ==
  /\ phase = "carry" /\ (carry > 0 \/ place = Len(decimal) + 1)
  /\ decimal' = Append(decimal, carry % 10) /\ carry' = carry \div 10
  /\ UNCHANGED <<phase, varint, digits, byte, place>>

(* Fault: the digit is pushed and the carry not divided. *)
PushCarryStuck ==
  /\ phase = "carry" /\ carry > 0
  /\ decimal' = Append(decimal, carry % 10)
  /\ UNCHANGED <<phase, varint, digits, byte, place, carry>>

(* while carry > 0 *)
PushCarry ==
  /\ phase = "carry" /\ carry > 0
  /\ decimal' = Append(decimal, carry % 10) /\ carry' = carry \div 10
  /\ UNCHANGED <<phase, varint, digits, byte, place>>

EndByte == /\ phase = "carry" /\ carry = 0
           /\ phase' = "byte" /\ byte' = byte - 1
           /\ UNCHANGED <<varint, digits, decimal, place, carry>>

LeadingZero == Len(decimal) > 1 /\ decimal[Len(decimal)] = 0

(* The defensive loop that strips leading zeros, then the rendering. *)
Strip == /\ phase = "strip"
         /\ IF LeadingZero THEN decimal' = SubSeq(decimal, 1, Len(decimal) - 1) /\ UNCHANGED phase
            ELSE phase' = "done" /\ UNCHANGED decimal
         /\ UNCHANGED <<varint, digits, byte, place, carry>>

(* A zero is never negative. *)
Minus == Negative /\ decimal # <<0>>

Returned == phase \in {"done", "Truncated", "BadVarint", "LengthCap"} /\ UNCHANGED vars

Next == \/ BadVarint \/ Truncated \/ ReadGroup \/ LengthCapped \/ Take \/ NextByte
        \/ MulDigit \/ EndDigits \/ PushCarry \/ EndByte \/ Strip \/ Returned

Spec == Init /\ [][Next]_vars

-----------------------------------------------------------------------------
(* Properties *)

(* Every variable stays in its type: a carry is less than a byte, so that  *)
(* d * 256 + carry never comes near the width of the u32 it is computed    *)
(* in, and every digit is a decimal one.                                   *)
TypeOK ==
  /\ phase \in Phases
  /\ groups \in Seq(Nat) /\ result \in Nat /\ weight \in Int
  /\ digits \in Seq(0 .. 255) /\ byte \in 0 .. Len(digits)
  /\ decimal \in Seq(0 .. 9) /\ decimal # <<>>
  /\ place \in 1 .. Len(decimal) + 1
  /\ carry \in 0 .. 255

(* le_bytes_to_decimal: "the loop never fires", src/src/v8_value.rs:       *)
(* 823-832; whenever a byte has been folded in, the top digit is not a     *)
(* zero, unless it is the only one.                                        *)
NoLeadingZero == phase \in {"byte", "strip", "done"} => ~LeadingZero

(* The numbers that digits in base b stand for, least significant first:   *)
(* at i, the one of the digits from i to n with the number top above them. *)
Above(ds, b, n, top) ==
  LET from[i \in 1 .. n + 1] == IF i = n + 1 THEN top ELSE ds[i] + b * from[i + 1]
  IN  from

NumberOf(ds, b) == Above(ds, b, Len(ds), 0)[1]

(* The weight of a digit over n others: a one over n zeros. *)
WeightOver(n, b) == Above([i \in 1 .. n |-> 0], b, n, 1)[1]

(* read_varint: the value is what the groups spell, as far as the width    *)
(* reaches, and no more bytes are read than the width needs.               *)
VarintSpelled ==
  groups # <<>> =>
    /\ WeightOver(Len(groups) - 1, GroupSize) < Modulus
    /\ result = NumberOf(groups, GroupSize) % Modulus

(* le_bytes_to_decimal and read_bigint: the text is the decimal numeral of *)
(* the little-endian magnitude, with a minus sign when the low bit of the  *)
(* bitfield asks for one and the magnitude is not zero.                    *)
RendersMagnitude ==
  phase = "done" =>
    /\ NumberOf(decimal, 10) = NumberOf(digits, 256)
    /\ Minus <=> Negative /\ \E i \in DOMAIN digits : digits[i] # 0

(* The digits the carry still pushes; it is less than a byte. *)
Pushes(c) == IF c = 0 THEN 0 ELSE IF c < 10 THEN 1 ELSE IF c < 100 THEN 2 ELSE 3

(* The most steps that fold n bytes into len digits, and strip what may be *)
(* stripped: each byte visits every digit and adds three at most.          *)
Folding(n, len) == n * (len + 3 * n + 6) + len + 3 * n + 2

(* The steps that remain, before the call returns. *)
StepsLeft ==
  LET len == Len(decimal)
  IN CASE phase = "varint" -> Folding(MaxNodes, 1) + 2
                                + (IF weight < Modulus THEN Modulus - weight ELSE 0)
       [] phase = "length" -> Folding(MaxNodes, 1) + 1
       [] phase = "byte"   -> Folding(byte, len)
       [] phase = "digit"  -> Folding(byte - 1, len + 3) + (len - place) + 6
       [] phase = "carry"  -> Folding(byte - 1, len + Pushes(carry)) + Pushes(carry) + 1
       [] phase = "strip"  -> len + 1
       [] OTHER            -> 0

(* read_bigint: a magnitude of n bytes, and max_nodes is four million,     *)
(* costs a number of steps that is quadratic in n and no more: every step  *)
(* of its three nested loops comes nearer the end, whatever the bytes are. *)
StepsPaid == [][StepsLeft' < StepsLeft]_vars
-----------------------------------------------------------------------------
(* The inductive invariant *)

(* le_bytes_to_decimal starts from a single zero, and its inner loops run  *)
(* for a byte of the magnitude.                                            *)
LoopInv ==
  /\ phase \in {"varint", "length"} => decimal = <<0>>
  /\ phase \in {"digit", "carry"} => byte > 0

(* Between two bytes the top digit is not zero; the inner loop leaves it   *)
(* alone until it gets there, and when it makes it zero it leaves a carry. *)
TopInv ==
  /\ phase \in {"byte", "strip", "done"} => ~LeadingZero
  /\ phase = "digit" /\ place <= Len(decimal) => ~LeadingZero
  /\ (phase = "digit" /\ place > Len(decimal)) \/ phase = "carry" =>
       carry > 0 \/ ~LeadingZero

ShapeInv == TypeOK /\ LoopInv /\ TopInv

(* While the groups are read, weight is the weight of the next one.        *)
VarintInv ==
  /\ phase = "varint" => weight = WeightOver(Len(groups), GroupSize)
  /\ groups # <<>> => WeightOver(Len(groups) - 1, GroupSize) < Modulus
  /\ result = NumberOf(groups, GroupSize) % Modulus

(* The magnitude above its lowest k bytes. *)
HighBytes(k) == Above(digits, 256, Len(digits), 0)[k + 1]

(* Between two bytes the decimal digits stand for the bytes folded in.     *)
(* Within the inner loop the digits below place, with the carry and 256    *)
(* times the digits not yet reached above them, stand for one byte more;   *)
(* and so do all the digits with the carry above them once it has ended.   *)
ValueInv ==
  /\ phase = "byte" => NumberOf(decimal, 10) = HighBytes(byte)
  /\ phase = "digit" =>
       LET rest == Above(decimal, 10, Len(decimal), 0)[place]
       IN  Above(decimal, 10, place - 1, carry + 256 * rest)[1] = HighBytes(byte - 1)
  /\ phase = "carry" =>
       Above(decimal, 10, Len(decimal), carry)[1] = HighBytes(byte - 1)
  /\ phase \in {"strip", "done"} => NumberOf(decimal, 10) = NumberOf(digits, 256)

IInv == ShapeInv /\ VarintInv /\ ValueInv
=============================================================================
