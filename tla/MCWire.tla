------------------------------- MODULE MCWire -------------------------------
(* Bounds under which TLC checks Wire, and a documented promise of         *)
(* read_varint.                                                            *)
EXTENDS Wire

(* BadVarint, "A varint ran past 10 bytes / would overflow `u64`",         *)
(* src/src/v8_value.rs:121: no value that needs more bits is returned.     *)
VarintOverflowRejected == phase = "length" => NumberOf(groups, GroupSize) < Modulus
=============================================================================
