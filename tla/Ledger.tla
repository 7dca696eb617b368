------------------------------- MODULE Ledger -------------------------------
(***************************************************************************)
(* What the structured-clone reader of src/src/v8_value.rs promises of the *)
(* memory it hands out, whatever the tags are: a node is paid for before   *)
(* it exists, no more than Cap of them are; objects get their ids in the   *)
(* order they begin, and end in the opposite order with no more nodes than *)
(* were paid since they began; only a finished object is shared, and a     *)
(* share pays for all of it again; the call ends with a value that was     *)
(* paid for or with a refusal.                                             *)
(***************************************************************************)
EXTENDS Integers, Sequences

CONSTANTS
  Cap,       \* V8Limits.max_nodes
  Pending    \* an id whose object has not ended

VARIABLES
  spent,     \* nodes paid for
  ids,       \* ids[i]: the nodes of the object with id i - 1, or Pending
  calls,     \* the objects that have begun and not ended, outermost first
  outcome    \* how the call ended, if it did

vars == <<spent, ids, calls, outcome>>

Ended(status, n) == [status |-> status, nodes |-> n]
Running == Ended("running", 0)

Init == spent = 0 /\ ids = <<>> /\ calls = <<>> /\ outcome = Running

(* charge: n more nodes, if that many are left. *)
Pay(n) == /\ outcome = Running /\ spent + n <= Cap
          /\ spent' = spent + n /\ UNCHANGED outcome

Plain == Pay(1) /\ UNCHANGED <<ids, calls>>

(* An object without parts ends where it begins. *)
Whole == Pay(1) /\ ids' = Append(ids, 1) /\ UNCHANGED calls

(* read_reference: one node for the reference, and the object's own. *)
Share(i) == /\ ids[i] # Pending /\ Pay(1 + ids[i])
            /\ UNCHANGED <<ids, calls>>

(* reserve_id, with n nodes paid at once. *)
Open(n) == /\ Pay(n) /\ ids' = Append(ids, Pending)
           /\ calls' = Append(calls, [id |-> Len(ids) + 1, since |-> spent])

(* fill_id of the object that began last. *)
Close(n) == /\ outcome = Running /\ calls # <<>>
            /\ n <= spent - calls[Len(calls)].since
            /\ ids' = [ids EXCEPT ![calls[Len(calls)].id] = n]
            /\ calls' = SubSeq(calls, 1, Len(calls) - 1)
            /\ UNCHANGED <<spent, outcome>>

Return(n) == /\ outcome = Running /\ calls = <<>> /\ n <= spent
             /\ outcome' = Ended("returned", n) /\ UNCHANGED <<spent, ids, calls>>

Refuse == /\ outcome = Running /\ outcome' = Ended("refused", 0)
          /\ UNCHANGED <<spent, ids, calls>>

Next == \/ Plain \/ Whole \/ Refuse
        \/ \E i \in DOMAIN ids : Share(i)
        \/ \E n \in 1 .. Cap : Open(n) \/ Close(n) \/ Return(n)

Safety == Init /\ [][Next]_vars

Spec == Safety /\ <>(outcome # Running)
=============================================================================
