------------------------------ MODULE V8Ledger ------------------------------
(* V8Reader as an implementation of Ledger: what the budget has lost, what *)
(* id_map holds and which calls wait, without tags, bytes and nesting.     *)
EXTENDS V8Reader

ASSUME NoneAssumption == None \notin Nat

Spent == MaxNodes - budget

Ids == [i \in 1 .. Len(id_map) |-> IF id_map[i] = None THEN None ELSE id_map[i].nodes]

Calls == [d \in 1 .. Len(stack) |->
            [id |-> stack[d].id, since |-> MaxNodes - stack[d].base]]

Outcome == CASE phase = "done" -> [status |-> "returned", nodes |-> ret.nodes]
             [] phase = "error" -> [status |-> "refused", nodes |-> 0]
             [] OTHER -> [status |-> "running", nodes |-> 0]

L == INSTANCE Ledger WITH Cap <- MaxNodes, Pending <- None, spent <- Spent,
                          ids <- Ids, calls <- Calls, outcome <- Outcome

(* Every handler of read_value, its failures and its clones included, does *)
(* what Ledger promises, and the call ends: charge comes before the node,  *)
(* reserve_id and fill_id nest, and no object ends with more nodes than    *)
(* were charged since its id was reserved.                                 *)
KeepsLedger == L!Spec
=============================================================================
