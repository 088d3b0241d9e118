---------------------------- MODULE DynamoTable ----------------------------
(***************************************************************************)
(* A DynamoDB table at the service, as boto/dynamodb2/table.py uses it.    *)
(***************************************************************************)
EXTENDS Integers, FiniteSets

CONSTANTS Key,      \* in the order a scan evaluates them
          Absent    \* a key without an item

ASSUME DynamoTableAssumption == Key \subseteq Nat /\ IsFiniteSet(Key) /\ Absent \notin Nat

VARIABLE table      \* per key, the put its item is of, by the place of that

TableTypeOK == table \in [Key -> Nat \cup {Absent}]

TableInit == table = [k \in Key |-> Absent]

Present == {k \in Key : table[k] # Absent}
=============================================================================
