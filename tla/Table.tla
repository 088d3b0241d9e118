------------------------------- MODULE Table -------------------------------
(***************************************************************************)
(* Table (boto/dynamodb2/table.py): a batch_write block, and then a scan,  *)
(* a batch_get or a count of what it has left in the table.                *)
(***************************************************************************)
EXTENDS BatchTable, ResultSet

vars == <<table, batchVars, resultVars>>

TypeOK == BatchTypeOK /\ ResultTypeOK

Init == BatchInit /\ ResultInit

\* While the block is open nothing is read; once it is left, its histories
\* have been judged.
BatchWrite == BatchNext /\ UNCHANGED resultVars

StartRead ==
    /\ block \in {"exited", "raised"}
    /\ Start
    /\ block' = "over"
    /\ to_put' = <<>>
    /\ to_delete' = <<>>
    /\ unprocessed' = <<>>
    /\ issued' = <<>>
    /\ applied' = {}
    /\ sent_back' = {}

Read == (NextCalled \/ CallStep) /\ UNCHANGED batchVars

Next == BatchWrite \/ StartRead \/ Read

Spec == Init /\ [][Next]_vars /\ WF_vars(CallStep /\ UNCHANGED batchVars)
=============================================================================
