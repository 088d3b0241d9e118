------------------------------ MODULE Clients ------------------------------
(***************************************************************************)
(* Seven components that share state through a service or within a         *)
(* process, and not with one another: a behaviour is that of one of them,  *)
(* which part names, while the others stay as they started.                *)
(***************************************************************************)
EXTENDS Task, Service, Sequence, Provider, DynamoItem, BucketList, KeySender

VARIABLE part

vars == <<part, taskVars, serviceVars, sequenceVars, providerVars, itemVars, bucketVars,
          senderVars>>

TypeOK ==
    /\ TaskTypeOK /\ ServiceTypeOK /\ SequenceTypeOK /\ ProviderTypeOK
    /\ ItemTypeOK /\ BucketTypeOK /\ SenderTypeOK

Init ==
    /\ part \in {"task", "service", "sequence", "provider", "items", "bucket", "sender"}
    /\ TaskInit /\ ServiceInit /\ SequenceInit /\ ProviderInit
    /\ ItemInit /\ BucketInit /\ SenderInit

TaskStep ==
    /\ part = "task" /\ TaskNext
    /\ UNCHANGED <<serviceVars, sequenceVars, providerVars, itemVars, bucketVars, senderVars>>

ServiceStep ==
    /\ part = "service" /\ ServiceNext
    /\ UNCHANGED <<taskVars, sequenceVars, providerVars, itemVars, bucketVars, senderVars>>

SequenceStep ==
    /\ part = "sequence" /\ SequenceNext
    /\ UNCHANGED <<taskVars, serviceVars, providerVars, itemVars, bucketVars, senderVars>>

ProviderStep ==
    /\ part = "provider" /\ ProviderNext
    /\ UNCHANGED <<taskVars, serviceVars, sequenceVars, itemVars, bucketVars, senderVars>>

ItemStep ==
    /\ part = "items" /\ ItemNext
    /\ UNCHANGED <<taskVars, serviceVars, sequenceVars, providerVars, bucketVars, senderVars>>

BucketStep ==
    /\ part = "bucket" /\ BucketNext
    /\ UNCHANGED <<taskVars, serviceVars, sequenceVars, providerVars, itemVars, senderVars>>

SenderStep ==
    /\ part = "sender" /\ SenderNext
    /\ UNCHANGED <<taskVars, serviceVars, sequenceVars, providerVars, itemVars, bucketVars>>

Next == /\ UNCHANGED part
        /\ \/ TaskStep \/ ServiceStep \/ SequenceStep \/ ProviderStep
           \/ ItemStep \/ BucketStep \/ SenderStep

Spec == Init /\ [][Next]_vars
=============================================================================
