------------------------------ MODULE Glacier ------------------------------
(***************************************************************************)
(* What the Glacier package computes of a file, for every size up to a     *)
(* bound, and its writer, which cuts a file of its own into parts.  The    *)
(* two share no state: part names the one that a behaviour is of.          *)
(***************************************************************************)
EXTENDS GlacierWriter, GlacierTreeHash

VARIABLE part

vars == <<part, archiveVars, treeHashVars>>

Init ==
    /\ WriterInit
    /\ \/ part = "hash" /\ TreeHashInit
       \/ /\ part = "writer"
          /\ size_in_bytes = 0 /\ default_part_size = Default
          /\ hashes = <<>> /\ total = <<>>

HashStep == part = "hash" /\ TreeHashNext /\ UNCHANGED archiveVars

WriterStep == part = "writer" /\ WriterNext /\ UNCHANGED treeHashVars

Next == UNCHANGED part /\ (HashStep \/ WriterStep)

Spec == Init /\ [][Next]_vars
=============================================================================
