--------------------------- MODULE GlacierTreeHash ---------------------------
(***************************************************************************)
(* chunk_hashes and tree_hash (boto/glacier/utils.py), over the parts that *)
(* a transfer cuts a file into.  The hash of a chunk, a megabyte, is <<n>>, *)
(* n its number in the file, and that of two hashes their pair: SHA-256 is *)
(* taken to be free of collisions, so two hashes are equal when they are   *)
(* the same tree.                                                          *)
(*                                                                         *)
(* Transfers hash every part by itself and the parts' hashes together; the *)
(* service hashes the whole archive.  Both must be the same.               *)
(***************************************************************************)
EXTENDS GlacierPartSize, Sequences

CONSTANT Levels   \* bound: of the tree of an archive

ASSUME TreeHashAssumption == Levels \in Nat /\ MaxSize <= Megabyte * 2^Levels

VARIABLES hashes,   \* of the parts hashed so far
          total     \* the tree hash of the parts' hashes, at the end

treeHashVars == <<fileVars, hashes, total>>

Half(n) == (n + 1) \div 2

\* Fault: the last hash of an odd number is hashed with itself.
NewHashesPaired(h) ==
    LET count == Len(h)
    IN  [k \in 1..Half(count) |->
            IF 2 * k <= count THEN <<h[2 * k - 1], h[2 * k]>> ELSE <<h[2 * k - 1], h[2 * k - 1]>>]

\* One turn of the outer loop: neighbours are hashed together, and the last
\* of an odd number stays as it is.
NewHashes(h) ==
    LET count == Len(h)
    IN  [k \in 1..Half(count) |->
            IF 2 * k <= count THEN <<h[2 * k - 1], h[2 * k]>> ELSE h[2 * k - 1]]

\* The list after n turns.
Turns(h) ==
    LET turn[n \in 0..Len(h)] == IF n = 0 THEN h ELSE NewHashes(turn[n - 1])
    IN  turn

\* tree_hash of a list that is not empty: the turns end with one hash.
TreeHash(h) == Turns(h)[CHOOSE n \in 0..Len(h) : Len(Turns(h)[n]) = 1][1]

\* chunk_hashes of the chunks from..to of the file.
ChunkHashes(from, to) == [k \in 1..(to - from + 1) |-> <<from + k - 1>>]

ChunkCount == CeilDiv(size_in_bytes, Megabyte)

part_size == RequiredPartSize(size_in_bytes, default_part_size)

ChunksInPart == part_size \div Megabyte

PartCount == TotalParts(size_in_bytes, part_size)

LastOf(p) == IF p * ChunksInPart < ChunkCount THEN p * ChunksInPart ELSE ChunkCount

TreeHashInit ==
    /\ FileInit
    /\ hashes = <<>>
    /\ total = <<>>

\* The tree hash of the next part of a file that is not too large.
HashPart ==
    /\ ~TooLarge(size_in_bytes, Default)
    /\ Len(hashes) < PartCount
    /\ LET p == Len(hashes) + 1
       IN  hashes' = Append(hashes, TreeHash(ChunkHashes((p - 1) * ChunksInPart + 1, LastOf(p))))
    /\ UNCHANGED <<fileVars, total>>

\* The tree hash of the parts' hashes.
HashTotal ==
    /\ hashes # <<>>
    /\ Len(hashes) = PartCount
    /\ total = <<>>
    /\ total' = TreeHash(hashes)
    /\ UNCHANGED <<fileVars, hashes>>

TreeHashNext == HashPart \/ HashTotal

TreeHashSpec == TreeHashInit /\ [][TreeHashNext]_treeHashVars

-----------------------------------------------------------------------------
(* The reference: the tree over n chunks has in its left half the largest   *)
(* power of two below n, as the service defines it.                        *)

TwoPowers == {2^k : k \in 0..Levels}

LeftOf(n) == CHOOSE m \in TwoPowers : m < n /\ 2 * m >= n

\* Trees(count)[n][from]: of the n chunks from that on.
Trees(count) ==
    LET tree[n \in 1..count] ==
          [from \in 1..count |->
             IF n = 1 THEN <<from>>
             ELSE <<tree[LeftOf(n)][from], tree[n - LeftOf(n)][from + LeftOf(n)]>>]
    IN  tree

\* The tree hash of the parts' tree hashes is that of the archive: the part
\* sizes chosen are powers of two, and the last part may have any length
\* (utils.py:59-107, concurrent.py:48-58, 153-156).
PartsHashAsTheArchive == total # <<>> => total = Trees(ChunkCount)[ChunkCount][1]
=============================================================================
