--------------------------- MODULE GlacierPartSize ---------------------------
(***************************************************************************)
(* minimum_part_size (boto/glacier/utils.py) and the choice of a part size *)
(* by ConcurrentTransferer._calculate_required_part_size                   *)
(* (boto/glacier/concurrent.py), for every size of file up to a bound.     *)
(*                                                                         *)
(* The division of the size by the number of parts is one of integers in   *)
(* Python 2 and exact in Python 3; boto supports both.                     *)
(***************************************************************************)
EXTENDS Naturals

CONSTANTS Megabyte,                 \* _MEGABYTE
          MAXIMUM_NUMBER_OF_PARTS,
          LargestPower,             \* the largest part is 2 ^ LargestPower megabytes
          IntegerDivision,          \* Python 2
          MaxSize                   \* bound: sizes of files

ASSUME PartSizeAssumption ==
    /\ Megabyte \in Nat \ {0}
    /\ MAXIMUM_NUMBER_OF_PARTS \in Nat \ {0}
    /\ LargestPower \in Nat /\ LargestPower >= 3   \* 12 in the code
    /\ IntegerDivision \in BOOLEAN
    /\ MaxSize \in Nat

VARIABLES size_in_bytes,
          default_part_size   \* the argument, or the transferer's part size

fileVars == <<size_in_bytes, default_part_size>>

Powers(from) == {Megabyte * 2^k : k \in from..LargestPower}

SmallestOf(S) == CHOOSE p \in S : \A q \in S : p <= q

LargestFile == Megabyte * 2^LargestPower * MAXIMUM_NUMBER_OF_PARTS

\* part_size < size_in_bytes / 10000
Below(part_size, size) ==
    IF IntegerDivision
    THEN part_size < size \div MAXIMUM_NUMBER_OF_PARTS
    ELSE part_size * MAXIMUM_NUMBER_OF_PARTS < size

\* The loop doubles from 2^3 megabytes on, after one: `power' starts at 3.
LoopSizes == {Megabyte} \cup Powers(3)

\* The part size for a file that is not too large.
MinimumPartSize(size, default) ==
    IF default * MAXIMUM_NUMBER_OF_PARTS >= size
    THEN default
    ELSE SmallestOf({p \in LoopSizes : ~Below(p, size)})

\* A ValueError for the others.
TooLarge(size, default) ==
    default * MAXIMUM_NUMBER_OF_PARTS < size /\ size > LargestFile

\* DEFAULT_PART_SIZE
Default == 4 * Megabyte

\* Fault: the transferer's own part size is used as it is.
OwnPartSize(size, own) == own

\* _calculate_required_part_size
RequiredPartSize(size, own) ==
    IF own >= MinimumPartSize(size, Default) THEN own ELSE MinimumPartSize(size, Default)

CeilDiv(m, n) == (m + n - 1) \div n

TotalParts(size, part_size) == CeilDiv(size, part_size)

FileInit == size_in_bytes \in 0..MaxSize /\ default_part_size \in Powers(0)

-----------------------------------------------------------------------------
(* Properties.                                                             *)

\* "we go up to the next power of two until we find a part size that keeps us
\* under 10,000 parts" (tests/unit/glacier/test_utils.py:45-47): no file
\* needs more parts than the service takes.
FewEnoughParts ==
    ~TooLarge(size_in_bytes, default_part_size) =>
        TotalParts(size_in_bytes, MinimumPartSize(size_in_bytes, default_part_size))
            <= MAXIMUM_NUMBER_OF_PARTS

\* The part size the concurrent transfers calculate is at least the one they
\* were given, and gives no more parts than the service takes
\* (concurrent.py:48-58).
TransferFits ==
    ~TooLarge(size_in_bytes, Default) =>
        LET part_size == RequiredPartSize(size_in_bytes, default_part_size)
        IN  /\ part_size >= default_part_size
            /\ TotalParts(size_in_bytes, part_size) <= MAXIMUM_NUMBER_OF_PARTS
=============================================================================
