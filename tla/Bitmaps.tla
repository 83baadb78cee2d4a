------------------------------ MODULE Bitmaps ------------------------------
(***************************************************************************)
(* file_bitmap_t, a dynamic bitset over blocks of uint64_t (job_info.h:37),*)
(* as it is written into messages and read back from them.  A bitmap is    *)
(* its size and the set of its bits that are 1.  BlockBits stands for 64.  *)
(***************************************************************************)
EXTENDS Integers, Sequences, FiniteSetsExt

CONSTANT BlockBits
ASSUME BlockBitsAssumption == BlockBits \in Nat \ {0}

Bitmap(size, ones) == [size |-> size, ones |-> ones]
Bitmaps(size) == {Bitmap(size, ones) : ones \in SUBSET (0 .. size - 1)}

Blocks(size) == (size + BlockBits - 1) \div BlockBits

(* to_block_range: a block is the set of its bits that are 1; bit i is bit *)
(* i % BlockBits of block i / BlockBits.                                   *)
to_block_range(bitmap) ==
  [block \in 1 .. Blocks(bitmap.size) |->
     {i % BlockBits : i \in {j \in bitmap.ones : j \div BlockBits = block - 1}}]

(* The constructor from a range of blocks: all their bits.                 *)
from_block_range(blocks) ==
  LET size == Len(blocks) * BlockBits
  IN  Bitmap(size, {i \in 0 .. size - 1 : i % BlockBits \in blocks[i \div BlockBits + 1]})

(* resize: new bits are 0, bits that are cut off are lost.                 *)
resize(bitmap, size) == Bitmap(size, bitmap.ones \cap (0 .. size - 1))

count(bitmap) == Cardinality(bitmap.ones)
=============================================================================
