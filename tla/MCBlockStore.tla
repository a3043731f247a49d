---------------------------- MODULE MCBlockStore ----------------------------
EXTENDS BlockStore
\* No chain yet; a first height of two bytes ahead; the last height that has
\* bytes ahead.
ByteEdges == {-1, Radix - 1, Radix^3 - 2}
=============================================================================
