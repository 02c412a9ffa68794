-------------------------- MODULE MCLoopFilterBlock --------------------------
(* Block-size sets for the LoopFilterBlock runs, in 8x8 units <<w, h>>.  *)
(* The sub-8x8 sizes read the same table rows as 8x8 and are <<1, 1>>.   *)
EXTENDS LoopFilterBlock

\* The 64x64 node and its square 32x32 quarters, cut or not.
MCLargeBlocks == {<<8, 8>>, <<8, 4>>, <<4, 8>>, <<4, 4>>}

\* Blocks down to 16x8: stacked 16x8 halves meet inside one vertical row pair.
MCMidBlocks == MCLargeBlocks \cup {<<4, 2>>, <<2, 4>>, <<2, 2>>, <<2, 1>>}

\* Every block size of the VP9 partition tree.
MCAllBlocks == MCLargeBlocks \cup {<<4, 2>>, <<2, 4>>, <<2, 2>>,
                                   <<2, 1>>, <<1, 2>>, <<1, 1>>}
=============================================================================
