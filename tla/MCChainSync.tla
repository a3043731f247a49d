---------------------------- MODULE MCChainSync ----------------------------
(***************************************************************************)
(* Small instances of ChainSync.  The block tree has two forks of          *)
(* different length, so that a synchronisation can find no, a partial and  *)
(* a complete difference, and be overtaken by gossip of either fork.       *)
(***************************************************************************)
EXTENDS ChainSync

\* genesis - 1 - 11 - 111
\*         \ 2 - 22
TreeSmall == {<<>>, <<1>>, <<1, 1>>, <<1, 1, 1>>, <<2>>, <<2, 2>>}

\* The same with a fork at height 1 as well.
TreeForked == TreeSmall \cup {<<1, 2>>}

\* Genesis, and one fork of two blocks against one of one.
TreeTiny == {<<>>, <<1>>, <<1, 1>>, <<2>>}

EmptyStore == {Nil}
AnyStore == Block
AnyStoreOrNone == Block \cup {Nil}

NoHeads == {}
SomeHeads == {<<1>>, <<2>>, <<1, 1>>}

=============================================================================
