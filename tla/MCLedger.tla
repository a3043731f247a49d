------------------------------ MODULE MCLedger ------------------------------
(***************************************************************************)
(* Small instances of Ledger: two owners, two or three miners' blocks      *)
(* besides genesis, and two or three transactions between the owners.      *)
(***************************************************************************)
EXTENDS Ledger

CONSTANTS alice, bob

TwoBlocks == <<alice, bob>>
ThreeBlocks == <<alice, bob, alice>>

=============================================================================
