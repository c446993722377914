---------------------------- MODULE MCInventory ----------------------------
(* A small instance of Inventory for TLC. *)
EXTENDS Inventory

CONSTANT s1   \* a sandbox
=============================================================================
