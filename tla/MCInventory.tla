---------------------------- MODULE MCInventory ----------------------------
(* Small instances of Inventory.                                           *)
EXTENDS Inventory, TLC

(* The ids of a class, the codes, the values and the requests are          *)
(* interchangeable: no definition orders them or chooses among them.       *)
Symmetry ==
    Permutations(Items) \cup Permutations(Kits) \cup Permutations(Places)
    \cup Permutations(Labels) \cup Permutations(Codes) \cup Permutations(Details)
    \cup Permutations(Requests)

=============================================================================
