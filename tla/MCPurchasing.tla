----------------------------- MODULE MCPurchasing -----------------------------
(* Instances of PurchasingUI for TLC. *)
EXTENDS PurchasingProperties, TLC

Symmetry == Permutations(Threads) \cup Permutations(Workers)
            \cup Permutations(Drafts) \cup Permutations(Contents)
=============================================================================
