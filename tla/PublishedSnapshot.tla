------------------------- MODULE PublishedSnapshot --------------------------
(***************************************************************************)
(* What the index promises to whoever reads it between the commits of a    *)
(* run (ADR-7, ADR-37): a complete snapshot is exactly what one pass over  *)
(* the inventoried files computes; anything less is an explicitly partial  *)
(* snapshot, without a signature, of the current inventory.                *)
(***************************************************************************)
CONSTANTS
    Trees,             \* states of the source files
    Empty,             \* the inventory of an index that never ran
    Signatures, NoSig,
    Complete(_, _),    \* the flows of one pass over a tree, by signature
    Computed(_),       \* every flow some pass over a tree may compute
    Within(_, _)       \* does a flow only go through the files of a tree?

VARIABLES tree, inventory, flows, status, sig

vars == <<tree, inventory, flows, status, sig>>

Init == /\ tree \in Trees
        /\ inventory = Empty /\ flows = {} /\ status = "none" /\ sig = NoSig

Edit == tree' \in Trees /\ UNCHANGED <<inventory, flows, status, sig>>

PublishComplete(s) ==
    /\ inventory' = tree /\ flows' = Complete(tree, s)
    /\ status' = "complete" /\ sig' = s
    /\ UNCHANGED tree

\* Provisional flows are those of earlier snapshots that still fit the files,
\* and new ones of this tree.
PublishPartial ==
    /\ inventory' = tree
    /\ flows' \subseteq flows \cup Computed(tree)
    /\ \A w \in flows' : Within(w, tree)
    /\ status' = "partial" /\ sig' = NoSig
    /\ UNCHANGED tree

Next == Edit \/ PublishPartial \/ \E s \in Signatures : PublishComplete(s)

Spec == Init /\ [][Next]_vars

=============================================================================
