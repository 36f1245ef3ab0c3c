--------------------------- MODULE MCReviewCache ----------------------------
(* Two paths, two blobs, a base of two commits and three heads: the second *)
(* head drops a change of the first and the third is on the newer base.    *)
(* A behaviour keeps to one of the sets of manifests of Configurations and *)
(* pushes once, or MaxPushes times.  From the second receipt on only       *)
(* routes from the latest receipt are followed, and a third receipt is     *)
(* issued where something was refused that is not current any more.        *)
EXTENDS ReviewCache

CONSTANTS p, q, x, y, MaxPushes

MCPaths == {p, q}
MCBlobs == {x, y}
Tree(a, b) == [f \in MCPaths |-> IF f = p THEN a ELSE b]
MCBaseTrees == <<Tree(x, None), Tree(x, y)>>
MCHeads == {[base |-> 1, tree |-> Tree(y, y)],
            [base |-> 1, tree |-> Tree(y, None)],
            [base |-> 2, tree |-> Tree(y, y)]}

Manifest(scope, composition, closed, pinned, metadata) ==
    [scope |-> scope, composition |-> composition, reviewer |-> 1, closed |-> closed,
     pinned |-> pinned, history |-> 1, metadata |-> metadata]
Itemwise   == Manifest("selected_payload_only", "itemwise_closed_v1", TRUE, TRUE, 1)
Retitled   == Manifest("selected_payload_only", "itemwise_closed_v1", TRUE, TRUE, 2)
Holistic   == Manifest("selected_payload_only", "holistic", TRUE, TRUE, 1)
Repository == Manifest("declared_repository_closure", "itemwise_closed_v1", TRUE, TRUE, 1)
Open       == Manifest("selected_payload_only", "itemwise_closed_v1", FALSE, FALSE, 1)
Unsound    == Manifest("selected_payload_only", "itemwise_closed_v1", TRUE, FALSE, 1)
MCManifests == {Itemwise, Retitled, Holistic, Repository, Open, Unsound}
Configurations == {{Itemwise}, {Itemwise, Retitled}, {Holistic}, {Repository}, {Open, Unsound}}

Genuine == [trusted |-> TRUE, signed |-> TRUE, swapped |-> FALSE]
MCBundles == {Genuine,
              [trusted |-> FALSE, signed |-> TRUE, swapped |-> FALSE]}
MCUnavailable == {{}, {y}}

VARIABLES manifests, pushes

MCInit == Init /\ manifests \in Configurations /\ pushes = 0

Latest == Len(receipts)

\* The checkpoints and the receipts a round may start from.
MCCheckpoints == IF Latest > 1 THEN {receipts[Latest].route.transition.d} ELSE Reviewed \cup {head}
MCPresented == IF Latest > 1 THEN {[receipt |-> Latest, how |-> Genuine]} ELSE Presented \cup {None}

MCNext ==
    /\ \/ /\ context = None \/ route # None
          /\ pushes < IF manifests = {Itemwise} THEN MaxPushes ELSE 1
          /\ \E h \in Heads : Push(h)
       \/ AdvanceBase
       \/ /\ context = None \/ route # None
          /\ \E m \in manifests, checkpoint \in MCCheckpoints : MakeContext(m, checkpoint)
       \/ \E checkpoint \in MCCheckpoints, bundle \in MCPresented,
             missing \in (IF Latest > 1 THEN {{}} ELSE Unavailable) :
                RunPreflight(checkpoint, bundle, missing)
       \/ /\ route # None
          /\ Latest = 2 => manifests = {Itemwise} /\ Debt[2] \ route.current # {}
          /\ \E outcomes \in [Obligations(route.items) -> Verdicts] : Issue(outcomes)
    /\ manifests' = manifests
    /\ pushes' = IF head' # head THEN pushes + 1 ELSE pushes

MCSpec == MCInit /\ [][MCNext]_<<vars, manifests, pushes>>

=============================================================================
