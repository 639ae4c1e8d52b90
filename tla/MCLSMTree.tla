----------------------------- MODULE MCLSMTree -----------------------------
EXTENDS LSMTree
Bound(old, keys, puts, snaps, manual) ==
    [old |-> old, keys |-> keys, puts |-> puts, snapshots |-> snaps, manual |-> manual]
MCBounds == {Bound(1, 1, 3, 2, 0), Bound(2, 2, 2, 1, 0), Bound(0, 3, 3, 1, 0), Bound(3, 3, 2, 0, 1),
             Bound(0, 3, 3, 0, 1)}
=============================================================================
