---------------------------- MODULE SnapshotStore ----------------------------
(***************************************************************************)
(* What a repository promises its user: a store of snapshots.  A snapshot  *)
(* appears with its whole contents, keeps exactly them, and disappears     *)
(* only when a retention rule drops it.                                    *)
(***************************************************************************)
CONSTANTS
    SnapId,     \* names of snapshots
    Contents    \* what a source may contain

VARIABLE store  \* the snapshots there are, with what a restore returns

Init == store = [s \in {} |-> {}]

Save(s, c) ==
    /\ s \notin DOMAIN store
    /\ store' = [t \in DOMAIN store \cup {s} |-> IF t = s THEN c ELSE store[t]]

(* A retention rule drops any number of snapshots at once.                 *)
Drop(ids) == store' = [t \in DOMAIN store \ ids |-> store[t]]

Next ==
    \/ \E s \in SnapId, c \in Contents : Save(s, c)
    \/ \E ids \in SUBSET DOMAIN store : Drop(ids)

Spec == Init /\ [][Next]_store
=============================================================================
