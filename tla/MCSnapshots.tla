---------------------------- MODULE MCSnapshots ----------------------------
(* An instance of SnapshotStore for TLC: one account and one legacy id. *)
EXTENDS SnapshotStore

\* What discovery resolves each legacy id to.
MCStableOf == [old \in Legacy |-> CHOOSE a \in Accounts : TRUE]

Snap(n, at, status) == [n |-> n, at |-> at, status |-> status]
FileOf(legacyFormat, entries, history) ==
    [legacyFormat |-> legacyFormat, damaged |-> FALSE,
     data |-> [entries |-> entries, history |-> history]]

\* No file; a file of the oldest format; a file in which the stable id already
\* has the event of the legacy id (no longer active) and one checked before it.
MCFiles ==
    {NoFile,
     FileOf(TRUE, [i \in Ids |-> IF i \in Legacy THEN Snap(2, 2, 2) ELSE NoSnap],
            [i \in Ids |-> <<>>]),
     FileOf(FALSE, [i \in Ids |-> IF i \in Legacy THEN NoSnap ELSE Snap(2, 1, 2)],
            [i \in Ids |-> IF i \in Legacy THEN <<Snap(1, 2, 1)>>
                           ELSE <<Snap(2, 1, 2), Snap(1, 2, 1)>>])}
=============================================================================
