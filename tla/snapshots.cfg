SPECIFICATION FairSpec
CONSTANTS
    Accounts = {a1}
    Legacy = {old1}
    StableOf <- MCStableOf
    Routes = {r1}
    Finders = {f1}
    Limit = 2
    MaxSnaps = 3
    Wrap = 2
    InitialFiles <- MCFiles
    Nobody = Nobody
    NoSnap = NoSnap
    NoFile = NoFile
INVARIANTS TypeOK ClearanceHolds MigrationMarked
PROPERTIES SavedIsKept MigrationKeepsNewest MigrationSaved
