--------------------------- MODULE SnapshotStore ---------------------------
(***************************************************************************)
(* The snapshots and their history (cache.go): memory, the cache file, the *)
(* migration of legacy ids, saves that overlap, crashes and restarts.      *)
(***************************************************************************)
EXTENDS Naturals, Sequences, FiniteSets

CONSTANTS
    Accounts,     \* stable account ids
    Legacy,       \* positional ids of older versions
    StableOf,     \* the stable id discovery resolves a legacy id to
    Routes,       \* ends of runs and calls of routes, which save or clear
    Finders,      \* discoveries, which migrate legacy ids
    Limit,        \* snapshotHistoryLimit
    MaxSnaps,     \* bound: snapshots ever made
    Wrap,         \* bound: migrationRevision counts modulo this; within one write
                  \* every legacy id is migrated once at most, so it exceeds Legacy
    InitialFiles, \* cache files the plug-in may find at its first start
    Nobody, NoSnap, NoFile

Ids == Accounts \cup Legacy
Procs == Routes \cup Finders

\* n names a snapshot (no two attempts are made at one instant); at is its
\* CheckedAt, which an error snapshot takes over from the one before; status is
\* the rank of the status text.
Snapshot == [n : 1..MaxSnaps, at : 1..MaxSnaps, status : 1..2]
Contents == [entries : [Ids -> Snapshot \cup {NoSnap}],
             history : [Ids -> Seq(Snapshot)]]
\* damaged: truncated, of a future format, or with contradicting fields.
File == [legacyFormat : BOOLEAN, damaged : BOOLEAN, data : Contents]

ASSUME SetsAssumption ==
    /\ Accounts # {} /\ Accounts \cap Legacy = {}
    /\ StableOf \in [Legacy -> Accounts]
    /\ Routes \cap Finders = {}
    /\ Nobody \notin Procs
ASSUME BoundsAssumption == Limit \in Nat \ {0} /\ MaxSnaps \in Nat /\ Wrap \in Nat \ {0}
ASSUME WrapAssumption == IsFiniteSet(Legacy) /\ Cardinality(Legacy) < Wrap
ASSUME SnapAssumption == NoSnap \notin Snapshot
ASSUME FileAssumption == NoFile \notin File /\ InitialFiles \subseteq File \cup {NoFile}

VARIABLES
    up,        \* configured
    mem,       \* entries and history
    made,      \* snapshots made so far
    loadErr,   \* the last load found an unreadable file
    migration, \* migrationRevision, migrationDirty, migrationErr
    saveMu,    \* who holds it
    proc,      \* what each goroutine does
    file,      \* the cache file
    gone,      \* history: the snapshots a clearance or a full history removed
    cleared    \* history: those whose clearance was answered with success

vars == <<up, mem, made, loadErr, migration, saveMu, proc, file, gone, cleared>>

Empty == [entries |-> [i \in Ids |-> NoSnap], history |-> [i \in Ids |-> <<>>]]
NoMigration == [rev |-> 0, dirty |-> FALSE, err |-> FALSE]

\* data and rev: what the save copied; ids: what the clearance removed, unless a
\* load replaced the memory since (history).
Idle == [pc |-> "idle", data |-> Empty, rev |-> 0, ids |-> {}]

RangeOf(s) == {s[k] : k \in DOMAIN s}
SnapsOf(c, i) == RangeOf(c.history[i]) \cup ({c.entries[i]} \ {NoSnap})
Names(S) == {x.n : x \in S}
Held(c) == UNION {Names(SnapsOf(c, i)) : i \in Ids}
StoredNames(f) == IF f = NoFile THEN {} ELSE Held(f.data)

\* The history of an account, under whichever of its ids.
Stable(i) == IF i \in Legacy THEN StableOf[i] ELSE i
Recorded(c, a) == UNION {Names(RangeOf(c.history[i])) : i \in {j \in Ids : Stable(j) = a}}
Lost(before, after) == UNION {Recorded(before, a) \ Recorded(after, a) : a \in Accounts}

\* Bug: one more than the limit is kept.
CutLate(s) == IF Len(s) > Limit + 1 THEN SubSeq(s, 1, Limit) ELSE s

\* A history is never longer than snapshotHistoryLimit.
Cut(s) == IF Len(s) > Limit THEN SubSeq(s, 1, Limit) ELSE s

Init ==
    /\ up = FALSE
    /\ mem = Empty
    /\ loadErr = FALSE
    /\ migration = NoMigration
    /\ saveMu = Nobody
    /\ proc = [p \in Procs |-> Idle]
    /\ file \in InitialFiles
    /\ made \in {m \in StoredNames(file) \cup {0} : \A n \in StoredNames(file) : n <= m}
    /\ gone = {}
    /\ cleared = {}

-----------------------------------------------------------------------------
(* The memory *)

\* put: the new snapshot is the active one and heads the history. An error takes
\* over the check time of the snapshot it was made from, be it still the last or not.
Put(i) ==
    /\ up /\ made < MaxSnaps
    /\ \E at \in 1..(made + 1) :
         LET snap == [n |-> made + 1, at |-> at, status |-> IF at > made THEN 2 ELSE 1]
         IN mem' = [entries |-> [mem.entries EXCEPT ![i] = snap],
                    history |-> [mem.history EXCEPT ![i] = Cut(<<snap>> \o @)]]
    /\ made' = made + 1
    /\ gone' = gone \cup Lost(mem, mem')
    /\ UNCHANGED <<up, loadErr, migration, saveMu, proc, file, cleared>>

\* removeActive and prune: entries leave the report, the history stays.
Prune(out) ==
    /\ up
    /\ \A i \in out : mem.entries[i] # NoSnap
    /\ mem' = [mem EXCEPT !.entries = [i \in Ids |-> IF i \in out THEN NoSnap ELSE @[i]]]
    /\ UNCHANGED <<up, made, loadErr, migration, saveMu, proc, file, gone, cleared>>

-----------------------------------------------------------------------------
(* Migration of a legacy id *)

\* Position j of s comes before position k: checked later, or at the same time
\* with a greater status, or (the sort is stable) listed first.
Before(s, j, k) ==
    \/ s[j].at > s[k].at
    \/ s[j].at = s[k].at /\ s[j].status > s[k].status
    \/ s[j].at = s[k].at /\ s[j].status = s[k].status /\ j < k

\* Bug: the histories are joined as they are and then cut.
MergedUnsorted(s) == Cut(s)

\* The merged history: without duplicates, newest first, cut at the limit.
Merged(s) ==
    LET first == {k \in DOMAIN s : \A j \in 1..(k - 1) : s[j] # s[k]}
        rank(k) == Cardinality({j \in first : Before(s, j, k)})
    IN Cut([r \in 1..Cardinality(first) |-> s[CHOOSE k \in first : rank(k) = r - 1]])

\* migrateAccount: the newer active snapshot wins, the histories are merged.
Migrated(c, old) ==
    LET new == StableOf[old]
        was == c.entries[old]
        now == c.entries[new]
        wins == was # NoSnap /\ (now = NoSnap \/ was.at > now.at)
    IN [entries |-> [c.entries EXCEPT ![new] = IF wins THEN was ELSE now, ![old] = NoSnap],
        history |-> [c.history EXCEPT ![new] = Merged(@ \o c.history[old]), ![old] = <<>>]]

Mark == [migration EXCEPT !.rev = (@ + 1) % Wrap, !.dirty = TRUE]

\* migrateLegacySnapshot up to hasPendingMigration, for an id discovery matched.
Migrate(p, old) ==
    /\ up /\ proc[p].pc = "idle"
    /\ IF SnapsOf(mem, old) = {}
       THEN UNCHANGED <<mem, migration, gone>>
       ELSE /\ mem' = Migrated(mem, old)
            /\ migration' = Mark
            /\ gone' = gone \cup Lost(mem, mem')
    /\ proc' = [proc EXCEPT ![p].pc = "migrated"]
    /\ UNCHANGED <<up, made, loadErr, saveMu, file, cleared>>

\* Bug: the save is not tried again once it has failed.
SaveOnce(p) ==
    /\ proc[p].pc = "migrated"
    /\ proc' = [proc EXCEPT ![p].pc =
                  IF migration.dirty /\ ~migration.err THEN "save" ELSE "idle"]
    /\ UNCHANGED <<up, mem, made, loadErr, migration, saveMu, file, gone, cleared>>

\* hasPendingMigration: whoever discovers next tries the save again.
SaveIfPending(p) ==
    /\ proc[p].pc = "migrated"
    /\ proc' = [proc EXCEPT ![p].pc = IF migration.dirty THEN "save" ELSE "idle"]
    /\ UNCHANGED <<up, mem, made, loadErr, migration, saveMu, file, gone, cleared>>

-----------------------------------------------------------------------------
(* Saving *)

\* The end of a run and the settings routes call save.
AskSave(p) ==
    /\ up /\ proc[p].pc = "idle"
    /\ proc' = [proc EXCEPT ![p].pc = "save"]
    /\ UNCHANGED <<up, mem, made, loadErr, migration, saveMu, file, gone, cleared>>

\* handleCleanupRoute deletes the snapshots and then saves.
Delete(p, i) ==
    /\ up /\ proc[p].pc = "idle"
    /\ mem' = [entries |-> [mem.entries EXCEPT ![i] = NoSnap],
               history |-> [mem.history EXCEPT ![i] = <<>>]]
    /\ proc' = [proc EXCEPT ![p].pc = "save", ![p].ids = Held(mem) \ Held(mem')]
    /\ gone' = gone \cup Lost(mem, mem')
    /\ UNCHANGED <<up, made, loadErr, migration, saveMu, file, cleared>>

\* Bug: the copy is taken before saveMu, so an older copy may be written last.
CopyUnlocked(p) ==
    /\ proc[p].pc = "save" /\ ~loadErr
    /\ proc' = [proc EXCEPT ![p].pc = "write", ![p].data = mem, ![p].rev = migration.rev]
    /\ UNCHANGED <<up, mem, made, loadErr, migration, saveMu, file, gone, cleared>>

\* Bug: the save does not ask whether the file could be read.
CopyUnasked(p) ==
    /\ proc[p].pc = "save" /\ saveMu = Nobody
    /\ saveMu' = p
    /\ proc' = [proc EXCEPT ![p].pc = "write", ![p].data = mem, ![p].rev = migration.rev]
    /\ UNCHANGED <<up, mem, made, loadErr, migration, file, gone, cleared>>

\* save: under saveMu the contents are copied together with migrationRevision.
Copy(p) ==
    /\ proc[p].pc = "save" /\ saveMu = Nobody /\ ~loadErr
    /\ saveMu' = p
    /\ proc' = [proc EXCEPT ![p].pc = "write", ![p].data = mem, ![p].rev = migration.rev]
    /\ UNCHANGED <<up, mem, made, loadErr, migration, file, gone, cleared>>

\* An unreadable cache is not overwritten; the caller gets the error.
Refuse(p) ==
    /\ proc[p].pc = "save" /\ saveMu = Nobody /\ loadErr
    /\ proc' = [proc EXCEPT ![p] = Idle]
    /\ UNCHANGED <<up, mem, made, loadErr, migration, saveMu, file, gone, cleared>>

\* Bug: any save that was written clears the mark.
SavedMigrationAlways(p) == [migration EXCEPT !.dirty = FALSE, !.err = FALSE]

\* Only a save whose copy holds the last migration clears the mark.
SavedMigration(p) ==
    IF migration.rev = proc[p].rev
    THEN [migration EXCEPT !.dirty = FALSE, !.err = FALSE]
    ELSE migration

\* writeFileAtomic renames the complete temporary file over the cache, and the
\* save returns; a clearance is answered with success.
Write(p) ==
    /\ proc[p].pc = "write"
    /\ file' = [legacyFormat |-> FALSE, damaged |-> FALSE, data |-> proc[p].data]
    /\ migration' = SavedMigration(p)
    /\ saveMu' = IF saveMu = p THEN Nobody ELSE saveMu
    /\ cleared' = cleared \cup proc[p].ids
    /\ proc' = [proc EXCEPT ![p] = Idle]
    /\ UNCHANGED <<up, mem, made, loadErr, gone>>

\* The write fails before the rename or, at the sync of the directory, after it.
Fail(p) ==
    /\ proc[p].pc = "write"
    /\ \/ UNCHANGED file
       \/ file' = [legacyFormat |-> FALSE, damaged |-> FALSE, data |-> proc[p].data]
    /\ migration' = [migration EXCEPT !.err = @ \/ migration.dirty]
    /\ saveMu' = IF saveMu = p THEN Nobody ELSE saveMu
    /\ proc' = [proc EXCEPT ![p] = Idle]
    /\ UNCHANGED <<up, mem, made, loadErr, gone, cleared>>

-----------------------------------------------------------------------------
(* Loading *)

\* decodeSnapshotCache: the old format has no history but the entries.
Decoded(f) ==
    [entries |-> f.data.entries,
     history |-> [i \in Ids |-> IF ~f.legacyFormat THEN Cut(f.data.history[i])
                                ELSE IF f.data.entries[i] = NoSnap THEN <<>>
                                ELSE <<f.data.entries[i]>>]]

\* configure loads the cache at the start and at every reconfiguration; the file
\* is read and the memory replaced while saveMu is held.
Load ==
    /\ saveMu = Nobody
    /\ up' = TRUE
    /\ loadErr' = (file # NoFile /\ file.damaged)
    /\ mem' = IF file = NoFile \/ file.damaged THEN mem ELSE Decoded(file)
    /\ proc' = [p \in Procs |-> [proc[p] EXCEPT !.ids = {}]]
    /\ UNCHANGED <<made, migration, saveMu, file, gone, cleared>>

\* The process dies; memory is gone, the file is what it was.
Crash ==
    /\ up
    /\ up' = FALSE
    /\ mem' = Empty
    /\ loadErr' = FALSE
    /\ migration' = NoMigration
    /\ saveMu' = Nobody
    /\ proc' = [p \in Procs |-> Idle]
    /\ UNCHANGED <<made, file, gone, cleared>>

\* Something outside damages the file, or an operator puts it right again. Between
\* saves is enough: a save replaces the file whatever it holds, or leaves it.
Damage ==
    /\ file # NoFile /\ saveMu = Nobody
    /\ file' = [file EXCEPT !.damaged = ~@]
    /\ UNCHANGED <<up, mem, made, loadErr, migration, saveMu, proc, gone, cleared>>

-----------------------------------------------------------------------------
MigrateAny(p) == \E old \in Legacy : Migrate(p, old)
DeleteAny(p) == \E i \in Accounts : Delete(p, i)
SaveStep(p) == Copy(p) \/ Refuse(p) \/ Write(p) \/ Fail(p)

Next ==
    \/ \E i \in Accounts : Put(i)
    \/ \E out \in SUBSET Ids \ {{}} : Prune(out)
    \/ \E p \in Finders : MigrateAny(p) \/ SaveIfPending(p)
    \/ \E p \in Routes : AskSave(p) \/ DeleteAny(p)
    \/ \E p \in Procs : SaveStep(p)
    \/ Load
    \/ Crash
    \/ Damage

Spec == Init /\ [][Next]_vars

\* Goroutines run; a discovery follows a discovery (the scheduler's loop); a Go
\* mutex is not withheld for ever. Nothing is assumed of writes that fail.
Fairness ==
    /\ \A p \in Finders : WF_vars(MigrateAny(p)) /\ WF_vars(SaveIfPending(p))
    /\ \A p \in Procs : /\ SF_vars(Copy(p) \/ Refuse(p))
                        /\ WF_vars(Write(p) \/ Fail(p))

FairSpec == Spec /\ Fairness

-----------------------------------------------------------------------------
(* Properties *)

TypeOK ==
    /\ up \in BOOLEAN /\ loadErr \in BOOLEAN
    /\ mem \in Contents
    /\ \A i \in Ids : Len(mem.history[i]) <= Limit
    /\ made \in 0..MaxSnaps
    /\ migration \in [rev : 0..(Wrap - 1), dirty : BOOLEAN, err : BOOLEAN]
    /\ saveMu \in Procs \cup {Nobody}
    /\ proc \in [Procs -> [pc : {"idle", "migrated", "save", "write"},
                           data : Contents, rev : 0..(Wrap - 1),
                           ids : SUBSET (1..MaxSnaps)]]
    /\ file \in File \cup {NoFile}
    /\ gone \in SUBSET (1..MaxSnaps) /\ cleared \in SUBSET (1..MaxSnaps)

\* What the file holds stays in it: through crashes, reloads, failed writes,
\* migrations and times when it cannot be read, a snapshot leaves the history on
\* disk only if the account was cleared or the history is full (README: only
\* "clear records" deletes; at most 50 are kept; an unreadable file is left alone).
SavedIsKept ==
    [][file # NoFile => Lost(Decoded(file), Decoded(file')) \subseteq gone]_file

\* A clearance that was answered with success and that no reload overlapped is
\* final: no save that copied earlier and no later start brings a snapshot back.
ClearanceHolds ==
    cleared \cap (Held(mem) \cup StoredNames(file)) = {}

\* While the file still lists a legacy id that memory has moved, the migration is
\* marked as unsaved, and a migration error is shown only as long as it is.
MigrationMarked ==
    /\ migration.err => migration.dirty
    /\ up /\ file # NoFile /\ ~loadErr /\ ~migration.dirty =>
         \A old \in Legacy :
            Decoded(file).history[old] # <<>> => mem.history[old] # <<>>

\* A migration empties one legacy id and touches no account but its own: that keeps
\* every event of both histories, once, and drops only those not newer than a full
\* history; the active snapshot is the newer of the two.
MigrationKeepsNewest ==
    [][migration'.rev # migration.rev /\ up' =>
         \E old \in Legacy :
           LET new == StableOf[old]
               before == RangeOf(mem.history[old]) \cup RangeOf(mem.history[new])
               after == RangeOf(mem'.history[new])
           IN /\ SnapsOf(mem, old) # {} /\ SnapsOf(mem', old) = {}
              /\ \A i \in Ids \ {old, new} : /\ mem'.history[i] = mem.history[i]
                                            /\ mem'.entries[i] = mem.entries[i]
              /\ after \subseteq before
              /\ Cardinality(after) = Len(mem'.history[new])
              /\ \A lost \in before \ after :
                   Cardinality(after) = Limit /\ \A snap \in after : snap.at >= lost.at
              /\ \A e \in {mem.entries[old], mem.entries[new]} \ {NoSnap} :
                   mem'.entries[new].at >= e.at]_vars

\* If writes fail only finitely often, a migration is saved in the end, by the
\* discovery that made it or a later one, unless the file cannot be read.
MigrationSaved ==
    <>[][\A p \in Procs : ~Fail(p)]_vars =>
        (migration.dirty ~> (~migration.dirty \/ loadErr))
=============================================================================
