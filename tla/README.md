# Verification of the CPA upstream account monitor

The repository is a Go plug-in for CPA (CLIProxyAPI) that queries the upstream
accounts behind CPA for balances and quotas and shows them in a report. This
directory holds TLA+ models of its control logic, the TLC runs that check them on
small instances, and proofs that TLAPS checks for every instance.

`tlc -config X.cfg M` checks a run, `tlapm M.tla` checks the proofs. `PROJECT.json`
lists the components, runs, mutants, findings, hazards and theorems, and maps every
definition to the lines it models.

## Inventory

| Part | State | Operations | Hard behaviour |
| --- | --- | --- | --- |
| Refresh protocol (`main.go` 154-224, 787-876, 1146-1306) | runs, workers, calls in flight, `snapshotMu` | start by scheduler, request or save; discover, select, query, commit, prune | runs overlap each other, saves and clearances; queries are shared; the scheduler's run may be cancelled |
| Snapshot store (`cache.go`) | `entries`, `history`, migration flags, disk | `put`, `delete`, `removeActive`, `prune`, `rename`, `migrateAccount`, `load`, `save` | check and put are not one step; save and migration overlap; reload |
| Preferences store (`prefs.go`) | known and monitored accounts, adapters, PATs, thresholds, dismissals, identities, `Revision`, `QueryRevisions`, disk | `commitAtRevision` under `commitMu`, `configure` | optimistic revision; disk and memory; crash |
| Identities (`prefs.go` 741-985) | `Identities`, `AccountOrder` | `resolveIdentities`, migration of legacy ids | rotation of keys and indexes, ambiguous matches |
| Scheduler (`background.go`) | `running`, `cancel`, `wake` | `start`, `stop`, `notify`, `loop` | start, stop and wake race; back-off |
| Life cycle (`main.go` 354-478) | configuration | `configure`, `reconfigure`, shutdown | partial failure, stop and restart of the scheduler |
| Status, thresholds, alerts (`main.go` 1984-2380, `model.go`) | snapshots, thresholds, dismissals | `applyThresholds`, `buildReport`, dismissal | stale set of active alerts |
| Adapters (`adapters.go`, `commandcode.go`, `clinepass.go`, `deepseek.go`) | none | one or several upstream requests per query | partial failure of one request of several |
| Proxy resolution (`proxy.go`) | client cache | proxy of a request | precedence of settings |
| Session proxy (`cmd/session-proxy`) | sessions | log in, pass on, log out | expiry, a clock read before the lock, restarts |
| UI page (`ui.html`) | last state read, drafts | poll, edit, save with `base_revision` | a poll under a draft |
| C ABI | | | not modelled: marshalling |

The parts meet in a few places. The scheduler and the management routes start
refresh runs; a run reads the preferences (is the account monitored, under which
query revision), asks an adapter for a snapshot and puts it into the snapshot
store; saves change the preferences, remove entries and start runs; the report
joins the store with thresholds and dismissals.

What makes each part correct:

- refresh: a result is filed under the configuration it was read with; runs end;
  nobody waits for a query that is not made; cancelled accounts do not come back;
- snapshot store: only a clearance deletes history; what was saved is found again;
- preferences: saves are atomic and none is lost; disk and memory agree;
- identities: an account keeps its id, two accounts never share one;
- scheduler: at most one loop, a stop is final, failures back off;
- alerts: status and alerts agree, saved thresholds settle every account, an alert
  that was dismissed stays hidden while it is up and reports show it;
- session proxy: a request is passed on only in a session that is on.

## Modules

### RefreshCommit

The core: how the result of a query becomes the active snapshot while the
configuration changes. The state corresponds to the code as follows.

| Variable | Code |
| --- | --- |
| `catalog` | what CPA lists: host directory and source configuration (external) |
| `monitored`, `cfg`, `qrev` | `Monitored`, `Adapters` and `PATs`, `QueryRevisions` of the preferences |
| `entry`, `hist` | `snapshotStore.entries`; whether `history` holds a record |
| `pc`, `req`, `cancelled` | where each call of `refreshAccountsDetailedContext` is, its account ids, `ctx.Err()` |
| `work` | each worker goroutine; while the run discovers, what it found for the account |
| `ed` | each call of the provider route or the clean-up route |
| `vis` | each quota fetch, and each directory read of another handler that meets an unreadable credential |
| `removed`, `Snapshot.began`, `Worker.via` | history variables, read by properties only |

An action is what the code does between two points where another goroutine can
get in: a read or write of the preferences (their lock is held for one call), of
the snapshot store (the same), of the table of calls, of the semaphore. The check
of a result and its put are separate actions, with `snapshotMu` held in between; the
look at the context (`PassContext`, `GiveUp`) comes before that mutex, and
`errorSnapshot` reads the store in a step before the put, as in the code.

Left out on purpose:

- the age of a snapshot: `SkipFresh` may skip a current one and need not, so every
  outcome of the TTL is covered, and a forced request is one that skips nothing;
- `Known`: every account a handler or a run lists is made known before
  (`resolveIdentities`, `reconcileDefaults`), so `canCommitQueryResult` asks for
  `Monitored` and the revision;
- the optimistic revision, validation and the disk: a save may be rejected
  (`RejectEdit`), without effect;
- a handler reads the query revisions of a batch one after the other; the model
  reads them in one step (`BeginSave`, `CollectChanged`);
- names, thresholds, latency and everything else in a snapshot the properties do
  not tell apart: `data` is the configuration the figures were read with;
- accounts no adapter matches: they never become a candidate.

### CurrentFigures

What `RefreshCommit` promises to a reader of the report, who sees of a snapshot whether
it counts as up to date (`Figures`): figures of the present configuration, asked for
since its last change, or nothing. The four actions are a change of configuration, which
hides what it outdates in the same step, the filing of one result, the removal of
accounts from the report, and a clearance. Runs, workers, shared queries, editors and
visitors are all hidden.

### RefreshCommitProofs, RefreshResultsProofs

Proofs about `RefreshCommit`, see below.

### PrefsStore

The preferences: one record in memory and in a file, and the pages that edit it.

| Variable | Code |
| --- | --- |
| `path`, `data`, `key` | `monitorPrefs.path`, `.data`, `.key` (`NoKey` is `keyErr # nil`) |
| `files`, `keyFiles` | what is on disk for each value of `preferences_path` |
| `txn` | the commit that holds `commitMu`: its copy of the record, how far the write is, who waits |
| `page` | each open page: what it shows, its drafts, the revision it has, its save |
| `made`, `published`, `latest` | history variables: keys drawn, records readers could see |

`commitAtRevision` is split where a reader or a crash gets in: `Begin` (copy,
comparison of the revision, the change, the next revision), `Rename` (the file is
replaced), `Publish` (the memory is), with `Fail` before or after the rename;
`Refuse` and `KeepAsIs` are its early returns. `AskProviders`, `AskPat`, `AskCash`
and `AskWarn` are the handlers up to the commit, which read the thresholds before
they wait for `commitMu`. `ReadView` and `ReadRevision` are the two reads of
`buildMonitorUIState`. `Configure` loads a file, marks an old format for new PATs and
draws a key only where nothing is sealed; `Crash` stops the process anywhere.

Abstractions: `conf[a]` stands for `Monitored` and `Adapters`; `known` for `Known`,
`FirstSeen` and `AccountOrder`; `thr` for `Thresholds` (`warn` what the settings
change, `cash` what an account changes). A page knows only the revision of its
`base`; the model keeps the record for the properties, and in `from` the path that was
in use when the handler read the thresholds. The reads of the accounts of
a view are one step. A form is sent with what its page shows where there is no draft.

Assumed: a renamed file survives (no power failure); operators do not edit the
files; handlers run after `configure`; a page does not poll while its save is
under way. A write that fails after the rename is modelled, a key that is written
and reported as failed too.

### RevisionedRegister

What the preferences promise: for each file one visible value, replaced only by its
successor; a save that failed may leave its successor pending, and the next start
makes it the value. `PrefsStore` implements it with `value` the record in memory (or
the last one that was seen) and `pending` what is in the file and was never seen.

### PrefsStoreProofs

Proofs about `PrefsStore`, see below. `MCPrefs` instantiates it for TLC.

### SnapshotStore

The snapshots and their history, in memory and in the cache file.

| Variable | Code |
| --- | --- |
| `mem` | `snapshotStore.entries` and `.history` |
| `file` | the cache file: its contents, whether it has the old format, whether it can be read |
| `loadErr`, `migration`, `saveMu` | `loadErr`; `migrationRevision`, `migrationDirty`, `migrationErr`; the mutex |
| `proc` | each caller of `save` or `migrateAccount`: where it is and what it has copied |
| `gone`, `cleared` | history variables: what a clearance or the limit removed |

`save` is split into the copy (with `migrationRevision`, under `saveMu`) and the write,
which may fail before or after the rename; `Load` replaces the memory and may find a
damaged file; `Crash` empties the memory. `Merged` is the merge of two histories, with
the stable sort by time and status that the code has; a snapshot is a name, its check
time and the rank of its status, which are what that sort looks at. The file lock of
`storage.go` and a change of the path are left out. `migrationRevision` counts modulo
`Wrap`: within one write each legacy id migrates once at most. `MCSnapshots`
instantiates the module.

### Scheduler

`background.go`, the calls that start and stop it, refresh jobs and `refreshStatus`.

| Variable | Code |
| --- | --- |
| `current` | `running`, `cancel` and `done`, which change together under `mu` |
| `loop`, `cancelled`, `wake` | the goroutine of each start, its context, the channel |
| `caller`, `configureMu` | each call of configure, shutdown and the state route |
| `job`, `refreshing` | the status of each job; `refreshStatus.running` |
| `asked`, `active` | history variables: a wake-up not yet looked at; the runs under way |

The delay is left out: the timer may end at any time or, as far as fairness goes,
never, so that a wake-up must be served without it.

### Identities

Which id a credential gets. A slot is a legacy id: a position in the source
configuration or an `AuthIndex` of the host. A discovery draws any listing in which a
credential stands once (the code drops duplicates), resolves all of it in one commit
(`Resolve`), then looks at the snapshots of each legacy id in a step of its own
(`CheckSnapshot`) and moves them in another (`MoveSnapshot`), as the code does, between
commits of other discoveries and of the user (`EnterPat`). A fingerprint is the pair of
the key it is made with and the credential, and empty without a key. A commit that
fails changes nothing and is left out. The PAT carries, for the properties, the
credential it was entered for.

### StatusRules and Alerts

`StatusRules` holds the pure part: `inferSnapshotBaseStatus`, `cashThresholdStatus`,
`applyThresholds`, `alertsForAccount`, the ids of alerts. Amounts and shares are small
integers on both sides of each threshold. `Alerts` puts it to work: a result is judged
by the thresholds of its time and stored later; the config route commits thresholds
and has the stored snapshots judged again in a second step (`reapplyActive`); the
providers route commits a rule of one account and has nothing judged, or takes an
account out of the report and then, in a second step, out of the store. A report copies
the snapshots (`ListSnapshots`), asks of each account whether it is monitored
(`AskMonitored`), finds the alerts of each by the thresholds of that moment
(`JudgeListed`) and reconciles the dismissals, which may fail (`Reconcile`); results,
saves and dismissals come in between. A restart ends the handlers and loses the base
status, which is not stored; a reconfiguration leaves the handlers at work. `Judgement` is the reference for
the status of an account: the worst of what speaks against it. `MCAlerts` chooses the
figures.

### Sessions

The session proxy: each handler reads the clock in one step and takes the lock in the
next; CPAMP and CPA are asked without the lock. Cookies may or may not reach the
browser, and a browser here never forgets one. `Tokens` bounds the sessions ever made,
`MaxTime` the clock. `begun` and `ended` are history variables.

### SnapshotStoreProofs, SchedulerProofs, IdentitiesProofs, AlertsProofs, SessionsProofs

Proofs about `SnapshotStore`, `Scheduler`, `Identities`, `Alerts` and `Sessions`, see below.

## Runs

All runs of `RefreshCommit` allow a stop (`CHECK_DEADLOCK FALSE`): with nobody
starting a run or editing, and the bound on revisions reached, the system rests.
That nothing is left half done is the liveness property `RunsFinish`.

| Run | Instance | Shows |
| --- | --- | --- |
| `refresh_core` | 1 static account, scheduler, 1 request, 1 editor, 1 visitor, 2 adapters, 2 PATs, 1 revision | `FreshMeansCurrent`, `CancelledNeverFresh`, `RevivedNeverFresh`, `HistoryKept`, `Reported` (refinement) |
| `refresh_finish` | 1 account of the host whose credential changes, scheduler and 1 request, fair | `OwnCandidate`, `FollowersServed`, `RunsFinish` |
| `refresh_batch` | 2 accounts, one of the host, semaphore of 1, scheduler, 1 visitor, fair | `ResultsComplete`, `RunsFinish` |
| `prefs_edits` | 2 pages, both kinds of thresholds, dismissals and their reconciliation, 1 revision, fair | `RevisionIdentifiesData`, `SaveOnBase`, `SaveKeepsOtherThreshold`, `SaveAnswered` |
| `prefs_store` | 2 files, 2 keys, 1 page, settings and a PAT, invalidations, 1 revision | `QueryRevisionIdentifiesConfig`, `PatsOpen`, `PublishedDurable`, `Register` (refinement) |
| `prefs_overwrite` | 2 pages | `NoSilentOverwrite` fails (finding) |
| `snapshots` | 1 account, 1 legacy id, 1 route, 1 discovery, history of 2, 3 snapshots, fair | `TypeOK`, `ClearanceHolds`, `MigrationMarked`, `SavedIsKept`, `MigrationKeepsNewest`, `MigrationSaved` |
| `scheduler` | 2 hosts, 1 page, 1 job, 2 generations of the loop, fair | `OneLoop`, `StopAwaits`, `RefreshingIsTrue`, `StopReturns`, `WakeServed` |
| `identities` | 2 positions with 2 credentials, 1 host index with 1, 1 key, 2 random ids | `Independent`, `EnteredStays`, `IdKept`, `PatsMove`, `HistoryFollowsPat` |
| `alerts` | 7 figures, 3 sets of thresholds, 1 page, 1 report, 1 dismissal, of a low quota | `LevelsAgree`, `TroubleTold`, `StaysHidden`, `SaveSettles` |
| `alerts_errors` | the same | `ErrorsKept` fails (finding) |
| `sessions` | 2 browsers, 2 handlers, 2 sessions of length 2, time up to 3 | `ServedInSession`, `KeptUntilOver` |

Types are proved and not checked by a run, except in `snapshots`, where `TypeOK` says that
no history is longer than its limit.

Bounds. `MaxRev` bounds how often the query revision of an account grows: with 1
there is a revision to be late for and one to be late with, and a save and a
clearance compete for it. One account is enough where the
property is about one account, because accounts meet only in the semaphore, the
batch of a save and the selection of a run, which have runs with two. `Volatile`
says which accounts CPA may change. Two adapters or two PATs suffice to tell an old
configuration from a new one. `NoPat` is one of the `Pats`.

Fairness. `Fairness` is weak for the steps of each run and its workers: goroutines
are scheduled, and every query ends because `queryCandidateContext` gives it the
account budget. It is strong for the entry into `snapshotMu`, because the mutex of
Go is starvation free. Nothing is assumed of editors, visitors, CPA or the
scheduler: nobody has to start anything.

The runs of `PrefsStore` check deadlock: pages can always be read. Crashes, failed
writes, lost key files and restarts happen in all of them. `Edits` and `Chores` say
which saves and which other commits an instance has; each run has those its
property is about. `MaxRev` bounds the writes that succeed, not the commits that
begin: with one, a page can be a revision late, a failed write can be followed by
another of the same number, and a commit can begin on the result of another.
One account suffices, since accounts of a batch are treated alike and independently;
two files are needed only where the path changes; two keys are one lost and one new.

`FairSpec` of `PrefsStore` is weak for the write of whoever holds `commitMu`
(a write returns or fails) and strong for a handler that waits for it: a Go mutex
hands itself to the longest waiter after a millisecond. Crashes are not excluded:
they answer the page by failing its request.

The other modules. `snapshots`: a history of two is full after two results, and a
third is what a clearance, a crash or a merge at the limit can go wrong with; accounts
do not interact in the store. Its fairness is weak for a discovery and for a write, and
strong for the entry into `saveMu`; `MigrationSaved` assumes in its own formula that
writes do not fail for ever. `scheduler`: a second loop can only come after the first, and
two hosts and a page can race for it; its fairness is weak for every goroutine, and
strong for the branch of the select that sees the cancelled context, since Go chooses at
random among the branches that are ready. `identities`: two credentials can swap their
positions, one can leave and come back at the place of the other; a key is lost and
found again. `alerts`: accounts do not interact, so one is enough; `MaxDismissed`
and `Dismissable` say that one alert of a low share is dismissed at a time, which is
where an old listing and new thresholds disagree. `sessions`: with
sessions of length 2 a clock that was read one tick before the lock is told from one
that was not. These four rest when a bound is reached or nobody asks
(`CHECK_DEADLOCK FALSE`), but `snapshots` does not.

## Findings

Two runs find what a document of the repository rules out; `PROJECT.json` quotes it.

- `prefs_overwrite`: the state of a page pairs old settings with a newer revision, if
  a commit falls between its two reads; the page's save then overwrites that commit
  without a 409. `SaveOnBase` shows that the store itself is right: the fault is in
  what a page takes for its base.
- `alerts_errors`: saving thresholds gives an account whose last query failed the
  status of its old figures, because the error snapshot keeps their base status.

### Observed without a run

These follow from the code as modelled; no run is spent on them.

- An old query, or an old quota fetch, can put its snapshot after the account was
  cancelled or cleared (`main.go` 1255, 555; README:35). `CancelledNeverFresh` and
  `RevivedNeverFresh` show the limit of the damage: it is never taken for current.
- A failed read of the host directory prunes the host accounts (`main.go` 1173;
  README:81), and an account switched on during a run loses its active snapshot at the
  end of it (`main.go` 1289). The history stays.
- One account of a batch that is switched off fails the job for the others
  (`main.go` 1223); the scheduler refreshes them later.
- A poll of the page replaces the revision under a draft (`ui.html` 4188; README:33),
  with the same result as `prefs_overwrite`.
- The back-off after failures does not apply while any account was never read with
  success (`background.go` 118; USER_GUIDE:169).
- A run saves to the cache path that was configured when it started (`main.go` 1153).
- Preferences that an earlier version kept under a position go to whatever credential
  stands there now (`prefs.go` 783-790, 815-824), while
  `docs/MIGRATION_AND_ROLLBACK.md` 48-50 says that a position is not guessed from: no
  fingerprint of the old credential is there to compare. `EnteredStays` speaks of PATs
  entered in this version.
- A report copies the snapshots (`main.go` 1985) and reads the thresholds later (2128),
  so it may miss an alert that is up, and then drops its dismissal (`prefs.go` 435) and
  shows it at the next poll, while README:66 says that it stays hidden. Two ways: the
  alert comes up and is dismissed after the copy; or, after the copy, a query stores a
  lower share and a page saves lower thresholds, so that the alert is up all along while
  the old share is no longer low. `StaysHidden` says what does hold: a dismissal is kept
  while the alert is up both in the store and in what the reports under way have listed.
- The balance alert has one id for both levels, so one dismissed as a warning stays
  hidden when it becomes critical (`main.go` 2130; RELEASE_NOTES_0.5.5 speaks of a new
  id when the priority changes). A balance of 0 without a rule is critical and has no
  alert of its own, so `TroubleTold` speaks of accounts with quotas.
- A result judged by thresholds that were replaced before it is stored keeps the old
  verdict until the next refresh (USER_GUIDE:156), and so does an account whose own
  rule is saved by the providers route. `LevelsAgree` and `SaveSettles` say for whom
  the verdict is right.
- While no thresholds are saved the handler of the provider route changes the maps of
  the configuration in place, also if its save is then rejected (`main.go` 954).

## Proofs

`RefreshCommitProofs` proves for any sets of accounts, runs, editors, visitors,
credentials, adapters and PATs and any bounds, from the assumptions the module
names (`NonEmpty`, `AccountsAssumption`, `BoundAssumption`, `RunAssumption`,
`PatAssumption`, `CredAssumption`, `DataAssumption`, `EntryAssumption`,
`KeepAssumption`: constants are not empty, distinct markers are distinct):

- `TypeCorrect`: `TypeOK`, inductive as it stands, one lemma per kind of step;
- `FreshCorrect` and `CancelledCorrect`, from the inductive `SoundInv`. Neither is
  inductive alone, because a wrong snapshot in the hands of a worker or visitor
  would get into the store. `SoundInv` says of every snapshot in the store and in
  flight that it carries no future revision and, if it carries the present one, is
  right; and of a worker on its way that what it read is right unless the revision
  moved. Its proof rests on `Forward`: the preferences of an account change only
  together with its query revision. `Forward` is proved of every step; then what a
  step writes is sound for the old preferences (`WorkersOrigin`, `VisitorsOrigin`,
  `EntryOrigin`) and stays sound for the new ones (`SoundKept`, `WorkerKept`,
  `VisitorKept`);
- `OwnCandidateCorrect` and `FollowersCorrect`, from the inductive `SharingInv`: only
  a run in its working phase has workers on a query, so no run ends under a
  follower, and the end of a query serves everybody with its key.

`RefreshResultsProofs` adds, from the same assumptions:

- `RevivedCorrect`, from the inductive `DatedInv`: no removal is dated later than the
  query revision, and a good result, in the store or in flight, never carries a later
  revision than the one its query began under;
- `HistoryCorrect`: every action but a clearance leaves the history standing;
- `ResultsCorrect`, from the inductive `PhaseInv`, which says for each phase of a run
  how far its workers are: none discovers any more once the run works, all have settled
  when it prunes, and none gives up unless the run was cancelled. It needs `SharingInv`:
  a worker on a query holds its run in the working phase;
- `RefreshIsCurrent`: the refinement of `CurrentFigures`. `SoundInv` gives that a change
  hides what it outdates (a snapshot carries no future revision, so none of the one a
  change makes) and that figures which count are of now; `DatedInv` gives since when they
  were asked for; `ClearingInv` that a clearance deletes what it has invalidated.

`PrefsStoreProofs` proves for any sets of pages, accounts, alerts, files, keys,
settings, PATs and thresholds and any bound, from the assumptions `PrefsStore` names
(markers differ from values, `Default` is a setting, there is a threshold):

- `StoreTypeCorrect`, `RevisionsIdentify`, `QueryRevisionsIdentify`,
  `AcknowledgedIsDurable` and `SavesOnBase`, from the inductive `StoreInv`. That a
  revision identifies a record is not inductive: a new record must also be newer
  than every one seen before. `Chain` says that the records of a file are ordered,
  the last one is the one in memory, and the file holds it or a successor (what a
  failed or crashed save left); `Successor` says that the commit under way makes
  the successor; `Precedes` orders two records such that equal query revisions mean
  equal configurations; `Control` says who holds `commitMu`.
- `KeysOpenPats`, from `KeyInv`, which adds `Sealing`: the key file, the key in memory,
  the record and the commit under way agree. It needs `StoreInv` because a file is
  either the last record or its successor.
- `OtherThresholdKept`, from `ThresholdInv`: what a handler is to write back is, but for
  its own part, taken from a record that could be seen under the path of that time, and
  that is not older than the one its page is based on (`Kept`). So if the commit is not
  refused, both are the record in memory. The claim is about a commit that meets the path
  its thresholds were read under. Of thresholds read from another file, between two
  changes of the path, nothing is claimed: the revision that is compared does not name
  its file;
- `StoreIsRegister`: the refinement of `RevisionedRegister`; `Rename` is `Attempt`,
  `Publish` is `Accept`, `Configure` is `Start`, `Crash` is `Stop`, the rest stutters.

`SnapshotStoreProofs` proves for any accounts, legacy ids, routes, discoveries, limit of
the history and initial files, from the assumptions `SnapshotStore` names:

- `SnapshotTypes`: `TypeOK`, which bounds every history by the limit. It and
  `MigrationCorrect` need facts about `Merged`, which sorts by rank: in a finite set
  under a strict total order the number of smaller elements numbers the elements from 0
  (`RankGrows`, `RankOnto`), so the merge is a sequence of the merged events, each
  once, and its cut keeps the first ones (`MergedFacts`, `CutFacts`);
- `ClearanceCorrect`, from the inductive `ClearInv`. That what was cleared is not in
  memory or file is not inductive: it must not be in a copy that is being written
  either (`Removed`; `OneWriter`, because of `saveMu`, says there is one such copy), and
  no snapshot may be used before it is made (`Known`), or a put could bring it back;
- `KeptCorrect`, from the inductive `KeptInv`: while a save may come, the memory holds what
  the file holds; a copy that is being written holds what the file holds, and the
  memory what the copy holds, but for what a clearance or a full history removed. It
  needs `OneWriter`, and that a save refuses while the last load failed;
- `MigrationCorrect`: what one migration keeps and drops, from `MergeKeeps`: it empties a
  legacy id that had something, merges that into the stable id, and touches no other id;
- `MarkedCorrect`, from the inductive `MarkedInv`. A save that ends clears the mark if
  `migrationRevision` is what it was at the copy, so the argument is about copies: the
  legacy ids a copy under way still lists and memory no longer does (`Since`) are as many
  as the migrations since, counted modulo `Wrap`. There are fewer legacy ids than `Wrap`
  (`WrapAssumption`; the counter of the code has 64 bits), so an equal revision means
  that nothing migrated since.

`SchedulerProofs` proves for any callers, jobs and bound on loops, from
`SetsAssumption` and `BoundsAssumption`: `OneLoopCorrect`, `StopAwaitsCorrect`,
`RefreshingCorrect` and `SchedulerTypes`, from the inductive `LoopInv`. That one loop
is alive is not inductive; that a loop that is alive is the one `running`, `cancel` and
`done` belong to is, because only that loop resets them, and a start finds them reset.

`AlertsProofs` proves for any accounts, figures, thresholds, pages and reports, from
`ThresholdsAssumption`, `FiguresAssumption` and `NoneAssumption`:

- `AlertTypes`, and `HiddenCorrect` from the inductive `HiddenInv`: an alert that was
  dismissed and has been up since, in the store and in what is listed, is what every
  report under way has found or will find, whatever it has asked and judged so far, so
  no reconciliation drops it;
- `LevelsCorrect` and `TroubleCorrect`, from the inductive `JudgedInv`. That status and
  alerts agree is not inductive, because judging starts from the base status, which an
  error keeps and a restart infers again from the status and the code of the error.
  `Honest` says that base and status account for sections that fail and for errors;
  `Agreed` that a low status is as severe as every level under the thresholds it was
  judged by, for which `LevelOf` must be monotone (`LevelMonotone`). `Honest` is what
  judging needs, both are what it makes (`ApplyAgrees`);
- `SettlesCorrect`, from the inductive `SettledInv`: the base status an account has is
  the one its figures have, and if a restart lost it, its status and code are such that
  the same is inferred again, so that what earlier thresholds added is not taken for a
  part of it. `JudgementSpelled` writes
  the reference, the worst of a set, as the cases the code goes through, and
  `ApplySettles` compares the two case by case. `FiguresAssumption` says what figures an
  adapter can produce: amounts are integers, and an account that is not supported has a
  verdict of its own.

`IdentitiesProofs` proves for any slots (finitely many), credentials, keys, discoverers
and bound on ids, from `DisjointAssumption`, `BoundAssumption` and `MarkerAssumption`:

- `IdentityTypes`: `TypeOK`, with the fact that a discoverer only has ids before it that
  the record holds (`Resolved`);
- `IndependentCorrect` and `IdKeptCorrect`, from the inductive `AccountInv`. That two
  credentials are never one account is not inductive: a new id must be new
  (`Numbered`: drawn ids are counted; `Derived`: a derived id stands for its source id,
  so a source id that is known is matched and never derived again), and the id a
  credential was given must have its basis or none (`Answered`). `ResolveFacts` says
  once what a resolution leaves behind, and every later lemma cites that;
- `EnteredCorrect`, from the inductive `EnteredInv`: an entered PAT stands under a known
  id whose basis is its owner's, never under a slot that could pass it on;
- `HistoryCorrect`, from the inductive `HistoryInv`: an identity whose slot kept its PAT
  is marked for a new link, or was taken in hand; so is one that a discoverer is about
  to move snapshots to, although a resolution may come between its two steps;
- `PatsMoveCorrect`: a resolution is a `HandedOver`, a one to one map of the places of its
  heirs onto new ids that hold nothing (`ResolveHandsOver`), and such a map leaves the
  number of places of every PAT as it is (`HandedOverCounts`). `FiniteInv` says that
  they can be counted.

`SessionsProofs` proves for any browsers, handlers, tokens, length of a session and
clock: `PassedOnlyInSession`, `SessionsStay` and `SessionTypes`, from the inductive
`SessionInv`, which says of each handler that it read the clock before now and that, if
its check would let the request pass, the session was on when the request came
(`Carried`).

Only model-checked: the liveness properties `RunsFinish`, `SaveAnswered`, `MigrationSaved`,
`StopReturns` and `WakeServed`, since fairness is out of the prover's reach. Every
other property of a run that passes is stated by a theorem.

## Plan

Done: `RefreshCommit` and `CurrentFigures`, `PrefsStore` and `RevisionedRegister`, `SnapshotStore`,
`Scheduler`, `Identities`, `StatusRules` and `Alerts`, `Sessions`, and proofs about all
of these. Left, in this order:

1. A refinement for the snapshot store, as `RevisionedRegister` is one for the
   preferences.
2. A change of the cache path in `SnapshotStore`.

## Not modelled

The presentation of the UI page and the C bridge (marshalling); the formats of CPA's
configuration and of upstream JSON, and with them the bodies of the adapters, which
convert data and keep no state; the choice of a proxy, sockets, TLS and file
permissions; encryption of PATs, taken as what it does: a PAT is readable or it is not;
the length of delays and time-outs; the eviction of old job records.
