---------------------------- MODULE RefreshCommit ----------------------------
(***************************************************************************)
(* How the result of an upstream query becomes the active snapshot of an   *)
(* account while the configuration of that account changes under it.       *)
(*                                                                         *)
(* A refresh run (refreshAccountsDetailedContext) discovers the accounts,  *)
(* selects the monitored ones, starts one worker per account and prunes    *)
(* the snapshot store when all of them are done.  Workers of different     *)
(* runs that ask for the same account under the same configuration share   *)
(* one query (accountRefreshGroup).  Meanwhile editors save the provider   *)
(* configuration or clear records, and visitors (quota fetches, directory  *)
(* reads of other handlers) put snapshots of their own.                    *)
(*                                                                         *)
(* Disk, thresholds and the optimistic revision of the preferences are not *)
(* part of this module: a save may simply be rejected.                     *)
(***************************************************************************)
EXTENDS Naturals, FiniteSets

CONSTANTS
    Accounts,
    HostAccounts,   \* the accounts the host lists; the others come from the source config
    Requests,       \* slots for refreshes started by a request or a job
    Background,     \* the run of the background scheduler, at most one at a time
    Editors,        \* handlers of the provider and clean-up routes
    Visitors,       \* quota fetches and directory reads of other handlers
    Volatile,       \* the accounts CPA may change (bound)
    Creds,          \* what CPA may list for an account: credential, endpoint, proxy
    Adapters,       \* adapter overrides, "auto" being one of them
    Pats,           \* management PATs, NoPat being one of them
    NoPat,
    MaxParallel,    \* capacity of the semaphore of a run (4 in the code)
    MaxRev,         \* bound: how often the query revision of an account grows
    Absent,         \* catalog: not listed by CPA
    Unreadable,     \* candidate: listed, but the host could not hand out the credential
    NoData,         \* a snapshot without figures
    NoEntry         \* no active snapshot

ASSUME NonEmpty == Accounts # {} /\ Adapters # {}
ASSUME AccountsAssumption == HostAccounts \subseteq Accounts /\ Volatile \subseteq Accounts
ASSUME BoundAssumption == MaxRev \in Nat /\ MaxParallel \in Nat \ {0}
ASSUME RunAssumption == Background \notin Requests
ASSUME PatAssumption == NoPat \in Pats

ASSUME CredAssumption == {Absent, Unreadable} \cap Creds = {} /\ Absent # Unreadable

AnyAccount == CHOOSE a \in Accounts : TRUE
AnyAdapter == CHOOSE x \in Adapters : TRUE

Runs == Requests \cup {Background}
Workers == Runs \X Accounts
Revs == 0 .. MaxRev
Config == [adapter : Adapters, pat : Pats]
ASSUME DataAssumption == NoData \notin Config

\* rev is ConfigRevision, data the configuration the metrics were queried with
\* (LastSuccessAt # nil iff there is some), ok is Status # error.  Ghost: began is
\* the query revision at the time the query, or the failed read, began.
Snapshot == [rev : Revs, began : Revs, ok : BOOLEAN, data : Config \cup {NoData}]
Blank == [rev |-> 0, began |-> 0, ok |-> FALSE, data |-> NoData]
ASSUME EntryAssumption == NoEntry \notin Snapshot

VARIABLES
    catalog,    \* catalog[a]: what CPA lists for a now
    monitored,  \* monitorPrefs.Monitored
    cfg,        \* monitorPrefs.Adapters and PATs
    qrev,       \* monitorPrefs.QueryRevisions
    entry,      \* snapshotStore.entries
    hist,       \* hist[a]: snapshotStore.history holds a record of a
    removed,    \* ghost: query revision at the last cancellation or clearance
    pc,         \* where each run is
    req,        \* what each run was asked for
    cancelled,  \* ctx.Err() # nil
    work,       \* the worker of each run for each account
    ed,         \* editors
    vis         \* visitors

prefs == <<monitored, cfg, qrev>>
store == <<entry, hist, removed>>
runs == <<pc, req, cancelled, work>>
vars == <<catalog, prefs, store, runs, ed, vis>>

-----------------------------------------------------------------------------
(* Requests, workers, editors and visitors at rest *)

\* ids = {} asks for every account; saved marks the job of a saved configuration.
NoRequest == [ids |-> {}, saved |-> FALSE]
Request == [ids : SUBSET Accounts, saved : BOOLEAN]

\* cand: the candidate this run discovered.  via: the candidate of the query that
\* answered (ghost).  adapter: the override read at the start of a query.
WorkerPc == {"unseen", "unread", "marking", "dropped", "kept", "chosen", "queued",
             "keyed", "lead", "routed", "follow", "have", "ready", "failing", "put",
             "skipped", "stored", "failed", "gone"}
Idle == [pc |-> "unseen", cand |-> Absent, via |-> Absent, rev |-> 0,
         adapter |-> AnyAdapter, snap |-> Blank]
Candidate == Creds \cup {Absent, Unreadable}
Worker == [pc : WorkerPc, cand : Candidate, via : Candidate, rev : Revs,
           adapter : Adapters, snap : Snapshot]

Keep == "keep"
Mutation == [mon : {Keep, "on", "off"}, adapter : Adapters, pat : Pats \cup {Keep}]
ASSUME KeepAssumption == Keep \notin Pats

EditorPc == {"idle", "save", "apply", "job", "clear", "delete"}
NoEdit == [pc |-> "idle", ids |-> {}, todo |-> {}, seen |-> [a \in Accounts |-> 0]]
Editor == [pc : EditorPc, ids : SUBSET Accounts, todo : SUBSET Accounts,
           seen : [Accounts -> Revs]]

VisitorPc == {"idle", "routed", "unread", "put"}
NoVisit == [pc |-> "idle", acct |-> AnyAccount, adapter |-> AnyAdapter, snap |-> Blank]
Visitor == [pc : VisitorPc, acct : Accounts, adapter : Adapters, snap : Snapshot]

RunPc == {"idle", "host", "static", "select", "work", "prune"}

TypeOK ==
    /\ catalog \in [Accounts -> Creds \cup {Absent}]
    /\ monitored \in [Accounts -> BOOLEAN]
    /\ cfg \in [Accounts -> Config]
    /\ qrev \in [Accounts -> Revs]
    /\ entry \in [Accounts -> Snapshot \cup {NoEntry}]
    /\ hist \in [Accounts -> BOOLEAN]
    /\ removed \in [Accounts -> Revs]
    /\ pc \in [Runs -> RunPc]
    /\ req \in [Runs -> Request]
    /\ cancelled \in [Runs -> BOOLEAN]
    /\ work \in [Workers -> Worker]
    /\ ed \in [Editors -> Editor]
    /\ vis \in [Visitors -> Visitor]

Init ==
    /\ catalog \in [Accounts -> Creds]
    /\ monitored \in [Accounts -> BOOLEAN]
    /\ cfg = [a \in Accounts |-> [adapter |-> AnyAdapter, pat |-> NoPat]]
    /\ qrev = [a \in Accounts |-> 0]
    /\ entry = [a \in Accounts |-> NoEntry]
    /\ hist = [a \in Accounts |-> FALSE]
    /\ removed = [a \in Accounts |-> 0]
    /\ pc = [r \in Runs |-> "idle"]
    /\ req = [r \in Runs |-> NoRequest]
    /\ cancelled = [r \in Runs |-> FALSE]
    /\ work = [w \in Workers |-> Idle]
    /\ ed = [e \in Editors |-> NoEdit]
    /\ vis = [v \in Visitors |-> NoVisit]

-----------------------------------------------------------------------------
(* The snapshot store *)

put(a, snap) ==
    /\ entry' = [entry EXCEPT ![a] = snap]
    /\ hist' = [hist EXCEPT ![a] = TRUE]
    /\ UNCHANGED removed

\* Bug: leaving the report takes the history along.
removeActiveAndHistory(S) ==
    /\ entry' = [a \in Accounts |-> IF a \in S THEN NoEntry ELSE entry[a]]
    /\ hist' = [a \in Accounts |-> hist[a] /\ a \notin S]

\* removeActive and prune leave the history alone; delete does not.
removeActive(S) ==
    /\ entry' = [a \in Accounts |-> IF a \in S THEN NoEntry ELSE entry[a]]
    /\ UNCHANGED hist

delete(a) ==
    /\ entry' = [entry EXCEPT ![a] = NoEntry]
    /\ hist' = [hist EXCEPT ![a] = FALSE]

\* The previous snapshot is carried on with the status error; without one the
\* error stands alone, with no ConfigRevision.
errorSnapshot(a) ==
    IF entry[a] # NoEntry
    THEN [entry[a] EXCEPT !.ok = FALSE]
    ELSE [Blank EXCEPT !.began = qrev[a]]

canCommitQueryResult(a, rev) == monitored[a] /\ qrev[a] = rev

\* The age of a snapshot is not modelled: any may have outlived the TTL.
snapshotCurrent(a) ==
    /\ entry[a] # NoEntry
    /\ entry[a].data # NoData
    /\ entry[a].rev = qrev[a]

-----------------------------------------------------------------------------
(* Refresh runs *)

StartRun(r, q) ==
    /\ pc[r] = "idle"
    /\ pc' = [pc EXCEPT ![r] = "host"]
    /\ req' = [req EXCEPT ![r] = q]
    /\ cancelled' = [cancelled EXCEPT ![r] = FALSE]
    /\ UNCHANGED work

StopRun(r) ==
    /\ pc' = [pc EXCEPT ![r] = "idle"]
    /\ req' = [req EXCEPT ![r] = NoRequest]
    /\ cancelled' = [cancelled EXCEPT ![r] = FALSE]
    /\ work' = [w \in Workers |-> IF w[1] = r THEN Idle ELSE work[w]]

\* The scheduler: no callback, TTL respected, every account.
StartBackground ==
    /\ StartRun(Background, NoRequest)
    /\ UNCHANGED <<catalog, prefs, store, ed, vis>>

\* POST /refresh: the ids are checked against the catalog and the preferences.
StartRequest(r) ==
    /\ \E ids \in SUBSET {a \in Accounts : monitored[a] /\ catalog[a] # Absent} :
           StartRun(r, [ids |-> ids, saved |-> FALSE])
    /\ UNCHANGED <<catalog, prefs, store, ed, vis>>

\* stop() cancels the context of the scheduler; requests and jobs run under
\* context.Background().
CancelBackground ==
    /\ pc[Background] # "idle"
    /\ cancelled' = [cancelled EXCEPT ![Background] = TRUE]
    /\ UNCHANGED <<catalog, prefs, store, pc, req, work, ed, vis>>

\* The host lists its accounts; handing out one credential may fail.
ListHost(r) ==
    /\ pc[r] = "host"
    /\ \E lost \in SUBSET {a \in HostAccounts : catalog[a] # Absent} :
           work' = [w \in Workers |->
               IF w[1] = r /\ w[2] \in HostAccounts
               THEN [Idle EXCEPT
                       !.cand = IF w[2] \in lost THEN Unreadable ELSE catalog[w[2]],
                       !.pc = IF w[2] \in lost THEN "unread" ELSE "unseen"]
               ELSE work[w]]
    /\ pc' = [pc EXCEPT ![r] = "static"]
    /\ UNCHANGED <<catalog, prefs, store, req, cancelled, ed, vis>>

\* The host cannot list its accounts: fatal for a run with a host callback, ignored
\* for one without.  The scheduler has none; a request may have one.
ListHostFails(r) ==
    /\ pc[r] = "host"
    /\ \/ /\ r # Background
          /\ StopRun(r)
       \/ /\ pc' = [pc EXCEPT ![r] = "static"]
          /\ UNCHANGED <<req, cancelled, work>>
    /\ UNCHANGED <<catalog, prefs, store, ed, vis>>

SetWorker(w, value) ==
    /\ work' = [work EXCEPT ![w] = value]
    /\ UNCHANGED <<catalog, prefs, pc, req, cancelled, ed, vis>>

\* discoverHostAccounts records an unreadable credential: it reads the previous
\* snapshot, then puts the error, under no lock that spans the two.
ReadUnreadable(w) ==
    /\ work[w].pc = "unread"
    /\ SetWorker(w, [work[w] EXCEPT !.pc = "marking", !.snap = errorSnapshot(w[2])])
    /\ UNCHANGED store

PutUnreadable(w) ==
    /\ work[w].pc = "marking"
    /\ put(w[2], work[w].snap)
    /\ SetWorker(w, [work[w] EXCEPT !.pc = "unseen", !.snap = Blank])

\* discoverStaticAccounts reads the source configuration, after the host.
ListStatic(r) ==
    /\ pc[r] = "static"
    /\ \A a \in Accounts : work[<<r, a>>].pc = "unseen"
    /\ work' = [w \in Workers |->
           IF w[1] = r /\ w[2] \notin HostAccounts
           THEN [Idle EXCEPT !.cand = catalog[w[2]]]
           ELSE work[w]]
    /\ pc' = [pc EXCEPT ![r] = "select"]
    /\ UNCHANGED <<catalog, prefs, store, req, cancelled, ed, vis>>

ListStaticFails(r) ==
    /\ pc[r] = "static"
    /\ \A a \in Accounts : work[<<r, a>>].pc = "unseen"
    /\ StopRun(r)
    /\ UNCHANGED <<catalog, prefs, store, ed, vis>>

\* One turn of the selection loop: keep the monitored, choose the requested.
SelectAccount(w) ==
    /\ pc[w[1]] = "select"
    /\ work[w].pc = "unseen"
    /\ SetWorker(w, [work[w] EXCEPT !.pc =
           IF work[w].cand = Absent \/ ~monitored[w[2]] THEN "dropped"
           ELSE IF req[w[1]].ids = {} \/ w[2] \in req[w[1]].ids THEN "chosen"
           ELSE "kept"])
    /\ UNCHANGED store

Selected(r) == \A a \in Accounts : work[<<r, a>>].pc # "unseen"
AllMatched(r) == \A a \in req[r].ids : work[<<r, a>>].pc = "chosen"

LaunchWorkers(r) ==
    /\ pc[r] = "select" /\ Selected(r) /\ AllMatched(r)
    /\ pc' = [pc EXCEPT ![r] = "work"]
    /\ UNCHANGED <<catalog, prefs, store, req, cancelled, work, ed, vis>>

\* "monitored account %q was not found": one missing account fails the whole run.
RequestUnmatched(r) ==
    /\ pc[r] = "select" /\ Selected(r) /\ ~AllMatched(r)
    /\ StopRun(r)
    /\ UNCHANGED <<catalog, prefs, store, ed, vis>>

-----------------------------------------------------------------------------
(* Workers *)

Move(w, p) == SetWorker(w, [work[w] EXCEPT !.pc = p])

\* A worker that is done with its account forgets everything but its result.
Settle(w, p) == SetWorker(w, [Idle EXCEPT !.pc = p])

LaunchAccount(w) ==
    /\ pc[w[1]] = "work"
    /\ work[w].pc = "chosen"
    /\ Move(w, "queued")
    /\ UNCHANGED store

\* The job of a save is forced and skips nothing.  A forced request is not told apart
\* from one that finds every snapshot past its TTL.
SkipFresh(w) ==
    /\ pc[w[1]] = "work"
    /\ work[w].pc = "chosen"
    /\ ~req[w[1]].saved /\ snapshotCurrent(w[2])
    /\ Settle(w, "skipped")
    /\ UNCHANGED store

AtWork == {"keyed", "lead", "routed", "follow", "have", "ready", "failing", "put"}

\* Bug: a worker that is done keeps its slot of the semaphore.
BusyForever(r) == {a \in Accounts :
    work[<<r, a>>].pc \in AtWork \cup {"stored", "failed", "gone"}}

Busy(r) == {a \in Accounts : work[<<r, a>>].pc \in AtWork}

ReadRevision(w) ==
    /\ work[w].pc = "queued"
    /\ Cardinality(Busy(w[1])) < MaxParallel
    /\ SetWorker(w, [work[w] EXCEPT !.pc = "keyed", !.rev = qrev[w[2]]])
    /\ UNCHANGED store

\* Bug: the signature of the candidate is left out of the key.
KeyWithoutSignature(w) == <<w[2], work[w].rev>>

\* Bug: the query revision is left out of the key.
KeyWithoutRevision(w) == <<w[2], work[w].cand>>

\* newAccountRefreshKey
Key(w) == <<w[2], work[w].rev, work[w].cand>>
Leaders == {w \in Workers : work[w].pc \in {"lead", "routed"}}
Leading(k) == {w \in Leaders : Key(w) = k}

\* accountRefreshGroup.do: the first worker with a key queries, the others wait.
Lead(w) ==
    /\ work[w].pc = "keyed"
    /\ Leading(Key(w)) = {}
    /\ Move(w, "lead")
    /\ UNCHANGED store

Follow(w) ==
    /\ work[w].pc = "keyed"
    /\ Leading(Key(w)) # {}
    /\ Move(w, "follow")
    /\ UNCHANGED store

\* The query reads the adapter override first (adapterFor) ...
RouteQuery(w) ==
    /\ work[w].pc = "lead"
    /\ SetWorker(w, [work[w] EXCEPT !.pc = "routed", !.adapter = cfg[w[2]].adapter])
    /\ UNCHANGED store

Answers(adapter, pat, rev) ==
    {[rev |-> 0, began |-> rev, ok |-> TRUE, data |-> [adapter |-> adapter, pat |-> pat]],
     [Blank EXCEPT !.began = rev]}

\* Bug: the call is not closed, so nobody who waits hears of the answer.
EndQueryWakesNobody(w) ==
    /\ work[w].pc = "routed"
    /\ \E answer \in Answers(work[w].adapter, cfg[w[2]].pat, work[w].rev) :
           SetWorker(w, [work[w] EXCEPT !.pc = "have", !.adapter = AnyAdapter,
                                        !.via = work[w].cand, !.snap = answer])
    /\ UNCHANGED store

\* ... and the PAT when it calls upstream.  The end of the query closes the call:
\* every worker waiting for the key gets the same answer.
EndQuery(w) ==
    /\ work[w].pc = "routed"
    /\ \E answer \in Answers(work[w].adapter, cfg[w[2]].pat, work[w].rev) :
           work' = [x \in Workers |->
               IF x = w \/ (work[x].pc = "follow" /\ Key(x) = Key(w))
               THEN [work[x] EXCEPT !.pc = "have", !.adapter = AnyAdapter,
                                    !.via = work[w].cand, !.snap = answer]
               ELSE work[x]]
    /\ UNCHANGED <<catalog, prefs, store, pc, req, cancelled, ed, vis>>

\* A follower gives up when its own context is done; so does a worker whose
\* query has ended.  Neither leaves a result.
GiveUp(w) ==
    /\ work[w].pc \in {"follow", "have"}
    /\ cancelled[w[1]]
    /\ Settle(w, "gone")
    /\ UNCHANGED store

\* Otherwise it goes on to snapshotMu, and does not look at its context again.
PassContext(w) ==
    /\ work[w].pc = "have" /\ ~cancelled[w[1]]
    /\ Move(w, "ready")
    /\ UNCHANGED store

\* snapshotMu is held from the check of the result to its put.
SnapshotMuHeld == \E w \in Workers : work[w].pc \in {"failing", "put"}

CheckResult(w) ==
    /\ work[w].pc = "ready" /\ ~SnapshotMuHeld
    /\ canCommitQueryResult(w[2], work[w].rev)
    /\ SetWorker(w, [work[w] EXCEPT
           !.pc = IF work[w].snap.ok THEN "put" ELSE "failing",
           !.snap.rev = work[w].rev])
    /\ UNCHANGED store

DiscardResult(w) ==
    /\ work[w].pc = "ready" /\ ~SnapshotMuHeld
    /\ ~canCommitQueryResult(w[2], work[w].rev)
    /\ Settle(w, "skipped")
    /\ UNCHANGED store

ReadPrevious(w) ==
    /\ work[w].pc = "failing"
    /\ SetWorker(w, [work[w] EXCEPT
           !.pc = "put",
           !.snap = [errorSnapshot(w[2]) EXCEPT !.rev = work[w].rev]])
    /\ UNCHANGED store

PutResult(w) ==
    /\ work[w].pc = "put"
    /\ put(w[2], work[w].snap)
    /\ Settle(w, IF work[w].snap.ok THEN "stored" ELSE "failed")

-----------------------------------------------------------------------------
(* The end of a run *)

Settled == {"dropped", "kept", "skipped", "stored", "failed", "gone"}
AllSettled(r) == \A a \in Accounts : work[<<r, a>>].pc \in Settled

\* Bug: the context is not looked at once the workers are done.
CountResultsAnyway(r) ==
    /\ pc[r] = "work" /\ AllSettled(r)
    /\ pc' = [pc EXCEPT ![r] = "prune"]
    /\ UNCHANGED <<req, cancelled, work>>
    /\ UNCHANGED <<catalog, prefs, store, ed, vis>>

CountResults(r) ==
    /\ pc[r] = "work" /\ AllSettled(r)
    /\ IF cancelled[r]
       THEN StopRun(r)
       ELSE /\ pc' = [pc EXCEPT ![r] = "prune"]
            /\ UNCHANGED <<req, cancelled, work>>
    /\ UNCHANGED <<catalog, prefs, store, ed, vis>>

\* keep holds the accounts that were monitored when the run selected them.
keep(r) == {a \in Accounts : work[<<r, a>>].pc # "dropped"}

Prune(r) ==
    /\ pc[r] = "prune"
    /\ removeActive(Accounts \ keep(r))
    /\ UNCHANGED removed
    /\ StopRun(r)
    /\ UNCHANGED <<catalog, prefs, ed, vis>>

-----------------------------------------------------------------------------
(* PUT /providers: a batch of mutations *)

SetEditor(e, value) ==
    /\ ed' = [ed EXCEPT ![e] = value]
    /\ UNCHANGED <<catalog, vis>>

\* The handler notes the query revisions before it commits.
BeginSave(e) ==
    /\ ed[e].pc = "idle"
    /\ \E ids \in SUBSET Accounts \ {{}} :
         /\ \A a \in ids : qrev[a] < MaxRev /\ catalog[a] # Absent
         /\ SetEditor(e, [pc |-> "save", ids |-> ids, todo |-> {},
                          seen |-> [a \in Accounts |-> IF a \in ids THEN qrev[a] ELSE 0]])
    /\ UNCHANGED <<prefs, store, runs>>

Wanted(a, m) ==
    [mon |-> IF m.mon = Keep THEN monitored[a] ELSE m.mon = "on",
     cfg |-> [adapter |-> m.adapter, pat |-> IF m.pat = Keep THEN cfg[a].pat ELSE m.pat]]

\* Bug: a new adapter does not invalidate what was read with the old one.
queryChangedByPat(a, m) ==
    \/ Wanted(a, m).mon # monitored[a]
    \/ Wanted(a, m).cfg.pat # cfg[a].pat
    \/ m.pat \notin {Keep, NoPat}

\* Replacing the PAT counts as a change even when the value is the same.
queryChanged(a, m) ==
    \/ Wanted(a, m).mon # monitored[a]
    \/ Wanted(a, m).cfg # cfg[a]
    \/ m.pat \notin {Keep, NoPat}

CommitSave(e) ==
    /\ ed[e].pc = "save"
    /\ \A a \in ed[e].ids : qrev[a] < MaxRev
    /\ \E m \in [ed[e].ids -> Mutation] :
         /\ monitored' = [a \in Accounts |->
                IF a \in ed[e].ids THEN Wanted(a, m[a]).mon ELSE monitored[a]]
         /\ cfg' = [a \in Accounts |->
                IF a \in ed[e].ids THEN Wanted(a, m[a]).cfg ELSE cfg[a]]
         /\ qrev' = [a \in Accounts |->
                IF a \in ed[e].ids /\ queryChanged(a, m[a]) THEN qrev[a] + 1 ELSE qrev[a]]
         /\ SetEditor(e, [ed[e] EXCEPT
                !.pc = "apply", !.todo = {a \in ed[e].ids : m[a].mon = "off"}])
    /\ UNCHANGED <<store, runs>>

\* A conflicting base revision, an invalid mutation or a failed write: no effect.
RejectEdit(e) ==
    /\ ed[e].pc \in {"save", "clear"}
    /\ SetEditor(e, NoEdit)
    /\ UNCHANGED <<prefs, store, runs>>

RemoveCancelled(e) ==
    /\ ed[e].pc = "apply"
    /\ \E a \in ed[e].todo :
         /\ removeActive({a})
         /\ removed' = [removed EXCEPT ![a] = qrev[a]]
         /\ SetEditor(e, [ed[e] EXCEPT !.todo = @ \ {a}])
    /\ UNCHANGED <<prefs, runs>>

\* refreshIDs: the accounts whose query revision moved.
CollectChanged(e) ==
    /\ ed[e].pc = "apply" /\ ed[e].todo = {}
    /\ SetEditor(e, [NoEdit EXCEPT
           !.pc = "job",
           !.ids = {a \in ed[e].ids : qrev[a] # ed[e].seen[a]}])
    /\ UNCHANGED <<prefs, store, runs>>

\* startRefreshJob(refreshIDs, force); the job takes a free slot (bound).
StartJob(e) ==
    /\ ed[e].pc = "job" /\ ed[e].ids # {}
    /\ \E r \in Requests :
           StartRun(r, [ids |-> ed[e].ids, saved |-> TRUE])
    /\ SetEditor(e, NoEdit)
    /\ UNCHANGED <<prefs, store>>

\* No revision moved, or the directory cannot be read again for the answer
\* (buildMonitorUIState): the save stands and no job is started.
EndWithoutJob(e) ==
    /\ ed[e].pc = "job"
    /\ SetEditor(e, NoEdit)
    /\ UNCHANGED <<prefs, store, runs>>

-----------------------------------------------------------------------------
(* POST /cleanup *)

BeginCleanup(e) ==
    /\ ed[e].pc = "idle"
    /\ \E ids \in SUBSET Accounts \ {{}} :
         /\ \A a \in ids : qrev[a] < MaxRev
         /\ SetEditor(e, [NoEdit EXCEPT !.pc = "clear", !.ids = ids])
    /\ UNCHANGED <<prefs, store, runs>>

\* Bug: a clearance leaves the queries under way valid.
InvalidateNothing(e) ==
    /\ ed[e].pc = "clear"
    /\ SetEditor(e, [ed[e] EXCEPT !.pc = "delete"])
    /\ UNCHANGED <<prefs, store, runs>>

invalidateQueryResults(e) ==
    /\ ed[e].pc = "clear"
    /\ \A a \in ed[e].ids : qrev[a] < MaxRev
    /\ qrev' = [a \in Accounts |-> IF a \in ed[e].ids THEN qrev[a] + 1 ELSE qrev[a]]
    /\ SetEditor(e, [ed[e] EXCEPT !.pc = "delete"])
    /\ UNCHANGED <<monitored, cfg, store, runs>>

DeleteRecords(e) ==
    /\ ed[e].pc = "delete"
    /\ \E a \in ed[e].ids :
         /\ delete(a)
         /\ removed' = [removed EXCEPT ![a] = qrev[a]]
         /\ SetEditor(e, IF ed[e].ids = {a} THEN NoEdit
                         ELSE [ed[e] EXCEPT !.ids = @ \ {a}])
    /\ UNCHANGED <<prefs, runs>>

-----------------------------------------------------------------------------
(* Visitors *)

SetVisitor(v, value) ==
    /\ vis' = [vis EXCEPT ![v] = value]
    /\ UNCHANGED <<catalog, prefs, runs, ed>>

\* handleQuotaFetch queries one account without asking for a revision ...
RouteQuota(v) ==
    /\ vis[v].pc = "idle"
    /\ \E a \in Accounts :
         /\ catalog[a] # Absent
         /\ SetVisitor(v, [pc |-> "routed", acct |-> a, adapter |-> cfg[a].adapter,
                           snap |-> [Blank EXCEPT !.began = qrev[a]]])
    /\ UNCHANGED store

\* Bug: the answer is filed under the revision of the moment.
AnswerQuotaCurrent(v) ==
    /\ vis[v].pc = "routed"
    /\ SetVisitor(v, [vis[v] EXCEPT
           !.pc = "put", !.snap.ok = TRUE, !.snap.rev = qrev[vis[v].acct],
           !.snap.data = [adapter |-> vis[v].adapter, pat |-> cfg[vis[v].acct].pat]])
    /\ UNCHANGED store

AnswerQuota(v) ==
    /\ vis[v].pc = "routed"
    /\ SetVisitor(v, [vis[v] EXCEPT
           !.pc = "put", !.snap.ok = TRUE,
           !.snap.data = [adapter |-> vis[v].adapter, pat |-> cfg[vis[v].acct].pat]])
    /\ UNCHANGED store

QuotaFails(v) ==
    /\ vis[v].pc = "routed"
    /\ SetVisitor(v, NoVisit)
    /\ UNCHANGED store

\* ... and every handler that reads the directory records unreadable credentials.
ReadDirectory(v) ==
    /\ vis[v].pc = "idle"
    /\ \E a \in HostAccounts :
         /\ catalog[a] # Absent
         /\ SetVisitor(v, [NoVisit EXCEPT !.pc = "unread", !.acct = a])
    /\ UNCHANGED store

ReadDirectoryError(v) ==
    /\ vis[v].pc = "unread"
    /\ SetVisitor(v, [vis[v] EXCEPT !.pc = "put", !.snap = errorSnapshot(vis[v].acct)])
    /\ UNCHANGED store

PutVisit(v) ==
    /\ vis[v].pc = "put"
    /\ put(vis[v].acct, vis[v].snap)
    /\ SetVisitor(v, NoVisit)

\* CPA adds, removes or changes an account (external).
ChangeCatalog ==
    /\ \E a \in Volatile, c \in Creds \cup {Absent} :
         catalog[a] # c /\ catalog' = [catalog EXCEPT ![a] = c]
    /\ UNCHANGED <<prefs, store, runs, ed, vis>>

-----------------------------------------------------------------------------

Discovery(r) ==
    \/ ListHost(r) \/ ListHostFails(r)
    \/ ListStatic(r) \/ ListStaticFails(r)

RunStep(r) ==
    \/ Discovery(r)
    \/ LaunchWorkers(r) \/ RequestUnmatched(r)
    \/ CountResults(r) \/ Prune(r)

QueryStep(w) == ReadRevision(w) \/ Lead(w) \/ Follow(w) \/ RouteQuery(w) \/ EndQuery(w)

WorkerStep(w) ==
    \/ ReadUnreadable(w) \/ PutUnreadable(w) \/ SelectAccount(w)
    \/ LaunchAccount(w) \/ SkipFresh(w)
    \/ QueryStep(w)
    \/ GiveUp(w) \/ PassContext(w) \/ ReadPrevious(w) \/ PutResult(w)

CommitStep(w) == CheckResult(w) \/ DiscardResult(w)

EditorStep(e) ==
    \/ BeginSave(e) \/ CommitSave(e) \/ RejectEdit(e)
    \/ RemoveCancelled(e) \/ CollectChanged(e) \/ StartJob(e) \/ EndWithoutJob(e)
    \/ BeginCleanup(e) \/ invalidateQueryResults(e) \/ DeleteRecords(e)

VisitorStep(v) ==
    \/ RouteQuota(v) \/ AnswerQuota(v) \/ QuotaFails(v)
    \/ ReadDirectory(v) \/ ReadDirectoryError(v) \/ PutVisit(v)

Next ==
    \/ StartBackground \/ CancelBackground \/ ChangeCatalog
    \/ \E r \in Requests : StartRequest(r)
    \/ \E r \in Runs : RunStep(r)
    \/ \E w \in Workers : WorkerStep(w) \/ CommitStep(w)
    \/ \E e \in Editors : EditorStep(e)
    \/ \E v \in Visitors : VisitorStep(v)

Spec == Init /\ [][Next]_vars

\* A started run goes on: goroutines are scheduled and every query ends, at the
\* latest when the account budget is used up (accountTimeout).  The snapshot
\* mutex is starvation free, so a run that keeps asking for it gets it.
\* Nobody has to start a run, edit, visit or cancel.
Progress(r) == RunStep(r) \/ \E a \in Accounts : WorkerStep(<<r, a>>)
Commit(r) == \E a \in Accounts : CommitStep(<<r, a>>)

Fairness == \A r \in Runs : WF_vars(Progress(r)) /\ SF_vars(Commit(r))

FairSpec == Spec /\ Fairness

-----------------------------------------------------------------------------
(* Properties *)

\* An active snapshot that counts as up to date (its ConfigRevision is the query
\* revision of the account) and is not an error shows figures read with the adapter
\* and the PAT that are configured now, whatever runs, shared queries, quota
\* fetches and saves overlapped.
FreshMeansCurrent ==
    \A a \in Accounts :
        entry[a] # NoEntry /\ entry[a].ok /\ entry[a].rev = qrev[a]
            => entry[a].data = cfg[a]

\* Whatever a late query leaves behind for an account that is no longer monitored
\* is out of date: should the account be monitored again, it is queried again.
\* (Revision 0 is what a quota fetch writes for an account never configured.)
CancelledNeverFresh ==
    \A a \in Accounts :
        entry[a] # NoEntry /\ ~monitored[a] /\ qrev[a] > 0 => entry[a].rev < qrev[a]

\* Sharing a query never hands a worker the figures of another credential,
\* endpoint or proxy than the ones its own run discovered.
OwnCandidate ==
    \A w \in Workers :
        work[w].pc \in {"have", "ready", "failing", "put"} => work[w].via = work[w].cand

\* A worker that waits for a shared query has somebody to wait for.
FollowersServed ==
    \A w \in Workers : work[w].pc = "follow" => Leading(Key(w)) # {}

\* A run that gets as far as pruning has a result for every account it was asked
\* for, so the counters of a completed job add up.
ResultsComplete ==
    \A r \in Runs : pc[r] = "prune" =>
        /\ \A a \in Accounts : work[<<r, a>>].pc # "gone"
        /\ \A a \in req[r].ids : work[<<r, a>>].pc \in {"skipped", "stored", "failed"}

\* Only "clear records" deletes the history of an account (README.md:35).
HistoryKept ==
    [][\A a \in Accounts : hist[a] /\ ~hist'[a] =>
           \E e \in Editors : ed[e].pc = "delete" /\ a \in ed[e].ids]_vars

\* Every started run ends: no worker is left waiting for a query nobody makes, for
\* the semaphore or for the snapshot mutex.
RunsFinish == \A r \in Runs : pc[r] # "idle" ~> pc[r] = "idle"

\* README.md:35: an old request cannot revive an account after it was cancelled or
\* cleared. A put that overtakes the removal does bring an entry back, but one that
\* is out of date: the figures of a query begun before the last removal never count
\* as a good result of the present configuration, and the next run queries again.
RevivedNeverFresh ==
    \A a \in Accounts :
        entry[a] # NoEntry /\ entry[a].ok /\ entry[a].began < removed[a] => entry[a].rev < qrev[a]

\* To a reader of the report the protocol is what CurrentFigures promises: whatever
\* overlaps, each step changes configurations and hides what they outdate, files one
\* result, takes accounts out of the report, clears one, or shows no difference.
Figures(a) ==
    IF entry[a] # NoEntry /\ entry[a].ok /\ entry[a].rev = qrev[a]
    THEN [of |-> entry[a].data, asked |-> entry[a].began]
    ELSE NoEntry

Promise == INSTANCE CurrentFigures WITH
    on <- monitored,
    config <- cfg,
    change <- qrev,
    shown <- [a \in Accounts |-> Figures(a)],
    kept <- hist,
    Configs <- Config,
    Nothing <- NoEntry
Reported == Promise!Spec

-----------------------------------------------------------------------------
(* The inductive invariant behind FreshMeansCurrent, CancelledNeverFresh,  *)
(* OwnCandidate and FollowersServed                                        *)

\* s may be the active snapshot of a: it carries no revision of the future, and if
\* it carries the present one its figures and its place in the report are right.
Sound(a, s) ==
    /\ s.rev <= qrev[a]
    /\ s.ok /\ s.rev = qrev[a] => s.data = cfg[a]
    /\ s.rev = qrev[a] /\ qrev[a] > 0 => monitored[a]

\* What a worker read is still right unless the revision of its account moved on.
GoodWorker(w, v) ==
    /\ v.pc \in AtWork => v.rev <= qrev[w[2]]
    /\ v.pc = "routed" /\ v.rev = qrev[w[2]] => v.adapter = cfg[w[2]].adapter
    /\ v.pc \in {"have", "ready"} /\ v.snap.ok /\ v.rev = qrev[w[2]] => v.snap.data = cfg[w[2]]
    /\ v.pc = "failing" /\ v.rev = qrev[w[2]] => monitored[w[2]]
    /\ v.pc \in {"marking", "put"} => Sound(w[2], v.snap)

GoodVisitor(v) ==
    /\ v.pc = "routed" => v.snap.rev = 0
    /\ v.pc = "routed" /\ qrev[v.acct] = 0 => v.adapter = cfg[v.acct].adapter
    /\ v.pc = "put" => Sound(v.acct, v.snap)

\* The results in flight and in the store are sound.
SoundInv ==
    /\ \A a \in Accounts : entry[a] # NoEntry => Sound(a, entry[a])
    /\ \A w \in Workers : GoodWorker(w, work[w])
    /\ \A v \in Visitors : GoodVisitor(vis[v])

\* Only a run in its working phase has workers on a query, and each of them that
\* waits has a leader and, once served, an answer for its own candidate.
SharingInv ==
    /\ \A w \in Workers : work[w].pc \in AtWork \cup {"queued"} => pc[w[1]] = "work"
    /\ OwnCandidate
    /\ FollowersServed
=============================================================================
