------------------------ MODULE RefreshResultsProofs ------------------------
(***************************************************************************)
(* Proofs about RefreshCommit for any number of accounts, runs, editors    *)
(* and visitors: what a cancellation or a clearance removes does not come  *)
(* back as a good result, nothing but a clearance removes history, a run   *)
(* that gets as far as pruning has a result for every account, and the     *)
(* protocol implements CurrentFigures.                                     *)
(***************************************************************************)
EXTENDS RefreshCommitProofs

-----------------------------------------------------------------------------
(* The inductive invariant: no removal is ahead of the query revision, and *)
(* a good result never carries a later revision than the one its query     *)
(* began under, in flight or in the store.                                 *)

Dated(s) == s.ok => s.rev <= s.began

\* The answer of a query is dated by the revision its worker will commit it under.
DatedWorker(v) ==
    /\ Dated(v.snap)
    /\ v.pc \in {"have", "ready"} /\ v.snap.ok => v.snap.began = v.rev

DatedInv ==
    /\ \A a \in Accounts : removed[a] <= qrev[a]
    /\ \A a \in Accounts : entry[a] # NoEntry => Dated(entry[a])
    /\ \A w \in Workers : DatedWorker(work[w])
    /\ \A v \in Visitors : Dated(vis[v].snap)

LEMMA InitDated == Init => DatedInv
<1> SUFFICES ASSUME Init PROVE DatedInv
  OBVIOUS
<1>1. ~Blank.ok /\ Idle.snap = Blank /\ NoVisit.snap = Blank
  BY DEF Blank, Idle, NoVisit
<1> QED
  BY <1>1 DEF Init, DatedInv, DatedWorker, Dated

\* Only a cancellation and a clearance date a removal, and they take the revision
\* of the moment.
LEMMA RemovedOrigin ==
    ASSUME TypeOK, [Next]_vars, NEW a \in Accounts
    PROVE  removed'[a] = removed[a] \/ (removed'[a] = qrev[a] /\ UNCHANGED prefs)
<1>1. ASSUME NEW r \in Runs, RunStep(r)
      PROVE  UNCHANGED removed
  BY <1>1
  DEF RunStep, Discovery, ListHost, ListHostFails, ListStatic, ListStaticFails,
      LaunchWorkers, RequestUnmatched, CountResults, Prune, store
<1>2. ASSUME NEW w \in Workers, WorkerStep(w) \/ CommitStep(w)
      PROVE  UNCHANGED removed
  BY <1>2
  DEF WorkerStep, CommitStep, QueryStep, store, put, ReadUnreadable, PutUnreadable,
      SelectAccount, LaunchAccount, SkipFresh, ReadRevision, Lead, Follow, RouteQuery,
      EndQuery, GiveUp, PassContext, ReadPrevious, PutResult, CheckResult, DiscardResult
<1>3. ASSUME NEW v \in Visitors, VisitorStep(v)
      PROVE  UNCHANGED removed
  BY <1>3
  DEF VisitorStep, store, put, RouteQuota, AnswerQuota, QuotaFails, ReadDirectory,
      ReadDirectoryError, PutVisit
<1>4. ASSUME NEW e \in Editors, RemoveCancelled(e) \/ DeleteRecords(e)
      PROVE  removed'[a] = removed[a] \/ (removed'[a] = qrev[a] /\ UNCHANGED prefs)
  <2>1. PICK b : removed' = [removed EXCEPT ![b] = qrev[b]] /\ UNCHANGED prefs
    BY <1>4 DEF RemoveCancelled, DeleteRecords
  <2> QED
    BY <2>1 DEF TypeOK
<1>5. ASSUME NEW e \in Editors, EditorStep(e)
      PROVE  UNCHANGED removed \/ RemoveCancelled(e) \/ DeleteRecords(e)
  BY <1>5
  DEF EditorStep, store, BeginSave, CommitSave, RejectEdit, CollectChanged, StartJob,
      EndWithoutJob, BeginCleanup, invalidateQueryResults
<1>6. CASE \/ StartBackground \/ CancelBackground \/ ChangeCatalog \/ UNCHANGED vars
           \/ \E r \in Requests : StartRequest(r)
  BY <1>6 DEF StartBackground, CancelBackground, ChangeCatalog, StartRequest, store, vars
<1> QED
  BY <1>1, <1>2, <1>3, <1>4, <1>5, <1>6 DEF Next

LEMMA ErrorIsError ==
    ASSUME TypeOK, NEW a \in Accounts
    PROVE  ~errorSnapshot(a).ok
<1>1. CASE entry[a] # NoEntry
  <2>1. entry[a] \in Snapshot
    BY <1>1 DEF TypeOK
  <2> QED
    BY <1>1, <2>1 DEF errorSnapshot, Snapshot
<1>2. CASE entry[a] = NoEntry
  BY <1>2 DEF errorSnapshot, Blank
<1> QED
  BY <1>1, <1>2

\* The workers of a step: one that is not at the head of its query keeps a dated
\* snapshot, or starts from a blank one.
LEMMA WorkerStepDated ==
    ASSUME TypeOK, DatedInv, NEW w \in Workers, WorkerStep(w) \/ CommitStep(w)
    PROVE  \A x \in Workers : DatedWorker(work'[x])
<1>0. /\ work[w] \in Worker /\ w[2] \in Accounts
      /\ \A x \in Workers : DatedWorker(work[x])
  BY DEF TypeOK, Workers, DatedInv
<1>1. ASSUME NEW value, SetWorker(w, value), DatedWorker(value)
      PROVE  \A x \in Workers : DatedWorker(work'[x])
  BY <1>0, <1>1 DEF SetWorker, TypeOK
<1>2. ASSUME NEW p, Settle(w, p)
      PROVE  \A x \in Workers : DatedWorker(work'[x])
  <2>1. ~[Idle EXCEPT !.pc = p].snap.ok
    BY DEF Idle, Blank
  <2> QED
    BY <1>1, <1>2, <2>1 DEF Settle, DatedWorker, Dated
<1>3. ASSUME NEW p \in WorkerPc \ {"have", "ready"}, Move(w, p)
      PROVE  \A x \in Workers : DatedWorker(work'[x])
  <2>1. DatedWorker([work[w] EXCEPT !.pc = p])
    BY <1>0, <1>3 DEF DatedWorker, Worker
  <2> QED
    BY <1>1, <1>3, <2>1 DEF Move
<1>4. CASE ReadUnreadable(w)
  <2>1. ~errorSnapshot(w[2]).ok
    BY <1>0, ErrorIsError
  <2>2. DatedWorker([work[w] EXCEPT !.pc = "marking", !.snap = errorSnapshot(w[2])])
    BY <1>0, <2>1 DEF DatedWorker, Dated, Worker
  <2> QED
    BY <1>1, <1>4, <2>2 DEF ReadUnreadable
<1>5. CASE PutUnreadable(w)
  <2>1. DatedWorker([work[w] EXCEPT !.pc = "unseen", !.snap = Blank])
    BY <1>0 DEF DatedWorker, Dated, Worker, Blank
  <2> QED
    BY <1>1, <1>5, <2>1 DEF PutUnreadable
<1>6. CASE SelectAccount(w)
  <2>1. \A p \in {"dropped", "chosen", "kept"} : DatedWorker([work[w] EXCEPT !.pc = p])
    BY <1>0 DEF DatedWorker, Worker
  <2> QED
    BY <1>1, <1>6, <2>1 DEF SelectAccount
<1>7. CASE LaunchAccount(w) \/ Lead(w) \/ Follow(w)
  BY <1>3, <1>7 DEF LaunchAccount, Lead, Follow, WorkerPc
<1>8. CASE SkipFresh(w) \/ GiveUp(w) \/ DiscardResult(w) \/ PutResult(w)
  BY <1>2, <1>8 DEF SkipFresh, GiveUp, DiscardResult, PutResult
<1>9. CASE ReadRevision(w)
  <2>1. DatedWorker([work[w] EXCEPT !.pc = "keyed", !.rev = qrev[w[2]]])
    BY <1>0 DEF DatedWorker, Worker
  <2> QED
    BY <1>1, <1>9, <2>1 DEF ReadRevision
<1>10. CASE RouteQuery(w)
  <2>1. DatedWorker([work[w] EXCEPT !.pc = "routed", !.adapter = cfg[w[2]].adapter])
    BY <1>0 DEF DatedWorker, Worker
  <2> QED
    BY <1>1, <1>10, <2>1 DEF RouteQuery
<1>11. CASE EndQuery(w)
  <2>1. PICK answer \in Answers(work[w].adapter, cfg[w[2]].pat, work[w].rev) :
           work' = [x \in Workers |->
               IF x = w \/ (work[x].pc = "follow" /\ Key(x) = Key(w))
               THEN [work[x] EXCEPT !.pc = "have", !.adapter = AnyAdapter,
                                    !.via = work[w].cand, !.snap = answer]
               ELSE work[x]]
    BY <1>11 DEF EndQuery
  <2>2. answer.ok => answer.rev = 0 /\ answer.began = work[w].rev
    <3>1. answer \in Answers(work[w].adapter, cfg[w[2]].pat, work[w].rev)
      BY <2>1
    <3>2. \/ answer = [Blank EXCEPT !.began = work[w].rev]
          \/ answer = [rev |-> 0, began |-> work[w].rev, ok |-> TRUE,
                       data |-> [adapter |-> work[w].adapter, pat |-> cfg[w[2]].pat]]
      BY <3>1 DEF Answers
    <3> QED
      BY <3>2 DEF Blank
  <2>3. ASSUME NEW x \in Workers,
               x = w \/ (work[x].pc = "follow" /\ Key(x) = Key(w))
        PROVE  DatedWorker(work'[x])
    <3>1. work[x].rev = work[w].rev /\ work[w].rev \in Nat
      BY <1>0, <2>3, BoundAssumption DEF Key, Worker, Revs
    <3>2. work[x] \in Worker
      BY DEF TypeOK
    <3>3. work'[x].rev = work[x].rev /\ work'[x].snap = answer
      BY <2>1, <2>3, <3>2 DEF Worker
    <3> QED
      BY <2>2, <3>1, <3>3 DEF DatedWorker, Dated
  <2> QED
    BY <1>0, <2>1, <2>3
<1>12. CASE PassContext(w)
  <2>1. work[w].pc = "have" => DatedWorker([work[w] EXCEPT !.pc = "ready"])
    BY <1>0 DEF DatedWorker, Worker
  <2> QED
    BY <1>1, <1>12, <2>1 DEF PassContext, Move
<1>13. CASE CheckResult(w)
  <2>1. work[w].snap \in Snapshot /\ work[w].rev \in Nat
    BY <1>0, BoundAssumption DEF Worker, Revs
  <2>2. work[w].snap.ok => work[w].snap.began = work[w].rev
    BY <1>0, <1>13 DEF CheckResult, DatedWorker
  <2>3. Dated([work[w].snap EXCEPT !.rev = work[w].rev])
    BY <2>1, <2>2 DEF Dated, Snapshot
  <2>4. \A p \in {"put", "failing"} :
            DatedWorker([work[w] EXCEPT !.pc = p, !.snap.rev = work[w].rev])
    BY <1>0, <2>3 DEF DatedWorker, Worker
  <2> QED
    BY <1>1, <1>13, <2>4 DEF CheckResult
<1>14. CASE ReadPrevious(w)
  <2>1. errorSnapshot(w[2]) \in Snapshot /\ ~errorSnapshot(w[2]).ok
    BY <1>0, ErrorType, ErrorIsError
  <2>2. DatedWorker([work[w] EXCEPT !.pc = "put",
                         !.snap = [errorSnapshot(w[2]) EXCEPT !.rev = work[w].rev]])
    BY <1>0, <2>1 DEF DatedWorker, Dated, Worker, Snapshot
  <2> QED
    BY <1>1, <1>14, <2>2 DEF ReadPrevious
<1> QED
  BY <1>4, <1>5, <1>6, <1>7, <1>8, <1>9, <1>10, <1>11, <1>12, <1>13, <1>14
  DEF WorkerStep, QueryStep, CommitStep

\* A run leaves the snapshot of every worker as it is, or blank.
LEMMA RunStepDated ==
    ASSUME TypeOK, DatedInv, NEW r \in Runs, RunStep(r)
    PROVE  \A x \in Workers : DatedWorker(work'[x])
<1>0. \A x \in Workers : DatedWorker(work[x])
  BY DEF DatedInv
<1>1. ASSUME NEW v, ~v.snap.ok PROVE DatedWorker(v)
  BY <1>1 DEF DatedWorker, Dated
<1>2. ~Idle.snap.ok
  BY DEF Idle, Blank
<1>3. CASE ListHost(r)
  <2>1. PICK lost \in SUBSET {a \in HostAccounts : catalog[a] # Absent} :
            work' = [w \in Workers |->
               IF w[1] = r /\ w[2] \in HostAccounts
               THEN [Idle EXCEPT
                       !.cand = IF w[2] \in lost THEN Unreadable ELSE catalog[w[2]],
                       !.pc = IF w[2] \in lost THEN "unread" ELSE "unseen"]
               ELSE work[w]]
    BY <1>3 DEF ListHost
  <2>2. ASSUME NEW x \in Workers
        PROVE  work'[x] = work[x] \/ ~work'[x].snap.ok
    BY <1>2, <2>1 DEF Idle
  <2> QED
    BY <1>0, <1>1, <2>2
<1>4. CASE ListStatic(r)
  <2>1. ASSUME NEW x \in Workers
        PROVE  work'[x] = work[x] \/ ~work'[x].snap.ok
    BY <1>2, <1>4 DEF ListStatic, Idle
  <2> QED
    BY <1>0, <1>1, <2>1
<1>5. CASE StopRun(r)
  <2>1. ASSUME NEW x \in Workers
        PROVE  work'[x] = work[x] \/ ~work'[x].snap.ok
    BY <1>2, <1>5 DEF StopRun
  <2> QED
    BY <1>0, <1>1, <2>1
<1>6. CASE work' = work
  BY <1>0, <1>6
<1> QED
  BY <1>3, <1>4, <1>5, <1>6
  DEF RunStep, Discovery, ListHostFails, ListStaticFails, LaunchWorkers,
      RequestUnmatched, CountResults, Prune

\* A quota fetch carries revision 0, whatever the revision it began under.
LEMMA VisitorStepDated ==
    ASSUME TypeOK, SoundInv, DatedInv, NEW v \in Visitors, VisitorStep(v)
    PROVE  \A u \in Visitors : Dated(vis'[u].snap)
<1>0. /\ vis[v] \in Visitor /\ GoodVisitor(vis[v])
      /\ \A u \in Visitors : Dated(vis[u].snap)
  BY DEF TypeOK, SoundInv, DatedInv
<1>1. ASSUME NEW value, SetVisitor(v, value), Dated(value.snap)
      PROVE  \A u \in Visitors : Dated(vis'[u].snap)
  BY <1>0, <1>1 DEF SetVisitor, TypeOK
<1>2. CASE RouteQuota(v)
  <2>1. \A a \in Accounts : ~[Blank EXCEPT !.began = qrev[a]].ok
    BY DEF Blank
  <2> QED
    BY <1>1, <1>2, <2>1 DEF RouteQuota, Dated
<1>3. CASE AnswerQuota(v)
  <2> DEFINE data == [adapter |-> vis[v].adapter, pat |-> cfg[vis[v].acct].pat]
             answer == [vis[v] EXCEPT !.pc = "put", !.snap.ok = TRUE, !.snap.data = data]
  <2>1. vis[v].snap \in Snapshot /\ vis[v].snap.rev = 0
    BY <1>0, <1>3 DEF AnswerQuota, GoodVisitor, Visitor
  <2>2. vis[v].snap.began \in Nat
    BY <2>1, BoundAssumption DEF Snapshot, Revs
  <2>3. answer.snap.rev = 0 /\ answer.snap.began = vis[v].snap.began
    BY <1>0, <2>1 DEF Visitor, Snapshot
  <2>4. Dated(answer.snap)
    BY <2>2, <2>3 DEF Dated
  <2> QED
    BY <1>1, <1>3, <2>4 DEF AnswerQuota
<1>4. CASE QuotaFails(v) \/ PutVisit(v)
  <2>1. ~NoVisit.snap.ok
    BY DEF NoVisit, Blank
  <2> QED
    BY <1>1, <1>4, <2>1 DEF QuotaFails, PutVisit, Dated
<1>5. CASE ReadDirectory(v)
  <2>1. \A a \in Accounts : ~[NoVisit EXCEPT !.pc = "unread", !.acct = a].snap.ok
    BY DEF NoVisit, Blank
  <2> QED
    BY <1>1, <1>5, <2>1, AccountsAssumption DEF ReadDirectory, Dated
<1>6. CASE ReadDirectoryError(v)
  <2>1. ~errorSnapshot(vis[v].acct).ok
    BY <1>0, ErrorIsError DEF Visitor
  <2>2. Dated([vis[v] EXCEPT !.pc = "put", !.snap = errorSnapshot(vis[v].acct)].snap)
    BY <1>0, <2>1 DEF Dated, Visitor
  <2> QED
    BY <1>1, <1>6, <2>2 DEF ReadDirectoryError
<1> QED
  BY <1>2, <1>3, <1>4, <1>5, <1>6 DEF VisitorStep

LEMMA VisitorsMove ==
    ASSUME [Next]_vars
    PROVE  UNCHANGED vis \/ \E v \in Visitors : VisitorStep(v)
<1>1. ASSUME NEW e \in Editors, EditorStep(e)
      PROVE  UNCHANGED vis
  BY <1>1
  DEF EditorStep, SetEditor, BeginSave, CommitSave, RejectEdit, RemoveCancelled,
      CollectChanged, StartJob, EndWithoutJob, BeginCleanup, invalidateQueryResults,
      DeleteRecords
<1>2. ASSUME NEW w \in Workers, WorkerStep(w) \/ CommitStep(w)
      PROVE  UNCHANGED vis
  BY <1>2
  DEF WorkerStep, CommitStep, QueryStep, SetWorker, Move, Settle, ReadUnreadable,
      PutUnreadable, SelectAccount, LaunchAccount, SkipFresh, ReadRevision, Lead, Follow,
      RouteQuery, EndQuery, GiveUp, PassContext, ReadPrevious, PutResult, CheckResult, DiscardResult
<1>3. ASSUME NEW r \in Runs, RunStep(r)
      PROVE  UNCHANGED vis
  BY <1>3
  DEF RunStep, Discovery, ListHost, ListHostFails, ListStatic, ListStaticFails,
      LaunchWorkers, RequestUnmatched, CountResults, Prune
<1>4. CASE \/ StartBackground \/ CancelBackground \/ ChangeCatalog \/ UNCHANGED vars
           \/ \E r \in Requests : StartRequest(r)
  BY <1>4 DEF StartBackground, CancelBackground, ChangeCatalog, StartRequest, vars
<1> QED
  BY <1>1, <1>2, <1>3, <1>4 DEF Next

LEMMA NextDated == TypeOK /\ SoundInv /\ DatedInv /\ [Next]_vars => DatedInv'
<1> SUFFICES ASSUME TypeOK, SoundInv, DatedInv, [Next]_vars
             PROVE  DatedInv'
  OBVIOUS
<1>1. TypeOK' /\ Forward
  BY NextType, ForwardNext
<1>2. ASSUME NEW a \in Accounts
      PROVE  removed'[a] <= qrev'[a]
  <2>1. qrev[a] \in Nat /\ qrev'[a] \in Nat /\ removed[a] \in Nat /\ removed[a] <= qrev[a]
    BY <1>1, BoundAssumption DEF TypeOK, Revs, DatedInv
  <2>2. qrev'[a] >= qrev[a]
    BY <1>1, <2>1 DEF Forward
  <2>3. removed'[a] = removed[a] \/ removed'[a] = qrev[a]
    BY RemovedOrigin
  <2> QED
    BY <2>1, <2>2, <2>3
<1>3. ASSUME NEW a \in Accounts, entry'[a] # NoEntry
      PROVE  Dated(entry'[a])
  <2>1. ASSUME NEW w \in Workers, entry'[a] = work[w].snap
        PROVE  Dated(entry'[a])
    BY <2>1 DEF DatedInv, DatedWorker
  <2>2. ASSUME NEW v \in Visitors, entry'[a] = vis[v].snap
        PROVE  Dated(entry'[a])
    BY <2>2 DEF DatedInv
  <2>3. CASE entry'[a] = entry[a]
    BY <1>3, <2>3 DEF DatedInv
  <2> QED
    BY <1>3, <2>1, <2>2, <2>3, EntryOrigin
<1>4. \A w \in Workers : DatedWorker(work'[w])
  <2>1. CASE UNCHANGED work
    BY <2>1 DEF DatedInv
  <2>2. ASSUME NEW e \in Editors, EditorStep(e)
        PROVE  UNCHANGED work
    BY <2>2
    DEF EditorStep, runs, BeginSave, CommitSave, RejectEdit, RemoveCancelled,
        CollectChanged, StartJob, StartRun, EndWithoutJob, BeginCleanup,
        invalidateQueryResults, DeleteRecords
  <2>3. ASSUME NEW v \in Visitors, VisitorStep(v)
        PROVE  UNCHANGED work
    BY <2>3
    DEF VisitorStep, runs, SetVisitor, RouteQuota, AnswerQuota, QuotaFails, ReadDirectory,
        ReadDirectoryError, PutVisit
  <2>4. CASE \/ StartBackground \/ CancelBackground \/ ChangeCatalog \/ UNCHANGED vars
             \/ \E r \in Requests : StartRequest(r)
    BY <2>1, <2>4
    DEF StartBackground, CancelBackground, ChangeCatalog, StartRequest, StartRun, runs, vars
  <2> QED
    BY <2>1, <2>2, <2>3, <2>4, RunStepDated, WorkerStepDated DEF Next
<1>5. \A v \in Visitors : Dated(vis'[v].snap)
  <2>1. UNCHANGED vis \/ \E v \in Visitors : VisitorStep(v)
    BY VisitorsMove
  <2> QED
    BY <2>1, VisitorStepDated DEF DatedInv
<1> QED
  BY <1>2, <1>3, <1>4, <1>5 DEF DatedInv, DatedWorker, Dated

\* What an old query brings back after a removal never counts as a good result of
\* the present configuration, so the next run queries again.
THEOREM RevivedCorrect == Spec => []RevivedNeverFresh
<1>1. Spec => [](TypeOK /\ SoundInv /\ DatedInv)
  BY InitType, InitSound, InitDated, NextType, NextSound, NextDated, PTL DEF Spec
<1>2. ASSUME TypeOK, DatedInv
      PROVE  RevivedNeverFresh
  <2>1. ASSUME NEW a \in Accounts,
               entry[a] # NoEntry, entry[a].ok, entry[a].began < removed[a]
        PROVE  entry[a].rev < qrev[a]
    <3>1. entry[a] \in Snapshot
      BY <1>2, <2>1 DEF TypeOK
    <3>2. /\ entry[a].rev \in Nat /\ entry[a].began \in Nat
          /\ removed[a] \in Nat /\ qrev[a] \in Nat
      BY <1>2, <3>1, BoundAssumption DEF TypeOK, Snapshot, Revs
    <3>3. entry[a].rev <= entry[a].began /\ removed[a] <= qrev[a]
      BY <1>2, <2>1 DEF DatedInv, Dated
    <3> QED
      BY <2>1, <3>2, <3>3
  <2> QED
    BY <2>1 DEF RevivedNeverFresh
<1> QED
  BY <1>1, <1>2, PTL

-----------------------------------------------------------------------------
(* History *)

\* Whatever ends without a clearance leaves the history of an account standing:
\* pruning and cancelling only take the account out of the report.
THEOREM HistoryCorrect == Spec => HistoryKept
<1> DEFINE Cleared == \A a \in Accounts : hist[a] /\ ~hist'[a] =>
                         \E e \in Editors : ed[e].pc = "delete" /\ a \in ed[e].ids
<1>1. ASSUME TypeOK, [Next]_vars
      PROVE  Cleared
  <2>1. ASSUME NEW a \in Accounts, NEW s, put(a, s)
        PROVE  \A b \in Accounts : hist[b] => hist'[b]
    BY <1>1, <2>1 DEF put, TypeOK
  <2>2. CASE UNCHANGED hist
    BY <2>2
  <2>3. ASSUME NEW r \in Runs, RunStep(r)
        PROVE  UNCHANGED hist
    BY <2>3
    DEF RunStep, Discovery, ListHost, ListHostFails, ListStatic, ListStaticFails,
        LaunchWorkers, RequestUnmatched, CountResults, Prune, removeActive, store
  <2>4. ASSUME NEW w \in Workers, WorkerStep(w) \/ CommitStep(w)
        PROVE  Cleared
    <3>1. UNCHANGED hist \/ put(w[2], work[w].snap)
      BY <2>4
      DEF WorkerStep, CommitStep, QueryStep, store, ReadUnreadable, PutUnreadable,
          SelectAccount, LaunchAccount, SkipFresh, ReadRevision, Lead, Follow, RouteQuery,
          EndQuery, GiveUp, PassContext, ReadPrevious, PutResult, CheckResult, DiscardResult
    <3>2. w[2] \in Accounts
      BY DEF Workers
    <3> QED
      BY <2>1, <2>2, <3>1, <3>2
  <2>5. ASSUME NEW v \in Visitors, VisitorStep(v)
        PROVE  Cleared
    <3>1. UNCHANGED hist \/ put(vis[v].acct, vis[v].snap)
      BY <2>5
      DEF VisitorStep, store, RouteQuota, AnswerQuota, QuotaFails, ReadDirectory,
          ReadDirectoryError, PutVisit
    <3>2. vis[v].acct \in Accounts
      BY <1>1 DEF TypeOK, Visitor
    <3> QED
      BY <2>1, <2>2, <3>1, <3>2
  <2>6. ASSUME NEW e \in Editors, EditorStep(e)
        PROVE  UNCHANGED hist \/ DeleteRecords(e)
    BY <2>6
    DEF EditorStep, store, removeActive, BeginSave, CommitSave, RejectEdit,
        RemoveCancelled, CollectChanged, StartJob, EndWithoutJob, BeginCleanup,
        invalidateQueryResults
  <2>7. ASSUME NEW e \in Editors, DeleteRecords(e)
        PROVE  Cleared
    <3>1. PICK b \in ed[e].ids : hist' = [hist EXCEPT ![b] = FALSE]
      BY <2>7 DEF DeleteRecords, delete
    <3>2. ed[e].pc = "delete"
      BY <2>7 DEF DeleteRecords
    <3>3. \A a \in Accounts : a # b => hist'[a] = hist[a]
      BY <1>1, <3>1 DEF TypeOK
    <3> QED
      BY <3>1, <3>2, <3>3
  <2>8. CASE \/ StartBackground \/ CancelBackground \/ ChangeCatalog \/ UNCHANGED vars
             \/ \E r \in Requests : StartRequest(r)
    BY <2>2, <2>8
    DEF StartBackground, CancelBackground, ChangeCatalog, StartRequest, store, vars
  <2> QED
    BY <1>1, <2>2, <2>3, <2>4, <2>5, <2>6, <2>7, <2>8 DEF Next
<1>2. TypeOK /\ [Next]_vars => [Cleared]_vars
  BY <1>1
<1> QED
  BY <1>2, TypeCorrect, PTL DEF Spec, HistoryKept

-----------------------------------------------------------------------------
(* Complete results: where the workers of a run may be in each of its      *)
(* phases, and that a worker without a result belongs to a cancelled run.  *)

Selecting == {"unseen", "dropped", "kept", "chosen"}
Discovering == {"unseen", "unread", "marking"}
NotRequested == {"dropped", "kept"}

PhaseOf(r) ==
    /\ pc[r] \in {"idle", "host"} => \A a \in Accounts : work[<<r, a>>].pc = "unseen"
    /\ pc[r] = "select" => \A a \in Accounts : work[<<r, a>>].pc \in Selecting
    /\ pc[r] = "work" =>
           /\ \A a \in Accounts : work[<<r, a>>].pc \notin Discovering
           /\ \A a \in req[r].ids : work[<<r, a>>].pc \notin NotRequested
    /\ pc[r] = "prune" =>
           /\ \A a \in Accounts : work[<<r, a>>].pc \in Settled \ {"gone"}
           /\ \A a \in req[r].ids : work[<<r, a>>].pc \notin NotRequested
    /\ \A a \in Accounts : work[<<r, a>>].pc = "gone" => cancelled[r]

PhaseInv == \A r \in Runs : PhaseOf(r)

LEMMA InitPhase == Init => PhaseInv
BY DEF Init, PhaseInv, PhaseOf, Idle, Workers

\* A run is only concerned by what changes its own phase, request and workers.
LEMMA PhaseSame ==
    ASSUME TypeOK, NEW r \in Runs, PhaseOf(r),
           pc'[r] = pc[r], req'[r] = req[r], cancelled'[r] = cancelled[r],
           \A a \in Accounts : work'[<<r, a>>] = work[<<r, a>>]
    PROVE  PhaseOf(r)'
<1>1. req[r].ids \subseteq Accounts
  BY DEF TypeOK, Request
<1> QED
  BY <1>1 DEF PhaseOf

\* A worker moves while its run selects, while it works, or to record an
\* unreadable credential.
LEMMA WorkerMoves ==
    ASSUME TypeOK, SharingInv, NEW w \in Workers, WorkerStep(w) \/ CommitStep(w),
           NEW x \in Workers
    PROVE  \/ work'[x] = work[x]
           \/ /\ pc[x[1]] = "work"
              /\ work'[x].pc \notin Discovering \cup NotRequested
              /\ work'[x].pc = "gone" => cancelled[x[1]]
           \/ /\ pc[x[1]] = "select"
              /\ work'[x].pc \in Selecting
           \/ /\ work[x].pc \in {"unread", "marking"}
              /\ work'[x].pc \in Discovering
<1>0. /\ work[w] \in Worker
      /\ work[w].pc \in AtWork \cup {"queued"} => pc[w[1]] = "work"
  BY DEF TypeOK, SharingInv
<1>1. ASSUME NEW value, SetWorker(w, value)
      PROVE  work'[w] = value /\ (x # w => work'[x] = work[x])
  BY <1>1 DEF SetWorker, TypeOK
<1>2. ASSUME NEW p, Move(w, p)
      PROVE  work'[w].pc = p /\ (x # w => work'[x] = work[x])
  BY <1>0, <1>1, <1>2 DEF Move, Worker
<1>3. ASSUME NEW p, Settle(w, p)
      PROVE  work'[w].pc = p /\ (x # w => work'[x] = work[x])
  BY <1>1, <1>3 DEF Settle, Idle
<1>4. CASE ReadUnreadable(w)
  <2>1. [work[w] EXCEPT !.pc = "marking", !.snap = errorSnapshot(w[2])].pc = "marking"
    BY <1>0 DEF Worker
  <2>2. work[w].pc = "unread"
    BY <1>0, <1>4 DEF ReadUnreadable
  <2>3. work'[w].pc = "marking" /\ (x # w => work'[x] = work[x])
    BY <1>1, <1>4, <2>1 DEF ReadUnreadable
  <2> QED
    BY <2>2, <2>3 DEF Discovering
<1>5. CASE PutUnreadable(w)
  <2>1. [work[w] EXCEPT !.pc = "unseen", !.snap = Blank].pc = "unseen"
    BY <1>0 DEF Worker
  <2>2. work[w].pc = "marking"
    BY <1>0, <1>5 DEF PutUnreadable
  <2>3. work'[w].pc = "unseen" /\ (x # w => work'[x] = work[x])
    BY <1>1, <1>5, <2>1 DEF PutUnreadable
  <2> QED
    BY <2>2, <2>3 DEF Discovering
<1>6. CASE SelectAccount(w)
  <2>1. /\ pc[w[1]] = "select" /\ work'[w].pc \in {"dropped", "chosen", "kept"}
        /\ x # w => work'[x] = work[x]
    BY <1>0, <1>1, <1>6 DEF SelectAccount, Worker
  <2> QED
    BY <2>1 DEF Selecting
<1>7. CASE LaunchAccount(w)
  <2>1. pc[w[1]] = "work" /\ work'[w].pc = "queued" /\ (x # w => work'[x] = work[x])
    BY <1>2, <1>7 DEF LaunchAccount
  <2> QED
    BY <2>1 DEF Discovering, NotRequested
<1>8. CASE SkipFresh(w)
  <2>1. pc[w[1]] = "work" /\ work'[w].pc = "skipped" /\ (x # w => work'[x] = work[x])
    BY <1>3, <1>8 DEF SkipFresh
  <2> QED
    BY <2>1 DEF Discovering, NotRequested
<1>9. CASE ReadRevision(w)
  <2>1. [work[w] EXCEPT !.pc = "keyed", !.rev = qrev[w[2]]].pc = "keyed"
    BY <1>0 DEF Worker
  <2>2. pc[w[1]] = "work"
    BY <1>0, <1>9 DEF ReadRevision
  <2>3. work'[w].pc = "keyed" /\ (x # w => work'[x] = work[x])
    BY <1>1, <1>9, <2>1 DEF ReadRevision
  <2> QED
    BY <2>2, <2>3 DEF Discovering, NotRequested
<1>10. CASE Lead(w) \/ Follow(w)
  <2>1. /\ pc[w[1]] = "work" /\ work'[w].pc \in {"lead", "follow"}
        /\ x # w => work'[x] = work[x]
    BY <1>0, <1>2, <1>10 DEF Lead, Follow, AtWork
  <2> QED
    BY <2>1 DEF Discovering, NotRequested
<1>11. CASE RouteQuery(w)
  <2>1. [work[w] EXCEPT !.pc = "routed", !.adapter = cfg[w[2]].adapter].pc = "routed"
    BY <1>0 DEF Worker
  <2>2. pc[w[1]] = "work"
    BY <1>0, <1>11 DEF RouteQuery, AtWork
  <2>3. work'[w].pc = "routed" /\ (x # w => work'[x] = work[x])
    BY <1>1, <1>11, <2>1 DEF RouteQuery
  <2> QED
    BY <2>2, <2>3 DEF Discovering, NotRequested
<1>12. CASE EndQuery(w)
  <2>1. PICK answer :
           work' = [y \in Workers |->
               IF y = w \/ (work[y].pc = "follow" /\ Key(y) = Key(w))
               THEN [work[y] EXCEPT !.pc = "have", !.adapter = AnyAdapter,
                                    !.via = work[w].cand, !.snap = answer]
               ELSE work[y]]
    BY <1>12 DEF EndQuery
  <2>2. CASE x = w \/ (work[x].pc = "follow" /\ Key(x) = Key(w))
    <3>1. work[x] \in Worker /\ work[x].pc \in {"routed", "follow"}
      BY <1>12, <2>2 DEF TypeOK, EndQuery
    <3>2. work'[x].pc = "have" /\ pc[x[1]] = "work"
      BY <2>1, <2>2, <3>1 DEF Worker, SharingInv, AtWork
    <3> QED
      BY <3>2 DEF Discovering, NotRequested
  <2>3. CASE ~(x = w \/ (work[x].pc = "follow" /\ Key(x) = Key(w)))
    BY <2>1, <2>3
  <2> QED
    BY <2>2, <2>3
<1>13. CASE GiveUp(w)
  <2>1. /\ pc[w[1]] = "work" /\ cancelled[w[1]] /\ work'[w].pc = "gone"
        /\ x # w => work'[x] = work[x]
    BY <1>0, <1>3, <1>13 DEF GiveUp, AtWork
  <2> QED
    BY <2>1 DEF Discovering, NotRequested
<1>14. CASE PassContext(w)
  <2>1. /\ pc[w[1]] = "work" /\ work'[w].pc = "ready"
        /\ x # w => work'[x] = work[x]
    BY <1>0, <1>2, <1>14 DEF PassContext, AtWork
  <2> QED
    BY <2>1 DEF Discovering, NotRequested
<1>15. CASE DiscardResult(w)
  <2>1. pc[w[1]] = "work" /\ work'[w].pc = "skipped" /\ (x # w => work'[x] = work[x])
    BY <1>0, <1>3, <1>15 DEF DiscardResult, AtWork
  <2> QED
    BY <2>1 DEF Discovering, NotRequested
<1>16. CASE CheckResult(w)
  <2>1. \A p \in {"put", "failing"} : [work[w] EXCEPT !.pc = p, !.snap.rev = work[w].rev].pc = p
    BY <1>0 DEF Worker
  <2>2. pc[w[1]] = "work"
    BY <1>0, <1>16 DEF CheckResult, AtWork
  <2>3. work'[w].pc \in {"put", "failing"} /\ (x # w => work'[x] = work[x])
    BY <1>1, <1>16, <2>1 DEF CheckResult
  <2> QED
    BY <2>2, <2>3 DEF Discovering, NotRequested
<1>17. CASE ReadPrevious(w)
  <2>1. [work[w] EXCEPT !.pc = "put",
                        !.snap = [errorSnapshot(w[2]) EXCEPT !.rev = work[w].rev]].pc = "put"
    BY <1>0 DEF Worker
  <2>2. pc[w[1]] = "work"
    BY <1>0, <1>17 DEF ReadPrevious, AtWork
  <2>3. work'[w].pc = "put" /\ (x # w => work'[x] = work[x])
    BY <1>1, <1>17, <2>1 DEF ReadPrevious
  <2> QED
    BY <2>2, <2>3 DEF Discovering, NotRequested
<1>18. CASE PutResult(w)
  <2>1. /\ pc[w[1]] = "work" /\ work'[w].pc \in {"stored", "failed"}
        /\ x # w => work'[x] = work[x]
    BY <1>0, <1>3, <1>18 DEF PutResult, AtWork
  <2> QED
    BY <2>1 DEF Discovering, NotRequested
<1> QED
  BY <1>4, <1>5, <1>6, <1>7, <1>8, <1>9, <1>10, <1>11, <1>12, <1>13, <1>14, <1>15, <1>16,
     <1>17, <1>18
  DEF WorkerStep, QueryStep, CommitStep

LEMMA WorkerStepPhase ==
    ASSUME TypeOK, SharingInv, PhaseInv,
           NEW w \in Workers, WorkerStep(w) \/ CommitStep(w)
    PROVE  PhaseInv'
<1>1. UNCHANGED <<pc, req, cancelled>>
  BY DEF WorkerStep, CommitStep, QueryStep, SetWorker, Move, Settle, ReadUnreadable,
         PutUnreadable, SelectAccount, LaunchAccount, SkipFresh, ReadRevision, Lead,
         Follow, RouteQuery, EndQuery, GiveUp, PassContext, ReadPrevious, PutResult, CheckResult,
         DiscardResult
<1>2. ASSUME NEW r \in Runs
      PROVE  PhaseOf(r)'
  <2>1. req[r].ids \subseteq Accounts /\ PhaseOf(r)
    BY DEF TypeOK, Request, PhaseInv
  <2>2. ASSUME NEW a \in Accounts
        PROVE  /\ pc[r] \in {"idle", "host"} => work'[<<r, a>>].pc = "unseen"
               /\ pc[r] = "select" => work'[<<r, a>>].pc \in Selecting
               /\ pc[r] = "work" =>
                      /\ work'[<<r, a>>].pc \notin Discovering
                      /\ a \in req[r].ids => work'[<<r, a>>].pc \notin NotRequested
               /\ pc[r] = "prune" =>
                      /\ work'[<<r, a>>].pc \in Settled \ {"gone"}
                      /\ a \in req[r].ids => work'[<<r, a>>].pc \notin NotRequested
               /\ work'[<<r, a>>].pc = "gone" => cancelled[r]
    <3> DEFINE x == <<r, a>>
    <3>1. x \in Workers /\ x[1] = r
      BY DEF Workers
    <3>2. CASE work'[x] = work[x]
      BY <2>1, <3>2 DEF PhaseOf
    <3>3. CASE /\ pc[r] = "work"
               /\ work'[x].pc \notin Discovering \cup NotRequested
               /\ work'[x].pc = "gone" => cancelled[r]
      BY <3>3
    <3>4. CASE pc[r] = "select" /\ work'[x].pc \in Selecting
      BY <3>4 DEF Selecting
    <3>5. CASE work[x].pc \in {"unread", "marking"} /\ work'[x].pc \in Discovering
      BY <2>1, <3>5 DEF PhaseOf, Selecting, Discovering, Settled
    <3> QED
      BY <3>1, <3>2, <3>3, <3>4, <3>5, WorkerMoves
  <2> QED
    BY <1>1, <2>1, <2>2 DEF PhaseOf
<1> QED
  BY <1>2 DEF PhaseInv

\* A run that ends, at whatever point, leaves nothing of itself.
LEMMA StopRunPhase ==
    ASSUME TypeOK, PhaseInv, NEW r \in Runs, StopRun(r)
    PROVE  PhaseInv'
<1>1. ASSUME NEW o \in Runs, o # r
      PROVE  PhaseOf(o)'
  <2>1. \A a \in Accounts : work'[<<o, a>>] = work[<<o, a>>]
    BY <1>1 DEF StopRun, Workers
  <2> QED
    BY <1>1, <2>1, PhaseSame DEF StopRun, TypeOK, PhaseInv
<1>2. PhaseOf(r)'
  <2>1. \A a \in Accounts : work'[<<r, a>>].pc = "unseen"
    BY DEF StopRun, Workers, Idle
  <2>2. pc'[r] = "idle"
    BY DEF StopRun, TypeOK
  <2> QED
    BY <2>1, <2>2 DEF PhaseOf
<1> QED
  BY <1>1, <1>2 DEF PhaseInv

LEMMA StartRunPhase ==
    ASSUME TypeOK, PhaseInv, NEW r \in Runs, NEW q, StartRun(r, q)
    PROVE  PhaseInv'
<1>1. ASSUME NEW o \in Runs, o # r
      PROVE  PhaseOf(o)'
  BY <1>1, PhaseSame DEF StartRun, TypeOK, PhaseInv
<1>2. PhaseOf(r)'
  <2>1. pc[r] = "idle" /\ pc'[r] = "host" /\ work' = work
    BY DEF StartRun, TypeOK
  <2>2. \A a \in Accounts : work[<<r, a>>].pc = "unseen"
    BY <2>1 DEF PhaseInv, PhaseOf
  <2> QED
    BY <2>1, <2>2 DEF PhaseOf
<1> QED
  BY <1>1, <1>2 DEF PhaseInv

LEMMA RunStepPhase ==
    ASSUME TypeOK, PhaseInv, NEW r \in Runs, RunStep(r)
    PROVE  PhaseInv'
<1>0. PhaseOf(r) /\ req[r].ids \subseteq Accounts /\ \A a \in Accounts : <<r, a>> \in Workers
  BY DEF PhaseInv, TypeOK, Request, Workers
<1>1. ASSUME UNCHANGED <<req, cancelled>>,
             \A o \in Runs : o # r =>
                 /\ pc'[o] = pc[o]
                 /\ \A a \in Accounts : work'[<<o, a>>] = work[<<o, a>>],
             PhaseOf(r)'
      PROVE  PhaseInv'
  BY <1>1, PhaseSame DEF PhaseInv
<1>2. CASE ListHost(r)
  <2>1. UNCHANGED <<req, cancelled>> /\ pc' = [pc EXCEPT ![r] = "static"]
    BY <1>2 DEF ListHost
  <2>2. PICK lost \in SUBSET {a \in HostAccounts : catalog[a] # Absent} :
            work' = [w \in Workers |->
               IF w[1] = r /\ w[2] \in HostAccounts
               THEN [Idle EXCEPT
                       !.cand = IF w[2] \in lost THEN Unreadable ELSE catalog[w[2]],
                       !.pc = IF w[2] \in lost THEN "unread" ELSE "unseen"]
               ELSE work[w]]
    BY <1>2 DEF ListHost
  <2>3. \A o \in Runs : o # r => \A a \in Accounts : work'[<<o, a>>] = work[<<o, a>>]
    BY <2>2 DEF Workers
  <2>4. ASSUME NEW a \in Accounts
        PROVE  work'[<<r, a>>] = work[<<r, a>>] \/ work'[<<r, a>>].pc # "gone"
    <3>1. ASSUME NEW p, NEW c PROVE [Idle EXCEPT !.cand = c, !.pc = p].pc = p
      BY DEF Idle
    <3> QED
      BY <1>0, <2>2, <3>1
  <2>5. pc'[r] = "static"
    BY <2>1 DEF TypeOK
  <2>6. PhaseOf(r)'
    BY <1>0, <2>1, <2>4, <2>5 DEF PhaseOf
  <2> QED
    BY <1>1, <2>1, <2>3, <2>6 DEF TypeOK
<1>3. CASE ListHostFails(r) /\ ~StopRun(r)
  <2>1. pc' = [pc EXCEPT ![r] = "static"] /\ UNCHANGED <<req, cancelled, work>>
    BY <1>3 DEF ListHostFails
  <2>2. pc'[r] = "static"
    BY <2>1 DEF TypeOK
  <2>3. PhaseOf(r)'
    BY <1>0, <2>1, <2>2 DEF PhaseOf
  <2> QED
    BY <1>1, <2>1, <2>3 DEF TypeOK
<1>4. CASE ListStatic(r)
  <2>1. UNCHANGED <<req, cancelled>> /\ pc' = [pc EXCEPT ![r] = "select"]
    BY <1>4 DEF ListStatic
  <2>2. \A o \in Runs : o # r => \A a \in Accounts : work'[<<o, a>>] = work[<<o, a>>]
    BY <1>4 DEF ListStatic, Workers
  <2>3. \A a \in Accounts : work'[<<r, a>>].pc = "unseen"
    BY <1>0, <1>4 DEF ListStatic, Idle
  <2>4. pc'[r] = "select"
    BY <2>1 DEF TypeOK
  <2>5. PhaseOf(r)'
    BY <2>3, <2>4 DEF PhaseOf, Selecting
  <2> QED
    BY <1>1, <2>1, <2>2, <2>5 DEF TypeOK
<1>5. CASE LaunchWorkers(r)
  <2>1. UNCHANGED <<req, cancelled, work>> /\ pc' = [pc EXCEPT ![r] = "work"]
    BY <1>5 DEF LaunchWorkers
  <2>2. /\ \A a \in Accounts : work[<<r, a>>].pc \in Selecting \ {"unseen"}
        /\ \A a \in req[r].ids : work[<<r, a>>].pc = "chosen"
    BY <1>0, <1>5 DEF LaunchWorkers, Selected, AllMatched, PhaseOf
  <2>3. pc'[r] = "work"
    BY <2>1 DEF TypeOK
  <2>4. PhaseOf(r)'
    BY <2>1, <2>2, <2>3 DEF PhaseOf, Selecting, Discovering, NotRequested
  <2> QED
    BY <1>1, <2>1, <2>4 DEF TypeOK
<1>6. CASE CountResults(r) /\ ~StopRun(r)
  <2>1. /\ UNCHANGED <<req, cancelled, work>> /\ pc' = [pc EXCEPT ![r] = "prune"]
        /\ pc[r] = "work" /\ ~cancelled[r] /\ AllSettled(r)
    BY <1>6 DEF CountResults
  <2>2. /\ \A a \in Accounts : work[<<r, a>>].pc \in Settled \ {"gone"}
        /\ \A a \in req[r].ids : work[<<r, a>>].pc \notin NotRequested
    BY <1>0, <2>1 DEF AllSettled, PhaseOf
  <2>3. pc'[r] = "prune"
    BY <2>1 DEF TypeOK
  <2>4. PhaseOf(r)'
    BY <2>1, <2>2, <2>3 DEF PhaseOf
  <2> QED
    BY <1>1, <2>1, <2>4 DEF TypeOK
<1> QED
  BY <1>2, <1>3, <1>4, <1>5, <1>6, StopRunPhase
  DEF RunStep, Discovery, ListHostFails, ListStaticFails, RequestUnmatched, CountResults,
      Prune

LEMMA NextPhase == TypeOK /\ SharingInv /\ PhaseInv /\ [Next]_vars => PhaseInv'
<1> SUFFICES ASSUME TypeOK, SharingInv, PhaseInv, [Next]_vars
             PROVE  PhaseInv'
  OBVIOUS
<1>1. CASE UNCHANGED runs
  BY <1>1, PhaseSame DEF PhaseInv, runs
<1>2. CASE \/ UNCHANGED vars \/ ChangeCatalog
           \/ \E v \in Visitors : VisitorStep(v)
  BY <1>1, <1>2
  DEF vars, runs, ChangeCatalog, VisitorStep, SetVisitor, RouteQuota, AnswerQuota,
      QuotaFails, ReadDirectory, ReadDirectoryError, PutVisit
<1>3. CASE StartBackground \/ \E r \in Requests : StartRequest(r)
  BY <1>3, StartRunPhase DEF StartBackground, StartRequest, Runs
<1>4. CASE CancelBackground
  <2>1. /\ UNCHANGED <<pc, req, work>>
        /\ \A r \in Runs : cancelled[r] => cancelled'[r]
    BY <1>4 DEF CancelBackground, TypeOK
  <2> QED
    BY <2>1 DEF PhaseInv, PhaseOf
<1>5. ASSUME NEW e \in Editors, EditorStep(e)
      PROVE  PhaseInv'
  <2>1. UNCHANGED runs \/ \E r \in Requests : \E q : StartRun(r, q)
    BY <1>5
    DEF EditorStep, runs, BeginSave, CommitSave, RejectEdit, RemoveCancelled,
        CollectChanged, StartJob, EndWithoutJob, BeginCleanup, invalidateQueryResults,
        DeleteRecords
  <2> QED
    BY <1>1, <2>1, StartRunPhase DEF Runs
<1> QED
  BY <1>2, <1>3, <1>4, <1>5, RunStepPhase, WorkerStepPhase DEF Next

\* A run that prunes the store has a result for every account it was asked for.
THEOREM ResultsCorrect == Spec => []ResultsComplete
<1>1. Spec => [](TypeOK /\ SharingInv /\ PhaseInv)
  BY InitType, InitSharing, InitPhase, NextType, NextSharing, NextPhase, PTL DEF Spec
<1>2. TypeOK /\ PhaseInv => ResultsComplete
  BY DEF TypeOK, Request, PhaseInv, PhaseOf, ResultsComplete, Settled, NotRequested
<1> QED
  BY <1>1, <1>2, PTL

-----------------------------------------------------------------------------
(* The refinement of CurrentFigures                                        *)

shown == [a \in Accounts |-> Figures(a)]

\* Records are deleted of accounts whose queries were invalidated.
ClearingInv == \A e \in Editors : ed[e].pc = "delete" => \A a \in ed[e].ids : qrev[a] > 0

LEMMA NextClearing == TypeOK /\ ClearingInv /\ [Next]_vars => ClearingInv'
<1> SUFFICES ASSUME TypeOK, ClearingInv, [Next]_vars,
                    NEW e \in Editors, ed'[e].pc = "delete", NEW a \in ed'[e].ids
             PROVE  qrev'[a] > 0
  BY DEF ClearingInv
<1>1. TypeOK' /\ Forward
  BY NextType, ForwardNext
<1>2. a \in Accounts /\ qrev[a] \in Nat /\ qrev'[a] \in Nat
  BY <1>1, BoundAssumption DEF TypeOK, Editor, Revs
<1>3. CASE ed[e].pc = "delete" /\ a \in ed[e].ids
  BY <1>1, <1>2, <1>3 DEF ClearingInv, Forward
<1>4. ASSUME NEW x \in Editors, EditorStep(x)
      PROVE  (ed[e].pc = "delete" /\ a \in ed[e].ids) \/ (x = e /\ invalidateQueryResults(e))
  <2>1. \A y \in Editors : y # x => ed'[y] = ed[y]
    BY <1>4
    DEF EditorStep, SetEditor, TypeOK, BeginSave, CommitSave, RejectEdit, RemoveCancelled,
        CollectChanged, StartJob, EndWithoutJob, BeginCleanup, invalidateQueryResults,
        DeleteRecords
  <2>2. CASE x # e
    BY <2>1, <2>2
  <2>3. CASE x = e /\ DeleteRecords(e)
    <3>1. PICK b \in ed[e].ids : ed' = [ed EXCEPT ![e] =
                                    IF ed[e].ids = {b} THEN NoEdit
                                    ELSE [ed[e] EXCEPT !.ids = @ \ {b}]]
      BY <2>3 DEF DeleteRecords, SetEditor
    <3>2. ed[e].pc = "delete" /\ ed[e] \in Editor
      BY <2>3 DEF DeleteRecords, TypeOK
    <3>3. ed'[e] = IF ed[e].ids = {b} THEN NoEdit ELSE [ed[e] EXCEPT !.ids = @ \ {b}]
      BY <3>1 DEF TypeOK
    <3> QED
      BY <3>2, <3>3 DEF NoEdit, Editor
  <2>4. CASE x = e /\ ~DeleteRecords(e) /\ ~invalidateQueryResults(e)
    <3>1. ed[e] \in Editor /\ \A v : SetEditor(e, v) => ed'[e] = v
      BY DEF TypeOK, SetEditor
    <3>2. CASE BeginSave(e) \/ BeginCleanup(e)
      <4>1. ASSUME BeginSave(e) PROVE ed'[e].pc = "save"
        <5>1. PICK ids, seen : SetEditor(e, [pc |-> "save", ids |-> ids, todo |-> {}, seen |-> seen])
          BY <4>1 DEF BeginSave
        <5> QED
          BY <3>1, <5>1
      <4>2. ASSUME BeginCleanup(e) PROVE ed'[e].pc = "clear"
        <5>1. PICK ids : SetEditor(e, [NoEdit EXCEPT !.pc = "clear", !.ids = ids])
          BY <4>2 DEF BeginCleanup
        <5> QED
          BY <3>1, <5>1 DEF NoEdit
      <4> QED
        BY <3>2, <4>1, <4>2
    <3>3. CASE RejectEdit(e) \/ CollectChanged(e) \/ StartJob(e) \/ EndWithoutJob(e)
      <4>1. ASSUME CollectChanged(e) PROVE ed'[e].pc = "job"
        <5>1. PICK ids : SetEditor(e, [NoEdit EXCEPT !.pc = "job", !.ids = ids])
          BY <4>1 DEF CollectChanged
        <5> QED
          BY <3>1, <5>1 DEF NoEdit
      <4>2. ~CollectChanged(e) => SetEditor(e, NoEdit)
        BY <3>3 DEF RejectEdit, StartJob, EndWithoutJob
      <4>3. NoEdit.pc = "idle"
        BY DEF NoEdit
      <4> QED
        BY <3>1, <4>1, <4>2, <4>3
    <3>4. CASE CommitSave(e)
      <4>1. PICK v : SetEditor(e, v) /\ v.pc = "apply"
        BY <3>1, <3>4 DEF CommitSave, Editor
      <4> QED
        BY <3>1, <4>1
    <3>5. CASE RemoveCancelled(e)
      <4>1. PICK v : SetEditor(e, v) /\ v.pc = "apply"
        BY <3>1, <3>5 DEF RemoveCancelled, Editor
      <4> QED
        BY <3>1, <4>1
    <3> QED
      BY <1>4, <2>4, <3>2, <3>3, <3>4, <3>5 DEF EditorStep
  <2> QED
    BY <1>4, <2>2, <2>3, <2>4
<1>5. CASE invalidateQueryResults(e)
  <2>1. ed'[e].ids = ed[e].ids
    BY <1>5 DEF invalidateQueryResults, SetEditor, TypeOK, Editor
  <2>2. qrev'[a] = qrev[a] + 1
    BY <1>2, <1>5, <2>1 DEF invalidateQueryResults
  <2> QED
    BY <1>2, <2>2
<1>6. CASE UNCHANGED ed
  BY <1>3, <1>6
<1>7. ASSUME NEW r \in Runs, RunStep(r) PROVE UNCHANGED ed
  BY <1>7
  DEF RunStep, Discovery, ListHost, ListHostFails, ListStatic, ListStaticFails,
      LaunchWorkers, RequestUnmatched, CountResults, Prune
<1>8. ASSUME NEW w \in Workers, WorkerStep(w) \/ CommitStep(w) PROVE UNCHANGED ed
  BY <1>8
  DEF WorkerStep, CommitStep, QueryStep, SetWorker, Move, Settle, ReadUnreadable,
      PutUnreadable, SelectAccount, LaunchAccount, SkipFresh, ReadRevision, Lead, Follow,
      RouteQuery, EndQuery, GiveUp, PassContext, ReadPrevious, PutResult, CheckResult, DiscardResult
<1>9. ASSUME NEW v \in Visitors, VisitorStep(v) PROVE UNCHANGED ed
  BY <1>9
  DEF VisitorStep, SetVisitor, RouteQuota, AnswerQuota, QuotaFails, ReadDirectory,
      ReadDirectoryError, PutVisit
<1>10. CASE \/ StartBackground \/ CancelBackground \/ ChangeCatalog \/ UNCHANGED vars
            \/ \E r \in Requests : StartRequest(r)
  BY <1>6, <1>10 DEF StartBackground, CancelBackground, ChangeCatalog, StartRequest, vars
<1> QED
  BY <1>3, <1>4, <1>5, <1>6, <1>7, <1>8, <1>9, <1>10 DEF Next

ReportInv == TypeOK /\ SoundInv /\ DatedInv /\ ClearingInv

LEMMA ReportInvariant == Spec => []ReportInv
<1>1. Init => ReportInv
  BY InitType, InitSound, InitDated DEF ReportInv, Init, ClearingInv, NoEdit
<1>2. ReportInv /\ [Next]_vars => ReportInv'
  BY NextType, NextSound, NextDated, NextClearing DEF ReportInv
<1> QED
  BY <1>1, <1>2, PTL DEF Spec

LEMMA ReportInit == Init => Promise!Init
<1> SUFFICES ASSUME Init PROVE Promise!Init
  OBVIOUS
<1>1. [adapter |-> AnyAdapter, pat |-> NoPat] \in Config
  BY AnyType, PatAssumption DEF Config
<1> QED
  BY <1>1 DEF Init, Promise!Init, Figures

\* A change of an account hides what was shown of it: it carried an older revision.
LEMMA ReportChange ==
    ASSUME ReportInv, ReportInv', [Next]_vars, UNCHANGED <<entry, hist>>,
           \A a \in Accounts : qrev'[a] \in {qrev[a], qrev[a] + 1},
           qrev' \in [Accounts -> Nat]
    PROVE  \E S \in SUBSET Accounts : Promise!Change(S)
<1> DEFINE S == {a \in Accounts : qrev'[a] # qrev[a]}
<1>1. Forward /\ qrev \in [Accounts -> Nat]
  BY ForwardNext, BoundAssumption DEF ReportInv, TypeOK, Revs
<1>2. qrev' = [a \in Accounts |-> IF a \in S THEN qrev[a] + 1 ELSE qrev[a]]
  OBVIOUS
<1>3. \A a \in Accounts \ S : monitored'[a] = monitored[a] /\ cfg'[a] = cfg[a]
  BY <1>1 DEF Forward
<1>4. ASSUME NEW a \in Accounts
      PROVE  Figures(a)' = IF a \in S THEN NoEntry ELSE Figures(a)
  <2>1. CASE a \notin S
    BY <2>1 DEF Figures
  <2>2. CASE a \in S /\ entry[a] # NoEntry
    <3>1. entry[a].rev \in Nat /\ entry[a].rev <= qrev[a]
      BY <2>2, BoundAssumption DEF ReportInv, SoundInv, Sound, TypeOK, Snapshot, Revs
    <3>2. entry[a].rev # qrev'[a]
      BY <1>1, <2>2, <3>1
    <3> QED
      BY <2>2, <3>2 DEF Figures
  <2>3. CASE a \in S /\ entry[a] = NoEntry
    BY <2>3 DEF Figures
  <2> QED
    BY <2>1, <2>2, <2>3
<1>5. shown' = [a \in Accounts |-> IF a \in S THEN NoEntry ELSE shown[a]]
  BY <1>4 DEF shown
<1>6. Promise!Change(S)
  BY <1>2, <1>3, <1>5 DEF Promise!Change, Promise!Hide, shown
<1> QED
  BY <1>6

\* What is put is figures of now or does not count.
LEMMA ReportPut ==
    ASSUME ReportInv, ReportInv', NEW a \in Accounts, NEW s, put(a, s), UNCHANGED prefs
    PROVE  Promise!File(a)
<1>1. UNCHANGED <<monitored, cfg, qrev>>
  BY DEF prefs
<1>2. /\ \A b \in Accounts : b # a => entry'[b] = entry[b]
      /\ hist' = [hist EXCEPT ![a] = TRUE]
  BY DEF put, ReportInv, TypeOK
<1>3. shown' = [shown EXCEPT ![a] = shown'[a]]
  <2>1. \A b \in Accounts : b # a => shown'[b] = shown[b]
    BY <1>1, <1>2 DEF shown, Figures
  <2>2. shown' = [b \in Accounts |-> shown'[b]] /\ shown = [b \in Accounts |-> shown[b]]
    BY DEF shown
  <2> QED
    BY <2>1, <2>2
<1>4. ASSUME shown'[a] # NoEntry
      PROVE  /\ shown'[a].of = cfg[a] /\ shown'[a].asked >= qrev[a]
             /\ monitored[a] \/ qrev[a] = 0
  <2>1. /\ entry'[a] # NoEntry /\ entry'[a].ok /\ entry'[a].rev = qrev[a]
        /\ shown'[a] = [of |-> entry'[a].data, asked |-> entry'[a].began]
    BY <1>1, <1>4 DEF shown, Figures
  <2>2. Sound(a, entry[a])' /\ Dated(entry'[a])
    BY <2>1 DEF ReportInv, SoundInv, DatedInv, Dated
  <2>3. entry'[a].rev \in Nat /\ entry'[a].began \in Nat /\ qrev[a] \in Nat
    BY <2>1, BoundAssumption DEF ReportInv, TypeOK, Snapshot, Revs
  <2> QED
    BY <1>1, <2>1, <2>2, <2>3 DEF Sound, Dated
<1> QED
  BY <1>1, <1>2, <1>3, <1>4 DEF Promise!File, shown

LEMMA ReportRemove ==
    ASSUME NEW S \in SUBSET Accounts, removeActive(S), UNCHANGED prefs
    PROVE  Promise!Withdraw(S)
<1>1. UNCHANGED <<monitored, cfg, qrev, hist>>
  BY DEF prefs, removeActive
<1>2. \A a \in Accounts : Figures(a)' = IF a \in S THEN NoEntry ELSE Figures(a)
  BY <1>1 DEF removeActive, Figures
<1>3. shown' = [a \in Accounts |-> IF a \in S THEN NoEntry ELSE shown[a]]
  BY <1>2 DEF shown
<1> QED
  BY <1>1, <1>3 DEF Promise!Withdraw, Promise!Hide, shown

LEMMA ReportDelete ==
    ASSUME ReportInv, NEW e \in Editors, DeleteRecords(e)
    PROVE  \E a \in Accounts : Promise!Clear(a)
<1>1. PICK a \in ed[e].ids : delete(a)
  BY DEF DeleteRecords
<1>2. a \in Accounts /\ qrev[a] > 0 /\ UNCHANGED <<monitored, cfg, qrev>>
  BY DEF ReportInv, TypeOK, Editor, ClearingInv, DeleteRecords, prefs
<1>3. \A b \in Accounts : Figures(b)' = IF b \in {a} THEN NoEntry ELSE Figures(b)
  BY <1>1, <1>2 DEF delete, Figures, ReportInv, TypeOK
<1>4. shown' = [b \in Accounts |-> IF b \in {a} THEN NoEntry ELSE shown[b]]
  BY <1>3 DEF shown
<1>5. hist' = [hist EXCEPT ![a] = FALSE]
  BY <1>1 DEF delete
<1> QED
  BY <1>2, <1>4, <1>5 DEF Promise!Clear, Promise!Hide, shown

LEMMA ReportStep == ReportInv /\ ReportInv' /\ [Next]_vars => [Promise!Next]_(Promise!vars)
<1> SUFFICES ASSUME ReportInv, ReportInv', [Next]_vars
             PROVE  [Promise!Next]_(Promise!vars)
  OBVIOUS
<1> DEFINE Removes == \E S \in SUBSET Accounts : removeActive(S) /\ UNCHANGED prefs
           Puts == \E a \in Accounts : \E s : put(a, s) /\ UNCHANGED prefs
           Same == UNCHANGED <<entry, hist>> /\ UNCHANGED prefs
<1>1. CASE Removes
  BY <1>1, ReportRemove DEF Promise!Next
<1>2. CASE Puts
  BY <1>2, ReportPut DEF Promise!Next
<1>3. CASE Same
  <2>1. shown' = shown
    BY <1>3 DEF shown, Figures, prefs
  <2> QED
    BY <1>3, <2>1 DEF Promise!vars, shown, prefs
<1>4. ASSUME NEW e \in Editors, CommitSave(e) \/ invalidateQueryResults(e)
      PROVE  Promise!Next
  <2>1. UNCHANGED <<entry, hist>>
    BY <1>4 DEF CommitSave, invalidateQueryResults, store
  <2>2. \A a \in Accounts : qrev'[a] \in {qrev[a], qrev[a] + 1}
    BY <1>4 DEF CommitSave, invalidateQueryResults
  <2>3. qrev' \in [Accounts -> Nat]
    BY BoundAssumption DEF ReportInv, TypeOK, Revs
  <2> QED
    BY <2>1, <2>2, <2>3, ReportChange DEF Promise!Next
<1>5. ASSUME NEW e \in Editors, DeleteRecords(e) PROVE Promise!Next
  BY <1>5, ReportDelete DEF Promise!Next
<1>6. ASSUME NEW e \in Editors, EditorStep(e)
      PROVE  CommitSave(e) \/ invalidateQueryResults(e) \/ DeleteRecords(e) \/ Removes \/ Same
  <2>1. CASE RemoveCancelled(e)
    <3>1. PICK a \in ed[e].todo : removeActive({a})
      BY <2>1 DEF RemoveCancelled
    <3>2. {a} \in SUBSET Accounts /\ UNCHANGED prefs
      BY <2>1, <3>1 DEF RemoveCancelled, ReportInv, TypeOK, Editor
    <3> QED
      BY <3>1, <3>2
  <2> QED
    BY <1>6, <2>1
    DEF EditorStep, store, BeginSave, RejectEdit, CollectChanged, StartJob, EndWithoutJob,
        BeginCleanup
<1>7. ASSUME NEW r \in Runs, RunStep(r) PROVE Removes \/ Same
  BY <1>7
  DEF RunStep, Discovery, ListHost, ListHostFails, ListStatic, ListStaticFails,
      LaunchWorkers, RequestUnmatched, CountResults, Prune, store
<1>8. ASSUME NEW w \in Workers, WorkerStep(w) \/ CommitStep(w) PROVE Puts \/ Same
  <2>1. w[2] \in Accounts
    BY DEF Workers
  <2>2. (put(w[2], work[w].snap) /\ UNCHANGED prefs) \/ Same
    BY <1>8
    DEF WorkerStep, CommitStep, QueryStep, SetWorker, Move, Settle, store, ReadUnreadable,
        PutUnreadable, SelectAccount, LaunchAccount, SkipFresh, ReadRevision, Lead, Follow,
        RouteQuery, EndQuery, GiveUp, PassContext, ReadPrevious, PutResult, CheckResult, DiscardResult
  <2> QED
    BY <2>1, <2>2
<1>9. ASSUME NEW v \in Visitors, VisitorStep(v) PROVE Puts \/ Same
  <2>1. vis[v].acct \in Accounts
    BY DEF ReportInv, TypeOK, Visitor
  <2>2. (put(vis[v].acct, vis[v].snap) /\ UNCHANGED prefs) \/ Same
    BY <1>9
    DEF VisitorStep, SetVisitor, store, RouteQuota, AnswerQuota, QuotaFails, ReadDirectory,
        ReadDirectoryError, PutVisit
  <2> QED
    BY <2>1, <2>2
<1>10. CASE \/ StartBackground \/ CancelBackground \/ ChangeCatalog \/ UNCHANGED vars
            \/ \E r \in Requests : StartRequest(r)
  <2>1. Same
    BY <1>10 DEF StartBackground, CancelBackground, ChangeCatalog, StartRequest, store, vars
  <2> QED
    BY <1>3, <2>1
<1> HIDE DEF Removes, Puts, Same
<1> QED
  BY <1>1, <1>2, <1>3, <1>4, <1>5, <1>6, <1>7, <1>8, <1>9, <1>10 DEF Next

\* Each step is, to a reader of the report, one that CurrentFigures allows: a change
\* hides what it outdates, and only an answer to a question asked since is shown.
THEOREM RefreshIsCurrent == Spec => Reported
<1>1. Init => Promise!Init
  BY ReportInit
<1>2. ReportInv /\ ReportInv' /\ [Next]_vars => [Promise!Next]_(Promise!vars)
  BY ReportStep
<1> QED
  BY <1>1, <1>2, ReportInvariant, PTL DEF Spec, Reported, Promise!Spec
==============================================================================
