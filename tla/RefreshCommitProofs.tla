------------------------ MODULE RefreshCommitProofs ------------------------
(***************************************************************************)
(* Proofs about RefreshCommit for any number of accounts, runs, editors    *)
(* and visitors: type correctness, and that an active snapshot which       *)
(* counts as up to date was queried with the current configuration and     *)
(* belongs to a monitored account.                                         *)
(***************************************************************************)
EXTENDS RefreshCommit, TLAPS

-----------------------------------------------------------------------------
(* Values at rest are well typed. *)

LEMMA BlankType == Blank \in Snapshot
BY BoundAssumption DEF Blank, Snapshot, Revs

LEMMA AnyType == AnyAdapter \in Adapters /\ AnyAccount \in Accounts
BY NonEmpty DEF AnyAdapter, AnyAccount

LEMMA SettleType == Idle \in Worker /\ \A p \in WorkerPc : [Idle EXCEPT !.pc = p] \in Worker
BY BlankType, AnyType, BoundAssumption DEF Idle, Worker, WorkerPc, Candidate, Revs

LEMMA NoEditType == NoEdit \in Editor
BY BoundAssumption DEF NoEdit, Editor, EditorPc, Revs

LEMMA NoVisitType == NoVisit \in Visitor
BY BlankType, AnyType DEF NoVisit, Visitor, VisitorPc

LEMMA ErrorType ==
    ASSUME TypeOK, NEW a \in Accounts
    PROVE  errorSnapshot(a) \in Snapshot
<1>1. CASE entry[a] # NoEntry
  <2>1. entry[a] \in Snapshot
    BY <1>1 DEF TypeOK
  <2> QED
    BY <1>1, <2>1 DEF errorSnapshot, Snapshot
<1>2. CASE entry[a] = NoEntry
  BY <1>2, BlankType, BoundAssumption DEF errorSnapshot, Blank, Snapshot, TypeOK, Revs
<1> QED
  BY <1>1, <1>2

LEMMA AnswersType ==
    ASSUME NEW adapter \in Adapters, NEW pat \in Pats, NEW rev \in Revs
    PROVE  Answers(adapter, pat, rev) \subseteq Snapshot
<1>1. [Blank EXCEPT !.began = rev] \in Snapshot
  BY BlankType DEF Snapshot
<1>2. [rev |-> 0, began |-> rev, ok |-> TRUE, data |-> [adapter |-> adapter, pat |-> pat]]
          \in Snapshot
  BY BoundAssumption DEF Snapshot, Config, Revs
<1> QED
  BY <1>1, <1>2 DEF Answers

LEMMA InitType == Init => TypeOK
BY SettleType, NoEditType, NoVisitType, AnyType, PatAssumption, BoundAssumption
DEF Init, TypeOK, Config, Revs, RunPc, Request, NoRequest

-----------------------------------------------------------------------------
(* Frames: which variables a kind of step may touch. *)

LEMMA StopRunType ==
    ASSUME TypeOK, NEW r \in Runs, StopRun(r)
    PROVE  /\ pc' \in [Runs -> RunPc]
           /\ req' \in [Runs -> Request]
           /\ cancelled' \in [Runs -> BOOLEAN]
           /\ work' \in [Workers -> Worker]
BY SettleType DEF TypeOK, StopRun, RunPc, Request, NoRequest

LEMMA StartRunType ==
    ASSUME TypeOK, NEW r \in Runs, NEW q \in Request, StartRun(r, q)
    PROVE  /\ pc' \in [Runs -> RunPc]
           /\ req' \in [Runs -> Request]
           /\ cancelled' \in [Runs -> BOOLEAN]
           /\ work' \in [Workers -> Worker]
BY DEF TypeOK, StartRun, RunPc

LEMMA SetWorkerType ==
    ASSUME TypeOK, NEW w \in Workers, NEW value \in Worker, SetWorker(w, value),
           store' = store
    PROVE  TypeOK'
BY DEF TypeOK, SetWorker, prefs, store

LEMMA PutType ==
    ASSUME TypeOK, NEW a \in Accounts, NEW snap \in Snapshot, put(a, snap)
    PROVE  /\ entry' \in [Accounts -> Snapshot \cup {NoEntry}]
           /\ hist' \in [Accounts -> BOOLEAN]
           /\ removed' \in [Accounts -> Revs]
BY DEF TypeOK, put

-----------------------------------------------------------------------------
(* Every action keeps the types. *)

LEMMA RunStepType ==
    ASSUME TypeOK, NEW r \in Runs, RunStep(r)
    PROVE  TypeOK'
<1>1. CASE ListHost(r)
  <2>1. PICK lost \in SUBSET {a \in HostAccounts : catalog[a] # Absent} :
            work' = [w \in Workers |->
               IF w[1] = r /\ w[2] \in HostAccounts
               THEN [Idle EXCEPT
                       !.cand = IF w[2] \in lost THEN Unreadable ELSE catalog[w[2]],
                       !.pc = IF w[2] \in lost THEN "unread" ELSE "unseen"]
               ELSE work[w]]
    BY <1>1 DEF ListHost
  <2>2. ASSUME NEW c \in Candidate, NEW p \in {"unread", "unseen"}
        PROVE  [Idle EXCEPT !.cand = c, !.pc = p] \in Worker
    <3>1. Idle \in Worker /\ p \in WorkerPc
      BY SettleType DEF WorkerPc
    <3> QED
      BY <3>1 DEF Worker
  <2>3. ASSUME NEW w \in Workers
        PROVE  work'[w] \in Worker
    <3>1. w[2] \in Accounts /\ catalog[w[2]] \in Candidate /\ Unreadable \in Candidate
      BY DEF TypeOK, Workers, Candidate
    <3> DEFINE c == IF w[2] \in lost THEN Unreadable ELSE catalog[w[2]]
               p == IF w[2] \in lost THEN "unread" ELSE "unseen"
    <3>2. [Idle EXCEPT !.cand = c, !.pc = p] \in Worker
      BY <2>2, <3>1
    <3>3. work'[w] = IF w[1] = r /\ w[2] \in HostAccounts
                     THEN [Idle EXCEPT !.cand = c, !.pc = p] ELSE work[w]
      BY <2>1
    <3> QED
      BY <3>2, <3>3 DEF TypeOK
  <2>4. work' \in [Workers -> Worker]
    BY <2>1, <2>3
  <2> QED
    BY <1>1, <2>4 DEF ListHost, TypeOK, RunPc, prefs, store
<1>2. CASE ListHostFails(r)
  BY <1>2, StopRunType DEF ListHostFails, TypeOK, RunPc, prefs, store
<1>3. CASE ListStatic(r)
  <2>1. work' \in [Workers -> Worker]
    BY <1>3, SettleType DEF ListStatic, TypeOK, Workers, Worker, Candidate, Idle
  <2> QED
    BY <1>3, <2>1 DEF ListStatic, TypeOK, RunPc, prefs, store
<1>4. CASE ListStaticFails(r)
  BY <1>4, StopRunType DEF ListStaticFails, TypeOK, prefs, store
<1>5. CASE LaunchWorkers(r)
  BY <1>5 DEF LaunchWorkers, TypeOK, RunPc, prefs, store
<1>6. CASE RequestUnmatched(r)
  BY <1>6, StopRunType DEF RequestUnmatched, TypeOK, prefs, store
<1>7. CASE CountResults(r)
  BY <1>7, StopRunType DEF CountResults, TypeOK, RunPc, prefs, store
<1>8. CASE Prune(r)
  BY <1>8, StopRunType DEF Prune, removeActive, TypeOK, prefs
<1> QED
  BY <1>1, <1>2, <1>3, <1>4, <1>5, <1>6, <1>7, <1>8 DEF RunStep, Discovery

LEMMA WorkerStepType ==
    ASSUME TypeOK, NEW w \in Workers, WorkerStep(w) \/ CommitStep(w)
    PROVE  TypeOK'
<1> DEFINE a == w[2]
<1>0. work[w] \in Worker /\ a \in Accounts
  BY DEF TypeOK, Workers
<1>1. CASE ReadUnreadable(w)
  <2>1. [work[w] EXCEPT !.pc = "marking", !.snap = errorSnapshot(w[2])] \in Worker
    BY <1>0, ErrorType DEF Worker, WorkerPc
  <2> QED
    BY <1>1, <2>1, SetWorkerType DEF ReadUnreadable
<1>2. CASE PutUnreadable(w)
  <2>1. [work[w] EXCEPT !.pc = "unseen", !.snap = Blank] \in Worker
    BY <1>0, BlankType DEF Worker, WorkerPc
  <2>2. work[w].snap \in Snapshot
    BY <1>0 DEF Worker
  <2> QED
    BY <1>0, <1>2, <2>1, <2>2, PutType DEF PutUnreadable, SetWorker, TypeOK, prefs
<1>3. CASE SelectAccount(w)
  <2>1. \A p \in {"dropped", "chosen", "kept"} : [work[w] EXCEPT !.pc = p] \in Worker
    BY <1>0 DEF Worker, WorkerPc
  <2> QED
    BY <1>3, <2>1, SetWorkerType DEF SelectAccount
<1>4. ASSUME NEW p \in WorkerPc, Move(w, p), UNCHANGED store
      PROVE  TypeOK'
  <2>1. [work[w] EXCEPT !.pc = p] \in Worker
    BY <1>0 DEF Worker
  <2> QED
    BY <1>4, <2>1, SetWorkerType DEF Move
<1>5. ASSUME NEW p \in WorkerPc, Settle(w, p), UNCHANGED store
      PROVE  TypeOK'
  BY <1>5, SettleType, SetWorkerType DEF Settle
<1>6. CASE LaunchAccount(w) \/ Lead(w) \/ Follow(w) \/ PassContext(w)
  BY <1>4, <1>6 DEF LaunchAccount, Lead, Follow, PassContext, WorkerPc
<1>7. CASE SkipFresh(w) \/ GiveUp(w) \/ DiscardResult(w)
  BY <1>5, <1>7 DEF SkipFresh, GiveUp, DiscardResult, WorkerPc
<1>8. CASE ReadRevision(w)
  <2>1. [work[w] EXCEPT !.pc = "keyed", !.rev = qrev[w[2]]] \in Worker
    BY <1>0 DEF Worker, WorkerPc, TypeOK
  <2> QED
    BY <1>8, <2>1, SetWorkerType DEF ReadRevision
<1>9. CASE RouteQuery(w)
  <2>1. [work[w] EXCEPT !.pc = "routed", !.adapter = cfg[w[2]].adapter] \in Worker
    BY <1>0 DEF Worker, WorkerPc, TypeOK, Config
  <2> QED
    BY <1>9, <2>1, SetWorkerType DEF RouteQuery
<1>10. CASE EndQuery(w)
  <2>1. Answers(work[w].adapter, cfg[w[2]].pat, work[w].rev) \subseteq Snapshot
    <3>1. work[w].adapter \in Adapters /\ cfg[w[2]].pat \in Pats /\ work[w].rev \in Revs
      BY <1>0 DEF Worker, TypeOK, Config
    <3> QED
      BY <3>1, AnswersType
  <2>2. PICK answer \in Snapshot :
           work' = [x \in Workers |->
               IF x = w \/ (work[x].pc = "follow" /\ Key(x) = Key(w))
               THEN [work[x] EXCEPT !.pc = "have", !.adapter = AnyAdapter,
                                    !.via = work[w].cand, !.snap = answer]
               ELSE work[x]]
    BY <1>10, <2>1 DEF EndQuery
  <2>3. work' \in [Workers -> Worker]
    BY <1>0, <2>2, AnyType DEF TypeOK, Worker, WorkerPc
  <2> QED
    BY <1>10, <2>3 DEF EndQuery, TypeOK, prefs, store
<1>11. CASE CheckResult(w)
  <2>1. \A p \in {"put", "failing"} :
            [work[w] EXCEPT !.pc = p, !.snap.rev = work[w].rev] \in Worker
    BY <1>0 DEF Worker, WorkerPc, Snapshot
  <2> QED
    BY <1>11, <2>1, SetWorkerType DEF CheckResult
<1>12. CASE ReadPrevious(w)
  <2>1. [work[w] EXCEPT !.pc = "put",
                        !.snap = [errorSnapshot(w[2]) EXCEPT !.rev = work[w].rev]]
           \in Worker
    BY <1>0, ErrorType DEF Worker, WorkerPc, Snapshot
  <2> QED
    BY <1>12, <2>1, SetWorkerType DEF ReadPrevious
<1>13. CASE PutResult(w)
  <2>1. work[w].snap \in Snapshot
    BY <1>0 DEF Worker
  <2>2. \A p \in {"stored", "failed"} : [Idle EXCEPT !.pc = p] \in Worker
    BY SettleType DEF WorkerPc
  <2> QED
    BY <1>0, <1>13, <2>1, <2>2, PutType DEF PutResult, Settle, SetWorker, TypeOK, prefs
<1> QED
  BY <1>1, <1>2, <1>3, <1>6, <1>7, <1>8, <1>9, <1>10, <1>11, <1>12, <1>13
  DEF WorkerStep, QueryStep, CommitStep

LEMMA EditorStepType ==
    ASSUME TypeOK, NEW e \in Editors, EditorStep(e)
    PROVE  TypeOK'
<1>0. ed[e] \in Editor
  BY DEF TypeOK
<1>1. ASSUME NEW value \in Editor, SetEditor(e, value), UNCHANGED <<prefs, store, runs>>
      PROVE  TypeOK'
  BY <1>1 DEF TypeOK, SetEditor, prefs, store, runs
<1>2. CASE BeginSave(e)
  <2>1. PICK ids \in SUBSET Accounts :
          SetEditor(e, [pc |-> "save", ids |-> ids, todo |-> {},
                        seen |-> [a \in Accounts |-> IF a \in ids THEN qrev[a] ELSE 0]])
    BY <1>2 DEF BeginSave
  <2>2. [pc |-> "save", ids |-> ids, todo |-> {},
         seen |-> [a \in Accounts |-> IF a \in ids THEN qrev[a] ELSE 0]] \in Editor
    BY BoundAssumption DEF Editor, EditorPc, TypeOK, Revs
  <2> QED
    BY <1>1, <1>2, <2>1, <2>2 DEF BeginSave
<1>3. CASE CommitSave(e)
  <2>1. PICK m \in [ed[e].ids -> Mutation] :
         /\ monitored' = [a \in Accounts |->
                IF a \in ed[e].ids THEN Wanted(a, m[a]).mon ELSE monitored[a]]
         /\ cfg' = [a \in Accounts |->
                IF a \in ed[e].ids THEN Wanted(a, m[a]).cfg ELSE cfg[a]]
         /\ qrev' = [a \in Accounts |->
                IF a \in ed[e].ids /\ queryChanged(a, m[a]) THEN qrev[a] + 1 ELSE qrev[a]]
         /\ SetEditor(e, [ed[e] EXCEPT
                !.pc = "apply", !.todo = {a \in ed[e].ids : m[a].mon = "off"}])
    BY <1>3 DEF CommitSave
  <2>2. monitored' \in [Accounts -> BOOLEAN] /\ cfg' \in [Accounts -> Config]
    BY <2>1 DEF TypeOK, Wanted, Config, Mutation
  <2>3. qrev' \in [Accounts -> Revs]
    BY <1>3, <2>1, BoundAssumption DEF TypeOK, Revs, CommitSave
  <2>4. [ed[e] EXCEPT !.pc = "apply", !.todo = {a \in ed[e].ids : m[a].mon = "off"}]
            \in Editor
    BY <1>0 DEF Editor, EditorPc
  <2> QED
    BY <1>3, <2>1, <2>2, <2>3, <2>4 DEF CommitSave, TypeOK, SetEditor, store, runs
<1>4. CASE RejectEdit(e) \/ EndWithoutJob(e)
  BY <1>1, <1>4, NoEditType DEF RejectEdit, EndWithoutJob
<1>5. CASE RemoveCancelled(e)
  <2>1. PICK a \in ed[e].todo :
            /\ removeActive({a})
            /\ removed' = [removed EXCEPT ![a] = qrev[a]]
            /\ SetEditor(e, [ed[e] EXCEPT !.todo = @ \ {a}])
    BY <1>5 DEF RemoveCancelled
  <2>2. a \in Accounts /\ [ed[e] EXCEPT !.todo = @ \ {a}] \in Editor
    BY <1>0 DEF Editor
  <2>3. removed' \in [Accounts -> Revs] /\ entry' \in [Accounts -> Snapshot \cup {NoEntry}]
    BY <2>1, <2>2 DEF TypeOK, removeActive
  <2> QED
    BY <1>5, <2>1, <2>2, <2>3 DEF RemoveCancelled, removeActive, SetEditor, TypeOK, prefs, runs
<1>6. CASE CollectChanged(e)
  <2>1. [NoEdit EXCEPT !.pc = "job",
                       !.ids = {a \in ed[e].ids : qrev[a] # ed[e].seen[a]}] \in Editor
    BY <1>0, NoEditType DEF Editor, EditorPc
  <2> QED
    BY <1>1, <1>6, <2>1 DEF CollectChanged
<1>7. CASE StartJob(e)
  <2>1. PICK r \in Requests : StartRun(r, [ids |-> ed[e].ids, saved |-> TRUE])
    BY <1>7 DEF StartJob
  <2>2. r \in Runs /\ [ids |-> ed[e].ids, saved |-> TRUE] \in Request
    BY <1>0 DEF Runs, Request, Editor
  <2>3. /\ pc' \in [Runs -> RunPc]
        /\ req' \in [Runs -> Request]
        /\ cancelled' \in [Runs -> BOOLEAN]
        /\ work' \in [Workers -> Worker]
    BY <2>1, <2>2, StartRunType
  <2> QED
    BY <1>7, <2>3, NoEditType DEF StartJob, SetEditor, TypeOK, prefs, store
<1>8. CASE BeginCleanup(e)
  <2>1. \A ids \in SUBSET Accounts : [NoEdit EXCEPT !.pc = "clear", !.ids = ids] \in Editor
    BY NoEditType DEF Editor, EditorPc
  <2> QED
    BY <1>1, <1>8, <2>1 DEF BeginCleanup
<1>9. CASE invalidateQueryResults(e)
  <2>1. [ed[e] EXCEPT !.pc = "delete"] \in Editor
    BY <1>0 DEF Editor, EditorPc
  <2>2. qrev' \in [Accounts -> Revs]
    BY <1>9, BoundAssumption DEF invalidateQueryResults, TypeOK, Revs
  <2> QED
    BY <1>9, <2>1, <2>2 DEF invalidateQueryResults, SetEditor, TypeOK, store, runs
<1>10. CASE DeleteRecords(e)
  <2>1. PICK a \in ed[e].ids :
            /\ delete(a)
            /\ removed' = [removed EXCEPT ![a] = qrev[a]]
            /\ SetEditor(e, IF ed[e].ids = {a} THEN NoEdit
                            ELSE [ed[e] EXCEPT !.ids = @ \ {a}])
    BY <1>10 DEF DeleteRecords
  <2>2. a \in Accounts /\ [ed[e] EXCEPT !.ids = @ \ {a}] \in Editor
    BY <1>0 DEF Editor
  <2>3. removed' \in [Accounts -> Revs]
    BY <2>1, <2>2 DEF TypeOK
  <2>4. ed' \in [Editors -> Editor]
    BY <2>1, <2>2, NoEditType DEF SetEditor, TypeOK
  <2> QED
    BY <1>10, <2>1, <2>2, <2>3, <2>4 DEF DeleteRecords, delete, SetEditor, TypeOK, prefs, runs
<1> QED
  BY <1>2, <1>3, <1>4, <1>5, <1>6, <1>7, <1>8, <1>9, <1>10 DEF EditorStep

LEMMA VisitorStepType ==
    ASSUME TypeOK, NEW v \in Visitors, VisitorStep(v)
    PROVE  TypeOK'
<1>0. vis[v] \in Visitor
  BY DEF TypeOK
<1>1. ASSUME NEW value \in Visitor, SetVisitor(v, value), UNCHANGED store
      PROVE  TypeOK'
  BY <1>1 DEF TypeOK, SetVisitor, prefs, store, runs
<1>2. CASE RouteQuota(v)
  <2>1. \A a \in Accounts :
            [pc |-> "routed", acct |-> a, adapter |-> cfg[a].adapter,
             snap |-> [Blank EXCEPT !.began = qrev[a]]] \in Visitor
    BY BlankType DEF Visitor, VisitorPc, TypeOK, Config, Snapshot
  <2> QED
    BY <1>1, <1>2, <2>1 DEF RouteQuota
<1>3. CASE AnswerQuota(v)
  <2>1. [vis[v] EXCEPT
           !.pc = "put", !.snap.ok = TRUE,
           !.snap.data = [adapter |-> vis[v].adapter, pat |-> cfg[vis[v].acct].pat]]
               \in Visitor
    BY <1>0 DEF Visitor, VisitorPc, TypeOK, Config, Snapshot
  <2> QED
    BY <1>1, <1>3, <2>1 DEF AnswerQuota
<1>4. CASE QuotaFails(v)
  BY <1>1, <1>4, NoVisitType DEF QuotaFails
<1>5. CASE ReadDirectory(v)
  <2>1. \A a \in Accounts : [NoVisit EXCEPT !.pc = "unread", !.acct = a] \in Visitor
    BY NoVisitType DEF Visitor, VisitorPc
  <2> QED
    BY <1>1, <1>5, <2>1, AccountsAssumption DEF ReadDirectory
<1>6. CASE ReadDirectoryError(v)
  <2>1. [vis[v] EXCEPT !.pc = "put", !.snap = errorSnapshot(vis[v].acct)] \in Visitor
    BY <1>0, ErrorType DEF Visitor, VisitorPc
  <2> QED
    BY <1>1, <1>6, <2>1 DEF ReadDirectoryError
<1>7. CASE PutVisit(v)
  <2>1. vis[v].acct \in Accounts /\ vis[v].snap \in Snapshot
    BY <1>0 DEF Visitor
  <2> QED
    BY <1>7, <2>1, PutType, NoVisitType DEF PutVisit, SetVisitor, TypeOK, prefs, runs
<1> QED
  BY <1>2, <1>3, <1>4, <1>5, <1>6, <1>7 DEF VisitorStep

LEMMA NextType == TypeOK /\ [Next]_vars => TypeOK'
<1> SUFFICES ASSUME TypeOK, [Next]_vars
             PROVE  TypeOK'
  OBVIOUS
<1>1. CASE StartBackground
  <2>1. Background \in Runs /\ NoRequest \in Request
    BY DEF Runs, Request, NoRequest
  <2> QED
    BY <1>1, <2>1, StartRunType DEF StartBackground, TypeOK, prefs, store
<1>2. CASE CancelBackground
  BY <1>2 DEF CancelBackground, TypeOK, Runs, prefs, store
<1>3. CASE ChangeCatalog
  BY <1>3, AccountsAssumption DEF ChangeCatalog, TypeOK, prefs, store, runs
<1>4. ASSUME NEW r \in Requests, StartRequest(r)
      PROVE  TypeOK'
  <2>1. PICK ids \in SUBSET Accounts : StartRun(r, [ids |-> ids, saved |-> FALSE])
    BY <1>4 DEF StartRequest
  <2>2. r \in Runs /\ [ids |-> ids, saved |-> FALSE] \in Request
    BY DEF Runs, Request
  <2>3. /\ pc' \in [Runs -> RunPc]
        /\ req' \in [Runs -> Request]
        /\ cancelled' \in [Runs -> BOOLEAN]
        /\ work' \in [Workers -> Worker]
    BY <2>1, <2>2, StartRunType
  <2> QED
    BY <1>4, <2>3 DEF StartRequest, TypeOK, prefs, store
<1>5. CASE UNCHANGED vars
  BY <1>5 DEF vars, TypeOK, prefs, store, runs
<1> QED
  BY <1>1, <1>2, <1>3, <1>4, <1>5, RunStepType, WorkerStepType, EditorStepType,
     VisitorStepType DEF Next

\* Type correctness: every variable stays in its set, whatever the constants.
THEOREM TypeCorrect == Spec => []TypeOK
  BY InitType, NextType, PTL DEF Spec

-----------------------------------------------------------------------------
(* Soundness: what is in flight and in the store is right unless the query *)
(* revision of its account has moved on.                                   *)

\* The preferences of an account only change together with a new query revision.
Forward ==
    \A a \in Accounts :
        \/ qrev'[a] > qrev[a]
        \/ qrev'[a] = qrev[a] /\ cfg'[a] = cfg[a] /\ monitored'[a] = monitored[a]

LEMMA ForwardSave ==
    ASSUME TypeOK, NEW e \in Editors, CommitSave(e)
    PROVE  Forward
<1>1. PICK m \in [ed[e].ids -> Mutation] :
         /\ monitored' = [a \in Accounts |->
                IF a \in ed[e].ids THEN Wanted(a, m[a]).mon ELSE monitored[a]]
         /\ cfg' = [a \in Accounts |->
                IF a \in ed[e].ids THEN Wanted(a, m[a]).cfg ELSE cfg[a]]
         /\ qrev' = [a \in Accounts |->
                IF a \in ed[e].ids /\ queryChanged(a, m[a]) THEN qrev[a] + 1 ELSE qrev[a]]
  BY DEF CommitSave
<1>2. ASSUME NEW a \in Accounts
      PROVE  \/ qrev'[a] > qrev[a]
             \/ qrev'[a] = qrev[a] /\ cfg'[a] = cfg[a] /\ monitored'[a] = monitored[a]
  <2>0. qrev[a] \in Nat
    BY BoundAssumption DEF TypeOK, Revs
  <2>1. CASE a \in ed[e].ids /\ queryChanged(a, m[a])
    BY <1>1, <2>0, <2>1
  <2>2. CASE a \in ed[e].ids /\ ~queryChanged(a, m[a])
    <3>1. Wanted(a, m[a]).mon = monitored[a] /\ Wanted(a, m[a]).cfg = cfg[a]
      BY <2>2 DEF queryChanged
    <3> QED
      BY <1>1, <2>2, <3>1
  <2>3. CASE a \notin ed[e].ids
    BY <1>1, <2>3
  <2> QED
    BY <2>1, <2>2, <2>3
<1> QED
  BY <1>2 DEF Forward

LEMMA ForwardNext == TypeOK /\ [Next]_vars => Forward
<1> SUFFICES ASSUME TypeOK, [Next]_vars
             PROVE  Forward
  OBVIOUS
<1>1. CASE UNCHANGED prefs
  BY <1>1 DEF Forward, prefs
<1>2. ASSUME NEW e \in Editors, invalidateQueryResults(e)
      PROVE  Forward
  BY <1>2, BoundAssumption DEF invalidateQueryResults, Forward, TypeOK, Revs
<1>3. ASSUME NEW e \in Editors, EditorStep(e)
      PROVE  Forward
  <2>1. \/ CommitSave(e) \/ invalidateQueryResults(e) \/ UNCHANGED prefs
    BY <1>3
    DEF EditorStep, BeginSave, RejectEdit, RemoveCancelled, CollectChanged, StartJob,
        EndWithoutJob, BeginCleanup, DeleteRecords
  <2> QED
    BY <1>1, <1>2, <2>1, ForwardSave
<1>4. ASSUME NEW r \in Runs, RunStep(r)
      PROVE  UNCHANGED prefs
  BY <1>4
  DEF RunStep, Discovery, ListHost, ListHostFails, ListStatic, ListStaticFails,
      LaunchWorkers, RequestUnmatched, CountResults, Prune
<1>5. ASSUME NEW w \in Workers, WorkerStep(w) \/ CommitStep(w)
      PROVE  UNCHANGED prefs
  BY <1>5
  DEF WorkerStep, CommitStep, QueryStep, SetWorker, Move, Settle, ReadUnreadable,
      PutUnreadable, SelectAccount, LaunchAccount, SkipFresh, ReadRevision, Lead, Follow,
      RouteQuery, EndQuery, GiveUp, PassContext, ReadPrevious, PutResult, CheckResult, DiscardResult
<1>6. ASSUME NEW v \in Visitors, VisitorStep(v)
      PROVE  UNCHANGED prefs
  BY <1>6
  DEF VisitorStep, SetVisitor, RouteQuota, AnswerQuota, QuotaFails, ReadDirectory,
      ReadDirectoryError, PutVisit
<1>7. CASE UNCHANGED vars
  BY <1>1, <1>7 DEF vars
<1>8. CASE StartBackground \/ CancelBackground \/ ChangeCatalog
           \/ \E r \in Requests : StartRequest(r)
  BY <1>1, <1>8 DEF StartBackground, CancelBackground, ChangeCatalog, StartRequest
<1> QED
  BY <1>1, <1>3, <1>4, <1>5, <1>6, <1>7, <1>8 DEF Next

LEMMA SoundKept ==
    ASSUME TypeOK, TypeOK', Forward, NEW a \in Accounts, NEW s \in Snapshot, Sound(a, s)
    PROVE  Sound(a, s)'
<1>1. s.rev \in Nat /\ qrev[a] \in Nat /\ qrev'[a] \in Nat
  BY BoundAssumption DEF TypeOK, Snapshot, Revs
<1> QED
  BY <1>1 DEF Sound, Forward

LEMMA WorkerKept ==
    ASSUME TypeOK, TypeOK', Forward,
           NEW w \in Workers, NEW v \in Worker, GoodWorker(w, v)
    PROVE  GoodWorker(w, v)'
<1>1. w[2] \in Accounts /\ v.snap \in Snapshot
  BY DEF Workers, Worker
<1>2. v.rev \in Nat /\ qrev[w[2]] \in Nat /\ qrev'[w[2]] \in Nat
  BY <1>1, BoundAssumption DEF TypeOK, Worker, Revs
<1>3. Sound(w[2], v.snap) => Sound(w[2], v.snap)'
  BY <1>1, SoundKept
<1>4. v.pc \in AtWork => v.rev <= qrev'[w[2]]
  BY <1>1, <1>2 DEF GoodWorker, Forward
<1>5. v.pc \in AtWork /\ v.rev = qrev'[w[2]] =>
          /\ v.rev = qrev[w[2]]
          /\ cfg'[w[2]] = cfg[w[2]]
          /\ monitored'[w[2]] = monitored[w[2]]
  BY <1>1, <1>2 DEF GoodWorker, Forward
<1> QED
  BY <1>3, <1>4, <1>5 DEF GoodWorker, AtWork

LEMMA VisitorKept ==
    ASSUME TypeOK, TypeOK', Forward, NEW v \in Visitor, GoodVisitor(v)
    PROVE  GoodVisitor(v)'
<1>1. v.acct \in Accounts /\ v.snap \in Snapshot
  BY DEF Visitor
<1>2. qrev[v.acct] \in Nat /\ qrev'[v.acct] \in Nat
  BY <1>1, BoundAssumption DEF TypeOK, Revs
<1>3. Sound(v.acct, v.snap) => Sound(v.acct, v.snap)'
  BY <1>1, SoundKept
<1> QED
  BY <1>1, <1>2, <1>3 DEF GoodVisitor, Forward

\* Most states of a worker promise nothing.
LEMMA RestGood ==
    ASSUME NEW w \in Workers, NEW v, v.pc \notin AtWork \cup {"marking"}
    PROVE  GoodWorker(w, v)
BY DEF GoodWorker, AtWork

\* Reading the previous snapshot for an error yields a sound one.
LEMMA ErrorSound ==
    ASSUME TypeOK, SoundInv, NEW a \in Accounts
    PROVE  Sound(a, errorSnapshot(a)) /\ ~errorSnapshot(a).ok
<1>1. qrev[a] \in Nat /\ qrev[a] \in Revs
  BY BoundAssumption DEF TypeOK, Revs
<1>2. CASE entry[a] # NoEntry
  <2>1. entry[a] \in Snapshot /\ Sound(a, entry[a])
    BY <1>2 DEF TypeOK, SoundInv
  <2> QED
    BY <1>2, <2>1 DEF errorSnapshot, Sound, Snapshot
<1>3. CASE entry[a] = NoEntry
  BY <1>1, <1>3 DEF errorSnapshot, Sound, Blank
<1> QED
  BY <1>2, <1>3

\* The state a worker step leaves its worker in is good.
LEMMA WorkerStepSound ==
    ASSUME TypeOK, TypeOK', SoundInv, NEW w \in Workers, WorkerStep(w) \/ CommitStep(w)
    PROVE  \A x \in Workers : GoodWorker(x, work'[x])
<1>0. /\ work[w] \in Worker /\ w[2] \in Accounts
      /\ \A x \in Workers : GoodWorker(x, work[x])
  BY DEF TypeOK, Workers, SoundInv
<1>1. ASSUME NEW value, SetWorker(w, value), GoodWorker(w, value)
      PROVE  \A x \in Workers : GoodWorker(x, work'[x])
  BY <1>0, <1>1 DEF SetWorker, TypeOK
<1>2. ASSUME NEW p \in WorkerPc, p \notin AtWork \cup {"marking"}, Settle(w, p)
      PROVE  \A x \in Workers : GoodWorker(x, work'[x])
  <2>1. [Idle EXCEPT !.pc = p].pc = p
    BY DEF Idle
  <2>2. GoodWorker(w, [Idle EXCEPT !.pc = p])
    BY <1>2, <2>1, RestGood
  <2> QED
    BY <1>1, <1>2, <2>2 DEF Settle
<1>3. CASE ReadUnreadable(w)
  <2>1. GoodWorker(w, [work[w] EXCEPT !.pc = "marking", !.snap = errorSnapshot(w[2])])
    BY <1>0, ErrorSound DEF GoodWorker, AtWork, Worker
  <2> QED
    BY <1>1, <1>3, <2>1 DEF ReadUnreadable
<1>4. CASE PutUnreadable(w)
  <2>1. GoodWorker(w, [work[w] EXCEPT !.pc = "unseen", !.snap = Blank])
    BY <1>0 DEF GoodWorker, AtWork, Worker
  <2> QED
    BY <1>1, <1>4, <2>1 DEF PutUnreadable
<1>5. CASE SelectAccount(w)
  <2>1. \A p \in {"dropped", "chosen", "kept"} : GoodWorker(w, [work[w] EXCEPT !.pc = p])
    BY <1>0 DEF GoodWorker, AtWork, Worker
  <2> QED
    BY <1>1, <1>5, <2>1 DEF SelectAccount
<1>6. CASE LaunchAccount(w)
  <2>1. GoodWorker(w, [work[w] EXCEPT !.pc = "queued"])
    BY <1>0 DEF GoodWorker, AtWork, Worker
  <2> QED
    BY <1>1, <1>6, <2>1 DEF LaunchAccount, Move
<1>7. CASE Lead(w) \/ Follow(w)
  <2>1. \A p \in {"lead", "follow"} :
            work[w].pc = "keyed" => GoodWorker(w, [work[w] EXCEPT !.pc = p])
    BY <1>0 DEF GoodWorker, AtWork, Worker
  <2> QED
    BY <1>1, <1>7, <2>1 DEF Lead, Follow, Move
<1>8. CASE SkipFresh(w) \/ GiveUp(w) \/ DiscardResult(w)
  BY <1>2, <1>8 DEF SkipFresh, GiveUp, DiscardResult, WorkerPc, AtWork
<1>9. CASE ReadRevision(w)
  <2>1. qrev[w[2]] \in Nat
    BY <1>0, BoundAssumption DEF TypeOK, Revs
  <2>2. GoodWorker(w, [work[w] EXCEPT !.pc = "keyed", !.rev = qrev[w[2]]])
    BY <1>0, <2>1 DEF GoodWorker, AtWork, Worker
  <2> QED
    BY <1>1, <1>9, <2>2 DEF ReadRevision
<1>10. CASE RouteQuery(w)
  <2>1. work[w].pc = "lead" =>
            GoodWorker(w, [work[w] EXCEPT !.pc = "routed", !.adapter = cfg[w[2]].adapter])
    BY <1>0 DEF GoodWorker, AtWork, Worker
  <2> QED
    BY <1>1, <1>10, <2>1 DEF RouteQuery
<1>11. CASE EndQuery(w)
  <2>1. PICK answer \in Answers(work[w].adapter, cfg[w[2]].pat, work[w].rev) :
           work' = [x \in Workers |->
               IF x = w \/ (work[x].pc = "follow" /\ Key(x) = Key(w))
               THEN [work[x] EXCEPT !.pc = "have", !.adapter = AnyAdapter,
                                    !.via = work[w].cand, !.snap = answer]
               ELSE work[x]]
    BY <1>11 DEF EndQuery
  <2>2. answer.ok /\ work[w].rev = qrev[w[2]] => answer.data = cfg[w[2]]
    <3>1. cfg[w[2]] \in Config
      BY <1>0 DEF TypeOK
    <3>2. cfg[w[2]] = [adapter |-> cfg[w[2]].adapter, pat |-> cfg[w[2]].pat]
      BY <3>1 DEF Config
    <3>3. answer.ok => answer.data = [adapter |-> work[w].adapter, pat |-> cfg[w[2]].pat]
      <4>1. answer \in Answers(work[w].adapter, cfg[w[2]].pat, work[w].rev)
        BY <2>1
      <4>2. \/ answer = [Blank EXCEPT !.began = work[w].rev]
            \/ answer = [rev |-> 0, began |-> work[w].rev, ok |-> TRUE,
                         data |-> [adapter |-> work[w].adapter, pat |-> cfg[w[2]].pat]]
        BY <4>1 DEF Answers
      <4> QED
        BY <4>2 DEF Blank
    <3>4. work[w].rev = qrev[w[2]] => work[w].adapter = cfg[w[2]].adapter
      BY <1>0, <1>11 DEF EndQuery, GoodWorker
    <3> QED
      BY <3>2, <3>3, <3>4
  <2>3. ASSUME NEW x \in Workers,
               x = w \/ (work[x].pc = "follow" /\ Key(x) = Key(w))
        PROVE  GoodWorker(x, work'[x])
    <3>1. x[2] = w[2] /\ work[x].rev = work[w].rev /\ work[x].pc \in AtWork
      BY <1>11, <2>3 DEF Key, EndQuery, AtWork
    <3>2. work[x] \in Worker
      BY DEF TypeOK
    <3>3. /\ work'[x].pc = "have" /\ work'[x].rev = work[x].rev
          /\ work'[x].snap = answer
      BY <2>1, <2>3, <3>2 DEF Worker
    <3> QED
      BY <1>0, <2>2, <3>1, <3>3 DEF GoodWorker
  <2> QED
    BY <1>0, <2>1, <2>3
<1>12. CASE PassContext(w)
  <2>1. work[w].pc = "have" => GoodWorker(w, [work[w] EXCEPT !.pc = "ready"])
    BY <1>0 DEF GoodWorker, AtWork, Worker
  <2> QED
    BY <1>1, <1>12, <2>1 DEF PassContext, Move
<1>13. CASE CheckResult(w)
  <2>1. monitored[w[2]] /\ qrev[w[2]] = work[w].rev
    BY <1>13 DEF CheckResult, canCommitQueryResult
  <2>2. work[w].pc = "ready" /\ work[w].snap \in Snapshot /\ qrev[w[2]] \in Nat
    BY <1>0, <1>13, BoundAssumption DEF CheckResult, Worker, TypeOK, Revs
  <2>3. Sound(w[2], [work[w].snap EXCEPT !.rev = work[w].rev])
    BY <1>0, <2>1, <2>2 DEF GoodWorker, Sound, Snapshot
  <2>4. \A p \in {"put", "failing"} :
            GoodWorker(w, [work[w] EXCEPT !.pc = p, !.snap.rev = work[w].rev])
    BY <1>0, <2>1, <2>2, <2>3 DEF GoodWorker, AtWork, Worker
  <2> QED
    BY <1>1, <1>13, <2>4 DEF CheckResult
<1>14. CASE ReadPrevious(w)
  <2>1. /\ work[w].pc = "failing" /\ work[w].rev <= qrev[w[2]]
        /\ work[w].rev = qrev[w[2]] => monitored[w[2]]
    BY <1>0, <1>14 DEF ReadPrevious, GoodWorker, AtWork
  <2>2. errorSnapshot(w[2]) \in Snapshot /\ ~errorSnapshot(w[2]).ok
    BY <1>0, ErrorType, ErrorSound
  <2>3. Sound(w[2], [errorSnapshot(w[2]) EXCEPT !.rev = work[w].rev])
    BY <2>1, <2>2 DEF Sound, Snapshot
  <2>4. GoodWorker(w, [work[w] EXCEPT !.pc = "put",
                         !.snap = [errorSnapshot(w[2]) EXCEPT !.rev = work[w].rev]])
    BY <1>0, <2>1, <2>3 DEF GoodWorker, AtWork, Worker
  <2> QED
    BY <1>1, <1>14, <2>4 DEF ReadPrevious
<1>15. CASE PutResult(w)
  BY <1>2, <1>15 DEF PutResult, WorkerPc, AtWork
<1> QED
  BY <1>3, <1>4, <1>5, <1>6, <1>7, <1>8, <1>9, <1>10, <1>11, <1>12, <1>13, <1>14, <1>15
  DEF WorkerStep, QueryStep, CommitStep

\* The runs leave every worker as it is, or at rest.
LEMMA RunStepSound ==
    ASSUME TypeOK, SoundInv, NEW r \in Runs, RunStep(r)
    PROVE  \A x \in Workers : GoodWorker(x, work'[x])
<1>0. \A x \in Workers : GoodWorker(x, work[x])
  BY DEF SoundInv
<1>1. CASE ListHost(r)
  <2>1. PICK lost \in SUBSET {a \in HostAccounts : catalog[a] # Absent} :
            work' = [w \in Workers |->
               IF w[1] = r /\ w[2] \in HostAccounts
               THEN [Idle EXCEPT
                       !.cand = IF w[2] \in lost THEN Unreadable ELSE catalog[w[2]],
                       !.pc = IF w[2] \in lost THEN "unread" ELSE "unseen"]
               ELSE work[w]]
    BY <1>1 DEF ListHost
  <2>2. ASSUME NEW x \in Workers
        PROVE  GoodWorker(x, work'[x])
    <3>1. CASE x[1] = r /\ x[2] \in HostAccounts
      <4>1. work'[x].pc \in {"unread", "unseen"}
        BY <2>1, <3>1 DEF Idle
      <4> QED
        BY <4>1, RestGood DEF AtWork
    <3>2. CASE ~(x[1] = r /\ x[2] \in HostAccounts)
      BY <1>0, <2>1, <3>2
    <3> QED
      BY <3>1, <3>2
  <2> QED
    BY <2>2
<1>2. CASE ListStatic(r)
  <2>1. ASSUME NEW x \in Workers
        PROVE  work'[x] = work[x] \/ work'[x].pc = "unseen"
    BY <1>2 DEF ListStatic, Idle
  <2> QED
    BY <1>0, <2>1, RestGood DEF AtWork
<1>3. CASE StopRun(r)
  <2>1. ASSUME NEW x \in Workers
        PROVE  work'[x] = work[x] \/ work'[x].pc = "unseen"
    BY <1>3 DEF StopRun, Idle
  <2> QED
    BY <1>0, <2>1, RestGood DEF AtWork
<1>4. CASE work' = work
  BY <1>0, <1>4
<1> QED
  BY <1>1, <1>2, <1>3, <1>4
  DEF RunStep, Discovery, ListHostFails, ListStaticFails, LaunchWorkers,
      RequestUnmatched, CountResults, Prune

\* The state a visitor step leaves its visitor in is good.
LEMMA VisitorStepSound ==
    ASSUME TypeOK, SoundInv, NEW v \in Visitors, VisitorStep(v)
    PROVE  \A u \in Visitors : GoodVisitor(vis'[u])
<1>0. /\ vis[v] \in Visitor
      /\ \A u \in Visitors : GoodVisitor(vis[u])
  BY DEF TypeOK, SoundInv
<1>1. ASSUME NEW value, SetVisitor(v, value), GoodVisitor(value)
      PROVE  \A u \in Visitors : GoodVisitor(vis'[u])
  BY <1>0, <1>1 DEF SetVisitor, TypeOK
<1>2. CASE RouteQuota(v)
  <2>1. \A a \in Accounts :
            GoodVisitor([pc |-> "routed", acct |-> a, adapter |-> cfg[a].adapter,
                         snap |-> [Blank EXCEPT !.began = qrev[a]]])
    BY DEF GoodVisitor, Blank
  <2> QED
    BY <1>1, <1>2, <2>1 DEF RouteQuota
<1>3. CASE AnswerQuota(v)
  <2> DEFINE a == vis[v].acct
             data == [adapter |-> vis[v].adapter, pat |-> cfg[a].pat]
  <2>1. a \in Accounts /\ vis[v].snap \in Snapshot /\ vis[v].snap.rev = 0
    BY <1>0, <1>3 DEF AnswerQuota, GoodVisitor, Visitor
  <2>2. qrev[a] \in Nat /\ cfg[a] = [adapter |-> cfg[a].adapter, pat |-> cfg[a].pat]
    BY <2>1, BoundAssumption DEF TypeOK, Revs, Config
  <2>3. qrev[a] = 0 => data = cfg[a]
    BY <1>0, <1>3, <2>2 DEF AnswerQuota, GoodVisitor
  <2>4. Sound(a, [vis[v].snap EXCEPT !.ok = TRUE, !.data = data])
    BY <2>1, <2>2, <2>3 DEF Sound, Snapshot
  <2>5. GoodVisitor([vis[v] EXCEPT !.pc = "put", !.snap.ok = TRUE, !.snap.data = data])
    BY <1>0, <2>4 DEF GoodVisitor, Visitor, Snapshot
  <2> QED
    BY <1>1, <1>3, <2>5 DEF AnswerQuota
<1>4. CASE QuotaFails(v) \/ PutVisit(v)
  <2>1. GoodVisitor(NoVisit)
    BY DEF GoodVisitor, NoVisit
  <2> QED
    BY <1>1, <1>4, <2>1 DEF QuotaFails, PutVisit
<1>5. CASE ReadDirectory(v)
  <2>1. \A a \in Accounts : GoodVisitor([NoVisit EXCEPT !.pc = "unread", !.acct = a])
    BY DEF GoodVisitor, NoVisit
  <2> QED
    BY <1>1, <1>5, <2>1, AccountsAssumption DEF ReadDirectory
<1>6. CASE ReadDirectoryError(v)
  <2>1. Sound(vis[v].acct, errorSnapshot(vis[v].acct))
    BY <1>0, ErrorSound DEF Visitor
  <2>2. GoodVisitor([vis[v] EXCEPT !.pc = "put", !.snap = errorSnapshot(vis[v].acct)])
    BY <1>0, <2>1 DEF GoodVisitor, Visitor
  <2> QED
    BY <1>1, <1>6, <2>2 DEF ReadDirectoryError
<1> QED
  BY <1>2, <1>3, <1>4, <1>5, <1>6 DEF VisitorStep

\* An active snapshot comes from a worker or a visitor that was about to put it.
LEMMA EntryOrigin ==
    ASSUME TypeOK, [Next]_vars, NEW a \in Accounts
    PROVE  \/ entry'[a] = entry[a]
           \/ entry'[a] = NoEntry
           \/ \E w \in Workers : /\ work[w].pc \in {"marking", "put"}
                                /\ w[2] = a /\ entry'[a] = work[w].snap
           \/ \E v \in Visitors : /\ vis[v].pc = "put"
                                 /\ vis[v].acct = a /\ entry'[a] = vis[v].snap
<1>1. CASE UNCHANGED entry
  BY <1>1
<1>2. ASSUME NEW S, removeActive(S)
      PROVE  entry'[a] = entry[a] \/ entry'[a] = NoEntry
  BY <1>2 DEF removeActive
<1>3. ASSUME NEW w \in Workers, PutUnreadable(w) \/ PutResult(w)
      PROVE  \/ entry'[a] = entry[a]
             \/ /\ work[w].pc \in {"marking", "put"}
                /\ w[2] = a /\ entry'[a] = work[w].snap
  BY <1>3 DEF PutUnreadable, PutResult, put, TypeOK
<1>4. ASSUME NEW v \in Visitors, PutVisit(v)
      PROVE  \/ entry'[a] = entry[a]
             \/ vis[v].pc = "put" /\ vis[v].acct = a /\ entry'[a] = vis[v].snap
  BY <1>4 DEF PutVisit, put, TypeOK
<1>5. ASSUME NEW e \in Editors, DeleteRecords(e)
      PROVE  entry'[a] = entry[a] \/ entry'[a] = NoEntry
  BY <1>5 DEF DeleteRecords, delete, TypeOK
<1>6. ASSUME NEW r \in Runs, RunStep(r)
      PROVE  UNCHANGED entry \/ \E S \in SUBSET Accounts : removeActive(S)
  BY <1>6
  DEF RunStep, Discovery, ListHost, ListHostFails, ListStatic, ListStaticFails,
      LaunchWorkers, RequestUnmatched, CountResults, Prune, store
<1>7. ASSUME NEW w \in Workers, WorkerStep(w) \/ CommitStep(w)
      PROVE  UNCHANGED entry \/ PutUnreadable(w) \/ PutResult(w)
  BY <1>7
  DEF WorkerStep, CommitStep, QueryStep, store, ReadUnreadable, SelectAccount,
      LaunchAccount, SkipFresh, ReadRevision, Lead, Follow, RouteQuery, EndQuery, GiveUp,
      PassContext, ReadPrevious, CheckResult, DiscardResult
<1>8. ASSUME NEW e \in Editors, EditorStep(e)
      PROVE  UNCHANGED entry \/ DeleteRecords(e) \/ \E S \in SUBSET Accounts : removeActive(S)
  <2>1. CASE RemoveCancelled(e)
    <3>1. ed[e] \in Editor
      BY DEF TypeOK
    <3>2. PICK b \in ed[e].todo : removeActive({b})
      BY <2>1 DEF RemoveCancelled
    <3>3. {b} \in SUBSET Accounts
      BY <3>1, <3>2 DEF Editor
    <3> QED
      BY <3>2, <3>3
  <2> QED
    BY <1>8, <2>1
    DEF EditorStep, store, BeginSave, CommitSave, RejectEdit, CollectChanged, StartJob,
        EndWithoutJob, BeginCleanup, invalidateQueryResults
<1>9. ASSUME NEW v \in Visitors, VisitorStep(v)
      PROVE  UNCHANGED entry \/ PutVisit(v)
  BY <1>9
  DEF VisitorStep, store, RouteQuota, AnswerQuota, QuotaFails, ReadDirectory,
      ReadDirectoryError
<1>10. CASE UNCHANGED vars
  BY <1>1, <1>10 DEF vars, store
<1>11. CASE \/ StartBackground \/ CancelBackground \/ ChangeCatalog
            \/ \E r \in Requests : StartRequest(r)
  BY <1>1, <1>11 DEF StartBackground, CancelBackground, ChangeCatalog, StartRequest, store
<1>12. CASE \E r \in Runs : RunStep(r)
  BY <1>1, <1>2, <1>6, <1>12
<1>13. CASE \E w \in Workers : WorkerStep(w) \/ CommitStep(w)
  BY <1>1, <1>3, <1>7, <1>13
<1>14. CASE \E e \in Editors : EditorStep(e)
  BY <1>1, <1>2, <1>5, <1>8, <1>14
<1>15. CASE \E v \in Visitors : VisitorStep(v)
  BY <1>1, <1>4, <1>9, <1>15
<1> QED
  BY <1>10, <1>11, <1>12, <1>13, <1>14, <1>15 DEF Next

LEMMA WorkersOrigin ==
    ASSUME TypeOK, TypeOK', SoundInv, [Next]_vars
    PROVE  \A w \in Workers : GoodWorker(w, work'[w])
<1>1. CASE UNCHANGED work
  BY <1>1 DEF SoundInv
<1>2. ASSUME NEW e \in Editors, EditorStep(e)
      PROVE  UNCHANGED work
  BY <1>2
  DEF EditorStep, runs, BeginSave, CommitSave, RejectEdit, RemoveCancelled, CollectChanged,
      StartJob, StartRun, EndWithoutJob, BeginCleanup, invalidateQueryResults,
      DeleteRecords
<1>3. ASSUME NEW v \in Visitors, VisitorStep(v)
      PROVE  UNCHANGED work
  BY <1>3
  DEF VisitorStep, runs, SetVisitor, RouteQuota, AnswerQuota, QuotaFails, ReadDirectory,
      ReadDirectoryError, PutVisit
<1>4. CASE \/ StartBackground \/ CancelBackground \/ ChangeCatalog \/ UNCHANGED vars
           \/ \E r \in Requests : StartRequest(r)
  BY <1>1, <1>4
  DEF StartBackground, CancelBackground, ChangeCatalog, StartRequest, StartRun, runs, vars
<1> QED
  BY <1>1, <1>2, <1>3, <1>4, RunStepSound, WorkerStepSound DEF Next

LEMMA VisitorsOrigin ==
    ASSUME TypeOK, SoundInv, [Next]_vars
    PROVE  \A v \in Visitors : GoodVisitor(vis'[v])
<1>1. CASE UNCHANGED vis
  BY <1>1 DEF SoundInv
<1>2. ASSUME NEW e \in Editors, EditorStep(e)
      PROVE  UNCHANGED vis
  BY <1>2
  DEF EditorStep, SetEditor, BeginSave, CommitSave, RejectEdit, RemoveCancelled,
      CollectChanged, StartJob, EndWithoutJob, BeginCleanup, invalidateQueryResults,
      DeleteRecords
<1>3. ASSUME NEW w \in Workers, WorkerStep(w) \/ CommitStep(w)
      PROVE  UNCHANGED vis
  BY <1>3
  DEF WorkerStep, CommitStep, QueryStep, SetWorker, Move, Settle, ReadUnreadable,
      PutUnreadable, SelectAccount, LaunchAccount, SkipFresh, ReadRevision, Lead, Follow,
      RouteQuery, EndQuery, GiveUp, PassContext, ReadPrevious, PutResult, CheckResult, DiscardResult
<1>4. ASSUME NEW r \in Runs, RunStep(r)
      PROVE  UNCHANGED vis
  BY <1>4
  DEF RunStep, Discovery, ListHost, ListHostFails, ListStatic, ListStaticFails,
      LaunchWorkers, RequestUnmatched, CountResults, Prune
<1>5. CASE \/ StartBackground \/ CancelBackground \/ ChangeCatalog \/ UNCHANGED vars
           \/ \E r \in Requests : StartRequest(r)
  BY <1>1, <1>5 DEF StartBackground, CancelBackground, ChangeCatalog, StartRequest, vars
<1> QED
  BY <1>1, <1>2, <1>3, <1>4, <1>5, VisitorStepSound DEF Next

LEMMA InitSound == Init => SoundInv
BY DEF Init, SoundInv, GoodWorker, GoodVisitor, Idle, NoVisit, AtWork

LEMMA NextSound == TypeOK /\ SoundInv /\ [Next]_vars => SoundInv'
<1> SUFFICES ASSUME TypeOK, SoundInv, [Next]_vars
             PROVE  SoundInv'
  OBVIOUS
<1>1. TypeOK' /\ Forward
  BY NextType, ForwardNext
<1>2. ASSUME NEW a \in Accounts, entry'[a] # NoEntry
      PROVE  Sound(a, entry[a])'
  <2>1. \E s \in Snapshot : entry'[a] = s /\ Sound(a, s)
    <3>1. CASE entry'[a] = entry[a]
      BY <1>2, <3>1 DEF TypeOK, SoundInv
    <3>2. CASE \E w \in Workers : /\ work[w].pc \in {"marking", "put"}
                                 /\ w[2] = a /\ entry'[a] = work[w].snap
      <4>1. PICK w \in Workers : /\ work[w].pc \in {"marking", "put"}
                                /\ w[2] = a /\ entry'[a] = work[w].snap
        BY <3>2
      <4> QED
        BY <4>1 DEF TypeOK, SoundInv, GoodWorker, Worker
    <3>3. CASE \E v \in Visitors : /\ vis[v].pc = "put"
                                  /\ vis[v].acct = a /\ entry'[a] = vis[v].snap
      <4>1. PICK v \in Visitors : /\ vis[v].pc = "put"
                                 /\ vis[v].acct = a /\ entry'[a] = vis[v].snap
        BY <3>3
      <4> QED
        BY <4>1 DEF TypeOK, SoundInv, GoodVisitor, Visitor
    <3> QED
      BY <1>2, <3>1, <3>2, <3>3, EntryOrigin
  <2>2. PICK s \in Snapshot : entry'[a] = s /\ Sound(a, s)
    BY <2>1
  <2>3. Sound(a, s)'
    BY <1>1, <2>2, SoundKept
  <2> QED
    BY <2>2, <2>3 DEF Sound
<1>3. ASSUME NEW w \in Workers
      PROVE  GoodWorker(w, work[w])'
  <2>1. PICK v \in Worker : work'[w] = v /\ GoodWorker(w, v)
    BY <1>1, WorkersOrigin DEF TypeOK
  <2>2. GoodWorker(w, v)'
    BY <1>1, <2>1, WorkerKept
  <2> QED
    BY <2>1, <2>2 DEF GoodWorker, Sound
<1>4. ASSUME NEW v \in Visitors
      PROVE  GoodVisitor(vis[v])'
  <2>1. PICK u \in Visitor : vis'[v] = u /\ GoodVisitor(u)
    BY <1>1, VisitorsOrigin DEF TypeOK
  <2>2. GoodVisitor(u)'
    BY <1>1, <2>1, VisitorKept
  <2> QED
    BY <2>1, <2>2 DEF GoodVisitor, Sound
<1> QED
  BY <1>2, <1>3, <1>4 DEF SoundInv

LEMMA SoundAlways == Spec => [](TypeOK /\ SoundInv)
BY InitType, InitSound, NextType, NextSound, PTL DEF Spec

\* An active snapshot that counts as up to date shows figures read with the
\* configuration of now.
THEOREM FreshCorrect == Spec => []FreshMeansCurrent
<1>1. TypeOK /\ SoundInv => FreshMeansCurrent
  BY DEF SoundInv, Sound, FreshMeansCurrent
<1> QED
  BY <1>1, SoundAlways, PTL

\* What a late query leaves behind for a cancelled account is out of date.
THEOREM CancelledCorrect == Spec => []CancelledNeverFresh
<1>1. ASSUME TypeOK, SoundInv
      PROVE  CancelledNeverFresh
  <2>1. ASSUME NEW a \in Accounts, entry[a] # NoEntry, ~monitored[a], qrev[a] > 0
        PROVE  entry[a].rev < qrev[a]
    <3>1. Sound(a, entry[a]) /\ entry[a] \in Snapshot
      BY <1>1, <2>1 DEF SoundInv, TypeOK
    <3>2. entry[a].rev \in Nat /\ qrev[a] \in Nat
      BY <1>1, <3>1, BoundAssumption DEF TypeOK, Snapshot, Revs
    <3> QED
      BY <2>1, <3>1, <3>2 DEF Sound
  <2> QED
    BY <2>1 DEF CancelledNeverFresh
<1> QED
  BY <1>1, SoundAlways, PTL

-----------------------------------------------------------------------------
(* Sharing: a waiting worker has a leader, and gets an answer for its own  *)
(* candidate.                                                              *)

\* y leads the query that x asks for.
Serves(y, x) ==
    /\ work[y].pc \in {"lead", "routed"}
    /\ y[2] = x[2] /\ work[y].rev = work[x].rev /\ work[y].cand = work[x].cand

LEMMA ServesKey ==
    ASSUME NEW x \in Workers
    PROVE  /\ Leading(Key(x)) # {} <=> \E y \in Workers : Serves(y, x)
           /\ (Leading(Key(x)) # {})' <=> \E y \in Workers : Serves(y, x)'
BY DEF Serves, Leading, Leaders, Key

\* r has no worker on a query.
Quiet(r) == \A x \in Workers : x[1] = r => work[x].pc \notin AtWork \cup {"queued"}

\* A run without a worker on a query, before and after, disturbs nobody.
LEMMA SharingQuiet ==
    ASSUME TypeOK, SharingInv, NEW r \in Runs, Quiet(r), Quiet(r)',
           \A x \in Workers : x[1] # r => work'[x] = work[x],
           \A q \in Runs : q # r => pc'[q] = pc[q]
    PROVE  SharingInv'
<1>1. \A x \in Workers : work'[x].pc \in AtWork \cup {"queued"} => pc'[x[1]] = "work"
  BY DEF SharingInv, Quiet, Workers
<1>2. OwnCandidate'
  BY DEF SharingInv, OwnCandidate, Quiet, AtWork
<1>3. ASSUME NEW x \in Workers, work'[x].pc = "follow"
      PROVE  \E y \in Workers : Serves(y, x)'
  <2>1. work'[x] = work[x]
    BY <1>3 DEF Quiet, AtWork
  <2>2. PICK y \in Workers : Serves(y, x)
    BY <1>3, <2>1, ServesKey DEF SharingInv, FollowersServed
  <2>3. work'[y] = work[y]
    BY <2>2 DEF Serves, Quiet, AtWork
  <2>4. Serves(y, x)'
    BY <2>1, <2>2, <2>3 DEF Serves
  <2> QED
    BY <2>4
<1>4. FollowersServed'
  BY <1>3, ServesKey DEF FollowersServed
<1> QED
  BY <1>1, <1>2, <1>4 DEF SharingInv

\* A step that leaves runs and workers alone disturbs nobody.
LEMMA SharingSame ==
    ASSUME SharingInv, UNCHANGED <<pc, work>>
    PROVE  SharingInv'
BY DEF SharingInv, OwnCandidate, FollowersServed, Leading, Leaders, Key

\* A step of one worker that does not end a query.
LEMMA SharingStep ==
    ASSUME TypeOK, SharingInv, NEW w \in Workers, NEW value, SetWorker(w, value),
           value.pc \in AtWork \cup {"queued"} => pc[w[1]] = "work",
           value.pc \in {"have", "ready", "failing", "put"} => value.via = value.cand,
           value.pc = "follow" => \E y \in Workers \ {w} :
               /\ work[y].pc \in {"lead", "routed"} /\ y[2] = w[2]
               /\ work[y].rev = value.rev /\ work[y].cand = value.cand,
           work[w].pc \in {"lead", "routed"} =>
               /\ value.pc \in {"lead", "routed"}
               /\ value.rev = work[w].rev /\ value.cand = work[w].cand
    PROVE  SharingInv'
<1>1. /\ pc' = pc /\ work'[w] = value
      /\ \A x \in Workers : x # w => work'[x] = work[x]
  BY DEF SetWorker, TypeOK
<1>2. \A x \in Workers : work'[x].pc \in AtWork \cup {"queued"} => pc'[x[1]] = "work"
  BY <1>1 DEF SharingInv
<1>3. OwnCandidate'
  BY <1>1 DEF SharingInv, OwnCandidate
<1>4. ASSUME NEW x \in Workers, work'[x].pc = "follow"
      PROVE  \E y \in Workers : Serves(y, x)'
  <2>1. CASE x = w
    BY <1>1, <1>4, <2>1 DEF Serves
  <2>2. CASE x # w
    <3>1. work[x].pc = "follow" /\ work'[x] = work[x]
      BY <1>1, <1>4, <2>2
    <3>2. PICK y \in Workers : Serves(y, x)
      BY <3>1, ServesKey DEF SharingInv, FollowersServed
    <3>3. Serves(y, x)'
      BY <1>1, <3>1, <3>2 DEF Serves
    <3> QED
      BY <3>3
  <2> QED
    BY <2>1, <2>2
<1>5. FollowersServed'
  BY <1>4, ServesKey DEF FollowersServed
<1> QED
  BY <1>2, <1>3, <1>5 DEF SharingInv

\* The end of a query serves everybody who waits for it, and nobody else.
LEMMA SharingEndQuery ==
    ASSUME TypeOK, SharingInv, NEW w \in Workers, EndQuery(w)
    PROVE  SharingInv'
<1>1. PICK answer \in Answers(work[w].adapter, cfg[w[2]].pat, work[w].rev) :
         work' = [x \in Workers |->
             IF x = w \/ (work[x].pc = "follow" /\ Key(x) = Key(w))
             THEN [work[x] EXCEPT !.pc = "have", !.adapter = AnyAdapter,
                                  !.via = work[w].cand, !.snap = answer]
             ELSE work[x]]
  BY DEF EndQuery
<1>2. work[w].pc = "routed" /\ pc' = pc /\ \A x \in Workers : work[x] \in Worker
  BY DEF EndQuery, TypeOK
<1>3. ASSUME NEW x \in Workers, x = w \/ (work[x].pc = "follow" /\ Key(x) = Key(w))
      PROVE  /\ work'[x].pc = "have" /\ work'[x].via = work'[x].cand
             /\ work[x].pc \in AtWork
  <2>1. work[x].cand = work[w].cand
    BY <1>3 DEF Key
  <2>2. work'[x] = [work[x] EXCEPT !.pc = "have", !.adapter = AnyAdapter,
                                   !.via = work[w].cand, !.snap = answer]
    BY <1>1, <1>3
  <2>3. /\ work'[x].pc = "have" /\ work'[x].via = work[w].cand
        /\ work'[x].cand = work[x].cand
    BY <1>2, <2>2 DEF Worker
  <2> QED
    BY <1>2, <1>3, <2>1, <2>3 DEF AtWork
<1>4. ASSUME NEW x \in Workers, ~(x = w \/ (work[x].pc = "follow" /\ Key(x) = Key(w)))
      PROVE  work'[x] = work[x]
  BY <1>1, <1>4
<1>5. \A x \in Workers : work'[x].pc \in AtWork \cup {"queued"} => pc'[x[1]] = "work"
  BY <1>2, <1>3, <1>4 DEF SharingInv
<1>6. OwnCandidate'
  BY <1>3, <1>4 DEF SharingInv, OwnCandidate
<1>7. ASSUME NEW x \in Workers, work'[x].pc = "follow"
      PROVE  \E y \in Workers : Serves(y, x)'
  <2>1. work'[x] = work[x] /\ Key(x) # Key(w)
    BY <1>3, <1>4, <1>7
  <2>2. PICK y \in Workers : Serves(y, x)
    BY <1>7, <2>1, ServesKey DEF SharingInv, FollowersServed
  <2>3. y # w /\ work[y].pc # "follow"
    BY <2>1, <2>2 DEF Serves, Key
  <2>4. Serves(y, x)'
    BY <1>4, <2>1, <2>2, <2>3 DEF Serves
  <2> QED
    BY <2>4
<1>8. FollowersServed'
  BY <1>7, ServesKey DEF FollowersServed
<1> QED
  BY <1>5, <1>6, <1>8 DEF SharingInv

LEMMA SharingStart ==
    ASSUME TypeOK, SharingInv, NEW r \in Runs, NEW q, StartRun(r, q)
    PROVE  SharingInv'
<1>1. Quiet(r) /\ Quiet(r)'
  BY DEF StartRun, SharingInv, Quiet
<1>2. \A x \in Runs : x # r => pc'[x] = pc[x]
  BY DEF StartRun, TypeOK
<1> QED
  BY <1>1, <1>2, SharingQuiet DEF StartRun

LEMMA SharingRunStep ==
    ASSUME TypeOK, SharingInv, NEW r \in Runs, RunStep(r)
    PROVE  SharingInv'
<1>1. Quiet(r)
  <2>1. CASE CountResults(r)
    <3>1. ASSUME NEW x \in Workers, x[1] = r
          PROVE  work[x].pc \notin AtWork \cup {"queued"}
      <4>1. x = <<r, x[2]>> /\ x[2] \in Accounts
        BY <3>1 DEF Workers
      <4>2. work[x].pc \in Settled
        BY <2>1, <4>1 DEF CountResults, AllSettled
      <4> QED
        BY <4>2 DEF Settled, AtWork
    <3> QED
      BY <3>1 DEF Quiet
  <2>2. CASE pc[r] # "work"
    BY <2>2 DEF SharingInv, Quiet
  <2> QED
    BY <2>1, <2>2
    DEF RunStep, Discovery, ListHost, ListHostFails, ListStatic, ListStaticFails,
        LaunchWorkers, RequestUnmatched, Prune
<1>2. \A q \in Runs : q # r => pc'[q] = pc[q]
  BY DEF RunStep, Discovery, ListHost, ListHostFails, ListStatic, ListStaticFails,
         LaunchWorkers, RequestUnmatched, CountResults, Prune, StopRun, TypeOK
<1>3. CASE StopRun(r)
  <2>1. ASSUME NEW x \in Workers, x[1] = r
        PROVE  work'[x].pc = "unseen"
    BY <1>3, <2>1 DEF StopRun, Idle
  <2>2. Quiet(r)'
    BY <2>1 DEF Quiet, AtWork
  <2>3. \A x \in Workers : x[1] # r => work'[x] = work[x]
    BY <1>3 DEF StopRun, TypeOK
  <2> QED
    BY <1>1, <1>2, <2>2, <2>3, SharingQuiet
<1>4. CASE UNCHANGED work
  <2>1. Quiet(r)'
    BY <1>1, <1>4 DEF Quiet
  <2> QED
    BY <1>1, <1>2, <1>4, <2>1, SharingQuiet
<1>5. CASE ListHost(r) \/ ListStatic(r)
  <2>1. ASSUME NEW x \in Workers
        PROVE  /\ x[1] # r => work'[x] = work[x]
               /\ x[1] = r => work'[x] = work[x] \/ work'[x].pc \in {"unseen", "unread"}
    <3>1. CASE ListHost(r)
      <4>1. PICK lost \in SUBSET {a \in HostAccounts : catalog[a] # Absent} :
              work' = [w \in Workers |->
                 IF w[1] = r /\ w[2] \in HostAccounts
                 THEN [Idle EXCEPT
                         !.cand = IF w[2] \in lost THEN Unreadable ELSE catalog[w[2]],
                         !.pc = IF w[2] \in lost THEN "unread" ELSE "unseen"]
                 ELSE work[w]]
        BY <3>1 DEF ListHost
      <4> QED
        BY <4>1 DEF Idle
    <3>2. CASE ListStatic(r)
      BY <3>2 DEF ListStatic, Idle
    <3> QED
      BY <1>5, <3>1, <3>2
  <2>2. Quiet(r)'
    BY <1>1, <2>1 DEF Quiet, AtWork
  <2> QED
    BY <1>1, <1>2, <2>1, <2>2, SharingQuiet
<1> QED
  BY <1>3, <1>4, <1>5
  DEF RunStep, Discovery, ListHostFails, ListStaticFails, LaunchWorkers,
      RequestUnmatched, CountResults, Prune

LEMMA SharingWorkerStep ==
    ASSUME TypeOK, SharingInv, NEW w \in Workers, WorkerStep(w) \/ CommitStep(w)
    PROVE  SharingInv'
<1>0. work[w] \in Worker /\ (work[w].pc \in AtWork \cup {"queued"} => pc[w[1]] = "work")
  BY DEF TypeOK, SharingInv
<1>1. ASSUME NEW value, SetWorker(w, value), work[w].pc \notin {"lead", "routed"},
             value.pc \notin AtWork \cup {"queued"}
      PROVE  SharingInv'
  BY <1>1, SharingStep DEF AtWork
<1>2. ASSUME NEW p, p \notin AtWork \cup {"queued"}, Settle(w, p),
             work[w].pc \notin {"lead", "routed"}
      PROVE  SharingInv'
  <2>1. [Idle EXCEPT !.pc = p].pc = p
    BY DEF Idle
  <2> QED
    BY <1>1, <1>2, <2>1 DEF Settle
<1>3. CASE ReadUnreadable(w) \/ PutUnreadable(w) \/ SelectAccount(w)
  <2>1. work[w].pc \in {"unread", "marking", "unseen"}
    BY <1>3 DEF ReadUnreadable, PutUnreadable, SelectAccount
  <2>2. work'[w].pc \in {"marking", "unseen", "dropped", "chosen", "kept"}
    <3>1. CASE ReadUnreadable(w)
      BY <1>0, <3>1 DEF ReadUnreadable, SetWorker, TypeOK, Worker
    <3>2. CASE PutUnreadable(w)
      BY <1>0, <3>2 DEF PutUnreadable, SetWorker, TypeOK, Worker
    <3>3. CASE SelectAccount(w)
      BY <1>0, <3>3 DEF SelectAccount, SetWorker, TypeOK, Worker
    <3> QED
      BY <1>3, <3>1, <3>2, <3>3
  <2>3. \E value : SetWorker(w, value)
    BY <1>3 DEF ReadUnreadable, PutUnreadable, SelectAccount
  <2>4. PICK value : SetWorker(w, value)
    BY <2>3
  <2>5. value = work'[w]
    BY <2>4 DEF SetWorker, TypeOK
  <2> QED
    BY <1>1, <2>1, <2>2, <2>4, <2>5 DEF AtWork
<1>4. CASE SkipFresh(w) \/ GiveUp(w) \/ DiscardResult(w) \/ PutResult(w)
  BY <1>2, <1>4 DEF SkipFresh, GiveUp, DiscardResult, PutResult, AtWork
<1>5. CASE LaunchAccount(w)
  <2>1. /\ [work[w] EXCEPT !.pc = "queued"].pc = "queued"
        /\ pc[w[1]] = "work" /\ work[w].pc = "chosen"
        /\ SetWorker(w, [work[w] EXCEPT !.pc = "queued"])
    BY <1>0, <1>5 DEF LaunchAccount, Move, Worker
  <2> QED
    BY <2>1, SharingStep
<1>6. CASE ReadRevision(w)
  <2> DEFINE value == [work[w] EXCEPT !.pc = "keyed", !.rev = qrev[w[2]]]
  <2>1. /\ value.pc = "keyed" /\ pc[w[1]] = "work" /\ work[w].pc = "queued"
        /\ SetWorker(w, value)
    BY <1>0, <1>6 DEF ReadRevision, Worker
  <2> HIDE DEF value
  <2> QED
    BY <2>1, SharingStep
<1>7. CASE Lead(w)
  <2> DEFINE value == [work[w] EXCEPT !.pc = "lead"]
  <2>1. /\ value.pc = "lead" /\ pc[w[1]] = "work" /\ work[w].pc = "keyed"
        /\ SetWorker(w, value)
    BY <1>0, <1>7 DEF Lead, Move, Worker, AtWork
  <2> HIDE DEF value
  <2> QED
    BY <2>1, SharingStep
<1>8. CASE Follow(w)
  <2> DEFINE value == [work[w] EXCEPT !.pc = "follow"]
  <2>1. /\ value.pc = "follow" /\ pc[w[1]] = "work" /\ work[w].pc = "keyed"
        /\ value.rev = work[w].rev /\ value.cand = work[w].cand
        /\ SetWorker(w, value)
    BY <1>0, <1>8 DEF Follow, Move, Worker, AtWork
  <2>2. PICK y \in Workers : Serves(y, w)
    BY <1>8, ServesKey DEF Follow
  <2>3. y # w
    BY <2>1, <2>2 DEF Serves
  <2> HIDE DEF value
  <2>4. \E x \in Workers \ {w} :
            /\ work[x].pc \in {"lead", "routed"} /\ x[2] = w[2]
            /\ work[x].rev = value.rev /\ work[x].cand = value.cand
    BY <2>1, <2>2, <2>3 DEF Serves
  <2> QED
    BY <2>1, <2>4, SharingStep
<1>9. CASE RouteQuery(w)
  <2> DEFINE value == [work[w] EXCEPT !.pc = "routed", !.adapter = cfg[w[2]].adapter]
  <2>1. /\ value.pc = "routed" /\ pc[w[1]] = "work"
        /\ value.rev = work[w].rev /\ value.cand = work[w].cand
        /\ SetWorker(w, value)
    BY <1>0, <1>9 DEF RouteQuery, Worker, AtWork
  <2> HIDE DEF value
  <2> QED
    BY <2>1, SharingStep
<1>10. CASE EndQuery(w)
  BY <1>10, SharingEndQuery
<1>11. CASE PassContext(w)
  <2> DEFINE value == [work[w] EXCEPT !.pc = "ready"]
  <2>1. work[w].pc = "have" /\ work[w].via = work[w].cand /\ SetWorker(w, value)
    BY <1>11 DEF PassContext, Move, SharingInv, OwnCandidate
  <2>2. /\ value.pc = "ready" /\ pc[w[1]] = "work"
        /\ value.via = work[w].via /\ value.cand = work[w].cand
    BY <1>0, <2>1 DEF Worker, AtWork
  <2> HIDE DEF value
  <2> QED
    BY <2>1, <2>2, SharingStep
<1>12. CASE CheckResult(w)
  <2> DEFINE value == [work[w] EXCEPT
                         !.pc = IF work[w].snap.ok THEN "put" ELSE "failing",
                         !.snap.rev = work[w].rev]
  <2>1. work[w].pc = "ready" /\ work[w].via = work[w].cand /\ SetWorker(w, value)
    BY <1>12 DEF CheckResult, SharingInv, OwnCandidate
  <2>2. /\ value.pc \in {"put", "failing"} /\ pc[w[1]] = "work"
        /\ value.via = work[w].via /\ value.cand = work[w].cand
    BY <1>0, <2>1 DEF Worker, AtWork
  <2> HIDE DEF value
  <2> QED
    BY <2>1, <2>2, SharingStep
<1>13. CASE ReadPrevious(w)
  <2> DEFINE value == [work[w] EXCEPT !.pc = "put",
                         !.snap = [errorSnapshot(w[2]) EXCEPT !.rev = work[w].rev]]
  <2>1. work[w].pc = "failing" /\ work[w].via = work[w].cand /\ SetWorker(w, value)
    BY <1>13 DEF ReadPrevious, SharingInv, OwnCandidate
  <2>2. /\ value.pc = "put" /\ pc[w[1]] = "work"
        /\ value.via = work[w].via /\ value.cand = work[w].cand
    BY <1>0, <2>1 DEF Worker, AtWork
  <2> HIDE DEF value
  <2> QED
    BY <2>1, <2>2, SharingStep
<1> QED
  BY <1>3, <1>4, <1>5, <1>6, <1>7, <1>8, <1>9, <1>10, <1>11, <1>12, <1>13
  DEF WorkerStep, QueryStep, CommitStep

LEMMA InitSharing == Init => SharingInv
BY DEF Init, SharingInv, OwnCandidate, FollowersServed, Idle, AtWork

LEMMA NextSharing == TypeOK /\ SharingInv /\ [Next]_vars => SharingInv'
<1> SUFFICES ASSUME TypeOK, SharingInv, [Next]_vars
             PROVE  SharingInv'
  OBVIOUS
<1>1. CASE CancelBackground \/ ChangeCatalog \/ UNCHANGED vars
  BY <1>1, SharingSame DEF CancelBackground, ChangeCatalog, runs, vars
<1>2. CASE StartBackground \/ \E r \in Requests : StartRequest(r)
  BY <1>2, SharingStart DEF StartBackground, StartRequest, Runs
<1>3. ASSUME NEW e \in Editors, EditorStep(e)
      PROVE  SharingInv'
  <2>1. CASE StartJob(e)
    BY <2>1, SharingStart DEF StartJob, Runs
  <2>2. CASE UNCHANGED runs
    BY <2>2, SharingSame DEF runs
  <2> QED
    BY <1>3, <2>1, <2>2
    DEF EditorStep, BeginSave, CommitSave, RejectEdit, RemoveCancelled, CollectChanged,
        EndWithoutJob, BeginCleanup, invalidateQueryResults, DeleteRecords
<1>4. ASSUME NEW v \in Visitors, VisitorStep(v)
      PROVE  SharingInv'
  <2>1. UNCHANGED runs
    BY <1>4 DEF VisitorStep, SetVisitor, RouteQuota, AnswerQuota, QuotaFails,
                ReadDirectory, ReadDirectoryError, PutVisit
  <2> QED
    BY <2>1, SharingSame DEF runs
<1> QED
  BY <1>1, <1>2, <1>3, <1>4, SharingRunStep, SharingWorkerStep DEF Next

LEMMA SharingAlways == Spec => [](TypeOK /\ SharingInv)
BY InitType, InitSharing, NextType, NextSharing, PTL DEF Spec

\* A shared query never hands a worker the figures of another candidate.
THEOREM OwnCandidateCorrect == Spec => []OwnCandidate
<1>1. SharingInv => OwnCandidate
  BY DEF SharingInv
<1> QED
  BY <1>1, SharingAlways, PTL

\* No worker waits for a query that nobody makes.
THEOREM FollowersCorrect == Spec => []FollowersServed
<1>1. SharingInv => FollowersServed
  BY DEF SharingInv
<1> QED
  BY <1>1, SharingAlways, PTL

=============================================================================
