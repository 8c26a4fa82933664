------------------------------- MODULE Alerts -------------------------------
(***************************************************************************)
(* Statuses and alerts at work: queries whose results are judged by the    *)
(* thresholds of their time and stored later, pages that save thresholds   *)
(* and have the stored snapshots judged again, reports that reconcile the  *)
(* dismissals with the alerts they found, and the user who dismisses.      *)
(*                                                                         *)
(* Which results may be stored is the subject of RefreshCommit, how a      *)
(* commit is written that of PrefsStore; here both are one step.           *)
(***************************************************************************)
EXTENDS StatusRules

CONSTANTS
    Accounts,
    Figures,      \* what adapters may return
    Blank,        \* the figures of an account that was never read
    Thresholds,   \* what a page may save, or the configuration hold
    Pages,        \* handlers that save thresholds
    Reports,      \* handlers that build a report
    MaxDismissed, \* bound: dismissals kept at a time
    Dismissable   \* bound: the types of alerts that are dismissed

ASSUME ThresholdsAssumption ==
    /\ None \notin Thresholds
    /\ \A t \in Thresholds : t.percent \in Rules(9)
    /\ \A t \in Thresholds : t.currency \in Rules(9) \cup {None}
    /\ \A t \in Thresholds : t.own \in [Accounts -> Rules(9) \cup {None}]
ASSUME FiguresAssumption ==
    /\ \A f \in Figures \cup {Blank} : f.kind \in {"balance", "quota", "unsupported"}
    /\ \A f \in Figures \cup {Blank} : f.verdict \in {None, "unknown", "disabled"}
    /\ \A f \in Figures : f.over \in BOOLEAN /\ f.totals \cup f.others \subseteq Int
    \* An adapter that gives a verdict gives an error with it; one that cannot read an
    \* account has no sections and says so (unsupportedSnapshot).
    /\ \A f \in Figures : f.verdict # None => f.fault # None
    /\ \A f \in Figures : f.verdict = "unknown" => f.failing = {}
    /\ \A f \in Figures \cup {Blank} : f.kind = "unsupported" => f.failing = {}
    /\ \A f \in Figures : f.kind = "unsupported" => f.verdict # None
    /\ Blank.kind = "unsupported"
    \* Of finitely many shares one is the least.
    /\ \A f \in Figures : Shares(f) \subseteq Int
    /\ \A f \in Figures : Shares(f) # {} => \E n \in Shares(f) : \A k \in Shares(f) : n <= k

VARIABLES
    store,       \* the active snapshots, None where there is none
    thresholds,  \* effectiveThresholds
    saved,       \* whether they are saved, or those of the configuration
    monitored,   \* the accounts that are monitored
    dismissed,   \* DismissedAlerts
    page,        \* "idle" or "reapply"
    leaving,     \* accounts a handler has switched off and not yet removed
    report,      \* what a report has listed and found, or None
    judged,      \* history: the thresholds each snapshot was last judged by
    steady       \* history: dismissed alerts that were up ever since, see StaysHidden

vars == <<store, thresholds, saved, monitored, dismissed, page, leaving, report, judged, steady>>

Snapshots == Snapshot(Figures \cup {Blank})
ASSUME NoneAssumption == None \notin Statuses \cup {"REQUEST_FAILED"} \cup Snapshots
Ids(S) == {x.id : x \in S} \ {None}
AlertsOf(st, thr, mon) ==
    UNION {alertsForAccount(st[a], thr, a) : a \in {b \in mon : st[b] # None}}

Init ==
    /\ store = [a \in Accounts |-> None]
    /\ thresholds \in Thresholds /\ saved = FALSE
    /\ monitored = Accounts /\ dismissed = {}
    /\ judged = [a \in Accounts |-> None]
    /\ page = [p \in Pages |-> "idle"] /\ report = [r \in Reports |-> None]
    /\ leaving = {} /\ steady = {}

\* What a report will have found in the end under these thresholds: it may have listed
\* snapshots that were replaced since.
Finds(r, thr, mon) ==
    report[r].found \cup Ids(AlertsOf(report[r].listed, thr, mon \cup (Accounts \ report[r].unasked)))
UpInReports(id, thr, mon) ==
    \A r \in Reports : report[r] # None => id \in Finds(r, thr, mon)

\* An alert that is no longer up, in the store or in a report, is no longer steady.
StillUp(st, thr, mon) ==
    {id \in steady : id \in Ids(AlertsOf(st, thr, mon)) /\ UpInReports(id, thr, mon)}

-----------------------------------------------------------------------------
(* Queries *)

\* queryCandidateContext has the answer of the adapter judged by the thresholds then in
\* force; pages may have saved others by the time it is stored.
Put(a) ==
    /\ \E f \in Figures, by \in Thresholds :
         /\ store' = [store EXCEPT ![a] = applyThresholds(Fresh(f), by, a)]
         /\ judged' = [judged EXCEPT ![a] = by]
    /\ steady' = StillUp(store', thresholds, monitored)
    /\ UNCHANGED <<thresholds, saved, monitored, dismissed, page, leaving, report>>

\* The query failed: the snapshot before is marked stale and kept with the error, and
\* with the base status it has.
errorSnapshot(a) ==
    IF store[a] # None
    THEN [store[a] EXCEPT !.stale = TRUE, !.status = "error", !.code = "REQUEST_FAILED"]
    ELSE [Fresh(Blank) EXCEPT !.status = "error", !.code = "REQUEST_FAILED"]

PutError(a) ==
    /\ store' = [store EXCEPT ![a] = errorSnapshot(a)]
    /\ steady' = StillUp(store', thresholds, monitored)
    /\ UNCHANGED <<thresholds, saved, monitored, dismissed, page, leaving, report, judged>>

-----------------------------------------------------------------------------
(* Pages *)

\* The config route commits thresholds...
SaveThresholds(p) ==
    /\ page[p] = "idle"
    /\ thresholds' \in Thresholds /\ saved' = TRUE
    /\ page' = [page EXCEPT ![p] = "reapply"]
    /\ steady' = StillUp(store, thresholds', monitored)
    /\ UNCHANGED <<store, monitored, dismissed, leaving, report, judged>>

\* ...and has every stored snapshot judged by those in force then.
ReapplyActive(p) ==
    /\ page[p] = "reapply"
    /\ store' = [a \in Accounts |->
                   IF store[a] = None THEN None ELSE applyThresholds(store[a], thresholds, a)]
    /\ judged' = [a \in Accounts |-> IF store[a] = None THEN judged[a] ELSE thresholds]
    /\ page' = [page EXCEPT ![p] = "idle"]
    /\ steady' = StillUp(store', thresholds, monitored)
    /\ UNCHANGED <<thresholds, saved, monitored, dismissed, leaving, report>>

\* The providers route saves the rule of an account, and has nothing judged anew.
SaveOwnRule(a) ==
    /\ \E t \in Thresholds :
         /\ t = [thresholds EXCEPT !.own[a] = t.own[a]] /\ t # thresholds
         /\ thresholds' = t /\ saved' = TRUE
    /\ steady' = StillUp(store, thresholds', monitored)
    /\ UNCHANGED <<store, monitored, dismissed, page, leaving, report, judged>>

\* The providers route takes an account into the report or out of it...
SetMonitored(a) ==
    /\ \/ monitored' = monitored \cup {a} /\ UNCHANGED leaving
       \/ /\ a \notin leaving  \* bound: one handler at a time switches an account off
          /\ monitored' = monitored \ {a} /\ leaving' = leaving \cup {a}
    /\ steady' = StillUp(store, thresholds, monitored')
    /\ UNCHANGED <<store, thresholds, saved, dismissed, page, report, judged>>

\* ...and after that commit out of the store.
removeActive(a) ==
    /\ a \in leaving /\ leaving' = leaving \ {a}
    /\ store' = [store EXCEPT ![a] = None] /\ judged' = [judged EXCEPT ![a] = None]
    /\ steady' = StillUp(store', thresholds, monitored)
    /\ UNCHANGED <<thresholds, saved, monitored, dismissed, page, report>>

\* The user dismisses an alert that is up.
Dismiss ==
    /\ Cardinality(dismissed) < MaxDismissed
    /\ \E id \in Ids(AlertsOf(store, thresholds, monitored)) :
         /\ id.type \in Dismissable
         /\ dismissed' = dismissed \cup {id}
         /\ steady' = IF UpInReports(id, thresholds, monitored)
                      THEN steady \cup {id} ELSE steady
    /\ UNCHANGED <<store, thresholds, saved, monitored, page, leaving, report, judged>>

-----------------------------------------------------------------------------
(* Reports *)

\* Of a snapshot that a report has listed everything but the base status, which alerts
\* do not look at.
Listed(s) == IF s = None THEN None ELSE [s EXCEPT !.base = None]

\* buildReport copies the snapshots of the store...
ListSnapshots(r) ==
    /\ report[r] = None
    /\ report' = [report EXCEPT ![r] =
         [listed |-> [a \in Accounts |-> Listed(store[a])], unasked |-> {a \in Accounts : store[a] # None}, found |-> {}]]
    /\ UNCHANGED <<store, thresholds, saved, monitored, dismissed, page, leaving, judged, steady>>

\* ...leaves out, one after the other, those of accounts that are not monitored...
AskMonitored(r, a) ==
    /\ report[r] # None /\ a \in report[r].unasked
    /\ report' = [report EXCEPT ![r] =
         [listed  |-> IF a \in monitored THEN report[r].listed
                      ELSE [report[r].listed EXCEPT ![a] = None],
          unasked |-> report[r].unasked \ {a},
          found   |-> report[r].found]]
    /\ UNCHANGED <<store, thresholds, saved, monitored, dismissed, page, leaving, judged, steady>>

\* ...and finds the alerts of each of the others by the thresholds in force then.
JudgeListed(r, a) ==
    /\ report[r] # None /\ report[r].unasked = {} /\ report[r].listed[a] # None
    /\ report' = [report EXCEPT ![r] =
         [listed  |-> [report[r].listed EXCEPT ![a] = None],
          unasked |-> {},
          found   |-> report[r].found \cup Ids(alertsForAccount(report[r].listed[a], thresholds, a))]]
    /\ UNCHANGED <<store, thresholds, saved, monitored, dismissed, page, leaving, judged, steady>>

\* Bug: the alerts are filtered first, and those left are taken for the active ones.
ReconcileFiltered(active, old) == old \cap (active \ old)

reconcileDismissedAlerts(active, old) == old \cap active

\* filterDismissedAlerts: dismissals of alerts that were not found are dropped, unless
\* the write fails; the others are then left out of the answer.
Reconcile(r) ==
    /\ report[r] # None /\ report[r].unasked = {}
    /\ \A a \in Accounts : report[r].listed[a] = None
    /\ dismissed' \in {dismissed, reconcileDismissedAlerts(report[r].found, dismissed)}
    /\ report' = [report EXCEPT ![r] = None]
    /\ UNCHANGED <<store, thresholds, saved, monitored, page, leaving, judged, steady>>

\* CPA starts or configures: snapshots come from the file, without their base status,
\* or not at all; thresholds that were not saved come from the configuration. Handlers
\* end with the process, and go on if it only configures.
Configure ==
    /\ store' \in {[a \in Accounts |-> IF store[a] = None THEN None
                                       ELSE [store[a] EXCEPT !.base = None]],
                   [a \in Accounts |-> None]}
    /\ judged' = [a \in Accounts |-> IF store'[a] = None THEN None ELSE judged[a]]
    /\ IF saved THEN thresholds' = thresholds ELSE thresholds' \in Thresholds
    /\ \/ /\ page' = [p \in Pages |-> "idle"] /\ report' = [r \in Reports |-> None]
          /\ leaving' = {} /\ steady' = steady \cap Ids(AlertsOf(store', thresholds', monitored))
       \/ /\ steady' = StillUp(store', thresholds', monitored)
          /\ UNCHANGED <<page, report, leaving>>
    /\ UNCHANGED <<saved, monitored, dismissed>>

Next ==
    \/ \E a \in Accounts : Put(a) \/ PutError(a) \/ SaveOwnRule(a) \/ SetMonitored(a) \/ removeActive(a)
    \/ \E p \in Pages : SaveThresholds(p) \/ ReapplyActive(p)
    \/ \E r \in Reports : ListSnapshots(r) \/ Reconcile(r)
    \/ \E r \in Reports, a \in Accounts : AskMonitored(r, a) \/ JudgeListed(r, a)
    \/ Dismiss \/ Configure

Spec == Init /\ [][Next]_vars

-----------------------------------------------------------------------------
(* Properties *)

TypeOK ==
    /\ store \in [Accounts -> Snapshots \cup {None}]
    /\ thresholds \in Thresholds /\ saved \in BOOLEAN
    /\ monitored \subseteq Accounts /\ leaving \subseteq Accounts
    /\ report = [r \in Reports |-> report[r]]
    /\ \A r \in Reports : report[r] # None =>
          /\ report[r].listed \in [Accounts -> Snapshots \cup {None}]
          /\ report[r].unasked \subseteq Accounts
    /\ page \in [Pages -> {"idle", "reapply"}]
    /\ judged \in [Accounts -> Thresholds \cup {None}]
    /\ \A a \in Accounts : store[a] # None /\ store[a].figures # Blank => judged[a] # None

\* The worst of what speaks against an account: the reference for its status.
Judgement(f, thr, a) ==
    IF f.verdict # None THEN f.verdict
    ELSE LET against == {<<f.over, "critical">>, <<\E n \in f.totals : n <= 0, "critical">>,
                         <<\E n \in f.others : n < 0, "critical">>,
                         <<f.fault # None \/ f.failing # {}, "warning">>}
                          \cup {<<TRUE, LevelOf(thr.percent, n)>> : n \in Shares(f)}
                          \cup {<<TRUE, LevelOf(IF thr.own[a] # None THEN thr.own[a] ELSE thr.currency, n)>> :
                                  n \in f.totals \cup f.others}
             levels == {x[2] : x \in {y \in against : y[1]}}
         IN IF "critical" \in levels THEN "critical"
            ELSE IF "warning" \in levels THEN "warning" ELSE "ok"

\* RELEASE_NOTES_0.5.1: saving thresholds judges the cached data anew, so an account
\* recovers by it, and keeps what has nothing to do with thresholds; it makes no
\* difference what judged the account before, or that CPA was restarted since. (Of
\* an account whose last query failed, see ErrorsKept.)
SaveSettles ==
    [][(\E p \in Pages : ReapplyActive(p)) =>
         \A a \in Accounts :
             \/ store[a] = None \/ store'[a] = None
             \/ store[a].code = "REQUEST_FAILED"
             \/ store'[a].status = Judgement(store[a].figures, thresholds, a)]_vars

\* No alert is more severe than the status of the report it stands in, for an account
\* that was judged by the thresholds in force: status and alerts, which two functions
\* derive from the figures, agree.
LevelsAgree ==
    \A a \in Accounts : store[a] # None /\ judged[a] = thresholds =>
        \A x \in alertsForAccount(store[a], thresholds, a) :
            Rank(x.level) <= Rank(effective(store[a]))

\* USER_GUIDE: what needs attention is listed. An account with quotas that is not well
\* has an alert that says so, also between a save and its judgement, when the figures
\* are no longer low.
TroubleTold ==
    \A a \in Accounts : store[a] # None /\ store[a].figures.kind # "balance" =>
        store[a].status \in {"ok", "unknown"} \/ alertsForAccount(store[a], thresholds, a) # {}

\* README: a dismissed alert stays hidden while it persists. The code keeps the dismissal
\* as long as the alert is up, under the thresholds in force, both in the store and in
\* what the reports under way have listed of it; a report whose listing does not show
\* the alert, or no longer does by thresholds saved since, may drop it.
StaysHidden == steady \subseteq dismissed

\* RELEASE_NOTES_0.5.1: judging anew never clears a real failure: an account whose last
\* query failed is in error until one succeeds.
ErrorsKept ==
    \A a \in Accounts : store[a] # None /\ store[a].code = "REQUEST_FAILED" =>
        store[a].status = "error"
=============================================================================
