---------------------------- MODULE AlertsProofs ----------------------------
(***************************************************************************)
(* Proofs about Alerts for any accounts, figures, thresholds, pages and    *)
(* reports: type correctness, that what was dismissed stays hidden, that   *)
(* statuses and alerts agree, and what judging anew comes to.              *)
(***************************************************************************)
EXTENDS Alerts, TLAPS

-----------------------------------------------------------------------------
(* Types *)

LEMMA MaxType ==
    ASSUME NEW current \in Statuses, NEW candidate \in Statuses
    PROVE  maxStatus(current, candidate) \in Statuses
BY DEF maxStatus

LEMMA LevelType ==
    ASSUME NEW rule, NEW n
    PROVE  LevelOf(rule, n) \in Statuses
BY DEF LevelOf, Statuses

LEMMA CashType ==
    ASSUME NEW f, NEW thr, NEW a
    PROVE  cashThresholdStatus(f, thr, a) \in Statuses
BY DEF cashThresholdStatus, Statuses

LEMMA InferType ==
    ASSUME NEW s
    PROVE  inferSnapshotBaseStatus(s) \in Statuses
BY DEF inferSnapshotBaseStatus, Statuses

\* A snapshot that is judged stays a snapshot of the same figures.
LEMMA ApplyType ==
    ASSUME NEW s \in Snapshots, NEW thr, NEW a
    PROVE  /\ applyThresholds(s, thr, a) \in Snapshots
           /\ applyThresholds(s, thr, a).figures = s.figures
<1>1. CASE s.figures.kind = "unsupported"
  BY <1>1 DEF applyThresholds
<1>2. CASE s.figures.kind # "unsupported"
  <2> DEFINE f == s.figures
             base == IF s.base = None THEN inferSnapshotBaseStatus(s) ELSE s.base
             cash == maxStatus(base, cashThresholdStatus(f, thr, a))
             status == IF base \in {"error", "unknown", "disabled"} THEN base
                       ELSE IF f.over THEN maxStatus(cash, "critical")
                       ELSE IF Shares(f) = {} THEN cash
                       ELSE maxStatus(cash, LevelOf(thr.percent, Least(Shares(f))))
  <2>1. base \in Statuses
    BY InferType DEF Snapshots, Snapshot
  <2>2. cash \in Statuses
    BY <2>1, CashType, MaxType
  <2>3. "critical" \in Statuses
    BY DEF Statuses
  <2>4. status \in Statuses
    <3> HIDE DEF base, cash
    <3> QED
      BY <2>1, <2>2, <2>3, LevelType, MaxType
  <2>5. applyThresholds(s, thr, a) = [s EXCEPT !.base = base, !.status = status]
    BY <1>2 DEF applyThresholds
  <2> HIDE DEF base, status
  <2> QED
    BY <2>1, <2>4, <2>5 DEF Snapshots, Snapshot
<1> QED
  BY <1>1, <1>2

LEMMA FreshType ==
    ASSUME NEW f \in Figures \cup {Blank}
    PROVE  Fresh(f) \in Snapshots /\ Fresh(f).figures = f
BY FiguresAssumption DEF Fresh, Snapshots, Snapshot, Codes, Statuses

LEMMA ErrorType ==
    ASSUME TypeOK, NEW a \in Accounts
    PROVE  /\ errorSnapshot(a) \in Snapshots
           /\ errorSnapshot(a).figures = IF store[a] # None THEN store[a].figures ELSE Blank
<1>1. "error" \in Statuses /\ "REQUEST_FAILED" \in Codes(Figures \cup {Blank})
  BY DEF Statuses, Codes
<1>2. CASE store[a] # None
  BY <1>1, <1>2 DEF errorSnapshot, TypeOK, Snapshots, Snapshot
<1>3. CASE store[a] = None
  <2> DEFINE blank == Fresh(Blank)
  <2>1. blank \in Snapshots /\ blank.figures = Blank
    BY FreshType
  <2>2. errorSnapshot(a) = [blank EXCEPT !.status = "error", !.code = "REQUEST_FAILED"]
    BY <1>3 DEF errorSnapshot
  <2> HIDE DEF blank
  <2> QED
    BY <1>1, <1>3, <2>1, <2>2 DEF Snapshots, Snapshot
<1> QED
  BY <1>2, <1>3

LEMMA InitType == Init => TypeOK
BY DEF Init, TypeOK

LEMMA NextType == TypeOK /\ [Next]_vars => TypeOK'
<1> SUFFICES ASSUME TypeOK, [Next]_vars PROVE TypeOK'
  OBVIOUS
<1>1. ASSUME NEW a \in Accounts, Put(a) PROVE TypeOK'
  <2>1. PICK f \in Figures, by \in Thresholds :
          /\ store' = [store EXCEPT ![a] = applyThresholds(Fresh(f), by, a)]
          /\ judged' = [judged EXCEPT ![a] = by]
    BY <1>1 DEF Put
  <2>2. applyThresholds(Fresh(f), by, a) \in Snapshots
    BY FreshType, ApplyType
  <2> QED
    BY <1>1, <2>1, <2>2, ThresholdsAssumption DEF Put, TypeOK
<1>2. ASSUME NEW a \in Accounts, PutError(a) PROVE TypeOK'
  BY <1>2, ErrorType DEF PutError, TypeOK
<1>3. ASSUME NEW a \in Accounts, SaveOwnRule(a) PROVE TypeOK'
  BY <1>3 DEF SaveOwnRule, TypeOK
<1>4. ASSUME NEW a \in Accounts, SetMonitored(a) PROVE TypeOK'
  BY <1>4 DEF SetMonitored, TypeOK
<1>5. ASSUME NEW p \in Pages, SaveThresholds(p) PROVE TypeOK'
  BY <1>5 DEF SaveThresholds, TypeOK
<1>6. ASSUME NEW p \in Pages, ReapplyActive(p) PROVE TypeOK'
  <2>1. \A a \in Accounts : store[a] # None =>
            /\ applyThresholds(store[a], thresholds, a) \in Snapshots
            /\ applyThresholds(store[a], thresholds, a).figures = store[a].figures
    BY ApplyType DEF TypeOK
  <2> QED
    BY <1>6, <2>1, ThresholdsAssumption DEF ReapplyActive, TypeOK
<1>7. ASSUME NEW r \in Reports, ListSnapshots(r) \/ Reconcile(r) PROVE TypeOK'
  <2>1. [a \in Accounts |-> Listed(store[a])] \in [Accounts -> Snapshots \cup {None}]
    BY DEF TypeOK, Listed, Snapshots, Snapshot
  <2>2. {a \in Accounts : store[a] # None} \subseteq Accounts
    OBVIOUS
  <2> QED
    BY <1>7, <2>1, <2>2 DEF ListSnapshots, Reconcile, TypeOK
<1>8. ASSUME NEW r \in Reports, NEW a \in Accounts, AskMonitored(r, a) \/ JudgeListed(r, a)
      PROVE  TypeOK'
  <2>1. /\ report[r].listed \in [Accounts -> Snapshots \cup {None}]
        /\ [report[r].listed EXCEPT ![a] = None] \in [Accounts -> Snapshots \cup {None}]
        /\ report[r].unasked \subseteq Accounts
    BY <1>8 DEF AskMonitored, JudgeListed, TypeOK
  <2> QED
    BY <1>8, <2>1 DEF AskMonitored, JudgeListed, TypeOK
<1>9. ASSUME NEW a \in Accounts, removeActive(a) PROVE TypeOK'
  BY <1>9 DEF removeActive, TypeOK
<1>10. CASE Dismiss
  BY <1>10 DEF Dismiss, TypeOK
<1>11. CASE Configure
  <2>1. \A a \in Accounts : store[a] # None =>
            /\ [store[a] EXCEPT !.base = None] \in Snapshots
            /\ [store[a] EXCEPT !.base = None].figures = store[a].figures
    BY DEF TypeOK, Snapshots, Snapshot
  <2>2. /\ store' \in [Accounts -> Snapshots \cup {None}]
        /\ \A a \in Accounts : store'[a] # None =>
              store[a] # None /\ store'[a].figures = store[a].figures
    BY <1>11, <2>1 DEF Configure
  <2> QED
    BY <1>11, <2>2 DEF Configure, TypeOK
<1>12. CASE UNCHANGED vars
  BY <1>12 DEF vars, TypeOK
<1> QED
  BY <1>1, <1>2, <1>3, <1>4, <1>5, <1>6, <1>7, <1>8, <1>9, <1>10, <1>11, <1>12 DEF Next

-----------------------------------------------------------------------------
(* Dismissals *)

\* The inductive invariant: a steady alert is up, dismissed, and will be found by every
\* report under way.
HiddenInv ==
    /\ StaysHidden
    /\ \A id \in steady : /\ id \in Ids(AlertsOf(store, thresholds, monitored))
                         /\ UpInReports(id, thresholds, monitored)

LEMMA InitHidden == Init => HiddenInv
BY DEF Init, HiddenInv, StaysHidden

\* A step that may take alerts away, and touches no dismissal and no report.
LEMMA FewerUp ==
    ASSUME HiddenInv, steady' = StillUp(store', thresholds', monitored'),
           UNCHANGED <<dismissed, report>>
    PROVE  HiddenInv'
<1>1. \A id : UpInReports(id, thresholds, monitored)' = UpInReports(id, thresholds', monitored')
  BY DEF UpInReports, Finds, AlertsOf, Ids
<1>2. Ids(AlertsOf(store, thresholds, monitored))' = Ids(AlertsOf(store', thresholds', monitored'))
  BY DEF AlertsOf, Ids
<1> QED
  BY <1>1, <1>2 DEF HiddenInv, StaysHidden, StillUp

LEMMA IdsOf ==
    ASSUME NEW st, NEW thr, NEW mon, NEW id
    PROVE  id \in Ids(AlertsOf(st, thr, mon)) <=>
               \E a \in mon : st[a] # None /\ id \in Ids(alertsForAccount(st[a], thr, a))
BY DEF Ids, AlertsOf

\* A report lists all that alerts look at.
LEMMA ListedAlerts ==
    ASSUME NEW s \in Snapshots, NEW thr, NEW a
    PROVE  /\ Listed(s) # None
           /\ alertsForAccount(Listed(s), thr, a) = alertsForAccount(s, thr, a)
<1>1. s # None /\ Listed(s) = [s EXCEPT !.base = None]
  BY NoneAssumption DEF Listed
<1>2. Listed(s) \in Snapshots
  BY <1>1 DEF Snapshots, Snapshot
<1>3. /\ Listed(s).figures = s.figures /\ Listed(s).status = s.status
      /\ Listed(s).code = s.code /\ Listed(s).stale = s.stale
  BY <1>1 DEF Snapshots, Snapshot
<1> QED
  BY <1>2, <1>3, NoneAssumption DEF alertsForAccount, LowAlerts

\* A step of one report after which it will still find what is steady.
LEMMA OneReport ==
    ASSUME TypeOK, HiddenInv, NEW r \in Reports, NEW after,
           report' = [report EXCEPT ![r] = after],
           UNCHANGED <<store, thresholds, monitored, dismissed, steady>>,
           \A id \in steady :
               id \in after.found \cup
                       Ids(AlertsOf(after.listed, thresholds, monitored \cup (Accounts \ after.unasked)))
    PROVE  HiddenInv'
<1>1. report'[r] = after /\ \A q \in Reports : q # r => report'[q] = report[q]
  BY DEF TypeOK
<1>2. \A id : UpInReports(id, thresholds, monitored)' <=>
        \A q \in Reports : report'[q] # None =>
            id \in report'[q].found \cup
                    Ids(AlertsOf(report'[q].listed, thresholds, monitored \cup (Accounts \ report'[q].unasked)))
  BY DEF UpInReports, Finds, AlertsOf, Ids
<1>3. \A id \in steady : UpInReports(id, thresholds, monitored)'
  BY <1>1, <1>2 DEF HiddenInv, UpInReports, Finds
<1>4. Ids(AlertsOf(store, thresholds, monitored))' = Ids(AlertsOf(store, thresholds, monitored))
  BY DEF AlertsOf, Ids
<1> QED
  BY <1>3, <1>4 DEF HiddenInv, StaysHidden

LEMMA NextHidden == TypeOK /\ HiddenInv /\ [Next]_vars => HiddenInv'
<1> SUFFICES ASSUME TypeOK, HiddenInv, [Next]_vars PROVE HiddenInv'
  OBVIOUS
<1>1. ASSUME NEW a \in Accounts,
             Put(a) \/ PutError(a) \/ SaveOwnRule(a) \/ SetMonitored(a) \/ removeActive(a)
      PROVE  HiddenInv'
  BY <1>1, FewerUp DEF Put, PutError, SaveOwnRule, SetMonitored, removeActive
<1>2. ASSUME NEW p \in Pages, SaveThresholds(p) \/ ReapplyActive(p) PROVE HiddenInv'
  BY <1>2, FewerUp DEF SaveThresholds, ReapplyActive
<1>3. ASSUME NEW r \in Reports, ListSnapshots(r) PROVE HiddenInv'
  <2> DEFINE snaps == [a \in Accounts |-> Listed(store[a])]
             left == {a \in Accounts : store[a] # None}
             after == [listed |-> snaps, unasked |-> left, found |-> {}]
  <2>1. ASSUME NEW id \in steady
        PROVE  id \in Ids(AlertsOf(snaps, thresholds, monitored \cup (Accounts \ left)))
    <3>1. PICK a \in monitored : store[a] # None /\ id \in Ids(alertsForAccount(store[a], thresholds, a))
      BY IdsOf DEF HiddenInv
    <3>2. a \in Accounts /\ store[a] \in Snapshots /\ snaps[a] = Listed(store[a])
      BY <3>1 DEF TypeOK
    <3>3. snaps[a] # None /\ id \in Ids(alertsForAccount(snaps[a], thresholds, a))
      BY <3>1, <3>2, ListedAlerts
    <3> HIDE DEF snaps, left
    <3> QED
      BY <3>3, IdsOf
  <2>2. /\ report' = [report EXCEPT ![r] = after]
        /\ UNCHANGED <<store, thresholds, monitored, dismissed, steady>>
    BY <1>3 DEF ListSnapshots
  <2>3. after.listed = snaps /\ after.unasked = left
    OBVIOUS
  <2> HIDE DEF snaps, left, after
  <2> QED
    BY <2>1, <2>2, <2>3, OneReport
<1>4. ASSUME NEW r \in Reports, NEW a \in Accounts, AskMonitored(r, a) PROVE HiddenInv'
  <2> DEFINE snaps == IF a \in monitored THEN report[r].listed
                      ELSE [report[r].listed EXCEPT ![a] = None]
             left == report[r].unasked \ {a}
             after == [listed |-> snaps, unasked |-> left, found |-> report[r].found]
  <2>1. ASSUME NEW id \in steady, id \notin report[r].found
        PROVE  id \in Ids(AlertsOf(snaps, thresholds, monitored \cup (Accounts \ left)))
    <3>1. id \in Ids(AlertsOf(report[r].listed, thresholds, monitored \cup (Accounts \ report[r].unasked)))
      BY <1>4, <2>1 DEF AskMonitored, HiddenInv, UpInReports, Finds
    <3>2. PICK b \in monitored \cup (Accounts \ report[r].unasked) :
            /\ report[r].listed[b] # None
            /\ id \in Ids(alertsForAccount(report[r].listed[b], thresholds, b))
      BY <3>1, IdsOf
    <3>3. b \in Accounts /\ (b = a => a \in monitored) /\ b \in monitored \cup (Accounts \ left)
      BY <1>4, <3>2 DEF AskMonitored, TypeOK
    <3>4. snaps[b] = report[r].listed[b]
      BY <1>4, <3>3 DEF AskMonitored, TypeOK
    <3> HIDE DEF snaps, left
    <3> QED
      BY <3>2, <3>3, <3>4, IdsOf
  <2>2. /\ report' = [report EXCEPT ![r] = after]
        /\ UNCHANGED <<store, thresholds, monitored, dismissed, steady>>
    BY <1>4 DEF AskMonitored
  <2>3. after.listed = snaps /\ after.unasked = left /\ after.found = report[r].found
    OBVIOUS
  <2> HIDE DEF snaps, left, after
  <2> QED
    BY <2>1, <2>2, <2>3, OneReport
<1>5. ASSUME NEW r \in Reports, NEW a \in Accounts, JudgeListed(r, a) PROVE HiddenInv'
  <2> DEFINE snaps == [report[r].listed EXCEPT ![a] = None]
             more == report[r].found \cup Ids(alertsForAccount(report[r].listed[a], thresholds, a))
             after == [listed |-> snaps, unasked |-> {}, found |-> more]
  <2>1. ASSUME NEW id \in steady, id \notin more
        PROVE  id \in Ids(AlertsOf(snaps, thresholds, monitored \cup (Accounts \ {})))
    <3>1. id \in Ids(AlertsOf(report[r].listed, thresholds, monitored \cup (Accounts \ report[r].unasked)))
      BY <1>5, <2>1 DEF JudgeListed, HiddenInv, UpInReports, Finds
    <3>2. PICK b \in monitored \cup (Accounts \ report[r].unasked) :
            /\ report[r].listed[b] # None
            /\ id \in Ids(alertsForAccount(report[r].listed[b], thresholds, b))
      BY <3>1, IdsOf
    <3>3. b \in monitored \cup (Accounts \ {}) /\ b # a /\ b \in Accounts
      BY <2>1, <3>2 DEF TypeOK
    <3>4. snaps[b] = report[r].listed[b]
      BY <1>5, <3>3 DEF JudgeListed, TypeOK
    <3> HIDE DEF snaps
    <3> QED
      BY <3>2, <3>3, <3>4, IdsOf
  <2>2. /\ report' = [report EXCEPT ![r] = after]
        /\ UNCHANGED <<store, thresholds, monitored, dismissed, steady>>
    BY <1>5 DEF JudgeListed
  <2>3. after.listed = snaps /\ after.unasked = {} /\ after.found = more
    OBVIOUS
  <2> HIDE DEF snaps, more, after
  <2> QED
    BY <2>1, <2>2, <2>3, OneReport
<1>6. CASE UNCHANGED <<store, thresholds, monitored>> /\ ~ Configure
  <2>1. Ids(AlertsOf(store, thresholds, monitored))' = Ids(AlertsOf(store, thresholds, monitored))
    BY <1>6 DEF AlertsOf, Ids
  <2>2. report' = report =>
          \A id : UpInReports(id, thresholds, monitored)' = UpInReports(id, thresholds, monitored)
    BY <1>6 DEF UpInReports, Finds, AlertsOf, Ids
  <2>3. ASSUME NEW r \in Reports, Reconcile(r) PROVE HiddenInv'
    <3>1. steady \subseteq report[r].found
      <4>1. ASSUME NEW id \in steady PROVE id \in report[r].found
        <5>1. id \in report[r].found \cup Ids(AlertsOf(report[r].listed, thresholds, monitored \cup Accounts))
          BY <2>3 DEF Reconcile, HiddenInv, UpInReports, Finds
        <5>2. \A b \in monitored \cup Accounts : report[r].listed[b] = None
          BY <2>3 DEF Reconcile, TypeOK
        <5> QED
          BY <5>1, <5>2, IdsOf
      <4> QED
        BY <4>1
    <3>2. StaysHidden' /\ steady' = steady
      BY <2>3, <3>1 DEF Reconcile, reconcileDismissedAlerts, HiddenInv, StaysHidden
    <3>3. report'[r] = None /\ \A q \in Reports : q # r => report'[q] = report[q]
      BY <2>3 DEF Reconcile, TypeOK
    <3>4. \A id : UpInReports(id, thresholds, monitored) => UpInReports(id, thresholds, monitored)'
      <4>1. \A id : UpInReports(id, thresholds, monitored)' <=>
              \A q \in Reports : report'[q] # None =>
                  id \in report'[q].found \cup
                    Ids(AlertsOf(report'[q].listed, thresholds, monitored \cup (Accounts \ report'[q].unasked)))
        BY <1>6 DEF UpInReports, Finds, AlertsOf, Ids
      <4> QED
        BY <3>3, <4>1 DEF UpInReports, Finds
    <3> QED
      BY <2>1, <3>2, <3>4 DEF HiddenInv
  <2>4. CASE Dismiss
    <3>1. PICK id \in Ids(AlertsOf(store, thresholds, monitored)) :
            /\ dismissed' = dismissed \cup {id}
            /\ steady' = IF UpInReports(id, thresholds, monitored)
                         THEN steady \cup {id} ELSE steady
      BY <2>4 DEF Dismiss
    <3>2. report' = report
      BY <2>4 DEF Dismiss
    <3> QED
      BY <2>1, <2>2, <3>1, <3>2 DEF HiddenInv, StaysHidden
  <2>5. CASE UNCHANGED vars
    BY <2>1, <2>2, <2>5 DEF vars, HiddenInv, StaysHidden
  <2> QED
    BY <1>1, <1>2, <1>3, <1>4, <1>5, <1>6, <2>3, <2>4, <2>5 DEF Next
<1>7. CASE Configure
  <2>1. Ids(AlertsOf(store, thresholds, monitored))' = Ids(AlertsOf(store', thresholds', monitored))
    BY <1>7 DEF Configure, AlertsOf, Ids
  <2>2. CASE UNCHANGED report /\ steady' = StillUp(store', thresholds', monitored)
    BY <1>7, <2>2, FewerUp DEF Configure
  <2>3. CASE /\ report' = [r \in Reports |-> None]
             /\ steady' = steady \cap Ids(AlertsOf(store', thresholds', monitored))
    <3>1. \A id : UpInReports(id, thresholds, monitored)'
      BY <2>3 DEF UpInReports
    <3>2. dismissed' = dismissed
      BY <1>7 DEF Configure
    <3> QED
      BY <2>1, <2>3, <3>1, <3>2 DEF HiddenInv, StaysHidden
  <2> QED
    BY <1>7, <2>2, <2>3 DEF Configure
<1> QED
  BY <1>1, <1>2, <1>3, <1>4, <1>5, <1>6, <1>7 DEF Next, Reconcile, Dismiss, vars

-----------------------------------------------------------------------------
(* Status and alerts. The inductive invariant: a base status and a status  *)
(* account for sections that fail and for errors, and a status that is low *)
(* is as severe as every level under the thresholds it was judged by.      *)

Honest(s) ==
    /\ s.figures.failing # {} => s.base \notin {"ok", "unknown"} /\ s.status # "unknown"
    /\ {s.status, s.base} \cap {"error", "disabled"} # {} => s.code # None
    /\ s.figures.kind = "unsupported" => s.status \notin {"warning", "critical"}

Covered(f, status, thr, a) ==
    /\ Rank(cashThresholdStatus(f, thr, a)) <= Rank(status)
    /\ \A w \in DOMAIN f.windows : Rank(LevelOf(thr.percent, f.windows[w])) <= Rank(status)

Agreed(s, thr, a) ==
    /\ s.figures.failing # {} => s.status # "ok"
    /\ s.figures.kind # "unsupported" /\ s.status \in {"warning", "critical"} =>
           Covered(s.figures, s.status, thr, a)

JudgedInv == \A a \in Accounts : store[a] # None =>
                 Honest(store[a]) /\ Agreed(store[a], judged[a], a)

LEMMA Ranks ==
    /\ Rank("error") = 6 /\ Rank("critical") = 5 /\ Rank("warning") = 4
    /\ Rank("unknown") = 3 /\ Rank("disabled") = 2 /\ Rank("ok") = 1
    /\ \A s \in Statuses : Rank(s) \in 1..6
<1>1. /\ Rank("error") = 6 /\ Rank("critical") = 5 /\ Rank("warning") = 4
      /\ Rank("unknown") = 3 /\ Rank("disabled") = 2 /\ Rank("ok") = 1
  BY DEF Rank
<1> QED
  BY <1>1 DEF Statuses

LEMMA MaxGreater ==
    ASSUME NEW current \in Statuses, NEW candidate \in Statuses
    PROVE  LET m == maxStatus(current, candidate)
           IN  /\ Rank(current) <= Rank(m) /\ Rank(candidate) <= Rank(m)
               /\ m \in {current, candidate}
<1>1. Rank(current) \in Int /\ Rank(candidate) \in Int
  BY Ranks
<1> QED
  BY <1>1 DEF maxStatus

LEMMA LevelValues ==
    \A rule, n : LevelOf(rule, n) \in {"ok", "warning", "critical"}
BY DEF LevelOf

LEMMA CashValues ==
    \A f, thr, a : cashThresholdStatus(f, thr, a) \in {"ok", "warning", "critical"}
BY DEF cashThresholdStatus

\* The less is left, the more severe the level.
LEMMA LevelMonotone ==
    ASSUME NEW rule \in Rules(9), NEW m \in Int, NEW n \in Int, m <= n
    PROVE  Rank(LevelOf(rule, n)) <= Rank(LevelOf(rule, m))
<1>1. rule.critical \in Int /\ rule.warning \in Int /\ rule.critical <= rule.warning
  BY DEF Rules
<1> QED
  BY <1>1, Ranks DEF LevelOf

LEMMA LeastShare ==
    ASSUME NEW f \in Figures, NEW n \in Shares(f)
    PROVE  Least(Shares(f)) \in Int /\ n \in Int /\ Least(Shares(f)) <= n
<1>1. Shares(f) \subseteq Int /\ \E m \in Shares(f) : \A k \in Shares(f) : m <= k
  BY FiguresAssumption
<1>2. Least(Shares(f)) \in Shares(f) /\ \A k \in Shares(f) : Least(Shares(f)) <= k
  BY <1>1 DEF Least
<1> QED
  BY <1>1, <1>2

LEMMA InferHonest ==
    ASSUME NEW s \in Snapshots, Honest(s)
    PROVE  LET base == inferSnapshotBaseStatus(s)
           IN  /\ s.figures.failing # {} => base \notin {"ok", "unknown"}
               /\ base \in {"error", "disabled"} => s.code # None
BY DEF inferSnapshotBaseStatus, Honest

\* Judging makes the status agree with the thresholds it is judged by.
LEMMA ApplyAgrees ==
    ASSUME NEW s \in Snapshots, Honest(s), NEW thr \in Thresholds, NEW a
    PROVE  Honest(applyThresholds(s, thr, a)) /\ Agreed(applyThresholds(s, thr, a), thr, a)
<1> DEFINE f == s.figures
           base == IF s.base = None THEN inferSnapshotBaseStatus(s) ELSE s.base
           cash == maxStatus(base, cashThresholdStatus(f, thr, a))
           status == IF base \in {"error", "unknown", "disabled"} THEN base
                     ELSE IF f.over THEN maxStatus(cash, "critical")
                     ELSE IF Shares(f) = {} THEN cash
                     ELSE maxStatus(cash, LevelOf(thr.percent, Least(Shares(f))))
<1>1. CASE f.kind = "unsupported"
  <2>1. applyThresholds(s, thr, a) = s /\ f.failing = {}
    BY <1>1, FiguresAssumption DEF applyThresholds, Snapshots, Snapshot
  <2> QED
    BY <1>1, <2>1 DEF Agreed
<1>2. CASE f.kind # "unsupported"
  <2>1. /\ base \in Statuses
        /\ f.failing # {} => base \notin {"ok", "unknown"}
        /\ base \in {"error", "disabled"} => s.code # None
    BY InferType, InferHonest DEF Snapshots, Snapshot, Honest
  <2>2. /\ cash \in Statuses /\ Rank(base) <= Rank(cash)
        /\ Rank(cashThresholdStatus(f, thr, a)) <= Rank(cash)
    BY <2>1, CashType, MaxType, MaxGreater
  <2>3. f \in Figures
    BY <1>2, FiguresAssumption DEF Snapshots, Snapshot
  <2>4. base \notin {"error", "unknown", "disabled"} =>
            status \in Statuses /\ Rank(cash) <= Rank(status)
    <3> HIDE DEF base, cash
    <3>1. "critical" \in Statuses
      BY DEF Statuses
    <3>2. Rank(cash) <= Rank(cash)
      BY <2>2, Ranks
    <3> QED
      BY <2>2, <3>1, <3>2, LevelType, MaxType, MaxGreater
  <2>5. ASSUME base \notin {"error", "unknown", "disabled"}, NEW w \in DOMAIN f.windows
        PROVE  Rank(LevelOf(thr.percent, f.windows[w])) <= Rank(status)
    <3> HIDE DEF base, cash
    <3>1. f.windows[w] \in Shares(f)
      BY DEF Shares, Range
    <3>2. CASE f.over
      <4>1. Rank("critical") <= Rank(status)
        BY <2>2, <2>5, <3>2, MaxGreater DEF Statuses
      <4>2. Rank(LevelOf(thr.percent, f.windows[w])) <= 5
        BY Ranks, LevelValues
      <4>3. Rank(status) \in Int
        BY <2>4, <2>5, Ranks
      <4> HIDE DEF status
      <4> QED
        BY <4>1, <4>2, <4>3, Ranks, LevelType
    <3>3. CASE ~f.over
      <4> DEFINE least == LevelOf(thr.percent, Least(Shares(f)))
      <4>1. Rank(LevelOf(thr.percent, f.windows[w])) <= Rank(least)
        BY <2>3, <3>1, LeastShare, LevelMonotone, ThresholdsAssumption
      <4>2. status = maxStatus(cash, least)
        BY <2>5, <3>1, <3>3
      <4>3. least \in Statuses /\ LevelOf(thr.percent, f.windows[w]) \in Statuses
        BY LevelType
      <4> HIDE DEF status, least
      <4>4. Rank(least) <= Rank(status) /\ status \in Statuses
        BY <2>2, <4>2, <4>3, MaxGreater, MaxType
      <4> QED
        BY <4>1, <4>3, <4>4, Ranks
    <3> QED
      BY <3>2, <3>3
  <2>6. applyThresholds(s, thr, a) = [s EXCEPT !.base = base, !.status = status]
    BY <1>2 DEF applyThresholds
  <2> DEFINE d == applyThresholds(s, thr, a)
  <2>7. /\ d.base = base /\ d.status = status /\ d.code = s.code /\ d.figures = f
    <3> HIDE DEF base, status
    <3> QED
      BY <2>6 DEF Snapshots, Snapshot
  <2>8. status \in {"error", "disabled"} \/ status = "unknown" => base = status
    <3>1. CASE base \in {"error", "unknown", "disabled"}
      BY <3>1
    <3>2. CASE base \notin {"error", "unknown", "disabled"}
      <4> HIDE DEF base
      <4>1. base \in {"ok", "warning", "critical"}
        BY <2>1, <3>2 DEF Statuses
      <4>2. cash \in {"ok", "warning", "critical"}
        BY <4>1, CashValues, CashType, <2>1, MaxGreater
      <4> HIDE DEF cash
      <4>3. status \in {"ok", "warning", "critical"}
        BY <2>2, <3>2, <4>2, LevelValues, LevelType, MaxGreater DEF Statuses
      <4> QED
        BY <4>3
    <3> QED
      BY <3>1, <3>2
  <2>9. f.failing # {} => status # "ok"
    <3>1. CASE base \in {"error", "unknown", "disabled"}
      BY <2>1, <3>1
    <3>2. CASE base \notin {"error", "unknown", "disabled"}
      <4> HIDE DEF base, cash, status
      <4>1. f.failing # {} => Rank(base) \in {4, 5}
        BY <2>1, <3>2, Ranks DEF Statuses
      <4>2. Rank(base) \in Int /\ Rank(cash) \in Int /\ Rank(status) \in Int
        BY <2>1, <2>2, <2>4, <3>2, Ranks
      <4> QED
        BY <2>2, <2>4, <3>2, <4>1, <4>2, Ranks
    <3> QED
      BY <3>1, <3>2
  <2>10. status \in {"warning", "critical"} => Covered(f, status, thr, a)
    <3> SUFFICES ASSUME status \in {"warning", "critical"} PROVE Covered(f, status, thr, a)
      OBVIOUS
    <3>1. base \notin {"error", "unknown", "disabled"}
      OBVIOUS
    <3>2. Rank(cashThresholdStatus(f, thr, a)) <= Rank(status)
      <4>1. cashThresholdStatus(f, thr, a) \in Statuses
        BY CashType
      <4> HIDE DEF base, cash, status
      <4> QED
        BY <2>2, <2>4, <3>1, <4>1, Ranks
    <3> QED
      BY <2>5, <3>1, <3>2 DEF Covered
  <2> HIDE DEF base, status, f, d
  <2>11. Honest(d)
    BY <1>2, <2>1, <2>7, <2>8 DEF Honest
  <2>12. Agreed(d, thr, a)
    BY <2>7, <2>9, <2>10 DEF Agreed
  <2> QED
    BY <2>11, <2>12 DEF d
<1> QED
  BY <1>1, <1>2

LEMMA FreshHonest ==
    ASSUME NEW f \in Figures
    PROVE  Honest(Fresh(f))
BY FiguresAssumption, NoneAssumption DEF Fresh, Honest, Statuses

LEMMA InitJudged == Init => JudgedInv
BY DEF Init, JudgedInv

LEMMA NextJudged == TypeOK /\ JudgedInv /\ [Next]_vars => JudgedInv'
<1> SUFFICES ASSUME TypeOK, JudgedInv, [Next]_vars PROVE JudgedInv'
  OBVIOUS
<1>1. ASSUME NEW a \in Accounts, Put(a) PROVE JudgedInv'
  <2>1. PICK f \in Figures, by \in Thresholds :
          /\ store' = [store EXCEPT ![a] = applyThresholds(Fresh(f), by, a)]
          /\ judged' = [judged EXCEPT ![a] = by]
    BY <1>1 DEF Put
  <2>2. /\ Honest(applyThresholds(Fresh(f), by, a))
        /\ Agreed(applyThresholds(Fresh(f), by, a), by, a)
    BY FreshType, FreshHonest, ApplyAgrees
  <2>3. /\ store'[a] = applyThresholds(Fresh(f), by, a) /\ judged'[a] = by
        /\ \A b \in Accounts : b # a => store'[b] = store[b] /\ judged'[b] = judged[b]
    BY <2>1 DEF TypeOK
  <2> QED
    BY <2>2, <2>3 DEF JudgedInv
<1>2. ASSUME NEW a \in Accounts, PutError(a) PROVE JudgedInv'
  <2>1. /\ errorSnapshot(a).status = "error" /\ errorSnapshot(a).code # None
        /\ errorSnapshot(a).figures.failing # {} =>
              errorSnapshot(a).base \notin {"ok", "unknown"}
    <3>1. CASE store[a] # None
      BY <3>1, NoneAssumption DEF errorSnapshot, JudgedInv, Honest, TypeOK, Snapshots, Snapshot
    <3>2. CASE store[a] = None
      BY <3>2, NoneAssumption, FiguresAssumption DEF errorSnapshot, Fresh
    <3> QED
      BY <3>1, <3>2
  <2>2. Honest(errorSnapshot(a)) /\ Agreed(errorSnapshot(a), judged[a], a)
    BY <2>1 DEF Honest, Agreed
  <2>3. /\ store'[a] = errorSnapshot(a) /\ judged' = judged
        /\ \A b \in Accounts : b # a => store'[b] = store[b]
    BY <1>2 DEF PutError, TypeOK
  <2> QED
    BY <2>2, <2>3 DEF JudgedInv
<1>3. CASE UNCHANGED <<store, judged>>
  BY <1>3 DEF JudgedInv
<1>4. ASSUME NEW a \in Accounts, removeActive(a) PROVE JudgedInv'
  BY <1>3, <1>4 DEF removeActive, JudgedInv, TypeOK
<1>5. ASSUME NEW p \in Pages, ReapplyActive(p) PROVE JudgedInv'
  <2>1. \A a \in Accounts : store[a] # None =>
            LET d == applyThresholds(store[a], thresholds, a)
            IN  Honest(d) /\ Agreed(d, thresholds, a)
    BY ApplyAgrees DEF TypeOK, JudgedInv
  <2> QED
    BY <1>5, <2>1 DEF ReapplyActive, JudgedInv
<1>6. CASE Configure
  <2>1. \A a \in Accounts : store'[a] # None =>
            /\ store[a] # None /\ judged'[a] = judged[a]
            /\ store'[a] = [store[a] EXCEPT !.base = None]
    BY <1>6 DEF Configure
  <2>2. ASSUME NEW a \in Accounts, store'[a] # None
        PROVE  Honest(store'[a]) /\ Agreed(store'[a], judged'[a], a)
    <3>1. /\ Honest(store[a]) /\ Agreed(store[a], judged[a], a)
          /\ store[a] \in Snapshots
      BY <2>1, <2>2 DEF JudgedInv, TypeOK
    <3>2. /\ store'[a].figures = store[a].figures /\ store'[a].status = store[a].status
          /\ store'[a].code = store[a].code /\ store'[a].base = None
      BY <2>1, <2>2, <3>1 DEF Snapshots, Snapshot
    <3> QED
      BY <2>1, <2>2, <3>1, <3>2, NoneAssumption DEF Honest, Agreed, Statuses
  <2> QED
    BY <2>2 DEF JudgedInv
<1> QED
  BY <1>1, <1>2, <1>3, <1>4, <1>5, <1>6
  DEF Next, SetMonitored, SaveOwnRule, SaveThresholds, ListSnapshots, AskMonitored, JudgeListed, Reconcile, Dismiss, vars

-----------------------------------------------------------------------------
(* Judging anew. The inductive invariant: unless the last query failed, a  *)
(* snapshot still has the error of its figures, its base status is what    *)
(* the figures alone say, and its status says whether there is a verdict:  *)
(* all that judging looks at, so it does not matter who judged before.     *)

\* What speaks against an account without any threshold.
BaseOf(f) ==
    IF f.verdict # None THEN f.verdict
    ELSE IF f.over \/ \E n \in f.totals : n <= 0 THEN "critical"
    ELSE IF f.fault # None \/ f.failing # {} THEN "warning" ELSE "ok"

Settled(s) ==
    s.code # "REQUEST_FAILED" =>
        /\ s.figures \in Figures
        /\ s.code = s.figures.fault
        /\ s.base \in {None, BaseOf(s.figures)}
        /\ IF s.figures.verdict # None THEN s.status = s.figures.verdict
           ELSE s.status \notin {"error", "unknown", "disabled"}

SettledInv == \A a \in Accounts : store[a] # None => Settled(store[a])

RuleFor(thr, a) == IF thr.own[a] # None THEN thr.own[a] ELSE thr.currency

LEMMA RuleType ==
    ASSUME NEW thr \in Thresholds, NEW a \in Accounts
    PROVE  RuleFor(thr, a) \in Rules(9) \cup {None}
BY ThresholdsAssumption DEF RuleFor

\* Judgement, with the reasons for each level spelled out.
Grave(f, thr, a) ==
    \/ f.over \/ \E n \in f.totals : n <= 0
    \/ \E n \in f.others : n < 0
    \/ \E n \in Shares(f) : LevelOf(thr.percent, n) = "critical"
    \/ \E n \in f.totals \cup f.others : LevelOf(RuleFor(thr, a), n) = "critical"
Mild(f, thr, a) ==
    \/ f.fault # None \/ f.failing # {}
    \/ \E n \in Shares(f) : LevelOf(thr.percent, n) = "warning"
    \/ \E n \in f.totals \cup f.others : LevelOf(RuleFor(thr, a), n) = "warning"

LEMMA JudgementSpelled ==
    ASSUME NEW f \in Figures, NEW thr, NEW a, f.verdict = None
    PROVE  Judgement(f, thr, a) = IF Grave(f, thr, a) THEN "critical"
                                  ELSE IF Mild(f, thr, a) THEN "warning" ELSE "ok"
<1> DEFINE p == f.over
           q == \E n \in f.totals : n <= 0
           r == \E n \in f.others : n < 0
           m == f.fault # None \/ f.failing # {}
           P == {LevelOf(thr.percent, n) : n \in Shares(f)}
           Q == {LevelOf(RuleFor(thr, a), n) : n \in f.totals \cup f.others}
           against == {<<p, "critical">>, <<q, "critical">>, <<r, "critical">>, <<m, "warning">>}
                        \cup {<<TRUE, LevelOf(thr.percent, n)>> : n \in Shares(f)}
                        \cup {<<TRUE, LevelOf(RuleFor(thr, a), n)>> : n \in f.totals \cup f.others}
           levels == {x[2] : x \in {y \in against : y[1]}}
<1>1. p \in BOOLEAN /\ q \in BOOLEAN /\ r \in BOOLEAN /\ m \in BOOLEAN
  BY FiguresAssumption
<1>2. Judgement(f, thr, a) = IF "critical" \in levels THEN "critical"
                             ELSE IF "warning" \in levels THEN "warning" ELSE "ok"
  BY DEF Judgement, RuleFor
<1>3. /\ Grave(f, thr, a) <=> p \/ q \/ r \/ "critical" \in P \cup Q
      /\ Mild(f, thr, a) <=> m \/ "warning" \in P \cup Q
  BY DEF Grave, Mild
<1>4. \A y : y \in against <=>
          \/ y \in {<<p, "critical">>, <<q, "critical">>, <<r, "critical">>, <<m, "warning">>}
          \/ \E k \in P \cup Q : y = <<TRUE, k>>
  <2> HIDE DEF p, q, r, m
  <2> QED
    OBVIOUS
<1> HIDE DEF p, q, r, m, P, Q, against
<1> DEFINE Reason(l) == \/ (p \/ q \/ r) /\ l = "critical"
                        \/ m /\ l = "warning"
                        \/ l \in P \cup Q
<1>5. ASSUME NEW l PROVE (\E y \in against : y[1] /\ y[2] = l) <=> Reason(l)
  <2>1. ASSUME NEW y \in against, y[1], y[2] = l PROVE Reason(l)
    <3>1. CASE y \in {<<p, "critical">>, <<q, "critical">>, <<r, "critical">>, <<m, "warning">>}
      BY <1>1, <2>1, <3>1
    <3>2. CASE \E k \in P \cup Q : y = <<TRUE, k>>
      BY <2>1, <3>2
    <3> QED
      BY <1>4, <2>1, <3>1, <3>2
  <2>2. ASSUME NEW b \in BOOLEAN, NEW k, b, k = l, <<b, k>> \in against
        PROVE  \E y \in against : y[1] /\ y[2] = l
    <3>1. <<b, k>>[1] /\ <<b, k>>[2] = l
      BY <2>2
    <3> QED
      BY <2>2, <3>1
  <2>3. /\ <<p, "critical">> \in against /\ <<q, "critical">> \in against
        /\ <<r, "critical">> \in against /\ <<m, "warning">> \in against
        /\ l \in P \cup Q => <<TRUE, l>> \in against
    BY <1>4
  <2>4. ASSUME Reason(l) PROVE \E y \in against : y[1] /\ y[2] = l
    BY <1>1, <2>2, <2>3, <2>4
  <2> QED
    BY <2>1, <2>4
<1>6. \A l : l \in levels <=> \E y \in against : y[1] /\ y[2] = l
  OBVIOUS
<1> HIDE DEF levels
<1> QED
  BY <1>2, <1>3, <1>5, <1>6

\* The status of the cash alone.
LEMMA CashSpelled ==
    ASSUME NEW f \in Figures, NEW thr, NEW a
    PROVE  LET cash == cashThresholdStatus(f, thr, a)
               level(n) == LevelOf(RuleFor(thr, a), n)
               amounts == f.totals \cup f.others
           IN  /\ cash \in {"ok", "warning", "critical"}
               /\ cash = "critical" <=> \E n \in amounts : n < 0 \/ level(n) = "critical"
               /\ cash = "warning" => \E n \in amounts : level(n) = "warning"
               /\ (\E n \in amounts : level(n) = "warning") => cash # "ok"
BY LevelValues DEF cashThresholdStatus, RuleFor

\* The least share is as severe as any.
LEMMA LeastSpelled ==
    ASSUME NEW f \in Figures, NEW thr \in Thresholds, Shares(f) # {}
    PROVE  LET least == LevelOf(thr.percent, Least(Shares(f)))
           IN  /\ least \in {"ok", "warning", "critical"}
               /\ least = "critical" <=> \E n \in Shares(f) : LevelOf(thr.percent, n) = "critical"
               /\ least = "warning" => \E n \in Shares(f) : LevelOf(thr.percent, n) = "warning"
               /\ (\E n \in Shares(f) : LevelOf(thr.percent, n) = "warning") => least # "ok"
<1>1. Least(Shares(f)) \in Shares(f)
  BY FiguresAssumption DEF Least
<1>2. \A n \in Shares(f) : Rank(LevelOf(thr.percent, n)) <= Rank(LevelOf(thr.percent, Least(Shares(f))))
  BY LeastShare, LevelMonotone, ThresholdsAssumption
<1>3. \A n : LevelOf(thr.percent, n) \in {"ok", "warning", "critical"}
  BY LevelValues
<1>4. \A n \in Shares(f) :
        /\ LevelOf(thr.percent, n) = "critical" => LevelOf(thr.percent, Least(Shares(f))) = "critical"
        /\ LevelOf(thr.percent, n) = "warning" => LevelOf(thr.percent, Least(Shares(f))) # "ok"
  BY <1>2, <1>3, Ranks
<1> QED
  BY <1>1, <1>3, <1>4

LEMMA MaxSpelled ==
    ASSUME NEW x \in {"ok", "warning", "critical"}, NEW y \in {"ok", "warning", "critical"}
    PROVE  maxStatus(x, y) = IF "critical" \in {x, y} THEN "critical"
                             ELSE IF "warning" \in {x, y} THEN "warning" ELSE "ok"
BY Ranks DEF maxStatus

\* Judging a settled snapshot gives its judgement and leaves it settled.
LEMMA ApplySettles ==
    ASSUME NEW s \in Snapshots, Settled(s), s.code # "REQUEST_FAILED",
           NEW thr \in Thresholds, NEW a \in Accounts
    PROVE  /\ Settled(applyThresholds(s, thr, a))
           /\ applyThresholds(s, thr, a).status = Judgement(s.figures, thr, a)
<1> DEFINE f == s.figures
           B == BaseOf(f)
           cashed == cashThresholdStatus(f, thr, a)
           cash == maxStatus(B, cashed)
           least == LevelOf(thr.percent, Least(Shares(f)))
           status == IF B \in {"error", "unknown", "disabled"} THEN B
                     ELSE IF f.over THEN maxStatus(cash, "critical")
                     ELSE IF Shares(f) = {} THEN cash
                     ELSE maxStatus(cash, least)
<1>1. f \in Figures /\ s.code = f.fault /\ s.base \in {None, B}
  BY DEF Settled, Snapshots, Snapshot
<1>2. f.verdict \in {None, "unknown", "disabled"} /\ f.over \in BOOLEAN
      /\ f.totals \cup f.others \subseteq Int /\ (f.kind = "unsupported" => f.verdict # None)
  BY <1>1, FiguresAssumption
<1>3. None \notin Statuses
  BY NoneAssumption
<1>4. inferSnapshotBaseStatus(s) = B
  BY <1>1, <1>2, <1>3 DEF inferSnapshotBaseStatus, Settled, BaseOf, Statuses
<1>5. CASE f.kind = "unsupported"
  <2>1. applyThresholds(s, thr, a) = s
    BY <1>5 DEF applyThresholds
  <2>2. s.status = f.verdict /\ Judgement(f, thr, a) = f.verdict
    BY <1>2, <1>5 DEF Settled, Judgement
  <2> QED
    BY <2>1, <2>2
<1>6. CASE f.kind # "unsupported"
  <2>1. applyThresholds(s, thr, a) = [s EXCEPT !.base = B, !.status = status]
    BY <1>1, <1>3, <1>4, <1>6 DEF applyThresholds
  <2> DEFINE d == applyThresholds(s, thr, a)
  <2>2. d.figures = f /\ d.code = s.code /\ d.base = B /\ d.status = status
    <3> HIDE DEF B, status
    <3> QED
      BY <2>1 DEF Snapshots, Snapshot
  <2>3. CASE f.verdict # None
    <3>1. B = f.verdict /\ status = f.verdict /\ Judgement(f, thr, a) = f.verdict
      BY <1>2, <2>3 DEF BaseOf, Judgement
    <3> HIDE DEF B, status, d
    <3>2. Settled(d)
      BY <1>1, <2>2, <2>3, <3>1 DEF Settled, B
    <3> QED
      BY <2>2, <3>1, <3>2 DEF d
  <2>4. CASE f.verdict = None
    <3>1. /\ B \in {"ok", "warning", "critical"}
          /\ B = "critical" <=> f.over \/ \E n \in f.totals : n <= 0
          /\ B = "warning" => f.fault # None \/ f.failing # {}
          /\ f.fault # None \/ f.failing # {} => B # "ok"
      BY <2>4 DEF BaseOf
    <3>2. /\ cashed \in {"ok", "warning", "critical"}
          /\ cashed = "critical" <=>
                \E n \in f.totals \cup f.others : n < 0 \/ LevelOf(RuleFor(thr, a), n) = "critical"
          /\ cashed = "warning" => \E n \in f.totals \cup f.others : LevelOf(RuleFor(thr, a), n) = "warning"
          /\ (\E n \in f.totals \cup f.others : LevelOf(RuleFor(thr, a), n) = "warning") => cashed # "ok"
      BY <1>1, CashSpelled
    <3>3. Shares(f) # {} =>
            /\ least \in {"ok", "warning", "critical"}
            /\ least = "critical" <=> \E n \in Shares(f) : LevelOf(thr.percent, n) = "critical"
            /\ least = "warning" => \E n \in Shares(f) : LevelOf(thr.percent, n) = "warning"
            /\ (\E n \in Shares(f) : LevelOf(thr.percent, n) = "warning") => least # "ok"
      BY <1>1, LeastSpelled
    <3>4. \A n \in f.totals : n < 0 => n <= 0
      BY <1>2
    <3>5. Grave(f, thr, a) <=> "critical" \in {B, cashed} \/ (Shares(f) # {} /\ least = "critical")
      <4> HIDE DEF B, cashed, least
      <4> QED
        BY <3>1, <3>2, <3>3, <3>4 DEF Grave
    <3>6. ~Grave(f, thr, a) =>
            (Mild(f, thr, a) <=> "warning" \in {B, cashed} \/ (Shares(f) # {} /\ least = "warning"))
      <4> HIDE DEF B, cashed, least
      <4> QED
        BY <3>1, <3>2, <3>3, <3>5 DEF Mild
    <3>7. /\ cash \in {"ok", "warning", "critical"}
          /\ cash = IF "critical" \in {B, cashed} THEN "critical"
                    ELSE IF "warning" \in {B, cashed} THEN "warning" ELSE "ok"
      <4> HIDE DEF B, cashed
      <4> QED
        BY <3>1, <3>2, MaxSpelled
    <3>8. f.over => B = "critical"
      BY <3>1
    <3>9. status = IF Grave(f, thr, a) THEN "critical"
                   ELSE IF Mild(f, thr, a) THEN "warning" ELSE "ok"
      <4> HIDE DEF B, cashed, cash, least
      <4>1. CASE f.over
        BY <3>1, <3>5, <3>7, <3>8, <4>1, MaxSpelled
      <4>2. CASE ~f.over /\ Shares(f) = {}
        BY <3>1, <3>5, <3>6, <3>7, <4>2
      <4>3. CASE ~f.over /\ Shares(f) # {}
        BY <3>1, <3>2, <3>3, <3>5, <3>6, <3>7, <4>3, MaxSpelled
      <4> QED
        BY <1>2, <4>1, <4>2, <4>3
    <3>10. status = Judgement(f, thr, a)
      BY <1>1, <2>4, <3>9, JudgementSpelled
    <3>11. status \notin {"error", "unknown", "disabled"}
      <4> HIDE DEF status
      <4> QED
        BY <3>9
    <3> HIDE DEF B, status, d
    <3>12. Settled(d)
      BY <1>1, <2>2, <2>4, <3>11 DEF Settled, B
    <3> QED
      BY <2>2, <3>10, <3>12 DEF d
  <2> QED
    BY <2>3, <2>4
<1> QED
  BY <1>5, <1>6

\* Judging never takes the mark of a failed query away.
LEMMA ApplyKeepsCode ==
    ASSUME NEW s \in Snapshots, NEW thr, NEW a
    PROVE  applyThresholds(s, thr, a).code = s.code
BY DEF applyThresholds, Snapshots, Snapshot

LEMMA ApplyAlwaysSettles ==
    ASSUME NEW s \in Snapshots, Settled(s), NEW thr \in Thresholds, NEW a \in Accounts
    PROVE  Settled(applyThresholds(s, thr, a))
<1>1. CASE s.code = "REQUEST_FAILED"
  BY <1>1, ApplyKeepsCode DEF Settled
<1>2. CASE s.code # "REQUEST_FAILED"
  BY <1>2, ApplySettles
<1> QED
  BY <1>1, <1>2

LEMMA InitSettled == Init => SettledInv
BY DEF Init, SettledInv

LEMMA NextSettled == TypeOK /\ SettledInv /\ [Next]_vars => SettledInv'
<1> SUFFICES ASSUME TypeOK, SettledInv, [Next]_vars PROVE SettledInv'
  OBVIOUS
<1>1. ASSUME NEW a \in Accounts, Put(a) PROVE SettledInv'
  <2>1. PICK f \in Figures, by \in Thresholds :
          store' = [store EXCEPT ![a] = applyThresholds(Fresh(f), by, a)]
    BY <1>1 DEF Put
  <2>2. Settled(Fresh(f))
    BY FiguresAssumption DEF Settled, Fresh
  <2>3. Settled(applyThresholds(Fresh(f), by, a))
    BY <2>2, FreshType, ApplyAlwaysSettles
  <2> QED
    BY <2>1, <2>3 DEF SettledInv, TypeOK
<1>2. ASSUME NEW a \in Accounts, PutError(a) PROVE SettledInv'
  <2>1. errorSnapshot(a).code = "REQUEST_FAILED"
    BY DEF errorSnapshot, TypeOK, Snapshots, Snapshot, Fresh
  <2> QED
    BY <1>2, <2>1 DEF PutError, SettledInv, Settled, TypeOK
<1>3. ASSUME NEW a \in Accounts, removeActive(a) PROVE SettledInv'
  BY <1>3 DEF removeActive, SettledInv, TypeOK
<1>4. ASSUME NEW p \in Pages, ReapplyActive(p) PROVE SettledInv'
  <2>1. \A a \in Accounts : store[a] # None => Settled(applyThresholds(store[a], thresholds, a))
    BY ApplyAlwaysSettles DEF TypeOK, SettledInv
  <2> QED
    BY <1>4, <2>1 DEF ReapplyActive, SettledInv
<1>5. CASE Configure
  <2>1. ASSUME NEW a \in Accounts, store'[a] # None PROVE Settled(store'[a])
    <3>1. store[a] # None /\ store'[a] = [store[a] EXCEPT !.base = None] /\ store[a] \in Snapshots
      BY <1>5, <2>1 DEF Configure, TypeOK
    <3> QED
      BY <3>1 DEF SettledInv, Settled, Snapshots, Snapshot
  <2> QED
    BY <2>1 DEF SettledInv
<1>6. CASE UNCHANGED store
  BY <1>6 DEF SettledInv
<1> QED
  BY <1>1, <1>2, <1>3, <1>4, <1>5, <1>6
  DEF Next, SetMonitored, SaveOwnRule, SaveThresholds, ListSnapshots, AskMonitored, JudgeListed, Reconcile, Dismiss, vars

-----------------------------------------------------------------------------

\* Types, and that a snapshot with figures has been judged.
THEOREM AlertTypes == Spec => []TypeOK
BY InitType, NextType, PTL DEF Spec

\* Whatever queries, saves, other dismissals, reports and restarts come in between, an
\* alert that was dismissed stays hidden while it is up in the store and in what the
\* reports under way have listed (main.go:1985, prefs.go:435).
THEOREM HiddenCorrect == Spec => []StaysHidden
<1>1. HiddenInv => StaysHidden
  BY DEF HiddenInv
<1> QED
  BY InitType, NextType, InitHidden, NextHidden, <1>1, PTL DEF Spec

\* For an account judged by the thresholds in force no alert is more severe than its
\* status: applyThresholds and alertsForAccount agree about every figure.
THEOREM LevelsCorrect == Spec => []LevelsAgree
<1>1. ASSUME TypeOK, JudgedInv
      PROVE  LevelsAgree
  <2> SUFFICES ASSUME NEW a \in Accounts, store[a] # None, judged[a] = thresholds,
                      NEW x \in alertsForAccount(store[a], thresholds, a)
               PROVE  Rank(x.level) <= Rank(effective(store[a]))
    BY DEF LevelsAgree
  <2> DEFINE s == store[a]
  <2>1. /\ Honest(s) /\ Agreed(s, thresholds, a) /\ s.status \in Statuses
    BY <1>1 DEF JudgedInv, TypeOK, Snapshots, Snapshot
  <2>2. /\ Raised(s.status) \in Statuses /\ Rank(s.status) <= Rank(Raised(s.status))
        /\ effective(s) \in Statuses
        /\ Rank(Raised(s.status)) <= Rank(effective(s)) /\ (s.stale => 4 <= Rank(effective(s)))
    <3>1. /\ Raised(s.status) \in Statuses /\ Rank(s.status) <= Rank(Raised(s.status))
          /\ Rank(Raised(s.status)) \in Int /\ "warning" \in Statuses
      BY <2>1, Ranks DEF Raised, Statuses
    <3> QED
      BY <3>1, MaxGreater, MaxType, Ranks DEF effective
  <2> HIDE DEF s
  <2>3. /\ Rank(s.status) \in Int /\ Rank(Raised(s.status)) \in Int
        /\ Rank(effective(s)) \in Int /\ Rank(s.status) <= Rank(effective(s))
    BY <2>1, <2>2, Ranks
  <2>4. \/ x.level = "warning" /\ s.stale
        \/ x.level = Raised(s.status)
        \/ x.level = "warning" /\ s.figures.failing # {}
        \/ /\ x \in LowAlerts(s, thresholds, a)
           /\ s.figures.kind # "unsupported" /\ s.status \in {"warning", "critical"}
    <3> DEFINE ofAccount == UNION {
                   IF s.stale THEN {Alert(a, "stale", "STALE", None, "warning")} ELSE {},
                   IF s.code = None THEN {}
                   ELSE {Alert(a, "availability", s.code, None, Raised(s.status))},
                   {Alert(a, "section", "SECTION", section, "warning") : section \in s.figures.failing}}
    <3>1. \A y \in ofAccount :
              /\ [y EXCEPT !.id = None].level = y.level
              /\ \/ y.level = "warning" /\ s.stale
                 \/ y.level = Raised(s.status)
                 \/ y.level = "warning" /\ s.figures.failing # {}
      BY DEF Alert
    <3>2. CASE s.figures.kind = "unsupported"
      <4>1. alertsForAccount(s, thresholds, a) = {[y EXCEPT !.id = None] : y \in ofAccount}
        BY <3>2 DEF alertsForAccount
      <4>2. x \in {[y EXCEPT !.id = None] : y \in ofAccount}
        BY <4>1 DEF s
      <4> HIDE DEF ofAccount
      <4> QED
        BY <3>1, <4>2
    <3>3. CASE s.figures.kind # "unsupported"
      <4>1. \/ x \in ofAccount
            \/ x \in LowAlerts(s, thresholds, a) /\ s.status \in {"warning", "critical"}
        BY <3>3 DEF alertsForAccount, s
      <4> HIDE DEF ofAccount
      <4> QED
        BY <3>1, <3>3, <4>1
    <3> QED
      BY <3>2, <3>3
  <2>5. CASE x.level = "warning" /\ s.stale
    BY <2>2, <2>5, Ranks DEF s
  <2>6. CASE x.level = Raised(s.status)
    BY <2>2, <2>6 DEF s
  <2>7. CASE x.level = "warning" /\ s.figures.failing # {}
    <3>1. s.status \in {"warning", "critical", "error", "disabled"}
      BY <2>1, <2>7 DEF Honest, Agreed, Statuses
    <3>2. 4 <= Rank(Raised(s.status))
      BY <3>1, Ranks DEF Raised
    <3> QED
      BY <2>2, <2>3, <2>7, <3>2, Ranks DEF s
  <2>8. CASE /\ x \in LowAlerts(s, thresholds, a)
             /\ s.figures.kind # "unsupported" /\ s.status \in {"warning", "critical"}
    <3>1. Covered(s.figures, s.status, thresholds, a)
      BY <2>1, <2>8 DEF Agreed
    <3>2. \/ x.level = cashThresholdStatus(s.figures, thresholds, a)
          \/ x.level = s.status
          \/ \E w \in DOMAIN s.figures.windows :
                x.level = LevelOf(thresholds.percent, s.figures.windows[w])
      BY <2>8 DEF LowAlerts, WindowAlerts, WindowAlert, Alert
    <3>3. x.level \in Statuses
      BY <2>1, <3>2, CashType, LevelType
    <3>4. Rank(x.level) <= Rank(s.status)
      BY <2>3, <3>1, <3>2 DEF Covered
    <3>5. Rank(x.level) \in Int
      BY <3>3, Ranks
    <3> QED
      BY <2>3, <3>4, <3>5 DEF s
  <2> QED
    BY <2>4, <2>5, <2>6, <2>7, <2>8
<1> QED
  BY <1>1, InitType, NextType, InitJudged, NextJudged, PTL DEF Spec

\* An account with quotas that is not well has an alert that says so, also between a
\* save of thresholds and its judgement.
THEOREM TroubleCorrect == Spec => []TroubleTold
<1>1. ASSUME TypeOK, JudgedInv
      PROVE  TroubleTold
  <2> SUFFICES ASSUME NEW a \in Accounts, store[a] # None,
                      store[a].figures.kind # "balance",
                      store[a].status \notin {"ok", "unknown"}
               PROVE  alertsForAccount(store[a], thresholds, a) # {}
    BY DEF TroubleTold
  <2> DEFINE s == store[a]
  <2>1. Honest(s) /\ s.status \in Statuses
    BY <1>1 DEF JudgedInv, TypeOK, Snapshots, Snapshot
  <2>2. CASE s.status \in {"error", "disabled"}
    <3>1. s.code # None
      BY <2>1, <2>2 DEF Honest
    <3> QED
      BY <3>1 DEF alertsForAccount
  <2>3. CASE s.status \in {"warning", "critical"}
    <3>1. s.figures.kind # "unsupported"
      BY <2>1, <2>3 DEF Honest
    <3>2. CASE s.figures.failing # {}
      <4>1. PICK section \in s.figures.failing : TRUE
        BY <3>2
      <4>2. Alert(a, "section", "SECTION", section, "warning")
              \in alertsForAccount(s, thresholds, a)
        BY <3>1 DEF alertsForAccount
      <4> QED
        BY <4>2
    <3>3. CASE s.figures.failing = {}
      <4>1. LowAlerts(s, thresholds, a) # {}
        BY <3>3 DEF LowAlerts
      <4>2. LowAlerts(s, thresholds, a) \subseteq alertsForAccount(s, thresholds, a)
        BY <2>3, <3>1 DEF alertsForAccount
      <4> QED
        BY <4>1, <4>2
    <3> QED
      BY <3>2, <3>3
  <2> QED
    BY <2>1, <2>2, <2>3 DEF Statuses
<1> QED
  BY <1>1, InitType, NextType, InitJudged, NextJudged, PTL DEF Spec

\* Judging the stored snapshots by saved thresholds gives each its judgement by figures
\* and thresholds alone, whoever judged it before and however often CPA was restarted.
THEOREM SettlesCorrect == Spec => SaveSettles
<1> DEFINE Settles ==
        (\E p \in Pages : ReapplyActive(p)) =>
            \A a \in Accounts :
                \/ store[a] = None \/ store'[a] = None
                \/ store[a].code = "REQUEST_FAILED"
                \/ store'[a].status = Judgement(store[a].figures, thresholds, a)
<1>1. TypeOK /\ SettledInv => Settles
  <2> SUFFICES ASSUME TypeOK, SettledInv, NEW p \in Pages, ReapplyActive(p),
                      NEW a \in Accounts, store[a] # None, store[a].code # "REQUEST_FAILED"
               PROVE  store'[a].status = Judgement(store[a].figures, thresholds, a)
    OBVIOUS
  <2>1. store'[a] = applyThresholds(store[a], thresholds, a)
    BY DEF ReapplyActive
  <2>2. store[a] \in Snapshots /\ Settled(store[a]) /\ thresholds \in Thresholds
    BY DEF TypeOK, SettledInv
  <2> QED
    BY <2>1, <2>2, ApplySettles
<1>2. TypeOK /\ SettledInv /\ [Next]_vars => [Settles]_vars
  BY <1>1
<1> HIDE DEF Settles
<1>3. Spec => [][Settles]_vars
  BY <1>2, InitType, NextType, InitSettled, NextSettled, PTL DEF Spec
<1> QED
  BY <1>3 DEF Settles, SaveSettles
=============================================================================
