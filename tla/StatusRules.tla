----------------------------- MODULE StatusRules -----------------------------
(***************************************************************************)
(* How the figures of an account become a status and a set of alerts       *)
(* (applyThresholds, inferSnapshotBaseStatus, alertsForAccount).           *)
(*                                                                         *)
(* Amounts and remaining shares are small integers; a share is in steps of *)
(* the thresholds it is compared with.                                     *)
(***************************************************************************)
EXTENDS Integers, FiniteSets, Functions

CONSTANTS None   \* an amount, a rule or a code that is not there

Statuses == {"ok", "disabled", "unknown", "warning", "critical", "error"}
Levels == {"ok", "warning", "critical"}

Rank(s) ==
    CASE s = "error" -> 6 [] s = "critical" -> 5 [] s = "warning" -> 4
      [] s = "unknown" -> 3 [] s = "disabled" -> 2 [] s = "ok" -> 1

\* Bug: the last status wins.
LastStatus(current, candidate) == candidate

maxStatus(current, candidate) ==
    IF Rank(candidate) > Rank(current) THEN candidate ELSE current

\* A rule names the amounts or shares at and below which a level begins.
Rules(n) == {r \in [warning : 0..n, critical : 0..n] : r.critical <= r.warning}
LevelOf(rule, n) ==
    IF rule = None THEN "ok"
    ELSE IF n <= rule.critical THEN "critical"
    ELSE IF n <= rule.warning THEN "warning" ELSE "ok"

-----------------------------------------------------------------------------
(* Figures and snapshots *)

\* Figures: what an adapter returns. verdict is the status it gives where that is
\* unknown or disabled; fault the code of its error; failing the sections that could
\* not be read; totals and others the amounts of the two sorts of balances; windows
\* the remaining share under each name; quantities the remaining shares; over that
\* more than the total is used.
\* A snapshot adds the status, the base status, which is not stored on disk, the code
\* of the error, and whether the figures are stale.
Codes(figures) == {f.fault : f \in figures} \cup {"REQUEST_FAILED", "STALE"}
Snapshot(figures) ==
    [figures : figures, status : Statuses, base : Statuses \cup {None},
     code : Codes(figures), stale : BOOLEAN]

\* Bug: after a restart the status on disk is taken for the base.
InferFromStatus(s) == s.status

inferSnapshotBaseStatus(s) ==
    LET f == s.figures
    IN IF s.status \in {"error", "unknown", "disabled"} THEN s.status
       ELSE IF (\E n \in f.totals : n <= 0) \/ f.over THEN "critical"
       ELSE IF s.code # None \/ f.failing # {} THEN "warning"
       ELSE "ok"

\* An account's own rule replaces that of the currency; a debt is always critical.
cashThresholdStatus(f, thresholds, a) ==
    LET rule == IF thresholds.own[a] # None THEN thresholds.own[a] ELSE thresholds.currency
        level(n) == IF n < 0 THEN "critical" ELSE LevelOf(rule, n)
        levels == {level(n) : n \in f.totals \cup f.others}
    IN IF "critical" \in levels THEN "critical"
       ELSE IF "warning" \in levels THEN "warning" ELSE "ok"

Shares(f) == Range(f.windows) \cup f.quantities
Least(S) == CHOOSE n \in S : \A k \in S : n <= k

applyThresholds(s, thresholds, a) ==
    IF s.figures.kind = "unsupported" THEN s
    ELSE LET f == s.figures
             base == IF s.base = None THEN inferSnapshotBaseStatus(s) ELSE s.base
             cash == maxStatus(base, cashThresholdStatus(f, thresholds, a))
             status == IF base \in {"error", "unknown", "disabled"} THEN base
                       ELSE IF f.over THEN maxStatus(cash, "critical")
                       ELSE IF Shares(f) = {} THEN cash
                       ELSE maxStatus(cash, LevelOf(thresholds.percent, Least(Shares(f))))
         IN [s EXCEPT !.base = base, !.status = status]

\* What the adapter returns, before any threshold is applied to it.
Fresh(f) == [figures |-> f, base |-> None, code |-> f.fault, stale |-> FALSE,
             status |-> IF f.verdict = None THEN "ok" ELSE f.verdict]

-----------------------------------------------------------------------------
(* Alerts *)

Alert(a, type, code, item, level) ==
    [id |-> [account |-> a, type |-> type, code |-> code, item |-> item], level |-> level]

\* The critical threshold has a code of its own, so it is another alert.
WindowAlert(a, w, level) ==
    Alert(a, "quota_low", IF level = "critical" THEN "QUOTA_BELOW_CRITICAL"
                          ELSE "QUOTA_BELOW_WARNING", w, level)

WindowAlerts(f, thresholds, a) ==
    LET level(w) == LevelOf(thresholds.percent, f.windows[w])
    IN {WindowAlert(a, w, level(w)) : w \in {v \in DOMAIN f.windows : level(v) # "ok"}}

\* Bug: an account that is low without a window of its own says nothing.
LowAlertsOfWindows(s, thresholds, a) ==
    IF s.figures.kind = "balance" THEN {} ELSE WindowAlerts(s.figures, thresholds, a)

LowAlerts(s, thresholds, a) ==
    LET f == s.figures
        cash == cashThresholdStatus(f, thresholds, a)
    IN IF f.kind = "balance"
       THEN IF cash = "ok" THEN {}
            ELSE {Alert(a, "balance_low", "BALANCE_BELOW_THRESHOLD", None, cash)}
       ELSE IF WindowAlerts(f, thresholds, a) = {} /\ f.failing = {}
       THEN {Alert(a, "quota_low", "QUOTA_BELOW_THRESHOLD", None, s.status)}
       ELSE WindowAlerts(f, thresholds, a)

\* A disabled account counts as critical in alerts and in the report.
Raised(status) == IF status = "disabled" THEN "critical" ELSE status

\* Only the alerts of an account that can be read get an id, and so can be dismissed.
alertsForAccount(s, thresholds, a) ==
    LET ofAccount == UNION {
            IF s.stale THEN {Alert(a, "stale", "STALE", None, "warning")} ELSE {},
            IF s.code = None THEN {}
            ELSE {Alert(a, "availability", s.code, None, Raised(s.status))},
            {Alert(a, "section", "SECTION", section, "warning") : section \in s.figures.failing}}
    IN IF s.figures.kind = "unsupported" THEN {[x EXCEPT !.id = None] : x \in ofAccount}
       ELSE IF s.status \in {"warning", "critical"} THEN ofAccount \cup LowAlerts(s, thresholds, a)
       ELSE ofAccount

\* What an account contributes to the status of the report.
effective(s) == IF s.stale THEN maxStatus(Raised(s.status), "warning") ELSE Raised(s.status)
=============================================================================
