------------------------------ MODULE MCAlerts ------------------------------
(***************************************************************************)
(* Instances of Alerts for TLC: figures that tell the rules apart.         *)
(***************************************************************************)
EXTENDS Alerts, TLC

CONSTANT acct

MCAccounts == {acct}
Plain == [kind |-> "quota", verdict |-> None, fault |-> None, failing |-> {},
          totals |-> {}, others |-> {}, windows |-> <<>>, quantities |-> {}, over |-> FALSE]
MCBlank == [Plain EXCEPT !.kind = "unsupported"]
\* Shares of 0 to 4 and amounts of 0 to 2 stand on either side of every threshold.
MCFigures == {
    [Plain EXCEPT !.windows = ("5h" :> 2 @@ "week" :> 4)],
    [Plain EXCEPT !.windows = ("5h" :> 1), !.failing = {"billing"}, !.totals = {0}],
    [Plain EXCEPT !.quantities = {2}, !.totals = {1}],
    [Plain EXCEPT !.quantities = {4}, !.over = TRUE],
    [Plain EXCEPT !.kind = "balance", !.totals = {2}, !.others = {1}, !.fault = "UNAVAILABLE"],
    [Plain EXCEPT !.kind = "unsupported", !.verdict = "unknown", !.fault = "UNSUPPORTED"],
    [Plain EXCEPT !.verdict = "disabled", !.fault = "KEY_EXPIRED", !.failing = {"usage"}]}
Own(rule) == [a \in MCAccounts |-> rule]
MCThresholds == {
    [percent |-> [warning |-> 2, critical |-> 1], currency |-> None, own |-> Own(None)],
    [percent |-> [warning |-> 3, critical |-> 2],
     currency |-> [warning |-> 2, critical |-> 1], own |-> Own(None)],
    [percent |-> [warning |-> 3, critical |-> 2],
     currency |-> [warning |-> 2, critical |-> 1], own |-> Own([warning |-> 1, critical |-> 0])]}
=============================================================================
