--------------------------- MODULE CurrentFigures ---------------------------
(***************************************************************************)
(* What the refresh of accounts promises to a reader of the report.  The   *)
(* figures that count as up to date are those of the configuration of the  *)
(* moment, asked for since its last change; a change takes them away as it *)
(* is made, and nothing asked for earlier counts again, not even when the  *)
(* configuration returns to what it was.  An account out of the report has *)
(* none.  Only a clearance, which is a change first, takes the history.    *)
(***************************************************************************)
EXTENDS Naturals

CONSTANTS
    Accounts,
    Configs,
    Nothing     \* no figures that count as up to date

VARIABLES
    on,         \* on[a]: a is wanted in the report
    config,     \* config[a]: what a is queried with
    change,     \* change[a]: how often that, or what is wanted of a, has changed
    shown,      \* shown[a]: Nothing, or what the figures are of, and the number of
                \* changes there had been when they were asked for
    kept        \* kept[a]: there is a history of a

vars == <<on, config, change, shown, kept>>

Init ==
    /\ on \in [Accounts -> BOOLEAN]
    /\ config \in [Accounts -> Configs]
    /\ change = [a \in Accounts |-> 0]
    /\ shown = [a \in Accounts |-> Nothing]
    /\ kept = [a \in Accounts |-> FALSE]

Hide(S) == shown' = [a \in Accounts |-> IF a \in S THEN Nothing ELSE shown[a]]

\* The accounts of S are configured anew, or their queries are invalidated.
Change(S) ==
    /\ change' = [a \in Accounts |-> IF a \in S THEN change[a] + 1 ELSE change[a]]
    /\ \A a \in Accounts \ S : on'[a] = on[a] /\ config'[a] = config[a]
    /\ Hide(S)
    /\ UNCHANGED kept

\* A result is filed: figures of now, or something that does not count (an error, or
\* the answer to an old question).  An account that was never configured may be
\* looked at without being in the report.
File(a) ==
    /\ LET f == shown'[a]
       IN  /\ shown' = [shown EXCEPT ![a] = f]
           /\ f # Nothing =>
                /\ f.of = config[a] /\ f.asked >= change[a]
                /\ on[a] \/ change[a] = 0
    /\ kept' = [kept EXCEPT ![a] = TRUE]
    /\ UNCHANGED <<on, config, change>>

Withdraw(S) == Hide(S) /\ UNCHANGED <<on, config, change, kept>>

Clear(a) ==
    /\ change[a] > 0
    /\ Hide({a})
    /\ kept' = [kept EXCEPT ![a] = FALSE]
    /\ UNCHANGED <<on, config, change>>

Next ==
    \/ \E S \in SUBSET Accounts : Change(S) \/ Withdraw(S)
    \/ \E a \in Accounts : File(a) \/ Clear(a)

Spec == Init /\ [][Next]_vars
=============================================================================
