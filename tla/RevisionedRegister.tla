------------------------- MODULE RevisionedRegister -------------------------
(***************************************************************************)
(* What the preferences promise: for every file one visible value that is  *)
(* only ever replaced by its successor.  A save that did not succeed may   *)
(* have left a successor behind; it stays invisible while the program runs *)
(* and the next start makes it the value.                                  *)
(***************************************************************************)
EXTENDS Naturals

CONSTANTS
    Paths,
    NoPath,     \* no file is in use
    Values,     \* records with a field rev
    Nothing     \* nothing was left behind

VARIABLES
    open,       \* the file in use
    value,      \* value[p]: what a reader of p sees, or saw last
    pending     \* pending[p]: the successor a save left in p

vars == <<open, value, pending>>

TypeOK ==
    /\ open \in Paths \cup {NoPath}
    /\ value \in [Paths -> Values]
    /\ pending \in [Paths -> Values \cup {Nothing}]

Init ==
    /\ open = NoPath
    /\ value \in [Paths -> Values]
    /\ pending = [p \in Paths |-> Nothing]

\* A save has got as far as the file.  (v is the only choice of \E v \in Values.)
Attempt ==
    /\ open # NoPath
    /\ LET v == pending'[open]
       IN  /\ v \in Values
           /\ v.rev = value[open].rev + 1
           /\ pending' = [pending EXCEPT ![open] = v]
    /\ UNCHANGED <<open, value>>

\* The save succeeds.
Accept ==
    /\ open # NoPath
    /\ pending[open] # Nothing
    /\ value' = [value EXCEPT ![open] = pending[open]]
    /\ pending' = [pending EXCEPT ![open] = Nothing]
    /\ UNCHANGED open

Start(p) ==
    /\ open' = p
    /\ value' = [value EXCEPT ![p] = IF pending[p] = Nothing THEN @ ELSE pending[p]]
    /\ pending' = [pending EXCEPT ![p] = Nothing]

Stop ==
    /\ open' = NoPath
    /\ UNCHANGED <<value, pending>>

Next == Attempt \/ Accept \/ Stop \/ \E p \in Paths : Start(p)

Spec == Init /\ [][Next]_vars
=============================================================================
