------------------------------- MODULE MCPrefs -------------------------------
(* Small instances of PrefsStore. *)
EXTENDS PrefsStore, TLC

\* The pages of a run without liveness properties are interchangeable.
PageSymmetry == Permutations(Pages)

\* So are the keys, and the files: none of them is in use at first.
KeyAndPathSymmetry == Permutations(Keys) \cup Permutations(Paths)
=============================================================================
