-------------------------- MODULE IdentitiesProofs --------------------------
(***************************************************************************)
(* Proofs about Identities for any slots, credentials, keys, discoverers   *)
(* and bound on ids: types, that two credentials are never one account,    *)
(* that an account keeps its id, that an entered PAT stays with its        *)
(* credential, that snapshots do not leave a PAT behind, and that no PAT   *)
(* is lost or doubled.                                                     *)
(***************************************************************************)
EXTENDS Identities, FiniteSetTheorems, TLAPS

-----------------------------------------------------------------------------
(* The inductive invariant: ids are numbered in the order they are drawn,  *)
(* an id that is derived stands for its source id, no basis has two        *)
(* identities, and the id a credential was given has its basis or none.    *)

BasisOf(i) == identities[i].basis
SourceBasis(c) == [seal |-> NoKey, cred |-> c]

Numbered == IsFiniteSet(Used) /\ \A i \in Used : i.drawn <= Cardinality(Used)

Derived == \A i \in DOMAIN identities : i.drawn = 0 => BasisOf(i) = SourceBasis(i.cred)

OneBasis == \A i, j \in DOMAIN identities :
                BasisOf(i) = BasisOf(j) /\ BasisOf(i) # NoBasis => i = j

OneAnswer == \A c, e \in Creds : answer[c] = answer[e] /\ answer[c] # NoId => c = e

\* Whether an identity may be the one of credential c.
Fits(basis, c) ==
    IF c \in NamedCreds THEN basis = SourceBasis(c)
    ELSE basis = NoBasis \/ (basis \in Basis /\ basis.cred = c)

Answered == \A c \in Creds : answer[c] # NoId =>
                answer[c] \in DOMAIN identities /\ Fits(BasisOf(answer[c]), c)

AccountInv == Numbered /\ Derived /\ OneBasis /\ OneAnswer /\ Answered

\* A discoverer only has before it what it resolved.
Resolved == \A d \in Discoverers :
    /\ disc[d].pc # "idle" =>
           \A s \in Filled(disc[d].seen) : disc[d].ids[s] \in DOMAIN identities
    /\ disc[d].pc = "move" =>
           /\ disc[d].slot \in Slots \ Filled(disc[d].seen)
           /\ disc[d].ids[disc[d].slot] \in DOMAIN identities

TypeInv == TypeOK /\ Resolved

\* An entered PAT stands under a known id, whose basis, and whose credential, is its
\* owner's; no PAT waits under an id nobody has.
Owned(i) == pats[i] # NoPat /\ pats[i].entered =>
    /\ BasisOf(i) = NoBasis \/ BasisOf(i).cred = pats[i].owner
    /\ \A c \in Creds : answer[c] = i => c = pats[i].owner

EnteredInv ==
    /\ \A s \in Slots : pats[s] = NoPat \/ ~pats[s].entered
    /\ \A i \in Ids \ DOMAIN identities : pats[i] = NoPat
    /\ \A i \in DOMAIN identities : Owned(i)

\* An identity whose slot still holds a PAT is to be linked anew, or was; so is one
\* that the snapshots of a slot are about to move to.
HistoryInv ==
    /\ \A i \in DOMAIN identities : \/ pats[identities[i].legacy] = NoPat
                                     \/ i \in relink \cup confirmed
    /\ \A d \in Discoverers : disc[d].pc = "move" =>
           pats[disc[d].slot] = NoPat \/ disc[d].ids[disc[d].slot] \in confirmed

-----------------------------------------------------------------------------
(* Bases and new ids *)

LEMMA BasisFacts ==
    /\ \A c \in Creds : SourceBasis(c) \in Basis /\ SourceBasis(c).cred = c
    /\ \A b \in Basis : b # NoBasis
    /\ \A c \in NamedCreds : c \in Creds
BY MarkerAssumption DEF SourceBasis, Basis, NoBasis, Creds, HostCreds

LEMMA CredBasisFacts ==
    ASSUME TypeOK, NEW c \in Creds
    PROVE  /\ CredBasis(c) \in Basis \cup {NoBasis} /\ Fits(CredBasis(c), c)
           /\ CredBasis(c) # NoBasis => CredBasis(c).cred = c
           /\ c \in NamedCreds => CredBasis(c) = SourceBasis(c) /\ CredBasis(c) # NoBasis
<1>1. CASE c \in NamedCreds
  <2>1. CredBasis(c) = SourceBasis(c)
    BY <1>1 DEF CredBasis, SourceBasis
  <2> QED
    BY <1>1, <2>1, BasisFacts DEF Fits
<1>2. CASE c \notin NamedCreds /\ key = NoKey
  BY <1>2 DEF CredBasis, Fits
<1>3. CASE c \notin NamedCreds /\ key # NoKey
  <2>1. CredBasis(c) = [seal |-> key, cred |-> c] /\ key \in Keys
    BY <1>3 DEF CredBasis, TypeOK
  <2>2. CredBasis(c) \in Basis /\ CredBasis(c).cred = c
    BY <2>1 DEF Basis
  <2> QED
    BY <1>3, <2>2, BasisFacts DEF Fits
<1> QED
  BY <1>1, <1>2, <1>3

LEMMA ListingFacts ==
    ASSUME NEW l \in Listing
    PROVE  /\ \A s \in Filled(l) : s \in Slots /\ l[s] \in Creds
           /\ \A s, t \in Filled(l) : l[s] = l[t] => s = t
           /\ Strangers(l) \subseteq Filled(l)
           /\ \A s \in Slots : [l EXCEPT ![s] = NoCred] \in Listing
           /\ \A s \in Slots : Filled([l EXCEPT ![s] = NoCred]) = Filled(l) \ {s}
<1>1. l \in [Slots -> Creds \cup {NoCred}] /\ Lists(l)
  BY DEF Listing
<1>2. /\ \A s \in Filled(l) : s \in Slots /\ l[s] \in Creds
      /\ \A s, t \in Filled(l) : l[s] = l[t] => s = t
      /\ Strangers(l) \subseteq Filled(l)
  BY <1>1 DEF Filled, Strangers, Lists
<1>3. ASSUME NEW s \in Slots
      PROVE  /\ [l EXCEPT ![s] = NoCred] \in Listing
             /\ Filled([l EXCEPT ![s] = NoCred]) = Filled(l) \ {s}
  <2> DEFINE m == [l EXCEPT ![s] = NoCred]
  <2>1. /\ m \in [Slots -> Creds \cup {NoCred}]
        /\ \A t \in Slots : m[t] = IF t = s THEN NoCred ELSE l[t]
    BY <1>1
  <2>2. \A t, u \in Slots : m[t] = m[u] /\ m[t] # NoCred => t = u
    BY <1>1, <2>1 DEF Lists
  <2>3. StaticSlots \subseteq Slots /\ HostSlots \subseteq Slots
    BY DEF Slots
  <2> HIDE DEF m
  <2>4. Lists(m)
    BY <1>1, <2>1, <2>2, <2>3 DEF Lists
  <2>5. m \in Listing /\ Filled(m) = Filled(l) \ {s}
    BY <2>1, <2>4 DEF Listing, Filled
  <2> QED
    BY <2>5 DEF m
<1> QED
  BY <1>2, <1>3

\* What a credential is matched by has its basis.
LEMMA MatchFacts ==
    ASSUME TypeOK, NEW l \in Listing, NEW s \in Filled(l)
    PROVE  \A i \in Matching(l, s) : /\ i \in DOMAIN identities
                                     /\ BasisOf(i) = CredBasis(l[s]) /\ BasisOf(i) # NoBasis
BY DEF Matching, identityMatchesCandidate, BasisOf

LEMMA DrawnFacts ==
    /\ \A n : Random(n).drawn = n
    /\ \A k, c : Stable(k, c).drawn = 0 /\ Stable(k, c).cred = c
    /\ \A i \in Ids : i.drawn \in Nat
<1>1. /\ \A n : Random(n).drawn = n
      /\ \A k, c : Stable(k, c).drawn = 0 /\ Stable(k, c).cred = c
  BY DEF Random, Stable
<1> QED
  BY <1>1, BoundAssumption DEF Ids

Unnamed(l) == {u \in Strangers(l) : l[u] \notin NamedCreds}

LEMMA NewFacts ==
    ASSUME TypeOK, AccountInv, NEW l \in Listing, NEW new \in NewIds(l)
    PROVE  /\ new \in [Strangers(l) -> Ids]
           /\ \A s, t \in Strangers(l) : new[s] = new[t] => s = t
           /\ \A s \in Strangers(l) : new[s] \notin DOMAIN identities
           /\ \A s \in Strangers(l) :
                 IF l[s] \in NamedCreds THEN new[s] = Stable(key, l[s])
                 ELSE /\ new[s].drawn > Cardinality(Used)
                      /\ new[s].drawn <= Cardinality(Used) + Cardinality(Unnamed(l))
           /\ IsFiniteSet(Unnamed(l)) /\ Cardinality(Unnamed(l)) \in Nat
           /\ Cardinality(Used) \in Nat
<1>1. /\ new \in [Strangers(l) -> Ids]
      /\ \A s, t \in Strangers(l) : new[s] = new[t] => s = t
  BY DEF NewIds, IsInjective
<1>2. IsFiniteSet(Unnamed(l)) /\ Cardinality(Unnamed(l)) \in Nat /\ Cardinality(Used) \in Nat
  <2>1. Unnamed(l) \subseteq Slots
    BY ListingFacts DEF Unnamed
  <2> QED
    BY <2>1, BoundAssumption, FS_Subset, FS_CardinalityType DEF AccountInv, Numbered
<1>3. ASSUME NEW s \in Strangers(l), l[s] \notin NamedCreds
      PROVE  /\ new[s].drawn > Cardinality(Used)
             /\ new[s].drawn <= Cardinality(Used) + Cardinality(Unnamed(l))
  <2>1. PICK n \in 1 .. Cardinality(Unnamed(l)) : new[s] = Random(Cardinality(Used) + n)
    BY <1>3 DEF NewIds, Unnamed
  <2> QED
    BY <1>2, <2>1, DrawnFacts
<1>4. ASSUME NEW s \in Strangers(l), l[s] \in NamedCreds
      PROVE  new[s] = Stable(key, l[s])
  BY <1>4 DEF NewIds
<1>5. ASSUME NEW s \in Strangers(l), new[s] \in DOMAIN identities
      PROVE  FALSE
  <2>1. CASE l[s] \in NamedCreds
    <3>1. new[s].drawn = 0 /\ new[s].cred = l[s]
      BY <1>4, <2>1, DrawnFacts
    <3>2. BasisOf(new[s]) = SourceBasis(l[s])
      BY <1>5, <3>1 DEF AccountInv, Derived
    <3>3. l[s] \in Creds
      BY ListingFacts
    <3>4. new[s] \in Matching(l, s)
      BY <1>5, <2>1, <3>2, <3>3, CredBasisFacts DEF Matching, identityMatchesCandidate, BasisOf
    <3> QED
      BY <3>4 DEF Strangers
  <2>2. CASE l[s] \notin NamedCreds
    <3>1. new[s].drawn > Cardinality(Used) /\ new[s] \in Ids
      BY <1>1, <1>3, <2>2
    <3>2. new[s].drawn \in Nat
      BY <3>1, DrawnFacts
    <3>3. new[s] \in Used
      BY <1>2, <1>5, <3>1, <3>2 DEF Used
    <3> QED
      BY <1>2, <3>1, <3>2, <3>3 DEF AccountInv, Numbered
  <2> QED
    BY <2>1, <2>2
<1> QED
  BY <1>1, <1>2, <1>3, <1>4, <1>5
-----------------------------------------------------------------------------
(* What a resolution does *)

Given(l, new, s) == IF s \in Strangers(l) THEN new[s] ELSE CHOOSE i \in Matching(l, s) : TRUE

\* The identities and answers after a resolution of listing l by the ids new.
Answers(l, new) ==
    /\ DOMAIN identities' = DOMAIN identities \cup {new[s] : s \in Strangers(l)}
    /\ \A i \in DOMAIN identities : identities'[i] = identities[i]
    /\ \A s \in Strangers(l) : identities'[new[s]] = [basis |-> CredBasis(l[s]), legacy |-> s]
    /\ \A c \in Creds : \/ \E s \in Filled(l) : l[s] = c /\ answer'[c] = Given(l, new, s)
                        \/ answer'[c] = answer[c]

\* The preferences after it: only the slot of a stranger gives a PAT away, and only to
\* the id the stranger is given.
Inherits(l, new) ==
    /\ \A s \in Slots : pats'[s] \in {pats[s], NoPat}
    /\ \A i \in DOMAIN identities : pats'[i] = pats[i]
    /\ \A i \in Ids : \/ pats'[i] = pats[i]
                      \/ \E s \in Strangers(l) : new[s] = i /\ pats[s] # NoPat /\ pats'[i] = pats[s]
    /\ legacy' \subseteq legacy
    /\ relink' \subseteq relink \cup {new[s] : s \in Strangers(l)}
    /\ \A i \in relink : i \in Slots \/ i \in relink'
    /\ \A s \in Strangers(l) : pats'[s] = NoPat \/ new[s] \in relink'

Resolution(d, l, new) ==
    /\ l \in Listing /\ new \in NewIds(l)
    /\ Answers(l, new) /\ Inherits(l, new)
    /\ UNCHANGED <<key, moved, confirmed>>
    /\ answer' \in [Creds -> DOMAIN identities' \cup {NoId}]
    /\ identities' \in [DOMAIN identities' -> Identity] /\ pats' \in [Ids \cup Slots -> Pat \cup {NoPat}]
    /\ disc' = [disc EXCEPT ![d].pc = "check", ![d].seen = l,
                            ![d].ids = [s \in Slots |-> IF s \in Filled(l) THEN Given(l, new, s)
                                                        ELSE NoId]]

LEMMA GivenFacts ==
    ASSUME TypeOK, AccountInv, NEW l \in Listing, NEW new \in NewIds(l), NEW s \in Filled(l)
    PROVE  IF s \in Strangers(l) THEN Given(l, new, s) = new[s]
           ELSE /\ Given(l, new, s) \in DOMAIN identities
                /\ BasisOf(Given(l, new, s)) = CredBasis(l[s])
                /\ CredBasis(l[s]) # NoBasis
<1>1. CASE s \in Strangers(l)
  BY <1>1 DEF Given
<1>2. CASE s \notin Strangers(l)
  <2>1. Matching(l, s) # {}
    BY <1>2 DEF Strangers
  <2>2. Given(l, new, s) \in Matching(l, s)
    BY <1>2, <2>1 DEF Given
  <2> QED
    BY <1>2, <2>2, MatchFacts
<1> QED
  BY <1>1, <1>2

LEMMA ResolveFacts ==
    ASSUME TypeInv, AccountInv, NEW d \in Discoverers, Resolve(d)
    PROVE  \E l, new : Resolution(d, l, new)
<1>1. SUFFICES ASSUME NEW l \in Readings, NEW new \in NewIds(l),
        LET heir == {s \in Strangers(l) : Migrates(l[s], s)}
            ids == [s \in Slots |-> IF s \in Strangers(l) THEN new[s]
                                    ELSE IF s \in Filled(l) THEN CHOOSE i \in Matching(l, s) : TRUE
                                    ELSE NoId]
            from(i) == CHOOSE s \in heir : new[s] = i
            inherits(i) == \E s \in heir : new[s] = i /\ pats[s] # NoPat
        IN /\ identities' = [i \in DOMAIN identities \cup Range(new) |->
                               IF i \in Range(new)
                               THEN LET s == CHOOSE s \in Strangers(l) : new[s] = i
                                    IN [basis |-> CredBasis(l[s]), legacy |-> s]
                               ELSE identities[i]]
           /\ pats' = [i \in Ids \cup Slots |->
                         IF i \in heir THEN NoPat
                         ELSE IF inherits(i) THEN [pats[from(i)] EXCEPT !.key = key]
                         ELSE pats[i]]
           /\ legacy' = legacy \ heir
           /\ relink' = (relink \ heir)
                          \cup {new[s] : s \in {t \in Strangers(l) : NeedsRelink(l[t], t)}}
           /\ disc' = [disc EXCEPT ![d].pc = "check", ![d].seen = l, ![d].ids = ids]
           /\ answer' = [c \in Creds |-> IF \E s \in Filled(l) : l[s] = c
                                         THEN ids[CHOOSE s \in Filled(l) : l[s] = c]
                                         ELSE answer[c]]
      PROVE  Resolution(d, l, new)
  BY DEF Resolve
<1> DEFINE heir == {s \in Strangers(l) : Migrates(l[s], s)}
           from(i) == CHOOSE s \in heir : new[s] = i
           inherits(i) == \E s \in heir : new[s] = i /\ pats[s] # NoPat
           ids == [s \in Slots |-> IF s \in Filled(l) THEN Given(l, new, s) ELSE NoId]
<1>2. /\ l \in Listing /\ TypeOK
      /\ \A s \in Filled(l) : s \in Slots /\ l[s] \in Creds
      /\ \A s, t \in Filled(l) : l[s] = l[t] => s = t
      /\ Strangers(l) \subseteq Filled(l) /\ heir \subseteq Strangers(l)
  BY ListingFacts DEF Readings, TypeInv
<1>3. /\ new \in [Strangers(l) -> Ids]
      /\ \A s, t \in Strangers(l) : new[s] = new[t] => s = t
      /\ \A s \in Strangers(l) : new[s] \notin DOMAIN identities
  BY <1>2, NewFacts
<1>4. Range(new) = {new[s] : s \in Strangers(l)}
  BY <1>3 DEF Range
<1>5. /\ DOMAIN identities' = DOMAIN identities \cup {new[s] : s \in Strangers(l)}
      /\ \A i \in DOMAIN identities : identities'[i] = identities[i]
      /\ \A s \in Strangers(l) : identities'[new[s]] = [basis |-> CredBasis(l[s]), legacy |-> s]
  <2>1. identities' = [i \in DOMAIN identities \cup Range(new) |->
                               IF i \in Range(new)
                               THEN LET s == CHOOSE s \in Strangers(l) : new[s] = i
                                    IN [basis |-> CredBasis(l[s]), legacy |-> s]
                               ELSE identities[i]]
    BY <1>1
  <2>2. \A s \in Strangers(l) : (CHOOSE t \in Strangers(l) : new[t] = new[s]) = s
    BY <1>3
  <2> QED
    BY <1>3, <1>4, <2>1, <2>2
<1>6. identities' \in [DOMAIN identities' -> Identity]
  <2>1. \A s \in Strangers(l) : [basis |-> CredBasis(l[s]), legacy |-> s] \in Identity
    BY <1>2, CredBasisFacts DEF Identity
  <2>2. \A i \in DOMAIN identities : identities[i] \in Identity
    BY <1>2 DEF TypeOK, Range
  <2>3. identities' = [i \in DOMAIN identities' |-> identities'[i]]
    BY <1>1
  <2>4. ASSUME NEW i \in DOMAIN identities' PROVE identities'[i] \in Identity
    <3>1. CASE i \in DOMAIN identities
      BY <1>5, <2>2, <3>1
    <3>2. CASE \E s \in Strangers(l) : i = new[s]
      BY <1>5, <2>1, <3>2
    <3> QED
      BY <1>5, <3>1, <3>2
  <2> QED
    BY <2>3, <2>4
<1>7. ids = [s \in Slots |-> IF s \in Strangers(l) THEN new[s]
                            ELSE IF s \in Filled(l) THEN CHOOSE i \in Matching(l, s) : TRUE
                            ELSE NoId]
  <2>1. \A s \in Slots : (IF s \in Filled(l) THEN Given(l, new, s) ELSE NoId)
                            = IF s \in Strangers(l) THEN new[s]
                              ELSE IF s \in Filled(l) THEN CHOOSE i \in Matching(l, s) : TRUE
                              ELSE NoId
    BY <1>2 DEF Given
  <2> QED
    BY <2>1
<1>8. disc' = [disc EXCEPT ![d].pc = "check", ![d].seen = l, ![d].ids = ids]
  BY <1>1, <1>7
<1>9. answer' = [c \in Creds |-> IF \E s \in Filled(l) : l[s] = c
                                 THEN ids[CHOOSE s \in Filled(l) : l[s] = c]
                                 ELSE answer[c]]
  BY <1>1, <1>7
<1> HIDE DEF ids
<1>10. \A c \in Creds : \/ \E s \in Filled(l) : l[s] = c /\ answer'[c] = Given(l, new, s)
                        \/ answer'[c] = answer[c] /\ ~\E s \in Filled(l) : l[s] = c
  <2>1. \A s \in Filled(l) : ids[s] = Given(l, new, s)
    BY <1>2 DEF ids
  <2> QED
    BY <1>2, <1>9, <2>1
<1>11. answer' \in [Creds -> DOMAIN identities' \cup {NoId}]
  <2>1. \A s \in Filled(l) : Given(l, new, s) \in DOMAIN identities'
    BY <1>2, <1>5, GivenFacts
  <2>2. \A c \in Creds : answer[c] \in DOMAIN identities' \cup {NoId}
    BY <1>2, <1>5 DEF TypeOK
  <2>3. answer' = [c \in Creds |-> answer'[c]]
    BY <1>9
  <2> QED
    BY <1>10, <2>1, <2>2, <2>3
<1>12. pats' = [i \in Ids \cup Slots |->
                  IF i \in heir THEN NoPat
                  ELSE IF inherits(i) THEN [pats[from(i)] EXCEPT !.key = key]
                  ELSE pats[i]]
  BY <1>1
<1>13. relink' = (relink \ heir) \cup {new[s] : s \in {t \in Strangers(l) : NeedsRelink(l[t], t)}}
  BY <1>1
<1>14. /\ \A i \in Ids \cup Slots : pats[i] \in Pat \cup {NoPat}
       /\ \A s \in heir : pats[s] # NoPat => pats[s].key = key /\ pats[s] \in Pat
       /\ \A s \in heir : from(new[s]) = s
  <2>1. \A s \in heir : from(new[s]) = s
    BY <1>2, <1>3
  <2>2. \A s \in heir : pats[s] = NoPat \/ pats[s].key = key
    BY DEF Migrates, Opens
  <2> QED
    BY <1>2, <2>1, <2>2 DEF TypeOK
<1>15. \A i : inherits(i) => \E s \in heir :
                /\ new[s] = i /\ pats[s] # NoPat /\ pats[s] \in Pat
                /\ [pats[from(i)] EXCEPT !.key = key] = pats[s]
  <2> SUFFICES ASSUME NEW i, NEW s \in heir, new[s] = i, pats[s] # NoPat
               PROVE  [pats[from(i)] EXCEPT !.key = key] = pats[s] /\ pats[s] \in Pat
    OBVIOUS
  <2>1. from(i) = s /\ pats[s].key = key /\ pats[s] \in Pat
    BY <1>14
  <2> HIDE DEF from
  <2> QED
    BY <2>1 DEF Pat
<1>16. /\ \A i \in Ids \cup Slots : pats'[i] \in Pat \cup {NoPat}
       /\ \A s \in Slots : pats'[s] \in {pats[s], NoPat}
       /\ \A s \in heir : pats'[s] = NoPat
       /\ \A i \in Ids : \/ pats'[i] = pats[i]
                         \/ \E s \in Strangers(l) : new[s] = i /\ pats[s] # NoPat /\ pats'[i] = pats[s]
  <2> HIDE DEF heir, from
  <2>1. ASSUME NEW i \in Ids \cup Slots
        PROVE  \/ i \in heir /\ pats'[i] = NoPat
               \/ pats'[i] = pats[i]
               \/ \E s \in heir : new[s] = i /\ pats[s] # NoPat /\ pats[s] \in Pat /\ pats'[i] = pats[s]
    BY <1>12, <1>15
  <2>2. \A s \in heir : s \in Slots /\ s \notin Ids /\ pats'[s] = NoPat /\ new[s] \in Ids
    BY <1>2, <1>3, <1>12, MarkerAssumption
  <2>3. Ids \cap Slots = {}
    BY MarkerAssumption
  <2> QED
    BY <1>2, <1>14, <2>1, <2>2, <2>3
<1>17. Inherits(l, new)
  <2>1. \A i \in DOMAIN identities : pats'[i] = pats[i]
    BY <1>2, <1>3, <1>16 DEF TypeOK
  <2>2. ASSUME NEW s \in Strangers(l), pats'[s] # NoPat PROVE new[s] \in relink'
    <3>1. s \in Slots /\ pats[s] # NoPat /\ s \notin heir
      BY <1>2, <1>16, <2>2
    <3>2. NeedsRelink(l[s], s)
      BY <2>2, <3>1 DEF NeedsRelink, hasLegacyPreference
    <3> QED
      BY <1>13, <2>2, <3>2
  <2>3. /\ legacy' \subseteq legacy
        /\ relink' \subseteq relink \cup {new[s] : s \in Strangers(l)}
        /\ \A i \in relink : i \in Slots \/ i \in relink'
    BY <1>1, <1>2, <1>13
  <2> HIDE DEF heir
  <2> QED
    BY <1>16, <2>1, <2>2, <2>3 DEF Inherits
<1>18. pats' \in [Ids \cup Slots -> Pat \cup {NoPat}]
  BY <1>12, <1>16
<1>19. disc' = [disc EXCEPT ![d].pc = "check", ![d].seen = l,
                            ![d].ids = [s \in Slots |-> IF s \in Filled(l) THEN Given(l, new, s)
                                                        ELSE NoId]]
  BY <1>8 DEF ids
<1>20. UNCHANGED <<key, moved, confirmed>>
  BY DEF Resolve
<1>21. Answers(l, new)
  BY <1>5, <1>10 DEF Answers
<1> QED
  BY <1>2, <1>6, <1>11, <1>17, <1>18, <1>19, <1>20, <1>21 DEF Resolution

-----------------------------------------------------------------------------
(* Accounts *)

LEMMA InitAccount == Init => AccountInv
<1> SUFFICES ASSUME Init PROVE AccountInv
  OBVIOUS
<1>1. DOMAIN identities = {} /\ \A c \in Creds : answer[c] = NoId
  BY DEF Init
<1>2. Used = {}
  BY <1>1 DEF Used
<1> QED
  BY <1>1, <1>2, FS_EmptySet
  DEF AccountInv, Numbered, Derived, OneBasis, OneAnswer, Answered

\* The ids that a resolution draws continue the numbering.
LEMMA ResolveNumbered ==
    ASSUME TypeInv, AccountInv, NEW d, NEW l, NEW new, Resolution(d, l, new)
    PROVE  Numbered'
<1> DEFINE U == Unnamed(l)
           drawn == {new[s] : s \in U}
<1>1. /\ l \in Listing /\ new \in NewIds(l) /\ TypeOK
      /\ DOMAIN identities' = DOMAIN identities \cup {new[s] : s \in Strangers(l)}
  BY DEF TypeInv, Resolution, Answers
<1>2. /\ new \in [Strangers(l) -> Ids]
      /\ \A s, t \in Strangers(l) : new[s] = new[t] => s = t
      /\ \A s \in Strangers(l) : new[s] \notin DOMAIN identities
      /\ \A s \in Strangers(l) :
            IF l[s] \in NamedCreds THEN new[s] = Stable(key, l[s])
            ELSE /\ new[s].drawn > Cardinality(Used)
                 /\ new[s].drawn <= Cardinality(Used) + Cardinality(U)
      /\ IsFiniteSet(U) /\ Cardinality(U) \in Nat /\ Cardinality(Used) \in Nat
      /\ U \subseteq Strangers(l)
  BY <1>1, NewFacts DEF Unnamed
<1> HIDE DEF U
<1>11. \A s \in Strangers(l) : s \in U <=> l[s] \notin NamedCreds
  BY DEF U, Unnamed
<1>3. \A s \in Strangers(l) : new[s].drawn > 0 <=> s \in U
  <2>1. \A s \in Strangers(l) : new[s].drawn \in Nat
    BY <1>2, DrawnFacts
  <2>2. ASSUME NEW s \in Strangers(l) PROVE new[s].drawn > 0 <=> s \in U
    <3>1. CASE l[s] \in NamedCreds
      <4>1. new[s].drawn = 0 /\ s \notin U
        BY <1>2, <1>11, <3>1, DrawnFacts
      <4> QED
        BY <4>1
    <3>2. CASE l[s] \notin NamedCreds
      BY <1>2, <1>11, <2>1, <3>2
    <3> QED
      BY <3>1, <3>2
  <2> QED
    BY <2>2
<1>4. Used' = Used \cup drawn
  BY <1>1, <1>2, <1>3 DEF Used
<1>5. IsFiniteSet(drawn) /\ Cardinality(drawn) = Cardinality(U)
  <2> DEFINE f == [s \in U |-> new[s]]
  <2>1. f \in [U -> drawn] /\ \A s, t \in U : f[s] = f[t] => s = t
    BY <1>2
  <2>2. \A i \in drawn : \E s \in U : f[s] = i
    OBVIOUS
  <2> HIDE DEF f, drawn
  <2>3. f \in Bijection(U, drawn)
    BY <2>1, <2>2 DEF Bijection, Injection, Surjection, IsInjective
  <2> QED
    BY <1>2, <2>3, FS_Bijection DEF ExistsBijection
<1>6. Used \cap drawn = {}
  BY <1>2 DEF Used
<1>7. IsFiniteSet(Used) /\ \A i \in Used : i.drawn <= Cardinality(Used) /\ i \in Ids
  BY <1>1 DEF AccountInv, Numbered, Used, TypeOK
<1> HIDE DEF drawn
<1>8. IsFiniteSet(Used') /\ Cardinality(Used') = Cardinality(Used) + Cardinality(U)
  <2>1. /\ IsFiniteSet(Used \cup drawn)
        /\ Cardinality(Used \cup drawn)
             = Cardinality(Used) + Cardinality(drawn) - Cardinality(Used \cap drawn)
    BY <1>5, <1>7, FS_Union
  <2>2. Cardinality(Used \cap drawn) = 0
    BY <1>6, FS_EmptySet
  <2>3. Cardinality(Used \cup drawn) = Cardinality(Used) + Cardinality(U)
    BY <1>2, <1>5, <2>1, <2>2
  <2> QED
    BY <1>4, <2>1, <2>3
<1>9. ASSUME NEW i \in Used' PROVE i.drawn <= Cardinality(Used')
  <2>1. CASE i \in Used
    <3>1. i.drawn \in Nat /\ i.drawn <= Cardinality(Used)
      BY <1>7, <2>1, DrawnFacts
    <3> QED
      BY <1>2, <1>8, <3>1
  <2>2. CASE i \in drawn
    BY <1>2, <1>8, <1>11, <2>2 DEF drawn
  <2> QED
    BY <1>4, <2>1, <2>2
<1> QED
  BY <1>8, <1>9 DEF Numbered

LEMMA ResolveAccount ==
    ASSUME TypeInv, AccountInv, NEW d, NEW l, NEW new, Resolution(d, l, new)
    PROVE  AccountInv'
<1>1. /\ l \in Listing /\ new \in NewIds(l) /\ TypeOK
      /\ \A s \in Filled(l) : s \in Slots /\ l[s] \in Creds
      /\ \A s, t \in Filled(l) : l[s] = l[t] => s = t
      /\ Strangers(l) \subseteq Filled(l)
      /\ DOMAIN identities' = DOMAIN identities \cup {new[s] : s \in Strangers(l)}
      /\ \A c \in Creds : \/ \E s \in Filled(l) : l[s] = c /\ answer'[c] = Given(l, new, s)
                          \/ answer'[c] = answer[c]
  BY ListingFacts DEF TypeInv, Resolution, Answers
<1>2. /\ \A s, t \in Strangers(l) : new[s] = new[t] => s = t
      /\ \A s \in Strangers(l) : new[s] \notin DOMAIN identities /\ new[s] \in Ids
      /\ \A s \in Strangers(l) :
            IF l[s] \in NamedCreds THEN new[s] = Stable(key, l[s]) ELSE new[s].drawn > 0
  <2>1. /\ \A s, t \in Strangers(l) : new[s] = new[t] => s = t
        /\ \A s \in Strangers(l) : new[s] \notin DOMAIN identities /\ new[s] \in Ids
        /\ \A s \in Strangers(l) :
              IF l[s] \in NamedCreds THEN new[s] = Stable(key, l[s])
              ELSE new[s].drawn > Cardinality(Used)
        /\ Cardinality(Used) \in Nat
    BY <1>1, NewFacts
  <2>2. \A s \in Strangers(l) : new[s].drawn \in Nat
    BY <2>1, DrawnFacts
  <2> QED
    BY <2>1, <2>2
<1>3. /\ \A i \in DOMAIN identities : identities'[i].basis = BasisOf(i)
      /\ \A s \in Strangers(l) : identities'[new[s]].basis = CredBasis(l[s])
  <2>1. /\ \A i \in DOMAIN identities : identities'[i] = identities[i]
        /\ \A s \in Strangers(l) : identities'[new[s]] = [basis |-> CredBasis(l[s]), legacy |-> s]
    BY DEF Resolution, Answers
  <2>2. \A s \in Strangers(l) : [basis |-> CredBasis(l[s]), legacy |-> s].basis = CredBasis(l[s])
    OBVIOUS
  <2> QED
    BY <2>1, <2>2 DEF BasisOf
<1>4. Derived'
  <2>1. ASSUME NEW s \in Strangers(l), new[s].drawn = 0
        PROVE  CredBasis(l[s]) = SourceBasis(new[s].cred)
    <3>1. l[s] \in NamedCreds /\ new[s].cred = l[s] /\ l[s] \in Creds
      BY <1>1, <1>2, <2>1, DrawnFacts
    <3> QED
      BY <1>1, <3>1, CredBasisFacts
  <2> QED
    BY <1>1, <1>3, <2>1 DEF AccountInv, Derived, BasisOf
<1>5. OneBasis'
  <2>1. ASSUME NEW s \in Strangers(l), NEW i \in DOMAIN identities,
               BasisOf(i) = CredBasis(l[s]), BasisOf(i) # NoBasis
        PROVE  FALSE
    BY <2>1 DEF Strangers, Matching, identityMatchesCandidate, BasisOf
  <2>2. ASSUME NEW s \in Strangers(l), NEW t \in Strangers(l),
               CredBasis(l[s]) = CredBasis(l[t]), CredBasis(l[s]) # NoBasis
        PROVE  s = t
    <3>1. l[s] = l[t]
      BY <1>1, <2>2, CredBasisFacts
    <3> QED
      BY <1>1, <3>1
  <2>3. ASSUME NEW i \in DOMAIN identities', NEW j \in DOMAIN identities',
               identities'[i].basis = identities'[j].basis, identities'[i].basis # NoBasis
        PROVE  i = j
    <3>1. CASE i \in DOMAIN identities /\ j \in DOMAIN identities
      BY <1>3, <2>3, <3>1 DEF AccountInv, OneBasis
    <3>2. ASSUME NEW s \in Strangers(l), i = new[s] PROVE i = j
      BY <1>1, <1>3, <2>1, <2>2, <2>3, <3>2
    <3>3. ASSUME NEW t \in Strangers(l), j = new[t] PROVE i = j
      BY <1>1, <1>3, <2>1, <2>2, <2>3, <3>3
    <3> QED
      BY <1>1, <3>1, <3>2, <3>3
  <2> QED
    BY <2>3 DEF OneBasis, BasisOf
<1>6. \A s \in Filled(l) : /\ Given(l, new, s) \in DOMAIN identities'
                           /\ identities'[Given(l, new, s)].basis = CredBasis(l[s])
  BY <1>1, <1>3, GivenFacts
<1>7. Answered'
  <2> SUFFICES ASSUME NEW c \in Creds, answer'[c] # NoId
               PROVE  answer'[c] \in DOMAIN identities' /\ Fits(identities'[answer'[c]].basis, c)
    BY DEF Answered, Fits, BasisOf
  <2>1. CASE \E s \in Filled(l) : l[s] = c /\ answer'[c] = Given(l, new, s)
    <3>1. PICK s \in Filled(l) : l[s] = c /\ answer'[c] = Given(l, new, s)
      BY <2>1
    <3>2. identities'[answer'[c]].basis = CredBasis(c) /\ answer'[c] \in DOMAIN identities'
      BY <1>6, <3>1 DEF BasisOf
    <3> QED
      BY <1>1, <3>2, CredBasisFacts
  <2>2. CASE answer'[c] = answer[c]
    <3>1. answer[c] \in DOMAIN identities /\ Fits(BasisOf(answer[c]), c)
      BY <2>2 DEF AccountInv, Answered
    <3>2. identities'[answer'[c]].basis = BasisOf(answer[c])
      BY <2>2, <3>1, <1>3 DEF BasisOf
    <3> QED
      BY <1>1, <2>2, <3>1, <3>2
  <2> QED
    BY <1>1, <2>1, <2>2
<1>8. OneAnswer'
  <2> SUFFICES ASSUME NEW c \in Creds, NEW e \in Creds, answer'[c] = answer'[e],
                      answer'[c] # NoId
               PROVE  c = e
    BY DEF OneAnswer
  <2>1. ASSUME NEW b \in Creds, NEW s \in Filled(l), l[s] = b,
               answer'[b] = Given(l, new, s), NEW a \in Creds, answer'[a] = answer'[b],
               answer'[a] = answer[a], answer[a] # NoId
        PROVE  a = b
    <3>1. answer[a] \in DOMAIN identities /\ Fits(BasisOf(answer[a]), a)
      BY <2>1 DEF AccountInv, Answered
    <3>2. s \notin Strangers(l)
      <4>1. Given(l, new, s) \in DOMAIN identities
        BY <2>1, <3>1
      <4> QED
        BY <1>2, <4>1 DEF Given
    <3>3. BasisOf(answer[a]) = CredBasis(b) /\ CredBasis(b) # NoBasis
      <4>1. /\ BasisOf(Given(l, new, s)) = CredBasis(l[s])
            /\ CredBasis(l[s]) # NoBasis
        BY <1>1, <3>2, GivenFacts
      <4> QED
        BY <2>1, <4>1
    <3>4. CredBasis(b).cred = b
      BY <1>1, <3>3, CredBasisFacts
    <3> QED
      BY <3>1, <3>3, <3>4, BasisFacts DEF Fits
  <2>2. ASSUME NEW s \in Filled(l), NEW t \in Filled(l), Given(l, new, s) = Given(l, new, t)
        PROVE  l[s] = l[t]
    <3>1. CASE s \in Strangers(l) /\ t \in Strangers(l)
      BY <1>1, <1>2, <2>2, <3>1, GivenFacts
    <3>2. CASE s \notin Strangers(l) /\ t \notin Strangers(l)
      <4>1. CredBasis(l[s]) = CredBasis(l[t]) /\ CredBasis(l[s]) # NoBasis
        BY <1>1, <2>2, <3>2, GivenFacts
      <4> QED
        BY <1>1, <4>1, CredBasisFacts
    <3>3. CASE (s \in Strangers(l)) # (t \in Strangers(l))
      BY <1>1, <1>2, <2>2, <3>3, GivenFacts
    <3> QED
      BY <3>1, <3>2, <3>3
  <2> QED
    BY <1>1, <2>1, <2>2 DEF AccountInv, OneAnswer
<1> QED
  BY <1>4, <1>5, <1>7, <1>8, ResolveNumbered DEF AccountInv

LEMMA NextAccount == TypeInv /\ AccountInv /\ [Next]_vars => AccountInv'
<1> SUFFICES ASSUME TypeInv, AccountInv, [Next]_vars PROVE AccountInv'
  OBVIOUS
<1>1. ASSUME NEW d \in Discoverers, Resolve(d) PROVE AccountInv'
  BY <1>1, ResolveFacts, ResolveAccount
<1>2. CASE UNCHANGED <<identities, answer>>
  BY <1>2
  DEF AccountInv, Numbered, Used, Derived, BasisOf, OneBasis, OneAnswer, Answered
<1> QED
  BY <1>1, <1>2 DEF Next, CheckSnapshot, MoveSnapshot, EnterPat, Restart, record, vars

-----------------------------------------------------------------------------
(* Types *)

LEMMA InitTypes == Init => TypeInv
<1> SUFFICES ASSUME Init PROVE TypeInv
  OBVIOUS
<1>1. PICK old \in Listing, withPat \in SUBSET Slots :
        /\ \A s \in withPat : old[s] # NoCred
        /\ legacy = {s \in Slots : old[s] # NoCred}
        /\ pats = [i \in Ids \cup Slots |->
                     IF i \in withPat THEN [key |-> key, owner |-> old[i], entered |-> FALSE]
                     ELSE NoPat]
        /\ relink \in {{}, withPat}
  BY DEF Init
<1>2. /\ key \in Keys /\ DOMAIN identities = {} /\ confirmed = {}
      /\ moved = [s \in Slots |-> s] /\ answer = [c \in Creds |-> NoId]
      /\ disc = [d \in Discoverers |-> Resting]
  BY DEF Init
<1>3. pats \in [Ids \cup Slots -> Pat \cup {NoPat}]
  <2>1. \A s \in withPat : old[s] \in Creds
    BY <1>1 DEF Listing
  <2>2. \A s \in withPat : [key |-> key, owner |-> old[s], entered |-> FALSE] \in Pat
    BY <1>2, <2>1 DEF Pat
  <2> QED
    BY <1>1, <2>2
<1>4. Unlisted \in Listing /\ Filled(Unlisted) = {}
  <2>1. Unlisted \in [Slots -> Creds \cup {NoCred}] /\ \A s \in Slots : Unlisted[s] = NoCred
    BY DEF Unlisted
  <2> QED
    BY <2>1 DEF Listing, Lists, Filled, Slots
<1>5. Resting \in Discoverer /\ Resting.pc = "idle"
  BY <1>4 DEF Resting, Discoverer
<1>6. TypeOK
  <2>1. legacy \subseteq Slots /\ relink \subseteq Slots
    BY <1>1
  <2>2. disc \in [Discoverers -> Discoverer]
    BY <1>2, <1>5
  <2>3. Range(identities) = {}
    BY <1>2 DEF Range
  <2> QED
    BY <1>2, <1>3, <2>1, <2>2, <2>3 DEF TypeOK
<1>7. Resolved
  BY <1>2, <1>5 DEF Resolved
<1> QED
  BY <1>6, <1>7 DEF TypeInv

LEMMA ResolveTypes ==
    ASSUME TypeInv, AccountInv, NEW d \in Discoverers, NEW l, NEW new, Resolution(d, l, new)
    PROVE  TypeInv'
<1> DEFINE given == [s \in Slots |-> IF s \in Filled(l) THEN Given(l, new, s) ELSE NoId]
<1>1. /\ l \in Listing /\ new \in NewIds(l) /\ TypeOK
      /\ DOMAIN identities' = DOMAIN identities \cup {new[s] : s \in Strangers(l)}
      /\ disc' = [disc EXCEPT ![d].pc = "check", ![d].seen = l, ![d].ids = given]
      /\ answer' \in [Creds -> DOMAIN identities' \cup {NoId}]
      /\ identities' \in [DOMAIN identities' -> Identity]
      /\ pats' \in [Ids \cup Slots -> Pat \cup {NoPat}]
      /\ legacy' \subseteq legacy
      /\ relink' \subseteq relink \cup {new[s] : s \in Strangers(l)}
      /\ UNCHANGED <<key, moved, confirmed>>
  BY DEF TypeInv, Resolution, Answers, Inherits
<1>2. DOMAIN identities' \subseteq Ids /\ DOMAIN identities \subseteq DOMAIN identities'
  <2>1. \A s \in Strangers(l) : new[s] \in Ids
    BY <1>1, NewFacts
  <2> QED
    BY <1>1, <2>1 DEF TypeOK
<1>3. \A s \in Filled(l) : s \in Slots /\ Given(l, new, s) \in DOMAIN identities'
  BY <1>1, ListingFacts, GivenFacts
<1>4. /\ given \in [Slots -> Ids \cup {NoId}]
      /\ \A s \in Filled(l) : given[s] \in DOMAIN identities'
  BY <1>2, <1>3
<1> HIDE DEF given
<1>5. /\ disc' \in [Discoverers -> Discoverer]
      /\ disc'[d].pc = "check" /\ disc'[d].seen = l /\ disc'[d].ids = given
      /\ \A e \in Discoverers \ {d} : disc'[e] = disc[e]
  <2> DEFINE x == [disc[d] EXCEPT !.pc = "check", !.seen = l, !.ids = given]
  <2>1. disc \in [Discoverers -> Discoverer] /\ disc[d] \in Discoverer
    BY <1>1 DEF TypeOK
  <2>2. x \in Discoverer /\ x.pc = "check" /\ x.seen = l /\ x.ids = given
    BY <1>1, <1>4, <2>1 DEF Discoverer
  <2>3. disc' = [disc EXCEPT ![d] = x]
    BY <1>1, <2>1
  <2> HIDE DEF x
  <2> QED
    BY <2>1, <2>2, <2>3
<1>6. Range(identities') \subseteq Identity
  BY <1>1 DEF Range
<1>7. TypeOK'
  <2>1. relink' \subseteq DOMAIN identities' \cup Slots /\ legacy' \subseteq Slots
    BY <1>1, <1>2 DEF TypeOK
  <2>2. /\ moved' \in [Slots -> Slots \cup DOMAIN identities']
        /\ confirmed' \subseteq DOMAIN identities' /\ key' \in Keys \cup {NoKey}
    BY <1>1, <1>2 DEF TypeOK
  <2> QED
    BY <1>1, <1>2, <1>5, <1>6, <2>1, <2>2 DEF TypeOK
<1>8. Resolved'
  <2> SUFFICES ASSUME NEW e \in Discoverers
               PROVE  /\ disc'[e].pc # "idle" =>
                            \A s \in Filled(disc'[e].seen) : disc'[e].ids[s] \in DOMAIN identities'
                      /\ disc'[e].pc = "move" =>
                            /\ disc'[e].slot \in Slots \ Filled(disc'[e].seen)
                            /\ disc'[e].ids[disc'[e].slot] \in DOMAIN identities'
    BY DEF Resolved, Filled
  <2>1. CASE e = d
    BY <1>4, <1>5, <2>1
  <2>2. CASE e # d
    BY <1>2, <1>5, <2>2 DEF TypeInv, Resolved
  <2> QED
    BY <2>1, <2>2
<1> QED
  BY <1>7, <1>8 DEF TypeInv

LEMMA CheckTypes ==
    ASSUME TypeInv, NEW d \in Discoverers, CheckSnapshot(d)
    PROVE  TypeInv'
<1>1. /\ disc \in [Discoverers -> Discoverer] /\ disc[d] \in Discoverer /\ TypeOK
      /\ disc[d].seen \in Listing /\ disc[d].ids \in [Slots -> Ids \cup {NoId}]
      /\ \A s \in Filled(disc[d].seen) : disc[d].ids[s] \in DOMAIN identities
  BY DEF TypeInv, TypeOK, Discoverer, CheckSnapshot, Resolved
<1>2. PICK s \in Filled(disc[d].seen) :
        LET rest == [disc[d].seen EXCEPT ![s] = NoCred]
        IN disc' = [disc EXCEPT ![d] =
             IF canMigrateLegacySnapshot(disc[d].seen[s], s, disc[d].ids[s])
             THEN [@ EXCEPT !.pc = "move", !.slot = s, !.seen = rest]
             ELSE IF rest = Unlisted THEN Resting
             ELSE [@ EXCEPT !.seen = rest, !.ids[s] = NoId]]
  BY DEF CheckSnapshot
<1> DEFINE rest == [disc[d].seen EXCEPT ![s] = NoCred]
           x == [disc[d] EXCEPT !.pc = "move", !.slot = s, !.seen = rest]
           y == [disc[d] EXCEPT !.seen = rest, !.ids = [disc[d].ids EXCEPT ![s] = NoId]]
<1>3. /\ s \in Slots /\ rest \in Listing /\ Filled(rest) = Filled(disc[d].seen) \ {s}
      /\ UNCHANGED <<key, record, moved, answer, confirmed>>
  BY <1>1, ListingFacts DEF CheckSnapshot
<1> HIDE DEF rest
<1>4. /\ x \in Discoverer /\ x.seen = rest /\ x.ids = disc[d].ids
      /\ x.slot = s
  BY <1>1, <1>3 DEF Discoverer
<1>5. /\ y \in Discoverer /\ y.seen = rest /\ y.ids = [disc[d].ids EXCEPT ![s] = NoId]
      /\ y.pc = disc[d].pc /\ disc[d].pc = "check"
  BY <1>1, <1>3 DEF Discoverer, CheckSnapshot
<1>6. /\ Unlisted \in Listing /\ Resting \in Discoverer /\ Resting.pc = "idle"
  <2>1. Unlisted \in [Slots -> Creds \cup {NoCred}] /\ \A t \in Slots : Unlisted[t] = NoCred
    BY DEF Unlisted
  <2>2. Unlisted \in Listing
    BY <2>1 DEF Listing, Lists, Slots
  <2> QED
    BY <2>2 DEF Resting, Discoverer
<1>7. disc' = [disc EXCEPT ![d] = disc'[d]] /\ disc'[d] \in {x, y, Resting}
  BY <1>1, <1>2 DEF rest
<1> HIDE DEF x, y
<1>8. disc' \in [Discoverers -> Discoverer] /\ \A e \in Discoverers \ {d} : disc'[e] = disc[e]
  BY <1>1, <1>4, <1>5, <1>6, <1>7
<1>9. TypeOK'
  BY <1>1, <1>3, <1>8 DEF TypeOK, record
<1>10. Resolved'
  <2> SUFFICES ASSUME NEW e \in Discoverers
               PROVE  /\ disc'[e].pc # "idle" =>
                            \A t \in Filled(disc'[e].seen) : disc'[e].ids[t] \in DOMAIN identities
                      /\ disc'[e].pc = "move" =>
                            /\ disc'[e].slot \in Slots \ Filled(disc'[e].seen)
                            /\ disc'[e].ids[disc'[e].slot] \in DOMAIN identities
    BY <1>3 DEF Resolved, Filled, record
  <2>1. CASE e # d
    BY <1>8, <2>1 DEF TypeInv, Resolved
  <2>2. CASE e = d /\ disc'[d] = x
    BY <1>1, <1>3, <1>4, <2>2
  <2>3. CASE e = d /\ disc'[d] = y
    <3>1. \A t \in Filled(rest) : t \in Slots /\ y.ids[t] = disc[d].ids[t]
      BY <1>1, <1>3, <1>5, ListingFacts
    <3> QED
      BY <1>1, <1>3, <1>5, <2>3, <3>1
  <2>4. CASE e = d /\ disc'[d] = Resting
    BY <1>6, <2>4
  <2> QED
    BY <1>7, <2>1, <2>2, <2>3, <2>4
<1> QED
  BY <1>9, <1>10 DEF TypeInv

LEMMA MoveTypes ==
    ASSUME TypeInv, NEW d \in Discoverers, MoveSnapshot(d)
    PROVE  TypeInv'
<1> DEFINE s == disc[d].slot
           x == [disc[d] EXCEPT !.pc = "check", !.slot = NoCred,
                                !.ids = [disc[d].ids EXCEPT ![s] = NoId]]
<1>1. /\ disc \in [Discoverers -> Discoverer] /\ disc[d] \in Discoverer /\ TypeOK
      /\ disc[d].seen \in Listing /\ disc[d].ids \in [Slots -> Ids \cup {NoId}]
      /\ \A t \in Filled(disc[d].seen) : disc[d].ids[t] \in DOMAIN identities
      /\ s \in Slots /\ s \notin Filled(disc[d].seen) /\ disc[d].ids[s] \in DOMAIN identities
  BY DEF TypeInv, TypeOK, Discoverer, MoveSnapshot, Resolved
<1>2. /\ moved' = [moved EXCEPT ![s] = IF @ = s THEN disc[d].ids[s] ELSE @]
      /\ disc' = [disc EXCEPT ![d] =
            IF @.seen = Unlisted THEN Resting
            ELSE [@ EXCEPT !.pc = "check", !.slot = NoCred, !.ids[s] = NoId]]
      /\ UNCHANGED <<key, record, answer, confirmed>>
  BY DEF MoveSnapshot
<1> HIDE DEF s
<1>3. /\ x \in Discoverer /\ x.seen = disc[d].seen /\ x.ids = [disc[d].ids EXCEPT ![s] = NoId]
      /\ x.pc = "check"
  BY <1>1 DEF Discoverer
<1>4. /\ Unlisted \in Listing /\ Resting \in Discoverer /\ Resting.pc = "idle"
  <2>1. Unlisted \in [Slots -> Creds \cup {NoCred}] /\ \A t \in Slots : Unlisted[t] = NoCred
    BY DEF Unlisted
  <2>2. Unlisted \in Listing
    BY <2>1 DEF Listing, Lists, Slots
  <2> QED
    BY <2>2 DEF Resting, Discoverer
<1>5. disc' = [disc EXCEPT ![d] = disc'[d]] /\ disc'[d] \in {x, Resting}
  BY <1>1, <1>2
<1> HIDE DEF x
<1>6. disc' \in [Discoverers -> Discoverer] /\ \A e \in Discoverers \ {d} : disc'[e] = disc[e]
  BY <1>1, <1>3, <1>4, <1>5
<1>7. moved' \in [Slots -> Slots \cup DOMAIN identities]
  BY <1>1, <1>2 DEF TypeOK
<1>8. TypeOK'
  BY <1>1, <1>2, <1>6, <1>7 DEF TypeOK, record
<1>9. Resolved'
  <2> SUFFICES ASSUME NEW e \in Discoverers
               PROVE  /\ disc'[e].pc # "idle" =>
                            \A t \in Filled(disc'[e].seen) : disc'[e].ids[t] \in DOMAIN identities
                      /\ disc'[e].pc = "move" =>
                            /\ disc'[e].slot \in Slots \ Filled(disc'[e].seen)
                            /\ disc'[e].ids[disc'[e].slot] \in DOMAIN identities
    BY <1>2 DEF Resolved, Filled, record
  <2>1. CASE e # d
    BY <1>6, <2>1 DEF TypeInv, Resolved
  <2>2. CASE e = d /\ disc'[d] = x
    <3>1. \A t \in Filled(disc[d].seen) : t \in Slots /\ x.ids[t] = disc[d].ids[t]
      BY <1>1, <1>3, ListingFacts
    <3> QED
      BY <1>1, <1>3, <2>2, <3>1
  <2>3. CASE e = d /\ disc'[d] = Resting
    BY <1>4, <2>3
  <2> QED
    BY <1>5, <2>1, <2>2, <2>3
<1> QED
  BY <1>8, <1>9 DEF TypeInv

LEMMA EnterTypes ==
    ASSUME TypeInv, NEW c \in Creds, EnterPat(c)
    PROVE  TypeInv'
<1>1. /\ answer[c] \in DOMAIN identities /\ TypeOK
      /\ \/ /\ key # NoKey
            /\ pats' = [pats EXCEPT ![answer[c]] = [key |-> key, owner |-> c, entered |-> TRUE]]
         \/ pats' = [pats EXCEPT ![answer[c]] = NoPat]
      /\ relink' = relink \ {answer[c]} /\ confirmed' = confirmed \cup {answer[c]}
      /\ UNCHANGED <<key, identities, legacy, moved, disc, answer>>
  BY DEF EnterPat, TypeInv
<1>2. key # NoKey => [key |-> key, owner |-> c, entered |-> TRUE] \in Pat
  BY <1>1 DEF TypeOK, Pat
<1>3. pats' \in [Ids \cup Slots -> Pat \cup {NoPat}]
  BY <1>1, <1>2 DEF TypeOK
<1>4. TypeOK'
  BY <1>1, <1>3 DEF TypeOK
<1>5. Resolved'
  BY <1>1 DEF TypeInv, Resolved, Filled
<1> QED
  BY <1>4, <1>5 DEF TypeInv

LEMMA RestartTypes == TypeInv /\ Restart => TypeInv'
<1> SUFFICES ASSUME TypeInv, Restart PROVE TypeInv'
  OBVIOUS
<1>1. /\ key' \in Keys \cup {NoKey} /\ disc' = [d \in Discoverers |-> Resting]
      /\ UNCHANGED <<identities, legacy, pats, relink, moved, answer, confirmed>>
  BY DEF Restart, record
<1>2. Unlisted \in [Slots -> Creds \cup {NoCred}] /\ \A t \in Slots : Unlisted[t] = NoCred
  BY DEF Unlisted
<1>3. Unlisted \in Listing
  BY <1>2 DEF Listing, Lists, Slots
<1>4. Resting \in Discoverer /\ Resting.pc = "idle"
  BY <1>3 DEF Resting, Discoverer
<1>5. TypeOK'
  BY <1>1, <1>4 DEF TypeInv, TypeOK
<1>6. Resolved'
  BY <1>1, <1>4 DEF Resolved
<1> QED
  BY <1>5, <1>6 DEF TypeInv

LEMMA NextTypes == TypeInv /\ AccountInv /\ [Next]_vars => TypeInv'
<1> SUFFICES ASSUME TypeInv, AccountInv, [Next]_vars PROVE TypeInv'
  OBVIOUS
<1>1. ASSUME NEW d \in Discoverers, Resolve(d) PROVE TypeInv'
  BY <1>1, ResolveFacts, ResolveTypes
<1>2. CASE UNCHANGED vars
  BY <1>2 DEF vars, record, TypeInv, TypeOK, Resolved, Filled
<1> QED
  BY <1>1, <1>2, CheckTypes, MoveTypes, EnterTypes, RestartTypes DEF Next

-----------------------------------------------------------------------------
(* PATs *)

LEMMA InitEntered == Init => EnteredInv /\ HistoryInv
<1> SUFFICES ASSUME Init PROVE EnteredInv /\ HistoryInv
  OBVIOUS
<1>1. PICK old \in Listing, withPat \in SUBSET Slots :
        pats = [i \in Ids \cup Slots |->
                  IF i \in withPat THEN [key |-> key, owner |-> old[i], entered |-> FALSE]
                  ELSE NoPat]
  BY DEF Init
<1>2. /\ DOMAIN identities = {}
      /\ \A d \in Discoverers : disc[d].pc = "idle"
  BY DEF Init, Resting
<1>3. \A i \in Ids : pats[i] = NoPat
  BY <1>1, MarkerAssumption
<1>4. \A s \in Slots : pats[s] = NoPat \/ ~pats[s].entered
  BY <1>1
<1> QED
  BY <1>2, <1>3, <1>4 DEF EnteredInv, HistoryInv

LEMMA ResolveEntered ==
    ASSUME TypeInv, AccountInv, EnteredInv, NEW d, NEW l, NEW new, Resolution(d, l, new)
    PROVE  EnteredInv'
<1>1. /\ l \in Listing /\ new \in NewIds(l) /\ TypeOK
      /\ \A s \in Filled(l) : s \in Slots /\ l[s] \in Creds
      /\ Strangers(l) \subseteq Filled(l)
      /\ DOMAIN identities' = DOMAIN identities \cup {new[s] : s \in Strangers(l)}
      /\ \A i \in DOMAIN identities : identities'[i] = identities[i]
      /\ \A c \in Creds : \/ \E s \in Filled(l) : l[s] = c /\ answer'[c] = Given(l, new, s)
                          \/ answer'[c] = answer[c]
      /\ \A s \in Slots : pats'[s] \in {pats[s], NoPat}
      /\ \A i \in DOMAIN identities : pats'[i] = pats[i]
      /\ \A i \in Ids : \/ pats'[i] = pats[i]
                        \/ \E s \in Strangers(l) : new[s] = i /\ pats[s] # NoPat /\ pats'[i] = pats[s]
  BY ListingFacts DEF TypeInv, Resolution, Answers, Inherits
<1>2. /\ \A s \in Slots : pats[s] = NoPat \/ ~pats[s].entered
      /\ \A i \in Ids \ DOMAIN identities : pats[i] = NoPat
      /\ \A s \in Strangers(l) : new[s] \in Ids \ DOMAIN identities
  BY <1>1, NewFacts DEF EnteredInv
<1>3. \A s \in Slots : pats'[s] = NoPat \/ ~pats'[s].entered
  BY <1>1, <1>2
<1>4. \A i \in Ids \ DOMAIN identities' : pats'[i] = NoPat
  BY <1>1, <1>2
<1>5. ASSUME NEW i \in DOMAIN identities, pats'[i] # NoPat, pats'[i].entered
      PROVE  /\ identities'[i].basis = NoBasis \/ identities'[i].basis.cred = pats'[i].owner
             /\ \A c \in Creds : answer'[c] = i => c = pats'[i].owner
  <2>1. /\ pats'[i] = pats[i] /\ identities'[i].basis = BasisOf(i)
        /\ BasisOf(i) = NoBasis \/ BasisOf(i).cred = pats[i].owner
        /\ \A c \in Creds : answer[c] = i => c = pats[i].owner
    BY <1>1, <1>5 DEF EnteredInv, Owned, BasisOf
  <2>2. ASSUME NEW s \in Filled(l), Given(l, new, s) = i
        PROVE  l[s] = pats[i].owner
    <3>1. s \notin Strangers(l)
      BY <1>2, <2>2 DEF Given
    <3>2. BasisOf(i) = CredBasis(l[s]) /\ CredBasis(l[s]) # NoBasis
      BY <1>1, <2>2, <3>1, GivenFacts
    <3> QED
      BY <1>1, <2>1, <3>2, CredBasisFacts
  <2> QED
    BY <1>1, <2>1, <2>2
<1>6. ASSUME NEW i \in DOMAIN identities', i \notin DOMAIN identities
      PROVE  pats'[i] = NoPat \/ ~pats'[i].entered
  BY <1>1, <1>2, <1>6
<1>7. \A i \in DOMAIN identities' : Owned(i)'
  BY <1>5, <1>6 DEF Owned, BasisOf
<1> QED
  BY <1>3, <1>4, <1>7 DEF EnteredInv

LEMMA ResolveHistory ==
    ASSUME TypeInv, AccountInv, HistoryInv, NEW d \in Discoverers, NEW l, NEW new,
           Resolution(d, l, new)
    PROVE  HistoryInv'
<1>1. /\ l \in Listing /\ new \in NewIds(l) /\ TypeOK
      /\ DOMAIN identities' = DOMAIN identities \cup {new[s] : s \in Strangers(l)}
      /\ \A i \in DOMAIN identities : identities'[i] = identities[i]
      /\ \A s \in Strangers(l) : identities'[new[s]] = [basis |-> CredBasis(l[s]), legacy |-> s]
      /\ \A s \in Slots : pats'[s] \in {pats[s], NoPat}
      /\ \A i \in relink : i \in Slots \/ i \in relink'
      /\ \A s \in Strangers(l) : pats'[s] = NoPat \/ new[s] \in relink'
      /\ confirmed' = confirmed
      /\ disc' = [disc EXCEPT ![d].pc = "check", ![d].seen = l,
                              ![d].ids = [s \in Slots |-> IF s \in Filled(l) THEN Given(l, new, s)
                                                          ELSE NoId]]
  BY DEF TypeInv, Resolution, Answers, Inherits
<1>2. /\ DOMAIN identities \subseteq Ids /\ Ids \cap Slots = {}
      /\ \A i \in DOMAIN identities : identities[i].legacy \in Slots
      /\ disc \in [Discoverers -> Discoverer]
  BY <1>1, MarkerAssumption DEF TypeOK, Range, Identity
<1>3. ASSUME NEW i \in DOMAIN identities'
      PROVE  pats'[identities'[i].legacy] = NoPat \/ i \in relink' \cup confirmed'
  <2>1. CASE i \in DOMAIN identities
    <3>1. identities'[i].legacy = identities[i].legacy
      BY <1>1, <2>1
    <3>2. \/ pats[identities[i].legacy] = NoPat
          \/ i \in relink \cup confirmed
      BY <2>1 DEF HistoryInv
    <3> QED
      BY <1>1, <1>2, <2>1, <3>1, <3>2
  <2>2. ASSUME NEW s \in Strangers(l), i = new[s]
        PROVE  pats'[identities'[i].legacy] = NoPat \/ i \in relink' \cup confirmed'
    <3>1. identities'[i].legacy = s
      <4>1. identities'[i] = [basis |-> CredBasis(l[s]), legacy |-> s]
        BY <1>1, <2>2
      <4> QED
        BY <4>1
    <3> QED
      BY <1>1, <2>2, <3>1
  <2> QED
    BY <1>1, <2>1, <2>2
<1>4. ASSUME NEW e \in Discoverers, disc'[e].pc = "move"
      PROVE  pats'[disc'[e].slot] = NoPat \/ disc'[e].ids[disc'[e].slot] \in confirmed'
  <2>1. disc[d] \in Discoverer
    BY <1>2
  <2>2. disc'[d].pc = "check"
    BY <1>1, <1>2, <2>1 DEF Discoverer
  <2>3. e # d /\ disc'[e] = disc[e]
    BY <1>1, <1>2, <1>4, <2>2
  <2>4. disc[e].slot \in Slots
    BY <1>4, <2>3 DEF TypeInv, Resolved
  <2>5. pats[disc[e].slot] = NoPat \/ disc[e].ids[disc[e].slot] \in confirmed
    BY <1>4, <2>3 DEF HistoryInv
  <2> QED
    BY <1>1, <2>3, <2>4, <2>5
<1> QED
  BY <1>3, <1>4 DEF HistoryInv

LEMMA CheckHistory ==
    ASSUME TypeInv, HistoryInv, NEW d \in Discoverers, CheckSnapshot(d)
    PROVE  HistoryInv'
<1>1. /\ disc \in [Discoverers -> Discoverer] /\ disc[d] \in Discoverer /\ disc[d].pc = "check"
      /\ UNCHANGED <<identities, pats, relink, confirmed>>
      /\ \A s \in Filled(disc[d].seen) : s \in Slots /\ disc[d].ids[s] \in DOMAIN identities
  BY ListingFacts DEF TypeInv, TypeOK, Discoverer, Resolved, CheckSnapshot, record
<1>2. PICK s \in Filled(disc[d].seen) :
        LET rest == [disc[d].seen EXCEPT ![s] = NoCred]
        IN disc' = [disc EXCEPT ![d] =
             IF canMigrateLegacySnapshot(disc[d].seen[s], s, disc[d].ids[s])
             THEN [@ EXCEPT !.pc = "move", !.slot = s, !.seen = rest]
             ELSE IF rest = Unlisted THEN Resting
             ELSE [@ EXCEPT !.seen = rest, !.ids[s] = NoId]]
  BY DEF CheckSnapshot
<1> DEFINE i == disc[d].ids[s]
<1>3. /\ \A e \in Discoverers \ {d} : disc'[e] = disc[e]
      /\ disc'[d].pc = "move" =>
            /\ canMigrateLegacySnapshot(disc[d].seen[s], s, i)
            /\ disc'[d].slot = s /\ disc'[d].ids = disc[d].ids
  <2>1. CASE canMigrateLegacySnapshot(disc[d].seen[s], s, i)
    BY <1>1, <1>2, <2>1 DEF Discoverer
  <2>2. CASE ~canMigrateLegacySnapshot(disc[d].seen[s], s, i)
    <3> DEFINE y == [disc[d] EXCEPT !.seen = [disc[d].seen EXCEPT ![s] = NoCred],
                                   !.ids = [disc[d].ids EXCEPT ![s] = NoId]]
    <3>1. disc' = [disc EXCEPT ![d] = Resting] \/ disc' = [disc EXCEPT ![d] = y]
      BY <1>1, <1>2, <2>2
    <3>2. y.pc = "check"
      BY <1>1 DEF Discoverer
    <3> HIDE DEF y
    <3> QED
      BY <1>1, <3>1, <3>2 DEF Resting
  <2> QED
    BY <2>1, <2>2
<1>4. disc'[d].pc = "move" => pats[s] = NoPat \/ i \in confirmed
  BY <1>1, <1>3 DEF HistoryInv, canMigrateLegacySnapshot
<1>5. ASSUME NEW e \in Discoverers, disc'[e].pc = "move"
      PROVE  pats'[disc'[e].slot] = NoPat \/ disc'[e].ids[disc'[e].slot] \in confirmed'
  <2>1. CASE e = d
    BY <1>1, <1>3, <1>4, <1>5, <2>1
  <2>2. CASE e # d
    BY <1>1, <1>3, <1>5, <2>2 DEF HistoryInv
  <2> QED
    BY <2>1, <2>2
<1> QED
  BY <1>1, <1>5 DEF HistoryInv

LEMMA MoveHistory ==
    ASSUME TypeInv, HistoryInv, NEW d \in Discoverers, MoveSnapshot(d)
    PROVE  HistoryInv'
<1>1. /\ disc \in [Discoverers -> Discoverer] /\ disc[d] \in Discoverer
      /\ UNCHANGED <<identities, pats, relink, confirmed>>
      /\ disc' = [disc EXCEPT ![d] =
            IF @.seen = Unlisted THEN Resting
            ELSE [@ EXCEPT !.pc = "check", !.slot = NoCred, !.ids[disc[d].slot] = NoId]]
  BY DEF TypeInv, TypeOK, MoveSnapshot, record
<1>2. disc'[d].pc # "move" /\ \A e \in Discoverers \ {d} : disc'[e] = disc[e]
  <2>1. CASE disc[d].seen = Unlisted
    BY <1>1, <2>1 DEF Resting
  <2>2. CASE disc[d].seen # Unlisted
    <3> DEFINE x == [disc[d] EXCEPT !.pc = "check", !.slot = NoCred,
                                   !.ids = [disc[d].ids EXCEPT ![disc[d].slot] = NoId]]
    <3>1. disc' = [disc EXCEPT ![d] = x]
      BY <1>1, <2>2
    <3>2. x.pc = "check"
      BY <1>1 DEF Discoverer
    <3> HIDE DEF x
    <3> QED
      BY <1>1, <3>1, <3>2
  <2> QED
    BY <2>1, <2>2
<1> QED
  BY <1>1, <1>2 DEF HistoryInv

LEMMA EnterEntered ==
    ASSUME TypeInv, AccountInv, EnteredInv, NEW c \in Creds, EnterPat(c)
    PROVE  EnteredInv'
<1> PICK a : a = answer[c]
  OBVIOUS
<1>1. /\ a \in DOMAIN identities /\ a \in Ids /\ a \notin Slots /\ a # NoId
      /\ pats \in [Ids \cup Slots -> Pat \cup {NoPat}]
      /\ \/ pats' = [pats EXCEPT ![a] = [key |-> key, owner |-> c, entered |-> TRUE]]
         \/ pats' = [pats EXCEPT ![a] = NoPat]
      /\ UNCHANGED <<identities, answer>>
  BY MarkerAssumption DEF EnterPat, TypeInv, TypeOK
<1>2. /\ \A i \in (Ids \cup Slots) \ {a} : pats'[i] = pats[i]
      /\ pats'[a] = NoPat \/ pats'[a].owner = c
  BY <1>1
<1>3. BasisOf(a) = NoBasis \/ BasisOf(a).cred = c
  <2>1. Fits(BasisOf(a), c)
    BY <1>1 DEF AccountInv, Answered
  <2> QED
    BY <2>1, BasisFacts DEF Fits
<1>4. \A e \in Creds : answer[e] = a => e = c
  BY <1>1 DEF AccountInv, OneAnswer
<1>5. Owned(a)'
  BY <1>1, <1>2, <1>3, <1>4 DEF Owned, BasisOf
<1>6. ASSUME NEW i \in DOMAIN identities, i # a PROVE Owned(i)'
  <2>1. i \in Ids /\ Owned(i)
    BY DEF TypeInv, TypeOK, EnteredInv
  <2> QED
    BY <1>1, <1>2, <1>6, <2>1 DEF Owned, BasisOf
<1>7. /\ \A s \in Slots : pats'[s] = NoPat \/ ~pats'[s].entered
      /\ \A i \in Ids \ DOMAIN identities : pats'[i] = NoPat
  BY <1>1, <1>2 DEF EnteredInv
<1> QED
  BY <1>1, <1>5, <1>6, <1>7 DEF EnteredInv

LEMMA EnterHistory ==
    ASSUME TypeInv, HistoryInv, NEW c \in Creds, EnterPat(c)
    PROVE  HistoryInv'
<1> DEFINE a == answer[c]
<1>1. /\ a \in Ids /\ a \notin Slots
      /\ pats \in [Ids \cup Slots -> Pat \cup {NoPat}]
      /\ \/ pats' = [pats EXCEPT ![a] = [key |-> key, owner |-> c, entered |-> TRUE]]
         \/ pats' = [pats EXCEPT ![a] = NoPat]
      /\ relink' = relink \ {a} /\ confirmed' = confirmed \cup {a}
      /\ UNCHANGED <<identities, disc>>
      /\ \A i \in DOMAIN identities : identities[i].legacy \in Slots
  BY MarkerAssumption DEF EnterPat, TypeInv, TypeOK, Range, Identity
<1>2. \A s \in Slots : pats'[s] = pats[s]
  BY <1>1
<1>3. \A d \in Discoverers : disc[d].pc = "move" => disc[d].slot \in Slots
  BY DEF TypeInv, Resolved
<1> HIDE DEF a
<1> QED
  BY <1>1, <1>2, <1>3 DEF HistoryInv

LEMMA NextPats ==
    TypeInv /\ AccountInv /\ EnteredInv /\ HistoryInv /\ [Next]_vars
        => EnteredInv' /\ HistoryInv'
<1> SUFFICES ASSUME TypeInv, AccountInv, EnteredInv, HistoryInv, [Next]_vars
             PROVE  EnteredInv' /\ HistoryInv'
  OBVIOUS
<1>1. ASSUME NEW d \in Discoverers, Resolve(d) PROVE EnteredInv' /\ HistoryInv'
  <2>1. PICK l, new : Resolution(d, l, new)
    BY <1>1, ResolveFacts
  <2> QED
    BY <2>1, ResolveEntered, ResolveHistory
<1>2. UNCHANGED <<identities, pats, answer>> => EnteredInv'
  BY DEF EnteredInv, Owned, BasisOf
<1>3. ASSUME NEW d \in Discoverers, CheckSnapshot(d) \/ MoveSnapshot(d)
      PROVE  EnteredInv' /\ HistoryInv'
  <2>1. UNCHANGED <<identities, pats, answer>>
    BY <1>3 DEF CheckSnapshot, MoveSnapshot, record
  <2> QED
    BY <1>2, <1>3, <2>1, CheckHistory, MoveHistory
<1>4. CASE Restart
  <2>1. UNCHANGED <<identities, pats, answer>>
    BY <1>4 DEF Restart, record
  <2>2. HistoryInv'
    BY <1>4 DEF Restart, record, HistoryInv, Resting
  <2> QED
    BY <1>2, <2>1, <2>2
<1>5. CASE UNCHANGED vars
  <2>1. UNCHANGED <<identities, pats, answer>>
    BY <1>5 DEF vars, record
  <2>2. HistoryInv'
    BY <1>5 DEF vars, record, HistoryInv
  <2> QED
    BY <1>2, <2>1, <2>2
<1> QED
  BY <1>1, <1>3, <1>4, <1>5, EnterEntered, EnterHistory DEF Next

-----------------------------------------------------------------------------
(* Where the PATs are. A resolution moves the PATs of its heirs and leaves *)
(* all others, so it maps the places of a PAT one to one. That these can   *)
(* be counted is an invariant of its own: only finitely many PATs stand    *)
(* anywhere, those in slots at first and those that were entered.          *)

HoldersOf(q, X) == {i \in Ids \cup Slots : q[i] \in X}
FiniteInv == IsFiniteSet(HoldersOf(pats, Pat))

\* The members of H hand what they hold over to places that held nothing.
HandedOver(q, r, H, to) ==
    /\ H \subseteq Ids \cup Slots
    /\ to \in [H -> Ids \cup Slots]
    /\ \A s, t \in H : to[s] = to[t] => s = t
    /\ \A s \in H : to[s] \notin H /\ q[to[s]] = NoPat /\ r[s] = NoPat /\ r[to[s]] = q[s]
    /\ \A i \in Ids \cup Slots : i \in H \/ (\E s \in H : to[s] = i) \/ r[i] = q[i]

LEMMA HandedOverCounts ==
    ASSUME NEW q, NEW r, NEW H, NEW to, HandedOver(q, r, H, to),
           NEW X, NoPat \notin X, IsFiniteSet(HoldersOf(q, X))
    PROVE  /\ IsFiniteSet(HoldersOf(r, X))
           /\ Cardinality(HoldersOf(r, X)) = Cardinality(HoldersOf(q, X))
<1> DEFINE S == HoldersOf(q, X)
           T == HoldersOf(r, X)
           f == [i \in S |-> IF i \in H THEN to[i] ELSE i]
<1>1. \A i \in S : i \in Ids \cup Slots /\ q[i] \in X /\ q[i] # NoPat
  BY DEF HoldersOf
<1>2. \A i \in S : i \notin H => r[i] = q[i]
  BY <1>1 DEF HandedOver
<1>3. \A i \in S : i \in H => to[i] \in Ids \cup Slots /\ to[i] \notin S /\ r[to[i]] \in X
  BY <1>1 DEF HandedOver
<1>4. \A i \in S : (IF i \in H THEN to[i] ELSE i) \in T
  BY <1>1, <1>2, <1>3 DEF HoldersOf
<1>5. ASSUME NEW a \in S, NEW b \in S, f[a] = f[b] PROVE a = b
  BY <1>3, <1>5 DEF HandedOver
<1>6. ASSUME NEW i \in T PROVE \E a \in S : f[a] = i
  <2>1. i \in Ids \cup Slots /\ r[i] \in X /\ r[i] # NoPat
    BY DEF HoldersOf
  <2>2. i \notin H
    BY <2>1 DEF HandedOver
  <2>3. CASE \E s \in H : to[s] = i
    <3>1. PICK s \in H : to[s] = i
      BY <2>3
    <3>2. s \in S
      BY <2>1, <3>1 DEF HandedOver, HoldersOf
    <3> QED
      BY <3>1, <3>2
  <2>4. CASE r[i] = q[i]
    <3>1. i \in S
      BY <2>1, <2>4 DEF HoldersOf
    <3> QED
      BY <2>2, <3>1
  <2> QED
    BY <2>1, <2>2, <2>3, <2>4 DEF HandedOver
<1>7. f \in [S -> T]
  BY <1>4
<1> HIDE DEF f, S, T
<1>8. f \in Bijection(S, T)
  BY <1>5, <1>6, <1>7 DEF Bijection, Injection, Surjection, IsInjective
<1>9. ExistsBijection(S, T)
  BY <1>8 DEF ExistsBijection
<1>10. IsFiniteSet(T) /\ Cardinality(T) = Cardinality(S)
  <2>1. IsFiniteSet(S)
    BY DEF S
  <2> QED
    BY <1>9, <2>1, FS_Bijection
<1> QED
  BY <1>10 DEF S, T

\* A PAT is sealed again under the key that opened it: it stays the same.
LEMMA ResolveHandsOver ==
    ASSUME TypeInv, AccountInv, EnteredInv, NEW d \in Discoverers, Resolve(d)
    PROVE  \E H, to : HandedOver(pats, pats', H, to)
<1>0. PICK l \in Readings : \E new \in NewIds(l) :
        LET heir == {s \in Strangers(l) : Migrates(l[s], s)}
            from(i) == CHOOSE s \in heir : new[s] = i
            inherits(i) == \E s \in heir : new[s] = i /\ pats[s] # NoPat
        IN pats' = [i \in Ids \cup Slots |->
                      IF i \in heir THEN NoPat
                      ELSE IF inherits(i) THEN [pats[from(i)] EXCEPT !.key = key]
                      ELSE pats[i]]
  BY DEF Resolve
<1>1. PICK new \in NewIds(l) :
        LET heir == {s \in Strangers(l) : Migrates(l[s], s)}
            from(i) == CHOOSE s \in heir : new[s] = i
            inherits(i) == \E s \in heir : new[s] = i /\ pats[s] # NoPat
        IN pats' = [i \in Ids \cup Slots |->
                      IF i \in heir THEN NoPat
                      ELSE IF inherits(i) THEN [pats[from(i)] EXCEPT !.key = key]
                      ELSE pats[i]]
  BY <1>0
<1> DEFINE heir == {s \in Strangers(l) : Migrates(l[s], s)}
           from(i) == CHOOSE s \in heir : new[s] = i
           inherits(i) == \E s \in heir : new[s] = i /\ pats[s] # NoPat
           to == [s \in heir |-> new[s]]
<1>2. /\ l \in Listing /\ TypeOK /\ heir \subseteq Strangers(l) /\ heir \subseteq Slots
      /\ pats \in [Ids \cup Slots -> Pat \cup {NoPat}]
  BY ListingFacts DEF Readings, TypeInv, TypeOK, Strangers, Filled
<1>3. \A s \in heir : /\ new[s] \in Ids /\ new[s] \notin Slots
                      /\ pats[new[s]] = NoPat
                      /\ \A t \in heir : new[s] = new[t] => s = t
  BY <1>2, NewFacts, MarkerAssumption DEF EnteredInv
<1>4. \A s \in heir : pats[s] = NoPat \/ pats[s] = [pats[s] EXCEPT !.key = key]
  BY <1>2 DEF Migrates, Opens, Pat
<1>5. pats' = [i \in Ids \cup Slots |->
                 IF i \in heir THEN NoPat
                 ELSE IF inherits(i) THEN [pats[from(i)] EXCEPT !.key = key]
                 ELSE pats[i]]
  BY <1>1
<1> HIDE DEF heir
<1>6. \A s \in heir : from(new[s]) = s
  BY <1>3
<1>7. \A s \in heir : pats'[s] = NoPat
  BY <1>2, <1>5
<1>8. ASSUME NEW s \in heir PROVE pats'[new[s]] = pats[s]
  <2>1. new[s] \in Ids \cup Slots /\ new[s] \notin heir
    BY <1>2, <1>3
  <2>2. CASE pats[s] = NoPat
    <3>1. ~inherits(new[s])
      BY <1>3, <2>2
    <3> QED
      BY <1>3, <1>5, <2>1, <2>2, <3>1
  <2>3. CASE pats[s] # NoPat
    <3>1. inherits(new[s])
      BY <2>3
    <3>2. pats'[new[s]] = [pats[from(new[s])] EXCEPT !.key = key]
      BY <1>5, <2>1, <3>1
    <3> QED
      BY <1>4, <1>6, <2>3, <3>2
  <2> QED
    BY <2>2, <2>3
<1>9. ASSUME NEW i \in Ids \cup Slots, i \notin heir, \A s \in heir : new[s] # i
      PROVE  pats'[i] = pats[i]
  BY <1>5, <1>9
<1>10. HandedOver(pats, pats', heir, to)
  <2>1. \A s \in heir : to[s] = new[s]
    OBVIOUS
  <2>2. to \in [heir -> Ids \cup Slots]
    BY <1>3
  <2> HIDE DEF to
  <2> QED
    BY <1>2, <1>3, <1>7, <1>8, <1>9, <2>1, <2>2 DEF HandedOver
<1> QED
  BY <1>10

LEMMA InitFinite == Init => FiniteInv
<1> SUFFICES ASSUME Init PROVE FiniteInv
  OBVIOUS
<1>1. HoldersOf(pats, Pat) \subseteq Slots
  BY MarkerAssumption DEF Init, HoldersOf
<1> QED
  BY <1>1, BoundAssumption, FS_Subset DEF FiniteInv

LEMMA NextFinite == TypeInv /\ AccountInv /\ EnteredInv /\ FiniteInv /\ [Next]_vars => FiniteInv'
<1> SUFFICES ASSUME TypeInv, AccountInv, EnteredInv, FiniteInv, [Next]_vars PROVE FiniteInv'
  OBVIOUS
<1>0. NoPat \notin Pat /\ (HoldersOf(pats, Pat))' = HoldersOf(pats', Pat)
  BY MarkerAssumption DEF HoldersOf
<1>1. ASSUME NEW d \in Discoverers, Resolve(d) PROVE FiniteInv'
  BY <1>0, <1>1, ResolveHandsOver, HandedOverCounts DEF FiniteInv
<1>2. ASSUME NEW c \in Creds, EnterPat(c) PROVE FiniteInv'
  <2>1. \A i \in Ids \cup Slots : i # answer[c] => pats'[i] = pats[i]
    BY <1>2 DEF EnterPat, TypeInv, TypeOK
  <2>2. HoldersOf(pats', Pat) \subseteq HoldersOf(pats, Pat) \cup {answer[c]}
    BY <2>1 DEF HoldersOf
  <2>3. IsFiniteSet(HoldersOf(pats, Pat) \cup {answer[c]})
    BY FS_AddElement DEF FiniteInv
  <2> QED
    BY <1>0, <2>2, <2>3, FS_Subset DEF FiniteInv
<1>3. CASE UNCHANGED pats
  BY <1>3 DEF FiniteInv, HoldersOf
<1> QED
  BY <1>1, <1>2, <1>3 DEF Next, CheckSnapshot, MoveSnapshot, Restart, record, vars

-----------------------------------------------------------------------------
(* The theorems *)

Inv == TypeInv /\ AccountInv /\ EnteredInv /\ HistoryInv

LEMMA InvCorrect == Spec => []Inv
<1>1. Init => Inv
  BY InitTypes, InitAccount, InitEntered DEF Inv
<1>2. Inv /\ [Next]_vars => Inv'
  BY NextTypes, NextAccount, NextPats DEF Inv
<1> QED
  BY <1>1, <1>2, PTL DEF Spec

\* The types of the record, of the discoverers and of the histories, among them that
\* an account is never given an id that the record does not hold.
THEOREM IdentityTypes == Spec => []TypeOK
<1>1. Inv => TypeOK
  BY DEF Inv, TypeInv
<1> QED
  BY <1>1, InvCorrect, PTL

\* Two credentials are never the same account, and no basis has two identities: in
\* resolveIdentities a stranger's id is new, and no two matches agree in their basis.
THEOREM IndependentCorrect == Spec => []Independent
<1>1. Inv => Independent
  BY DEF Inv, AccountInv, OneAnswer, OneBasis, BasisOf, Independent
<1> QED
  BY <1>1, InvCorrect, PTL

\* A resolution gives a credential its id again whenever the identity of that id has
\* a basis, and the credential still has that basis.
LEMMA KeptByBasis ==
    ASSUME TypeOK, AccountInv, NEW d, NEW l, NEW new, Resolution(d, l, new),
           NEW c \in Creds, answer[c] # NoId,
           BasisOf(answer[c]) = CredBasis(c), CredBasis(c) # NoBasis
    PROVE  answer'[c] = answer[c]
<1>1. /\ l \in Listing /\ new \in NewIds(l)
      /\ \/ \E s \in Filled(l) : l[s] = c /\ answer'[c] = Given(l, new, s)
         \/ answer'[c] = answer[c]
  BY DEF Resolution, Answers
<1>2. answer[c] \in DOMAIN identities
  BY DEF AccountInv, Answered
<1>3. ASSUME NEW s \in Filled(l), l[s] = c, answer'[c] = Given(l, new, s)
      PROVE  answer'[c] = answer[c]
  <2>1. answer[c] \in Matching(l, s)
    BY <1>2, <1>3 DEF Matching, identityMatchesCandidate, BasisOf
  <2>2. s \notin Strangers(l)
    BY <2>1 DEF Strangers
  <2>3. /\ Given(l, new, s) \in DOMAIN identities
        /\ BasisOf(Given(l, new, s)) = BasisOf(answer[c])
    BY <1>1, <1>3, <2>2, GivenFacts
  <2> QED
    BY <1>2, <1>3, <2>3 DEF AccountInv, OneBasis
<1> QED
  BY <1>1, <1>3

\* No reordering, removal, restart or refresh gives a credential another account_id:
\* only a fingerprint that was not kept, or not under this key, does.
THEOREM IdKeptCorrect == Spec => IdKept
<1> DEFINE Kept(c) == answer'[c] # answer[c] /\ answer[c] # NoId =>
                        /\ c \notin NamedCreds
                        /\ LET basis == identities[answer[c]].basis
                           IN basis = NoBasis \/ basis # CredBasis(c)
           Changes == \A c \in Creds : Kept(c)
<1>1. Inv /\ [Next]_vars => [Changes]_vars
  <2> SUFFICES ASSUME Inv, [Next]_vars, NEW c \in Creds PROVE Kept(c)
    OBVIOUS
  <2>1. ASSUME NEW d \in Discoverers, Resolve(d), answer'[c] # answer[c], answer[c] # NoId
        PROVE  c \notin NamedCreds
                 /\ (BasisOf(answer[c]) = NoBasis \/ BasisOf(answer[c]) # CredBasis(c))
    <3>1. PICK l, new : Resolution(d, l, new)
      BY <2>1, ResolveFacts DEF Inv
    <3>2. ~(BasisOf(answer[c]) = CredBasis(c) /\ CredBasis(c) # NoBasis)
      BY <2>1, <3>1, KeptByBasis DEF Inv, TypeInv
    <3>3. c \in NamedCreds => BasisOf(answer[c]) = CredBasis(c) /\ CredBasis(c) # NoBasis
      BY <2>1, CredBasisFacts DEF Inv, TypeInv, AccountInv, Answered, Fits
    <3> QED
      BY <3>2, <3>3
  <2>2. UNCHANGED answer => Kept(c)
    OBVIOUS
  <2> QED
    BY <2>1, <2>2
    DEF Next, CheckSnapshot, MoveSnapshot, EnterPat, Restart, record, vars, BasisOf
<1>2. Spec => [][Changes]_vars
  BY <1>1, InvCorrect, PTL DEF Spec
<1> QED
  BY <1>2 DEF IdKept

\* A PAT entered for an account is never found at the account of another credential.
THEOREM EnteredCorrect == Spec => []EnteredStays
<1>1. Inv => EnteredStays
  <2> SUFFICES ASSUME Inv, NEW c \in Creds, answer[c] # NoId
               PROVE  \/ pats[answer[c]] = NoPat \/ ~pats[answer[c]].entered
                      \/ pats[answer[c]].owner = c
    BY DEF EnteredStays
  <2>1. Owned(answer[c])
    BY DEF Inv, AccountInv, Answered, EnteredInv
  <2> QED
    BY <2>1 DEF Owned
<1> QED
  BY <1>1, InvCorrect, PTL

\* canMigrateLegacySnapshot lets snapshots follow only an account whose PAT followed,
\* or that the user took in hand, though their locks are not held together.
THEOREM HistoryCorrect == Spec => HistoryFollowsPat
<1> DEFINE Follows == \A s \in Slots : moved[s] = s /\ moved'[s] # s =>
                         pats[s] = NoPat \/ moved'[s] \in confirmed
<1>1. Inv /\ [Next]_vars => [Follows]_vars
  <2> SUFFICES ASSUME Inv, [Next]_vars PROVE Follows
    OBVIOUS
  <2>1. ASSUME NEW d \in Discoverers, MoveSnapshot(d) PROVE Follows
    <3>1. /\ moved' = [moved EXCEPT ![disc[d].slot] =
                          IF @ = disc[d].slot THEN disc[d].ids[disc[d].slot] ELSE @]
          /\ disc[d].pc = "move" /\ moved \in [Slots -> Slots \cup DOMAIN identities]
      BY <2>1 DEF MoveSnapshot, Inv, TypeInv, TypeOK
    <3>2. pats[disc[d].slot] = NoPat \/ disc[d].ids[disc[d].slot] \in confirmed
      BY <3>1 DEF Inv, HistoryInv
    <3> QED
      BY <3>1, <3>2
  <2>2. UNCHANGED moved => Follows
    OBVIOUS
  <2> QED
    BY <2>1, <2>2 DEF Next, Resolve, CheckSnapshot, EnterPat, Restart, record, vars
<1>2. Spec => [][Follows]_vars
  BY <1>1, InvCorrect, PTL DEF Spec
<1> QED
  BY <1>2 DEF HistoryFollowsPat

\* A discovery neither loses nor doubles a PAT nor seals it under another key: it hands
\* PATs over, and leaves one that the present key does not open where it is.
THEOREM PatsMoveCorrect == Spec => PatsMove
<1> DEFINE Moves ==
        disc' # disc /\ pats' # pats =>
            LET places(q, p) == {i \in Ids \cup Slots : q[i] = p}
            IN \A p \in Pat : Cardinality(places(pats', p)) = Cardinality(places(pats, p))
<1>1. Inv /\ FiniteInv /\ [Next]_vars => [Moves]_vars
  <2> SUFFICES ASSUME Inv, FiniteInv, [Next]_vars, disc' # disc, pats' # pats, NEW p \in Pat
               PROVE  Cardinality({i \in Ids \cup Slots : pats'[i] = p})
                        = Cardinality({i \in Ids \cup Slots : pats[i] = p})
    OBVIOUS
  <2>1. PICK d \in Discoverers : Resolve(d)
    BY DEF Next, CheckSnapshot, MoveSnapshot, EnterPat, Restart, record, vars
  <2>2. PICK H, to : HandedOver(pats, pats', H, to)
    BY <2>1, ResolveHandsOver DEF Inv
  <2>3. /\ HoldersOf(pats, {p}) = {i \in Ids \cup Slots : pats[i] = p}
        /\ HoldersOf(pats', {p}) = {i \in Ids \cup Slots : pats'[i] = p}
        /\ HoldersOf(pats, {p}) \subseteq HoldersOf(pats, Pat) /\ NoPat \notin {p}
    BY MarkerAssumption DEF HoldersOf
  <2>4. IsFiniteSet(HoldersOf(pats, {p}))
    BY <2>3, FS_Subset DEF FiniteInv
  <2> QED
    BY <2>2, <2>3, <2>4, HandedOverCounts
<1> HIDE DEF Moves
<1>2. /\ Init => FiniteInv
      /\ Inv /\ FiniteInv /\ [Next]_vars => FiniteInv'
  BY InitFinite, NextFinite DEF Inv
<1>3. Spec => [][Moves]_vars
  BY <1>1, <1>2, InvCorrect, PTL DEF Spec
<1> QED
  BY <1>3, PTL DEF Moves, PatsMove
=============================================================================
