----------------------------- MODULE Identities -----------------------------
(***************************************************************************)
(* The identities of accounts (prefs.go, resolveIdentities and around it,  *)
(* assignStableAccountIDs and discovery in main.go): which account_id a    *)
(* credential of CPA gets, through reordering, rotation, restarts and the  *)
(* loss of the preference key, and what an account inherits from the       *)
(* positional id an earlier version knew it by.                            *)
(*                                                                         *)
(* A slot is such a legacy id: the index of an entry in the source config, *)
(* or the AuthIndex of the host. A credential stands for its source id, or *)
(* for its address and secret. A commit is one step here; its conflicts,   *)
(* its write and its failures are the subject of PrefsStore.               *)
(***************************************************************************)
EXTENDS Naturals, FiniteSets, Functions

CONSTANTS
    StaticSlots,   \* positions in the source config
    HostSlots,     \* AuthIndex values of the host
    StaticCreds,   \* API keys of the source config, each with its address
    NamedCreds,    \* host credentials with a source id
    UnnamedCreds,  \* host credentials the host gives no id
    Keys,          \* preference keys that may be drawn
    Discoverers,   \* runs, pages and quota fetches that discover accounts
    MaxIds,        \* bound: random ids drawn
    NoCred, NoKey, NoPat, NoId

Slots == StaticSlots \cup HostSlots
HostCreds == NamedCreds \cup UnnamedCreds
Creds == StaticCreds \cup HostCreds

\* newAccountID draws; stableAccountID is a function of key and credential.
Random(n) == [drawn |-> n, seal |-> NoKey, cred |-> NoCred]
Stable(k, c) == [drawn |-> 0, seal |-> k, cred |-> c]
Ids == {Random(n) : n \in 1..MaxIds}
         \cup {Stable(k, c) : k \in Keys \cup {NoKey}, c \in NamedCreds}
\* Ghost: the credential the user entered the PAT for, and if that was at an
\* account of this version.
Pat == [key : Keys, owner : Creds, entered : BOOLEAN]
\* What an identity and a candidate are matched by: the source id, or the
\* fingerprint, keyed by the preference key. It is empty without a key.
Basis == [seal : Keys \cup {NoKey}, cred : Creds]
NoBasis == NoId
Identity == [basis : Basis \cup {NoBasis}, legacy : Slots]
\* CPA lists a credential once, in a slot of its source.
Lists(l) ==
    /\ \A s \in StaticSlots : l[s] \in StaticCreds \cup {NoCred}
    /\ \A s \in HostSlots : l[s] \in HostCreds \cup {NoCred}
    /\ \A s, t \in Slots : l[s] = l[t] /\ l[s] # NoCred => s = t
Listing == {l \in [Slots -> Creds \cup {NoCred}] : Lists(l)}
Unlisted == [s \in Slots |-> NoCred]

ASSUME DisjointAssumption ==
    /\ StaticSlots \cap HostSlots = {}
    /\ NamedCreds \cap UnnamedCreds = {} /\ StaticCreds \cap HostCreds = {}
    /\ NoCred \notin Creds /\ NoKey \notin Keys
ASSUME BoundAssumption == MaxIds \in Nat /\ Keys # {} /\ IsFiniteSet(Slots)
ASSUME MarkerAssumption == NoId \notin Ids \cup Basis /\ NoPat \notin Pat /\ Ids \cap Slots = {}

VARIABLES
    key,         \* monitorPrefs.key, NoKey when it could not be loaded
    identities,  \* Identities: a function of the ids known
    legacy,      \* the slots under which preferences of an earlier version stand
    pats,        \* PATs, under ids and legacy ids
    relink,      \* RelinkRequired
    moved,       \* where the snapshots of a slot are: the slot itself, or the id
    disc,        \* what each discoverer still has before it
    answer,      \* history: the id that a credential was last given
    confirmed    \* history: the ids whose PAT the user entered or cleared

record == <<identities, legacy, pats, relink>>
vars == <<key, record, moved, disc, answer, confirmed>>

Discoverer == [pc : {"idle", "check", "move"}, seen : Listing,
               ids : [Slots -> Ids \cup {NoId}], slot : Slots \cup {NoCred}]
Resting == [pc |-> "idle", seen |-> Unlisted, ids |-> [s \in Slots |-> NoId],
            slot |-> NoCred]

\* The record as an earlier version left it: a PAT under the position of its
\* credential, marked when the format is old (configure).
Init ==
    /\ key \in Keys
    /\ identities = <<>>
    /\ \E old \in Listing, withPat \in SUBSET Slots :
         /\ \A s \in withPat : old[s] # NoCred
         /\ legacy = {s \in Slots : old[s] # NoCred}
         /\ pats = [i \in Ids \cup Slots |->
                      IF i \in withPat THEN [key |-> key, owner |-> old[i], entered |-> FALSE]
                      ELSE NoPat]
         /\ relink \in {{}, withPat}
    /\ moved = [s \in Slots |-> s]
    /\ disc = [d \in Discoverers |-> Resting]
    /\ answer = [c \in Creds |-> NoId]
    /\ confirmed = {}

-----------------------------------------------------------------------------
(* Resolving *)

\* Bug: an account is matched by its position.
MatchesPosition(identity, c, s) == identity.legacy = s

\* Bug: the source id is keyed by the preference key.
CredBasisSealed(c) == IF key = NoKey THEN NoBasis ELSE [seal |-> key, cred |-> c]

CredBasis(c) ==
    IF c \in NamedCreds THEN [seal |-> NoKey, cred |-> c]
    ELSE IF key = NoKey THEN NoBasis ELSE [seal |-> key, cred |-> c]

identityMatchesCandidate(identity, c, s) ==
    identity.basis # NoBasis /\ identity.basis = CredBasis(c)

\* Host candidates need their source id, static ones address and fingerprint.
hasStableIdentityBasis(c) == c \in NamedCreds \/ (c \in StaticCreds /\ key # NoKey)

hasLegacyPreference(s) == s \in legacy \/ pats[s] # NoPat \/ s \in relink

\* migratePreferenceData fails when the present key does not open the PAT.
Opens(pat) == pat = NoPat \/ pat.key = key

\* Bug: a PAT is moved whether or not the key opens it, so it is sealed as empty.
MigratesAnyPat(c, s) == hasLegacyPreference(s) /\ hasStableIdentityBasis(c)

Migrates(c, s) ==
    hasLegacyPreference(s) /\ hasStableIdentityBasis(c) /\ Opens(pats[s])

\* Preferences that are not migrated ask for a new link, if a PAT is among them.
\* (A legacy id that a call lists twice would, too; discovery lists none twice.)
NeedsRelink(c, s) ==
    /\ hasLegacyPreference(s) /\ ~Migrates(c, s)
    /\ hasStableIdentityBasis(c) \/ pats[s] # NoPat \/ s \in relink

\* The slots of a listing that hold a credential, and those nobody knows yet.
Filled(l) == {s \in Slots : l[s] # NoCred}
Matching(l, s) ==
    {i \in DOMAIN identities : identityMatchesCandidate(identities[i], l[s], s)}
Strangers(l) == {s \in Filled(l) : Matching(l, s) = {}}

\* The ids of the strangers: derived from key and source id, or drawn. Ids that are
\* drawn differ from all before; they are numbered in the order they come.
Used == {i \in DOMAIN identities : i.drawn > 0}
NewIds(l) ==
    {f \in [Strangers(l) -> Ids] :
        /\ IsInjective(f)
        /\ \A s \in Strangers(l) :
             IF l[s] \in NamedCreds THEN f[s] = Stable(key, l[s])
             ELSE \E n \in 1..Cardinality({u \in Strangers(l) : l[u] \notin NamedCreds}) :
                    f[s] = Random(Cardinality(Used) + n)}

-----------------------------------------------------------------------------
(* Discovery *)

\* What discoverHostAccounts or discoverStaticAccounts reads of CPA, whose lists may
\* have changed in any way; a quota fetch names one account of the host.
Readings ==
    {l \in Listing : Filled(l) # {} /\ (Filled(l) \subseteq StaticSlots \/ Filled(l) \subseteq HostSlots)}

\* resolveIdentities, all in one commit. The key that made the fingerprints is the
\* one in use, for a key changes only at a start. When the commit fails, discovery
\* fails and nothing is changed.
Resolve(d) ==
    /\ disc[d].pc = "idle"
    /\ \E l \in Readings : \E new \in NewIds(l) :
         LET heir == {s \in Strangers(l) : Migrates(l[s], s)}
             ids == [s \in Slots |-> IF s \in Strangers(l) THEN new[s]
                                     ELSE IF s \in Filled(l) THEN CHOOSE i \in Matching(l, s) : TRUE
                                     ELSE NoId]
             from(i) == CHOOSE s \in heir : new[s] = i
             inherits(i) == \E s \in heir : new[s] = i /\ pats[s] # NoPat
         IN /\ identities' = [i \in DOMAIN identities \cup Range(new) |->
                                IF i \in Range(new)
                                THEN LET s == CHOOSE s \in Strangers(l) : new[s] = i
                                     IN [basis |-> CredBasis(l[s]), legacy |-> s]
                                ELSE identities[i]]
            /\ pats' = [i \in Ids \cup Slots |->
                          IF i \in heir THEN NoPat
                          ELSE IF inherits(i) THEN [pats[from(i)] EXCEPT !.key = key]
                          ELSE pats[i]]
            /\ legacy' = legacy \ heir
            /\ relink' = (relink \ heir)
                           \cup {new[s] : s \in {t \in Strangers(l) : NeedsRelink(l[t], t)}}
            /\ disc' = [disc EXCEPT ![d].pc = "check", ![d].seen = l, ![d].ids = ids]
            /\ answer' = [c \in Creds |-> IF \E s \in Filled(l) : l[s] = c
                                          THEN ids[CHOOSE s \in Filled(l) : l[s] = c]
                                          ELSE answer[c]]
    /\ UNCHANGED <<key, moved, confirmed>>

\* Bug: an account that has to be linked anew inherits the snapshots.
CanMigrateUnlinked(c, s, i) ==
    /\ hasStableIdentityBasis(c)
    /\ identities[i].legacy = s
    /\ \A j \in DOMAIN identities \ {i} : identities[j].legacy # s

canMigrateLegacySnapshot(c, s, i) ==
    /\ hasStableIdentityBasis(c)
    /\ identities[i].legacy = s
    /\ i \notin relink
    /\ \A j \in DOMAIN identities \ {i} : identities[j].legacy # s

\* assignStableAccountIDs asks account by account if the snapshots may follow...
CheckSnapshot(d) ==
    /\ disc[d].pc = "check"
    /\ \E s \in Filled(disc[d].seen) :
         LET rest == [disc[d].seen EXCEPT ![s] = NoCred]
         IN disc' = [disc EXCEPT ![d] =
              IF canMigrateLegacySnapshot(disc[d].seen[s], s, disc[d].ids[s])
              THEN [@ EXCEPT !.pc = "move", !.slot = s, !.seen = rest]
              ELSE IF rest = Unlisted THEN Resting
              ELSE [@ EXCEPT !.seen = rest, !.ids[s] = NoId]]
    /\ UNCHANGED <<key, record, moved, answer, confirmed>>

\* ...and migrates them, under the lock of the snapshots, not of the preferences.
MoveSnapshot(d) ==
    /\ disc[d].pc = "move"
    /\ LET s == disc[d].slot
       IN /\ moved' = [moved EXCEPT ![s] = IF @ = s THEN disc[d].ids[s] ELSE @]
          /\ disc' = [disc EXCEPT ![d] =
               IF @.seen = Unlisted THEN Resting
               ELSE [@ EXCEPT !.pc = "check", !.slot = NoCred, !.ids[s] = NoId]]
    /\ UNCHANGED <<key, record, answer, confirmed>>

-----------------------------------------------------------------------------
(* The user and the operator *)

\* The user enters a PAT for the account that shows credential c, or clears it.
EnterPat(c) ==
    /\ answer[c] # NoId /\ answer[c] \in DOMAIN identities
    /\ \/ /\ key # NoKey
          /\ pats' = [pats EXCEPT ![answer[c]] = [key |-> key, owner |-> c, entered |-> TRUE]]
       \/ pats' = [pats EXCEPT ![answer[c]] = NoPat]
    /\ relink' = relink \ {answer[c]}
    /\ confirmed' = confirmed \cup {answer[c]}
    /\ UNCHANGED <<key, identities, legacy, moved, disc, answer>>

\* CPA stops, at any point, and starts: configure loads the key that the operator
\* kept, lost or put back, draws one, or has none.
Restart ==
    /\ key' \in Keys \cup {NoKey}
    /\ disc' = [d \in Discoverers |-> Resting]
    /\ UNCHANGED <<record, moved, answer, confirmed>>

Next ==
    \/ \E d \in Discoverers :
         Resolve(d) \/ CheckSnapshot(d) \/ MoveSnapshot(d)
    \/ \E c \in Creds : EnterPat(c)
    \/ Restart

Spec == Init /\ [][Next]_vars

-----------------------------------------------------------------------------
(* Properties *)

TypeOK ==
    /\ key \in Keys \cup {NoKey}
    /\ DOMAIN identities \subseteq Ids /\ Range(identities) \subseteq Identity
    /\ legacy \subseteq Slots
    /\ pats \in [Ids \cup Slots -> Pat \cup {NoPat}]
    /\ relink \subseteq DOMAIN identities \cup Slots
    /\ moved \in [Slots -> Slots \cup DOMAIN identities]
    /\ disc \in [Discoverers -> Discoverer]
    /\ answer \in [Creds -> DOMAIN identities \cup {NoId}]
    /\ confirmed \subseteq DOMAIN identities

\* README: different keys of one domain stay independent. Two credentials are never
\* the same account, and a credential is known by one identity under one key.
Independent ==
    /\ \A c, e \in Creds : answer[c] = answer[e] /\ answer[c] # NoId => c = e
    /\ \A i, j \in DOMAIN identities :
         identities[i].basis = identities[j].basis /\ identities[i].basis # NoBasis => i = j

\* README: the account_id is stable through reordering, removal of other entries,
\* restarts and refreshes. A credential gets another one only if no fingerprint was
\* kept, or not under the key in use; a source id keeps its account even then.
IdKept ==
    [][\A c \in Creds : answer'[c] # answer[c] /\ answer[c] # NoId =>
         /\ c \notin NamedCreds
         /\ LET basis == identities[answer[c]].basis
            IN basis = NoBasis \/ basis # CredBasis(c)]_vars

\* A PAT that was entered for an account is never found at the account of another
\* credential, whatever CPA lists where it stood.
EnteredStays ==
    \A c \in Creds :
        LET i == answer[c]
        IN i # NoId => pats[i] = NoPat \/ ~pats[i].entered \/ pats[i].owner = c

\* MIGRATION_AND_ROLLBACK: a migration that fails leaves the old PAT as it is. A
\* discovery neither loses nor doubles a PAT nor seals it under another key.
PatsMove ==
    [][disc' # disc /\ pats' # pats =>
         LET places(q, p) == {i \in Ids \cup Slots : q[i] = p}
         IN \A p \in Pat : Cardinality(places(pats', p)) = Cardinality(places(pats, p))]_vars

\* RELEASE_NOTES_0.5.3: what is ambiguous or has to be linked anew inherits neither
\* PAT nor snapshots. Snapshots of a slot do not go to an account while its PAT
\* stays behind, unless the user took that account in hand.
HistoryFollowsPat ==
    [][\A s \in Slots : moved[s] = s /\ moved'[s] # s =>
         pats[s] = NoPat \/ moved'[s] \in confirmed]_vars
=============================================================================
