-------------------------- MODULE PrefsStoreProofs --------------------------
(***************************************************************************)
(* Proofs about PrefsStore, for any numbers of pages, accounts and paths.  *)
(***************************************************************************)
EXTENDS PrefsStore, TLAPS

-----------------------------------------------------------------------------
(* What commits do to a record. *)

LEMMA EmptyType == Empty \in Data /\ Idle \in Txn /\ Fallback \in Thresholds
  BY SettingAssumption, LevelAssumption DEF Data, Empty, Idle, Txn, Fallback, Thresholds

\* Reading a file keeps all of it but the marks of an older format.
LEMMA LoadedFacts ==
  ASSUME NEW d \in Data
  PROVE  /\ Loaded(d) \in Data
         /\ Loaded(d).rev = d.rev
         /\ ~Loaded(d).legacy
         /\ Loaded(d).pats = d.pats
         /\ ~d.legacy => Loaded(d) = d
         /\ \A x : Precedes(x, d) <=> Precedes(x, Loaded(d))
<1> DEFINE l == Loaded(d)
<1>1. /\ l \in Data /\ l.rev = d.rev /\ ~l.legacy /\ l.pats = d.pats
      /\ l.known = d.known /\ l.qrev = d.qrev /\ l.conf = d.conf
  BY DEF Loaded, Data
<1>2. ~d.legacy => l = d
  BY DEF Loaded, Data
<1>3. \A x : Precedes(x, d) <=> Precedes(x, l)
  BY <1>1 DEF Precedes
<1> QED
  BY <1>1, <1>2, <1>3

LEMMA NumberedFacts ==
  ASSUME NEW d \in Data
  PROVE  /\ Numbered(d) \in Data
         /\ Numbered(d).rev = d.rev + 1
         /\ Numbered(d).legacy = d.legacy
         /\ Numbered(d).pats = d.pats
         /\ Numbered(d).known = d.known
         /\ Numbered(d).conf = d.conf
         /\ Numbered(d).qrev = d.qrev
  BY DEF Numbered, Data

\* A batch that is not rejected makes a record that follows the old one, sealed with
\* the key in memory where it is sealed anew.
LEMMA AppliedFacts ==
  ASSUME NEW d \in Data, NEW r \in Request, NEW k \in Keys \cup {NoKey}, ~Rejected(r, k)
  PROVE  /\ Applied(d, r, k) \in Data
         /\ Applied(d, r, k).rev = d.rev
         /\ Applied(d, r, k).legacy = d.legacy
         /\ Precedes(d, Applied(d, r, k))
         /\ \A m \in Keys : Stored(d, m) /\ k \in {m, NoKey} => Stored(Applied(d, r, k), m)
<1> DEFINE n == Applied(d, r, k)
           pats == [a \in Accounts |->
                  CASE a \in r.batch /\ r.pat[a] \in Secrets -> [secret |-> r.pat[a], key |-> k]
                    [] a \in r.batch /\ r.pat[a] = "clear" -> NoPat
                    [] OTHER -> d.pats[a]]
           conf == [a \in Accounts |-> IF a \in r.batch THEN ConfAfter(d, r, a) ELSE d.conf[a]]
           qrev == [a \in Accounts |->
                  IF a \in r.batch /\ QueryTouched(d, r, a) THEN d.qrev[a] + 1 ELSE d.qrev[a]]
<1>1. /\ n.rev = d.rev /\ n.legacy = d.legacy /\ n.known = d.known \cup r.batch
      /\ n.conf = conf /\ n.pats = pats /\ n.qrev = qrev
  BY DEF Applied, RevisionsAfter, Data
<1>2. \A a \in Accounts : ConfAfter(d, r, a) \in Settings
  BY SettingAssumption DEF ConfAfter, ConfBefore, Request, Data
<1>3. conf \in [Accounts -> Settings]
  BY <1>2 DEF Data
<1>4. qrev \in [Accounts -> Nat]
  BY DEF Data
<1>5. \A a \in r.batch : r.pat[a] \in Secrets => k \in Keys
  BY DEF Rejected
<1>6. ASSUME NEW a \in Accounts
      PROVE  /\ pats[a] \in Sealed \cup {NoPat}
             /\ \/ pats[a] \in {d.pats[a], NoPat}
                \/ k \in Keys /\ pats[a] \in Sealed /\ pats[a].key = k
  <2>1. CASE a \in r.batch /\ r.pat[a] \in Secrets
    BY <2>1, <1>5 DEF Sealed
  <2>2. CASE ~(a \in r.batch /\ r.pat[a] \in Secrets)
    BY <2>2 DEF Data
  <2> QED
    BY <2>1, <2>2
<1>7. pats \in [Accounts -> Sealed \cup {NoPat}]
  BY <1>6
<1>8. n \in Data
  <2> DEFINE rel == {a \in d.relink : a \notin r.batch \/ r.pat[a] = "keep"}
             thr == IF r.thr = NoThr THEN d.thr ELSE r.thr
  <2>1. n = [d EXCEPT !.known = d.known \cup r.batch, !.conf = conf, !.pats = pats,
                      !.relink = rel, !.qrev = qrev, !.thr = thr]
    BY DEF Applied, RevisionsAfter
  <2>2. /\ rel \in SUBSET Accounts
        /\ thr \in Thresholds \cup {NoThr}
        /\ d.known \cup r.batch \in SUBSET Accounts
    BY DEF Data, Request
  <2> HIDE DEF rel, thr, n, conf, pats, qrev
  <2> QED
    BY <2>1, <2>2, <1>3, <1>4, <1>7 DEF Data
<1>9. ASSUME NEW a \in d.known, d.qrev[a] = qrev[a]
      PROVE  d.conf[a] = conf[a] /\ d.pats[a] = pats[a]
  <2>1. a \in Accounts /\ d.qrev[a] \in Nat
    BY DEF Data
  <2>2. ~(a \in r.batch /\ QueryTouched(d, r, a))
    BY <2>1, <1>9
  <2>3. CASE a \notin r.batch
    BY <2>1, <2>3
  <2>4. CASE a \in r.batch
    BY <2>1, <2>2, <2>4, SecretAssumption DEF QueryTouched, ConfBefore
  <2> QED
    BY <2>3, <2>4
<1>10. Precedes(d, n)
  <2>1. \A a \in Accounts : d.qrev[a] <= qrev[a]
    BY DEF Data
  <2> QED
    BY <1>1, <1>9, <2>1 DEF Precedes
<1>11. ASSUME NEW m \in Keys, Stored(d, m), k \in {m, NoKey}
       PROVE  Stored(n, m)
  BY <1>1, <1>6, <1>11, KeyAssumption DEF Stored
<1> QED
  BY <1>1, <1>8, <1>10, <1>11

\* The commits without a base revision leave the PATs alone.
LEMMA ChoreFacts ==
  ASSUME NEW d \in Data, NEW n \in ChoreResults(d)
  PROVE  n \in Data /\ n.rev = d.rev /\ n.legacy = d.legacy /\ n.pats = d.pats /\ Precedes(d, n)
<1>1. CASE \E ids \in SUBSET Accounts, x \in Settings : n = Registered(d, ids, x)
  <2>1. PICK ids \in SUBSET Accounts, x \in Settings : n = Registered(d, ids, x)
    BY <1>1
  <2>2. n \in Data /\ n.rev = d.rev /\ n.legacy = d.legacy /\ n.pats = d.pats
    BY <2>1 DEF Registered, Data
  <2>3. /\ n.known = d.known \cup ids /\ n.qrev = d.qrev
        /\ n.conf = [a \in Accounts |-> IF a \in ids \ d.known THEN x ELSE d.conf[a]]
    BY <2>1 DEF Registered, Data
  <2> QED
    BY <2>2, <2>3 DEF Precedes, Data
<1>2. CASE \E ids \in SUBSET Accounts : n = Invalidated(d, ids)
  <2>1. PICK ids \in SUBSET Accounts : n = Invalidated(d, ids)
    BY <1>2
  <2>2. n \in Data /\ n.rev = d.rev /\ n.legacy = d.legacy /\ n.pats = d.pats
    BY <2>1 DEF Invalidated, Data
  <2>3. /\ n.known = d.known /\ n.conf = d.conf
        /\ n.qrev = [a \in Accounts |-> IF a \in ids THEN d.qrev[a] + 1 ELSE d.qrev[a]]
    BY <2>1 DEF Invalidated, Data
  <2> QED
    BY <2>2, <2>3 DEF Precedes, Data
<1>3. CASE \E x \in Alerts : n = Dismissed(d, x)
  BY <1>3 DEF Dismissed, Precedes, Data
<1>4. CASE \E active \in SUBSET Alerts : n = Reconciled(d, active)
  BY <1>4 DEF Reconciled, Precedes, Data
<1> QED
  BY <1>1, <1>2, <1>3, <1>4 DEF ChoreResults

LEMMA PrecedesTransitive ==
  ASSUME NEW x \in Data, NEW y \in Data, NEW z \in Data, Precedes(x, y), Precedes(y, z)
  PROVE  Precedes(x, z)
<1>1. \A a \in Accounts : x.qrev[a] \in Nat /\ y.qrev[a] \in Nat /\ z.qrev[a] \in Nat
  BY DEF Data
<1>2. x.known \subseteq Accounts
  BY DEF Data
<1> QED
  BY <1>1, <1>2 DEF Precedes

LEMMA PrecedesReflexive == ASSUME NEW x \in Data PROVE Precedes(x, x)
  BY DEF Precedes, Data

-----------------------------------------------------------------------------
(* The invariant of the store. *)

LEMMA RequestType == NoRequest \in Request
  BY DEF NoRequest, Request, PatActions

LEMMA ViewType ==
  ASSUME NEW d \in Data
  PROVE  ViewOf(d) \in View /\ Effective(d) \in Thresholds
<1>1. Effective(d) \in Thresholds
  BY EmptyType DEF Effective, Data
<1>2. \A a \in Accounts : ConfBefore(d, a) \in Settings
  BY SettingAssumption DEF ConfBefore, Data
<1> QED
  BY <1>1, <1>2 DEF ViewOf, View

LEMMA BlankType == BlankPage \in Page
<1>1. /\ ViewOf(Empty) \in View
      /\ NoDraft \in Drafts
      /\ (CHOOSE e \in Edits : TRUE) \in Edits
  BY EmptyType, ViewType, EditAssumption DEF NoDraft, Drafts
<1> QED
  BY <1>1, RequestType DEF BlankPage, Page, Stages

LEMMA FoundType ==
  ASSUME NEW k \in Keys, NEW d \in Found(k)
  PROVE  d \in Data /\ Stored(d, k)
<1>1. CASE d = Empty
  BY <1>1, EmptyType DEF Stored, Empty
<1>2. CASE d # Empty
  <2>1. PICK s \in Secrets : d = OldFile(s, k) \/ d = OlderFile(s, k)
    BY <1>2 DEF Found
  <2>2. [secret |-> s, key |-> k] \in Sealed
    BY DEF Sealed
  <2>3. OldFile(s, k) \in Data /\ Stored(OldFile(s, k), k)
    BY <2>2, EmptyType DEF OldFile, Data, Stored
  <2>4. OlderFile(s, k) \in Data /\ OlderFile(s, k).pats = OldFile(s, k).pats
    BY <2>3 DEF OlderFile, Data
  <2> QED
    BY <2>1, <2>3, <2>4 DEF Stored
<1> QED
  BY <1>1, <1>2

LEMMA InitStore == Init => StoreInv
<1> SUFFICES ASSUME Init PROVE StoreInv
  OBVIOUS
<1>1. PICK k \in Keys : files \in [Paths -> Found(k)] /\ keyFiles \in [Paths -> {k, NoKey}] /\ made = {k}
  BY DEF Init
<1>2. \A p \in Paths : files[p] \in Data /\ Loaded(files[p]) \in Data /\ ~Loaded(files[p]).legacy
  BY <1>1, FoundType, LoadedFacts
<1>3. /\ latest = [p \in Paths |-> Loaded(files[p])]
      /\ published = {[path |-> p, data |-> latest[p]] : p \in Paths}
      /\ path = NoPath /\ txn = Idle /\ page = [c \in Pages |-> BlankPage]
      /\ data = Empty /\ key = NoKey
  BY DEF Init
<1>4. TypeOK
  <2>1. files \in [Paths -> Data] /\ keyFiles \in [Paths -> Keys \cup {NoKey}] /\ made \subseteq Keys
    BY <1>1, <1>2
  <2>2. latest \in [Paths -> Data]
    BY <1>2, <1>3
  <2>3. published \subseteq Base
    BY <1>3, <2>2 DEF Base
  <2> QED
    BY <1>3, <2>1, <2>2, <2>3, EmptyType, BlankType DEF TypeOK
<1>5. Control
  BY <1>3, PageAssumption DEF Control, BlankPage, Idle
<1>6. \A x \in published : x.path \in Paths /\ x.data = latest[x.path] /\ x = [path |-> x.path, data |-> x.data]
  BY <1>3
<1>7. \A p \in Paths : latest[p] \in Data /\ [path |-> p, data |-> latest[p]] \in published /\ latest[p] = Loaded(files[p])
  BY <1>2, <1>3
<1>8. Chain
  <2>1. \A p \in Paths :
           /\ [path |-> p, data |-> latest[p]] \in published
           /\ ~latest[p].legacy
           /\ Loaded(files[p]) = latest[p]
    BY <1>2, <1>7
  <2>2. \A p \in Paths : p = path => latest[p] = data
    BY <1>3, PathAssumption
  <2>3. \A p \in Paths : latest[p].rev \in Nat /\ Precedes(latest[p], latest[p])
    BY <1>7, PrecedesReflexive DEF Data
  <2>4. ASSUME NEW x \in published
        PROVE  /\ x.data.rev <= latest[x.path].rev
               /\ x.data.rev = latest[x.path].rev => x.data = latest[x.path]
               /\ Precedes(x.data, latest[x.path])
    BY <1>6, <2>3
  <2> QED
    BY <2>1, <2>2, <2>4 DEF Chain
<1>9. Successor
  BY <1>3 DEF Successor, Idle
<1>10. RevisionIdentifiesData
  BY <1>6 DEF RevisionIdentifiesData
<1>11. QueryRevisionIdentifiesConfig
  BY <1>6 DEF QueryRevisionIdentifiesConfig
<1> QED
  BY <1>4, <1>5, <1>8, <1>9, <1>10, <1>11 DEF StoreInv

\* A step of one page that neither begins nor ends a commit.
LEMMA PageStep ==
  ASSUME StoreInv, UNCHANGED <<mem, disk, txn, seen>>,
         NEW c \in Pages, NEW q \in Page, page' = [page EXCEPT ![c] = q],
         page[c].st # "writing", q.st # "writing",
         q.st # "idle" => path # NoPath,
         q.st = "saving" => q.base # Nothing,
         q.base # Nothing => q.base \in published
  PROVE  StoreInv'
<1>1. /\ path' = path /\ data' = data /\ key' = key /\ files' = files /\ keyFiles' = keyFiles
      /\ made' = made /\ txn' = txn /\ published' = published /\ latest' = latest
  BY DEF mem, disk, seen
<1>2. page \in [Pages -> Page]
  BY DEF StoreInv, TypeOK
<1>3. page'[c] = q /\ \A x \in Pages \ {c} : page'[x] = page[x]
  BY <1>2
<1>4. TypeOK'
  BY <1>1, <1>2 DEF StoreInv, TypeOK
<1>5. Control'
  <2>1. txn.by # c
    BY DEF StoreInv, Control
  <2> QED
    BY <1>1, <1>3, <2>1 DEF StoreInv, Control
<1>6. Successor'
  <2>1. txn.by \in Pages => page'[txn.by] = page[txn.by]
    BY <1>3 DEF StoreInv, Control
  <2> QED
    BY <1>1, <2>1 DEF StoreInv, Successor
<1>7. Chain' /\ RevisionIdentifiesData' /\ QueryRevisionIdentifiesConfig'
  BY <1>1 DEF StoreInv, Chain, RevisionIdentifiesData, QueryRevisionIdentifiesConfig
<1> QED
  BY <1>4, <1>5, <1>6, <1>7 DEF StoreInv

LEMMA AnsweredAtOnce ==
  ASSUME StoreInv, NEW c \in Pages, Refuse(c) \/ KeepAsIs(c)
  PROVE  StoreInv'
<1>1. page[c] \in Page /\ page[c].st = "saving" /\ path # NoPath
      /\ (page[c].base # Nothing => page[c].base \in published)
  BY DEF Refuse, KeepAsIs, StoreInv, TypeOK, Control
<1>2. PICK st \in {"idle", "saved"} :
          /\ page' = [page EXCEPT ![c].st = st, ![c].ask = NoRequest, ![c].from = NoPath]
          /\ UNCHANGED <<mem, disk, txn, seen>>
  BY DEF Refuse, KeepAsIs, Answer
<1> DEFINE q == [page[c] EXCEPT !.st = st, !.ask = NoRequest, !.from = NoPath]
<1>3. q \in Page /\ q.st = st /\ q.base = page[c].base
  BY <1>1, RequestType DEF Page, Stages
<1>4. page' = [page EXCEPT ![c] = q]
  BY <1>2 DEF StoreInv, TypeOK
<1> HIDE DEF q
<1> QED
  BY <1>1, <1>2, <1>3, <1>4, PageStep

LEMMA ReadViewStep ==
  ASSUME StoreInv, NEW c \in Pages, ReadView(c)
  PROVE  StoreInv'
<1> DEFINE q == [page[c] EXCEPT !.next = ViewOf(data),
                                !.st = IF @ = "idle" THEN "reading" ELSE "answering"]
<1>1. page[c] \in Page /\ page[c].st # "writing" /\ path # NoPath
      /\ (page[c].base # Nothing => page[c].base \in published)
  BY DEF ReadView, StoreInv, TypeOK, Control
<1>2. ViewOf(data) \in View
  BY ViewType DEF StoreInv, TypeOK
<1>3. q \in Page /\ q.st \in {"reading", "answering"} /\ q.base = page[c].base
  BY <1>1, <1>2 DEF Page, Stages
<1>4. page' = [page EXCEPT ![c] = q] /\ UNCHANGED <<mem, disk, txn, seen>>
  BY DEF ReadView, StoreInv, TypeOK
<1> HIDE DEF q
<1> QED
  BY <1>1, <1>3, <1>4, PageStep

LEMMA ReadRevisionStep ==
  ASSUME StoreInv, NEW c \in Pages, ReadRevision(c)
  PROVE  StoreInv'
<1> DEFINE b == [path |-> path, data |-> data]
           kept == page[c].st = "reading" \/ page[c].edit = "warn"
           q == [page[c] EXCEPT !.view = page[c].next, !.base = b,
                                !.draft = IF kept THEN @ ELSE NoDraft,
                                !.st = "idle"]
<1>1. page[c] \in Page /\ page[c].st # "writing" /\ path # NoPath
  BY DEF ReadRevision, StoreInv, TypeOK, Control
<1>2. path \in Paths /\ latest[path] = data /\ b \in published /\ b \in Base
  BY <1>1 DEF StoreInv, TypeOK, Chain, Base
<1>3. NoDraft \in Drafts
  BY DEF NoDraft, Drafts
<1>4. q \in Page /\ q.st = "idle" /\ q.base = b
  BY <1>1, <1>2, <1>3 DEF Page, Stages
<1>5. page' = [page EXCEPT ![c] = q] /\ UNCHANGED <<mem, disk, txn, seen>>
  BY DEF ReadRevision, KeepsDrafts, StoreInv, TypeOK
<1> HIDE DEF q, b
<1> QED
  BY <1>1, <1>2, <1>4, <1>5, PageStep

LEMMA DraftStep ==
  ASSUME StoreInv, NEW c \in Pages, NEW a \in Accounts, Draft(c, a)
  PROVE  StoreInv'
<1>1. page[c] \in Page /\ page[c].st = "idle"
      /\ (page[c].base # Nothing => page[c].base \in published)
  BY DEF Draft, StoreInv, TypeOK, Control
<1>2. PICK x \in Settings : page' = [page EXCEPT ![c].draft[a] = x]
  BY DEF Draft
<1> DEFINE q == [page[c] EXCEPT !.draft[a] = x]
<1>3. [page[c].draft EXCEPT ![a] = x] \in Drafts
  BY <1>1 DEF Page, Drafts
<1>4. q \in Page /\ q.st = "idle" /\ q.base = page[c].base
  BY <1>1, <1>3 DEF Page
<1>5. page \in [Pages -> Page]
  BY DEF StoreInv, TypeOK
<1>6. [page EXCEPT ![c].draft[a] = x] = [page EXCEPT ![c] = q]
  BY <1>5
<1>7. page' = [page EXCEPT ![c] = q] /\ UNCHANGED <<mem, disk, txn, seen>>
  BY <1>2, <1>6 DEF Draft
<1> HIDE DEF q
<1> QED
  BY <1>1, <1>4, <1>7, PageStep

LEMMA AskStep ==
  ASSUME StoreInv, NEW c \in Pages, NEW e \in Edits, NEW r \in Request, Ask(c, e, r)
  PROVE  StoreInv'
<1> DEFINE q == [page[c] EXCEPT !.ask = r, !.edit = e, !.st = "saving", !.from = path]
<1>1. page[c] \in Page /\ page[c].st = "idle" /\ path # NoPath /\ page[c].base # Nothing
      /\ page[c].base \in published /\ path \in Paths
  BY DEF Ask, StoreInv, TypeOK, Control
<1>2. q \in Page /\ q.st = "saving" /\ q.base = page[c].base
  BY <1>1 DEF Page, Stages
<1>3. page' = [page EXCEPT ![c] = q] /\ UNCHANGED <<mem, disk, txn, seen>>
  BY DEF Ask, StoreInv, TypeOK
<1> HIDE DEF q
<1> QED
  BY <1>1, <1>2, <1>3, PageStep

LEMMA SaveStep ==
  ASSUME StoreInv, NEW c \in Pages, Save(c)
  PROVE  StoreInv'
<1>1. Form(c) \in [Accounts -> Settings]
  BY DEF Form, StoreInv, TypeOK, Page, Drafts, View
<1>2. Effective(data) \in Thresholds
  BY ViewType DEF StoreInv, TypeOK
<1>3. NoRequest \in Request
  BY RequestType
<1>4. CASE AskProviders(c)
  <2>1. [NoRequest EXCEPT !.conf = Form(c), !.batch = Accounts] \in Request
    BY <1>1, <1>3 DEF Request
  <2> QED
    BY <1>4, <2>1, AskStep DEF AskProviders
<1>5. CASE AskPat(c)
  <2>1. PICK pat \in [Accounts -> PatActions] :
            Ask(c, "pat", [NoRequest EXCEPT !.conf = Form(c), !.pat = pat, !.batch = Accounts])
    BY <1>5 DEF AskPat
  <2>2. [NoRequest EXCEPT !.conf = Form(c), !.pat = pat, !.batch = Accounts] \in Request
    BY <1>1, <1>3 DEF Request
  <2> QED
    BY <1>5, <2>1, <2>2, AskStep DEF AskPat
<1>6. CASE AskCash(c)
  <2>1. PICK l \in Levels :
            Ask(c, "cash", [NoRequest EXCEPT !.conf = Form(c), !.batch = Accounts,
                                             !.thr = [ThresholdsNow EXCEPT !.cash = l]])
    BY <1>6 DEF AskCash
  <2>2. [ThresholdsNow EXCEPT !.cash = l] \in Thresholds
    BY <1>2 DEF ThresholdsNow, Thresholds
  <2>3. [NoRequest EXCEPT !.conf = Form(c), !.batch = Accounts,
                          !.thr = [ThresholdsNow EXCEPT !.cash = l]] \in Request
    BY <1>1, <1>3, <2>2 DEF Request
  <2> QED
    BY <1>6, <2>1, <2>3, AskStep DEF AskCash
<1>7. CASE AskWarn(c)
  <2>1. PICK l \in Levels : Ask(c, "warn", [NoRequest EXCEPT !.thr = [ThresholdsNow EXCEPT !.warn = l]])
    BY <1>7 DEF AskWarn
  <2>2. [ThresholdsNow EXCEPT !.warn = l] \in Thresholds
    BY <1>2 DEF ThresholdsNow, Thresholds
  <2>3. [NoRequest EXCEPT !.thr = [ThresholdsNow EXCEPT !.warn = l]] \in Request
    BY <1>3, <2>2 DEF Request
  <2> QED
    BY <1>7, <2>1, <2>3, AskStep DEF AskWarn
<1> QED
  BY <1>4, <1>5, <1>6, <1>7 DEF Save

\* The parts of the invariant that only depend on what readers saw and on the files.
LEMMA HistoryUnchanged ==
  ASSUME StoreInv, UNCHANGED <<mem, files, seen>>
  PROVE  Chain' /\ RevisionIdentifiesData' /\ QueryRevisionIdentifiesConfig'
  BY DEF StoreInv, Chain, RevisionIdentifiesData, QueryRevisionIdentifiesConfig, mem, seen

LEMMA BeginStep ==
  ASSUME StoreInv, NEW c \in Pages, Begin(c)
  PROVE  StoreInv'
<1> DEFINE n == Applied(data, page[c].ask, key)
<1>1. /\ page \in [Pages -> Page] /\ data \in Data /\ key \in Keys \cup {NoKey}
      /\ page[c].st = "saving" /\ path # NoPath /\ page[c].base # Nothing
      /\ page[c].base.data.rev = data.rev
      /\ txn = Idle /\ path \in Paths
  BY DEF Begin, Conflict, StoreInv, TypeOK, Control
<1>2. /\ txn' = [stage |-> "writing", cand |-> Numbered(n), by |-> c]
      /\ page' = [page EXCEPT ![c].st = "writing"]
      /\ UNCHANGED <<mem, disk, seen>>
  BY DEF Begin
<1>3. /\ page[c] \in Page /\ page[c].ask \in Request /\ ~Rejected(page[c].ask, key)
  BY <1>1 DEF Begin, Page
<1>4. n \in Data /\ n.rev = data.rev /\ n.legacy = data.legacy /\ Precedes(data, n)
  BY <1>1, <1>3, AppliedFacts
<1> HIDE DEF n
<1>5. /\ Numbered(n) \in Data /\ Numbered(n).rev = data.rev + 1
      /\ ~Numbered(n).legacy /\ Precedes(data, Numbered(n))
  <2>1. ~data.legacy
    BY <1>1 DEF StoreInv, Chain
  <2> QED
    BY <1>4, <2>1, NumberedFacts DEF Precedes
<1>6. /\ page'[c] = [page[c] EXCEPT !.st = "writing"]
      /\ \A x \in Pages \ {c} : page'[x] = page[x]
  BY <1>1, <1>2
<1>7. /\ page'[c] \in Page /\ page'[c].st = "writing" /\ page'[c].base = page[c].base
  BY <1>3, <1>6 DEF Page, Stages
<1>8. TypeOK'
  <2>1. txn' \in Txn
    BY <1>2, <1>5 DEF Txn
  <2>2. page' \in [Pages -> Page]
    BY <1>1, <1>2, <1>7
  <2> QED
    BY <1>2, <2>1, <2>2 DEF StoreInv, TypeOK, mem, disk, seen
<1>9. Control'
  <2>1. \A x \in Pages : page[x].st # "writing"
    BY <1>1, PageAssumption DEF StoreInv, Control, Idle
  <2> QED
    BY <1>1, <1>2, <1>6, <1>7, <2>1, PageAssumption DEF StoreInv, Control, mem, seen
<1>10. Successor'
  BY <1>1, <1>2, <1>5, <1>7 DEF Successor, mem
<1> QED
  BY <1>2, <1>8, <1>9, <1>10, HistoryUnchanged DEF StoreInv, disk

LEMMA BeginChoreStep ==
  ASSUME StoreInv, BeginChore
  PROVE  StoreInv'
<1>1. /\ data \in Data /\ path # NoPath /\ path \in Paths /\ txn = Idle
      /\ UNCHANGED <<mem, disk, page, seen>>
  BY DEF BeginChore, StoreInv, TypeOK, Control
<1>2. PICK n \in ChoreResults(data) : txn' = [stage |-> "writing", cand |-> Numbered(n), by |-> Nobody]
  BY DEF BeginChore
<1>3. n \in Data /\ n.rev = data.rev /\ n.legacy = data.legacy /\ Precedes(data, n)
  BY <1>1, ChoreFacts
<1>4. /\ Numbered(n) \in Data /\ Numbered(n).rev = data.rev + 1
      /\ ~Numbered(n).legacy /\ Precedes(data, Numbered(n))
  <2>1. ~data.legacy
    BY <1>1 DEF StoreInv, Chain
  <2> QED
    BY <1>3, <2>1, NumberedFacts DEF Precedes
<1>5. TypeOK'
  <2>1. txn' \in Txn
    BY <1>2, <1>4 DEF Txn
  <2> QED
    BY <1>1, <2>1 DEF StoreInv, TypeOK, mem, disk, seen
<1>6. Control'
  BY <1>1, <1>2, PageAssumption DEF StoreInv, Control, mem, seen, Idle
<1>7. Successor'
  BY <1>1, <1>2, <1>4, PageAssumption DEF Successor, mem
<1> QED
  BY <1>1, <1>5, <1>6, <1>7, HistoryUnchanged DEF StoreInv, disk

LEMMA RenameStep ==
  ASSUME StoreInv, Rename
  PROVE  StoreInv'
<1>1. /\ txn.stage = "writing" /\ path # NoPath /\ path \in Paths /\ txn \in Txn
      /\ files \in [Paths -> Data] /\ txn.cand \in Data
  BY DEF Rename, StoreInv, TypeOK, Control, Idle, Txn
<1>2. /\ files' = [files EXCEPT ![path] = txn.cand]
      /\ txn' = [txn EXCEPT !.stage = "renamed"]
      /\ UNCHANGED <<mem, keyFiles, made, page, seen>>
  BY DEF Rename
<1>3. /\ txn' \in Txn /\ txn'.stage = "renamed" /\ txn'.cand = txn.cand /\ txn'.by = txn.by
  BY <1>1, <1>2 DEF Txn
<1>4. /\ files' \in [Paths -> Data] /\ files'[path] = txn.cand
      /\ \A p \in Paths \ {path} : files'[p] = files[p]
  BY <1>1, <1>2
<1>5. TypeOK'
  BY <1>2, <1>3, <1>4 DEF StoreInv, TypeOK, mem, seen
<1>6. Control'
  BY <1>1, <1>2, <1>3 DEF StoreInv, Control, mem, seen
<1>7. Successor'
  BY <1>1, <1>2, <1>3, <1>4 DEF StoreInv, Successor, mem
<1>8. Chain'
  <2>1. latest[path] = data /\ ~txn.cand.legacy /\ txn.cand.rev = data.rev + 1 /\ Precedes(data, txn.cand)
    BY <1>1 DEF StoreInv, Chain, Successor
  <2> QED
    BY <1>2, <1>4, <2>1 DEF StoreInv, Chain, mem, seen
<1>9. RevisionIdentifiesData' /\ QueryRevisionIdentifiesConfig'
  BY <1>2 DEF StoreInv, RevisionIdentifiesData, QueryRevisionIdentifiesConfig, seen
<1> QED
  BY <1>5, <1>6, <1>7, <1>8, <1>9 DEF StoreInv

\* The end of a commit: whoever waits is answered, commitMu is free.
LEMMA Answered ==
  ASSUME StoreInv, txn.stage # "free", NEW st \in {"idle", "saved"}, AnswerWaiter(st)
  PROVE  /\ page' \in [Pages -> Page]
         /\ \A c \in Pages : page'[c].st # "writing" /\ page'[c].base = page[c].base
                             /\ page'[c].st \in {page[c].st, st}
<1>1. page \in [Pages -> Page] /\ txn \in Txn
  BY DEF StoreInv, TypeOK
<1>2. CASE txn.by = Nobody
  BY <1>1, <1>2, PageAssumption DEF AnswerWaiter, StoreInv, Control
<1>3. CASE txn.by # Nobody
  <2>1. txn.by \in Pages /\ page[txn.by] \in Page
    BY <1>1, <1>3 DEF Txn
  <2>2. page' = [page EXCEPT ![txn.by] = [page[txn.by] EXCEPT !.st = st, !.ask = NoRequest,
                                                                !.from = NoPath]]
    BY <1>1, <1>3, <2>1 DEF AnswerWaiter, Answer
  <2> DEFINE q == [page[txn.by] EXCEPT !.st = st, !.ask = NoRequest, !.from = NoPath]
  <2>3. q \in Page /\ q.st = st /\ q.base = page[txn.by].base
    BY <2>1, RequestType DEF Page, Stages
  <2>4. \A c \in Pages : c # txn.by => page[c].st # "writing"
    BY DEF StoreInv, Control
  <2>5. page' = [page EXCEPT ![txn.by] = q]
    BY <2>2
  <2> HIDE DEF q
  <2>6. /\ page' \in [Pages -> Page] /\ page'[txn.by] = q
        /\ \A c \in Pages : c # txn.by => page'[c] = page[c]
    BY <1>1, <2>1, <2>3, <2>5
  <2> QED
    BY <2>1, <2>3, <2>4, <2>6
<1> QED
  BY <1>2, <1>3

LEMMA FailStep ==
  ASSUME StoreInv, Fail
  PROVE  StoreInv'
<1>1. /\ txn.stage # "free" /\ txn' = Idle /\ UNCHANGED <<mem, disk, seen>> /\ path # NoPath
  BY DEF Fail, StoreInv, Control, Idle
<1>2. /\ page' \in [Pages -> Page]
      /\ \A c \in Pages : page'[c].st # "writing" /\ page'[c].base = page[c].base
                          /\ page'[c].st \in {page[c].st, "idle"}
  BY <1>1, Answered DEF Fail
<1>3. TypeOK'
  BY <1>1, <1>2, EmptyType DEF StoreInv, TypeOK, mem, disk, seen
<1>4. Control'
  BY <1>1, <1>2, PageAssumption DEF StoreInv, Control, mem, seen, Idle
<1>5. Successor'
  BY <1>1 DEF Successor, Idle
<1> QED
  BY <1>1, <1>3, <1>4, <1>5, HistoryUnchanged DEF StoreInv, disk

\* A record that is put at the end of the chain of a file is told apart from all others.
LEMMA ChainGrows ==
  ASSUME StoreInv, NEW p \in Paths, NEW d \in Data,
         d.rev = latest[p].rev + 1, ~d.legacy, Precedes(latest[p], d),
         published' = published \cup {[path |-> p, data |-> d]},
         latest' = [latest EXCEPT ![p] = d]
  PROVE  /\ published' \subseteq Base
         /\ latest' \in [Paths -> Data]
         /\ latest'[p] = d
         /\ \A o \in Paths \ {p} : latest'[o] = latest[o]
         /\ \A x \in published' : /\ x.data.rev <= latest'[x.path].rev
                                  /\ x.data.rev = latest'[x.path].rev => x.data = latest'[x.path]
                                  /\ Precedes(x.data, latest'[x.path])
         /\ RevisionIdentifiesData'
         /\ QueryRevisionIdentifiesConfig'
<1> DEFINE e == [path |-> p, data |-> d]
<1>1. /\ published \subseteq Base /\ latest \in [Paths -> Data] /\ latest[p] \in Data
      /\ e \in Base /\ e.path = p /\ e.data = d
  BY DEF StoreInv, TypeOK, Base
<1>2. latest' \in [Paths -> Data] /\ latest'[p] = d /\ \A o \in Paths \ {p} : latest'[o] = latest[o]
  BY <1>1
<1>3. d.rev \in Nat /\ latest[p].rev \in Nat
  BY <1>1 DEF Data
<1>4. ASSUME NEW x \in published
      PROVE  /\ x \in Base /\ x.path \in Paths /\ x.data \in Data /\ x.data.rev \in Nat
             /\ x = [path |-> x.path, data |-> x.data]
             /\ x.data.rev <= latest[x.path].rev
             /\ x.data.rev = latest[x.path].rev => x.data = latest[x.path]
             /\ Precedes(x.data, latest[x.path])
  BY <1>1 DEF StoreInv, Chain, Base, Data
<1>5. ASSUME NEW x \in published, x.path = p
      PROVE  x.data.rev < d.rev /\ Precedes(x.data, d)
  BY <1>1, <1>3, <1>4, <1>5, PrecedesTransitive
<1>6. ASSUME NEW x \in published'
      PROVE  /\ x.data.rev <= latest'[x.path].rev
             /\ x.data.rev = latest'[x.path].rev => x.data = latest'[x.path]
             /\ Precedes(x.data, latest'[x.path])
  <2>1. CASE x \in published /\ x.path = p
    BY <1>2, <1>3, <1>4, <1>5, <2>1
  <2>2. CASE x \in published /\ x.path # p
    BY <1>2, <1>4, <2>2
  <2>3. CASE x = e
    BY <1>1, <1>2, <1>3, <2>3, PrecedesReflexive
  <2> QED
    BY <2>1, <2>2, <2>3
<1>7. RevisionIdentifiesData'
  <2> SUFFICES ASSUME NEW x \in published', NEW y \in published',
                      x.path = y.path, x.data.rev = y.data.rev
               PROVE  x = y
    BY DEF RevisionIdentifiesData
  <2>1. CASE x \in published /\ y \in published
    BY <2>1 DEF StoreInv, RevisionIdentifiesData
  <2>2. CASE x = e /\ y \in published
    BY <1>1, <1>4, <1>5, <1>3, <2>2
  <2>3. CASE x \in published /\ y = e
    BY <1>1, <1>4, <1>5, <1>3, <2>3
  <2> QED
    BY <2>1, <2>2, <2>3
<1>8. QueryRevisionIdentifiesConfig'
  <2> SUFFICES ASSUME NEW x \in published', NEW y \in published',
                      NEW a \in x.data.known \cap y.data.known,
                      x.path = y.path, x.data.qrev[a] = y.data.qrev[a]
               PROVE  x.data.conf[a] = y.data.conf[a] /\ x.data.pats[a] = y.data.pats[a]
    BY DEF QueryRevisionIdentifiesConfig
  <2>1. CASE x \in published /\ y \in published
    BY <2>1 DEF StoreInv, QueryRevisionIdentifiesConfig
  <2>2. CASE x = e /\ y \in published
    BY <1>1, <1>5, <2>2 DEF Precedes
  <2>3. CASE x \in published /\ y = e
    BY <1>1, <1>5, <2>3 DEF Precedes
  <2>4. CASE x = e /\ y = e
    BY <2>4
  <2> QED
    BY <2>1, <2>2, <2>3, <2>4
<1>9. published' \subseteq Base
  BY <1>1
<1> QED
  BY <1>2, <1>6, <1>7, <1>8, <1>9

LEMMA PublishStep ==
  ASSUME StoreInv, Publish
  PROVE  StoreInv'
<1>1. /\ txn.stage = "renamed" /\ path # NoPath /\ path \in Paths /\ txn.cand \in Data
  BY DEF Publish, StoreInv, TypeOK, Control, Idle, Txn
<1>2. /\ data' = txn.cand /\ txn' = Idle /\ path' = path
      /\ published' = published \cup {[path |-> path, data |-> txn.cand]}
      /\ latest' = [latest EXCEPT ![path] = txn.cand]
      /\ UNCHANGED <<path, key, disk>>
  BY DEF Publish
<1>3. /\ page' \in [Pages -> Page]
      /\ \A c \in Pages : page'[c].st # "writing" /\ page'[c].base = page[c].base
                          /\ page'[c].st \in {page[c].st, "saved"}
  BY <1>1, Answered DEF Publish
<1>4. /\ latest[path] = data /\ ~txn.cand.legacy /\ txn.cand.rev = data.rev + 1
      /\ Precedes(data, txn.cand) /\ files[path] = txn.cand
  BY <1>1 DEF StoreInv, Chain, Successor
<1>5. /\ published' \subseteq Base
      /\ latest' \in [Paths -> Data]
      /\ latest'[path] = txn.cand
      /\ \A o \in Paths \ {path} : latest'[o] = latest[o]
      /\ \A x \in published' : /\ x.data.rev <= latest'[x.path].rev
                               /\ x.data.rev = latest'[x.path].rev => x.data = latest'[x.path]
                               /\ Precedes(x.data, latest'[x.path])
      /\ RevisionIdentifiesData'
      /\ QueryRevisionIdentifiesConfig'
  BY <1>1, <1>2, <1>4, ChainGrows
<1>6. TypeOK'
  BY <1>1, <1>2, <1>3, <1>5, EmptyType DEF StoreInv, TypeOK, disk
<1>7. Control'
  BY <1>1, <1>2, <1>3, PageAssumption DEF StoreInv, Control, Idle
<1>8. Chain'
  <2>1. Loaded(txn.cand) = txn.cand
    BY <1>1, <1>4, LoadedFacts
  <2> QED
    BY <1>1, <1>2, <1>4, <1>5, <2>1 DEF StoreInv, Chain, disk
<1>9. Successor'
  BY <1>2 DEF Successor, Idle
<1> QED
  BY <1>5, <1>6, <1>7, <1>8, <1>9 DEF StoreInv

LEMMA ConfigureStep ==
  ASSUME StoreInv, NEW p \in Paths, Configure(p)
  PROVE  StoreInv'
<1> DEFINE l == Loaded(files[p])
<1>1. /\ path' = p /\ data' = l /\ p # NoPath /\ txn = Idle
      /\ published' = published \cup {[path |-> p, data |-> l]}
      /\ latest' = [latest EXCEPT ![p] = l]
      /\ UNCHANGED <<files, txn, page>>
  BY PathAssumption DEF Configure, StoreInv, Control
<1>2. /\ files[p] \in Data /\ latest \in [Paths -> Data] /\ latest[p] \in Data
      /\ keyFiles \in [Paths -> Keys \cup {NoKey}] /\ made \subseteq Keys
  BY DEF StoreInv, TypeOK
<1>3. /\ l \in Data /\ l.rev = files[p].rev /\ ~l.legacy /\ Loaded(l) = l
      /\ \A x : Precedes(x, files[p]) <=> Precedes(x, l)
      /\ ~files[p].legacy => l = files[p]
  BY <1>2, LoadedFacts
<1> HIDE DEF l
<1>4. /\ key' \in Keys \cup {NoKey} /\ keyFiles' \in [Paths -> Keys \cup {NoKey}] /\ made' \subseteq Keys
  BY <1>2 DEF Configure
<1>5. /\ published' \subseteq Base
      /\ latest' \in [Paths -> Data]
      /\ latest'[p] = l
      /\ \A o \in Paths \ {p} : latest'[o] = latest[o]
      /\ \A x \in published' : /\ x.data.rev <= latest'[x.path].rev
                               /\ x.data.rev = latest'[x.path].rev => x.data = latest'[x.path]
                               /\ Precedes(x.data, latest'[x.path])
      /\ RevisionIdentifiesData'
      /\ QueryRevisionIdentifiesConfig'
  <2>1. CASE l = latest[p]
    <3>1. published' = published /\ latest' = latest
      BY <1>1, <1>2, <2>1 DEF StoreInv, Chain
    <3> QED
      BY <1>2, <2>1, <3>1 DEF StoreInv, TypeOK, Chain, RevisionIdentifiesData,
                              QueryRevisionIdentifiesConfig
  <2>2. CASE l # latest[p]
    <3>1. files[p].rev = latest[p].rev + 1 /\ Precedes(latest[p], files[p])
      BY <2>2 DEF StoreInv, Chain, l
    <3> QED
      BY <1>1, <1>3, <3>1, ChainGrows
  <2> QED
    BY <2>1, <2>2
<1>6. TypeOK'
  BY <1>1, <1>3, <1>4, <1>5 DEF StoreInv, TypeOK
<1>7. Control'
  <2>1. /\ txn' = txn /\ page' = page /\ path' # NoPath /\ txn = Idle
        /\ published \subseteq published'
    BY <1>1
  <2> QED
    BY <2>1 DEF StoreInv, Control
<1>8. Chain'
  <2>1. Loaded(files[p]) = l
    BY DEF l
  <2>2. [path |-> p, data |-> l] \in published'
    BY <1>1
  <2>3. ASSUME NEW o \in Paths
        PROVE  /\ [path |-> o, data |-> latest'[o]] \in published'
               /\ ~latest'[o].legacy
               /\ o = path' => latest'[o] = data'
               /\ \/ Loaded(files'[o]) = latest'[o]
                  \/ /\ ~files'[o].legacy
                     /\ files'[o].rev = latest'[o].rev + 1
                     /\ Precedes(latest'[o], files'[o])
    BY <1>1, <1>3, <1>5, <2>1, <2>2 DEF StoreInv, Chain
  <2> QED
    BY <1>5, <2>3 DEF Chain
<1>9. Successor'
  BY <1>1 DEF Successor, Idle
<1> QED
  BY <1>5, <1>6, <1>7, <1>8, <1>9 DEF StoreInv

LEMMA CrashStep ==
  ASSUME StoreInv, Crash
  PROVE  StoreInv'
<1>1. /\ path' = NoPath /\ data' = Empty /\ key' = NoKey /\ txn' = Idle
      /\ page' = [c \in Pages |-> [page[c] EXCEPT !.st = "idle", !.ask = NoRequest,
                                                       !.from = NoPath]]
      /\ UNCHANGED <<disk, seen>>
  BY DEF Crash
<1>2. \A c \in Pages : /\ page'[c] \in Page
                       /\ page'[c].st = "idle"
                       /\ page'[c].base = page[c].base
  BY <1>1, RequestType DEF StoreInv, TypeOK, Page, Stages
<1>3. page' \in [Pages -> Page]
  BY <1>1, <1>2
<1>4. TypeOK'
  BY <1>1, <1>3, EmptyType DEF StoreInv, TypeOK, disk, seen
<1>5. Control'
  <2>1. txn'.by = Nobody /\ published' = published
    BY <1>1 DEF seen, Idle
  <2>2. ASSUME NEW c \in Pages
        PROVE  /\ page'[c].st = "writing" <=> txn'.by = c
               /\ page'[c].st # "idle" => path' # NoPath
               /\ page'[c].st \in {"saving", "writing"} => page'[c].base # Nothing
               /\ page'[c].base # Nothing => page'[c].base \in published'
    BY <1>2, <2>1, PageAssumption DEF StoreInv, Control
  <2> QED
    BY <1>1, <2>2 DEF Control
<1>6. Chain' /\ RevisionIdentifiesData' /\ QueryRevisionIdentifiesConfig'
  BY <1>1, PathAssumption DEF StoreInv, Chain, RevisionIdentifiesData, QueryRevisionIdentifiesConfig,
                              disk, seen
<1>7. Successor'
  BY <1>1 DEF Successor, Idle
<1> QED
  BY <1>4, <1>5, <1>6, <1>7 DEF StoreInv

LEMMA LoseKeyFileStep ==
  ASSUME StoreInv, NEW p \in Paths, LoseKeyFile(p)
  PROVE  StoreInv'
<1>1. keyFiles' \in [Paths -> Keys \cup {NoKey}] /\ UNCHANGED <<mem, files, made, txn, page, seen>>
  BY DEF LoseKeyFile, StoreInv, TypeOK
<1>2. TypeOK' /\ Control' /\ Successor'
  BY <1>1 DEF StoreInv, TypeOK, Control, Successor, mem, seen
<1> QED
  BY <1>1, <1>2, HistoryUnchanged DEF StoreInv

LEMMA StoreStep == StoreInv /\ [Next]_vars => StoreInv'
<1> SUFFICES ASSUME StoreInv, [Next]_vars PROVE StoreInv'
  OBVIOUS
<1>1. CASE \E p \in Paths : Configure(p) \/ LoseKeyFile(p)
  BY <1>1, ConfigureStep, LoseKeyFileStep
<1>2. CASE Crash
  BY <1>2, CrashStep
<1>3. CASE BeginChore
  BY <1>3, BeginChoreStep
<1>4. CASE Write
  BY <1>4, RenameStep, FailStep, PublishStep DEF Write
<1>5. ASSUME NEW c \in Pages, Commit(c) PROVE StoreInv'
  BY <1>5, AnsweredAtOnce, BeginStep DEF Commit
<1>6. ASSUME NEW c \in Pages, Read(c) PROVE StoreInv'
  BY <1>6, ReadViewStep, ReadRevisionStep DEF Read
<1>7. ASSUME NEW c \in Pages, Save(c) PROVE StoreInv'
  BY <1>7, SaveStep
<1>8. ASSUME NEW c \in Pages, NEW a \in Accounts, Draft(c, a) PROVE StoreInv'
  BY <1>8, DraftStep
<1>9. CASE UNCHANGED vars
  <2>1. UNCHANGED <<path, data, key, files, keyFiles, made, txn, page, published, latest>>
    BY <1>9 DEF vars, mem, disk, seen
  <2> QED
    BY <2>1 DEF StoreInv, TypeOK, Control, Chain, Successor, RevisionIdentifiesData,
                QueryRevisionIdentifiesConfig
<1> QED
  BY <1>1, <1>2, <1>3, <1>4, <1>5, <1>6, <1>7, <1>8, <1>9 DEF Next

THEOREM StoreInvariant == Spec => []StoreInv
<1>1. Init => StoreInv
  BY InitStore
<1>2. StoreInv /\ [Next]_vars => StoreInv'
  BY StoreStep
<1> QED
  BY <1>1, <1>2, PTL DEF Spec

-----------------------------------------------------------------------------
(* What follows from it. *)

\* The variables of the store keep their types (all commits, starts and page steps).
THEOREM StoreTypeCorrect == Spec => []TypeOK
<1>1. StoreInv => TypeOK
  BY DEF StoreInv
<1> QED
  BY <1>1, StoreInvariant, PTL

\* A revision of a file stands for one record, across failed saves and restarts.
THEOREM RevisionsIdentify == Spec => []RevisionIdentifiesData
<1>1. StoreInv => RevisionIdentifiesData
  BY DEF StoreInv
<1> QED
  BY <1>1, StoreInvariant, PTL

\* A query revision stands for one configuration of its account.
THEOREM QueryRevisionsIdentify == Spec => []QueryRevisionIdentifiesConfig
<1>1. StoreInv => QueryRevisionIdentifiesConfig
  BY DEF StoreInv
<1> QED
  BY <1>1, StoreInvariant, PTL

\* What readers could see, and so every acknowledged save, survives the process.
THEOREM AcknowledgedIsDurable == Spec => []PublishedDurable
<1>1. StoreInv => PublishedDurable
  <2> SUFFICES ASSUME StoreInv, NEW x \in published
               PROVE  /\ Loaded(files[x.path]).rev >= x.data.rev
                      /\ Loaded(files[x.path]).rev = x.data.rev => Loaded(files[x.path]) = x.data
    BY DEF PublishedDurable
  <2>1. /\ x.path \in Paths /\ files[x.path] \in Data /\ latest[x.path] \in Data
        /\ x.data \in Data
    BY DEF StoreInv, TypeOK, Base
  <2>2. /\ x.data.rev \in Nat /\ latest[x.path].rev \in Nat
        /\ Loaded(files[x.path]).rev = files[x.path].rev
    BY <2>1, LoadedFacts DEF Data
  <2>3. /\ x.data.rev <= latest[x.path].rev
        /\ x.data.rev = latest[x.path].rev => x.data = latest[x.path]
        /\ \/ Loaded(files[x.path]) = latest[x.path]
           \/ files[x.path].rev = latest[x.path].rev + 1
    BY <2>1 DEF StoreInv, Chain
  <2> QED
    BY <2>2, <2>3
<1> QED
  BY <1>1, StoreInvariant, PTL

\* The check of base_revision lets a save through only onto the record it was based on.
THEOREM SavesOnBase == Spec => []SaveOnBase
<1>1. StoreInv => SaveOnBase
  <2> SUFFICES ASSUME StoreInv, OnSameFile PROVE page[txn.by].base.data = data
    BY DEF SaveOnBase
  <2> DEFINE c == txn.by
             b == page[c].base
  <2>1. c \in Pages /\ b.path = path /\ txn.stage # "free"
    BY PageAssumption DEF OnSameFile, StoreInv, Control, Idle
  <2>2. path # NoPath /\ path \in Paths
    BY <2>1 DEF StoreInv, Control, TypeOK, Idle
  <2>3. b \in published /\ b.data.rev = data.rev
    BY <2>1 DEF StoreInv, Control, Successor
  <2>4. [path |-> path, data |-> data] \in published
    BY <2>2 DEF StoreInv, Chain
  <2>5. b = [path |-> path, data |-> data]
    BY <2>1, <2>3, <2>4 DEF StoreInv, RevisionIdentifiesData
  <2> QED
    BY <2>5
<1> QED
  BY <1>1, StoreInvariant, PTL

-----------------------------------------------------------------------------
(* Thresholds.  Every handler whose save is under way holds thresholds of a *)
(* record that readers could see (Kept).  If that record is of the file the *)
(* commit works on, it is not older than the base of the page, and the check *)
(* of the revision leaves only the record in memory.                         *)

HandlersKeep ==
    \A c \in Pages : page[c].st \in {"saving", "writing"} => \E x \in published : Kept(c, x)

\* Steps that leave the saves under way as they are.
LEMMA KeepersUnchanged ==
  ASSUME HandlersKeep, published \subseteq published',
         \A c \in Pages : page'[c].st \in {"saving", "writing"} =>
             /\ page[c].st \in {"saving", "writing"}
             /\ page'[c].ask = page[c].ask /\ page'[c].edit = page[c].edit
             /\ page'[c].base = page[c].base /\ page'[c].from = page[c].from
  PROVE  HandlersKeep'
<1> SUFFICES ASSUME NEW c \in Pages, page'[c].st \in {"saving", "writing"}
             PROVE  \E x \in published' : Kept(c, x)'
  BY DEF HandlersKeep
<1>1. PICK x \in published : Kept(c, x)
  BY DEF HandlersKeep
<1>2. Kept(c, x)'
  BY <1>1 DEF Kept
<1> QED
  BY <1>2

LEMMA EffectiveAfter ==
  ASSUME NEW d \in Data, NEW r \in Request, NEW k
  PROVE  /\ r.thr = NoThr => Effective(Numbered(Applied(d, r, k))) = Effective(d)
         /\ r.thr # NoThr => Effective(Numbered(Applied(d, r, k))) = r.thr
<1>1. Numbered(Applied(d, r, k)).thr = IF r.thr = NoThr THEN d.thr ELSE r.thr
  BY DEF Numbered, Applied, Data
<1> QED
  BY <1>1 DEF Effective

\* A request that reads the thresholds takes them from the record in use.
LEMMA AskKeeps ==
  ASSUME StoreInv, HandlersKeep, NEW c \in Pages, NEW e, NEW r, Ask(c, e, r),
         r.thr # NoThr => /\ e # "warn" => r.thr.warn = Effective(data).warn
                          /\ e # "cash" => r.thr.cash = Effective(data).cash
  PROVE  HandlersKeep'
<1> DEFINE q == [page[c] EXCEPT !.ask = r, !.edit = e, !.st = "saving", !.from = path]
<1>1. /\ page \in [Pages -> Page] /\ path # NoPath /\ path \in Paths
      /\ page[c].base \in published /\ published \subseteq Base /\ published' = published
  BY DEF Ask, StoreInv, TypeOK, Control, seen
<1>2. page' = [page EXCEPT ![c] = q]
  BY <1>1 DEF Ask
<1>3. q.ask = r /\ q.edit = e /\ q.from = path /\ q.base = page[c].base
  BY <1>1 DEF Page
<1>4. PICK x \in published : x = [path |-> path, data |-> data]
  BY <1>1 DEF StoreInv, Chain
<1>5. page[c].base.path = path => page[c].base.data.rev <= data.rev
  BY <1>1 DEF StoreInv, Chain
<1> HIDE DEF q
<1>6. \A o \in Pages \ {c} : page'[o] = page[o]
  BY <1>1, <1>2
<1>7. Kept(c, x)'
  <2>1. page'[c].ask = r /\ page'[c].edit = e /\ page'[c].from = path /\ page'[c].base = page[c].base
    BY <1>1, <1>2, <1>3
  <2> QED
    BY <1>4, <1>5, <2>1 DEF Kept
<1>8. ASSUME NEW o \in Pages \ {c}, page'[o].st \in {"saving", "writing"}
      PROVE  \E y \in published' : Kept(o, y)'
  <2>1. PICK y \in published : Kept(o, y)
    BY <1>6, <1>8 DEF HandlersKeep
  <2>2. Kept(o, y)'
    BY <1>6, <2>1 DEF Kept
  <2> QED
    BY <1>1, <2>2
<1> QED
  BY <1>1, <1>4, <1>7, <1>8 DEF HandlersKeep

LEMMA SaveKeeps ==
  ASSUME StoreInv, HandlersKeep, NEW c \in Pages, Save(c)
  PROVE  HandlersKeep'
<1>1. Effective(data) \in Thresholds
  BY ViewType DEF StoreInv, TypeOK
<1>2. CASE AskProviders(c)
  BY <1>2, AskKeeps DEF AskProviders, NoRequest
<1>3. CASE AskPat(c)
  <2>1. PICK pat \in [Accounts -> PatActions] :
            Ask(c, "pat", [NoRequest EXCEPT !.conf = Form(c), !.pat = pat, !.batch = Accounts])
    BY <1>3 DEF AskPat
  <2> QED
    BY <2>1, AskKeeps DEF NoRequest
<1>4. CASE AskCash(c)
  <2>1. PICK l \in Levels :
            Ask(c, "cash", [NoRequest EXCEPT !.conf = Form(c), !.batch = Accounts,
                                             !.thr = [ThresholdsNow EXCEPT !.cash = l]])
    BY <1>4 DEF AskCash
  <2>2. [ThresholdsNow EXCEPT !.cash = l].warn = Effective(data).warn
    BY <1>1 DEF ThresholdsNow, Thresholds
  <2> DEFINE t == [ThresholdsNow EXCEPT !.cash = l]
  <2>3. [NoRequest EXCEPT !.conf = Form(c), !.batch = Accounts, !.thr = t].thr = t
    BY DEF NoRequest
  <2> QED
    BY <2>1, <2>2, <2>3, AskKeeps
<1>5. CASE AskWarn(c)
  <2>1. PICK l \in Levels : Ask(c, "warn", [NoRequest EXCEPT !.thr = [ThresholdsNow EXCEPT !.warn = l]])
    BY <1>5 DEF AskWarn
  <2>2. [ThresholdsNow EXCEPT !.warn = l].cash = Effective(data).cash
    BY <1>1 DEF ThresholdsNow, Thresholds
  <2> DEFINE t == [ThresholdsNow EXCEPT !.warn = l]
  <2>3. [NoRequest EXCEPT !.thr = t].thr = t
    BY DEF NoRequest
  <2> QED
    BY <2>1, <2>2, <2>3, AskKeeps
<1> QED
  BY <1>2, <1>3, <1>4, <1>5 DEF Save

\* The commit begins on the record the thresholds were read from.
LEMMA BeginKeeps ==
  ASSUME StoreInv, ThresholdInv, NEW c \in Pages, Begin(c)
  PROVE  ThresholdInv'
<1>1. /\ page \in [Pages -> Page] /\ data \in Data /\ path \in Paths
      /\ page[c].st = "saving" /\ page[c].base \in published /\ page[c].base \in Base
      /\ page[c].base.data.rev = data.rev /\ page[c] \in Page
      /\ page' = [page EXCEPT ![c].st = "writing"]
      /\ path' = path /\ data' = data /\ published' = published
      /\ txn' = [stage |-> "writing", cand |-> Numbered(Applied(data, page[c].ask, key)), by |-> c]
  BY DEF Begin, Conflict, StoreInv, TypeOK, Control, mem, seen
<1>2. \A o \in Pages : /\ page'[o].ask = page[o].ask /\ page'[o].edit = page[o].edit
                       /\ page'[o].base = page[o].base /\ page'[o].from = page[o].from
                       /\ o # c => page'[o].st = page[o].st
  BY <1>1 DEF Page
<1>3. HandlersKeep'
  BY <1>1, <1>2, KeepersUnchanged DEF ThresholdInv, HandlersKeep
<1>4. PICK x \in published : Kept(c, x)
  BY <1>1 DEF ThresholdInv
<1>5. page[c].base.path = path /\ page[c].from = path => x.data = data
  <2>1. x \in Base /\ latest[path] = data /\ x.data.rev \in Nat /\ data.rev \in Nat
    BY <1>1, PathAssumption DEF StoreInv, TypeOK, Chain, Base, Data
  <2>2. x.path = path => /\ x.data.rev <= data.rev
                         /\ x.data.rev = data.rev => x.data = data
    BY <2>1 DEF StoreInv, Chain
  <2> QED
    BY <1>1, <1>4, <2>1, <2>2 DEF Kept
<1>6. SaveKeepsOtherThreshold'
  <2> DEFINE r == page[c].ask
             after == Effective(txn'.cand)
  <2>1. r \in Request
    BY <1>1 DEF Page
  <2>2. /\ r.thr = NoThr => after = Effective(data)
        /\ r.thr # NoThr => after = r.thr
    BY <1>1, <2>1, EffectiveAfter
  <2>3. ASSUME page[c].base.path = path, page[c].from = path
        PROVE  /\ page[c].edit # "warn" => after.warn = Effective(data).warn
               /\ page[c].edit # "cash" => after.cash = Effective(data).cash
    BY <1>4, <1>5, <2>2, <2>3 DEF Kept
  <2>4. Effective(data)' = Effective(data) /\ Effective(txn.cand)' = after /\ txn'.by = c
    BY <1>1 DEF Effective
  <2> HIDE DEF after
  <2> QED
    BY <1>1, <1>2, <2>3, <2>4 DEF SaveKeepsOtherThreshold, OnSameFile
<1> QED
  BY <1>3, <1>6 DEF ThresholdInv, HandlersKeep

\* A step of the pages: the one whose commit is under way takes none.
LEMMA PagesKeep ==
  ASSUME StoreInv, ThresholdInv, HandlersKeep', UNCHANGED <<path, data, txn>>,
         \A c \in Pages : page[c].st = "writing" => page'[c] = page[c]
  PROVE  ThresholdInv'
<1>1. txn.by \in Pages => page'[txn.by] = page[txn.by]
  BY DEF StoreInv, Control
<1>2. SaveKeepsOtherThreshold'
  BY <1>1 DEF ThresholdInv, SaveKeepsOtherThreshold, OnSameFile, Effective
<1> QED
  BY <1>2 DEF ThresholdInv, HandlersKeep

LEMMA InitKeeps == Init => ThresholdInv
  BY PageAssumption DEF Init, BlankPage, Idle, ThresholdInv, SaveKeepsOtherThreshold, OnSameFile

LEMMA NextKeeps == StoreInv /\ ThresholdInv /\ [Next]_vars => ThresholdInv'
<1> SUFFICES ASSUME StoreInv, ThresholdInv, [Next]_vars PROVE ThresholdInv'
  OBVIOUS
<1> USE DEF HandlersKeep
<1>0. HandlersKeep /\ page \in [Pages -> Page]
  BY DEF ThresholdInv, StoreInv, TypeOK
<1>1. ASSUME txn' = Idle, HandlersKeep' PROVE ThresholdInv'
  BY <1>1, PageAssumption DEF ThresholdInv, SaveKeepsOtherThreshold, OnSameFile, Idle
<1>2. ASSUME NEW p \in Paths, Configure(p) PROVE ThresholdInv'
  <2>1. txn' = Idle /\ published \subseteq published' /\ page' = page
    BY <1>2 DEF Configure, StoreInv, Control
  <2> QED
    BY <1>0, <1>1, <2>1, KeepersUnchanged
<1>3. CASE Crash
  <2>1. txn' = Idle /\ published' = published /\ \A c \in Pages : page'[c].st = "idle"
    BY <1>0, <1>3 DEF Crash, seen, Page
  <2> QED
    BY <1>1, <2>1
<1>4. CASE Fail \/ Publish
  <2>1. PICK st \in {"idle", "saved"} : AnswerWaiter(st)
    BY <1>4 DEF Fail, Publish
  <2>2. txn' = Idle /\ published \subseteq published' /\ txn.stage # "free"
    BY <1>4 DEF Fail, Publish, seen
  <2>3. \A c \in Pages : c # txn.by => page'[c] = page[c]
    BY <1>0, <2>1 DEF AnswerWaiter, Answer
  <2>4. txn.by \in Pages => page'[txn.by].st \notin {"saving", "writing"}
    BY <2>1, <2>2, Answered DEF StoreInv, Control
  <2> QED
    BY <1>0, <1>1, <2>2, <2>3, <2>4, KeepersUnchanged
<1>5. CASE Rename
  <2>1. /\ UNCHANGED <<path, data, published, page>>
        /\ txn'.cand = txn.cand /\ txn'.by = txn.by
    BY <1>5 DEF Rename, mem, seen, StoreInv, TypeOK, Txn
  <2>2. SaveKeepsOtherThreshold'
    BY <2>1 DEF ThresholdInv, SaveKeepsOtherThreshold, OnSameFile, Effective
  <2> QED
    BY <1>0, <2>1, <2>2, KeepersUnchanged DEF ThresholdInv
<1>6. CASE BeginChore
  <2>1. UNCHANGED <<published, page>> /\ txn'.by = Nobody
    BY <1>6 DEF BeginChore, seen
  <2>2. SaveKeepsOtherThreshold'
    BY <2>1, PageAssumption DEF SaveKeepsOtherThreshold, OnSameFile
  <2> QED
    BY <1>0, <2>1, <2>2, KeepersUnchanged DEF ThresholdInv
<1>7. ASSUME NEW c \in Pages, Refuse(c) \/ KeepAsIs(c) \/ Read(c) \/ \E a \in Accounts : Draft(c, a)
      PROVE  ThresholdInv'
  <2>1. /\ UNCHANGED <<path, data, txn, published>> /\ page[c].st # "writing"
        /\ \A o \in Pages \ {c} : page'[o] = page[o]
        /\ page'[c].st \notin {"saving", "writing"}
    BY <1>0, <1>7 DEF Refuse, KeepAsIs, Answer, Read, ReadView, ReadRevision, Draft, Page, mem, seen
  <2> QED
    BY <1>0, <2>1, KeepersUnchanged, PagesKeep
<1>8. ASSUME NEW c \in Pages, Save(c) PROVE ThresholdInv'
  <2>1. /\ UNCHANGED <<path, data, txn>> /\ page[c].st # "writing"
        /\ \A o \in Pages \ {c} : page'[o] = page[o]
    BY <1>0, <1>8 DEF Save, AskProviders, AskPat, AskCash, AskWarn, Ask, mem
  <2> QED
    BY <1>0, <1>8, <2>1, SaveKeeps, PagesKeep
<1>9. ASSUME UNCHANGED <<path, data, txn, published, page>> PROVE ThresholdInv'
  BY <1>0, <1>9, KeepersUnchanged, PagesKeep
<1>10. ASSUME NEW p \in Paths, LoseKeyFile(p) PROVE ThresholdInv'
  BY <1>9, <1>10 DEF LoseKeyFile, mem, seen
<1>11. CASE UNCHANGED vars
  BY <1>9, <1>11 DEF vars, mem, seen
<1> QED
  BY <1>2, <1>3, <1>4, <1>5, <1>6, <1>7, <1>8, <1>10, <1>11, BeginKeeps DEF Next, Write, Commit

\* A save of one threshold writes back the other as it is in effect when it commits,
\* whatever other saves came in between and however often the path changed.
THEOREM OtherThresholdKept == Spec => []SaveKeepsOtherThreshold
<1>1. ThresholdInv => SaveKeepsOtherThreshold
  BY DEF ThresholdInv
<1> QED
  BY <1>1, InitKeeps, NextKeeps, StoreInvariant, PTL DEF Spec

-----------------------------------------------------------------------------
(* Keys. *)

LEMMA KeyInit == Init => KeyInv
<1> SUFFICES ASSUME Init PROVE KeyInv
  OBVIOUS
<1>1. PICK k \in Keys : files \in [Paths -> Found(k)] /\ keyFiles \in [Paths -> {k, NoKey}]
  BY DEF Init
<1>2. \A p \in Paths : Stored(files[p], k)
  BY <1>1, FoundType
<1>3. path = NoPath /\ key = NoKey
  BY DEF Init
<1> QED
  BY <1>1, <1>2, <1>3, InitStore DEF KeyInv, PatsOpen, Sealing

LEMMA KeyStep == KeyInv /\ [Next]_vars => KeyInv'
<1> SUFFICES ASSUME KeyInv, [Next]_vars PROVE KeyInv'
  OBVIOUS
<1>1. StoreInv /\ StoreInv'
  BY StoreStep DEF KeyInv
<1>2. /\ data \in Data /\ key \in Keys \cup {NoKey} /\ files \in [Paths -> Data]
      /\ keyFiles \in [Paths -> Keys \cup {NoKey}] /\ path \in Paths \cup {NoPath}
      /\ txn \in Txn /\ txn.cand \in Data
  BY <1>1 DEF StoreInv, TypeOK, Txn
<1>3. ASSUME UNCHANGED <<mem, disk, txn>> PROVE KeyInv'
  BY <1>1, <1>3 DEF KeyInv, PatsOpen, Sealing, mem, disk
<1>4. ASSUME UNCHANGED <<mem, disk>>, txn'.stage # "free", path # NoPath,
             \A k \in {key, keyFiles[path]} \ {NoKey} : Stored(txn'.cand, k)
      PROVE  KeyInv'
  BY <1>1, <1>4 DEF KeyInv, PatsOpen, Sealing, mem, disk
<1>5. ASSUME NEW p \in Paths, Configure(p) PROVE KeyInv'
  <2>1. /\ path' = p /\ data' = Loaded(files[p]) /\ files' = files /\ txn'.stage = "free"
    BY <1>5 DEF Configure
  <2>2. data'.pats = files[p].pats
    BY <1>2, <2>1, LoadedFacts
  <2>3. CASE key' = keyFiles[p] /\ keyFiles' = keyFiles
    <3>1. keyFiles[p] # NoKey => Stored(data', keyFiles[p])
      BY <2>2 DEF KeyInv, PatsOpen, Stored
    <3> QED
      BY <1>1, <2>1, <2>3, <3>1 DEF KeyInv, PatsOpen, Sealing
  <2>4. CASE MayDrawKey(p) /\ key' = NoKey /\ keyFiles' = keyFiles
    BY <1>1, <2>1, <2>4 DEF KeyInv, PatsOpen, Sealing, MayDrawKey
  <2>5. CASE MayDrawKey(p) /\ \E k \in Keys : keyFiles' = [keyFiles EXCEPT ![p] = k] /\ key' \in {k, NoKey}
    <3>1. PICK k \in Keys : keyFiles' = [keyFiles EXCEPT ![p] = k] /\ key' \in {k, NoKey}
      BY <2>5
    <3>2. \A m : Stored(files[p], m) /\ Stored(data', m)
      BY <2>2, <2>5 DEF MayDrawKey, Stored
    <3>3. keyFiles'[p] = k /\ \A o \in Paths \ {p} : keyFiles'[o] = keyFiles[o]
      BY <1>2, <3>1
    <3>4. PatsOpen'
      BY <2>1, <3>2, <3>3 DEF KeyInv, PatsOpen
    <3>5. Sealing'
      BY <2>1, <3>1, <3>2, <3>3, KeyAssumption DEF Sealing
    <3> QED
      BY <1>1, <3>4, <3>5 DEF KeyInv
  <2> QED
    BY <1>5, <2>3, <2>4, <2>5 DEF Configure
<1>6. ASSUME NEW p \in Paths, LoseKeyFile(p) PROVE KeyInv'
  <2>1. /\ keyFiles' = [keyFiles EXCEPT ![p] = NoKey]
        /\ path' = path /\ data' = data /\ key' = key /\ files' = files /\ txn' = txn
    BY <1>6 DEF LoseKeyFile, mem
  <2>2. \A o \in Paths : keyFiles'[o] \in {keyFiles[o], NoKey}
    BY <1>2, <2>1
  <2>3. PatsOpen'
    BY <2>1, <2>2 DEF KeyInv, PatsOpen
  <2>4. Sealing'
    BY <1>2, <2>1, <2>2 DEF KeyInv, Sealing
  <2> QED
    BY <1>1, <2>3, <2>4 DEF KeyInv
<1>7. ASSUME Crash PROVE KeyInv'
  BY <1>1, <1>7 DEF Crash, KeyInv, PatsOpen, Sealing, disk
<1>8. ASSUME BeginChore PROVE KeyInv'
  <2>1. PICK n \in ChoreResults(data) : txn' = [stage |-> "writing", cand |-> Numbered(n), by |-> Nobody]
    BY <1>8 DEF BeginChore
  <2>2. Numbered(n).pats = data.pats
    BY <1>2, ChoreFacts, NumberedFacts
  <2>3. path # NoPath /\ UNCHANGED <<mem, disk>>
    BY <1>8 DEF BeginChore
  <2>4. \A k \in {key, keyFiles[path]} \ {NoKey} : Stored(Numbered(n), k)
    BY <2>2, <2>3 DEF KeyInv, Sealing, Stored
  <2> QED
    BY <1>4, <2>1, <2>3, <2>4
<1>9. ASSUME NEW c \in Pages, Begin(c) PROVE KeyInv'
  <2> DEFINE n == Applied(data, page[c].ask, key)
  <2>1. /\ txn' = [stage |-> "writing", cand |-> Numbered(n), by |-> c]
        /\ UNCHANGED <<mem, disk>> /\ path # NoPath /\ path \in Paths
        /\ ~Rejected(page[c].ask, key) /\ page[c].ask \in Request
    BY <1>1, <1>2, <1>9 DEF Begin, StoreInv, Control, TypeOK, Page
  <2>2. n \in Data /\ \A m \in Keys : Stored(data, m) /\ key \in {m, NoKey} => Stored(n, m)
    BY <1>2, <2>1, AppliedFacts
  <2> HIDE DEF n
  <2>3. Numbered(n).pats = n.pats
    BY <2>2, NumberedFacts
  <2>4. \A k \in {key, keyFiles[path]} \ {NoKey} : Stored(Numbered(n), k)
    BY <1>2, <2>1, <2>2, <2>3 DEF KeyInv, Sealing, Stored
  <2> QED
    BY <1>4, <2>1, <2>4
<1>10. ASSUME Rename PROVE KeyInv'
  <2>1. /\ path # NoPath /\ path \in Paths /\ txn.stage # "free"
        /\ files' = [files EXCEPT ![path] = txn.cand]
        /\ txn'.cand = txn.cand
        /\ path' = path /\ data' = data /\ key' = key /\ keyFiles' = keyFiles
    BY <1>1, <1>2, <1>10 DEF Rename, StoreInv, Control, Idle, mem, Txn
  <2>2. files'[path] = txn.cand /\ \A o \in Paths \ {path} : files'[o] = files[o]
    BY <1>2, <2>1
  <2>3. PatsOpen'
    BY <2>1, <2>2 DEF KeyInv, PatsOpen, Sealing
  <2>4. Sealing'
    BY <2>1 DEF KeyInv, Sealing
  <2> QED
    BY <1>1, <2>3, <2>4 DEF KeyInv
<1>11. ASSUME Fail PROVE KeyInv'
  <2>1. /\ txn'.stage = "free"
        /\ path' = path /\ data' = data /\ key' = key /\ keyFiles' = keyFiles /\ files' = files
    BY <1>11 DEF Fail, Idle, mem, disk
  <2> QED
    BY <1>1, <2>1 DEF KeyInv, PatsOpen, Sealing
<1>12. ASSUME Publish PROVE KeyInv'
  <2>1. /\ txn.stage # "free" /\ txn'.stage = "free" /\ path # NoPath
        /\ data' = txn.cand
        /\ path' = path /\ key' = key /\ keyFiles' = keyFiles /\ files' = files
    BY <1>1, <1>12 DEF Publish, StoreInv, Control, Idle, disk
  <2> QED
    BY <1>1, <2>1 DEF KeyInv, PatsOpen, Sealing
<1>13. ASSUME NEW c \in Pages, Refuse(c) \/ KeepAsIs(c) \/ Read(c) \/ Save(c) \/ \E a \in Accounts : Draft(c, a)
       PROVE  UNCHANGED <<mem, disk, txn>>
  BY <1>13 DEF Refuse, KeepAsIs, Read, ReadView, ReadRevision, Save, AskProviders, AskPat, AskCash,
               AskWarn, Ask, Draft
<1>14. CASE UNCHANGED vars
  BY <1>3, <1>14 DEF vars
<1> QED
  BY <1>3, <1>5, <1>6, <1>7, <1>8, <1>9, <1>10, <1>11, <1>12, <1>13, <1>14 DEF Next, Write, Commit

\* No lost key file, restart or change of the path leaves PATs under a key that is not there.
THEOREM KeysOpenPats == Spec => []PatsOpen
<1>1. KeyInv => PatsOpen
  BY DEF KeyInv
<1> QED
  BY <1>1, KeyInit, KeyStep, PTL DEF Spec

-----------------------------------------------------------------------------
(* The store implements the register. *)

\* What is left behind in the file of p when readers see v and the file holds f.
Left(f, v) == IF Loaded(f) = v THEN Nothing ELSE Loaded(f)

LEMMA Mapping ==
  StoreInv => \A p \in Paths : Visible(p) = latest[p] /\ LeftBehind(p) = Left(files[p], latest[p])
  BY DEF StoreInv, Chain, Visible, LeftBehind, Left

LEMMA RegisterInit == Init => Promise!Init
<1> SUFFICES ASSUME Init PROVE Promise!Init
  OBVIOUS
<1>1. StoreInv
  BY InitStore
<1>2. \A p \in Paths : Visible(p) = latest[p] /\ LeftBehind(p) = Nothing
  BY <1>1, Mapping DEF Left, Init
<1>3. latest \in [Paths -> Data] /\ path = NoPath
  BY <1>1 DEF StoreInv, TypeOK, Init
<1> QED
  BY <1>2, <1>3 DEF Promise!Init

LEMMA RegisterStep == StoreInv /\ StoreInv' /\ [Next]_vars => [Promise!Next]_(Promise!vars)
<1> SUFFICES ASSUME StoreInv, StoreInv', [Next]_vars PROVE [Promise!Next]_(Promise!vars)
  OBVIOUS
<1> DEFINE value == [p \in Paths |-> Visible(p)]
           pending == [p \in Paths |-> LeftBehind(p)]
<1>1. value = latest /\ pending = [p \in Paths |-> Left(files[p], latest[p])]
  BY Mapping DEF StoreInv, TypeOK
<1>2. value' = latest' /\ pending' = [p \in Paths |-> Left(files'[p], latest'[p])]
  <2>1. \A p \in Paths : Visible(p)' = latest'[p] /\ LeftBehind(p)' = Left(files'[p], latest'[p])
    BY DEF StoreInv, Chain, Visible, LeftBehind, Left, Loaded
  <2> QED
    BY <2>1 DEF StoreInv, TypeOK
<1>3. /\ files \in [Paths -> Data] /\ latest \in [Paths -> Data]
      /\ path \in Paths \cup {NoPath} /\ txn \in Txn /\ txn.cand \in Data
  BY DEF StoreInv, TypeOK, Txn
<1> HIDE DEF value, pending
<1>4. ASSUME UNCHANGED <<path, files, latest>> PROVE UNCHANGED Promise!vars
  BY <1>1, <1>2, <1>4 DEF Promise!vars, value, pending
<1>5. ASSUME NEW p \in Paths, Configure(p) PROVE Promise!Start(p)
  <2>1. path' = p /\ files' = files /\ latest' = [latest EXCEPT ![p] = Loaded(files[p])]
    BY <1>5 DEF Configure
  <2>2. Loaded(files[p]) \in Data
    BY <1>3, LoadedFacts
  <2>3. Left(files[p], Loaded(files[p])) = Nothing
    BY DEF Left
  <2>4. \A o \in Paths : o # p => latest'[o] = latest[o]
    BY <1>3, <2>1
  <2>5. value' = [value EXCEPT ![p] = IF pending[p] = Nothing THEN @ ELSE pending[p]]
    <3>1. (IF pending[p] = Nothing THEN value[p] ELSE pending[p]) = Loaded(files[p])
      BY <1>1, <2>2, NothingAssumption DEF Left
    <3> QED
      BY <1>1, <1>2, <2>1, <3>1
  <2>6. pending' = [pending EXCEPT ![p] = Nothing]
    BY <1>1, <1>2, <1>3, <2>1, <2>3, <2>4
  <2> QED
    BY <2>1, <2>5, <2>6 DEF Promise!Start, value, pending
<1>6. ASSUME Crash PROVE Promise!Stop
  <2>1. path' = NoPath /\ files' = files /\ latest' = latest
    BY <1>6 DEF Crash, disk, seen
  <2>2. value' = value /\ pending' = pending
    BY <1>1, <1>2, <2>1
  <2> QED
    BY <2>1, <2>2 DEF Promise!Stop, value, pending
<1>7. ASSUME Rename PROVE Promise!Attempt
  <2>1. /\ path # NoPath /\ path \in Paths /\ path' = path /\ latest' = latest
        /\ files' = [files EXCEPT ![path] = txn.cand] /\ txn.stage # "free"
    BY <1>3, <1>7 DEF Rename, StoreInv, Control, Idle, mem, seen
  <2>2. /\ latest[path] = data /\ txn.cand.rev = data.rev + 1 /\ ~txn.cand.legacy
        /\ data.rev \in Nat
    BY <2>1 DEF StoreInv, Chain, Successor, TypeOK, Data
  <2>3. Loaded(txn.cand) = txn.cand
    BY <1>3, <2>2, LoadedFacts
  <2>4. Left(files'[path], latest'[path]) = txn.cand
    <3>1. files'[path] = txn.cand
      BY <1>3, <2>1
    <3>2. txn.cand # data
      BY <2>2
    <3> QED
      BY <2>1, <2>2, <2>3, <3>1, <3>2 DEF Left
  <2>5. pending' = [pending EXCEPT ![path] = txn.cand] /\ value' = value
    <3>1. \A o \in Paths : o # path => files'[o] = files[o]
      BY <1>3, <2>1
    <3> QED
      BY <1>1, <1>2, <2>1, <2>4, <3>1
  <2>6. pending'[path] = txn.cand
    BY <1>2, <2>1, <2>4
  <2>7. txn.cand \in Data /\ txn.cand.rev = value[path].rev + 1
    BY <1>1, <1>3, <2>2
  <2> QED
    BY <2>1, <2>5, <2>6, <2>7 DEF Promise!Attempt, value, pending
<1>8. ASSUME Publish PROVE Promise!Accept
  <2>1. /\ path # NoPath /\ path \in Paths /\ path' = path /\ files' = files
        /\ latest' = [latest EXCEPT ![path] = txn.cand] /\ txn.stage = "renamed"
    BY <1>3, <1>8 DEF Publish, StoreInv, Control, Idle, disk
  <2>2. /\ latest[path] = data /\ txn.cand.rev = data.rev + 1 /\ ~txn.cand.legacy
        /\ data.rev \in Nat /\ files[path] = txn.cand
    BY <2>1 DEF StoreInv, Chain, Successor, TypeOK, Data
  <2>3. Loaded(txn.cand) = txn.cand
    BY <1>3, <2>2, LoadedFacts
  <2>4. pending[path] = txn.cand /\ txn.cand # Nothing
    <3>1. txn.cand # data
      BY <2>2
    <3> QED
      BY <1>1, <1>3, <2>1, <2>2, <2>3, <3>1, NothingAssumption DEF Left
  <2>5. value' = [value EXCEPT ![path] = pending[path]]
    BY <1>1, <1>2, <2>1, <2>4
  <2>6. pending' = [pending EXCEPT ![path] = Nothing]
    <3>1. latest'[path] = txn.cand /\ \A o \in Paths : o # path => latest'[o] = latest[o]
      BY <1>3, <2>1
    <3>2. Left(files'[path], latest'[path]) = Nothing
      BY <2>1, <2>2, <2>3, <3>1 DEF Left
    <3> QED
      BY <1>1, <1>2, <2>1, <3>1, <3>2
  <2> QED
    BY <2>1, <2>4, <2>5, <2>6 DEF Promise!Accept, value, pending
<1>9. ASSUME \/ BeginChore \/ Fail \/ UNCHANGED vars
             \/ \E p \in Paths : LoseKeyFile(p)
             \/ \E c \in Pages : Commit(c) \/ Read(c) \/ Save(c) \/ \E a \in Accounts : Draft(c, a)
      PROVE  UNCHANGED <<path, files, latest>>
  <2>1. ASSUME NEW c \in Pages, Save(c) PROVE UNCHANGED <<mem, disk, seen>>
    BY <2>1 DEF Save, AskProviders, AskPat, AskCash, AskWarn, Ask
  <2>2. ASSUME NEW c \in Pages, Commit(c) \/ Read(c) \/ \E a \in Accounts : Draft(c, a)
        PROVE  UNCHANGED <<mem, disk, seen>>
    BY <2>2 DEF Commit, Refuse, KeepAsIs, Begin, Read, ReadView, ReadRevision, Draft
  <2> QED
    BY <1>9, <2>1, <2>2 DEF BeginChore, Fail, LoseKeyFile, mem, disk, seen, vars
<1> QED
  BY <1>4, <1>5, <1>6, <1>7, <1>8, <1>9 DEF Next, Write, Promise!Next

\* To the outside the store is a register that moves from a value to its successor.
THEOREM StoreIsRegister == Spec => Register
<1>1. Init => Promise!Init
  BY RegisterInit
<1>2. StoreInv /\ StoreInv' /\ [Next]_vars => [Promise!Next]_(Promise!vars)
  BY RegisterStep
<1> QED
  BY <1>1, <1>2, StoreInvariant, PTL DEF Spec, Register, Promise!Spec
=============================================================================
