----------------------------- MODULE PrefsStore -----------------------------
(***************************************************************************)
(* The preferences (monitorPrefs): one record in memory and in a file, a   *)
(* revision that every commit increments, and the pages that edit it.      *)
(*                                                                         *)
(* A commit works on a copy under commitMu, replaces the file and then the *)
(* record in memory.  Readers only take mu, so between two of their reads  *)
(* a commit may be published.  A page reads the state in two such reads,   *)
(* the settings first and the revision after them, and sends the revision  *)
(* back with its save as base_revision.                                    *)
(*                                                                         *)
(* The process may stop at any step and be started again on what is in the *)
(* files.  Loss of a file that was renamed (a power failure) is not        *)
(* modelled, nor are edits of the file by an operator.                     *)
(***************************************************************************)
EXTENDS Naturals, FiniteSets

CONSTANTS
    Pages,
    Accounts,
    Alerts,
    Paths,          \* values of preferences_path
    NoPath,         \* the plug-in is not configured
    Keys,           \* contents of key files; keys are random and never drawn twice
    NoKey,          \* no usable key (keyErr # nil), or no key file
    Settings,       \* values of Monitored and Adapters of an account
    Default,        \* monitored, adapter chosen automatically
    Secrets,        \* management PATs
    NoPat,
    Levels,         \* values of a threshold
    NoThr,          \* Thresholds = nil: those of the configuration apply
    Nobody,         \* a commit no page waits for
    Nothing,
    Edits,          \* kinds of saves (bound)
    Chores,         \* kinds of other commits (bound)
    MaxRev          \* bound: no write beyond it succeeds

ASSUME PathAssumption == NoPath \notin Paths
ASSUME KeyAssumption == NoKey \notin Keys
ASSUME PageAssumption == Nobody \notin Pages
ASSUME SettingAssumption == Default \in Settings /\ "keep" \notin Settings
ASSUME MaxRevAssumption == MaxRev \in Nat

Sealed == [secret : Secrets, key : Keys]
Thresholds == [warn : Levels, cash : Levels]
Fallback == [warn |-> CHOOSE l \in Levels : TRUE, cash |-> CHOOSE l \in Levels : TRUE]

\* conf stands for what a query depends on besides the PAT (Monitored and Adapters);
\* known for Known, FirstSeen and AccountOrder; thr for Thresholds and, as what
\* queries do not depend on, for Names.  legacy: an older format_version.
Data == [rev : Nat, known : SUBSET Accounts, conf : [Accounts -> Settings],
         pats : [Accounts -> Sealed \cup {NoPat}], relink : SUBSET Accounts,
         qrev : [Accounts -> Nat], dismissed : SUBSET Alerts,
         thr : Thresholds \cup {NoThr}, legacy : BOOLEAN]
Empty == [rev |-> 0, known |-> {}, conf |-> [a \in Accounts |-> Default],
          pats |-> [a \in Accounts |-> NoPat], relink |-> {},
          qrev |-> [a \in Accounts |-> 0], dismissed |-> {}, thr |-> NoThr, legacy |-> FALSE]

ASSUME PatAssumption == NoPat \notin Sealed
ASSUME ThrAssumption == NoThr \notin Thresholds
ASSUME LevelAssumption == Levels # {}

VARIABLES
    path,       \* monitorPrefs.path
    data,       \* monitorPrefs.data
    key,        \* monitorPrefs.key
    files,      \* the preferences file of each path
    keyFiles,   \* the key file of each path
    made,       \* ghost: the keys drawn so far
    txn,        \* the commit that holds commitMu
    page,       \* the pages
    published,  \* ghost: every record a reader could see, with its path
    latest      \* ghost: the last of them for each path

mem == <<path, data, key>>
disk == <<files, keyFiles, made>>
seen == <<published, latest>>
vars == <<mem, disk, txn, page, seen>>

-----------------------------------------------------------------------------
(* What commits do to the record. *)

\* configure: an older format asks for every PAT to be entered again.
Loaded(d) ==
    [d EXCEPT !.relink = IF d.legacy THEN @ \cup {a \in Accounts : d.pats[a] # NoPat} ELSE @,
              !.legacy = FALSE]

\* Bug: the revision is not incremented.
NumberedBy0(d) == d

Numbered(d) == [d EXCEPT !.rev = @ + 1]

Effective(d) == IF d.thr = NoThr THEN Fallback ELSE d.thr

\* A request: conf[a] and pat[a] for every account of the batch, thresholds or none.
PatActions == {"keep", "clear"} \cup Secrets
Request == [conf : [Accounts -> Settings \cup {"keep"}], pat : [Accounts -> PatActions],
            thr : Thresholds \cup {NoThr}, batch : SUBSET Accounts]
NoRequest == [conf |-> [a \in Accounts |-> "keep"], pat |-> [a \in Accounts |-> "keep"],
              thr |-> NoThr, batch |-> {}]

\* What applies to an account that ensureKnownPreference has not yet entered.
ConfBefore(d, a) == IF a \in d.known THEN d.conf[a] ELSE Default
ConfAfter(d, r, a) == IF r.conf[a] = "keep" THEN ConfBefore(d, a) ELSE r.conf[a]

\* queryChanged
QueryTouched(d, r, a) ==
    \/ ConfAfter(d, r, a) # ConfBefore(d, a)
    \/ r.pat[a] \in Secrets
    \/ r.pat[a] = "clear" /\ (d.pats[a] # NoPat \/ a \in d.relink)

Touched(d, r) ==
    \/ \E a \in r.batch : a \notin d.known \/ QueryTouched(d, r, a)
    \/ r.thr # NoThr /\ r.thr # d.thr

\* Only replacing a PAT can fail, for want of a key; it fails the whole batch.
Rejected(r, k) == k = NoKey /\ \E a \in r.batch : r.pat[a] \in Secrets

\* Bug: a PAT does not count as a part of the query.
RevisionsAfterConf(d, r) ==
    [a \in Accounts |->
        IF a \in r.batch /\ ConfAfter(d, r, a) # ConfBefore(d, a) THEN d.qrev[a] + 1 ELSE d.qrev[a]]

RevisionsAfter(d, r) ==
    [a \in Accounts |->
        IF a \in r.batch /\ QueryTouched(d, r, a) THEN d.qrev[a] + 1 ELSE d.qrev[a]]

Applied(d, r, k) ==
    [d EXCEPT !.known = @ \cup r.batch,
              !.conf = [a \in Accounts |-> IF a \in r.batch THEN ConfAfter(d, r, a) ELSE @[a]],
              !.pats = [a \in Accounts |->
                  CASE a \in r.batch /\ r.pat[a] \in Secrets -> [secret |-> r.pat[a], key |-> k]
                    [] a \in r.batch /\ r.pat[a] = "clear" -> NoPat
                    [] OTHER -> @[a]],
              !.relink = {a \in @ : a \notin r.batch \/ r.pat[a] = "keep"},
              !.qrev = RevisionsAfter(d, r),
              !.thr = IF r.thr = NoThr THEN @ ELSE r.thr]

\* Commits without a base revision: reconcileDefaults, invalidateQueryResults,
\* dismissAlert and reconcileDismissedAlerts.
Registered(d, ids, default) ==
    [d EXCEPT !.known = @ \cup ids,
              !.conf = [a \in Accounts |-> IF a \in ids \ d.known THEN default ELSE @[a]]]
Invalidated(d, ids) ==
    [d EXCEPT !.qrev = [a \in Accounts |-> IF a \in ids THEN @[a] + 1 ELSE @[a]]]
Dismissed(d, x) == [d EXCEPT !.dismissed = @ \cup {x}]
Reconciled(d, active) == [d EXCEPT !.dismissed = @ \cap active]

ChoreResults(d) ==
    (IF "register" \in Chores THEN {Registered(d, ids, x) : ids \in SUBSET Accounts, x \in Settings} ELSE {})
    \cup (IF "invalidate" \in Chores THEN {Invalidated(d, ids) : ids \in SUBSET Accounts} ELSE {})
    \cup (IF "dismiss" \in Chores THEN {Dismissed(d, x) : x \in Alerts} ELSE {})
    \cup (IF "reconcile" \in Chores THEN {Reconciled(d, active) : active \in SUBSET Alerts} ELSE {})

-----------------------------------------------------------------------------
(* Pages.  base is what the store held when the page read the revision: all *)
(* the page knows of it is base.data.rev.                                    *)

View == [conf : [Accounts -> Settings], thr : Thresholds]
ViewOf(d) == [conf |-> [a \in Accounts |-> ConfBefore(d, a)], thr |-> Effective(d)]
Base == [path : Paths, data : Data]
Drafts == [Accounts -> Settings \cup {"keep"}]
NoDraft == [a \in Accounts |-> "keep"]

\* idle: nothing under way.  reading: has the settings, not yet the revision.
\* saving: the handler has read the thresholds, commitMu is not yet taken.
\* writing: its commit is under way.  saved: the commit succeeded.
\* answering: as reading, for the answer to a save.
\* from (ghost): the file in use when the handler of the save read the thresholds.
Stages == {"idle", "reading", "saving", "writing", "saved", "answering"}
Page == [st : Stages, view : View, next : View, base : Base \cup {Nothing},
         draft : Drafts, ask : Request, edit : Edits, from : Paths \cup {NoPath}]
ASSUME NothingAssumption == Nothing \notin Base \cup Data
ASSUME EditAssumption == Edits # {} /\ Edits \subseteq {"providers", "pat", "cash", "warn"}
ASSUME ChoreAssumption == Chores \subseteq {"register", "invalidate", "dismiss", "reconcile"}
ASSUME SecretAssumption == Secrets \cap {"keep", "clear"} = {}

BlankPage ==
    [st |-> "idle", view |-> ViewOf(Empty), next |-> ViewOf(Empty), base |-> Nothing,
     draft |-> NoDraft, ask |-> NoRequest, edit |-> CHOOSE e \in Edits : TRUE,
     from |-> NoPath]

Idle == [stage |-> "free", cand |-> Empty, by |-> Nobody]
Txn == [stage : {"free", "writing", "renamed"}, cand : Data, by : Pages \cup {Nobody}]

\* A file as earlier versions of the plug-in or earlier runs left it.
Stored(d, k) == \A a \in Accounts : d.pats[a] = NoPat \/ d.pats[a].key = k
OldFile(s, k) ==
    [Empty EXCEPT !.known = Accounts, !.pats = [a \in Accounts |-> [secret |-> s, key |-> k]]]
OlderFile(s, k) == [OldFile(s, k) EXCEPT !.legacy = TRUE]
Found(k) == {Empty} \cup {OldFile(s, k) : s \in Secrets} \cup {OlderFile(s, k) : s \in Secrets}

TypeOK ==
    /\ path \in Paths \cup {NoPath}
    /\ data \in Data
    /\ key \in Keys \cup {NoKey}
    /\ files \in [Paths -> Data]
    /\ keyFiles \in [Paths -> Keys \cup {NoKey}]
    /\ made \subseteq Keys
    /\ txn \in Txn
    /\ page \in [Pages -> Page]
    /\ published \subseteq Base
    /\ latest \in [Paths -> Data]

Init ==
    /\ path = NoPath
    /\ data = Empty
    /\ key = NoKey
    /\ \E k \in Keys :
           /\ files \in [Paths -> Found(k)]
           /\ keyFiles \in [Paths -> {k, NoKey}]
           /\ made = {k}
    /\ txn = Idle
    /\ page = [c \in Pages |-> BlankPage]
    /\ latest = [p \in Paths |-> Loaded(files[p])]
    /\ published = {[path |-> p, data |-> latest[p]] : p \in Paths}

-----------------------------------------------------------------------------
(* Start and stop. *)

\* Bug: a key is drawn although the file holds PATs of the lost one.
MayAlwaysDrawKey(p) == keyFiles[p] = NoKey

\* A key is drawn only if there is no key file and no PAT that another key sealed.
MayDrawKey(p) == keyFiles[p] = NoKey /\ \A a \in Accounts : files[p].pats[a] = NoPat

\* configure: nothing happens if p is already in use, or if its file cannot be
\* read, cannot be decoded or is of a newer format.
Configure(p) ==
    /\ txn.stage = "free"
    /\ path # p
    /\ path' = p
    /\ data' = Loaded(files[p])
    /\ \/ /\ ~MayDrawKey(p)
          /\ key' = keyFiles[p]
          /\ UNCHANGED <<keyFiles, made>>
       \/ /\ MayDrawKey(p)
          /\ \E k \in Keys \ made :
                 /\ keyFiles' = [keyFiles EXCEPT ![p] = k]
                 /\ made' = made \cup {k}
                 /\ key' \in {k, NoKey}     \* NoKey: written, but reported as failed
       \/ /\ MayDrawKey(p)
          /\ key' = NoKey
          /\ UNCHANGED <<keyFiles, made>>
    /\ published' = published \cup {[path |-> p, data |-> data']}
    /\ latest' = [latest EXCEPT ![p] = data']
    /\ UNCHANGED <<files, txn, page>>

\* The process stops; what the pages were waiting for fails.
Crash ==
    /\ path # NoPath
    /\ path' = NoPath
    /\ data' = Empty
    /\ key' = NoKey
    /\ txn' = Idle
    /\ page' = [c \in Pages |-> [page[c] EXCEPT !.st = "idle", !.ask = NoRequest,
                                                     !.from = NoPath]]
    /\ UNCHANGED <<disk, seen>>

\* The key file is lost, as in the tests of a missing key.
LoseKeyFile(p) ==
    /\ keyFiles[p] # NoKey
    /\ keyFiles' = [keyFiles EXCEPT ![p] = NoKey]
    /\ UNCHANGED <<mem, files, made, txn, page, seen>>

-----------------------------------------------------------------------------
(* Commits. *)

Answer(c, st) ==
    page' = [page EXCEPT ![c].st = st, ![c].ask = NoRequest, ![c].from = NoPath]
\* The answer to whoever waits for the commit under way.
AnswerWaiter(st) == IF txn.by = Nobody THEN UNCHANGED page ELSE Answer(txn.by, st)

\* Bug: base_revision is not checked.
NoConflict(c) == FALSE

Conflict(c) == page[c].base.data.rev # data.rev

\* 409, or 400 for a batch that cannot be applied.
Refuse(c) ==
    /\ page[c].st = "saving"
    /\ txn.stage = "free"
    /\ Conflict(c) \/ Rejected(page[c].ask, key)
    /\ Answer(c, "idle")
    /\ UNCHANGED <<mem, disk, txn, seen>>

\* The request changes nothing: nothing is written.
KeepAsIs(c) ==
    /\ page[c].st = "saving"
    /\ txn.stage = "free"
    /\ ~Conflict(c) /\ ~Rejected(page[c].ask, key)
    /\ ~Touched(data, page[c].ask)
    /\ Answer(c, "saved")
    /\ UNCHANGED <<mem, disk, txn, seen>>

\* Bug: the record in memory changes before the file does.
BeginInPlace(c) ==
    /\ page[c].st = "saving"
    /\ txn.stage = "free"
    /\ ~Conflict(c) /\ ~Rejected(page[c].ask, key)
    /\ Touched(data, page[c].ask)
    /\ txn' = [stage |-> "writing", cand |-> Numbered(Applied(data, page[c].ask, key)), by |-> c]
    /\ data' = txn'.cand
    /\ page' = [page EXCEPT ![c].st = "writing"]
    /\ UNCHANGED <<path, key, disk, seen>>

Begin(c) ==
    /\ page[c].st = "saving"
    /\ txn.stage = "free"
    /\ ~Conflict(c) /\ ~Rejected(page[c].ask, key)
    /\ Touched(data, page[c].ask)
    /\ txn' = [stage |-> "writing", cand |-> Numbered(Applied(data, page[c].ask, key)), by |-> c]
    /\ page' = [page EXCEPT ![c].st = "writing"]
    /\ UNCHANGED <<mem, disk, seen>>

BeginChore ==
    /\ path # NoPath
    /\ txn.stage = "free"
    /\ data.rev < MaxRev
    /\ \E d \in ChoreResults(data) :
           /\ d # data
           /\ txn' = [stage |-> "writing", cand |-> Numbered(d), by |-> Nobody]
    /\ UNCHANGED <<mem, disk, page, seen>>

\* writeFileAtomic up to its rename.
Rename ==
    /\ txn.stage = "writing"
    /\ txn.cand.rev <= MaxRev
    /\ files' = [files EXCEPT ![path] = txn.cand]
    /\ txn' = [txn EXCEPT !.stage = "renamed"]
    /\ UNCHANGED <<mem, keyFiles, made, page, seen>>

\* Bug: commitMu is not released when the write fails.
FailLocked ==
    /\ txn.stage \in {"writing", "renamed"}
    /\ txn' = [txn EXCEPT !.stage = "failed", !.by = Nobody]
    /\ AnswerWaiter("idle")
    /\ UNCHANGED <<mem, disk, seen>>

\* It fails, before the rename or after it (the directory could not be synced).
Fail ==
    /\ txn.stage # "free"
    /\ txn' = Idle
    /\ AnswerWaiter("idle")
    /\ UNCHANGED <<mem, disk, seen>>

\* Bug: the record is published before its file is in place.
PublishEarly ==
    /\ txn.stage = "writing"
    /\ data' = txn.cand
    /\ published' = published \cup {[path |-> path, data |-> txn.cand]}
    /\ latest' = [latest EXCEPT ![path] = txn.cand]
    /\ txn' = Idle
    /\ AnswerWaiter("saved")
    /\ UNCHANGED <<path, key, disk>>

Publish ==
    /\ txn.stage = "renamed"
    /\ data' = txn.cand
    /\ published' = published \cup {[path |-> path, data |-> txn.cand]}
    /\ latest' = [latest EXCEPT ![path] = txn.cand]
    /\ txn' = Idle
    /\ AnswerWaiter("saved")
    /\ UNCHANGED <<path, key, disk>>

-----------------------------------------------------------------------------
(* The state and its editing. *)

\* buildMonitorUIState: the providers and the thresholds ...
ReadView(c) ==
    /\ path # NoPath
    /\ page[c].st \in {"idle", "saved"}
    /\ page' = [page EXCEPT ![c].next = ViewOf(data),
                            ![c].st = IF @ = "idle" THEN "reading" ELSE "answering"]
    /\ UNCHANGED <<mem, disk, txn, seen>>

\* ... and then the revision.  loadState keeps the drafts, and so does saveSettings;
\* the answer to saveProviders ends them.
KeepsDrafts(c) == page[c].st = "reading" \/ page[c].edit = "warn"

ReadRevision(c) ==
    /\ page[c].st \in {"reading", "answering"}
    /\ page' = [page EXCEPT ![c].view = page[c].next,
                            ![c].base = [path |-> path, data |-> data],
                            ![c].draft = IF KeepsDrafts(c) THEN @ ELSE NoDraft,
                            ![c].st = "idle"]
    /\ UNCHANGED <<mem, disk, txn, seen>>

\* The user changes the setting of an account on the page (once: a setting
\* that is changed again is one draft more).
Draft(c, a) ==
    /\ "providers" \in Edits
    /\ page[c].st = "idle"
    /\ page[c].base # Nothing
    /\ page[c].draft[a] = "keep"
    /\ \E x \in Settings \ {page[c].view.conf[a]} :
           page' = [page EXCEPT ![c].draft[a] = x]
    /\ UNCHANGED <<mem, disk, txn, seen>>

\* The page sends the whole form, the value it shows where there is no draft.
Form(c) ==
    [a \in Accounts |->
        IF page[c].draft[a] = "keep" THEN page[c].view.conf[a] ELSE page[c].draft[a]]

\* Bug: the thresholds of the configuration are taken, not those in effect.
ThresholdsOfConfig == Fallback

ThresholdsNow == Effective(data)

Ask(c, edit, r) ==
    /\ path # NoPath
    /\ page[c].st = "idle"
    /\ page[c].base # Nothing
    /\ page' = [page EXCEPT ![c].ask = r, ![c].edit = edit, ![c].st = "saving",
                            ![c].from = path]
    /\ UNCHANGED <<mem, disk, txn, seen>>

AskProviders(c) ==
    /\ "providers" \in Edits
    /\ Ask(c, "providers", [NoRequest EXCEPT !.conf = Form(c), !.batch = Accounts])

AskPat(c) ==
    /\ "pat" \in Edits
    /\ \E pat \in [Accounts -> PatActions] \ {NoRequest.pat} :
           Ask(c, "pat", [NoRequest EXCEPT !.conf = Form(c), !.pat = pat, !.batch = Accounts])

\* handleProviderConfigRoute and handleConfigRoute take the thresholds that are in
\* effect, change their part and save the whole.
AskCash(c) ==
    /\ "cash" \in Edits
    /\ \E l \in Levels :
           Ask(c, "cash", [NoRequest EXCEPT !.conf = Form(c), !.batch = Accounts,
                                            !.thr = [ThresholdsNow EXCEPT !.cash = l]])

AskWarn(c) ==
    /\ "warn" \in Edits
    /\ \E l \in Levels :
           Ask(c, "warn", [NoRequest EXCEPT !.thr = [ThresholdsNow EXCEPT !.warn = l]])

-----------------------------------------------------------------------------
Commit(c) == Refuse(c) \/ KeepAsIs(c) \/ Begin(c)
Write == Rename \/ Fail \/ Publish
Read(c) == ReadView(c) \/ ReadRevision(c)
Save(c) == AskProviders(c) \/ AskPat(c) \/ AskCash(c) \/ AskWarn(c)

Next ==
    \/ \E p \in Paths : Configure(p) \/ LoseKeyFile(p)
    \/ Crash
    \/ BeginChore
    \/ Write
    \/ \E c \in Pages : Commit(c) \/ Read(c) \/ Save(c) \/ \E a \in Accounts : Draft(c, a)

Spec == Init /\ [][Next]_vars

\* Whoever holds commitMu goes on; a handler that waits for it gets it in the end,
\* because a Go mutex hands itself over to the longest waiter.
FairSpec == Spec /\ WF_vars(Write) /\ \A c \in Pages : SF_vars(Commit(c))

-----------------------------------------------------------------------------
(* How the store appears as the register of RevisionedRegister. *)

Visible(p) == IF p = path THEN data ELSE latest[p]

\* What is in the file and was never seen.
LeftBehind(p) ==
    LET f == Loaded(files[p])
    IN  IF f = Visible(p) THEN Nothing ELSE f

-----------------------------------------------------------------------------
(* Properties. *)

\* Two records that readers could see under one revision of one file are the same
\* record, whatever saves failed half-way and however often the process was started
\* again: otherwise the check of base_revision would let an edit of one pass as an
\* edit of the other (commitAtRevision, writeFileAtomic).
RevisionIdentifiesData ==
    \A x, y \in published : x.path = y.path /\ x.data.rev = y.data.rev => x = y

\* Likewise a query revision stands for one configuration of the account: that is
\* what lets a worker decide by it whether its result is still wanted.
QueryRevisionIdentifiesConfig ==
    \A x, y \in published : \A a \in x.data.known \cap y.data.known :
        x.path = y.path /\ x.data.qrev[a] = y.data.qrev[a]
            => x.data.conf[a] = y.data.conf[a] /\ x.data.pats[a] = y.data.pats[a]

\* What a reader could see at any time, every successful save among it, is not lost
\* with the process: the file holds it or something later.
PublishedDurable ==
    \A x \in published :
        LET f == Loaded(files[x.path])
        IN  f.rev >= x.data.rev /\ (f.rev = x.data.rev => f = x.data)

\* If there is a key, it opens every PAT of the record, and the key file on disk opens
\* every PAT of the file beside it: no lost key, restart or change of the path ever
\* leaves PATs under two keys (configure, loadOrCreateKey).
PatsOpen ==
    /\ key # NoKey => Stored(data, key)
    /\ \A p \in Paths : keyFiles[p] # NoKey => Stored(files[p], keyFiles[p])

\* The commit under way for a page that read its revision from the file in use.
OnSameFile == txn.by \in Pages /\ page[txn.by].base.path = path

\* A save is applied to the very record its page took the revision of.
SaveOnBase == OnSameFile => page[txn.by].base.data = data

\* The handlers write back thresholds they read before the commit began; still a save
\* of one threshold never undoes a change of the other.  What is not claimed: that the
\* revision catches thresholds of another file, read between two changes of the path.
SaveKeepsOtherThreshold ==
    OnSameFile /\ page[txn.by].from = path =>
        /\ page[txn.by].edit # "warn" => Effective(txn.cand).warn = Effective(data).warn
        /\ page[txn.by].edit # "cash" => Effective(txn.cand).cash = Effective(data).cash

\* To the outside the store is a register that moves from a value to its successor.
Promise == INSTANCE RevisionedRegister WITH
    open <- path,
    value <- [p \in Paths |-> Visible(p)],
    pending <- [p \in Paths |-> LeftBehind(p)],
    Values <- Data
Register == Promise!Spec

\* Every save is answered, however many other commits compete for commitMu.
SaveAnswered ==
    \A c \in Pages : page[c].st \in {"saving", "writing"} ~> page[c].st \in {"idle", "saved"}

\* README.md:33 "concurrent editing in two pages gets a 409 and never overwrites
\* silently": what a save overwrites is what its page shows.
NoSilentOverwrite == OnSameFile => page[txn.by].view = ViewOf(data)

-----------------------------------------------------------------------------
(* Inductive invariants, for the proofs. *)

\* y may have become of x by commits: the query revisions tell the configurations apart.
Precedes(x, y) ==
    /\ x.known \subseteq y.known
    /\ \A a \in Accounts : x.qrev[a] <= y.qrev[a]
    /\ \A a \in x.known : x.qrev[a] = y.qrev[a] => x.conf[a] = y.conf[a] /\ x.pats[a] = y.pats[a]

\* Who holds commitMu and who waits for the holder.
Control ==
    /\ path = NoPath => txn = Idle
    /\ txn.stage = "free" => txn = Idle
    /\ \A c \in Pages :
           /\ page[c].st = "writing" <=> txn.by = c
           /\ page[c].st # "idle" => path # NoPath
           /\ page[c].st \in {"saving", "writing"} => page[c].base # Nothing
           /\ page[c].base # Nothing => page[c].base \in published

\* The records of each file form a chain; the file is at its end or one step further.
Chain ==
    /\ \A p \in Paths :
           /\ [path |-> p, data |-> latest[p]] \in published
           /\ ~latest[p].legacy
           /\ p = path => latest[p] = data
           /\ \/ Loaded(files[p]) = latest[p]
              \/ /\ ~files[p].legacy
                 /\ files[p].rev = latest[p].rev + 1
                 /\ Precedes(latest[p], files[p])
    /\ \A x \in published :
           /\ x.data.rev <= latest[x.path].rev
           /\ x.data.rev = latest[x.path].rev => x.data = latest[x.path]
           /\ Precedes(x.data, latest[x.path])

\* The commit under way makes the successor of the record in memory.
Successor ==
    txn.stage # "free" =>
        /\ ~txn.cand.legacy
        /\ txn.cand.rev = data.rev + 1
        /\ Precedes(data, txn.cand)
        /\ txn.stage = "renamed" => files[path] = txn.cand
        /\ txn.by \in Pages => page[txn.by].base.data.rev = data.rev

\* The thresholds a handler is to write back are, but for its part, those of a record
\* that was in use when it read them, and not before its page took the revision.
Kept(c, x) ==
    LET thr == page[c].ask.thr
    IN  /\ x.path = page[c].from
        /\ page[c].base.path = x.path => page[c].base.data.rev <= x.data.rev
        /\ thr # NoThr =>
               /\ page[c].edit # "warn" => thr.warn = Effective(x.data).warn
               /\ page[c].edit # "cash" => thr.cash = Effective(x.data).cash

ThresholdInv ==
    /\ \A c \in Pages : page[c].st \in {"saving", "writing"} => \E x \in published : Kept(c, x)
    /\ SaveKeepsOtherThreshold

\* The key file, the key in memory, the record, its file and its successor agree.
Sealing ==
    path # NoPath =>
        \A k \in {key, keyFiles[path]} \ {NoKey} :
            /\ key \in {k, NoKey}
            /\ Stored(data, k)
            /\ txn.stage # "free" => Stored(txn.cand, k)

StoreInv ==
    /\ TypeOK
    /\ Control
    /\ Chain
    /\ Successor
    /\ RevisionIdentifiesData
    /\ QueryRevisionIdentifiesConfig

KeyInv == StoreInv /\ PatsOpen /\ Sealing
=============================================================================
