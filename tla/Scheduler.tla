----------------------------- MODULE Scheduler -----------------------------
(***************************************************************************)
(* The background scheduler (background.go): its loop, its wake-ups, and   *)
(* the callers that start and stop it: configure, shutdown and the state   *)
(* route. With it, the refresh jobs and the status of refreshing that the  *)
(* page shows, which the scheduler's runs and the jobs share.              *)
(***************************************************************************)
EXTENDS Naturals, FiniteSets

CONSTANTS
    Hosts,       \* calls of CPA into register, reconfigure and shutdown
    Pages,       \* calls of the state route
    Jobs,        \* refresh jobs
    MaxLoops,    \* bound: loops ever started
    Nobody

Loops == 1..MaxLoops
NoLoop == 0
Callers == Hosts \cup Pages
Runs == Loops \cup Jobs

ASSUME SetsAssumption ==
    Hosts \cap Pages = {} /\ Jobs \cap Nat = {} /\ Nobody \notin Hosts
ASSUME BoundsAssumption == MaxLoops \in Nat

VARIABLES
    cfg,         \* state.cfg: none before the first configure; cfg.Enabled
    configureMu, \* who is in configure
    caller,      \* what each caller does
    current,     \* running, cancel and done, which change together under mu
    cancelled,   \* the contexts that are cancelled
    loop,        \* where each loop is
    wake,        \* a token is in the channel
    asked,       \* history: a wake-up the loop has not looked at work since
    job,         \* status of each job
    active,      \* history: the runs under way
    refreshing   \* refreshStatus.running

vars == <<cfg, configureMu, caller, current, cancelled, loop, wake, asked, job,
          active, refreshing>>
loopVars == <<current, cancelled, loop, wake, asked>>
runVars == <<job, active, refreshing>>

\* then: where the caller goes on; loop: the one it waits for.
Caller == [pc : {"idle", "stop", "wait", "read", "start", "notify"},
           then : {"idle", "read", "notify"}, loop : Loops \cup {NoLoop}]
Resting == [pc |-> "idle", then |-> "idle", loop |-> NoLoop]
LoopStages == {"none", "compute", "arm", "select", "refresh", "leave", "close", "closed"}
Alive == {"compute", "arm", "select", "refresh", "leave"}

Init ==
    /\ cfg = "none"
    /\ configureMu = Nobody
    /\ caller = [c \in Callers |-> Resting]
    /\ current = NoLoop
    /\ cancelled = {}
    /\ loop = [g \in Loops |-> "none"]
    /\ wake = FALSE
    /\ asked = FALSE
    /\ job = [j \in Jobs |-> "none"]
    /\ active = {}
    /\ refreshing = FALSE

-----------------------------------------------------------------------------
(* Callers *)

\* configure sets the configuration, stops the scheduler and starts it anew.
Configure(c, new) ==
    /\ caller[c].pc = "idle" /\ configureMu = Nobody
    /\ configureMu' = c
    /\ cfg' = new
    /\ caller' = [caller EXCEPT ![c].pc = "stop", ![c].then = "read"]
    /\ UNCHANGED <<loopVars, runVars>>

\* cliproxyPluginShutdown stops the scheduler and does nothing else.
Shutdown(c) ==
    /\ caller[c].pc = "idle"
    /\ caller' = [caller EXCEPT ![c].pc = "stop", ![c].then = "idle"]
    /\ UNCHANGED <<cfg, configureMu, loopVars, runVars>>

\* maybeStartBackgroundRefresh, at a read of the state: start, then wake.
GetState(c) ==
    /\ cfg # "none" /\ caller[c].pc = "idle"
    /\ caller' = [caller EXCEPT ![c].pc = "read", ![c].then = "notify"]
    /\ UNCHANGED <<cfg, configureMu, loopVars, runVars>>

\* Where caller c is once it has done a step that ends at pc; leaving configure
\* releases its mutex.
Goto(c, pc) ==
    /\ caller' = [caller EXCEPT ![c] = IF pc = "idle" THEN Resting
                                       ELSE [@ EXCEPT !.pc = pc]]
    /\ configureMu' = IF pc = "idle" /\ configureMu = c THEN Nobody ELSE configureMu

\* stop: with no loop there is nothing to wait for.
StopNothing(c) ==
    /\ caller[c].pc = "stop" /\ current = NoLoop
    /\ Goto(c, caller[c].then)
    /\ UNCHANGED <<cfg, loopVars, runVars>>

\* stop: the context of the loop is cancelled.
StopLoop(c) ==
    /\ caller[c].pc = "stop" /\ current # NoLoop
    /\ cancelled' = cancelled \cup {current}
    /\ caller' = [caller EXCEPT ![c].pc = "wait", ![c].loop = current]
    /\ UNCHANGED <<cfg, configureMu, current, loop, wake, asked, runVars>>

\* Bug: stop cancels the loop and does not wait for its end.
StopUnawaited(c) ==
    /\ caller[c].pc = "wait"
    /\ Goto(c, caller[c].then)
    /\ UNCHANGED <<cfg, loopVars, runVars>>

\* stop: done is closed.
Stopped(c) ==
    /\ caller[c].pc = "wait" /\ loop[caller[c].loop] = "closed"
    /\ Goto(c, caller[c].then)
    /\ UNCHANGED <<cfg, loopVars, runVars>>

\* startBackgroundScheduler reads the configuration. The start it decides on, or
\* the stop when the plug-in is disabled, is a later step.
ReadConfig(c) ==
    /\ caller[c].pc = "read"
    /\ LET then == IF c \in Pages THEN "notify" ELSE "idle"
       IN caller' = [caller EXCEPT ![c].pc = IF cfg = "enabled" THEN "start" ELSE "stop",
                                   ![c].then = then, ![c].loop = NoLoop]
    /\ UNCHANGED <<cfg, configureMu, loopVars, runVars>>

\* Bug: start does not ask whether a loop is running.
StartAnother(c) ==
    /\ caller[c].pc = "start"
    /\ \E g \in Loops :
         /\ loop[g] = "none"
         /\ current' = g
         /\ loop' = [loop EXCEPT ![g] = "compute"]
    /\ Goto(c, caller[c].then)
    /\ UNCHANGED <<cfg, cancelled, wake, asked, runVars>>

\* start: a new loop with a context of its own.
StartLoop(c) ==
    /\ caller[c].pc = "start" /\ current = NoLoop
    /\ \E g \in Loops :
         /\ loop[g] = "none" /\ \A h \in 1..(g - 1) : loop[h] # "none"
         /\ current' = g
         /\ loop' = [loop EXCEPT ![g] = "compute"]
    /\ Goto(c, caller[c].then)
    /\ UNCHANGED <<cfg, cancelled, wake, asked, runVars>>

\* start: the loop that runs is only notified; it keeps its interval.
StartRunning(c) ==
    /\ caller[c].pc = "start" /\ current # NoLoop
    /\ Goto(c, "notify")
    /\ UNCHANGED <<cfg, loopVars, runVars>>

\* Bug: the channel has no room, so the token is lost unless the loop waits for it.
NotifyIfWaiting(c) ==
    /\ caller[c].pc = "notify"
    /\ wake' = (current # NoLoop /\ loop[current] = "select")
    /\ asked' = (current # NoLoop /\ loop[current] \in Alive)
    /\ Goto(c, "idle")
    /\ UNCHANGED <<cfg, current, cancelled, loop, runVars>>

\* notify: the channel holds one token. (The notice of start and the one of
\* maybeStartBackgroundRefresh after it fill the same place.)
Notify(c) ==
    /\ caller[c].pc = "notify"
    /\ wake' = TRUE
    /\ asked' = (current # NoLoop /\ loop[current] \in Alive)
    /\ Goto(c, "idle")
    /\ UNCHANGED <<cfg, current, cancelled, loop, runVars>>

-----------------------------------------------------------------------------
(* The loop *)

\* The loop looks for work and computes its delay: none for work that is due (an
\* account without a good result or with an old one, a directory that cannot be
\* read), else the interval, doubled for each failure, with jitter. How long it is
\* is left out: the timer may end at any time, or never.
Compute(g) ==
    /\ loop[g] = "compute"
    /\ loop' = [loop EXCEPT ![g] = "arm"]
    /\ asked' = FALSE
    /\ UNCHANGED <<cfg, configureMu, caller, current, cancelled, wake, runVars>>

\* It sets its timer and waits.
Arm(g) ==
    /\ loop[g] = "arm"
    /\ loop' = [loop EXCEPT ![g] = "select"]
    /\ UNCHANGED <<cfg, configureMu, caller, current, cancelled, wake, asked, runVars>>

\* Bug: the loop looks at its context only after a refresh.
SelectDoneNever(g) ==
    /\ FALSE /\ loop[g] = "select" /\ g \in cancelled
    /\ loop' = [loop EXCEPT ![g] = "leave"]
    /\ UNCHANGED <<cfg, configureMu, caller, current, cancelled, wake, asked, runVars>>

SelectDone(g) ==
    /\ loop[g] = "select" /\ g \in cancelled
    /\ loop' = [loop EXCEPT ![g] = "leave"]
    /\ UNCHANGED <<cfg, configureMu, caller, current, cancelled, wake, asked, runVars>>

SelectWake(g) ==
    /\ loop[g] = "select" /\ wake
    /\ wake' = FALSE
    /\ loop' = [loop EXCEPT ![g] = "compute"]
    /\ UNCHANGED <<cfg, configureMu, caller, current, cancelled, asked, runVars>>

\* The timer ends and the loop refreshes what is due.
SelectTimer(g) ==
    /\ loop[g] = "select"
    /\ loop' = [loop EXCEPT ![g] = "refresh"]
    /\ active' = active \cup {g}
    /\ refreshing' = TRUE
    /\ UNCHANGED <<cfg, configureMu, caller, current, cancelled, wake, asked, job>>

\* The refresh returns, at once if its context was cancelled.
EndRefresh(g) ==
    /\ loop[g] = "refresh"
    /\ active' = active \ {g}
    /\ refreshing' = FALSE
    /\ loop' = [loop EXCEPT ![g] = IF g \in cancelled THEN "leave" ELSE "compute"]
    /\ UNCHANGED <<cfg, configureMu, caller, current, cancelled, wake, asked, job>>

\* The deferred functions of the goroutine: running, cancel and done are reset...
Leave(g) ==
    /\ loop[g] = "leave"
    /\ loop' = [loop EXCEPT ![g] = "close"]
    /\ current' = NoLoop
    /\ UNCHANGED <<cfg, configureMu, caller, cancelled, wake, asked, runVars>>

\* ...and done is closed.
Close(g) ==
    /\ loop[g] = "close"
    /\ loop' = [loop EXCEPT ![g] = "closed"]
    /\ UNCHANGED <<cfg, configureMu, caller, current, cancelled, wake, asked, runVars>>

-----------------------------------------------------------------------------
(* Jobs *)

\* startRefreshJob: the job is queued, its goroutine marks it as running.
CreateJob(j) ==
    /\ cfg # "none" /\ job[j] = "none"
    /\ job' = [job EXCEPT ![j] = "queued"]
    /\ UNCHANGED <<cfg, configureMu, caller, loopVars, active, refreshing>>

RunJob(j) ==
    /\ job[j] = "queued"
    /\ job' = [job EXCEPT ![j] = "running"]
    /\ UNCHANGED <<cfg, configureMu, caller, loopVars, active, refreshing>>

\* refreshAccountsDetailedContext begins.
BeginJobRun(j) ==
    /\ job[j] = "running" /\ j \notin active
    /\ active' = active \cup {j}
    /\ refreshing' = TRUE
    /\ UNCHANGED <<cfg, configureMu, caller, loopVars, job>>

\* Bug: a run that fails does not reset the status.
EndJobRunUnlessFailed(j) ==
    /\ j \in active
    /\ active' = active \ {j}
    /\ job' = [job EXCEPT ![j] = "returned"]
    /\ \E failed \in BOOLEAN : refreshing' = (refreshing /\ failed)
    /\ UNCHANGED <<cfg, configureMu, caller, loopVars>>

\* The run ends and its deferred function resets the status.
EndJobRun(j) ==
    /\ j \in active
    /\ active' = active \ {j}
    /\ refreshing' = FALSE
    /\ job' = [job EXCEPT ![j] = "returned"]
    /\ UNCHANGED <<cfg, configureMu, caller, loopVars>>

\* The outcome of the run is put into the job.
FinishJob(j) ==
    /\ job[j] = "returned"
    /\ \E status \in {"completed", "failed"} : job' = [job EXCEPT ![j] = status]
    /\ UNCHANGED <<cfg, configureMu, caller, loopVars, active, refreshing>>

-----------------------------------------------------------------------------
CallerStep(c) ==
    \/ StopNothing(c) \/ StopLoop(c) \/ Stopped(c)
    \/ ReadConfig(c) \/ StartLoop(c) \/ StartRunning(c) \/ Notify(c)
\* The steps of a loop that nothing holds up; a timer that was set may take long.
LoopStep(g) ==
    \/ Compute(g) \/ Arm(g) \/ EndRefresh(g) \/ Leave(g) \/ Close(g)
    \/ SelectWake(g) \/ SelectDone(g)
JobStep(j) == RunJob(j) \/ BeginJobRun(j) \/ EndJobRun(j) \/ FinishJob(j)

Next ==
    \/ \E c \in Hosts : Shutdown(c) \/ \E new \in {"enabled", "disabled"} : Configure(c, new)
    \/ \E c \in Pages : GetState(c)
    \/ \E c \in Callers : CallerStep(c)
    \/ \E g \in Loops : LoopStep(g) \/ SelectTimer(g)
    \/ \E j \in Jobs : CreateJob(j) \/ JobStep(j)

Spec == Init /\ [][Next]_vars

\* Goroutines run, and every refresh ends: its queries have a time budget and its
\* context. A select that can take the end of the context again and again takes it
\* at some time, since Go chooses at random among the cases that are ready.
Fairness ==
    /\ \A c \in Callers : WF_vars(CallerStep(c))
    /\ \A g \in Loops : WF_vars(LoopStep(g)) /\ SF_vars(SelectDone(g))
    /\ \A j \in Jobs : WF_vars(JobStep(j))

FairSpec == Spec /\ Fairness

-----------------------------------------------------------------------------
(* Properties *)

\* Besides the types: running, cancel and done are set exactly while the goroutine
\* that set them has not reset them.
TypeOK ==
    /\ cfg \in {"none", "enabled", "disabled"}
    /\ configureMu \in Hosts \cup {Nobody}
    /\ caller \in [Callers -> Caller]
    /\ current \in Loops \cup {NoLoop}
    /\ current # NoLoop => loop[current] \in Alive
    /\ cancelled \subseteq Loops
    /\ loop \in [Loops -> LoopStages]
    /\ wake \in BOOLEAN /\ asked \in BOOLEAN
    /\ job \in [Jobs -> {"none", "queued", "running", "returned", "completed", "failed"}]
    /\ active \subseteq Runs /\ refreshing \in BOOLEAN

\* However starts, stops, reconfigurations and reads of the state interleave, there
\* is one loop at most: accounts are not queried by two schedulers.
OneLoop == \A g, h \in Loops : loop[g] \in Alive /\ loop[h] \in Alive => g = h

\* README: stopping the plug-in cancels the scheduler and its requests and waits
\* for the end. A loop somebody has stopped does nothing more once the stop has
\* returned: no query is under way and none begins.
StopAwaits ==
    [][\A c \in Callers :
         caller[c].pc = "wait" /\ caller'[c].pc # "wait" =>
           loop'[caller[c].loop] \notin Alive /\ caller[c].loop \notin active']_vars

\* A call of stop returns, also while the state route starts and wakes the loop.
StopReturns ==
    \A c \in Callers :
       caller[c].pc \in {"stop", "wait"} ~> caller[c].pc \notin {"stop", "wait"}

\* A wake-up is never lost: the loop looks for work after it, without waiting for
\* the timer it set before, or has come to its end.
WakeServed == asked ~> (~asked \/ current = NoLoop)

\* The page is told that a refresh is running only while one is.
RefreshingIsTrue == refreshing => active # {}
=============================================================================
