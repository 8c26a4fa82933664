-------------------------- MODULE SchedulerProofs --------------------------
(***************************************************************************)
(* Proofs about Scheduler for any callers, jobs and bound on loops: there  *)
(* is one loop at most, a stop that returns has awaited the loop it found, *)
(* and the page is told of a refresh only while one is under way.          *)
(***************************************************************************)
EXTENDS Scheduler, TLAPS

\* The inductive invariant: a loop that is alive is the one that running, cancel and
\* done belong to, and a loop is in the middle of a refresh exactly at that stage.
LoopInv ==
    /\ TypeOK
    /\ \A g \in Loops : loop[g] \in Alive => g = current
    /\ \A g \in Loops : g \in active <=> loop[g] = "refresh"
    /\ \A c \in Callers : caller[c].pc = "wait" => caller[c].loop \in Loops
    /\ RefreshingIsTrue

-----------------------------------------------------------------------------
(* Constants and values at rest *)

LEMMA Numbers == Loops \subseteq Nat \ {NoLoop} /\ Jobs \cap Loops = {} /\ NoLoop \notin Loops
BY SetsAssumption, BoundsAssumption DEF Loops, NoLoop

LEMMA RestingType == Resting \in Caller /\ Resting.pc = "idle"
BY DEF Resting, Caller

LEMMA InitLoop == Init => LoopInv
<1> SUFFICES ASSUME Init PROVE LoopInv
  OBVIOUS
<1>1. TypeOK
  BY RestingType DEF Init, TypeOK, LoopStages
<1> QED
  BY <1>1, RestingType DEF Init, LoopInv, RefreshingIsTrue, Alive

-----------------------------------------------------------------------------
(* Steps of callers *)

\* A caller's own step that leaves the loops alone.
LEMMA CallerFrame ==
    ASSUME LoopInv, UNCHANGED <<current, cancelled, loop, runVars>>,
           cfg' \in {"none", "enabled", "disabled"}, configureMu' \in Hosts \cup {Nobody},
           wake' \in BOOLEAN, asked' \in BOOLEAN,
           caller' \in [Callers -> Caller],
           \A c \in Callers : caller'[c].pc = "wait" => caller'[c].loop \in Loops
    PROVE  LoopInv'
<1>1. TypeOK'
  BY DEF LoopInv, TypeOK, runVars
<1> QED
  BY <1>1 DEF LoopInv, RefreshingIsTrue, runVars

LEMMA GotoType ==
    ASSUME LoopInv, NEW c \in Callers, NEW pc \in {"idle", "read", "notify"}, Goto(c, pc)
    PROVE  /\ caller' \in [Callers -> Caller]
           /\ configureMu' \in Hosts \cup {Nobody}
           /\ \A d \in Callers : caller'[d].pc = "wait" => caller'[d].loop \in Loops
           /\ \A d \in Callers : d # c => caller'[d] = caller[d]
<1> DEFINE value == IF pc = "idle" THEN Resting ELSE [caller[c] EXCEPT !.pc = pc]
<1>1. value \in Caller /\ value.pc # "wait"
  BY RestingType DEF LoopInv, TypeOK, Caller
<1>2. caller' = [caller EXCEPT ![c] = value]
  BY DEF Goto
<1> HIDE DEF value
<1>3. configureMu' \in Hosts \cup {Nobody}
  BY DEF Goto, LoopInv, TypeOK
<1> QED
  BY <1>1, <1>2, <1>3 DEF LoopInv, TypeOK

\* A caller that goes on elsewhere, and perhaps leaves a token.
LEMMA GotoStep ==
    ASSUME LoopInv, NEW c \in Callers, NEW pc \in {"idle", "read", "notify"}, Goto(c, pc),
           UNCHANGED <<cfg, current, cancelled, loop, runVars>>,
           wake' \in BOOLEAN, asked' \in BOOLEAN
    PROVE  LoopInv'
BY GotoType, CallerFrame DEF LoopInv, TypeOK

\* A caller takes on the value of a step that nothing else notices.
LEMMA SetCaller ==
    ASSUME LoopInv, NEW c \in Callers, NEW value \in Caller,
           value.pc = "wait" => value.loop \in Loops,
           caller' = [caller EXCEPT ![c] = value]
    PROVE  /\ caller' \in [Callers -> Caller]
           /\ \A d \in Callers : caller'[d].pc = "wait" => caller'[d].loop \in Loops
BY DEF LoopInv, TypeOK

LEMMA OutsideStep ==
    ASSUME LoopInv, NEW c \in Callers,
           \/ c \in Hosts /\ \E new \in {"enabled", "disabled"} : Configure(c, new)
           \/ Shutdown(c) \/ GetState(c) \/ ReadConfig(c)
    PROVE  LoopInv'
<1>1. caller[c] \in Caller /\ NoLoop \in Loops \cup {NoLoop}
  BY DEF LoopInv, TypeOK
<1>2. \E value \in Caller : value.pc # "wait" /\ caller' = [caller EXCEPT ![c] = value]
  <2>1. CASE \E new \in {"enabled", "disabled"} : Configure(c, new)
    <3> DEFINE value == [caller[c] EXCEPT !.pc = "stop", !.then = "read"]
    <3>1. value \in Caller /\ value.pc # "wait"
      BY <1>1 DEF Caller
    <3>2. caller' = [caller EXCEPT ![c] = value]
      BY <2>1, <1>1 DEF Configure, LoopInv, TypeOK
    <3> QED
      BY <3>1, <3>2
  <2>2. CASE Shutdown(c)
    <3> DEFINE value == [caller[c] EXCEPT !.pc = "stop", !.then = "idle"]
    <3>1. value \in Caller /\ value.pc # "wait"
      BY <1>1 DEF Caller
    <3>2. caller' = [caller EXCEPT ![c] = value]
      BY <2>2, <1>1 DEF Shutdown, LoopInv, TypeOK
    <3> QED
      BY <3>1, <3>2
  <2>3. CASE GetState(c)
    <3> DEFINE value == [caller[c] EXCEPT !.pc = "read", !.then = "notify"]
    <3>1. value \in Caller /\ value.pc # "wait"
      BY <1>1 DEF Caller
    <3>2. caller' = [caller EXCEPT ![c] = value]
      BY <2>3, <1>1 DEF GetState, LoopInv, TypeOK
    <3> QED
      BY <3>1, <3>2
  <2>4. CASE ReadConfig(c)
    <3> DEFINE value == [caller[c] EXCEPT
                          !.pc = IF cfg = "enabled" THEN "start" ELSE "stop",
                          !.then = IF c \in Pages THEN "notify" ELSE "idle", !.loop = NoLoop]
    <3>1. value \in Caller /\ value.pc # "wait"
      BY <1>1 DEF Caller
    <3>2. caller' = [caller EXCEPT ![c] = value]
      BY <2>4, <1>1 DEF ReadConfig, LoopInv, TypeOK
    <3> QED
      BY <3>1, <3>2
  <2> QED
    BY <2>1, <2>2, <2>3, <2>4
<1>4. /\ caller' \in [Callers -> Caller]
      /\ \A d \in Callers : caller'[d].pc = "wait" => caller'[d].loop \in Loops
  BY <1>2, SetCaller
<1>5. /\ UNCHANGED <<current, cancelled, loop, runVars>> /\ UNCHANGED <<wake, asked>>
      /\ cfg' \in {"none", "enabled", "disabled"}
      /\ configureMu' \in Hosts \cup {Nobody}
  BY DEF Configure, Shutdown, GetState, ReadConfig, loopVars, LoopInv, TypeOK
<1> QED
  BY <1>4, <1>5, CallerFrame DEF LoopInv, TypeOK

LEMMA CallerSteps ==
    ASSUME LoopInv, NEW c \in Callers, CallerStep(c)
    PROVE  LoopInv'
<1>1. caller[c] \in Caller
  BY DEF LoopInv, TypeOK
<1>2. CASE StopNothing(c) \/ Stopped(c)
  <2>1. Goto(c, caller[c].then) /\ UNCHANGED <<cfg, loopVars, runVars>>
    BY <1>2 DEF StopNothing, Stopped
  <2>2. caller[c].then \in {"idle", "read", "notify"}
    BY <1>1 DEF Caller
  <2> QED
    BY <2>1, <2>2, GotoStep DEF loopVars, LoopInv, TypeOK
<1>3. CASE StopLoop(c)
  <2> DEFINE value == [caller[c] EXCEPT !.pc = "wait", !.loop = current]
  <2>1. current \in Loops
    BY <1>3 DEF StopLoop, LoopInv, TypeOK
  <2>2. value \in Caller /\ value.loop \in Loops
    BY <1>1, <2>1 DEF Caller
  <2>3. caller' = [caller EXCEPT ![c] = value]
    BY <1>1, <1>3 DEF StopLoop, LoopInv, TypeOK
  <2>4. /\ caller' \in [Callers -> Caller]
        /\ \A d \in Callers : caller'[d].pc = "wait" => caller'[d].loop \in Loops
    BY <2>2, <2>3, SetCaller
  <2>5. /\ cancelled' \subseteq Loops
        /\ UNCHANGED <<cfg, configureMu, current, loop, wake, asked, runVars>>
    BY <1>3, <2>1 DEF StopLoop, LoopInv, TypeOK
  <2>6. TypeOK'
    BY <2>4, <2>5 DEF LoopInv, TypeOK, runVars
  <2> QED
    BY <2>4, <2>5, <2>6 DEF LoopInv, RefreshingIsTrue, runVars
<1>4. CASE ReadConfig(c)
  BY <1>4, OutsideStep
<1>5. CASE StartLoop(c)
  <2>1. PICK g \in Loops : loop[g] = "none" /\ current' = g /\ loop' = [loop EXCEPT ![g] = "compute"]
    BY <1>5 DEF StartLoop
  <2>2. current = NoLoop /\ Goto(c, caller[c].then)
        /\ UNCHANGED <<cfg, cancelled, wake, asked, runVars>>
    BY <1>5 DEF StartLoop
  <2>3. caller[c].then \in {"idle", "read", "notify"}
    BY <1>1 DEF Caller
  <2>4. /\ caller' \in [Callers -> Caller]
        /\ configureMu' \in Hosts \cup {Nobody}
        /\ \A d \in Callers : caller'[d].pc = "wait" => caller'[d].loop \in Loops
    BY <2>2, <2>3, GotoType
  <2>5. TypeOK'
    BY <2>1, <2>2, <2>4 DEF LoopInv, TypeOK, Alive, LoopStages, runVars
  <2>6. \A h \in Loops : loop'[h] \in Alive => h = current'
    BY <2>1, <2>2, Numbers DEF LoopInv, TypeOK
  <2>7. \A h \in Loops : h \in active' <=> loop'[h] = "refresh"
    BY <2>1, <2>2 DEF LoopInv, TypeOK, runVars
  <2> QED
    BY <2>2, <2>4, <2>5, <2>6, <2>7 DEF LoopInv, RefreshingIsTrue, runVars
<1>6. CASE StartRunning(c)
  BY <1>6, GotoStep DEF StartRunning, loopVars, LoopInv, TypeOK
<1>7. CASE Notify(c)
  BY <1>7, GotoStep DEF Notify
<1> QED
  BY <1>2, <1>3, <1>4, <1>5, <1>6, <1>7 DEF CallerStep

-----------------------------------------------------------------------------
(* Steps of loops and jobs *)

LEMMA LoopSteps ==
    ASSUME LoopInv, NEW g \in Loops, LoopStep(g) \/ SelectTimer(g)
    PROVE  LoopInv'
<1>1. PICK stage \in LoopStages : loop' = [loop EXCEPT ![g] = stage]
  BY DEF LoopStep, SelectTimer, Compute, Arm, EndRefresh, Leave, Close, SelectWake, SelectDone,
         LoopStages
<1>2. UNCHANGED <<cfg, configureMu, caller, cancelled, job>>
  BY DEF LoopStep, SelectTimer, Compute, Arm, EndRefresh, Leave, Close, SelectWake, SelectDone,
         runVars
<1>3. /\ wake' \in BOOLEAN /\ asked' \in BOOLEAN /\ refreshing' \in BOOLEAN
      /\ active' \subseteq Runs
  BY DEF LoopStep, SelectTimer, Compute, Arm, EndRefresh, Leave, Close, SelectWake, SelectDone,
         runVars, LoopInv, TypeOK, Runs
<1>4. CASE Leave(g)
  <2>1. stage = "close" /\ current' = NoLoop /\ UNCHANGED runVars /\ g = current
    BY <1>1, <1>4 DEF Leave, LoopInv, TypeOK, Alive
  <2>2. \A h \in Loops : loop'[h] \notin Alive
    BY <1>1, <2>1 DEF LoopInv, TypeOK, Alive
  <2>3. \A h \in Loops : h \in active' <=> loop'[h] = "refresh"
    BY <1>1, <1>4, <2>1 DEF Leave, LoopInv, TypeOK, runVars
  <2>4. TypeOK'
    BY <1>1, <1>2, <1>3, <2>1 DEF LoopInv, TypeOK
  <2> QED
    BY <1>2, <2>1, <2>2, <2>3, <2>4 DEF LoopInv, RefreshingIsTrue, runVars
<1>5. CASE ~ Leave(g)
  <2>1. current' = current
    BY <1>5 DEF LoopStep, SelectTimer, Compute, Arm, EndRefresh, Close, SelectWake, SelectDone
  <2>2. (loop[g] \in Alive /\ stage \in Alive) \/ (loop[g] \notin Alive /\ stage \notin Alive)
    BY <1>1, <1>5 DEF LoopStep, SelectTimer, Compute, Arm, EndRefresh, Close, SelectWake,
       SelectDone, LoopInv, TypeOK, Alive
  <2>3. \A h \in Loops : loop'[h] \in Alive <=> loop[h] \in Alive
    BY <1>1, <2>2 DEF LoopInv, TypeOK
  <2>4. TypeOK'
    BY <1>1, <1>2, <1>3, <2>1, <2>3 DEF LoopInv, TypeOK
  <2>5. \A h \in Loops : h \in active' <=> loop'[h] = "refresh"
    <3>1. CASE SelectTimer(g)
      BY <3>1 DEF SelectTimer, LoopInv, TypeOK
    <3>2. CASE EndRefresh(g)
      BY <3>2 DEF EndRefresh, LoopInv, TypeOK
    <3>3. CASE ~ SelectTimer(g) /\ ~ EndRefresh(g)
      <4>1. active' = active /\ loop[g] # "refresh" /\ loop'[g] # "refresh"
        BY <1>5, <3>3 DEF LoopStep, Compute, Arm, Close, SelectWake, SelectDone, runVars,
           LoopInv, TypeOK
      <4> QED
        BY <1>1, <4>1 DEF LoopInv, TypeOK
    <3> QED
      BY <3>1, <3>2, <3>3
  <2>6. RefreshingIsTrue'
    BY <1>5 DEF LoopStep, SelectTimer, Compute, Arm, EndRefresh, Close, SelectWake, SelectDone,
       runVars, LoopInv, RefreshingIsTrue
  <2> QED
    BY <1>2, <2>1, <2>3, <2>4, <2>5, <2>6 DEF LoopInv
<1> QED
  BY <1>4, <1>5

LEMMA JobSteps ==
    ASSUME LoopInv, NEW j \in Jobs, CreateJob(j) \/ JobStep(j)
    PROVE  LoopInv'
<1>1. UNCHANGED <<cfg, configureMu, caller, loopVars>>
  BY DEF CreateJob, JobStep, RunJob, BeginJobRun, EndJobRun, FinishJob
<1>2. /\ job' \in [Jobs -> {"none", "queued", "running", "returned", "completed", "failed"}]
      /\ active' \subseteq Runs /\ refreshing' \in BOOLEAN
  BY DEF CreateJob, JobStep, RunJob, BeginJobRun, EndJobRun, FinishJob, LoopInv, TypeOK, Runs
<1>3. \A h \in Loops : h \in active' <=> h \in active
  BY Numbers DEF CreateJob, JobStep, RunJob, BeginJobRun, EndJobRun, FinishJob
<1>4. RefreshingIsTrue'
  BY DEF CreateJob, JobStep, RunJob, BeginJobRun, EndJobRun, FinishJob, LoopInv, RefreshingIsTrue
<1>5. TypeOK'
  BY <1>1, <1>2 DEF LoopInv, TypeOK, loopVars
<1> QED
  BY <1>1, <1>3, <1>4, <1>5 DEF LoopInv, loopVars

LEMMA NextLoop == LoopInv /\ [Next]_vars => LoopInv'
<1> SUFFICES ASSUME LoopInv, [Next]_vars PROVE LoopInv'
  OBVIOUS
<1>1. ASSUME NEW c \in Callers,
             \/ c \in Hosts /\ \E new \in {"enabled", "disabled"} : Configure(c, new)
             \/ Shutdown(c) \/ GetState(c)
      PROVE  LoopInv'
  BY <1>1, OutsideStep
<1>2. CASE UNCHANGED vars
  BY <1>2 DEF vars, LoopInv, TypeOK, RefreshingIsTrue
<1>3. CASE Next
  BY <1>1, <1>3, CallerSteps, LoopSteps, JobSteps DEF Next, Callers
<1> QED
  BY <1>2, <1>3

-----------------------------------------------------------------------------

\* Two schedulers never run side by side (background.go:65-93: running, cancel and done
\* change together, and only the goroutine they belong to resets them).
THEOREM OneLoopCorrect == Spec => []OneLoop
<1>1. LoopInv => OneLoop
  BY DEF LoopInv, OneLoop
<1> QED
  BY InitLoop, NextLoop, <1>1, PTL DEF Spec

THEOREM SchedulerTypes == Spec => []TypeOK
<1>1. LoopInv => TypeOK
  BY DEF LoopInv
<1> QED
  BY InitLoop, NextLoop, <1>1, PTL DEF Spec

\* refreshStatus says that a refresh is running only while one is, however the runs of
\* the scheduler and of jobs overlap (main.go:1165: the first to end resets it).
THEOREM RefreshingCorrect == Spec => []RefreshingIsTrue
<1>1. LoopInv => RefreshingIsTrue
  BY DEF LoopInv
<1> QED
  BY InitLoop, NextLoop, <1>1, PTL DEF Spec

\* A stop that returns leaves no query of the loop it found under way, and that loop
\* never begins another: done is closed after everything else the goroutine does.
THEOREM StopAwaitsCorrect == Spec => StopAwaits
<1> DEFINE Awaited == \A c \in Callers :
                        caller[c].pc = "wait" /\ caller'[c].pc # "wait" =>
                          loop'[caller[c].loop] \notin Alive /\ caller[c].loop \notin active'
<1>1. LoopInv /\ LoopInv' /\ [Next]_vars => [Awaited]_vars
  <2> SUFFICES ASSUME LoopInv, LoopInv', Next, NEW c \in Callers,
                      caller[c].pc = "wait", caller'[c].pc # "wait"
               PROVE  loop'[caller[c].loop] \notin Alive /\ caller[c].loop \notin active'
    BY DEF vars
  <2>1. caller[c].loop \in Loops
    BY DEF LoopInv
  <2>2. ASSUME NEW d \in Callers,
               \/ d \in Hosts /\ \E new \in {"enabled", "disabled"} : Configure(d, new)
               \/ Shutdown(d) \/ GetState(d) \/ CallerStep(d)
        PROVE  Stopped(c)
    <3>1. CASE d # c
      BY <2>2, <3>1 DEF Configure, Shutdown, GetState, CallerStep, StopNothing, StopLoop, Stopped,
         ReadConfig, StartLoop, StartRunning, Notify, Goto, LoopInv, TypeOK
    <3>2. CASE d = c
      BY <2>2, <3>2 DEF Configure, Shutdown, GetState, CallerStep, StopNothing, StopLoop,
         ReadConfig, StartLoop, StartRunning, Notify
    <3> QED
      BY <3>1, <3>2
  <2>3. Stopped(c)
    <3>1. caller' # caller
      OBVIOUS
    <3>2. \E d \in Callers :
             \/ d \in Hosts /\ \E new \in {"enabled", "disabled"} : Configure(d, new)
             \/ Shutdown(d) \/ GetState(d) \/ CallerStep(d)
      BY <3>1 DEF Next, Callers, LoopStep, SelectTimer, Compute, Arm, EndRefresh, Leave, Close,
         SelectWake, SelectDone, CreateJob, JobStep, RunJob, BeginJobRun, EndJobRun, FinishJob
    <3> QED
      BY <2>2, <3>2
  <2>4. loop'[caller[c].loop] = "closed"
    BY <2>3 DEF Stopped, loopVars
  <2> QED
    BY <2>1, <2>4 DEF Alive, LoopInv
<1> QED
  BY InitLoop, NextLoop, <1>1, PTL DEF Spec, StopAwaits
=============================================================================
