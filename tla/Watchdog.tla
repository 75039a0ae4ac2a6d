------------------------------ MODULE Watchdog ------------------------------
(***************************************************************************)
(* The schedule watchdog of zillow-watchdog.ts next to the hourly job it   *)
(* watches: the job claims a row per hour slot, the watchdog judges each   *)
(* slot once its hour and a grace (one unit of time) have passed.  The Mac *)
(* sleeps, so no timer fires; Redis is down at a boot, so the job is never *)
(* registered; the process dies in the middle of a run; the operator       *)
(* retries a slot by hand.                                                 *)
(***************************************************************************)
EXTENDS Integers, FiniteSets

CONSTANTS
    Hour,         \* units in an hour
    LastSlot,     \* slots 1 .. LastSlot are observed
    Scheduled,    \* those the schedule names
    LateBy,       \* how late in its hour a run may start (late wake-ups)
    OnTime,       \* a start early enough for its end to be judged
    MaxRun,       \* how long a run takes
    StaleRunning, \* STALE_RUNNING_MS
    Lookback,     \* LOOKBACK_MS, in hours
    Events,       \* what may happen: a subset of EventKinds
    MaxUpsets     \* bound: a restart and a manual run, or one of them

EventKinds == {"sleep", "reboot", "redis", "manual"}
Slots == 1 .. LastSlot

ASSUME Durations ==
    {Hour, LastSlot, LateBy, OnTime, MaxRun, StaleRunning, Lookback, MaxUpsets} \subseteq Nat
\* What "OnTime" means: the run ends, and its row is stale, before the slot is judged.
ASSUME EarlyEnough == OnTime + MaxRun <= Hour /\ OnTime + StaleRunning <= Hour
ASSUME Schedule == Hour > 1 /\ Scheduled \subseteq Slots /\ Events \subseteq EventKinds

JobStale == Hour + 1                    \* JOB_STALE_MS
EndTime  == (LastSlot + 1) * Hour + 2   \* bound on the clock
NoSlot   == -9
NoRun    == 0

VARIABLES
    clock,
    awake,       \* the Mac is awake
    job,         \* JobState: registered, and lastRunAt or registeredAt
    row,         \* ZillowAutoRun status of each slot
    started,     \* and its startedAt
    running,     \* the slot whose run executes in this process, and since
    ticked,      \* hours whose tick BullMQ has delivered
    dog,         \* WatchdogState
    upsets,      \* the kinds of events so far
    judged,      \* slots judged in this process
    said         \* the verdicts it told the owner

watchdogVars ==
    <<clock, awake, job, row, started, running, ticked, dog, upsets, judged, said>>

FreshDog == [last |-> NoSlot, streak |-> FALSE, offline |-> FALSE]
SlotOf(t) == t \div Hour

WatchdogInit ==
    /\ clock = Hour
    /\ awake = TRUE
    /\ job = [registered |-> TRUE, stamp |-> Hour]
    /\ row = [s \in Slots |-> "none"]
    /\ started = [s \in Slots |-> 0]
    /\ running = [slot |-> NoRun, since |-> 0]
    /\ ticked = {}
    /\ dog = FreshDog
    /\ upsets = {}
    /\ judged = {}
    /\ said = {}

\* A run that executes ends within MaxRun, unless the Mac sleeps.
Advance ==
    /\ clock < EndTime
    /\ awake /\ running.slot # NoRun => clock < running.since + MaxRun
    /\ clock' = clock + 1
    /\ UNCHANGED <<awake, job, row, started, running, ticked, dog, upsets, judged, said>>

SleepWake ==
    /\ "sleep" \in Events
    /\ awake' = ~awake
    /\ upsets' = upsets \union {"sleep"}
    /\ UNCHANGED <<clock, job, row, started, running, ticked, dog, judged, said>>

Upset(kind) ==
    kind \in Events \ upsets /\ Cardinality(upsets \intersect {"reboot", "manual"}) < MaxUpsets

-----------------------------------------------------------------------------
(* The hourly job and manual runs. *)

\* A tick outside the schedule returns at once and stamps lastRunAt.
OffHourTick ==
    /\ awake /\ job.registered /\ running.slot = NoRun
    /\ SlotOf(clock) \notin Scheduled \union ticked
    /\ ticked' = ticked \union {SlotOf(clock)}
    /\ job' = [job EXCEPT !.stamp = clock]
    /\ UNCHANGED <<clock, awake, row, started, running, dog, upsets, judged, said>>

\* claimSlot: a fresh row, or a needs_login, failed or stale running row of
\* the SAME slot, or a done one when forced.  The second claim leaves startedAt as it was.
Claim(s, force) ==
    /\ \/ row[s] \in {"none", "needs_login", "failed"}
       \/ row[s] = "done" /\ force
       \/ row[s] = "running" /\ clock > started[s] + StaleRunning
    /\ row' = [row EXCEPT ![s] = "running"]
    /\ started' = [started EXCEPT ![s] = IF row[s] = "none" THEN clock ELSE @]
    /\ running' = [slot |-> s, since |-> clock]

\* Mutant: a tick promoted late claims the slot of the hour it was due in.
ScheduledRun_DueSlot ==
    /\ awake /\ job.registered /\ running.slot = NoRun
    /\ \E s \in Scheduled \ ticked :
           /\ s <= SlotOf(clock)
           /\ ticked' = ticked \union {s}
           /\ Claim(s, FALSE)
    /\ UNCHANGED <<clock, awake, job, dog, upsets, judged, said>>

\* The slot is that of the moment the tick runs, however late it is.
ScheduledRun ==
    /\ awake /\ job.registered /\ running.slot = NoRun
    /\ SlotOf(clock) \in Scheduled \ ticked
    /\ clock % Hour <= LateBy
    /\ ticked' = ticked \union {SlotOf(clock)}
    /\ Claim(SlotOf(clock), FALSE)
    /\ UNCHANGED <<clock, awake, job, dog, upsets, judged, said>>

ManualRun ==
    /\ Upset("manual")
    /\ awake /\ running.slot = NoRun
    /\ SlotOf(clock) \in Slots
    /\ upsets' = upsets \union {"manual"}
    /\ \E force \in BOOLEAN : Claim(SlotOf(clock), force)
    /\ UNCHANGED <<clock, awake, job, ticked, dog, judged, said>>

EndRun ==
    /\ awake /\ running.slot # NoRun
    /\ \E outcome \in {"done", "failed", "needs_login"} :
           row' = [row EXCEPT ![running.slot] = outcome]
    /\ running' = [slot |-> NoRun, since |-> 0]
    /\ job' = IF job.registered THEN [job EXCEPT !.stamp = clock] ELSE job
    /\ UNCHANGED <<clock, awake, started, ticked, dog, upsets, judged, said>>

\* The process dies and is relaunched; Redis may be down this time.
Reboot ==
    /\ Upset("reboot") /\ awake
    /\ upsets' = upsets \union {"reboot"}
    /\ running' = [slot |-> NoRun, since |-> 0]
    /\ \E up \in BOOLEAN :
           /\ up \/ "redis" \in Events
           /\ job' = [registered |-> up, stamp |-> clock]
    /\ dog' = FreshDog
    /\ judged' = {}
    /\ said' = {}
    /\ UNCHANGED <<clock, awake, row, started, ticked>>

-----------------------------------------------------------------------------
(* decideWatchdog *)

Online == job.registered /\ clock - job.stamp <= JobStale

\* Mutant: no grace after the hour.
Latest_NoGrace == SlotOf(clock - Hour)

\* The latest slot whose hour has fully passed, and the grace.
Latest == SlotOf(clock - Hour - 1)

\* The first slot still to judge, at most Lookback hours back.
Cursor ==
    LET next  == IF dog.last # NoSlot THEN dog.last + 1 ELSE Latest
        floor == SlotOf(clock) - Lookback
    IN  IF next < floor THEN floor ELSE next

Judge     == {s \in Slots : Cursor <= s /\ s <= Latest}
Missed(s) == row[s] = "none"

\* Whether a miss streak is open when the loop reaches slot s: the last
\* scheduled slot before it decides.
StreakBefore(s) ==
    LET before == {d \in Judge \intersect Scheduled : d < s} IN
    IF before = {} THEN dog.streak
    ELSE \E d \in before : Missed(d) /\ \A e \in before : e <= d

\* Mutant: a run that died is no verdict.
Verdicts_NoCrash(s) ==
    {v \in {"missed", "failed", "needs_login"} :
        IF v = "missed" THEN Missed(s) /\ ~StreakBefore(s) ELSE row[s] = v}

Verdicts(s) ==
    {v \in {"missed", "crashed", "failed", "needs_login"} :
        CASE v = "missed"  -> Missed(s) /\ ~StreakBefore(s)
          [] v = "crashed" -> row[s] = "running" /\ clock > started[s] + StaleRunning
          [] OTHER         -> row[s] = v}

\* watchdogTick: its reads, then one synchronous decision.
Tick ==
    /\ awake
    /\ dog' = [last    |-> IF Cursor <= Latest THEN Latest ELSE dog.last,
               streak  |-> StreakBefore(LastSlot + 1),
               offline |-> ~Online]
    /\ judged' = judged \union Judge
    /\ said' = said \union UNION {{s} \X Verdicts(s) : s \in Judge \intersect Scheduled}
    /\ UNCHANGED <<clock, awake, job, row, started, running, ticked, upsets>>

WatchdogNext ==
    \/ Advance \/ SleepWake
    \/ OffHourTick \/ ScheduledRun \/ ManualRun \/ EndRun \/ Reboot
    \/ Tick

WatchdogSpec == WatchdogInit /\ [][WatchdogNext]_watchdogVars

-----------------------------------------------------------------------------
\* "a run that BullMQ promoted late is never reported as missed"
\* (zillow-watchdog.ts:12), and "consecutive misses collapse into one
\* notification per streak": a slot reported as missed never gets a run, and a
\* judged miss is told, or an earlier one of the same streak was, with no run
\* between them that it judged.
MissReports ==
    /\ \A s \in Slots : <<s, "missed">> \in said => Missed(s)
    /\ \A s \in judged \intersect Scheduled :
           Missed(s) => \E d \in judged \intersect Scheduled :
               /\ d <= s /\ <<d, "missed">> \in said
               /\ \A e \in judged \intersect Scheduled : d <= e /\ e <= s => Missed(e)

\* "A running row older than this is a crashed run" (zillow-auto.ts:28), and "a
\* sleep of any length yields exactly one verdict per slot": a process says
\* nothing new of a slot it has judged, and in a day without sleep or a manual
\* retry, no slot whose run started OnTime in its hour is reported as crashed
\* while the run still executes.
VerdictsStand ==
    [][\A w \in said' \ said :
         /\ w[1] \notin judged
         /\ upsets \intersect {"sleep", "manual"} = {} /\ w[2] = "crashed"
               /\ started[w[1]] % Hour <= OnTime => running.slot # w[1]]_watchdogVars

\* "reports scheduled runs that did not happen, failed, crashed, or need a
\* Safari login" (zillow-watchdog.ts:2): in a day without sleep or a manual
\* retry, a judged slot whose run started OnTime in its hour, is over and
\* went wrong was reported, a crashed one and one judged after a restart too.
BadRunReported ==
    upsets \intersect {"sleep", "manual"} = {} =>
        \A s \in judged \intersect Scheduled :
            started[s] % Hour <= OnTime =>
              /\ row[s] \in {"failed", "needs_login"} => <<s, row[s]>> \in said
              /\ row[s] = "running" /\ running.slot # s => <<s, "crashed">> \in said
=============================================================================
