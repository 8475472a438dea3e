------------------------------ MODULE CronRuns ------------------------------
(***************************************************************************)
(* The cross-profile cron worker (cron/orchestrator.py, cron/execution.py, *)
(* cron/reauth.py).                                                        *)
(*                                                                         *)
(* Every gateway process scans every profile: it takes the profile's tick  *)
(* lock (a file lock between processes), lists the due jobs, hands back    *)
(* those of another gateway and submits its own to a thread pool.  A run   *)
(* is a child process with a timeout; its future's callback finalises the  *)
(* job (deliver, record, mark) with the core cron module patched to the    *)
(* job's profile, which the process-wide patch lock serialises.  The tick  *)
(* lock is given back when the scan is over and its last job is finalised. *)
(* The jobs file, get_due_jobs, advance_next_run and mark_job_run belong   *)
(* to the core and are modelled from their use.                            *)
(***************************************************************************)
EXTENDS Integers, FiniteSets

CONSTANTS Gateways, Profiles, Jobs, NoOne,
          ProfileOf,   \* the profile whose jobs file holds the job
          OneShots,    \* jobs whose schedule kind is "once"
          Tagged,      \* jobs with a source_app, the expert gateway's
          MaxWorkers,  \* threads of a gateway's pool
          Markers,     \* _reauth_notice_key: path and reason of an auth marker, hashed
          Interval,    \* _REAUTH_NOTICE_INTERVAL_SECONDS
          MaxTime,     \* BOUND: the clock
          MaxDue,      \* BOUND: times a job becomes due
          MaxCrashes   \* BOUND: processes that die, files that cannot be written

ASSUME CronAssumption ==
  /\ ProfileOf \in [Jobs -> Profiles]
  /\ OneShots \subseteq Jobs /\ Tagged \subseteq Jobs
  /\ {MaxWorkers, MaxDue, Interval} \subseteq Nat \ {0} /\ {MaxCrashes, MaxTime} \subseteq Nat
  /\ NoOne \notin Gateways \cup Profiles \cup Jobs \cup Markers
  /\ "ended" \notin Markers
  /\ IsFiniteSet(Jobs) /\ "scan" \notin Jobs \cup {NoOne}

VARIABLES
  expert,    \* the gateways started with HERMES_FIXED_EXPERT_ID
  now,       \* time.time()
  due,       \* jobs whose next run has come, as the jobs file says
  times,     \* how often a job became due
  runClaim,  \* the run_claim core stamped on a one-shot
  tick,      \* who holds a profile's tick lock
  patch,     \* who holds a gateway's patch lock: a job's finaliser or the scan
  paths,     \* the profile the core cron module of a gateway is patched to
  scan,      \* the scan thread: place, profile, jobs to look at, callbacks to add
  tickClaim, \* _ProfileTickClaim: futures left, submissions still open
  inFlight,  \* the in_flight set of a gateway
  future,    \* a gateway's future of a job
  notice,    \* reauth_notice.json: the key and sent_at
  told,      \* (history) the reauth notices the owner received: the last one and when,
             \* all their keys, and how many came too early
  started,   \* runs submitted of the job
  crashes

cronVars == <<expert, now, due, times, runClaim, tick, patch, paths, scan, tickClaim,
              inFlight, future, notice, told, started, crashes>>

Scanning == "scan"
Results == {"ended"} \cup Markers
FuturePlaces == {"none", "queued", "running", "finished", "complete", "deliver",
                 "record", "unlock"}
NoFuture == [pc |-> "none", result |-> "ended", called |-> FALSE, inScan |-> FALSE,
             notice |-> FALSE]
IdleScan == [pc |-> "idle", profile |-> NoOne, todo |-> {}, specs |-> {}, job |-> NoOne]

Scans == [pc : {"idle", "jobs", "submit", "attach"}, profile : Profiles \cup {NoOne},
          todo : SUBSET Jobs, specs : SUBSET Jobs, job : Jobs \cup {NoOne}]
NoNotice == [key |-> NoOne, at |-> 0]
NothingTold == [last |-> NoOne, at |-> 0, keys |-> {}, early |-> 0]

Notices == [key : Markers \cup {NoOne}, at : Nat]
Hearings == [last : Markers \cup {NoOne}, at : Nat, keys : SUBSET Markers, early : Nat]
TickClaims == [open : BOOLEAN, left : Nat]
Futures == [pc : FuturePlaces, result : Results, called : BOOLEAN, inScan : BOOLEAN,
            notice : BOOLEAN]

CronTypeOK ==
  /\ expert \subseteq Gateways /\ due \subseteq Jobs /\ now \in 0 .. MaxTime
  /\ times \in [Jobs -> 0 .. MaxDue] /\ started \in [Jobs -> Nat]
  /\ runClaim \in [Jobs -> Gateways \cup {NoOne}]
  /\ tick \in [Profiles -> Gateways \cup {NoOne}]
  /\ patch \in [Gateways -> Jobs \cup {Scanning, NoOne}]
  /\ paths \in [Gateways -> Profiles \cup {NoOne}]
  /\ scan \in [Gateways -> Scans]
  /\ tickClaim \in [Gateways -> [Profiles -> TickClaims]]
  /\ inFlight \in [Gateways -> SUBSET Jobs]
  /\ future \in [Gateways -> [Jobs -> Futures]]
  /\ notice \in [Profiles -> Notices] /\ told \in [Profiles -> Hearings]
  /\ crashes \in 0 .. MaxCrashes

CronInit ==
  /\ expert \in SUBSET Gateways
  /\ due = {} /\ crashes = 0 /\ now = 0
  /\ times = [j \in Jobs |-> 0] /\ started = [j \in Jobs |-> 0]
  /\ runClaim = [j \in Jobs |-> NoOne]
  /\ tick = [p \in Profiles |-> NoOne]
  /\ patch = [g \in Gateways |-> NoOne] /\ paths = [g \in Gateways |-> NoOne]
  /\ scan = [g \in Gateways |-> IdleScan]
  /\ tickClaim = [g \in Gateways |-> [p \in Profiles |-> [open |-> FALSE, left |-> 0]]]
  /\ inFlight = [g \in Gateways |-> {}]
  /\ future = [g \in Gateways |-> [j \in Jobs |-> NoFuture]]
  /\ notice = [p \in Profiles |-> NoNotice] /\ told = [p \in Profiles |-> NothingTold]

-----------------------------------------------------------------------------
(* The core's jobs file. *)

\* A job's next run comes: its schedule, or the tool that creates it.
JobDue(j) ==
  /\ j \notin due /\ times[j] < IF j \in OneShots THEN 1 ELSE MaxDue
  /\ due' = due \cup {j}
  /\ times' = [times EXCEPT ![j] = @ + 1]
  /\ UNCHANGED <<expert, now, runClaim, tick, patch, paths, scan, tickClaim, inFlight,
                 future, notice, told, started, crashes>>

\* ONESHOT_RUN_CLAIM_TTL_SECONDS after the stamp the claim no longer counts.
ClaimExpires(j) ==
  /\ runClaim[j] # NoOne
  /\ runClaim' = [runClaim EXCEPT ![j] = NoOne]
  /\ UNCHANGED <<expert, now, due, times, tick, patch, paths, scan, tickClaim, inFlight,
                 future, notice, told, started, crashes>>

\* get_due_jobs: due jobs of the patched jobs file, one-shots only unclaimed.
DueIn(p) == {j \in due : ProfileOf[j] = p /\ runClaim[j] = NoOne}

\* mark_job_run: a one-shot is over, the claim goes with it.
MarkRun(j) ==
  /\ due' = IF j \in OneShots THEN due \ {j} ELSE due
  /\ runClaim' = [runClaim EXCEPT ![j] = NoOne]

-----------------------------------------------------------------------------
(* The scan of one profile. *)

\* _job_belongs_to_this_gateway.
Belongs(g, j) == (j \in Tagged) <=> (g \in expert)

\* _cron_profile_context, the tick lock and get_due_jobs; a lock that is held
\* ends the scan of the profile without a change.
ScanProfile(g, p) ==
  /\ scan[g].pc = "idle" /\ patch[g] = NoOne /\ tick[p] = NoOne
  /\ patch' = [patch EXCEPT ![g] = Scanning]
  /\ paths' = [paths EXCEPT ![g] = p]
  /\ tick' = [tick EXCEPT ![p] = g]
  /\ tickClaim' = [tickClaim EXCEPT ![g][p] = [open |-> TRUE, left |-> 0]]
  /\ scan' = [scan EXCEPT ![g] = [IdleScan EXCEPT !.pc = "jobs", !.profile = p,
                                                  !.todo = DueIn(p)]]
  /\ runClaim' = [j \in Jobs |-> IF j \in DueIn(p) \cap OneShots THEN g ELSE runClaim[j]]
  /\ UNCHANGED <<expert, now, due, times, inFlight, future, notice, told, started, crashes>>

\* A one-shot of another gateway: _release_cron_run_claim, which compares and
\* clears, and may fail to write the file.
Decline(g, j) ==
  /\ scan[g].pc = "jobs" /\ j \in scan[g].todo
  /\ ~Belongs(g, j) \/ j \in inFlight[g]
  /\ scan' = [scan EXCEPT ![g].todo = @ \ {j}]
  /\ \/ /\ runClaim' = IF ~Belongs(g, j) /\ runClaim[j] = g
                       THEN [runClaim EXCEPT ![j] = NoOne] ELSE runClaim
        /\ UNCHANGED crashes
     \/ /\ crashes < MaxCrashes /\ crashes' = crashes + 1
        /\ UNCHANGED runClaim
  /\ UNCHANGED <<expert, now, due, times, tick, patch, paths, tickClaim, inFlight,
                 future, notice, told, started>>

\* Mutant: the next run is left to the end of the run.
AdvanceLate(g, j) ==
  /\ scan[g].pc = "jobs" /\ j \in scan[g].todo
  /\ Belongs(g, j) /\ j \notin inFlight[g]
  /\ inFlight' = [inFlight EXCEPT ![g] = @ \cup {j}]
  /\ scan' = [scan EXCEPT ![g].todo = @ \ {j}, ![g].pc = "submit", ![g].job = j]
  /\ UNCHANGED <<expert, now, due, times, runClaim, tick, patch, paths, tickClaim,
                 future, notice, told, started, crashes>>

\* The job enters in_flight and its next run is advanced before it is submitted.
Advance(g, j) ==
  /\ scan[g].pc = "jobs" /\ j \in scan[g].todo
  /\ Belongs(g, j) /\ j \notin inFlight[g]
  /\ inFlight' = [inFlight EXCEPT ![g] = @ \cup {j}]
  /\ due' = IF j \in OneShots THEN due ELSE due \ {j}
  /\ scan' = [scan EXCEPT ![g].todo = @ \ {j}, ![g].pc = "submit", ![g].job = j]
  /\ UNCHANGED <<expert, now, times, runClaim, tick, patch, paths, tickClaim, future,
                 notice, told, started, crashes>>

Submit(g) ==
  LET j == scan[g].job IN
  /\ scan[g].pc = "submit"
  /\ scan' = [scan EXCEPT ![g].pc = "jobs", ![g].job = NoOne, ![g].specs = @ \cup {j}]
  /\ future' = [future EXCEPT ![g][j] = [NoFuture EXCEPT !.pc = "queued"]]
  /\ tickClaim' = [tickClaim EXCEPT ![g][ProfileOf[j]].left = @ + 1]
  /\ started' = [started EXCEPT ![j] = @ + 1]
  /\ UNCHANGED <<expert, now, due, times, runClaim, tick, patch, paths, inFlight,
                 notice, told, crashes>>

\* advance_next_run or submit raised: the failure is finalised in the context the
\* scan holds.
SubmitFails(g) ==
  LET j == scan[g].job IN
  /\ scan[g].pc = "submit" /\ crashes < MaxCrashes
  /\ crashes' = crashes + 1
  /\ scan' = [scan EXCEPT ![g].pc = "jobs", ![g].job = NoOne]
  /\ inFlight' = [inFlight EXCEPT ![g] = @ \ {j}]
  /\ MarkRun(j)
  /\ UNCHANGED <<expert, now, times, tick, patch, paths, tickClaim, future, notice,
                 told, started>>

\* Mutant: the callbacks are added inside the context.
LeaveContextHolding(g) ==
  /\ scan[g].pc = "jobs" /\ scan[g].todo = {}
  /\ scan' = [scan EXCEPT ![g].pc = "attach"]
  /\ UNCHANGED <<expert, now, due, times, runClaim, tick, patch, paths, tickClaim,
                 inFlight, future, notice, told, started, crashes>>

\* The context ends before any callback is added: a finished future runs its
\* callback in this thread, and the callback needs the patch lock.
LeaveContext(g) ==
  /\ scan[g].pc = "jobs" /\ scan[g].todo = {}
  /\ scan' = [scan EXCEPT ![g].pc = "attach"]
  /\ patch' = [patch EXCEPT ![g] = NoOne]
  /\ paths' = [paths EXCEPT ![g] = NoOne]
  /\ UNCHANGED <<expert, now, due, times, runClaim, tick, tickClaim, inFlight, future,
                 notice, told, started, crashes>>

\* The scan thread is inside a callback it called itself.
InCallback(g) == \E j \in Jobs : future[g][j].inScan /\ future[g][j].pc # "none"

\* future.add_done_callback, of one job after the other.
Attach(g, j) ==
  /\ scan[g].pc = "attach" /\ j \in scan[g].specs /\ ~InCallback(g)
  /\ scan' = [scan EXCEPT ![g].specs = @ \ {j}]
  /\ future' = [future EXCEPT ![g][j] =
       IF @.pc = "finished" THEN [@ EXCEPT !.pc = "complete", !.inScan = TRUE]
       ELSE [@ EXCEPT !.called = TRUE]]
  /\ UNCHANGED <<expert, now, due, times, runClaim, tick, patch, paths, tickClaim,
                 inFlight, notice, told, started, crashes>>

\* _release_if_ready_locked.
ReleaseIfReady(p, c) == IF c.open \/ c.left > 0 THEN tick ELSE [tick EXCEPT ![p] = NoOne]

\* close_submissions.
CloseSubmissions(g) ==
  LET p == scan[g].profile
      c == [tickClaim[g][p] EXCEPT !.open = FALSE] IN
  /\ scan[g].pc = "attach" /\ scan[g].specs = {} /\ ~InCallback(g)
  /\ scan' = [scan EXCEPT ![g] = IdleScan]
  /\ tickClaim' = [tickClaim EXCEPT ![g][p] = c]
  /\ tick' = ReleaseIfReady(p, c)
  /\ UNCHANGED <<expert, now, due, times, runClaim, patch, paths, inFlight, future,
                 notice, told, started, crashes>>

-----------------------------------------------------------------------------
(* The pool: the child process and the callback of its future. *)

Busy(g) == {j \in Jobs : /\ future[g][j].pc \notin {"none", "queued", "finished"}
                         /\ ~future[g][j].inScan}

StartRun(g, j) ==
  /\ future[g][j].pc = "queued" /\ Cardinality(Busy(g)) < MaxWorkers
  /\ future' = [future EXCEPT ![g][j].pc = "running"]
  /\ UNCHANGED <<expert, now, due, times, runClaim, tick, patch, paths, scan, tickClaim,
                 inFlight, notice, told, started, crashes>>

\* The child ends with its result, is killed at its timeout, or an auth marker of the
\* owner defers the run; the future is done and calls back what was added.
EndRun(g, j, r) ==
  /\ future[g][j].pc = "running"
  /\ future' = [future EXCEPT ![g][j] = [future[g][j] EXCEPT !.result = r,
                  !.pc = IF future[g][j].called THEN "complete" ELSE "finished"]]
  /\ UNCHANGED <<expert, now, due, times, runClaim, tick, patch, paths, scan, tickClaim,
                 inFlight, notice, told, started, crashes>>

\* _reauth_notice_due: another marker than the one on record, or a day after its notice.
NoticeDue(p, k) == notice[p].key # k \/ now - notice[p].at >= Interval

\* _finalize_claimed_cron_job enters the profile's context; the owner is told of a
\* deferred run when a notice is due, or when the record cannot be read.
Finalize(g, j) ==
  LET f == future[g][j] IN
  /\ f.pc = "complete" /\ patch[g] = NoOne
  /\ patch' = [patch EXCEPT ![g] = j]
  /\ paths' = [paths EXCEPT ![g] = ProfileOf[j]]
  /\ \E tell \in BOOLEAN :
       /\ future' = [future EXCEPT ![g][j] = [f EXCEPT !.pc = "deliver", !.notice = tell]]
       /\ \/ /\ tell = (f.result \in Markers /\ NoticeDue(ProfileOf[j], f.result))
             /\ UNCHANGED crashes
          \/ /\ tell /\ f.result \in Markers
             /\ crashes < MaxCrashes /\ crashes' = crashes + 1
  /\ UNCHANGED <<expert, now, due, times, runClaim, tick, scan, tickClaim, inFlight,
                 notice, told, started>>

\* The owner receives a notice of a marker: too early when it repeats the last one
\* within the day.
Early(p, k) == told[p].last = k /\ now - told[p].at < Interval

Hear(p, k) ==
  [last |-> k, at |-> now, keys |-> told[p].keys \cup {k},
   early |-> told[p].early + (IF Early(p, k) THEN 1 ELSE 0)]

\* deliver_result, of the content or of the notice: confirmed, or an error (no
\* receipt, the gateway draining), which leaves nothing to record.
Deliver(g, j) ==
  /\ future[g][j].pc = "deliver"
  /\ \/ /\ future' = [future EXCEPT ![g][j].pc = "record"]
        /\ told' = IF future[g][j].notice
                   THEN [told EXCEPT ![ProfileOf[j]] = Hear(ProfileOf[j], future[g][j].result)]
                   ELSE told
        /\ UNCHANGED crashes
     \/ /\ crashes < MaxCrashes /\ crashes' = crashes + 1
        /\ future' = [future EXCEPT ![g][j] = [@ EXCEPT !.pc = "record", !.notice = FALSE]]
        /\ UNCHANGED told
  /\ UNCHANGED <<expert, now, due, times, runClaim, tick, patch, paths, scan, tickClaim,
                 inFlight, notice, started>>

\* _record_reauth_notice, which may fail, mark_job_run and _record_cron_terminal: writes
\* to the files the patched paths name.
Record(g, j) ==
  LET p == ProfileOf[j]
      f == future[g][j] IN
  /\ f.pc = "record"
  /\ future' = [future EXCEPT ![g][j].pc = "unlock"]
  /\ \/ /\ notice' = IF f.notice THEN [notice EXCEPT ![p] = [key |-> f.result, at |-> now]]
                     ELSE notice
        /\ UNCHANGED crashes
     \/ /\ f.notice /\ crashes < MaxCrashes /\ crashes' = crashes + 1
        /\ UNCHANGED notice
  /\ MarkRun(j)
  /\ UNCHANGED <<expert, now, times, tick, patch, paths, scan, tickClaim, inFlight,
                 told, started>>

\* The context is left; then the end of _complete_claimed_cron_job: in_flight,
\* future_done.
Complete(g, j) ==
  LET p == ProfileOf[j]
      c == [tickClaim[g][p] EXCEPT !.left = IF @ > 0 THEN @ - 1 ELSE 0] IN
  /\ future[g][j].pc = "unlock"
  /\ patch' = [patch EXCEPT ![g] = NoOne]
  /\ paths' = [paths EXCEPT ![g] = NoOne]
  /\ future' = [future EXCEPT ![g][j] = NoFuture]
  /\ inFlight' = [inFlight EXCEPT ![g] = @ \ {j}]
  /\ tickClaim' = [tickClaim EXCEPT ![g][p] = c]
  /\ tick' = ReleaseIfReady(p, c)
  /\ UNCHANGED <<expert, now, due, times, runClaim, scan, notice, told, started, crashes>>

-----------------------------------------------------------------------------
\* A gateway process dies and comes back: its file locks are gone, so is what it
\* had in memory.
Crash(g) ==
  /\ crashes < MaxCrashes /\ crashes' = crashes + 1
  /\ tick' = [p \in Profiles |-> IF tick[p] = g THEN NoOne ELSE tick[p]]
  /\ patch' = [patch EXCEPT ![g] = NoOne]
  /\ paths' = [paths EXCEPT ![g] = NoOne]
  /\ scan' = [scan EXCEPT ![g] = IdleScan]
  /\ tickClaim' = [tickClaim EXCEPT ![g] = [p \in Profiles |-> [open |-> FALSE, left |-> 0]]]
  /\ inFlight' = [inFlight EXCEPT ![g] = {}]
  /\ future' = [future EXCEPT ![g] = [j \in Jobs |-> NoFuture]]
  /\ UNCHANGED <<expert, now, due, times, runClaim, notice, told, started>>

ScanStep(g) ==
  \/ \E j \in Jobs : Decline(g, j) \/ Advance(g, j) \/ Attach(g, j)
  \/ Submit(g) \/ SubmitFails(g) \/ LeaveContext(g) \/ CloseSubmissions(g)

RunStep(g, j) ==
  \/ StartRun(g, j) \/ (\E r \in Results : EndRun(g, j, r))
  \/ Deliver(g, j) \/ Record(g, j) \/ Complete(g, j)

Tick ==
  /\ now < MaxTime
  /\ now' = now + 1
  /\ UNCHANGED <<expert, due, times, runClaim, tick, patch, paths, scan, tickClaim,
                 inFlight, future, notice, told, started, crashes>>

CronNext ==
  \/ Tick
  \/ \E j \in Jobs : JobDue(j) \/ ClaimExpires(j)
  \/ \E g \in Gateways :
       \/ ScanStep(g) \/ Crash(g)
       \/ \E p \in Profiles : ScanProfile(g, p)
       \/ \E j \in Jobs : RunStep(g, j) \/ Finalize(g, j)

\* A thread that is not blocked goes on and a run ends (its timeout kills the
\* child).  The patch lock is held for the scan of one profile or for one
\* delivery, each bounded, so some finaliser that keeps asking for it gets it.
CronFairness ==
  \A g \in Gateways : /\ WF_cronVars(ScanStep(g))
                      /\ WF_cronVars(\E j \in Jobs : RunStep(g, j))
                      /\ SF_cronVars(\E j \in Jobs : Finalize(g, j))

CronSpec == CronInit /\ [][CronNext]_cronVars /\ CronFairness

-----------------------------------------------------------------------------
(* What must hold. *)

\* While a gateway has a job in its pool it holds the tick lock of the job's
\* profile, so no other gateway, nor its own next scan, runs the job meanwhile;
\* and what it writes for the job goes to the job's own profile.
RunsApart ==
  \A g \in Gateways, j \in Jobs :
    future[g][j].pc # "none" =>
      /\ tick[ProfileOf[j]] = g
      /\ j \in inFlight[g]
      /\ future[g][j].pc \in {"deliver", "record", "unlock"} => paths[g] = ProfileOf[j]

\* An occurrence of a recurring job is started at most once, also when gateways
\* die: its next run is advanced before it is submitted.
StartedOnce == \A j \in Jobs \ OneShots : started[j] <= times[j]

\* A one-shot stays claimed only by the gateway that is about to run it or runs
\* it: one that belongs to another gateway is handed back within the scan.
ClaimsAccounted ==
  \A j \in Jobs : \/ runClaim[j] = NoOne
                  \/ crashes > 0
                  \/ LET g == runClaim[j] IN j \in scan[g].todo \cup inFlight[g]

\* A notice on record was received; and the owner hears of the same marker again within
\* the day only after a process or a file failed in between, or another marker.
NoticeExact ==
  \A p \in Profiles : /\ notice[p].key \in told[p].keys \cup {NoOne}
                      /\ told[p].early <= crashes

\* Every occurrence, claim and notice is accounted for, whichever gateway scans, runs or
\* dies.
RunsAccounted == CronTypeOK /\ RunsApart /\ StartedOnce /\ ClaimsAccounted /\ NoticeExact

\* A profile's tick lock is always given back: no run, callback or scan of a
\* gateway waits for ever.
TickReleased ==
  \A p \in Profiles : (tick[p] # NoOne) ~> (tick[p] = NoOne)
=============================================================================
