------------------------------ MODULE SkillHub ------------------------------
(***************************************************************************)
(* Skills and plugins sent by the SkillHub: the event log and its webhook  *)
(* (skillhub_events.py, webui_broker_server.py), the lane that drains it   *)
(* (schedule_drain, run_worker of skillhub_installer.py) and what it does  *)
(* to the profiles (skillhub_installer.py, plugin_ingest.py).  There is    *)
(* one skill name, sent on its own and as part of one plugin, and an       *)
(* employee may have a skill of that name too.  The lane is one thread, so *)
(* the locks it takes are free; what interleaves is the webhook, failures  *)
(* of any step and the end of the process.  The org-wide audience "all"    *)
(* and the operator's command line are not modelled.                       *)
(***************************************************************************)
EXTENDS Naturals

CONSTANTS
    Homes,       \* profiles
    Always,      \* _default_plugin_profiles
    Sticky,      \* _plugin_sticky_profiles
    Hooks,       \* event ids
    Payloads,    \* bodies an event may have
    MaxStops,    \* bound: ends of the process
    MaxRefusals  \* bound: times the event log refuses the lane

VARIABLES
    hook,        \* of an event: the status of its row, and the body while it is queued
    unwoken,     \* events recorded by a webhook that has not called schedule_drain yet
    lane,        \* _DRAIN_STATES and where the lane is
    listed,      \* rows run_worker has listed and not come to
    job,         \* the row in hand, or the rows merged into one
    man,         \* the plugin's managed manifest
    spot,        \* what is at skills/<name> of a profile
    ledger,      \* .hermes-personal-installs.json: whose the entry is
    managed,     \* .hermes-managed.json: profiles with an entry of the standalone skill
    cut,         \* events whose processing the end of the process cut short
    stops, refusals

files == <<man, spot, ledger, managed>>
hubVars == <<hook, unwoken, lane, listed, job, files, cut, stops, refusals>>

\* Events that carry the whole audience (_FULL_SNAPSHOT_EVENT_TYPES).
Full == {"status", "full"}

PayloadSpace ==
    [item : {"plugin", "skill"}, type : {"status", "full", "grant", "other", "unknown"},
     status : {"active", "inactive", "pending"}, explicit : BOOLEAN, users : SUBSET Homes, pkg : BOOLEAN]

ASSUME SkillHubAssumption ==
    Always \subseteq Homes /\ Sticky \subseteq Homes /\ Payloads \subseteq PayloadSpace

NoMan == [st |-> "none", aud |-> {}, owned |-> {}]

\* A job: its rows, how far it is, the homes still to be visited, the audience and what of it
\* is the plugin's, the home that is being taken over, and what a failure restores.
JobOf(evs, at) ==
    [of |-> evs, at |-> at, todo |-> {}, target |-> {}, owned |-> {}, here |-> {},
     activate |-> FALSE, saved |-> <<>>]
NoJob == JobOf({}, "none")

Skilled == {"begun", "remove", "put"}
Plugged == {"revoke", "reconcile", "ingest", "install", "displaced", "linked", "health"}

HubTypeOK ==
    /\ \A e \in Hooks : /\ hook[e].st \in {"none", "queued", "done", "failed"}
                        /\ hook[e].st = "queued" => hook[e].body \in Payloads
    /\ unwoken \subseteq Hooks /\ listed \subseteq Hooks /\ cut \subseteq Hooks
    /\ lane.at \in {"off", "down", "list", "empty", "rows", "work"} /\ lane.asked \in BOOLEAN
    /\ job.at \in Skilled \cup Plugged \cup {"none", "done", "failed"}
    /\ lane.at = "work" <=> job.of # {}
    /\ man.st \in {"none", "active", "inactive"} /\ man.owned \subseteq man.aud /\ man.aud \subseteq Homes
    /\ spot \in [Homes -> {"none", "own", "plugin", "skill"}]
    /\ ledger \in [Homes -> {"none", "own", "plugin"}]
    /\ managed \subseteq Homes

\* Some employees have put a skill of that name into their profile.
HubInit ==
    /\ hook = [e \in Hooks |-> [st |-> "none"]]
    /\ unwoken = {} /\ listed = {} /\ job = NoJob /\ cut = {}
    /\ lane = [at |-> "off", asked |-> FALSE]
    /\ man = NoMan /\ managed = {}
    /\ ledger \in [Homes -> {"none", "own"}]
    /\ spot = ledger
    /\ stops = 0 /\ refusals = 0

-----------------------------------------------------------------------------
(* The event log, the webhook and the lane. *)

\* The webhook records an event that is new; it wakes the lane if its type is known.
RecordEvent(e, body) ==
    /\ lane.at # "down" /\ hook[e].st = "none"
    /\ hook' = [hook EXCEPT ![e] = [st |-> "queued", body |-> body]]
    /\ unwoken' = IF body.type = "unknown" THEN unwoken ELSE unwoken \cup {e}
    /\ UNCHANGED <<lane, listed, job, files, cut, stops, refusals>>

\* schedule_drain: a wake of a lane that is at work is remembered by a flag.
ScheduleDrain(e) ==
    /\ lane.at # "down" /\ e \in unwoken
    /\ unwoken' = unwoken \ {e}
    /\ lane' = IF lane.at = "off" THEN [at |-> "list", asked |-> FALSE] ELSE [lane EXCEPT !.asked = TRUE]
    /\ UNCHANGED <<hook, listed, job, files, cut, stops, refusals>>

Queued == {e \in Hooks : hook[e].st = "queued"}

\* list_queued, as run_worker calls it.  Rows come oldest first, by id within a second;
\* here in any order.
ListQueued ==
    /\ lane.at = "list"
    /\ listed' = Queued
    /\ lane' = [lane EXCEPT !.at = IF Queued = {} THEN "empty" ELSE "rows"]
    /\ UNCHANGED <<hook, unwoken, job, files, cut, stops, refusals>>

\* The flag is not looked at.
LeaveLaneDeaf ==
    /\ lane.at = "empty"
    /\ lane' = [at |-> "off", asked |-> FALSE]
    /\ UNCHANGED <<hook, unwoken, listed, job, files, cut, stops, refusals>>

\* A pass has found nothing: one more if the flag is set, otherwise the lane is given up.
LeaveLane ==
    /\ lane.at = "empty"
    /\ lane' = [at |-> IF lane.asked THEN "list" ELSE "off", asked |-> FALSE]
    /\ UNCHANGED <<hook, unwoken, listed, job, files, cut, stops, refusals>>

Body(e) == hook[e].body

\* Grants of the plugin that differ in their users only are processed as one.
Mergeable(evs) ==
    \/ \E e \in evs : evs = {e}
    \/ \A e, f \in evs : /\ Body(e).item = "plugin" /\ Body(e).type = "grant"
                         /\ [Body(e) EXCEPT !.users = {}] = [Body(f) EXCEPT !.users = {}]

TakeRows(evs) ==
    /\ lane.at = "rows" /\ evs # {} /\ Mergeable(evs)
    /\ listed' = listed \ evs
    /\ job' = JobOf(evs, "begun")
    /\ lane' = [lane EXCEPT !.at = "work"]
    /\ UNCHANGED <<hook, unwoken, files, cut, stops, refusals>>

\* The body of the job: that of its rows, with the users of all.
Work == [Body(CHOOSE e \in job.of : TRUE) EXCEPT !.users = UNION {Body(e).users : e \in job.of}]

\* The audience of an update: a snapshot that switches the plugin on again keeps those it had.
Target ==
    Work.users \cup Always
    \cup (IF (Work.type \in Full /\ man.st = "inactive") \/ Work.type = "grant" THEN man.aud ELSE {})
    \cup (IF Work.type \in Full THEN Sticky ELSE {})

\* Nothing is live yet; or an event that does not say "active" meets a plugin that was
\* switched off; or there is no package, neither in the event nor from before; or no one
\* is to have it.
Skippable ==
    \/ Work.status = "pending"
    \/ /\ Work.item = "plugin" /\ Work.status = "active"
       /\ \/ ~Work.explicit /\ man.st = "inactive"
          \/ ~Work.pkg /\ man.st = "none"
          \/ Target = {}

\* mark_installed or mark_failed; when the log refuses the first, the second is tried.
MarkRows(outcome) ==
    /\ job.at \in {"done", "failed"}
    /\ outcome = job.at \/ (outcome = "failed" /\ refusals < MaxRefusals)
    /\ refusals' = IF outcome = job.at THEN refusals ELSE refusals + 1
    /\ hook' = [e \in Hooks |-> IF e \in job.of THEN [st |-> outcome] ELSE hook[e]]
    /\ cut' = IF job.at = "done" /\ ~Skippable THEN cut \ job.of ELSE cut
    /\ job' = NoJob
    /\ lane' = [lane EXCEPT !.at = IF listed = {} THEN "list" ELSE "rows"]
    /\ UNCHANGED <<unwoken, listed, files, stops>>

\* The log cannot be read or written: _drain_queued gives the lane up, whatever the flag says.
DrainFails ==
    /\ lane.at = "list" \/ job.at \in {"done", "failed"}
    /\ refusals < MaxRefusals
    /\ refusals' = refusals + 1
    /\ job' = NoJob /\ listed' = {}
    /\ lane' = [at |-> "off", asked |-> FALSE]
    /\ UNCHANGED <<hook, unwoken, files, cut, stops>>

\* The process ends, in the middle of a job or not.
ProcessStops ==
    /\ lane.at # "down" /\ stops < MaxStops
    /\ stops' = stops + 1
    /\ cut' = IF job.at \in {"begun", "done", "failed"} THEN cut ELSE cut \cup job.of
    /\ job' = NoJob /\ listed' = {} /\ unwoken' = {}
    /\ lane' = [at |-> "down", asked |-> FALSE]
    /\ UNCHANGED <<hook, files, refusals>>

\* _start_skillhub_drain.
ProcessStarts ==
    /\ lane.at = "down"
    /\ lane' = [at |-> "list", asked |-> FALSE]
    /\ UNCHANGED <<hook, unwoken, listed, job, files, cut, stops, refusals>>

-----------------------------------------------------------------------------
(* What is done with an event. *)

laneVars == <<hook, unwoken, lane, listed, cut, stops, refusals>>

Goes(at) == job' = [job EXCEPT !.at = at]
GoesFor(at, homes) == job' = [job EXCEPT !.at = at, !.todo = homes]
Visited(p) == job' = [job EXCEPT !.todo = @ \ {p}]

Opens(item) == job.at = "begun" /\ Work.item = item

SkipEvent ==
    /\ job.at = "begun" /\ Skippable
    /\ Goes("done")
    /\ UNCHANGED <<files, laneVars>>

\* What a failure leaves: of an active plugin what was there before the transaction, of
\* another what has been done, with a displaced skill put back.
RestoreManifestOnly ==
    /\ man' = IF job.saved # <<>> THEN job.saved[1][1] ELSE man
    /\ spot' = [p \in Homes |-> IF p \in job.here /\ job.at = "displaced" THEN "skill" ELSE spot[p]]
    /\ UNCHANGED <<ledger, managed>>

Restore ==
    IF job.saved # <<>>
    THEN /\ man' = job.saved[1][1] /\ spot' = job.saved[1][2]
         /\ ledger' = job.saved[1][3] /\ managed' = job.saved[1][4]
    ELSE /\ spot' = [p \in Homes |-> IF p \in job.here /\ job.at = "displaced" THEN "skill" ELSE spot[p]]
         /\ UNCHANGED <<man, ledger, managed>>

\* A download, a check, a write or the health of the candidate fails.
EventFails ==
    /\ job.at \in (Skilled \cup Plugged) \ {"none"}
    /\ Restore
    /\ Goes("failed")
    /\ UNCHANGED laneVars

-----------------------------------------------------------------------------
(* The plugin. *)

\* What the manifest says is the plugin's; old ones only have an audience.
Entries == IF man.owned = {} THEN man.aud ELSE man.owned

\* _uninstall_locked, for one home: an entry that is someone else's, or whose files were
\* changed, is left alone; the files go unless the home has them from elsewhere.
Uninstalled(p) ==
    IF ledger[p] = "own" \/ (ledger[p] = "plugin" /\ spot[p] \notin {"none", "plugin"})
    THEN UNCHANGED <<spot, ledger>>
    ELSE /\ spot' = IF ledger[p] = "plugin" /\ p \notin managed THEN [spot EXCEPT ![p] = "none"] ELSE spot
         /\ ledger' = [ledger EXCEPT ![p] = "none"]

\* deactivate marks the manifest before it touches a home.  Without a manifest it fails.
Deactivate ==
    /\ Opens("plugin") /\ Work.status = "inactive" /\ man.st # "none"
    /\ man' = [man EXCEPT !.st = "inactive"]
    /\ GoesFor("revoke", Entries)
    /\ UNCHANGED <<spot, ledger, managed, laneVars>>

RevokeHome(p) ==
    /\ job.at = "revoke" /\ p \in job.todo
    /\ Uninstalled(p) /\ Visited(p)
    /\ UNCHANGED <<man, managed, laneVars>>

Revoked ==
    /\ job.at = "revoke" /\ job.todo = {}
    /\ Goes("done")
    /\ UNCHANGED <<files, laneVars>>

\* _process_plugin_event_locked up to the transaction, which saves an active plugin's files.
BeginUpdate ==
    /\ Opens("plugin") /\ Work.status = "active" /\ ~Skippable
    /\ LET dropped == IF Work.type \in Full THEN man.aud \ Target ELSE {}
       IN  job' = [job EXCEPT !.at = IF dropped = {} THEN "ingest" ELSE "reconcile",
                              !.todo = dropped \cap Entries,
                              !.target = Target,
                              !.saved = IF man.st = "active" THEN <<files>> ELSE <<>>]
    /\ UNCHANGED <<files, laneVars>>

DropHome(p) ==
    /\ job.at = "reconcile" /\ p \in job.todo
    /\ Uninstalled(p) /\ Visited(p)
    /\ UNCHANGED <<man, managed, laneVars>>

\* The manifest is written without the dropped homes, or goes with the last of them.
Reconciled ==
    /\ job.at = "reconcile" /\ job.todo = {}
    /\ man' = IF Entries \subseteq man.aud \ job.target THEN NoMan
              ELSE [man EXCEPT !.aud = @ \cap job.target, !.owned = Entries \cap job.target]
    /\ Goes("ingest")
    /\ UNCHANGED <<spot, ledger, managed, laneVars>>

\* ingest: unless the plugin is active its manifest says "inactive" until all is done.
BeginIngest ==
    /\ job.at = "ingest"
    /\ man' = IF man.st = "active" THEN man
              ELSE [st |-> "inactive", aud |-> job.target, owned |-> {}]
    /\ job' = [job EXCEPT !.at = "install", !.todo = job.target,
                          !.activate = Work.explicit \/ man.st # "inactive"]
    /\ UNCHANGED <<spot, ledger, managed, laneVars>>

\* _install_skills_to_profile, for one home: the standalone skill is displaced, an employee's
\* own is left alone.
InstallHome(p) ==
    /\ job.at = "install" /\ p \in job.todo
    /\ \/ /\ p \in managed
          /\ spot' = [spot EXCEPT ![p] = "none"]
          /\ job' = [job EXCEPT !.at = "displaced", !.here = {p}]
          /\ UNCHANGED ledger
       \/ /\ p \notin managed /\ ledger[p] = "own"
          /\ Visited(p)
          /\ UNCHANGED <<spot, ledger>>
       \/ /\ p \notin managed /\ ledger[p] # "own"
          /\ spot' = [spot EXCEPT ![p] = "plugin"]
          /\ ledger' = [ledger EXCEPT ![p] = "plugin"]
          /\ job' = [job EXCEPT !.todo = @ \ {p}, !.owned = @ \cup {p}]
    /\ UNCHANGED <<man, managed, laneVars>>

TakeOverHome ==
    /\ job.at = "displaced"
    /\ \E p \in job.here : /\ spot' = [spot EXCEPT ![p] = "plugin"]
                           /\ ledger' = [ledger EXCEPT ![p] = "plugin"]
    /\ Goes("linked")
    /\ UNCHANGED <<man, managed, laneVars>>

\* _drop_standalone_ownership.
DropOwnership ==
    /\ job.at = "linked"
    /\ managed' = managed \ job.here
    /\ job' = [job EXCEPT !.at = "install", !.todo = @ \ job.here, !.owned = @ \cup job.here, !.here = {}]
    /\ UNCHANGED <<man, spot, ledger, laneVars>>

\* The manifest is written; what was active before is looked over once more.
CommitManifest ==
    /\ job.at = "install" /\ job.todo = {}
    /\ man' = [st |-> IF job.activate THEN "active" ELSE "inactive", aud |-> job.target, owned |-> job.owned]
    /\ Goes(IF job.saved = <<>> THEN "done" ELSE "health")
    /\ UNCHANGED <<spot, ledger, managed, laneVars>>

Healthy ==
    /\ job.at = "health"
    /\ man.st = "active" /\ \A p \in man.owned : spot[p] = "plugin"
    /\ Goes("done")
    /\ UNCHANGED <<files, laneVars>>

-----------------------------------------------------------------------------
(* The skill on its own. *)

\* The homes that lose it, then those that get it.  A grant without a package needs a home
\* that has the skill.
BeginSkill ==
    /\ Opens("skill") /\ Work.status # "pending"
    /\ LET off == Work.type = "status" /\ Work.status = "inactive"
       IN  /\ off \/ Work.pkg \/ managed # {}
           /\ job' = [job EXCEPT !.at = "remove",
                                 !.todo = IF off THEN managed
                                          ELSE IF Work.pkg /\ Work.type \in Full THEN managed \ Work.users ELSE {},
                                 !.target = IF off THEN {} ELSE Work.users]
    /\ UNCHANGED <<files, laneVars>>

\* _uninstall_from_profile.
RemoveHome(p) ==
    /\ job.at = "remove" /\ p \in job.todo
    /\ spot' = [spot EXCEPT ![p] = "none"]
    /\ managed' = managed \ {p}
    /\ Visited(p)
    /\ UNCHANGED <<man, ledger, laneVars>>

Removed ==
    /\ job.at = "remove" /\ job.todo = {}
    /\ GoesFor("put", job.target)
    /\ UNCHANGED <<files, laneVars>>

\* The owner is not looked up.
PutHomeBlind(p) ==
    /\ job.at = "put" /\ p \in job.todo
    /\ spot' = [spot EXCEPT ![p] = "skill"] /\ managed' = managed \cup {p}
    /\ Visited(p)
    /\ UNCHANGED <<man, ledger, laneVars>>

\* _install_into_profile: not over a skill of an active plugin.
PutHome(p) ==
    /\ job.at = "put" /\ p \in job.todo
    /\ IF man.st = "active" /\ p \in man.aud
       THEN UNCHANGED <<spot, managed>>
       ELSE spot' = [spot EXCEPT ![p] = "skill"] /\ managed' = managed \cup {p}
    /\ Visited(p)
    /\ UNCHANGED <<man, ledger, laneVars>>

PutDone ==
    /\ job.at = "put" /\ job.todo = {}
    /\ Goes("done")
    /\ UNCHANGED <<files, laneVars>>

-----------------------------------------------------------------------------
LaneStep ==
    \/ ListQueued \/ LeaveLane \/ DrainFails
    \/ \E evs \in SUBSET listed : TakeRows(evs)
    \/ \E outcome \in {"done", "failed"} : MarkRows(outcome)
    \/ SkipEvent \/ EventFails
    \/ Deactivate \/ Revoked \/ BeginUpdate \/ Reconciled \/ BeginIngest \/ TakeOverHome
    \/ DropOwnership \/ CommitManifest \/ Healthy
    \/ BeginSkill \/ Removed \/ PutDone
    \/ \E p \in Homes : RevokeHome(p) \/ DropHome(p) \/ InstallHome(p) \/ RemoveHome(p) \/ PutHome(p)

HubNext ==
    \/ \E e \in Hooks : ScheduleDrain(e) \/ \E body \in Payloads : RecordEvent(e, body)
    \/ LaneStep
    \/ ProcessStops \/ ProcessStarts

HubSpec == HubInit /\ [][HubNext]_hubVars

-----------------------------------------------------------------------------
(* Properties. *)

\* Every home of an active plugin has the plugin's skill, unless it is one the employee put
\* there: neither the standalone skill nor a failed update takes it away.
PluginWhole ==
    man.st = "active" =>
        \A p \in man.aud : /\ p \notin managed
                           /\ IF p \in man.owned THEN spot[p] = "plugin" /\ ledger[p] = "plugin"
                              ELSE ledger[p] = "own"

\* A home with an entry of the standalone skill is not without it: a takeover that fails
\* puts it back (_displace_standalone_skill).
NeverSkillLess == \A p \in managed : spot[p] \in {"skill", "plugin"}

\* Between jobs the profiles are whole, whatever failed, unless the end of the process cut a
\* job short that has not been done again since.
ProfilesWhole == job.of = {} /\ cut = {} => PluginWhole /\ NeverSkillLess

\* When the lane is given up, every row of a known type that is left has a webhook about to
\* wake it: a wake that meets the end of a pass is not lost (_drain_queued).  A log that
\* refuses the lane ends the promise.
WakesKept ==
    lane.at = "off" /\ refusals = 0 =>
        \A e \in Queued : Body(e).type # "unknown" => e \in unwoken

\* Events are not forgotten, and what they do to profiles is done whole or undone.
SkillsKept == HubTypeOK /\ ProfilesWhole /\ WakesKept

\* Not kept by the code, and in no configuration (README, section 5): an update of an
\* active plugin never drops a pinned profile from its audience.  An event of type
\* "skill.updated" is neither a snapshot nor a grant, and its target leaves the pinned out.
StickyStays ==
    [][\A p \in Sticky :
          man.st = "active" /\ p \in man.aud /\ man'.st = "active" => p \in man'.aud]_hubVars
=============================================================================
