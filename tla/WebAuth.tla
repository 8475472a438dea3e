------------------------------ MODULE WebAuth ------------------------------
(***************************************************************************)
(* Inline authorization of a WebUI run                                     *)
(* (webui_broker/periphery.py and webui_broker_server.py).                 *)
(*                                                                         *)
(* A tool call of the agent child asks for a login and blocks, polling a   *)
(* response file in the rendezvous directory of its run.  The parent       *)
(* registers a pending record, offers the user a login (a Feishu device    *)
(* session or a kep-auth process), watches it, verifies the credential and *)
(* writes the file.  Registration, probes and the start of a login run in  *)
(* worker threads: cancelling the task that awaits one does not stop it.   *)
(* The records are behind one lock, and the handlers on the event loop     *)
(* (cancel, stop, teardown of a run) are atomic.                           *)
(***************************************************************************)
EXTENDS FiniteSets

CONSTANTS Runs,         \* runs being streamed, all of one owner and chat
          Asks,         \* authorization requests, one per blocked tool call
          LarkLogins,   \* Feishu device sessions that can be opened
          KepLogins,    \* kep-auth processes that can be started
          Probers,      \* threads inside _authorization_probe_and_resolve
          NoLogin, NoTask, NoOne

ASSUME AuthAssumption ==
    /\ LarkLogins \cap KepLogins = {}
    /\ NoLogin \notin LarkLogins \cup KepLogins
    /\ {"no", "starting"} \cap (LarkLogins \cup KepLogins) = {}
    /\ NoTask \notin Probers \cup {"sleep"}
    /\ NoOne \notin Runs \cup Asks

Logins == LarkLogins \cup KepLogins
Terminal == {"success", "refused"}   \* refused: failed, expired or cancelled
Services == {"lark", "kep"}

VARIABLES
  running,  \* _authorization_live_runs: "new", "live" or "over"
  asker,    \* the run whose child raised a request, NoOne before
  blocked,  \* requests whose tool call is still polling its file
  service,  \* the service of a request
  toolAnswer,   \* the response file: "none" or a terminal state
  rec,      \* _pending_authorizations: state (late: past its deadline) and login
  reg,      \* the registration thread: "none", "entered", "checking"
  opening,  \* the authorize handler: "no", "starting" or the login it got
  login,    \* a provider login: "unused", "open", "granted" or "closed"
  cred,     \* the credential is stored and verifies
  watcher,  \* poll_task of a record: NoTask, "sleep" or its thread
  probe,    \* a thread's request, login snapshot and stage
  shown     \* the last state the browser was told of a request

authVars == <<running, asker, blocked, service, toolAnswer, rec, reg,
              opening, login, cred, watcher, probe, shown>>
askVars == <<asker, service>>

NoRecord == [state |-> "absent", login |-> NoLogin]
NoProbe == [ask |-> NoOne, login |-> NoLogin, stage |-> "idle"]
States == Terminal \cup {"pending", "late"}

AuthTypeOK ==
  /\ running \in [Runs -> {"new", "live", "over"}]
  /\ asker \in [Asks -> Runs \cup {NoOne}]
  /\ blocked \subseteq Asks
  /\ service \in [Asks -> Services]
  /\ toolAnswer \in [Asks -> Terminal \cup {"none"}]
  /\ rec \in [Asks -> [state : States \cup {"absent"}, login : Logins \cup {NoLogin}]]
  /\ reg \in [Asks -> {"none", "entered", "checking"}]
  /\ opening \in [Asks -> {"no", "starting"} \cup Logins]
  /\ login \in [Logins -> {"unused", "open", "granted", "closed"}]
  /\ cred \in BOOLEAN
  /\ watcher \in [Asks -> {NoTask, "sleep"} \cup Probers]
  /\ probe \in [Probers -> [ask : Asks \cup {NoOne}, login : Logins \cup {NoLogin},
                            stage : {"idle", "poll", "ended", "verify", "last"}]]
  /\ shown \in [Asks -> Terminal \cup {"none", "pending"}]

AuthInit ==
  /\ running = [r \in Runs |-> "new"]
  /\ asker = [a \in Asks |-> NoOne]
  /\ blocked = {}
  /\ service = [a \in Asks |-> "lark"]
  /\ toolAnswer = [a \in Asks |-> "none"]
  /\ rec = [a \in Asks |-> NoRecord]
  /\ reg = [a \in Asks |-> "none"]
  /\ opening = [a \in Asks |-> "no"]
  /\ login = [l \in Logins |-> "unused"]
  /\ cred = FALSE
  /\ watcher = [a \in Asks |-> NoTask]
  /\ probe = [p \in Probers |-> NoProbe]
  /\ shown = [a \in Asks |-> "none"]

-----------------------------------------------------------------------------
Present(a) == rec[a] # NoRecord
Consumed(a) == rec[a].state \in Terminal
Published(a) == shown[a] # "none"   \* the browser knows the authorization_id
RunLive(a) == asker[a] # NoOne /\ running[asker[a]] = "live"

\* _authorization_pending_is_live
PendingLive(a) == rec[a].state = "pending"

\* Mutant: the other records are not asked.
TornDownShared(lgs, rr, known) ==
  [l \in Logins |-> IF l \in lgs /\ (known \/ l \in KepLogins) THEN "closed" ELSE login[l]]

(* _kill_authorization_flow on the records D, of which those in rr remain: *)
(* the login of a record of D is torn down unless one of rr still refers   *)
(* to it.  Without the owner in hand the device session refuses the cancel *)
(* and stays open.                                                         *)
TornDown(lgs, rr, known) ==
  [l \in Logins |->
     IF /\ l \in lgs
        /\ \A a \in Asks : rr[a].login # l
        /\ known \/ l \in KepLogins
     THEN "closed" ELSE login[l]]

Unwatched(D) == [a \in Asks |-> IF a \in D THEN NoTask ELSE watcher[a]]

\* Records leave the registry: their watchers and logins go with them.
Drop(D) ==
  LET rr == [a \in Asks |-> IF a \in D THEN NoRecord ELSE rec[a]] IN
  /\ rec' = rr
  /\ login' = TornDown({rec[a].login : a \in D} \ {NoLogin}, rr, TRUE)
  /\ watcher' = Unwatched(D)

\* _write_authorization_response_file, which may fail.
Publish(a, state, wrote) ==
  toolAnswer' = IF wrote THEN [toolAnswer EXCEPT ![a] = state] ELSE toolAnswer

\* The event reaches the browser while the run's stream is open.
Tell(a, state) == shown' = IF RunLive(a) THEN [shown EXCEPT ![a] = state] ELSE shown

(* _write_pending_authorization_response: the guarded transition.  A state *)
(* other than success tears the login down and keeps the record.           *)
MayWrite(a) == PendingLive(a) /\ RunLive(a)

Resolve(a, state) ==
  LET kept == IF state = "success" THEN rec[a].login ELSE NoLogin
      rr == [rec EXCEPT ![a] = [state |-> state, login |-> kept]] IN
  /\ rec' = rr
  /\ login' = TornDown({rec[a].login} \ {NoLogin, kept}, rr, TRUE)

-----------------------------------------------------------------------------
\* _mark_authorization_run_live at the start of _stream_run_request.
RunStart(r) ==
  /\ running[r] = "new"
  /\ running' = [running EXCEPT ![r] = "live"]
  /\ UNCHANGED <<askVars, blocked, toolAnswer, rec, reg, opening, login,
                 cred, watcher, probe, shown>>

\* The child's callback emits authorization_required and starts to poll.
Ask(a, r, s) ==
  /\ running[r] = "live"
  /\ asker[a] = NoOne
  /\ asker' = [asker EXCEPT ![a] = r]
  /\ service' = [service EXCEPT ![a] = s]
  /\ blocked' = blocked \cup {a}
  /\ reg' = [reg EXCEPT ![a] = "entered"]
  /\ UNCHANGED <<running, toolAnswer, rec, opening, login, cred, watcher,
                 probe, shown>>

\* The events of a run are handled one after the other.
StreamFree(a) == \A b \in Asks : asker[b] = asker[a] => reg[b] # "checking"

\* The event is malformed, its scopes refused, or its run has no owner.
RefuseRegistration(a, wrote) ==
  /\ reg[a] = "entered" /\ StreamFree(a)
  /\ reg' = [reg EXCEPT ![a] = "none"]
  /\ Publish(a, "refused", wrote)
  /\ Tell(a, "refused")
  /\ UNCHANGED <<running, askVars, blocked, rec, opening, login, cred,
                 watcher, probe>>

\* _purge_dead_pending_authorizations_locked: who is dropped.
Doomed == {a \in Asks : Present(a) /\ ~(PendingLive(a) /\ RunLive(a))}
Duplicate(a) == \E b \in Asks \ Doomed : rec[b].state = "pending" /\ asker[b] = asker[a]

\* _register_pending_authorization, under the lock.
RegisterAsk(a, wrote) ==
  LET rr == [b \in Asks |-> IF b \in Doomed THEN NoRecord ELSE rec[b]] IN
  /\ reg[a] = "entered" /\ StreamFree(a)
  /\ login' = TornDown({rec[b].login : b \in Doomed} \ {NoLogin}, rr, TRUE)
  /\ watcher' = Unwatched(Doomed)
  /\ \/ /\ Duplicate(a)
        /\ rec' = rr
        /\ reg' = [reg EXCEPT ![a] = "none"]
        /\ Publish(a, "refused", wrote)
        /\ Tell(a, "refused")
     \/ /\ ~Duplicate(a)
        /\ rec' = [rr EXCEPT ![a] = [state |-> "pending", login |-> NoLogin]]
        /\ reg' = [reg EXCEPT ![a] = "checking"]
        /\ UNCHANGED <<toolAnswer, shown>>
  /\ UNCHANGED <<running, askVars, blocked, opening, cred, probe>>

\* verify_service_authorized: it may also fail on a good credential.
Verifies(v) == v => cred

\* The rest of _register_pending_authorization, after the pre-check.
RegisterChecked(a, v, wrote) ==
  /\ reg[a] = "checking"
  /\ Verifies(v)
  /\ reg' = [reg EXCEPT ![a] = "none"]
  /\ \/ /\ ~v
        /\ Tell(a, "pending")
        /\ UNCHANGED <<toolAnswer, rec, login, watcher>>
     \/ /\ v /\ MayWrite(a) /\ wrote
        /\ Publish(a, "success", wrote)
        /\ Resolve(a, "success")
        /\ Tell(a, "success")
        /\ UNCHANGED watcher
     \/ /\ v /\ ~(MayWrite(a) /\ wrote)
        /\ Drop({a})
        /\ Publish(a, "refused", wrote)
        /\ Tell(a, "refused")
  /\ UNCHANGED <<running, askVars, blocked, opening, cred, probe>>

-----------------------------------------------------------------------------
OpenLark == {l \in LarkLogins : login[l] = "open"}

\* _authorization_flow_still_usable: a device session is usable when it is
\* the one find_active_session returns.
MayBeUsable(a) == rec[a].login \in Logins /\ login[rec[a].login] = "open"
MustBeUsable(a) == MayBeUsable(a) /\ (rec[a].login \in LarkLogins => Cardinality(OpenLark) = 1)

\* handle_authorization_authorize up to _start_flow; one at a time per request.
Authorize(a) ==
  /\ opening[a] = "no" /\ Published(a)
  /\ PendingLive(a) /\ RunLive(a)
  /\ ~MustBeUsable(a)
  /\ opening' = [opening EXCEPT ![a] = "starting"]
  /\ UNCHANGED <<running, askVars, blocked, toolAnswer, rec, reg, login,
                 cred, watcher, probe, shown>>

\* _start_flow: reuse the open session of the user, or open a login; or fail.
StartFlow(a, l) ==
  /\ opening[a] = "starting"
  /\ l \in IF service[a] = "lark" THEN LarkLogins ELSE KepLogins
  /\ \/ l \in OpenLark /\ UNCHANGED login
     \/ /\ login[l] = "unused"
        /\ login' = [login EXCEPT ![l] = "open"]
  /\ opening' = [opening EXCEPT ![a] = l]
  /\ UNCHANGED <<running, askVars, blocked, toolAnswer, rec, reg, cred,
                 watcher, probe, shown>>

StartFlowFails(a) ==
  /\ opening[a] = "starting"
  /\ opening' = [opening EXCEPT ![a] = "no"]
  /\ UNCHANGED <<running, askVars, blocked, toolAnswer, rec, reg, login,
                 cred, watcher, probe, shown>>

(* The rest of the handler: the record may be gone by now.  Neither the    *)
(* login of a vanished request nor a superseded one is torn down with the  *)
(* owner in hand.                                                          *)
FlowStarted(a) ==
  LET l == opening[a]
      old == rec[a].login
      rr == [rec EXCEPT ![a].login = l] IN
  /\ l \in Logins
  /\ opening' = [opening EXCEPT ![a] = "no"]
  /\ \/ /\ ~PendingLive(a)
        /\ login' = TornDown({l}, rec, FALSE)
        /\ UNCHANGED <<rec, watcher>>
     \/ /\ PendingLive(a)
        /\ rec' = rr
        /\ login' = TornDown({old} \ {l, NoLogin}, rr, FALSE)
        /\ watcher' = [watcher EXCEPT ![a] = IF l \in LarkLogins THEN "sleep" ELSE NoTask]
  /\ UNCHANGED <<running, askVars, blocked, toolAnswer, reg, cred, probe, shown>>
-----------------------------------------------------------------------------
Idle(p) == probe[p] = NoProbe
Snapshot(p, a, stage) ==
  probe' = [probe EXCEPT ![p] = [ask |-> a, login |-> rec[a].login, stage |-> stage]]

\* _watch_authorization_completion wakes: it stops, or starts a probe.
WatchStops(a) ==
  /\ watcher[a] = "sleep"
  /\ ~(PendingLive(a) /\ RunLive(a))
  /\ watcher' = [watcher EXCEPT ![a] = NoTask]
  /\ UNCHANGED <<running, askVars, blocked, toolAnswer, rec, reg, opening,
                 login, cred, probe, shown>>

WatchProbes(a, p) ==
  /\ watcher[a] = "sleep" /\ Idle(p)
  /\ PendingLive(a)
  /\ watcher' = [watcher EXCEPT ![a] = p]
  /\ Snapshot(p, a, "poll")
  /\ UNCHANGED <<running, askVars, blocked, toolAnswer, rec, reg, opening,
                 login, cred, shown>>

\* handle_authorization_confirm.
Confirm(a, p) ==
  /\ Idle(p) /\ Published(a)
  /\ PendingLive(a) /\ RunLive(a)
  /\ Snapshot(p, a, "poll")
  /\ UNCHANGED <<running, askVars, blocked, toolAnswer, rec, reg, opening,
                 login, cred, watcher, shown>>

(* handle_kep_cli_callback: the login process gets the provider's answer,  *)
(* which stores the credential or not, and the request is probed.          *)
KepCallback(a, p) ==
  /\ Idle(p)
  /\ rec[a].login \in KepLogins /\ login[rec[a].login] = "open"
  /\ login' = [login EXCEPT ![rec[a].login] = "granted"]
  /\ cred' \in {cred, TRUE}
  /\ IF PendingLive(a) THEN Snapshot(p, a, "last") ELSE UNCHANGED probe
  /\ UNCHANGED <<running, askVars, blocked, toolAnswer, rec, reg, opening,
                 watcher, shown>>

(* _advance_lark_authorization_session on the snapshot's session: an open  *)
(* one stays open until the user consents (or the exchange fails for the   *)
(* moment), stores the credential, or ends.                                *)
ProbePoll(p) ==
  LET l == probe[p].login
      Stage(s) == probe' = [probe EXCEPT ![p].stage = s] IN
  /\ probe[p].stage = "poll"
  /\ \/ /\ l \in LarkLogins => login[l] = "open"
        /\ Stage("verify")
        /\ UNCHANGED <<login, cred>>
     \/ /\ l \in LarkLogins /\ login[l] = "open"
        /\ login' = [login EXCEPT ![l] = "granted"]
        /\ cred' = TRUE
        /\ Stage("last")
     \/ /\ l \in LarkLogins /\ login[l] = "open"
        /\ login' = [login EXCEPT ![l] = "closed"]
        /\ Stage("ended")
        /\ UNCHANGED cred
     \/ /\ l \in LarkLogins /\ login[l] = "granted"
        /\ Stage("last")
        /\ UNCHANGED <<login, cred>>
     \/ /\ l \in LarkLogins /\ login[l] = "closed"
        /\ Stage("ended")
        /\ UNCHANGED <<login, cred>>
  /\ UNCHANGED <<running, askVars, blocked, toolAnswer, rec, reg, opening,
                 watcher, shown>>

\* Mutant: the provider's word is taken for the credential.
OutcomeTrusting(p, v) ==
  IF probe[p].stage = "last" THEN "success"
  ELSE IF probe[p].stage = "ended" THEN "refused" ELSE "pending"

(* The end of _authorization_probe_and_resolve: the credential is verified *)
(* live, whatever the login said, and the answer goes through the guard.   *)
Outcome(p, v) ==
  CASE probe[p].stage = "ended"               -> "refused"
    [] probe[p].stage # "ended" /\ v          -> "success"
    [] probe[p].stage = "last" /\ ~v          -> "refused"
    [] OTHER                                  -> "pending"
ProbeEnds(p, v, wrote) ==
  LET a == probe[p].ask
      s == Outcome(p, v)
      tries == s # "pending" /\ MayWrite(a)
      writes == tries /\ wrote IN
  /\ probe[p].stage \in {"ended", "verify", "last"}
  /\ Verifies(v) /\ (v => probe[p].stage # "ended")
  /\ tries \/ wrote
  /\ probe' = [probe EXCEPT ![p] = NoProbe]
  /\ \/ /\ writes
        /\ Publish(a, s, wrote)
        /\ Resolve(a, s)
        /\ watcher' = [watcher EXCEPT ![a] =
                         IF s # "success" \/ @ = p THEN NoTask ELSE @]
     \/ /\ ~writes
        /\ UNCHANGED <<toolAnswer, rec, login>>
        /\ watcher' = [watcher EXCEPT ![a] =
                         IF @ # p THEN @ ELSE IF s = "pending" THEN "sleep" ELSE NoTask]
  /\ UNCHANGED <<running, askVars, blocked, reg, opening, cred, shown>>

(* _clear_pending_authorization: the child reports what it read, or that   *)
(* its own deadline passed.  The claim is not evidence, so it may be any.  *)
ShownState(a, claim) ==
  IF Consumed(a) THEN rec[a].state
  ELSE IF claim = "success" THEN "refused" ELSE claim

ChildReports(a, claim) ==
  /\ a \in blocked /\ reg[a] = "none" /\ StreamFree(a)
  /\ RunLive(a)
  /\ blocked' = blocked \ {a}
  /\ Tell(a, ShownState(a, claim))
  /\ Drop({a})
  /\ UNCHANGED <<running, askVars, toolAnswer, reg, opening, cred, probe>>

(* handle_authorization_cancel, and handle_authorization_stop for all the  *)
(* requests of the chat: whether or not their runs still execute.          *)
Cancellable == {a \in Asks : rec[a].state \in {"pending", "late"}}
CancelAll(D, wrote) ==
  /\ D # {}
  /\ Drop(D)
  /\ toolAnswer' = [a \in Asks |-> IF a \in D /\ wrote THEN "refused" ELSE toolAnswer[a]]
  /\ UNCHANGED <<running, askVars, blocked, reg, opening, cred, probe, shown>>

Cancel(a, wrote) == a \in Cancellable /\ Published(a) /\ CancelAll({a}, wrote)
StopChat(wrote) == CancelAll(Cancellable, wrote)

\* _abandon_pending_authorization of a short-circuited ingest run.
AbandonAsk(a) ==
  /\ Present(a) /\ shown[a] = "pending"
  /\ Drop({a})
  /\ UNCHANGED <<running, askVars, blocked, toolAnswer, reg, opening, cred,
                 probe, shown>>

(* The finally block of _stream_run_request, with                          *)
(* _clear_pending_authorizations_for_run: the run's records, its response  *)
(* directory and its child are gone, and its stream is closed.             *)
RunEnd(r) ==
  LET D == {a \in Asks : asker[a] = r} IN
  /\ running[r] = "live"
  /\ running' = [running EXCEPT ![r] = "over"]
  /\ Drop({a \in D : Present(a)})
  /\ toolAnswer' = [a \in Asks |-> IF a \in D THEN "none" ELSE toolAnswer[a]]
  /\ shown' = [a \in Asks |-> IF a \in D THEN "none" ELSE shown[a]]
  /\ blocked' = blocked \ D
  /\ UNCHANGED <<askVars, reg, opening, cred, probe>>

\* Time passes expires_at of a record.
Lapse(a) ==
  /\ rec[a].state = "pending"
  /\ rec' = [rec EXCEPT ![a].state = "late"]
  /\ UNCHANGED <<running, askVars, blocked, toolAnswer, reg, opening, login, cred,
                 watcher, probe, shown>>

AuthNext ==
  \/ \E r \in Runs : RunStart(r) \/ RunEnd(r)
  \/ \E a \in Asks, r \in Runs, s \in Services : Ask(a, r, s)
  \/ \E a \in Asks, wrote \in BOOLEAN :
       RefuseRegistration(a, wrote) \/ RegisterAsk(a, wrote) \/ Cancel(a, wrote)
  \/ \E a \in Asks, v, wrote \in BOOLEAN : RegisterChecked(a, v, wrote)
  \/ \E a \in Asks : \/ Authorize(a) \/ StartFlowFails(a) \/ FlowStarted(a)
                     \/ WatchStops(a) \/ AbandonAsk(a) \/ Lapse(a)
  \/ \E a \in Asks, l \in Logins : StartFlow(a, l)
  \/ \E a \in Asks, p \in Probers : WatchProbes(a, p) \/ Confirm(a, p) \/ KepCallback(a, p)
  \/ \E p \in Probers : ProbePoll(p)
  \/ \E p \in Probers, v, wrote \in BOOLEAN : ProbeEnds(p, v, wrote)
  \/ \E a \in Asks, claim \in Terminal : ChildReports(a, claim)
  \/ \E wrote \in BOOLEAN : StopChat(wrote)

AuthSpec == AuthInit /\ [][AuthNext]_authVars

-----------------------------------------------------------------------------
(* The browser is shown success only for a request the server itself       *)
(* granted, whatever the child claims (_clear_pending_authorization), and  *)
(* no run has two pending requests that could both be granted              *)
(* (_register_pending_authorization).                                      *)
GrantsServerSide ==
  /\ \A a \in Asks : shown[a] = "success" /\ RunLive(a) =>
       cred /\ toolAnswer[a] = "success"
  /\ \A a, b \in Asks : a # b /\ asker[a] = asker[b] => ~(MayWrite(a) /\ MayWrite(b))

(* A tool call is told success only while its run executes, before the     *)
(* deadline of its record and with the credential stored, and an answer of *)
(* success or refusal once given never turns into the other (the guarded   *)
(* write of _write_pending_authorization_response); and grants are the     *)
(* server's own.                                                            *)
AnswersSound ==
  /\ [](AuthTypeOK /\ GrantsServerSide)
  /\ [][\A a \in Asks :
          /\ toolAnswer'[a] = "success" /\ toolAnswer[a] # "success" =>
               toolAnswer[a] = "none" /\ MayWrite(a) /\ cred
          /\ toolAnswer[a] = "success" => toolAnswer'[a] = "success" \/ running'[asker[a]] = "over"]_authVars

(* Tearing one request down never ends a login that the record of another  *)
(* request still refers to (_authorization_flow_referenced_elsewhere), and *)
(* no completion watcher outlives its record (_kill_authorization_flow).   *)
LoginsShared ==
  [][/\ \A a \in Asks : watcher'[a] # NoTask => rec'[a] # NoRecord
     /\ \A l \in Logins : login[l] = "open" /\ login'[l] = "closed" =>
          \/ \A a \in Asks : rec'[a].login # l
          \/ \E p \in Probers : probe[p].login = l /\ probe'[p].stage = "ended"]_authVars

(* A login that was started is torn down when no request wants it any      *)
(* more (webui_broker_server.py:2485): an open login belongs to a record   *)
(* or to an authorize handler still at work.                               *)
LoginsReleased ==
  \A l \in Logins : login[l] = "open" =>
    \E a \in Asks : rec[a].login = l \/ opening[a] = l
=============================================================================
