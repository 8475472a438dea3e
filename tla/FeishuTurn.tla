----------------------------- MODULE FeishuTurn -----------------------------
(***************************************************************************)
(* The turns of one user and the conversation history they share: what     *)
(* execute_admitted_feishu_run does once a message was admitted, how a     *)
(* newer message, /stop and /new interrupt it, and what the history (a     *)
(* cache in memory in front of the SessionStore) holds afterwards.         *)
(*                                                                         *)
(* A turn is a coroutine: an action is the stretch between two awaits.  A  *)
(* chat stands for an inflight key.  Two switches are set when the process *)
(* starts: strict (STRICT_CONTEXT), which gives every surface a history of *)
(* its own instead of one for all, and streaming (feishu_full), whether    *)
(* the adapter has the streaming interface.  Rows are kept in the order    *)
(* they were appended.                                                     *)
(***************************************************************************)
EXTENDS Integers, Sequences, FiniteSets

CONSTANTS Turns, Chats, Hists,
          Shared,      \* the history key of all surfaces by default
          Own,         \* with STRICT_CONTEXT: the history key of a chat
          Web, Cron,   \* and those the WebUI and cron use for this user
          MaxHist,     \* _SESSION_HISTORY_MAX
          MaxNews, MaxMirrors, MaxCrashes,   \* bounds of the runs
          NoTurn

ASSUME TurnAssumption ==
    /\ Own \in [Chats -> Hists]
    /\ {Shared, Web, Cron} \subseteq Hists
    /\ MaxHist \in Nat \ {0}
    /\ {MaxNews, MaxMirrors, MaxCrashes} \subseteq Nat
    /\ NoTurn \notin Turns \cup Chats

\* SessionScope folds channel, chat and thread into the key of a surface's own history.
ASSUME OwnAssumption ==
    \A c \in Chats : /\ Own[c] \notin {Web, Cron}
                    /\ \A d \in Chats : Own[c] = Own[d] => c = d

VARIABLES
    turnAt,        \* where a turn is
    chat,      \* the chat of a turn
    prior,     \* the conversation handed to the agent
    cancel,    \* task.cancel(): not asked, pending, or swallowed by a handler
    inflight,  \* _user_inflight_tasks
    keyed,     \* _user_inflight_history_keys has the chat
    suppress,  \* _suppress_interruption_marker_tasks
    hist,      \* _session_history, _session_loaded and the store, by key
    pristine,  \* history keys reset since the last turn began on them
    strict, streaming,
    news, mirrors, crashes

taskVars == <<turnAt, chat, prior, cancel>>
mapVars  == <<inflight, keyed, suppress>>
switches == <<strict, streaming>>
counters == <<news, mirrors, crashes>>
turnVars == <<taskVars, mapVars, hist, pristine, switches, counters>>

Live == {"starting", "running", "winding", "delivering"}
Ended == {"answered", "silent", "interrupted", "failed", "blocked"}
RowKinds == {"user", "answer", "interrupted", "failed", "retry", "mirror"}
Row(k, t) == [kind |-> k, of |-> t]
Rows == [kind : RowKinds, of : Turns \cup {NoTurn}]

TurnTypeOK ==
    /\ turnAt \in [Turns -> {"new", "dead"} \cup Live \cup Ended]
    /\ chat \in [Turns -> Chats \cup {NoTurn}]
    /\ prior \in [Turns -> Seq(Rows)]
    /\ \A t \in Turns : Len(prior[t]) <= MaxHist
    /\ cancel \in [Turns -> {"no", "pending", "swallowed"}]
    /\ inflight \in [Chats -> Turns \cup {NoTurn}]
    /\ keyed \in [Chats -> BOOLEAN]
    /\ suppress \subseteq Turns
    /\ hist \in [Hists -> [cache : Seq(Rows), loaded : BOOLEAN, store : Seq(Rows)]]
    /\ pristine \subseteq Hists
    /\ {strict, streaming} \subseteq BOOLEAN
    /\ <<news, mirrors, crashes>> \in (0..MaxNews) \X (0..MaxMirrors) \X (0..MaxCrashes)

Cleared == [cache |-> <<>>, loaded |-> FALSE, store |-> <<>>]

TurnInit ==
    /\ turnAt = [t \in Turns |-> "new"]
    /\ chat = [t \in Turns |-> NoTurn]
    /\ prior = [t \in Turns |-> <<>>]
    /\ cancel = [t \in Turns |-> "no"]
    /\ inflight = [c \in Chats |-> NoTurn]
    /\ keyed = [c \in Chats |-> FALSE]
    /\ suppress = {}
    /\ hist = [k \in Hists |-> Cleared]
    /\ pristine = {}
    /\ strict \in BOOLEAN /\ streaming \in BOOLEAN
    /\ news = 0 /\ mirrors = 0 /\ crashes = 0

-----------------------------------------------------------------------------
(* The history. *)

\* SessionScope.history_key.
HistOf(c) == IF strict THEN Own[c] ELSE Shared
SideHist(k) == IF strict THEN k ELSE Shared

\* _trim_history and load_recent: the last rows.
Recent(s) == IF Len(s) <= MaxHist THEN s ELSE SubSeq(s, Len(s) - MaxHist + 1, Len(s))

\* Mutant: a loaded key is read from the store again only when the cache is empty.
LoadKeepingCache(h) ==
    IF h.loaded THEN h
    ELSE [h EXCEPT !.loaded = TRUE, !.cache = IF @ # <<>> THEN @ ELSE Recent(h.store)]

\* _load_history: the first read of a key fills the cache from the store.
Load(h) ==
    IF h.loaded THEN h
    ELSE [h EXCEPT !.loaded = TRUE,
                   !.cache = IF h.store = <<>> THEN @ ELSE Recent(h.store)]

\* _persist_history_message.
Persist(h, row) ==
    [h EXCEPT !.cache = Recent(Append(@, row)), !.store = Append(@, row)]

\* _persist_interruption_marker, _persist_failure_marker: not twice in a row.
Mark(h, kind, t) ==
    IF h.cache # <<>> /\ h.cache[Len(h.cache)].kind = kind THEN h
    ELSE Persist(h, Row(kind, t))

-----------------------------------------------------------------------------
(* A turn. *)

\* Load the conversation, persist the request, record the history key.
Begun(t, c, h, mine) ==
    LET read == Load(h) IN
    /\ prior' = [prior EXCEPT ![t] = read.cache]
    /\ hist' = [hist EXCEPT ![HistOf(c)] = Persist(read, Row("user", t))]
    /\ keyed' = [keyed EXCEPT ![c] = @ \/ mine]
    /\ pristine' = pristine \ {HistOf(c)}
    /\ turnAt' = [turnAt EXCEPT ![t] = "running"]

\* The turn the new message of a chat interrupts.
Replaced(c) ==
    LET prev == inflight[c] IN IF prev # NoTurn /\ turnAt[prev] \in Live THEN {prev} ELSE {}

\* Mutant: the newer message cancels the older turn without a marker.
ArriveUnmarked(t, c) ==
    /\ turnAt[t] = "new"
    /\ chat' = [chat EXCEPT ![t] = c]
    /\ cancel' = [r \in Turns |-> IF r \in Replaced(c) THEN "pending" ELSE cancel[r]]
    /\ suppress' = suppress \cup Replaced(c)
    /\ inflight' = [inflight EXCEPT ![c] = t]
    /\ IF streaming
       THEN /\ turnAt' = [turnAt EXCEPT ![t] = "starting"]
            /\ UNCHANGED <<hist, prior, keyed, pristine>>
       ELSE Begun(t, c, hist[HistOf(c)], TRUE)
    /\ UNCHANGED <<switches, counters>>

\* An admitted message: interrupt the chat's turn, take its place, and (without
\* the streaming interface) begin at once.
Arrive(t, c) ==
    LET k == HistOf(c)
        h == IF Replaced(c) # {} /\ keyed[c] THEN Mark(hist[k], "interrupted", inflight[c])
             ELSE hist[k]
    IN  /\ turnAt[t] = "new"
        /\ chat' = [chat EXCEPT ![t] = c]
        /\ cancel' = [r \in Turns |-> IF r \in Replaced(c) THEN "pending" ELSE cancel[r]]
        /\ suppress' = suppress \cup Replaced(c)
        /\ inflight' = [inflight EXCEPT ![c] = t]
        /\ IF streaming
           THEN /\ turnAt' = [turnAt EXCEPT ![t] = "starting"]
                /\ hist' = [hist EXCEPT ![k] = h]
                /\ UNCHANGED <<prior, keyed, pristine>>
           ELSE Begun(t, c, h, TRUE)
        /\ UNCHANGED <<switches, counters>>

\* A vision-blocked message is answered without a task of its own.
VisionBlocked(t, c) ==
    LET k == HistOf(c) IN
    /\ turnAt[t] = "new"
    /\ chat' = [chat EXCEPT ![t] = c]
    /\ hist' = [hist EXCEPT ![k] = Persist(Persist(@, Row("user", t)), Row("answer", t))]
    /\ turnAt' = [turnAt EXCEPT ![t] = "blocked"]
    /\ pristine' = pristine \ {k}
    /\ UNCHANGED <<prior, cancel, mapVars, switches, counters>>

\* on_processing_start returned or raised.
Started(t) ==
    LET c == chat[t] IN
    /\ turnAt[t] = "starting"
    /\ cancel[t] = "no"
    /\ Begun(t, c, hist[HistOf(c)], inflight[c] = t)
    /\ UNCHANGED <<chat, cancel, inflight, suppress, switches, counters>>

\* Cancelled inside on_processing_start: outside the try block, so nothing of the
\* finally block runs.
StartCancelled(t) ==
    /\ turnAt[t] = "starting"
    /\ cancel[t] = "pending"
    /\ turnAt' = [turnAt EXCEPT ![t] = "interrupted"]
    /\ UNCHANGED <<chat, prior, cancel, mapVars, hist, pristine, switches, counters>>

\* The finally block: only the current task of the chat clears the maps.
Finally(t) ==
    LET c == chat[t] IN
    /\ inflight' = IF inflight[c] = t THEN [inflight EXCEPT ![c] = NoTurn] ELSE inflight
    /\ keyed' = IF inflight[c] = t THEN [keyed EXCEPT ![c] = FALSE] ELSE keyed
    /\ suppress' = suppress \ {t}

\* The agent's stream ended; the card's idle heartbeat is cancelled and awaited.
AgentEnds(t) ==
    /\ turnAt[t] = "running"
    /\ cancel[t] # "pending"
    /\ turnAt' = [turnAt EXCEPT ![t] = IF streaming THEN "winding" ELSE "delivering"]
    /\ UNCHANGED <<chat, prior, cancel, mapVars, hist, pristine, switches, counters>>

\* _stop_idle_card_heartbeat catches every CancelledError, the heartbeat's as
\* well as one meant for the turn.
HeartbeatStopped(t) ==
    /\ turnAt[t] = "winding"
    /\ turnAt' = [turnAt EXCEPT ![t] = "delivering"]
    /\ cancel' = [cancel EXCEPT ![t] = IF @ = "pending" THEN "swallowed" ELSE @]
    /\ UNCHANGED <<chat, prior, mapVars, hist, pristine, switches, counters>>

\* The answer went out: persist it, unless it is empty.
Answer(t, silent) ==
    LET k == HistOf(chat[t]) IN
    /\ turnAt[t] = "delivering"
    /\ cancel[t] # "pending"
    /\ hist' = IF silent THEN hist ELSE [hist EXCEPT ![k] = Persist(@, Row("answer", t))]
    /\ turnAt' = [turnAt EXCEPT ![t] = IF silent THEN "silent" ELSE "answered"]
    /\ Finally(t)
    /\ UNCHANGED <<chat, prior, cancel, pristine, switches, counters>>

\* The CancelledError reaches the handler of the turn.
Cancelled(t) ==
    LET k == HistOf(chat[t]) IN
    /\ turnAt[t] \in {"running", "delivering"}
    /\ cancel[t] = "pending"
    /\ hist' = IF t \in suppress THEN hist ELSE [hist EXCEPT ![k] = Mark(@, "interrupted", t)]
    /\ turnAt' = [turnAt EXCEPT ![t] = "interrupted"]
    /\ Finally(t)
    /\ UNCHANGED <<chat, prior, cancel, pristine, switches, counters>>

\* RunRejected: a failure marker and the retry message.
Rejected(t) ==
    LET k == HistOf(chat[t]) IN
    /\ turnAt[t] = "running"
    /\ cancel[t] # "pending"
    /\ hist' = [hist EXCEPT ![k] = Persist(Mark(@, "failed", t), Row("retry", t))]
    /\ turnAt' = [turnAt EXCEPT ![t] = "failed"]
    /\ Finally(t)
    /\ UNCHANGED <<chat, prior, cancel, pristine, switches, counters>>

\* Any other exception.
Failed(t) ==
    LET k == HistOf(chat[t]) IN
    /\ turnAt[t] \in {"running", "delivering"}
    /\ cancel[t] # "pending"
    /\ hist' = [hist EXCEPT ![k] = Mark(@, "failed", t)]
    /\ turnAt' = [turnAt EXCEPT ![t] = "failed"]
    /\ Finally(t)
    /\ UNCHANGED <<chat, prior, cancel, pristine, switches, counters>>

\* The task is cancelled by its owner (the gateway stops it).
Shutdown(t) ==
    /\ turnAt[t] \in Live
    /\ cancel[t] = "no"
    /\ cancel' = [cancel EXCEPT ![t] = "pending"]
    /\ UNCHANGED <<turnAt, chat, prior, mapVars, hist, pristine, switches, counters>>

-----------------------------------------------------------------------------
(* Commands and other surfaces. *)

\* _cancel_inflight_task.
CancelInflight(c) ==
    /\ inflight' = [inflight EXCEPT ![c] = NoTurn]
    /\ keyed' = [keyed EXCEPT ![c] = FALSE]
    /\ suppress' = suppress \cup Replaced(c)
    /\ cancel' = [r \in Turns |-> IF r \in Replaced(c) THEN "pending" ELSE cancel[r]]

\* /stop.
Stop(c) ==
    LET k == HistOf(c) IN
    /\ inflight[c] # NoTurn
    /\ CancelInflight(c)
    /\ hist' = IF Replaced(c) # {} /\ keyed[c]
               THEN [hist EXCEPT ![k] = Mark(@, "interrupted", inflight[c])]
               ELSE hist
    /\ UNCHANGED <<turnAt, chat, prior, pristine, switches, counters>>

\* Mutant: /new forgets the turn in flight.
NewKeepingTurn(c) ==
    /\ news < MaxNews
    /\ news' = news + 1
    /\ hist' = [hist EXCEPT ![HistOf(c)] = Cleared]
    /\ pristine' = pristine \cup {HistOf(c)}
    /\ UNCHANGED <<turnAt, chat, prior, cancel, mapVars, switches, mirrors, crashes>>

\* /new: cancel the chat's turn without a marker, then clear the history.
New(c) ==
    /\ news < MaxNews
    /\ news' = news + 1
    /\ CancelInflight(c)
    /\ hist' = [hist EXCEPT ![HistOf(c)] = Cleared]
    /\ pristine' = pristine \cup {HistOf(c)}
    /\ UNCHANGED <<turnAt, chat, prior, switches, mirrors, crashes>>

\* /new from the WebUI clears the history only.
WebNew ==
    /\ news < MaxNews
    /\ news' = news + 1
    /\ hist' = [hist EXCEPT ![SideHist(Web)] = Cleared]
    /\ pristine' = pristine \cup {SideHist(Web)}
    /\ UNCHANGED <<taskVars, mapVars, switches, mirrors, crashes>>

\* A cron delivery is mirrored into the owner's history.
Mirror ==
    /\ mirrors < MaxMirrors
    /\ mirrors' = mirrors + 1
    /\ hist' = [hist EXCEPT ![SideHist(Cron)] = Persist(@, Row("mirror", NoTurn))]
    /\ UNCHANGED <<taskVars, mapVars, pristine, switches, news, crashes>>

\* The process dies and restarts: only the store survives.
Crash ==
    /\ crashes < MaxCrashes
    /\ crashes' = crashes + 1
    /\ turnAt' = [t \in Turns |-> IF turnAt[t] \in Live THEN "dead" ELSE turnAt[t]]
    /\ inflight' = [c \in Chats |-> NoTurn]
    /\ keyed' = [c \in Chats |-> FALSE]
    /\ suppress' = {}
    /\ hist' = [k \in Hists |-> [cache |-> <<>>, loaded |-> FALSE, store |-> hist[k].store]]
    /\ UNCHANGED <<chat, prior, cancel, pristine, switches, news, mirrors>>

-----------------------------------------------------------------------------
TurnStep(t) ==
    \/ Started(t) \/ StartCancelled(t) \/ AgentEnds(t) \/ HeartbeatStopped(t)
    \/ \E silent \in BOOLEAN : Answer(t, silent)
    \/ Cancelled(t) \/ Rejected(t) \/ Failed(t) \/ Shutdown(t)

TurnNext ==
    \/ \E t \in Turns, c \in Chats : Arrive(t, c) \/ VisionBlocked(t, c)
    \/ \E t \in Turns : TurnStep(t)
    \/ \E c \in Chats : Stop(c) \/ New(c)
    \/ WebNew \/ Mirror \/ Crash

TurnSpec == TurnInit /\ [][TurnNext]_turnVars

-----------------------------------------------------------------------------
(* Properties. *)

\* Every turn nobody asked to stop is the one its chat's entry names: the next
\* message, /stop and /status reach it, and no chat has two of them.
InflightReachable ==
    \A t \in Turns : turnAt[t] \in Live /\ cancel[t] = "no" => inflight[chat[t]] = t

\* A loaded cache is the end of the stored history, so what the agent is told
\* does not depend on whether the process was restarted.
CacheMatchesStore ==
    \A k \in Hists : hist[k].loaded => hist[k].cache = Recent(hist[k].store)

\* One interruption writes one marker, although two tasks could write it.
OneMarkerPerTurn ==
    \A k \in Hists, t \in Turns :
        Cardinality({i \in DOMAIN hist[k].store : hist[k].store[i] = Row("interrupted", t)}) <= 1

\* The request of an interrupted or failed turn is followed by a marker or an
\* answer before the next turn's request in its chat, so that the agent can resume it.
NoDanglingRequest ==
    \A k \in Hists :
        LET s == hist[k].store IN
        \A i, j \in DOMAIN s :
            /\ i < j
            /\ s[i].kind = "user" /\ s[j].kind = "user"
            /\ chat[s[i].of] = chat[s[j].of]
            /\ turnAt[s[i].of] \notin {"silent", "dead"}
            /\ turnAt[s[j].of] # "blocked"
            => \E m \in i..j : s[m].kind # "user"

\* With STRICT_CONTEXT, and without the streaming card, the first turn after a reset
\* starts with an empty conversation:
\* no turn that was in flight writes into the history afterwards.
FreshAfterReset ==
    [][\A t \in Turns :
          strict /\ ~streaming /\ turnAt[t] # "running" /\ turnAt'[t] = "running" /\ HistOf(chat'[t]) \in pristine
              => prior'[t] = <<>>]_turnVars

\* Without the streaming card a turn that was told to stop does not answer any more.
StoppedNeverAnswers ==
    \A t \in Turns : turnAt[t] = "answered" /\ ~streaming => cancel[t] = "no"

\* A turn can be stopped: it is found, what was stopped does not answer, and it leaves one
\* marker in the history, before the next request.
InterruptionMarked ==
    InflightReachable /\ StoppedNeverAnswers /\ OneMarkerPerTurn /\ NoDanglingRequest

\* What the agent is told of earlier turns is what happened, stops and restarts included.
HistoryKept == CacheMatchesStore /\ InterruptionMarked

\* Not kept by the code, and in no configuration (README, section 5): the request of
\* every turn that ended is in the history, unless it was reset away, so that an
\* interrupted request can be resumed.
RequestKept ==
    \A t \in Turns :
        turnAt[t] \in Ended /\ news = 0 =>
            \E i \in DOMAIN hist[HistOf(chat[t])].store :
                hist[HistOf(chat[t])].store[i] = Row("user", t)
=============================================================================
