------------------------------ MODULE RelayCard ------------------------------
(***************************************************************************)
(* Button cards of the local-agent relay (agent_relay.py,                  *)
(* agent_relay_store.py): a client posts a card and retries the post, the  *)
(* user clicks its buttons, the client updates or closes it, it expires,   *)
(* and its reply window is opened and shut.  All cards belong to one       *)
(* token.  The handlers share one event loop and the store's calls are     *)
(* atomic in it; what is awaited is the call to Feishu.                    *)
(***************************************************************************)
EXTENDS Integers, FiniteSets

CONSTANTS Cards,       \* idempotency keys
          Posts,       \* POST /v1/cards requests
          Patches,     \* PATCH requests: of the card, or of its message
          Contents,    \* what a client may have a card show
          Actions,
          Reasons,
          Plain,       \* the look that the relay composes for a closed card
          Nothing

ASSUME RelayAssumption == Nothing \notin Cards \cup Actions \cup Contents \cup Reasons /\ Plain \notin Contents

VARIABLES
    active,                     \* the token is not revoked
    cardStatus, action, reason,     \* relay_cards
    known,                      \* cards whose message_id is stored
    cached,                     \* content_payload
    window,                     \* the relay_messages row of a card: none, open, shut
    cardDue,                        \* cards whose expires_at has passed
    messages, cardShown, everShown, \* at Feishu: messages of a card; what it shows, ever showed
    post, patch,                \* the requests
    recorded                    \* clicks that were answered with Recorded

storeVars == <<active, cardStatus, action, reason, known, cached, window>>
feishuVars == <<messages, cardShown, everShown>>
cardVars == <<storeVars, cardDue, feishuVars, post, patch, recorded>>

CardStatuses == {"none", "sending", "pending", "actioned", "closed", "expired", "failed"}
Final == {"actioned", "closed", "expired", "failed"}
Flights == {"idle", "flying", "landed", "over", "late", "lost"}

PostSet == [at : Flights, card : Cards \cup {Nothing}]
PatchSet == [at : Flights, card : Cards \cup {Nothing}, look : Contents \cup {Plain, Nothing}]

CardTypeOK ==
    /\ active \in BOOLEAN
    /\ cardStatus \in [Cards -> CardStatuses]
    /\ action \in [Cards -> Actions \cup {Nothing}]
    /\ reason \in [Cards -> Reasons \cup {Nothing}]
    /\ known \subseteq Cards /\ cardDue \subseteq Cards
    /\ cached \in [Cards -> Contents \cup {Nothing}]
    /\ window \in [Cards -> {"none", "open", "shut"}]
    /\ messages \in [Cards -> Nat]
    /\ cardShown \in [Cards -> Contents \cup {Plain, Nothing}]
    /\ everShown \in [Cards -> SUBSET (Contents \cup {Plain})]
    /\ post \in [Posts -> PostSet] /\ patch \in [Patches -> PatchSet]
    /\ recorded \in [Cards -> SUBSET Actions]

CardInit ==
    /\ active = TRUE
    /\ cardStatus = [c \in Cards |-> "none"]
    /\ action = [c \in Cards |-> Nothing]
    /\ reason = [c \in Cards |-> Nothing]
    /\ known = {} /\ cardDue = {}
    /\ cached = [c \in Cards |-> Nothing]
    /\ window = [c \in Cards |-> "none"]
    /\ messages = [c \in Cards |-> 0]
    /\ cardShown = [c \in Cards |-> Nothing]
    /\ everShown = [c \in Cards |-> {}]
    /\ post = [p \in Posts |-> [at |-> "idle", card |-> Nothing]]
    /\ patch = [u \in Patches |-> [at |-> "idle", card |-> Nothing, look |-> Nothing]]
    /\ recorded = [c \in Cards |-> {}]

-----------------------------------------------------------------------------
(* POST /v1/cards. *)

\* register_card_message; (token_id, idempotency_key) is unique, the failure is logged.
Register(c) ==
    \/ window' = [window EXCEPT ![c] = IF @ = "none" THEN "open" ELSE @]
    \/ UNCHANGED window

\* create_card up to its send: a new or still unsent card is sent (again), any other is
\* answered from the row, and its window healed.
Post(p, c) ==
    /\ active
    /\ post[p].at = "idle"
    /\ IF cardStatus[c] \in {"none", "sending"}
       THEN /\ cardStatus' = [cardStatus EXCEPT ![c] = "sending"]
            /\ post' = [post EXCEPT ![p] = [at |-> "flying", card |-> c]]
            /\ UNCHANGED window
       ELSE /\ post' = [post EXCEPT ![p] = [at |-> "over", card |-> c]]
            /\ IF c \in known THEN Register(c) ELSE UNCHANGED window
            /\ UNCHANGED cardStatus
    /\ UNCHANGED <<active, action, reason, known, cached, cardDue, feishuVars, patch, recorded>>

\* Feishu takes the card; it knows a uuid it has seen.  A call that timed out runs on in
\* its thread.
PostLands(p) ==
    LET c == post[p].card IN
    /\ post[p].at \in {"flying", "late"}
    /\ post' = [post EXCEPT ![p].at = IF @ = "flying" THEN "landed" ELSE "over"]
    /\ messages' = [messages EXCEPT ![c] = 1]
    /\ UNCHANGED <<storeVars, cardDue, cardShown, everShown, patch, recorded>>

\* card_state turns a due pending card into an expired one.
Lapsed(st, c) == IF st = "pending" /\ c \in cardDue THEN "expired" ELSE st

\* Mutant: an answer is one whatever came of the call.
PostAnsweredBlind(p) ==
    LET c == post[p].card IN
    /\ post[p].at \in {"flying", "landed"}
    /\ post' = [post EXCEPT ![p].at = "over"]
    /\ cardStatus' = [cardStatus EXCEPT ![c] = Lapsed(IF @ = "sending" THEN "pending" ELSE @, c)]
    /\ known' = IF cardStatus[c] = "sending" THEN known \cup {c} ELSE known
    /\ Register(c)
    /\ UNCHANGED <<active, action, reason, cached, cardDue, feishuVars, patch, recorded>>

\* The answer: finish_card, register_card_message, card_state.
PostAnswered(p) ==
    LET c == post[p].card IN
    /\ post[p].at = "landed"
    /\ post' = [post EXCEPT ![p].at = "over"]
    /\ cardStatus' = [cardStatus EXCEPT ![c] = Lapsed(IF @ = "sending" THEN "pending" ELSE @, c)]
    /\ known' = IF cardStatus[c] = "sending" THEN known \cup {c} ELSE known
    /\ Register(c)
    /\ UNCHANGED <<active, action, reason, cached, cardDue, feishuVars, patch, recorded>>

\* Timeout, rate limit, upstream error: the row stays.
PostFails(p) ==
    /\ post[p].at \in {"flying", "landed"}
    /\ post' = [post EXCEPT ![p].at = IF @ = "flying" THEN "late" ELSE "over"]
    /\ UNCHANGED <<storeVars, cardDue, feishuVars, patch, recorded>>

\* Mutant: whatever its status, the card has failed.
PostRejectedBlind(p) ==
    /\ post[p].at \in {"flying", "landed"}
    /\ post' = [post EXCEPT ![p].at = "over"]
    /\ cardStatus' = [cardStatus EXCEPT ![post[p].card] = "failed"]
    /\ UNCHANGED <<active, action, reason, known, cached, window, cardDue, feishuVars, patch, recorded>>

\* Feishu rejects the card, or gives no message_id: fail_card.
PostRejected(p) ==
    /\ post[p].at \in {"flying", "landed"}
    /\ post' = [post EXCEPT ![p].at = "over"]
    /\ cardStatus' = [cardStatus EXCEPT ![post[p].card] = IF @ = "sending" THEN "failed" ELSE @]
    /\ UNCHANGED <<active, action, reason, known, cached, window, cardDue, feishuVars, patch, recorded>>

-----------------------------------------------------------------------------
(* The user. *)

\* action_card's guard.
Accepts(c) == active /\ cardStatus[c] = "pending" /\ c \notin cardDue /\ c \in known

\* A click: the first is recorded, unless its two seconds are over the user is told so; any
\* other is answered with the cached content, which the user then sees.
CardClick(c, a) ==
    /\ messages[c] > 0
    /\ IF Accepts(c)
       THEN /\ cardStatus' = [cardStatus EXCEPT ![c] = "actioned"]
            /\ action' = [action EXCEPT ![c] = a]
            /\ recorded' \in {recorded, [recorded EXCEPT ![c] = @ \cup {a}]}
       ELSE UNCHANGED <<cardStatus, action, recorded>>
    /\ UNCHANGED <<active, reason, known, cached, window, cardDue, feishuVars, post, patch>>

-----------------------------------------------------------------------------
(* PATCH /v1/cards/{id}, PATCH /v1/messages/{id}. *)

\* close_card's guard.
Closes(c) == cardStatus[c] = "pending" /\ c \notin cardDue

\* close_card with a reason, content or both: the row is updated, then Feishu is called.
Patch(u, c, why, look) ==
    LET st == IF why # Nothing /\ Closes(c) THEN "closed" ELSE Lapsed(cardStatus[c], c)
        again == cardStatus[c] = "closed" /\ reason[c] = why
        goesOn == c \in known /\ (why = Nothing \/ Closes(c) \/ again) IN
    /\ active
    /\ patch[u].at = "idle"
    /\ cardStatus[c] # "none"
    /\ why # Nothing \/ look \in Contents
    /\ look \in Contents \cup {Plain}
    /\ cardStatus' = [cardStatus EXCEPT ![c] = st]
    /\ reason' = [reason EXCEPT ![c] = IF why # Nothing /\ Closes(c) THEN why ELSE @]
    /\ patch' = [patch EXCEPT ![u] = [at |-> IF goesOn THEN "flying" ELSE "over", card |-> c, look |-> look]]
    /\ UNCHANGED <<active, action, known, cached, window, cardDue, feishuVars, post, recorded>>

\* update_message with content: the card is found as a message, its status is not looked at.
UpdateMessage(u, c, look) ==
    /\ active
    /\ patch[u].at = "idle"
    /\ window[c] # "none"
    /\ patch' = [patch EXCEPT ![u] = [at |-> "flying", card |-> c, look |-> look]]
    /\ UNCHANGED <<storeVars, cardDue, feishuVars, post, recorded>>

\* Feishu changes the card, perhaps after the handler gave up.
PatchLands(u) ==
    LET c == patch[u].card IN
    /\ patch[u].at \in {"flying", "late"}
    /\ patch' = [patch EXCEPT ![u].at = IF @ = "flying" THEN "landed" ELSE "lost"]
    /\ cardShown' = [cardShown EXCEPT ![c] = patch[u].look]
    /\ everShown' = [everShown EXCEPT ![c] = @ \cup {patch[u].look}]
    /\ UNCHANGED <<storeVars, cardDue, messages, post, recorded>>

\* Feishu answers: content is cached.
PatchAnswered(u) ==
    LET c == patch[u].card IN
    /\ patch[u].at = "landed"
    /\ patch' = [patch EXCEPT ![u].at = "over"]
    /\ cached' = [cached EXCEPT ![c] = IF patch[u].look \in Contents THEN patch[u].look ELSE @]
    /\ UNCHANGED <<active, cardStatus, action, reason, known, window, cardDue, feishuVars, post, recorded>>

\* The handler gives up, be the card changed or not.
PatchFails(u) ==
    /\ patch[u].at \in {"flying", "landed"}
    /\ patch' = [patch EXCEPT ![u].at = IF @ = "flying" THEN "late" ELSE "lost"]
    /\ UNCHANGED <<storeVars, cardDue, feishuVars, post, recorded>>

\* close_reply_window.
ShutWindow(c) ==
    /\ active
    /\ window[c] = "open" /\ c \notin cardDue
    /\ window' = [window EXCEPT ![c] = "shut"]
    /\ UNCHANGED <<active, cardStatus, action, reason, known, cached, cardDue, feishuVars, post, patch, recorded>>

-----------------------------------------------------------------------------
(* Time, reads and the token. *)

CardDue(c) ==
    /\ cardStatus[c] # "none"
    /\ c \notin cardDue
    /\ cardDue' = cardDue \cup {c}
    /\ UNCHANGED <<storeVars, feishuVars, post, patch, recorded>>

\* GET /v1/cards/{id}.
GetCard(c) ==
    /\ active
    /\ cardStatus[c] = "pending" /\ c \in cardDue
    /\ cardStatus' = [cardStatus EXCEPT ![c] = "expired"]
    /\ UNCHANGED <<active, action, reason, known, cached, window, cardDue, feishuVars, post, patch, recorded>>

\* prune, every hour.
PruneCards ==
    /\ \E c \in Cards : Lapsed(cardStatus[c], c) # cardStatus[c]
    /\ cardStatus' = [c \in Cards |-> Lapsed(cardStatus[c], c)]
    /\ UNCHANGED <<active, action, reason, known, cached, window, cardDue, feishuVars, post, patch, recorded>>

Revoke ==
    /\ active
    /\ active' = FALSE
    /\ UNCHANGED <<cardStatus, action, reason, known, cached, window, cardDue, feishuVars, post, patch, recorded>>

-----------------------------------------------------------------------------
CardNext ==
    \/ \E p \in Posts :
          \/ \E c \in Cards : Post(p, c)
          \/ PostLands(p) \/ PostAnswered(p) \/ PostFails(p) \/ PostRejected(p)
    \/ \E u \in Patches :
          \/ \E c \in Cards, why \in Reasons \cup {Nothing}, look \in Contents \cup {Plain} : Patch(u, c, why, look)
          \/ \E c \in Cards, look \in Contents : UpdateMessage(u, c, look)
          \/ PatchLands(u) \/ PatchAnswered(u) \/ PatchFails(u)
    \/ \E c \in Cards :
          \/ \E a \in Actions : CardClick(c, a)
          \/ ShutWindow(c) \/ CardDue(c) \/ GetCard(c)
    \/ PruneCards \/ Revoke

CardSpec == CardInit /\ [][CardNext]_cardVars

-----------------------------------------------------------------------------
(* Properties. *)

Diagram ==
    {<<"none", "sending">>, <<"sending", "pending">>, <<"sending", "expired">>, <<"sending", "failed">>}
        \cup {<<"pending", st>> : st \in {"actioned", "closed", "expired"}}

\* Whatever posts, clicks, closes and reads interleave, a card moves along the contract's
\* state diagram, and what is final stays (sending to expired is finish_card and
\* card_state in one handler); and a reply window that was shut is not opened again by a
\* replayed post.
EndsStay ==
    [][\A c \in Cards :
          /\ cardStatus'[c] # cardStatus[c] => <<cardStatus[c], cardStatus'[c]>> \in Diagram
          /\ window[c] = "shut" => window'[c] = "shut"]_<<cardStatus, window>>

\* A click that the user was told is recorded is what the client reads, and a card has an
\* action or a close reason, never both.
ClickKept ==
    \A c \in Cards :
        /\ recorded[c] \subseteq {action[c]}
        /\ action[c] # Nothing <=> cardStatus[c] = "actioned"
        /\ reason[c] # Nothing <=> cardStatus[c] = "closed"

\* However often the client retries, the user gets a card once.
OneMessage == \A c \in Cards : messages[c] <= 1

\* A click on a card that the store lists as pending finds the card's message.
PendingDelivered == \A c \in Cards : cardStatus[c] \in {"pending", "actioned", "closed", "expired"} => messages[c] > 0 /\ c \in known

\* A post and its retries put one message in front of the user, and a card is open to
\* clicks only once it is there.
PostedOnce == OneMessage /\ PendingDelivered

\* What a repeated click may be answered with was on the card once.
ReplayWasShown == \A c \in Cards : cached[c] # Nothing => cached[c] \in everShown[c]

\* What a click is told holds: its action is kept, a look it is answered with is one the
\* card had, and the card it is made on was posted once.
ClicksHonoured == ClickKept /\ ReplayWasShown /\ PostedOnce

\* Not kept by the code, and in no configuration (README, section 5): what a repeated
\* click is answered with is what the card shows, if every update was answered.
ReplayIsLatest ==
    \A c \in Cards :
        (cached[c] # Nothing /\ \A u \in Patches : patch[u].card = c => patch[u].at = "over") => cached[c] = cardShown[c]
=============================================================================
