--------------------------- MODULE EndpointProofs ---------------------------
(***************************************************************************)
(* Theorems about what is reached over HTTP: button cards, enrolments,     *)
(* desktops, their viewers, and ingest submissions.                        *)
(***************************************************************************)
EXTENDS RelayCard, RelayEnroll, Desktop, DesktopViewer, Ingest, FiniteSetTheorems, TLAPS

-----------------------------------------------------------------------------
(* Cards. *)

\* What a request that called Feishu has left there.
RequestsKnown ==
    /\ \A p \in Posts : /\ post[p].at \in {"flying", "landed", "late"} => post[p].card \in Cards
                        /\ post[p].at = "landed" => messages[post[p].card] > 0
    /\ \A u \in Patches : /\ patch[u].at \in {"flying", "landed", "late"} =>
                                patch[u].card \in Cards /\ patch[u].look \in Contents \cup {Plain}
                          /\ patch[u].at = "landed" => patch[u].look \in everShown[patch[u].card]

\* Inductive.
CardInv == CardTypeOK /\ RequestsKnown /\ ClickKept /\ OneMessage /\ PendingDelivered /\ ReplayWasShown

LEMMA CardStarts == CardInit => CardInv
<1> SUFFICES ASSUME CardInit PROVE CardInv
  OBVIOUS
<1> USE RelayAssumption DEF CardInit
<1>1. CardTypeOK
  BY DEF CardTypeOK, CardStatuses, Flights, PostSet, PatchSet
<1>2. RequestsKnown /\ ClickKept /\ OneMessage /\ PendingDelivered /\ ReplayWasShown
  BY DEF RequestsKnown, ClickKept, OneMessage, PendingDelivered, ReplayWasShown
<1> QED BY <1>1, <1>2 DEF CardInv

\* The card of a post, or of a patch, at Feishu.
LEMMA RequestRows ==
    ASSUME CardTypeOK
    PROVE  /\ \A p \in Posts : post[p] \in PostSet /\ post[p].at \in Flights /\ post[p].card \in Cards \cup {Nothing}
           /\ \A u \in Patches : /\ patch[u] \in PatchSet /\ patch[u].at \in Flights
                                 /\ patch[u].card \in Cards \cup {Nothing}
                                 /\ patch[u].look \in Contents \cup {Plain, Nothing}
  BY DEF CardTypeOK, PostSet, PatchSet

\* A request that only moves on keeps its card and its look.
LEMMA PostMoves ==
    ASSUME CardTypeOK, NEW p \in Posts, NEW at \in Flights, post' = [post EXCEPT ![p].at = at]
    PROVE  /\ post' \in [Posts -> PostSet] /\ post'[p].at = at /\ post'[p].card = post[p].card
           /\ \A q \in Posts : q # p => post'[q] = post[q]
<1>1. post \in [Posts -> PostSet] /\ post[p] \in PostSet
  BY DEF CardTypeOK
<1>2. PICK n : n = [post[p] EXCEPT !.at = at]
  OBVIOUS
<1>3. n \in PostSet /\ n.at = at /\ n.card = post[p].card
  BY <1>1, <1>2 DEF PostSet
<1>4. post' = [post EXCEPT ![p] = n]
  BY <1>1, <1>2
<1> QED BY <1>1, <1>3, <1>4

LEMMA PatchMoves ==
    ASSUME CardTypeOK, NEW u \in Patches, NEW at \in Flights, patch' = [patch EXCEPT ![u].at = at]
    PROVE  /\ patch' \in [Patches -> PatchSet] /\ patch'[u].at = at
           /\ patch'[u].card = patch[u].card /\ patch'[u].look = patch[u].look
           /\ \A w \in Patches : w # u => patch'[w] = patch[w]
<1>1. patch \in [Patches -> PatchSet] /\ patch[u] \in PatchSet
  BY DEF CardTypeOK
<1>2. PICK n : n = [patch[u] EXCEPT !.at = at]
  OBVIOUS
<1>3. n \in PatchSet /\ n.at = at /\ n.card = patch[u].card /\ n.look = patch[u].look
  BY <1>1, <1>2 DEF PatchSet
<1>4. patch' = [patch EXCEPT ![u] = n]
  BY <1>1, <1>2
<1> QED BY <1>1, <1>3, <1>4

LEMMA CardInductive == CardInv /\ [CardNext]_cardVars => CardInv'
<1> SUFFICES ASSUME CardInv, [CardNext]_cardVars PROVE CardInv'
  OBVIOUS
<1> USE RelayAssumption, RequestRows DEF CardInv
<1>0. CASE UNCHANGED cardVars
  BY <1>0 DEF cardVars, storeVars, feishuVars, CardTypeOK, RequestsKnown, ClickKept, OneMessage,
       PendingDelivered, ReplayWasShown
<1>1. ASSUME NEW p \in Posts, NEW c \in Cards, Post(p, c) PROVE CardInv'
  <2>1. /\ UNCHANGED <<active, action, reason, known, cached, cardDue, feishuVars, patch, recorded>>
        /\ window' \in [Cards -> {"none", "open", "shut"}]
        /\ post' \in [Posts -> PostSet]
        /\ \A q \in Posts : q # p => post'[q] = post[q]
        /\ post'[p].at \in {"flying", "over"} /\ post'[p].card = c
        /\ \/ UNCHANGED cardStatus
           \/ cardStatus[c] \in {"none", "sending"} /\ cardStatus' = [cardStatus EXCEPT ![c] = "sending"]
    <3>1. PICK at \in {"flying", "over"} : post' = [post EXCEPT ![p] = [at |-> at, card |-> c]]
      BY <1>1 DEF Post
    <3>2. PICK n : n = [at |-> at, card |-> c]
      OBVIOUS
    <3>3. n \in PostSet /\ n.at = at /\ n.card = c
      BY <3>2 DEF PostSet, Flights
    <3>4. post' = [post EXCEPT ![p] = n] /\ post \in [Posts -> PostSet]
      BY <3>1, <3>2 DEF CardTypeOK
    <3>5. /\ post' \in [Posts -> PostSet]
          /\ \A q \in Posts : q # p => post'[q] = post[q]
          /\ post'[p].at \in {"flying", "over"} /\ post'[p].card = c
      BY <3>3, <3>4
    <3>6. window' \in [Cards -> {"none", "open", "shut"}]
      <4>1. window \in [Cards -> {"none", "open", "shut"}]
        BY DEF CardTypeOK
      <4>2. Register(c) => window' \in [Cards -> {"none", "open", "shut"}]
        BY <4>1 DEF Register
      <4>3. Register(c) \/ UNCHANGED window
        BY <1>1 DEF Post
      <4> QED BY <4>1, <4>2, <4>3
    <3>7. /\ UNCHANGED <<active, action, reason, known, cached, cardDue, feishuVars, patch, recorded>>
          /\ \/ UNCHANGED cardStatus
             \/ cardStatus[c] \in {"none", "sending"} /\ cardStatus' = [cardStatus EXCEPT ![c] = "sending"]
      BY <1>1 DEF Post
    <3> QED BY <3>5, <3>6, <3>7
  <2>2. CardTypeOK'
    BY <2>1 DEF CardTypeOK, CardStatuses, feishuVars
  <2>3. RequestsKnown'
    BY <2>1 DEF RequestsKnown, feishuVars
  <2>4. ClickKept' /\ OneMessage' /\ PendingDelivered' /\ ReplayWasShown'
    BY <2>1 DEF ClickKept, OneMessage, PendingDelivered, ReplayWasShown, feishuVars, CardTypeOK
  <2> QED BY <2>2, <2>3, <2>4
<1>2. ASSUME NEW p \in Posts, PostLands(p) PROVE CardInv'
  <2>0. PICK at \in Flights : at = (IF post[p].at = "flying" THEN "landed" ELSE "over")
    BY DEF Flights
  <2>1. /\ post[p].card \in Cards /\ post' = [post EXCEPT ![p].at = at]
        /\ messages' = [messages EXCEPT ![post[p].card] = 1]
        /\ UNCHANGED <<storeVars, cardDue, cardShown, everShown, patch, recorded>>
    BY <1>2, <2>0 DEF PostLands, RequestsKnown, CardTypeOK
  <2>2. /\ post' \in [Posts -> PostSet] /\ post'[p].card = post[p].card
        /\ \A q \in Posts : q # p => post'[q] = post[q]
    BY <2>1, PostMoves
  <2>3. CardTypeOK'
    BY <2>1, <2>2 DEF CardTypeOK, storeVars
  <2>4. RequestsKnown'
    BY <2>1, <2>2 DEF RequestsKnown, CardTypeOK
  <2>5. ClickKept' /\ OneMessage' /\ PendingDelivered' /\ ReplayWasShown'
    BY <2>1 DEF ClickKept, OneMessage, PendingDelivered, ReplayWasShown, storeVars, CardTypeOK
  <2> QED BY <2>3, <2>4, <2>5
<1>3. ASSUME NEW p \in Posts, PostAnswered(p) PROVE CardInv'
  <2> DEFINE c == post[p].card
             st == Lapsed(IF cardStatus[c] = "sending" THEN "pending" ELSE cardStatus[c], c)
  <2>1. /\ c \in Cards /\ messages[c] > 0 /\ "over" \in Flights
        /\ post' = [post EXCEPT ![p].at = "over"]
        /\ cardStatus' = [cardStatus EXCEPT ![c] = st]
        /\ known' = IF cardStatus[c] = "sending" THEN known \cup {c} ELSE known
        /\ window' \in [Cards -> {"none", "open", "shut"}]
        /\ UNCHANGED <<active, action, reason, cached, cardDue, feishuVars, patch, recorded>>
    BY <1>3 DEF PostAnswered, RequestsKnown, Flights, Register, CardTypeOK
  <2>2. /\ post' \in [Posts -> PostSet] /\ post'[p].at = "over"
        /\ \A q \in Posts : q # p => post'[q] = post[q]
    BY <2>1, PostMoves
  <2>3. /\ cardStatus[c] = "sending" => st \in {"pending", "expired"}
        /\ cardStatus[c] = "pending" => st \in {"pending", "expired"}
        /\ cardStatus[c] \notin {"sending", "pending"} => st = cardStatus[c]
    BY <2>1 DEF Lapsed
  <2>4. CardTypeOK'
    BY <2>1, <2>2, <2>3 DEF CardTypeOK, CardStatuses, feishuVars
  <2>5. RequestsKnown'
    BY <2>1, <2>2 DEF RequestsKnown, feishuVars
  <2> HIDE DEF st
  <2>6. ClickKept' /\ OneMessage' /\ PendingDelivered' /\ ReplayWasShown'
    BY <2>1, <2>3 DEF ClickKept, OneMessage, PendingDelivered, ReplayWasShown, feishuVars, CardTypeOK
  <2> QED BY <2>4, <2>5, <2>6
<1>4. ASSUME NEW p \in Posts, PostFails(p) PROVE CardInv'
  <2>0. PICK at \in Flights : at = (IF post[p].at = "flying" THEN "late" ELSE "over")
    BY DEF Flights
  <2>1. /\ post[p].card \in Cards /\ post' = [post EXCEPT ![p].at = at] /\ at \in {"late", "over"}
        /\ UNCHANGED <<storeVars, cardDue, feishuVars, patch, recorded>>
    BY <1>4, <2>0 DEF PostFails, RequestsKnown, CardTypeOK
  <2>2. /\ post' \in [Posts -> PostSet] /\ post'[p].at = at /\ post'[p].card = post[p].card
        /\ \A q \in Posts : q # p => post'[q] = post[q]
    BY <2>1, PostMoves
  <2>3. CardTypeOK' /\ RequestsKnown'
    BY <2>1, <2>2 DEF CardTypeOK, RequestsKnown, storeVars, feishuVars
  <2>4. ClickKept' /\ OneMessage' /\ PendingDelivered' /\ ReplayWasShown'
    BY <2>1 DEF ClickKept, OneMessage, PendingDelivered, ReplayWasShown, storeVars, feishuVars
  <2> QED BY <2>3, <2>4
<1>5. ASSUME NEW p \in Posts, PostRejected(p) PROVE CardInv'
  <2>1. /\ post[p].card \in Cards /\ post' = [post EXCEPT ![p].at = "over"] /\ "over" \in Flights
        /\ \/ UNCHANGED cardStatus
           \/ /\ cardStatus[post[p].card] = "sending"
              /\ cardStatus' = [cardStatus EXCEPT ![post[p].card] = "failed"]
        /\ UNCHANGED <<active, action, reason, known, cached, window, cardDue, feishuVars, patch, recorded>>
    BY <1>5 DEF PostRejected, RequestsKnown, Flights, CardTypeOK
  <2>2. /\ post' \in [Posts -> PostSet] /\ post'[p].at = "over" /\ post'[p].card = post[p].card
        /\ \A q \in Posts : q # p => post'[q] = post[q]
    BY <2>1, PostMoves
  <2>3. CardTypeOK' /\ RequestsKnown'
    BY <2>1, <2>2 DEF CardTypeOK, RequestsKnown, feishuVars, CardStatuses
  <2>4. ClickKept' /\ OneMessage' /\ PendingDelivered' /\ ReplayWasShown'
    BY <2>1 DEF ClickKept, OneMessage, PendingDelivered, ReplayWasShown, feishuVars, CardTypeOK
  <2> QED BY <2>3, <2>4
<1>6. ASSUME NEW c \in Cards, NEW a \in Actions, CardClick(c, a) PROVE CardInv'
  <2>0. CASE UNCHANGED <<cardStatus, action, recorded>>
    BY <1>6, <2>0 DEF CardClick, CardTypeOK, RequestsKnown, ClickKept, OneMessage,
       PendingDelivered, ReplayWasShown, feishuVars
  <2>1. CASE Accepts(c)
    <3>1. /\ cardStatus[c] = "pending" /\ action[c] = Nothing /\ recorded[c] = {}
          /\ cardStatus' = [cardStatus EXCEPT ![c] = "actioned"]
          /\ action' = [action EXCEPT ![c] = a]
          /\ recorded' \in {recorded, [recorded EXCEPT ![c] = @ \cup {a}]}
          /\ UNCHANGED <<active, reason, known, cached, window, cardDue, feishuVars, post, patch>>
      BY <1>6, <2>1 DEF CardClick, Accepts, ClickKept, CardTypeOK
    <3>2. CardTypeOK'
      BY <3>1 DEF CardTypeOK, CardStatuses, feishuVars
    <3>3. RequestsKnown' /\ OneMessage' /\ PendingDelivered' /\ ReplayWasShown'
      BY <3>1 DEF RequestsKnown, OneMessage, PendingDelivered, ReplayWasShown, feishuVars, CardTypeOK
    <3>4. ClickKept'
      BY <3>1 DEF ClickKept, CardTypeOK
    <3> QED BY <3>2, <3>3, <3>4
  <2> QED BY <1>6, <2>0, <2>1 DEF CardClick
<1>7. ASSUME NEW u \in Patches, NEW c \in Cards, NEW why \in Reasons \cup {Nothing},
             NEW look \in Contents \cup {Plain}, Patch(u, c, why, look)
      PROVE CardInv'
  <2>1. PICK st \in CardStatuses, at \in {"flying", "over"} :
            /\ cardStatus' = [cardStatus EXCEPT ![c] = st]
            /\ \/ st = cardStatus[c] /\ UNCHANGED reason
               \/ cardStatus[c] = "pending" /\ st = "expired" /\ UNCHANGED reason
               \/ /\ cardStatus[c] = "pending" /\ st = "closed" /\ why # Nothing
                  /\ reason' = [reason EXCEPT ![c] = why]
            /\ patch' = [patch EXCEPT ![u] = [at |-> at, card |-> c, look |-> look]]
            /\ UNCHANGED <<active, action, known, cached, window, cardDue, feishuVars, post, recorded>>
    BY <1>7 DEF Patch, Closes, Lapsed, CardTypeOK, CardStatuses
  <2>2. /\ patch' \in [Patches -> PatchSet] /\ patch'[u].at = at /\ patch'[u].card = c /\ patch'[u].look = look
        /\ \A w \in Patches : w # u => patch'[w] = patch[w]
    BY <2>1 DEF CardTypeOK, PatchSet, Flights
  <2>3. CardTypeOK'
    BY <2>1, <2>2 DEF CardTypeOK, feishuVars
  <2>4. RequestsKnown' /\ OneMessage' /\ ReplayWasShown'
    BY <2>1, <2>2 DEF RequestsKnown, OneMessage, ReplayWasShown, feishuVars
  <2>5. ClickKept' /\ PendingDelivered'
    BY <2>1 DEF ClickKept, PendingDelivered, feishuVars, CardTypeOK
  <2> QED BY <2>3, <2>4, <2>5
<1>8. ASSUME NEW u \in Patches, NEW c \in Cards, NEW look \in Contents, UpdateMessage(u, c, look)
      PROVE CardInv'
  <2>1. /\ patch' = [patch EXCEPT ![u] = [at |-> "flying", card |-> c, look |-> look]]
        /\ UNCHANGED <<storeVars, cardDue, feishuVars, post, recorded>>
    BY <1>8 DEF UpdateMessage
  <2>2. /\ patch' \in [Patches -> PatchSet] /\ patch'[u].at = "flying" /\ patch'[u].card = c
        /\ patch'[u].look = look
        /\ \A w \in Patches : w # u => patch'[w] = patch[w]
    BY <2>1 DEF CardTypeOK, PatchSet, Flights
  <2>3. CardTypeOK' /\ RequestsKnown'
    BY <2>1, <2>2 DEF CardTypeOK, RequestsKnown, storeVars, feishuVars
  <2>4. ClickKept' /\ OneMessage' /\ PendingDelivered' /\ ReplayWasShown'
    BY <2>1 DEF ClickKept, OneMessage, PendingDelivered, ReplayWasShown, storeVars, feishuVars
  <2> QED BY <2>3, <2>4
<1>9. ASSUME NEW u \in Patches, PatchLands(u) PROVE CardInv'
  <2>0. PICK at \in Flights : at = (IF patch[u].at = "flying" THEN "landed" ELSE "lost")
    BY DEF Flights
  <2>1. /\ patch[u].card \in Cards /\ patch[u].look \in Contents \cup {Plain}
        /\ patch' = [patch EXCEPT ![u].at = at] /\ at \in {"landed", "lost"}
        /\ cardShown' = [cardShown EXCEPT ![patch[u].card] = patch[u].look]
        /\ everShown' = [everShown EXCEPT ![patch[u].card] = @ \cup {patch[u].look}]
        /\ UNCHANGED <<storeVars, cardDue, messages, post, recorded>>
    BY <1>9, <2>0 DEF PatchLands, RequestsKnown, CardTypeOK
  <2>2. /\ patch' \in [Patches -> PatchSet] /\ patch'[u].at = at /\ patch'[u].card = patch[u].card
        /\ patch'[u].look = patch[u].look
        /\ \A w \in Patches : w # u => patch'[w] = patch[w]
    BY <2>1, PatchMoves
  <2>3. CardTypeOK'
    BY <2>1, <2>2 DEF CardTypeOK, storeVars
  <2>4. RequestsKnown'
    BY <2>1, <2>2 DEF RequestsKnown, CardTypeOK
  <2>5. ClickKept' /\ OneMessage' /\ PendingDelivered' /\ ReplayWasShown'
    BY <2>1 DEF ClickKept, OneMessage, PendingDelivered, ReplayWasShown, storeVars, CardTypeOK
  <2> QED BY <2>3, <2>4, <2>5
<1>10. ASSUME NEW u \in Patches, PatchAnswered(u) PROVE CardInv'
  <2>1. /\ patch[u].card \in Cards /\ patch[u].look \in everShown[patch[u].card] /\ "over" \in Flights
        /\ patch' = [patch EXCEPT ![u].at = "over"]
        /\ cached' \in {cached, [cached EXCEPT ![patch[u].card] = patch[u].look]}
        /\ cached' \in [Cards -> Contents \cup {Nothing}]
        /\ UNCHANGED <<active, cardStatus, action, reason, known, window, cardDue, feishuVars, post, recorded>>
    BY <1>10 DEF PatchAnswered, RequestsKnown, CardTypeOK, Flights
  <2>2. /\ patch' \in [Patches -> PatchSet] /\ patch'[u].at = "over"
        /\ \A w \in Patches : w # u => patch'[w] = patch[w]
    BY <2>1, PatchMoves
  <2>3. CardTypeOK' /\ RequestsKnown'
    BY <2>1, <2>2 DEF CardTypeOK, RequestsKnown, feishuVars
  <2>4. ClickKept' /\ OneMessage' /\ PendingDelivered' /\ ReplayWasShown'
    BY <2>1 DEF ClickKept, OneMessage, PendingDelivered, ReplayWasShown, feishuVars, CardTypeOK
  <2> QED BY <2>3, <2>4
<1>11. ASSUME NEW u \in Patches, PatchFails(u) PROVE CardInv'
  <2>0. PICK at \in Flights : at = (IF patch[u].at = "flying" THEN "late" ELSE "lost")
    BY DEF Flights
  <2>1. /\ patch[u].card \in Cards /\ patch[u].look \in Contents \cup {Plain}
        /\ patch' = [patch EXCEPT ![u].at = at] /\ at \in {"late", "lost"}
        /\ UNCHANGED <<storeVars, cardDue, feishuVars, post, recorded>>
    BY <1>11, <2>0 DEF PatchFails, RequestsKnown, CardTypeOK
  <2>2. /\ patch' \in [Patches -> PatchSet] /\ patch'[u].at = at /\ patch'[u].card = patch[u].card
        /\ patch'[u].look = patch[u].look
        /\ \A w \in Patches : w # u => patch'[w] = patch[w]
    BY <2>1, PatchMoves
  <2>3. CardTypeOK' /\ RequestsKnown'
    BY <2>1, <2>2 DEF CardTypeOK, RequestsKnown, storeVars, feishuVars
  <2>4. ClickKept' /\ OneMessage' /\ PendingDelivered' /\ ReplayWasShown'
    BY <2>1 DEF ClickKept, OneMessage, PendingDelivered, ReplayWasShown, storeVars, feishuVars
  <2> QED BY <2>3, <2>4
<1>12. ASSUME NEW c \in Cards, ShutWindow(c) \/ CardDue(c) PROVE CardInv'
  BY <1>12 DEF ShutWindow, CardDue, CardTypeOK, RequestsKnown, ClickKept, OneMessage,
       PendingDelivered, ReplayWasShown, storeVars, feishuVars
<1>13. CASE PruneCards \/ Revoke \/ \E c \in Cards : GetCard(c)
  <2>1. /\ active' \in BOOLEAN /\ cardStatus' \in [Cards -> CardStatuses]
        /\ \A c \in Cards : \/ cardStatus'[c] = cardStatus[c]
                            \/ cardStatus[c] = "pending" /\ cardStatus'[c] = "expired"
        /\ UNCHANGED <<action, reason, known, cached, window, cardDue, feishuVars, post, patch, recorded>>
    <3>0. active \in BOOLEAN /\ cardStatus \in [Cards -> CardStatuses] /\ "expired" \in CardStatuses
      BY DEF CardTypeOK, CardStatuses
    <3>1. CASE PruneCards
      BY <3>0, <3>1 DEF PruneCards, Lapsed
    <3>2. CASE Revoke
      BY <3>0, <3>2 DEF Revoke
    <3>3. ASSUME NEW c \in Cards, GetCard(c)
          PROVE  /\ cardStatus' = [cardStatus EXCEPT ![c] = "expired"] /\ cardStatus[c] = "pending"
                 /\ UNCHANGED <<active, action, reason, known, cached, window, cardDue, feishuVars, post,
                                patch, recorded>>
      BY <3>3 DEF GetCard
    <3>4. CASE \E c \in Cards : GetCard(c)
      BY <3>0, <3>3, <3>4
    <3> QED BY <1>13, <3>1, <3>2, <3>4
  <2>2. CardTypeOK' /\ RequestsKnown'
    BY <2>1 DEF CardTypeOK, RequestsKnown, feishuVars
  <2>3. ClickKept' /\ OneMessage' /\ PendingDelivered' /\ ReplayWasShown'
    BY <2>1 DEF ClickKept, OneMessage, PendingDelivered, ReplayWasShown, feishuVars
  <2> QED BY <2>2, <2>3
<1> QED BY <1>0, <1>1, <1>2, <1>3, <1>4, <1>5, <1>6, <1>7, <1>8, <1>9, <1>10, <1>11, <1>12, <1>13
     DEF CardNext

LEMMA CardInvariant == CardSpec => []CardInv
  BY CardStarts, CardInductive, PTL DEF CardSpec

\* A recorded click is kept, a look it is answered with was on the card, and the card was
\* posted once, for any number of posts, patches and clicks (create_card, action_card,
\* close_card).
THEOREM ClicksStayHonoured == CardSpec => []ClicksHonoured
<1>1. CardInv => ClicksHonoured
  BY DEF CardInv, ClicksHonoured, PostedOnce
<1> QED BY <1>1, CardInvariant, PTL

\* A card moves along the contract's state diagram whatever interleaves, and a shut reply
\* window stays shut (finish_card, fail_card, close_card, register_card_message).
THEOREM EndedCardsStay == CardSpec => EndsStay
<1>1. CardInv /\ [CardNext]_cardVars =>
         \A c \in Cards :
            /\ cardStatus'[c] # cardStatus[c] => <<cardStatus[c], cardStatus'[c]>> \in Diagram
            /\ window[c] = "shut" => window'[c] = "shut"
  <2> SUFFICES ASSUME CardInv, [CardNext]_cardVars, NEW c \in Cards
               PROVE  /\ \/ cardStatus'[c] = cardStatus[c]
                         \/ cardStatus[c] = "none" /\ cardStatus'[c] = "sending"
                         \/ cardStatus[c] = "sending" /\ cardStatus'[c] \in {"pending", "expired", "failed"}
                         \/ cardStatus[c] = "pending" /\ cardStatus'[c] \in {"actioned", "closed", "expired"}
                      /\ window[c] = "shut" => window'[c] = "shut"
    BY DEF Diagram
  <2> DEFINE Goal == /\ \/ cardStatus'[c] = cardStatus[c]
                        \/ cardStatus[c] = "none" /\ cardStatus'[c] = "sending"
                        \/ cardStatus[c] = "sending" /\ cardStatus'[c] \in {"pending", "expired", "failed"}
                        \/ cardStatus[c] = "pending" /\ cardStatus'[c] \in {"actioned", "closed", "expired"}
                     /\ window[c] = "shut" => window'[c] = "shut"
  <2> USE RelayAssumption, RequestRows DEF CardInv, CardTypeOK
  <2>1. ASSUME NEW p \in Posts, NEW d \in Cards, Post(p, d) PROVE Goal
    BY <2>1 DEF Post, Register
  <2>2. ASSUME NEW p \in Posts, PostAnswered(p) PROVE Goal
    <3> post[p].card \in Cards BY <2>2 DEF PostAnswered, RequestsKnown
    <3> QED BY <2>2 DEF PostAnswered, Register, Lapsed
  <2>3. ASSUME NEW p \in Posts, PostRejected(p) PROVE Goal
    BY <2>3 DEF PostRejected
  <2>4. ASSUME NEW d \in Cards, NEW a \in Actions, CardClick(d, a) PROVE Goal
    BY <2>4 DEF CardClick, Accepts
  <2>5. ASSUME NEW u \in Patches, NEW d \in Cards, NEW why \in Reasons \cup {Nothing},
               NEW look \in Contents \cup {Plain}, Patch(u, d, why, look)
        PROVE Goal
    BY <2>5 DEF Patch, Closes, Lapsed
  <2>6. ASSUME NEW d \in Cards, ShutWindow(d) \/ GetCard(d) PROVE Goal
    BY <2>6 DEF ShutWindow, GetCard
  <2>7. ASSUME PruneCards PROVE Goal
    BY <2>7 DEF PruneCards, Lapsed
  <2>8. ASSUME UNCHANGED <<cardStatus, window>> PROVE Goal
    BY <2>8
  <2> HIDE DEF Goal
  <2>9. Goal
    BY <2>1, <2>2, <2>3, <2>4, <2>5, <2>6, <2>7, <2>8
       DEF CardNext, cardVars, storeVars, PostLands, PostFails, UpdateMessage, PatchLands, PatchAnswered,
           PatchFails, CardDue, Revoke
  <2> QED BY <2>9 DEF Goal
<1> QED BY <1>1, CardInvariant, PTL DEF CardSpec, EndsStay, cardVars, storeVars

-----------------------------------------------------------------------------
(* Enrolments. *)

\* Nobody has a token before the first enrolment.
LEMMA EnrollStarts == Init => IInv
BY DEF Init, IInv, TypeOK, RowCounts, Rows, Waiting

\* A step changes one row (prune: several), and the counters as the row says.
LEMMA EnrollPreserves == IInv /\ [Next]_vars => IInv'
<1> SUFFICES ASSUME IInv, [Next]_vars PROVE IInv'
    OBVIOUS
<1> USE DEF IInv, TypeOK, RowCounts, Rows, Waiting
<1>1. ASSUME NEW e \in Enrolls, CreateEnrollment(e) PROVE IInv'
    BY <1>1 DEF CreateEnrollment
<1>2. ASSUME NEW e \in Enrolls, PollEnrollment(e) PROVE IInv'
    <2>1. TypeOK'
        BY <1>2 DEF PollEnrollment, AfterPoll
    <2>2. CASE row[e] = "completed"
        <3>1. /\ row' = [row EXCEPT ![e] = "claimed"] /\ tokens' = tokens /\ aged' = aged
              /\ handed' = [handed EXCEPT ![e] = @ + 1]
            BY <1>2, <2>2 DEF PollEnrollment, AfterPoll
        <3>2. RowCounts'
            BY <2>2, <3>1
        <3> QED BY <2>1, <3>2
    <2>3. CASE row[e] # "completed"
        <3>1. UNCHANGED <<tokens, handed, aged>>
            BY <1>2, <2>3 DEF PollEnrollment
        <3>2. row' = row \/ (row[e] = "pending" /\ row' = [row EXCEPT ![e] = "expired"])
            BY <1>2, <2>3 DEF PollEnrollment, AfterPoll
        <3>3. RowCounts'
            BY <3>1, <3>2
        <3> QED BY <2>1, <3>3
    <2> QED BY <2>2, <2>3
<1>3. ASSUME NEW e \in Enrolls, RevokeToken(e) PROVE IInv'
    BY <1>3 DEF RevokeToken
<1>4. ASSUME NEW e \in Enrolls, TimePasses(e) PROVE IInv'
    BY <1>4 DEF TimePasses
<1>5. ASSUME NEW k \in Callbacks, NEW e \in Enrolls, OauthCallback(k, e) PROVE IInv'
    <2>1. row' = row \/ (row[e] = "pending" /\ row' = [row EXCEPT ![e] = "authorizing"])
        BY <1>5 DEF OauthCallback, Begins
    <2>2. UNCHANGED <<due, stale, aged, tokens, revoked, handed, holders, answer>>
        BY <1>5 DEF OauthCallback
    <2>3. callback' \in [Callbacks -> [at : {"idle", "exchanging", "over"}, enroll : Enrolls \cup {None}]]
        BY <1>5 DEF OauthCallback
    <2> QED BY <2>1, <2>2, <2>3
<1>6. ASSUME NEW k \in Callbacks, ExchangeFails(k) \/ ExchangeSucceeds(k) PROVE IInv'
    <2> DEFINE e == callback[k].enroll
    <2>1. callback' \in [Callbacks -> [at : {"idle", "exchanging", "over"}, enroll : Enrolls \cup {None}]]
        BY <1>6 DEF ExchangeFails, ExchangeSucceeds
    <2>2. UNCHANGED <<due, stale, aged, revoked, handed, holders, answer>>
        BY <1>6 DEF ExchangeFails, ExchangeSucceeds
    <2>3. \/ tokens' = tokens /\ row' = [row EXCEPT ![e] = IF @ = "authorizing" THEN "failed" ELSE @]
          \/ /\ row[e] = "authorizing"
             /\ row' = [row EXCEPT ![e] = "completed"]
             /\ tokens' = [tokens EXCEPT ![e] = @ + 1]
        BY <1>6 DEF ExchangeFails, ExchangeSucceeds, FailEnrollment, Completes
    <2> HIDE DEF e
    <2>4. TypeOK'
        BY <2>1, <2>2, <2>3
    <2>5. RowCounts'
        BY <2>2, <2>3
    <2> QED BY <2>4, <2>5
<1>7. CASE Crash
    <2>1. callback' \in [Callbacks -> [at : {"idle", "exchanging", "over"}, enroll : Enrolls \cup {None}]]
        BY <1>7 DEF Crash
    <2> QED BY <1>7, <2>1 DEF Crash
<1>8. CASE Prune
    BY <1>8 DEF Prune, Prunable
<1>9. CASE UNCHANGED vars
    BY <1>9 DEF vars
<1> QED BY <1>1, <1>2, <1>3, <1>4, <1>5, <1>6, <1>7, <1>8, <1>9 DEF Next

LEMMA EnrollInvariant == Spec => []IInv
BY EnrollStarts, EnrollPreserves, PTL DEF Spec

\* Every reachable state is well-typed.
THEOREM TypeCorrect == Spec => []TypeOK
<1>1. IInv => TypeOK
    BY DEF IInv
<1> QED BY <1>1, EnrollInvariant, PTL

\* An enrolment gives one token and gives it away once, however callbacks, polls, restarts
\* and pruning interleave.
THEOREM HandsOutOnce == Spec => []TokenOnce
<1>1. IInv => TokenOnce
    <2> SUFFICES ASSUME IInv, NEW e \in Enrolls
                 PROVE handed[e] <= tokens[e] /\ tokens[e] <= 1
        BY DEF TokenOnce
    <2>1. tokens[e] \in Nat /\ handed[e] \in Nat /\ row[e] \in Rows \cup {"none", "gone"}
        BY DEF IInv, TypeOK
    <2> QED BY <2>1 DEF IInv, RowCounts, Rows, Waiting
<1> QED BY <1>1, EnrollInvariant, PTL

\* An issued token is in its row until a poll takes it or its retention is over.
THEOREM KeepsTheToken == Spec => []TokenKept
<1>1. IInv => TokenKept
    <2> SUFFICES ASSUME IInv, NEW e \in Enrolls
                 PROVE tokens[e] > handed[e] => row[e] = "completed" \/ (row[e] = "gone" /\ e \in aged)
        BY DEF TokenKept
    <2>1. tokens[e] \in Nat /\ handed[e] \in Nat /\ row[e] \in Rows \cup {"none", "gone"}
        BY DEF IInv, TypeOK
    <2> QED BY <2>1 DEF IInv, RowCounts, Rows, Waiting
<1> QED BY <1>1, EnrollInvariant, PTL

\* An enrolment gives one token to one poll, and loses none (complete_enrollment,
\* claim_enrollment, prune).
THEOREM TokenIsSafe == Spec => []TokenSafe
<1> QED BY HandsOutOnce, KeepsTheToken, PTL DEF TokenSafe

\* An ended enrolment stays ended: a callback only moves rows that wait for it.
THEOREM EndsForGood == Spec => EndIsFinal
<1>1. IInv /\ [Next]_vars => [\A e \in Enrolls : row[e] \in {"claimed", "failed", "expired", "gone"} => row'[e] \in {row[e], "gone"}]_row
    <2> SUFFICES ASSUME IInv, [Next]_vars, NEW d \in Enrolls, row[d] \in {"claimed", "failed", "expired", "gone"}
                 PROVE row'[d] \in {row[d], "gone"}
        OBVIOUS
    <2> USE DEF IInv, TypeOK
    <2>1. ASSUME NEW e \in Enrolls, CreateEnrollment(e) \/ PollEnrollment(e) \/ RevokeToken(e) \/ TimePasses(e)
          PROVE row'[d] = row[d]
        BY <2>1 DEF CreateEnrollment, PollEnrollment, AfterPoll, RevokeToken, TimePasses
    <2>2. ASSUME NEW k \in Callbacks, NEW e \in Enrolls, OauthCallback(k, e)
          PROVE row'[d] = row[d]
        BY <2>2 DEF OauthCallback, Begins
    <2>3. ASSUME NEW k \in Callbacks, ExchangeFails(k) \/ ExchangeSucceeds(k)
          PROVE row'[d] = row[d]
        BY <2>3 DEF ExchangeFails, ExchangeSucceeds, FailEnrollment, Completes
    <2>4. CASE Crash \/ Prune \/ UNCHANGED vars
        BY <2>4 DEF Crash, Prune, vars
    <2> QED BY <2>1, <2>2, <2>3, <2>4 DEF Next
<1> QED BY <1>1, EnrollInvariant, PTL DEF Spec, EndIsFinal

-----------------------------------------------------------------------------
(* Desktops. *)

InProfileLock == {"locked", "host", "rebuild", "start", "room", "up", "screen", "rollback"}
InHostLock == {"host", "rebuild", "start", "room", "up"}

\* A call in ensure() holds its profile's lock, and the host's from the inspection to the
\* stamp of last_used; what it found of the quota holds until its container starts.
CallsLocked ==
    \A e \in Ensures :
        /\ call[e].pc \in InProfileLock => call[e].p \in Profiles /\ plock[call[e].p] = e
        /\ call[e].pc \in InHostLock => hlock = e
        /\ call[e].pc = "room" => RoomFor(call[e].p)

\* A takeover, and the sweep once it tries a container, hold the profile's lock; a container
\* the sweep is about to stop is in nobody's hands.
TakesLocked ==
    \A k \in Takeovers : take[k].pc = "locked" => take[k].p \in Profiles /\ plock[take[k].p] = k
SweepLocked ==
    /\ sweep.pc # "idle" => sweep.p \in Profiles
    /\ sweep.pc \in {"locked", "counted", "clear"} => plock[sweep.p] = Sweeper
    /\ sweep.pc = "clear" => ~human[sweep.p]

\* Inductive.
DeskInv == DeskTypeOK /\ CallsLocked /\ TakesLocked /\ SweepLocked /\ Cardinality(Running) <= Quota

\* A call that only moves on.
LEMMA CallMoves ==
    ASSUME DeskTypeOK, NEW e \in Ensures, NEW pc, [call[e] EXCEPT !.pc = pc] \in CallSet,
           call' = [call EXCEPT ![e].pc = pc]
    PROVE  /\ call' \in [Ensures -> CallSet] /\ call'[e].pc = pc /\ call'[e].p = call[e].p
           /\ \A f \in Ensures : f # e => call'[f] = call[f]
<1>1. call \in [Ensures -> CallSet] /\ call[e] \in CallSet
  BY DEF DeskTypeOK
<1>2. PICK n : n = [call[e] EXCEPT !.pc = pc]
  OBVIOUS
<1>3. n \in CallSet /\ n.pc = pc /\ n.p = call[e].p
  BY <1>1, <1>2 DEF CallSet
<1>4. call' = [call EXCEPT ![e] = n]
  BY <1>1, <1>2
<1> QED BY <1>1, <1>3, <1>4

LEMMA CallRow ==
    ASSUME DeskTypeOK, NEW e \in Ensures
    PROVE  /\ call[e] \in CallSet /\ call[e].p \in Profiles \cup {Free}
           /\ call[e].started \in BOOLEAN /\ call[e].created \in BOOLEAN
           /\ \A pc \in {"locked", "host", "rebuild", "start", "room", "up", "screen", "rollback",
                         "ready", "joining", "live", "leaving", "done"} :
                 [call[e] EXCEPT !.pc = pc] \in CallSet
   BY DEF DeskTypeOK, CallSet

LEMMA CallOverRow == CallOver \in CallSet /\ CallOver.pc = "done"
  BY DEF CallSet, CallOver, NoCall

\* Containers that stop or go leave room where there was room.
LEMMA FewerRun ==
    ASSUME Running' \subseteq Running
    PROVE  /\ Cardinality(Running') <= Cardinality(Running)
           /\ \A p \in Profiles : RoomFor(p) => RoomFor(p)'
<1>1. IsFiniteSet(Running) /\ Running \subseteq Profiles
  BY DesktopAssumption, FS_Subset DEF Running
<1>2. Cardinality(Running') <= Cardinality(Running)
  BY <1>1, FS_Subset
<1>3. ASSUME NEW p \in Profiles, RoomFor(p) PROVE RoomFor(p)'
  <2>1. IsFiniteSet(Running \ {p}) /\ Running' \ {p} \subseteq Running \ {p}
    BY <1>1, FS_Subset
  <2>2. Cardinality(Running' \ {p}) <= Cardinality(Running \ {p})
    BY <2>1, FS_Subset
  <2>3. Cardinality(Running' \ {p}) \in Nat /\ Cardinality(Running \ {p}) \in Nat /\ Quota \in Nat
    BY <2>1, FS_Subset, FS_CardinalityType, DesktopAssumption
  <2> QED BY <1>3, <2>2, <2>3 DEF RoomFor
<1> QED BY <1>2, <1>3

\* One more container, for which there was room, is within the quota.
LEMMA OneMoreRuns ==
    ASSUME NEW p \in Profiles, RoomFor(p), Running' \subseteq Running \cup {p}
    PROVE  Cardinality(Running') <= Quota
<1>1. IsFiniteSet(Running \ {p}) /\ Cardinality(Running \ {p}) \in Nat /\ Quota \in Nat
  BY DesktopAssumption, FS_Subset, FS_CardinalityType DEF Running
<1>2. Cardinality((Running \ {p}) \cup {p}) = Cardinality(Running \ {p}) + 1
      /\ IsFiniteSet((Running \ {p}) \cup {p})
  BY <1>1, FS_AddElement
<1>3. Running' \subseteq (Running \ {p}) \cup {p}
  OBVIOUS
<1>4. Cardinality(Running') <= Cardinality((Running \ {p}) \cup {p}) /\ Cardinality(Running') \in Nat
  BY <1>2, <1>3, FS_Subset, FS_CardinalityType
<1> QED BY <1>1, <1>2, <1>4 DEF RoomFor

LEMMA DeskStarts == DeskInit => DeskInv
<1> SUFFICES ASSUME DeskInit PROVE DeskInv
  OBVIOUS
<1> USE DesktopAssumption DEF DeskInit
<1>1. DeskTypeOK
  BY DEF DeskTypeOK, Boxes, CallSet, TakeSet, SweepSet, NoCall, NoTake
<1>2. CallsLocked /\ TakesLocked /\ SweepLocked
  BY DEF CallsLocked, TakesLocked, SweepLocked, InProfileLock, InHostLock, NoCall, NoTake
<1>3. Cardinality(Running) <= Quota
  <2>1. Running = {}
    BY DEF Running
  <2>2. Cardinality({}) = 0
    BY FS_EmptySet, Zenon
  <2> QED BY <2>1, <2>2
<1> QED BY <1>1, <1>2, <1>3 DEF DeskInv


LEMMA DeskInductive == DeskInv /\ [DeskNext]_deskVars => DeskInv'
<1> SUFFICES ASSUME DeskInv, [DeskNext]_deskVars PROVE DeskInv'
  OBVIOUS
<1> USE DesktopAssumption DEF DeskInv
<1>r. UNCHANGED box => UNCHANGED Running /\ \A p \in Profiles : RoomFor(p) <=> RoomFor(p)'
  BY DEF Running, RoomFor
<1>0. CASE UNCHANGED deskVars
  <2>1. DeskTypeOK' /\ TakesLocked' /\ SweepLocked'
    BY <1>0 DEF deskVars, DeskTypeOK, TakesLocked, SweepLocked
  <2> QED BY <1>0, <1>r, <2>1 DEF deskVars, CallsLocked, InProfileLock
<1>1. ASSUME NEW e \in Ensures, NEW p \in Profiles, NEW turn \in BOOLEAN, EnsureBegin(e, p, turn)
      PROVE DeskInv'
  <2>1. PICK n \in CallSet : /\ call' = [call EXCEPT ![e] = n]
                             /\ \/ /\ n.pc = "locked" /\ n.p = p /\ plock[p] = Free
                                   /\ plock' = [plock EXCEPT ![p] = e]
                                \/ n.pc = "done" /\ UNCHANGED plock
    <3>1. PICK m : m = [NoCall EXCEPT !.pc = "locked", !.p = p, !.turn = turn]
      OBVIOUS
    <3>2. m \in CallSet /\ m.pc = "locked" /\ m.p = p
      BY <3>1 DEF CallSet, NoCall
    <3>3. \/ plock[p] = Free /\ plock' = [plock EXCEPT ![p] = e] /\ call' = [call EXCEPT ![e] = m]
          \/ UNCHANGED plock /\ call' = [call EXCEPT ![e] = CallOver]
      BY <1>1, <3>1 DEF EnsureBegin
    <3> QED BY <3>2, <3>3, CallOverRow
  <2>2. UNCHANGED <<box, drifted, fresh, human, hlock, take, sweep>>
    BY <1>1 DEF EnsureBegin
  <2>3. DeskTypeOK' /\ TakesLocked' /\ SweepLocked'
    BY <2>1, <2>2 DEF DeskTypeOK, TakesLocked, SweepLocked
  <2>4. CallsLocked'
    BY <2>1, <2>2, <1>r DEF CallsLocked, DeskTypeOK, InProfileLock, InHostLock
  <2> QED BY <2>2, <2>3, <2>4, <1>r
<1>2. ASSUME NEW e \in Ensures, TakeHost(e) PROVE DeskInv'
  <2>1. /\ call[e].pc = "locked" /\ hlock = Free /\ hlock' = e
        /\ call' = [call EXCEPT ![e].pc = "host"]
        /\ UNCHANGED <<box, drifted, fresh, human, plock, take, sweep>>
    BY <1>2 DEF TakeHost, HostFree
  <2>2. /\ call' \in [Ensures -> CallSet] /\ call'[e].pc = "host" /\ call'[e].p = call[e].p
        /\ \A f \in Ensures : f # e => call'[f] = call[f]
    BY <2>1, CallMoves, CallRow
  <2>3. DeskTypeOK' /\ TakesLocked' /\ SweepLocked'
    BY <2>1, <2>2 DEF DeskTypeOK, TakesLocked, SweepLocked
  <2>4. CallsLocked'
    BY <2>1, <2>2, <1>r DEF CallsLocked, DeskTypeOK, InProfileLock, InHostLock
  <2> QED BY <2>1, <2>3, <2>4, <1>r
<1>3. ASSUME NEW e \in Ensures, Inspect(e) \/ CheckQuota(e) PROVE DeskInv'
  <2>1. PICK pc \in {"rebuild", "up", "start", "room", "rollback"} :
            /\ call' = [call EXCEPT ![e].pc = pc]
            /\ pc = "room" => RoomFor(call[e].p)
    BY <1>3 DEF Inspect, CheckQuota
  <2>2. /\ call[e].pc \in {"host", "start"}
        /\ UNCHANGED <<box, drifted, fresh, human, plock, hlock, take, sweep>>
    BY <1>3 DEF Inspect, CheckQuota
  <2>3. /\ call' \in [Ensures -> CallSet] /\ call'[e].pc = pc /\ call'[e].p = call[e].p
        /\ \A f \in Ensures : f # e => call'[f] = call[f]
    BY <2>1, CallMoves, CallRow
  <2>4. DeskTypeOK' /\ TakesLocked' /\ SweepLocked'
    BY <2>2, <2>3 DEF DeskTypeOK, TakesLocked, SweepLocked
  <2>5. CallsLocked'
    BY <2>1, <2>2, <2>3, <1>r DEF CallsLocked, DeskTypeOK, InProfileLock, InHostLock
  <2> QED BY <2>2, <2>4, <2>5, <1>r
<1>4. ASSUME NEW e \in Ensures, Rebuild(e) PROVE DeskInv'
  <2>1. /\ call[e].pc = "rebuild" /\ call[e].p \in Profiles
        /\ box' = [box EXCEPT ![call[e].p] = "none"]
        /\ drifted' = [drifted EXCEPT ![call[e].p] = FALSE]
        /\ call' = [call EXCEPT ![e].pc = "start"]
        /\ UNCHANGED <<fresh, human, plock, hlock, take, sweep>>
    BY <1>4 DEF Rebuild, CallsLocked, InProfileLock
  <2>2. /\ call' \in [Ensures -> CallSet] /\ call'[e].pc = "start" /\ call'[e].p = call[e].p
        /\ \A f \in Ensures : f # e => call'[f] = call[f]
    BY <2>1, CallMoves, CallRow
  <2>3. DeskTypeOK' /\ TakesLocked' /\ SweepLocked'
    BY <2>1, <2>2 DEF DeskTypeOK, TakesLocked, SweepLocked, Boxes
  <2>4. Running' \subseteq Running
    BY <2>1 DEF Running, DeskTypeOK
  <2>5. CallsLocked'
    BY <2>1, <2>2, <2>4, FewerRun DEF CallsLocked, DeskTypeOK, InProfileLock, InHostLock
  <2>6. Cardinality(Running') <= Quota
    BY <2>4, FewerRun, FS_Subset, FS_CardinalityType DEF Running
  <2> QED BY <2>3, <2>5, <2>6
<1>5. ASSUME NEW e \in Ensures, StartContainer(e) PROVE DeskInv'
  <2>1. /\ call[e].pc = "room" /\ call[e].p \in Profiles /\ RoomFor(call[e].p)
        /\ plock[call[e].p] = e /\ hlock = e
        /\ UNCHANGED <<drifted, fresh, human, plock, hlock, take, sweep>>
    BY <1>5 DEF StartContainer, CallsLocked, InProfileLock, InHostLock
  <2>2. PICK b \in Boxes : box' = [box EXCEPT ![call[e].p] = b]
    BY <1>5, <2>1 DEF StartContainer, Boxes, DeskTypeOK
  <2>3. PICK n \in CallSet : /\ call' = [call EXCEPT ![e] = n] /\ n.p = call[e].p
                             /\ n.pc \in {"up", "rollback"}
    <3>0. call[e] \in CallSet
      BY DEF DeskTypeOK
    <3>1. PICK m : m = [call[e] EXCEPT !.pc = "up", !.started = TRUE, !.created = (box[call[e].p] = "none")]
      OBVIOUS
    <3>2. m \in CallSet /\ m.p = call[e].p /\ m.pc = "up"
      BY <3>0, <3>1 DEF CallSet
    <3>3. PICK r : r = [call[e] EXCEPT !.pc = "rollback"]
      OBVIOUS
    <3>4. r \in CallSet /\ r.p = call[e].p /\ r.pc = "rollback"
      BY <3>0, <3>3 DEF CallSet
    <3>5. call' = [call EXCEPT ![e] = m] \/ call' = [call EXCEPT ![e] = r]
      BY <1>5, <3>1, <3>3 DEF StartContainer
    <3> QED BY <3>2, <3>4, <3>5
  <2>4. DeskTypeOK' /\ TakesLocked' /\ SweepLocked'
    BY <2>1, <2>2, <2>3 DEF DeskTypeOK, TakesLocked, SweepLocked
  <2>5. CallsLocked'
    BY <2>1, <2>3 DEF CallsLocked, DeskTypeOK, InProfileLock, InHostLock
  <2>6. Running' \subseteq Running \cup {call[e].p}
    BY <2>2 DEF Running, DeskTypeOK
  <2>7. Cardinality(Running') <= Quota
    BY <2>1, <2>6, OneMoreRuns
  <2> QED BY <2>4, <2>5, <2>7
<1>6. ASSUME NEW e \in Ensures, SeenRunning(e) PROVE DeskInv'
  <2>1. PICK pc \in {"screen", "rollback"} :
            /\ call' = [call EXCEPT ![e].pc = pc]
            /\ hlock' \in {hlock, Free}
    BY <1>6 DEF SeenRunning
  <2>2. /\ call[e].pc = "up" /\ fresh' \in [Profiles -> BOOLEAN]
        /\ UNCHANGED <<box, drifted, human, plock, take, sweep>>
    BY <1>6 DEF SeenRunning, DeskTypeOK
  <2>3. /\ call' \in [Ensures -> CallSet] /\ call'[e].pc = pc /\ call'[e].p = call[e].p
        /\ \A f \in Ensures : f # e => call'[f] = call[f]
    BY <2>1, CallMoves, CallRow
  <2>4. DeskTypeOK' /\ TakesLocked' /\ SweepLocked'
    BY <2>1, <2>2, <2>3 DEF DeskTypeOK, TakesLocked, SweepLocked
  <2>5. CallsLocked'
    BY <2>1, <2>2, <2>3, <1>r DEF CallsLocked, DeskTypeOK, InProfileLock, InHostLock
  <2> QED BY <2>2, <2>4, <2>5, <1>r
<1>7. ASSUME NEW e \in Ensures, ScreenUp(e) PROVE DeskInv'
  <2>1. /\ call[e].pc = "screen" /\ call[e].p \in Profiles /\ plock[call[e].p] = e
        /\ plock' \in {plock, [plock EXCEPT ![call[e].p] = Free]}
        /\ fresh' \in [Profiles -> BOOLEAN]
        /\ UNCHANGED <<box, drifted, human, hlock, take, sweep>>
    BY <1>7 DEF ScreenUp, DeskTypeOK, CallsLocked, InProfileLock
  <2>2. PICK n \in CallSet : /\ call' = [call EXCEPT ![e] = n]
                             /\ \/ n.pc \in {"ready", "done"}
                                \/ n.pc = "rollback" /\ n.p = call[e].p /\ UNCHANGED plock
    <3>0. call[e] \in CallSet
      BY DEF DeskTypeOK
    <3>1. PICK m : m = [call[e] EXCEPT !.pc = "ready"]
      OBVIOUS
    <3>2. PICK r : r = [call[e] EXCEPT !.pc = "rollback"]
      OBVIOUS
    <3>3. m \in CallSet /\ m.pc = "ready" /\ r \in CallSet /\ r.p = call[e].p /\ r.pc = "rollback"
      BY <3>0, <3>1, <3>2 DEF CallSet
    <3>4. \/ call' = [call EXCEPT ![e] = m] \/ call' = [call EXCEPT ![e] = CallOver]
          \/ call' = [call EXCEPT ![e] = r] /\ UNCHANGED plock
      BY <1>7, <3>1, <3>2 DEF ScreenUp
    <3> QED BY <3>3, <3>4, CallOverRow
  <2>3. DeskTypeOK' /\ TakesLocked' /\ SweepLocked'
    BY <2>1, <2>2 DEF DeskTypeOK, TakesLocked, SweepLocked
  <2>4. CallsLocked'
    BY <2>1, <2>2, <1>r DEF CallsLocked, DeskTypeOK, InProfileLock, InHostLock
  <2> QED BY <2>1, <2>3, <2>4, <1>r
<1>8. ASSUME NEW e \in Ensures, Rollback(e) PROVE DeskInv'
  <2>1. /\ call[e].pc = "rollback" /\ call[e].p \in Profiles /\ plock[call[e].p] = e
        /\ UNCHANGED <<fresh, human, take, sweep>>
        /\ call' = [call EXCEPT ![e] = CallOver]
        /\ hlock' = Unlocked(hlock, e) /\ plock' = [plock EXCEPT ![call[e].p] = Free]
    BY <1>8 DEF Rollback, CallsLocked, InProfileLock, Unlocked
  <2>2. PICK b \in Boxes : /\ box' = [box EXCEPT ![call[e].p] = b]
                           /\ b = "running" => box[call[e].p] = "running"
    BY <1>8, <2>1 DEF Rollback, Boxes, DeskTypeOK
  <2>3. drifted' \in [Profiles -> BOOLEAN]
    BY <1>8 DEF Rollback, DeskTypeOK
  <2>4. DeskTypeOK' /\ TakesLocked' /\ SweepLocked'
    <3>1. hlock' \in Ensures \cup {Free} /\ call' \in [Ensures -> CallSet]
      BY <2>1, CallOverRow DEF Unlocked, DeskTypeOK
    <3>2. DeskTypeOK'
      BY <2>1, <2>2, <2>3, <3>1 DEF DeskTypeOK
    <3>3. TakesLocked' /\ SweepLocked'
      BY <2>1 DEF DeskTypeOK, TakesLocked, SweepLocked
    <3> QED BY <3>2, <3>3
  <2>5. Running' \subseteq Running
    BY <2>1, <2>2 DEF Running, DeskTypeOK
  <2>6. CallsLocked'
    BY <2>1, <2>5, FewerRun, CallOverRow DEF CallsLocked, DeskTypeOK, InProfileLock, InHostLock, Unlocked
  <2>7. Cardinality(Running') <= Quota
    BY <2>5, FewerRun, FS_Subset, FS_CardinalityType DEF Running
  <2> QED BY <2>4, <2>6, <2>7
<1>9. ASSUME NEW e \in Ensures, BeginTurn(e) \/ LeaseWritten(e) \/ EndTurn(e) PROVE DeskInv'
  <2>1. /\ call[e].pc \in {"ready", "joining", "live", "leaving"} /\ fresh' \in [Profiles -> BOOLEAN]
        /\ UNCHANGED <<box, drifted, human, plock, hlock, take, sweep>>
    BY <1>9 DEF BeginTurn, LeaseWritten, EndTurn, DeskTypeOK
  <2>2. PICK n \in CallSet : /\ call' = [call EXCEPT ![e] = n]
                             /\ n.pc \in {"joining", "live", "leaving", "done"}
    <3>0. call[e] \in CallSet
      BY DEF DeskTypeOK
    <3>1. ASSUME NEW pc \in {"joining", "live", "leaving"}, call' = [call EXCEPT ![e].pc = pc]
          PROVE  \E n \in CallSet : /\ call' = [call EXCEPT ![e] = n]
                                    /\ n.pc \in {"joining", "live", "leaving", "done"}
      <4>1. PICK n : n = [call[e] EXCEPT !.pc = pc]
        OBVIOUS
      <4>2. n \in CallSet /\ n.pc = pc /\ call' = [call EXCEPT ![e] = n]
        BY <3>0, <3>1, <4>1 DEF CallSet
      <4> QED BY <4>2
    <3>2. \/ call' = [call EXCEPT ![e] = CallOver]
          \/ \E pc \in {"joining", "live", "leaving"} : call' = [call EXCEPT ![e].pc = pc]
      BY <1>9 DEF BeginTurn, LeaseWritten, EndTurn
    <3> QED BY <3>1, <3>2, CallOverRow
  <2>3. DeskTypeOK' /\ TakesLocked' /\ SweepLocked'
    BY <2>1, <2>2 DEF DeskTypeOK, TakesLocked, SweepLocked
  <2>4. CallsLocked'
    BY <2>1, <2>2, <1>r DEF CallsLocked, DeskTypeOK, InProfileLock, InHostLock
  <2> QED BY <2>1, <2>3, <2>4, <1>r
<1>10. ASSUME NEW e \in Ensures, GatewayDies(e) PROVE DeskInv'
  <2>1. /\ call' = [call EXCEPT ![e] = CallOver]
        /\ hlock' = Unlocked(hlock, e)
        /\ plock' = [p \in Profiles |-> Unlocked(plock[p], e)]
        /\ UNCHANGED <<box, drifted, fresh, human, take, sweep>>
    BY <1>10 DEF GatewayDies
  <2>2. /\ hlock' \in Ensures \cup {Free} /\ \A f \in Ensures : f # e /\ hlock = f => hlock' = f
        /\ plock' \in [Profiles -> Ensures \cup Takeovers \cup {Sweeper, Free}]
        /\ \A p \in Profiles : plock[p] # e => plock'[p] = plock[p]
    BY <2>1 DEF Unlocked, DeskTypeOK
  <2>3. DeskTypeOK' /\ TakesLocked' /\ SweepLocked'
    BY <2>1, <2>2, CallOverRow DEF DeskTypeOK, TakesLocked, SweepLocked
  <2>4. CallsLocked'
    BY <2>1, <2>2, <1>r, CallOverRow DEF CallsLocked, DeskTypeOK, InProfileLock, InHostLock
  <2> QED BY <2>1, <2>3, <2>4, <1>r
<1>11. ASSUME NEW k \in Takeovers, NEW p \in Profiles, TakeoverLock(k, p) PROVE DeskInv'
  <2>1. /\ plock[p] = Free /\ plock' = [plock EXCEPT ![p] = k]
        /\ take' = [take EXCEPT ![k] = [pc |-> "locked", p |-> p]]
        /\ UNCHANGED <<box, drifted, fresh, human, hlock, call, sweep>>
    BY <1>11 DEF TakeoverLock
  <2>2. DeskTypeOK' /\ TakesLocked' /\ SweepLocked'
    BY <2>1 DEF DeskTypeOK, TakesLocked, SweepLocked, TakeSet
  <2>3. CallsLocked'
    BY <2>1, <1>r DEF CallsLocked, DeskTypeOK, InProfileLock
  <2> QED BY <2>1, <2>2, <2>3, <1>r
<1>12. ASSUME NEW k \in Takeovers, TakeoverEnd(k) PROVE DeskInv'
  <2>1. /\ take[k].p \in Profiles /\ plock[take[k].p] = k
        /\ take' = [take EXCEPT ![k] = [NoTake EXCEPT !.pc = "done"]]
        /\ human' \in [Profiles -> BOOLEAN] /\ fresh' \in [Profiles -> BOOLEAN]
        /\ \A p \in Profiles : p # take[k].p => human'[p] = human[p]
        /\ plock' = [plock EXCEPT ![take[k].p] = Free]
        /\ UNCHANGED <<box, drifted, hlock, call, sweep>>
    BY <1>12 DEF TakeoverEnd, TakesLocked, DeskTypeOK, Unlocked
  <2>2. DeskTypeOK' /\ TakesLocked' /\ SweepLocked'
    BY <2>1 DEF DeskTypeOK, TakesLocked, SweepLocked, TakeSet, NoTake
  <2>3. CallsLocked'
    BY <2>1, <1>r DEF CallsLocked, DeskTypeOK, InProfileLock
  <2> QED BY <2>1, <2>2, <2>3, <1>r
<1>13. ASSUME NEW p \in Profiles, HandBack(p) \/ WindowPasses(p) \/ SpecChanges(p) PROVE DeskInv'
  <2>1. /\ drifted' \in [Profiles -> BOOLEAN] /\ fresh' \in [Profiles -> BOOLEAN]
        /\ human' \in [Profiles -> BOOLEAN] /\ \A q \in Profiles : human'[q] => human[q]
        /\ UNCHANGED <<box, plock, hlock, call, take, sweep>>
    BY <1>13 DEF HandBack, WindowPasses, SpecChanges, DeskTypeOK
  <2>2. DeskTypeOK' /\ TakesLocked' /\ SweepLocked'
    BY <2>1 DEF DeskTypeOK, TakesLocked, SweepLocked
  <2>3. CallsLocked'
    BY <2>1, <1>r DEF CallsLocked, InProfileLock
  <2> QED BY <2>1, <2>2, <2>3, <1>r
<1>14. ASSUME NEW p \in Profiles, ContainerExits(p) PROVE DeskInv'
  <2>1. /\ box' = [box EXCEPT ![p] = "stopped"]
        /\ UNCHANGED <<drifted, fresh, human, plock, hlock, call, take, sweep>>
    BY <1>14 DEF ContainerExits
  <2>2. DeskTypeOK' /\ TakesLocked' /\ SweepLocked'
    BY <2>1 DEF DeskTypeOK, TakesLocked, SweepLocked, Boxes
  <2>3. Running' \subseteq Running
    BY <2>1 DEF Running, DeskTypeOK
  <2>4. CallsLocked'
    BY <2>1, <2>3, FewerRun DEF CallsLocked, InProfileLock
  <2>5. Cardinality(Running') <= Quota
    BY <2>3, FewerRun, FS_Subset, FS_CardinalityType DEF Running
  <2> QED BY <2>2, <2>4, <2>5
<1>15. ASSUME NEW p \in Profiles, SweepRead(p) PROVE DeskInv'
  <2>1. /\ sweep' = [pc |-> "stale", p |-> p]
        /\ UNCHANGED <<box, drifted, fresh, human, plock, hlock, call, take>>
    BY <1>15 DEF SweepRead
  <2>2. DeskTypeOK' /\ TakesLocked' /\ SweepLocked'
    BY <2>1 DEF DeskTypeOK, TakesLocked, SweepLocked, SweepSet
  <2>3. CallsLocked'
    BY <2>1, <1>r DEF CallsLocked, InProfileLock
  <2> QED BY <2>1, <2>2, <2>3, <1>r
<1>16. CASE SweepLock \/ SweepCount \/ SweepHuman \/ SweepStop
  <2>1. sweep.p \in Profiles /\ sweep \in SweepSet
        /\ UNCHANGED <<drifted, fresh, human, hlock, call, take>>
    BY <1>16 DEF SweepLock, SweepCount, SweepHuman, SweepStop, SweepLocked, DeskTypeOK
  <2>2. PICK s \in SweepSet : /\ sweep' = s
                              /\ \/ /\ s.pc = "locked" /\ s.p = sweep.p /\ plock[sweep.p] = Free
                                    /\ plock' = [plock EXCEPT ![sweep.p] = Sweeper] /\ UNCHANGED box
                                 \/ /\ s.pc \in {"counted", "clear"} /\ s.p = sweep.p /\ UNCHANGED <<plock, box>>
                                    /\ plock[sweep.p] = Sweeper
                                    /\ s.pc = "clear" => ~human[sweep.p]
                                 \/ /\ s.pc = "idle" /\ UNCHANGED <<plock, box>>
                                 \/ /\ s.pc = "idle" /\ plock[sweep.p] = Sweeper
                                    /\ plock' = [plock EXCEPT ![sweep.p] = Free]
    <3>1. ASSUME NEW pc \in {"locked", "counted", "clear"}, SweepTo(pc)
          PROVE  sweep' \in SweepSet /\ sweep'.pc = pc /\ sweep'.p = sweep.p
      BY <2>1, <3>1 DEF SweepTo, SweepSet
    <3>2. ASSUME SweepTo("idle")
          PROVE  sweep' \in SweepSet /\ sweep'.pc = "idle"
      BY <2>1, <3>2 DEF SweepTo, SweepSet
    <3>3. CASE SweepLock
      BY <3>1, <3>2, <3>3 DEF SweepLock
    <3>4. CASE SweepCount
      BY <2>1, <3>1, <3>2, <3>4 DEF SweepCount, SweepSkips, SweepLocked
    <3>5. CASE SweepHuman
      BY <2>1, <3>1, <3>2, <3>5 DEF SweepHuman, SweepSkips, SweepLocked
    <3>6. CASE SweepStop
      BY <2>1, <3>2, <3>6 DEF SweepStop, SweepSkips, SweepLocked
    <3> QED BY <1>16, <3>3, <3>4, <3>5, <3>6
  <2>3. PICK b \in Boxes : /\ box' = [box EXCEPT ![sweep.p] = b]
                           /\ b = "running" => box[sweep.p] = "running"
    BY <1>16, <2>1 DEF SweepLock, SweepCount, SweepHuman, SweepStop, Boxes, DeskTypeOK
  <2>4. DeskTypeOK' /\ TakesLocked' /\ SweepLocked'
    BY <2>1, <2>2, <2>3 DEF DeskTypeOK, TakesLocked, SweepLocked
  <2>5. Running' \subseteq Running
    BY <2>1, <2>3 DEF Running, DeskTypeOK
  <2>6. CallsLocked'
    BY <2>1, <2>2, <2>5, FewerRun DEF CallsLocked, DeskTypeOK, InProfileLock
  <2>7. Cardinality(Running') <= Quota
    BY <2>5, FewerRun, FS_Subset, FS_CardinalityType DEF Running
  <2> QED BY <2>4, <2>6, <2>7
<1> QED BY <1>0, <1>1, <1>2, <1>3, <1>4, <1>5, <1>6, <1>7, <1>8, <1>9, <1>10, <1>11, <1>12, <1>13,
           <1>14, <1>15, <1>16
     DEF DeskNext

LEMMA DeskInvariant == DeskSpec => []DeskInv
  BY DeskStarts, DeskInductive, PTL DEF DeskSpec

\* However many gateways bring desktops up at once, and whichever of them dies, the host
\* runs no more containers than its quota (ensure, _check_quota).
THEOREM QuotaAlwaysHeld == DeskSpec => []QuotaHeld
<1>1. DeskInv => QuotaHeld
  BY DEF DeskInv, QuotaHeld
<1> QED BY <1>1, DeskInvariant, PTL

\* The sweep stops no container whose screen a person holds, wherever the takeover falls
\* (idle sweep, acquire_lease).
THEOREM HumanStaysKept == DeskSpec => HumanKept
<1>1. DeskInv => \A p \in Profiles : Swept(p) => ~human[p]
  BY DEF DeskInv, SweepLocked, Swept
<1> QED BY <1>1, DeskInvariant, PTL DEF HumanKept

-----------------------------------------------------------------------------
(* Viewers. *)

Attaching == {"open", "closed"}
HandingBack == {"handing", "release", "finish"}

\* A connection in use has its viewer; one that hands control back is alone with it, and
\* the registry knows.
SocketsKnown ==
    \A s \in Sockets :
        /\ sock[s].pc \in Attaching \cup HandingBack => sock[s].v \in Viewers
        /\ sock[s].pc \in HandingBack =>
              /\ giving[sock[s].v] /\ Attached(sock[s].v) = {}
              /\ \A t \in Sockets : t # s /\ sock[t].v = sock[s].v => sock[t].pc \notin HandingBack

\* The registry counts the connections.
SocketsCounted ==
    \A v \in Viewers : /\ count[v] = Cardinality(Attached(v))
                       /\ count[v] > 0 => v \in issued

\* Inductive.
ViewerInv == ViewerTypeOK /\ SocketsKnown /\ SocketsCounted

\* The connections a viewer is attached by, once one of them has moved.
By(conns, v) == {t \in Sockets : conns[t].v = v /\ conns[t].pc \in Attaching}

LEMMA AttachedBy == \A v : Attached(v) = By(sock, v)
  BY DEF Attached, By, Attaching

LEMMA AttachedByNext == \A v : Attached(v)' = By(sock', v)
  BY DEF Attached, By, Attaching

LEMMA AttachedFinite ==
    ASSUME NEW v
    PROVE  IsFiniteSet(Attached(v)) /\ Cardinality(Attached(v)) \in Nat
  BY ViewerAssumption, FS_Subset, FS_CardinalityType DEF Attached

\* A connection that stays with its viewer changes no count.
LEMMA CountsStay ==
    ASSUME ViewerInv, NEW s \in Sockets, NEW n \in SockSet, sock' = [sock EXCEPT ![s] = n],
           n.v = sock[s].v, n.pc \in Attaching <=> sock[s].pc \in Attaching,
           UNCHANGED <<issued, count>>
    PROVE  SocketsCounted' /\ \A v : Attached(v)' = Attached(v)
<1>1. sock \in [Sockets -> SockSet]
  BY DEF ViewerInv, ViewerTypeOK
<1>2. ASSUME NEW v PROVE By(sock', v) = By(sock, v)
  <2>1. s \in By(sock, v) <=> n.v = v /\ n.pc \in Attaching
    BY DEF By
  <2>2. ASSUME NEW t \in Sockets PROVE t \in By(sock', v) <=> t \in By(sock, v)
    BY <1>1, <2>1 DEF By
  <2>3. By(sock', v) \subseteq Sockets /\ By(sock, v) \subseteq Sockets
    BY DEF By
  <2> QED BY <2>2, <2>3
<1>3. \A v : Attached(v)' = Attached(v)
  BY <1>2, AttachedBy, AttachedByNext
<1> QED BY <1>3 DEF ViewerInv, SocketsCounted

LEMMA ViewerStarts == ViewerInit => ViewerInv
<1> SUFFICES ASSUME ViewerInit PROVE ViewerInv
  OBVIOUS
<1> USE ViewerAssumption DEF ViewerInit
<1>1. ViewerTypeOK /\ SocketsKnown
  BY DEF ViewerTypeOK, SockSet, NoSock, SocketsKnown, Attaching, HandingBack
<1>2. ASSUME NEW v \in Viewers PROVE count[v] = Cardinality(Attached(v)) /\ count[v] = 0
  <2>1. Attached(v) = {}
    BY DEF Attached, NoSock
  <2>2. Cardinality({}) = 0
    BY FS_EmptySet, Zenon
  <2> QED BY <2>1, <2>2
<1> QED BY <1>1, <1>2 DEF ViewerInv, SocketsCounted

LEMMA ViewerInductive == ViewerInv /\ [ViewerNext]_viewerVars => ViewerInv'
<1> SUFFICES ASSUME ViewerInv, [ViewerNext]_viewerVars PROVE ViewerInv'
  OBVIOUS
<1> USE ViewerAssumption DEF ViewerInv
<1>r. UNCHANGED sock => \A v : Attached(v)' = Attached(v)
  BY DEF Attached
<1>s. ASSUME NEW s \in Sockets
      PROVE  /\ sock[s] \in SockSet /\ sock[s].v \in Viewers \cup {Agent}
             /\ sock[s].pc \in Attaching \cup HandingBack => sock[s].v \in Viewers
  BY DEF ViewerTypeOK, SockSet, SocketsKnown
<1>0. CASE UNCHANGED viewerVars
  BY <1>0, <1>r DEF viewerVars, ViewerTypeOK, SocketsKnown, SocketsCounted
<1>1. ASSUME NEW v \in Viewers, Mint(v) \/ PruneViewer(v) PROVE ViewerInv'
  <2>1. /\ issued' \subseteq minted' /\ minted' \subseteq Viewers
        /\ \A w \in issued : count[w] = 0 \/ w \in issued'
        /\ UNCHANGED <<count, giving, holder, sock, leaseCall>>
    BY <1>1 DEF Mint, PruneViewer, Detached, Evictable, ViewerTypeOK
  <2>2. ViewerTypeOK'
    BY <2>1 DEF ViewerTypeOK
  <2>3. SocketsKnown'
    BY <2>1, <1>r DEF SocketsKnown
  <2>4. SocketsCounted'
    BY <2>1, <1>r DEF SocketsCounted
  <2> QED BY <2>2, <2>3, <2>4
<1>2. ASSUME NEW s \in Sockets, NEW v \in Viewers, ClaimSocket(s, v) PROVE ViewerInv'
  <2>1. /\ sock[s].pc = "none" /\ v \in issued /\ ~giving[v]
        /\ count' = [count EXCEPT ![v] = @ + 1]
        /\ UNCHANGED <<issued, minted, giving, holder, leaseCall>>
    BY <1>2 DEF ClaimSocket
  <2>2. PICK n \in SockSet : sock' = [sock EXCEPT ![s] = n] /\ n.pc = "open" /\ n.v = v
    <3>1. PICK n : n = [NoSock EXCEPT !.pc = "open", !.v = v, !.held = holder = v]
      OBVIOUS
    <3>2. n \in SockSet /\ n.pc = "open" /\ n.v = v
      BY <3>1 DEF SockSet, NoSock
    <3>3. sock' = [sock EXCEPT ![s] = n]
      BY <1>2, <3>1 DEF ClaimSocket
    <3> QED BY <3>2, <3>3
  <2>3. ViewerTypeOK'
    BY <2>1, <2>2 DEF ViewerTypeOK
  <2>4. /\ Attached(v)' = Attached(v) \cup {s} /\ s \notin Attached(v)
        /\ \A w : w # v => Attached(w)' = Attached(w)
    <3>1. /\ sock \in [Sockets -> SockSet] /\ \A w : s \notin By(sock, w)
      BY <2>1 DEF By, Attaching, ViewerTypeOK
    <3>2. By(sock', v) = By(sock, v) \cup {s}
      BY <2>2, <3>1 DEF By, Attaching
    <3>3. ASSUME NEW w, w # v PROVE By(sock', w) = By(sock, w)
      BY <2>2, <3>1, <3>3 DEF By
    <3> QED BY <3>1, <3>2, <3>3, AttachedBy, AttachedByNext
  <2>5. SocketsKnown'
    BY <2>1, <2>2, <2>4 DEF SocketsKnown, Attaching, HandingBack, ViewerTypeOK
  <2>6. Cardinality(Attached(v)') = Cardinality(Attached(v)) + 1
    BY <2>4, AttachedFinite, FS_AddElement
  <2>7. SocketsCounted'
    BY <2>1, <2>4, <2>6 DEF SocketsCounted, ViewerTypeOK
  <2> QED BY <2>3, <2>5, <2>7
<1>3. ASSUME NEW s \in Sockets, SeeLease(s) \/ SocketEnds(s) PROVE ViewerInv'
  <2>1. /\ sock[s].pc = "open" /\ UNCHANGED <<issued, minted, count, giving, holder, leaseCall>>
    BY <1>3 DEF SeeLease, SocketEnds
  <2>2. PICK n \in SockSet : /\ sock' = [sock EXCEPT ![s] = n] /\ n.pc \in Attaching
                             /\ n.v = sock[s].v
    <3>1. CASE SeeLease(s)
      <4>1. PICK m : m = [sock[s] EXCEPT !.pc = "closed"]
        OBVIOUS
      <4>2. PICK r : r = [sock[s] EXCEPT !.held =
                            IF holder = Agent THEN FALSE ELSE @ \/ holder = sock[s].v]
        OBVIOUS
      <4>3. m \in SockSet /\ m.pc = "closed" /\ m.v = sock[s].v
        BY <4>1, <1>s DEF SockSet
      <4>4. r \in SockSet /\ r.pc = "open" /\ r.v = sock[s].v
        BY <4>2, <1>s, <2>1 DEF SockSet
      <4>5. sock' = [sock EXCEPT ![s] = m] \/ sock' = [sock EXCEPT ![s] = r]
        BY <3>1, <4>1, <4>2 DEF SeeLease
      <4> QED BY <4>3, <4>4, <4>5 DEF Attaching
    <3>2. CASE SocketEnds(s)
      <4>1. PICK clean \in BOOLEAN : sock' = [sock EXCEPT ![s].pc = "closed", ![s].clean = clean]
        BY <3>2 DEF SocketEnds
      <4>2. PICK m : m = [sock[s] EXCEPT !.pc = "closed", !.clean = clean]
        OBVIOUS
      <4>3. m \in SockSet /\ m.pc = "closed" /\ m.v = sock[s].v
        BY <4>2, <1>s DEF SockSet
      <4>4. sock' = [sock EXCEPT ![s] = m]
        BY <4>1, <4>2
      <4> QED BY <4>3, <4>4 DEF Attaching
    <3> QED BY <1>3, <3>1, <3>2
  <2>3. SocketsCounted' /\ \A v : Attached(v)' = Attached(v)
    BY <2>1, <2>2, CountsStay DEF Attaching
  <2>4. ViewerTypeOK'
    BY <2>1, <2>2 DEF ViewerTypeOK
  <2>5. SocketsKnown'
    BY <2>1, <2>2, <2>3, <1>s DEF SocketsKnown, Attaching, HandingBack, ViewerTypeOK
  <2> QED BY <2>3, <2>4, <2>5
<1>4. ASSUME NEW s \in Sockets, ReleaseSocket(s) PROVE ViewerInv'
  <2>1. PICK v \in Viewers : v = sock[s].v
    BY <1>4, <1>s DEF ReleaseSocket, Attaching
  <2>2. /\ sock[s].pc = "closed" /\ count' = [count EXCEPT ![v] = @ - 1]
        /\ UNCHANGED <<issued, minted, holder, leaseCall>>
    BY <1>4, <2>1 DEF ReleaseSocket
  <2>3. PICK n \in SockSet : /\ sock' = [sock EXCEPT ![s] = n]
                             /\ \/ /\ n.pc = "handing" /\ n.v = v /\ count[v] = 1
                                   /\ giving' = [giving EXCEPT ![v] = TRUE]
                                \/ n.pc = "done" /\ UNCHANGED giving
    <3>1. PICK m : m = [sock[s] EXCEPT !.pc = "handing"]
      OBVIOUS
    <3>2. m \in SockSet /\ m.pc = "handing" /\ m.v = v
      BY <3>1, <2>1, <1>s DEF SockSet
    <3>3. SockOver \in SockSet /\ SockOver.pc = "done"
      BY DEF SockOver, NoSock, SockSet
    <3>4. CASE sock[s].clean /\ count[v] = 1
      BY <1>4, <2>1, <3>1, <3>2, <3>4 DEF ReleaseSocket
    <3>5. CASE ~(sock[s].clean /\ count[v] = 1)
      <4>1. giving' = [giving EXCEPT ![v] = giving[v]] /\ sock' = [sock EXCEPT ![s] = SockOver]
        BY <1>4, <2>1, <3>5 DEF ReleaseSocket, ViewerTypeOK
      <4>2. UNCHANGED giving
        BY <4>1 DEF ViewerTypeOK
      <4> QED BY <3>3, <4>1, <4>2
    <3> QED BY <3>4, <3>5
  <2>4. /\ s \in Attached(v) /\ Attached(v)' = Attached(v) \ {s}
        /\ \A w : w # v => Attached(w)' = Attached(w)
    <3>1. sock \in [Sockets -> SockSet] /\ s \in By(sock, v) /\ \A w : w # v => s \notin By(sock, w)
      BY <2>1, <2>2 DEF By, Attaching, ViewerTypeOK
    <3>2. n.pc \notin Attaching
      BY <2>3 DEF Attaching
    <3>3. By(sock', v) = By(sock, v) \ {s}
      BY <2>3, <3>1, <3>2 DEF By
    <3>4. ASSUME NEW w, w # v PROVE By(sock', w) = By(sock, w)
      BY <2>3, <3>1, <3>2, <3>4 DEF By
    <3> QED BY <3>1, <3>3, <3>4, AttachedBy, AttachedByNext
  <2>5. Cardinality(Attached(v)') = Cardinality(Attached(v)) - 1 /\ Cardinality(Attached(v)') \in Nat
    BY <2>4, AttachedFinite, FS_RemoveElement, FS_CardinalityType
  <2>6. count[v] = 1 => Attached(v)' = {}
    <3>1. ASSUME Cardinality(Attached(v)') = 0 PROVE Attached(v)' = {}
      BY <3>1, <2>4, AttachedFinite, FS_RemoveElement, FS_EmptySet
    <3> QED BY <3>1, <2>5 DEF SocketsCounted
  <2>7. ViewerTypeOK'
    <3>1. count[v] - 1 \in Nat
      BY <2>5 DEF SocketsCounted
    <3> QED BY <2>2, <2>3, <3>1 DEF ViewerTypeOK
  <2>8. SocketsKnown'
    <3>1. ASSUME NEW t \in Sockets, sock[t].v = v PROVE sock[t].pc \notin HandingBack
      BY <3>1, <2>1, <2>4 DEF SocketsKnown
    <3>2. ASSUME NEW t \in Sockets, t # s, sock'[t].pc \in Attaching \cup HandingBack
          PROVE  /\ sock'[t] = sock[t] /\ sock'[t].v \in Viewers
                 /\ sock'[t].pc \in HandingBack =>
                       sock'[t].v # v /\ giving'[sock'[t].v] /\ Attached(sock[t].v)' = {}
      BY <2>1, <2>3, <2>4, <3>1, <3>2 DEF SocketsKnown, ViewerTypeOK
    <3>3. CASE n.pc = "done"
      BY <2>3, <3>2, <3>3 DEF SocketsKnown, Attaching, HandingBack, ViewerTypeOK
    <3>4. CASE n.pc = "handing"
      <4>1. n.v = v /\ giving'[v] /\ Attached(v)' = {}
        BY <2>3, <2>6, <3>4 DEF ViewerTypeOK
      <4> QED BY <2>3, <3>2, <3>4, <4>1 DEF SocketsKnown, Attaching, HandingBack, ViewerTypeOK
    <3> QED BY <2>3, <3>3, <3>4
  <2>9. SocketsCounted'
    BY <2>2, <2>4, <2>5, <2>7 DEF SocketsCounted, ViewerTypeOK
  <2> QED BY <2>7, <2>8, <2>9
<1>5. ASSUME NEW s \in Sockets, HandCheck(s) \/ HandRelease(s) PROVE ViewerInv'
  <2>1. PICK pc \in {"release", "finish"} : sock' = [sock EXCEPT ![s].pc = pc]
    BY <1>5 DEF HandCheck, HandRelease
  <2>2. /\ sock[s].pc \in HandingBack /\ holder' \in Viewers \cup {Agent}
        /\ UNCHANGED <<issued, minted, count, giving, leaseCall>>
    BY <1>5 DEF HandCheck, HandRelease, HandingBack, Released, ViewerTypeOK
  <2>3. PICK n \in SockSet : sock' = [sock EXCEPT ![s] = n] /\ n.pc \in HandingBack /\ n.v = sock[s].v
    <3>1. PICK m : m = [sock[s] EXCEPT !.pc = pc]
      OBVIOUS
    <3>2. m \in SockSet /\ m.pc = pc /\ m.v = sock[s].v
      BY <3>1, <1>s DEF SockSet
    <3>3. sock' = [sock EXCEPT ![s] = m]
      BY <2>1, <3>1
    <3> QED BY <3>2, <3>3 DEF HandingBack
  <2>4. SocketsCounted' /\ \A v : Attached(v)' = Attached(v)
    BY <2>2, <2>3, CountsStay DEF Attaching, HandingBack
  <2>5. ViewerTypeOK'
    BY <2>2, <2>3 DEF ViewerTypeOK
  <2>6. SocketsKnown'
    BY <2>2, <2>3, <2>4 DEF SocketsKnown, Attaching, HandingBack, ViewerTypeOK
  <2> QED BY <2>4, <2>5, <2>6
<1>6. ASSUME NEW s \in Sockets, FinishRelease(s) PROVE ViewerInv'
  <2>1. /\ sock[s].pc = "finish" /\ sock[s].v \in Viewers
        /\ sock' = [sock EXCEPT ![s] = SockOver]
        /\ giving' = [giving EXCEPT ![sock[s].v] = FALSE]
        /\ UNCHANGED <<issued, minted, count, holder, leaseCall>>
    BY <1>6, <1>s DEF FinishRelease, HandingBack
  <2>2. SockOver \in SockSet /\ SockOver.pc = "done"
    BY DEF SockOver, NoSock, SockSet
  <2>3. \A v : Attached(v)' = Attached(v)
    <3>1. sock \in [Sockets -> SockSet] /\ \A v : s \notin By(sock, v)
      BY <2>1 DEF By, Attaching, ViewerTypeOK
    <3>2. SockOver.pc \notin Attaching
      BY <2>2 DEF Attaching
    <3>3. ASSUME NEW v PROVE By(sock', v) = By(sock, v)
      BY <2>1, <2>2, <3>1, <3>2 DEF By
    <3> QED BY <3>3, AttachedBy, AttachedByNext
  <2>4. ViewerTypeOK' /\ SocketsCounted'
    BY <2>1, <2>2, <2>3 DEF ViewerTypeOK, SocketsCounted
  <2>5. SocketsKnown'
    BY <2>1, <2>2, <2>3 DEF SocketsKnown, Attaching, HandingBack, ViewerTypeOK
  <2> QED BY <2>4, <2>5
<1>7. ASSUME NEW op \in {"acquire", "release", "force"}, NEW v \in Viewers, LeaseRequest(op, v)
      PROVE ViewerInv'
  <2>1. leaseCall' = <<op, v>> /\ UNCHANGED <<issued, minted, count, giving, holder, sock>>
    BY <1>7 DEF LeaseRequest
  <2> QED BY <2>1, <1>r DEF ViewerTypeOK, SocketsKnown, SocketsCounted
<1>8. CASE LeaseCall
  <2>1. holder' \in Viewers \cup {Agent}
    BY <1>8 DEF LeaseCall, Released, ViewerTypeOK
  <2>2. leaseCall' = Idle /\ UNCHANGED <<issued, minted, count, giving, sock>>
    BY <1>8 DEF LeaseCall
  <2> QED BY <2>1, <2>2, <1>r DEF ViewerTypeOK, SocketsKnown, SocketsCounted
<1> QED BY <1>0, <1>1, <1>2, <1>3, <1>4, <1>5, <1>6, <1>7, <1>8 DEF ViewerNext

LEMMA ViewerInvariant == ViewerSpec => []ViewerInv
  BY ViewerStarts, ViewerInductive, PTL DEF ViewerSpec

\* The registry counts each viewer's connections exactly and keeps one that has any, and a
\* hand-back under way meets no new connection of its viewer, for any number of viewers and
\* connections (claim_socket, release_socket, finish_release).
THEOREM HandBackStaysApart == ViewerSpec => []HandBackApart
<1>1. ViewerInv => HandBackApart
  BY DEF ViewerInv, HandBackApart, SocketsKnown, SocketsCounted, HandingBack
<1> QED BY <1>1, ViewerInvariant, PTL

-----------------------------------------------------------------------------
(* Submissions. *)

\* A request before it is submitted, on its entry, and the entry it leads.
LifeOf(r) ==
    /\ req[r] = "idle" <=> kind[r] = "none"
    /\ req[r] = "idle" => entry[r] = "none" /\ job[r] = "none" /\ r \notin held /\ claim[r] = Nobody
    /\ req[r] = "waiting" => on[r] \in Requests /\ entry[on[r]] # "none"
    /\ entry[r] # "none" => on[r] = r /\ claim[r] # Nobody
    /\ current = r <=> entry[r] \in {"preparing", "committed"}
    /\ entry[r] = "preparing" => \E q \in Requests : req[q] = "waiting" /\ on[q] = r
    /\ entry[r] \in {"none", "preparing", "cancelling"} => child[r] = "none"
    /\ entry[r] = "committed" <=> child[r] \in {"ready", "running"}
    /\ child[r] # "none" => marked /\ \A q \in Requests : child[q] # "none" => q = r
    /\ job[r] # "none" => kind[r] = "async" /\ child[r] = "over"
Lives == \A r \in Requests : LifeOf(r)

\* A request's claim is of its kind and its secrets, and is held for as long as the request
\* waits on an entry that may yet run.
ClaimOf(r) ==
    /\ r \in held => claim[r] # Nobody
    /\ claim[r] # Nobody => kind[claim[r]] = kind[r] /\ secret[claim[r]] = secret[r]
    /\ req[r] = "waiting" /\ (kind[r] = "async" \/ entry[on[r]] \in {"preparing", "committed"}) => r \in held
    /\ r \in held /\ kind[r] = "sync" => claim[r] = sClaim
Claimed ==
    /\ \A r \in Requests : ClaimOf(r)
    /\ aClaim # Nobody => kind[aClaim] = "async"
    /\ sClaim # Nobody => kind[sClaim] = "sync"
    /\ \A c \in Requests : aOwned[c] => aClaim = c /\ \E j \in Requests : job[j] \notin {"none", "removed"}

\* What ClaimsCounted says of the references.
Counted ==
    /\ \A c \in Requests : refs[c] = Cardinality({r \in held : claim[r] = c})
    /\ aClaim # Nobody => refs[aClaim] > 0 \/ aOwned[aClaim]
    /\ sClaim # Nobody => refs[sClaim] > 0

\* Answers and cached answers name runs of submitted requests.
Named ==
    /\ \A r \in Requests : served[r] # Nobody => kind[r] # "none" /\ kind[served[r]] # "none"
    /\ \A s \in Secrets : results[s] # Nobody => kind[results[s]] # "none"

\* OneHandler, and what it buys: one claim in force, that of everybody who holds one and of
\* the entry in flight; so what is shared is shared among equal secrets.
OneKind == \A r, q \in Requests : ~(kind[r] = "sync" /\ kind[q] = "async")
Shared ==
    /\ \A r \in held : kind[r] = "async" => claim[r] = aClaim
    /\ \A r \in held : current # Nobody => claim[r] = claim[current]
    /\ \A r \in Requests : req[r] = "waiting" => secret[on[r]] = secret[r]
    /\ \A s \in Secrets : results[s] # Nobody => secret[results[s]] = s
    /\ AnswersOwnSecrets

\* Inductive.
IngestInv == IngestTypeOK /\ Lives /\ Claimed /\ Counted /\ Named /\ (OneKind => Shared) /\ DirsOwned

LEMMA OneHandlerIs == OneHandler => OneKind
<1> SUFFICES ASSUME OneHandler, NEW r \in Requests, NEW q \in Requests, kind[r] = "sync", kind[q] = "async"
             PROVE  FALSE
  BY DEF OneKind
<1>1. {kind[r], kind[q]} = {"sync", "async"}
  OBVIOUS
<1> QED BY <1>1 DEF OneHandler

LEMMA HoldersFinite ==
    ASSUME IngestTypeOK, NEW c
    PROVE  IsFiniteSet({r \in held : claim[r] = c}) /\ Cardinality({r \in held : claim[r] = c}) \in Nat
<1>1. {r \in held : claim[r] = c} \subseteq Requests
  BY DEF IngestTypeOK
<1> QED BY <1>1, IngestAssumption, FS_Subset, FS_CardinalityType

\* What a request that gives its reference back changes in the counts.
LEMMA GivenBack ==
    ASSUME IngestInv, NEW r \in held, GiveBack(r), UNCHANGED claim
    PROVE  /\ claim[r] \in Requests /\ refs' \in [Requests -> Int]
           /\ \A c \in Requests : refs'[c] = Cardinality({q \in held' : claim'[q] = c})
           /\ \A c \in Requests : c # claim[r] => refs'[c] = refs[c]
           /\ refs'[claim[r]] = refs[claim[r]] - 1 /\ refs'[claim[r]] >= 0
           /\ refs'[claim[r]] = 0 => \A q \in held' : claim[q] # claim[r]
<1> USE DEF IngestInv
<1>1. claim[r] \in Requests /\ r \in Requests
  BY DEF IngestTypeOK, Claimed, ClaimOf
<1>2. held' = held \ {r} /\ refs' = [refs EXCEPT ![claim[r]] = @ - 1]
  BY DEF GiveBack
<1>3. /\ refs' \in [Requests -> Int] /\ refs'[claim[r]] = refs[claim[r]] - 1
      /\ \A c \in Requests : c # claim[r] => refs'[c] = refs[c]
  BY <1>1, <1>2 DEF IngestTypeOK
<1>4. ASSUME NEW c \in Requests, c # claim[r]
      PROVE  {q \in held' : claim'[q] = c} = {q \in held : claim[q] = c}
  BY <1>2, <1>4
<1>5. {q \in held' : claim'[q] = claim[r]} = {q \in held : claim[q] = claim[r]} \ {r}
  BY <1>2
<1>6. r \in {q \in held : claim[q] = claim[r]}
  OBVIOUS
<1>7. /\ Cardinality({q \in held : claim[q] = claim[r]} \ {r}) = Cardinality({q \in held : claim[q] = claim[r]}) - 1
      /\ IsFiniteSet({q \in held : claim[q] = claim[r]} \ {r})
      /\ Cardinality({q \in held : claim[q] = claim[r]} \ {r}) \in Nat
  <2>1. PICK S : S = {q \in held : claim[q] = claim[r]}
    OBVIOUS
  <2>2. S \subseteq Requests /\ r \in S
    BY <2>1, <1>6 DEF IngestTypeOK
  <2>3. IsFiniteSet(S)
    BY <2>2, IngestAssumption, FS_Subset
  <2>4. Cardinality(S \ {r}) = Cardinality(S) - 1 /\ IsFiniteSet(S \ {r})
    BY <2>2, <2>3, FS_RemoveElement
  <2> QED BY <2>1, <2>4, FS_CardinalityType
<1>8. \A c \in Requests : refs'[c] = Cardinality({q \in held' : claim'[q] = c})
  <2> TAKE c \in Requests
  <2>1. CASE c = claim[r]
    BY <2>1, <1>1, <1>3, <1>5, <1>7 DEF Counted
  <2>2. CASE c # claim[r]
    BY <2>2, <1>3, <1>4 DEF Counted
  <2> QED BY <2>1, <2>2
<1>9. refs'[claim[r]] >= 0
  BY <1>1, <1>3, <1>5, <1>7, <1>8
<1>10. ASSUME refs'[claim[r]] = 0 PROVE \A q \in held' : claim[q] # claim[r]
  <2>1. Cardinality({q \in held : claim[q] = claim[r]} \ {r}) = 0
    BY <1>10, <1>1, <1>5, <1>8
  <2>2. {q \in held : claim[q] = claim[r]} \ {r} = {}
    BY <2>1, <1>7, FS_EmptySet
  <2> QED BY <2>2, <1>2
<1> QED BY <1>1, <1>3, <1>8, <1>9, <1>10

\* The claims after one was let go: the one in force goes with its last holder.
Lets(r) ==
    /\ claim' = claim /\ held' \in {held, held \ {r}}
    /\ aClaim' \in {aClaim, Nobody} /\ (aClaim' # aClaim => \A q \in held' : claim[q] # aClaim)
    /\ sClaim' \in {sClaim, Nobody} /\ (sClaim' # sClaim => \A q \in held' : claim[q] # sClaim)
    /\ refs' \in [Requests -> Int]

LEMMA AsyncReleased ==
    ASSUME IngestInv, NEW r \in held, kind[r] = "async", ReleaseAsyncClaim(r), UNCHANGED <<claim, aOwned, sClaim>>
    PROVE  /\ Counted' /\ Lets(r) /\ r \notin held'
           /\ \A c \in Requests : aOwned[c] => aClaim' = aClaim
<1> USE DEF IngestInv
<1>1. GiveBack(r) /\ aClaim' = IF refs[claim[r]] = 1 /\ ~aOwned[claim[r]] /\ aClaim = claim[r] THEN Nobody ELSE aClaim
  BY DEF ReleaseAsyncClaim
<1>2. /\ claim[r] \in Requests /\ refs' \in [Requests -> Int]
      /\ \A c \in Requests : refs'[c] = Cardinality({q \in held' : claim'[q] = c})
      /\ \A c \in Requests : c # claim[r] => refs'[c] = refs[c]
      /\ refs'[claim[r]] = refs[claim[r]] - 1 /\ refs'[claim[r]] >= 0
      /\ refs'[claim[r]] = 0 => \A q \in held' : claim[q] # claim[r]
  BY <1>1, GivenBack
<1>3. held' = held \ {r} /\ refs[claim[r]] \in Int
  BY <1>1, <1>2 DEF GiveBack, IngestTypeOK
<1>4. aClaim' # Nobody => refs'[aClaim'] > 0 \/ aOwned'[aClaim']
  BY <1>1, <1>2, <1>3 DEF Counted, IngestTypeOK
<1>5. sClaim' # Nobody => refs'[sClaim'] > 0
  <2>1. sClaim # claim[r] /\ r \in Requests
    BY <1>2, IngestAssumption DEF Claimed, ClaimOf, IngestTypeOK
  <2> QED BY <2>1, <1>2 DEF Counted, IngestTypeOK
<1>6. Lets(r)
  BY <1>1, <1>2, <1>3 DEF Lets
<1>7. \A c \in Requests : aOwned[c] => aClaim' = aClaim
  BY <1>1 DEF Claimed
<1> QED BY <1>2, <1>3, <1>4, <1>5, <1>6, <1>7 DEF Counted

LEMMA SyncReleased ==
    ASSUME IngestInv, NEW r \in Requests, kind[r] = "sync", ReleaseSyncClaim(r), UNCHANGED <<claim, aOwned, aClaim>>
    PROVE  Counted' /\ Lets(r) /\ r \notin held'
<1> USE DEF IngestInv
<1>0. CASE r \notin held
  <2>1. UNCHANGED <<refs, held, sClaim>>
    BY <1>0 DEF ReleaseSyncClaim
  <2> QED BY <1>0, <2>1 DEF Counted, Lets, IngestTypeOK
<1>a. CASE r \in held
  <2>1. GiveBack(r) /\ sClaim' = IF refs[claim[r]] = 1 /\ sClaim = claim[r] THEN Nobody ELSE sClaim
    BY <1>a DEF ReleaseSyncClaim
  <2>2. /\ claim[r] \in Requests /\ refs' \in [Requests -> Int]
        /\ \A c \in Requests : refs'[c] = Cardinality({q \in held' : claim'[q] = c})
        /\ \A c \in Requests : c # claim[r] => refs'[c] = refs[c]
        /\ refs'[claim[r]] = refs[claim[r]] - 1 /\ refs'[claim[r]] >= 0
        /\ refs'[claim[r]] = 0 => \A q \in held' : claim[q] # claim[r]
    BY <1>a, <2>1, GivenBack
  <2>3. held' = held \ {r} /\ refs[claim[r]] \in Int
    BY <2>1, <2>2 DEF GiveBack, IngestTypeOK
  <2>4. sClaim' # Nobody => refs'[sClaim'] > 0
    BY <2>1, <2>2, <2>3 DEF Counted, IngestTypeOK
  <2>5. aClaim' # Nobody => refs'[aClaim'] > 0 \/ aOwned'[aClaim']
    <3>1. aClaim # claim[r]
      BY <1>a, <2>2, IngestAssumption DEF Claimed, ClaimOf, IngestTypeOK
    <3> QED BY <3>1, <2>2 DEF Counted, IngestTypeOK
  <2>6. Lets(r)
    BY <2>1, <2>2, <2>3 DEF Lets
  <2> QED BY <2>2, <2>3, <2>4, <2>5, <2>6 DEF Counted
<1> QED BY <1>0, <1>a

LEMMA ClaimCommitted ==
    ASSUME IngestTypeOK, NEW r \in Requests, claim[r] \in Requests, CommitSyncClaim(r)
    PROVE  sCommit' \in [Requests -> BOOLEAN] /\ print' \in Secrets \cup {Nobody}
<1>1. sCommit \in [Requests -> BOOLEAN] /\ print \in Secrets \cup {Nobody} /\ secret[claim[r]] \in Secrets \cup {Nobody}
  BY DEF IngestTypeOK
<1>2. CASE sCommit[claim[r]]
  BY <1>1, <1>2 DEF CommitSyncClaim
<1>3. CASE ~sCommit[claim[r]]
  BY <1>1, <1>3 DEF CommitSyncClaim
<1> QED BY <1>2, <1>3

LEMMA IngestStarts == IngestInit => IngestInv
<1> SUFFICES ASSUME IngestInit PROVE IngestInv
  OBVIOUS
<1> USE IngestAssumption DEF IngestInit
<1>0. refs \in [Requests -> Int] /\ {aClaim, sClaim} \subseteq Requests \cup {Nobody} /\ held \in SUBSET Requests
  OBVIOUS
<1>1. IngestTypeOK /\ DirsOwned
  BY <1>0 DEF IngestTypeOK, DirsOwned
<1>2. Lives /\ Claimed /\ Named
  BY DEF Lives, LifeOf, Claimed, ClaimOf, Named
<1>3. Shared
  BY DEF Shared, AnswersOwnSecrets
<1>4. Counted
  <2>1. ASSUME NEW c PROVE {r \in held : claim[r] = c} = {}
    OBVIOUS
  <2>2. Cardinality({}) = 0
    BY FS_EmptySet, Zenon
  <2> QED BY <2>1, <2>2 DEF Counted
<1> QED BY <1>1, <1>2, <1>3, <1>4 DEF IngestInv

\* What is said of a submission that is answered without a claim.
LEMMA AnsweredAtOnce ==
    ASSUME IngestInv, NEW r \in Requests, NEW s \in Secrets, NEW k \in {"sync", "async"}, NEW a \in Answers,
           NEW run \in Requests \cup {Nobody}, req[r] = "idle",
           run # Nobody => kind[run] # "none" /\ (OneKind => secret[run] = s),
           kind' = [kind EXCEPT ![r] = k], secret' = [secret EXCEPT ![r] = s], Answer(r, a, run),
           UNCHANGED <<on, entryVars, runVars, claimVars, results>>
    PROVE  IngestInv'
<1> USE IngestAssumption DEF IngestInv
<1>1. /\ req' = [req EXCEPT ![r] = a] /\ a # "idle" /\ a # "waiting" /\ served' = [served EXCEPT ![r] = run]
      /\ UNCHANGED <<on, entry, given, current, marked, child, dir, task, job, aClaim, aOwned, sClaim, sCommit,
                     refs, claim, held, print, results>>
  BY DEF Answer, Answers, entryVars, runVars, claimVars
<1>2. kind[r] = "none" /\ claim[r] = Nobody /\ r \notin held /\ entry[r] = "none" /\ job[r] = "none"
  BY DEF Lives, LifeOf
<1>3. /\ kind'[r] = k /\ secret'[r] = s /\ req'[r] = a /\ served'[r] = run
      /\ \A q \in Requests : q # r => /\ kind'[q] = kind[q] /\ secret'[q] = secret[q]
                                      /\ req'[q] = req[q] /\ served'[q] = served[q]
  BY <1>1 DEF IngestTypeOK
<1>4. IngestTypeOK' /\ DirsOwned'
  BY <1>1 DEF IngestTypeOK, DirsOwned
<1>5. Lives'
  <2> SUFFICES ASSUME NEW q \in Requests PROVE LifeOf(q)'
    BY DEF Lives
  <2>1. LifeOf(q) /\ LifeOf(r)
    BY DEF Lives
  <2>2. entry[q] = "preparing" => \E p \in Requests : p # r /\ req[p] = "waiting" /\ on[p] = q
    BY <2>1 DEF LifeOf
  <2>3. CASE q = r
    BY <1>1, <1>2, <1>3, <2>1, <2>3 DEF LifeOf
  <2>4. CASE q # r
    BY <1>1, <1>2, <1>3, <2>1, <2>2, <2>4 DEF LifeOf
  <2> QED BY <2>3, <2>4
<1>6. \A q \in Requests : claim[q] # Nobody => claim[q] \in Requests /\ claim[q] # r /\ q # r
  BY <1>2 DEF Claimed, ClaimOf, Lives, LifeOf, IngestTypeOK
<1>7. Claimed'
  <2>1. ASSUME NEW q \in Requests PROVE ClaimOf(q)'
    <3>1. ClaimOf(q)
      BY DEF Claimed
    <3> QED BY <1>1, <1>3, <1>6, <3>1 DEF ClaimOf
  <2>2. aClaim # r /\ sClaim # r
    BY <1>2 DEF Claimed
  <2> QED BY <1>1, <1>3, <2>1, <2>2 DEF Claimed, IngestTypeOK
<1>8. Counted'
  BY <1>1 DEF Counted
<1>9. \A q \in Requests : served[q] # Nobody => served[q] # r
  BY <1>2 DEF Named
<1>10. \A t \in Secrets : results[t] # Nobody => results[t] # r
  BY <1>2 DEF Named
<1>11. Named'
  BY <1>1, <1>2, <1>3, <1>9, <1>10 DEF Named, IngestTypeOK
<1>12. ASSUME OneKind' PROVE OneKind /\ Shared'
  <2>1. OneKind
    BY <1>12, <1>2, <1>3 DEF OneKind
  <2>2. \A q \in Requests : req[q] = "waiting" => on[q] \in Requests /\ on[q] # r /\ q # r
    BY <1>2 DEF Lives, LifeOf
  <2>3. Shared
    BY <2>1
  <2>4. \A q \in Requests : served'[q] # Nobody => secret'[served'[q]] = secret'[q]
    <3> TAKE q \in Requests
    <3>1. CASE q = r
      <4>1. run # Nobody => run # r
        BY <1>2
      <4> QED BY <3>1, <4>1, <1>3, <2>1
    <3>2. CASE q # r
      BY <3>2, <1>3, <1>9, <2>3 DEF Shared, AnswersOwnSecrets, IngestTypeOK
    <3> QED BY <3>1, <3>2
  <2>5. \A t \in Secrets : results[t] # Nobody => secret'[results[t]] = t
    BY <1>3, <1>10, <2>3 DEF Shared, IngestTypeOK
  <2>6. \A q \in held : kind'[q] = kind[q]
    BY <1>2, <1>3 DEF IngestTypeOK
  <2> QED BY <1>1, <1>2, <1>3, <2>1, <2>2, <2>3, <2>4, <2>5, <2>6 DEF Shared, AnswersOwnSecrets
<1> QED BY <1>4, <1>5, <1>7, <1>8, <1>11, <1>12

\* A submission that takes a claim, that in force or its own, and waits on the entry in
\* flight or leads one.
LEMMA Enters ==
    ASSUME IngestInv, NEW r \in Requests, NEW s \in Secrets, NEW k \in {"sync", "async"},
           NEW inForce \in {aClaim, sClaim}, inForce = (IF k = "async" THEN aClaim ELSE sClaim),
           req[r] = "idle", inForce # Nobody => secret[inForce] = s, ~Unobserved,
           kind' = [kind EXCEPT ![r] = k], secret' = [secret EXCEPT ![r] = s], TakeClaim(r, inForce), Enter(r),
           k = "async" => aClaim' = claim'[r] /\ task' = [task EXCEPT ![r] = "parked"] /\ UNCHANGED sClaim,
           k = "sync" => sClaim' = claim'[r] /\ UNCHANGED <<task, aClaim>>,
           UNCHANGED <<served, given, marked, child, dir, job, aOwned, sCommit, print, results>>
    PROVE  IngestInv'
<1> USE IngestAssumption DEF IngestInv
<1>1. PICK c \in Requests : c = IF inForce = Nobody THEN r ELSE inForce
  BY DEF IngestTypeOK
<1>2. /\ claim' = [claim EXCEPT ![r] = c] /\ refs' = [refs EXCEPT ![c] = @ + 1] /\ held' = held \cup {r}
      /\ req' = [req EXCEPT ![r] = "waiting"]
      /\ UNCHANGED <<served, given, marked, child, dir, job, aOwned, sCommit, print, results>>
  BY <1>1 DEF TakeClaim, Enter
<1>3. PICK e \in Requests :
          /\ on' = [on EXCEPT ![r] = e] /\ current' = e
          /\ \/ e = r /\ current = Nobody /\ entry' = [entry EXCEPT ![r] = "preparing"]
             \/ e = current /\ UNCHANGED entry
  BY DEF Enter, IngestTypeOK
<1>4. /\ kind[r] = "none" /\ claim[r] = Nobody /\ r \notin held /\ entry[r] = "none" /\ job[r] = "none"
      /\ child[r] = "none"
  BY DEF Lives, LifeOf
<1>5. /\ kind'[r] = k /\ secret'[r] = s /\ req'[r] = "waiting" /\ claim'[r] = c /\ on'[r] = e
      /\ \A q \in Requests : q # r => /\ kind'[q] = kind[q] /\ secret'[q] = secret[q] /\ on'[q] = on[q]
                                      /\ req'[q] = req[q] /\ claim'[q] = claim[q]
  BY <1>2, <1>3 DEF IngestTypeOK
<1>6. /\ aClaim' = IF k = "async" THEN c ELSE aClaim
      /\ sClaim' = IF k = "sync" THEN c ELSE sClaim
      /\ inForce # Nobody => c = inForce
      /\ inForce = Nobody => c = r
  BY <1>1, <1>5
<1>7. kind'[c] = k /\ secret'[c] = s
  BY <1>4, <1>5, <1>6 DEF Claimed
<1>8. IngestTypeOK'
  <2>1. task' \in [Requests -> {"none", "parked", "over"}]
    BY DEF IngestTypeOK
  <2>2. refs' \in [Requests -> Int] /\ {aClaim', sClaim'} \subseteq Requests \cup {Nobody} /\ held' \in SUBSET Requests
    BY <1>2, <1>6 DEF IngestTypeOK
  <2>3. entry' \in [Requests -> {"none", "preparing", "cancelling", "committed"} \cup Ended]
    BY <1>3 DEF IngestTypeOK
  <2>4. claim' \in [Requests -> Requests \cup {Nobody}] /\ on' \in [Requests -> Requests \cup {Nobody}]
    BY <1>2, <1>3 DEF IngestTypeOK
  <2>5. /\ req' \in [Requests -> {"idle", "waiting"} \cup Answers]
        /\ kind' \in [Requests -> {"none", "sync", "async"}] /\ secret' \in [Requests -> Secrets \cup {Nobody}]
    BY <1>2 DEF IngestTypeOK
  <2> QED BY <1>2, <1>3, <2>1, <2>2, <2>3, <2>4, <2>5 DEF IngestTypeOK
<1>9. \A q \in Requests : q # r => entry'[q] = entry[q]
  BY <1>3 DEF IngestTypeOK
<1>10. e # r => entry[e] \in {"preparing", "committed"} /\ entry' = entry
  BY <1>3 DEF Lives, LifeOf
<1>11. e = r => entry'[r] = "preparing" /\ current = Nobody
  BY <1>3, <1>4 DEF Lives, LifeOf, IngestTypeOK
<1>12. Lives'
  <2> SUFFICES ASSUME NEW q \in Requests PROVE LifeOf(q)'
    BY DEF Lives
  <2>1. LifeOf(q)
    BY DEF Lives
  <2>2. req'[q] = "idle" <=> kind'[q] = "none"
    BY <2>1, <1>5 DEF LifeOf
  <2>3. req'[q] = "idle" => entry'[q] = "none" /\ job'[q] = "none" /\ q \notin held' /\ claim'[q] = Nobody
    BY <2>1, <1>2, <1>5, <1>9 DEF LifeOf
  <2>4. req'[q] = "waiting" => on'[q] \in Requests /\ entry'[on'[q]] # "none"
    BY <2>1, <1>5, <1>9, <1>10, <1>11 DEF LifeOf
  <2>5. entry'[q] # "none" => on'[q] = q /\ claim'[q] # Nobody
    BY <2>1, <1>4, <1>5, <1>9, <1>10 DEF LifeOf
  <2>6. current' = q <=> entry'[q] \in {"preparing", "committed"}
    BY <2>1, <1>3, <1>4, <1>9, <1>10, <1>11 DEF LifeOf
  <2>7. entry'[q] = "preparing" => \E p \in Requests : req'[p] = "waiting" /\ on'[p] = q
    <3>1. CASE q = e
      BY <3>1, <1>5
    <3>2. CASE q # e
      <4>1. ASSUME entry'[q] = "preparing" PROVE \E p \in Requests : p # r /\ req[p] = "waiting" /\ on[p] = q
        BY <4>1, <3>2, <2>1, <1>4, <1>9, <1>10 DEF LifeOf
      <4> QED BY <4>1, <1>5
    <3> QED BY <3>1, <3>2
  <2>8. /\ entry'[q] \in {"none", "preparing", "cancelling"} => child'[q] = "none"
        /\ entry'[q] = "committed" <=> child'[q] \in {"ready", "running"}
    <3>1. CASE q = r
      BY <3>1, <1>2, <1>4, <1>10, <1>11
    <3>2. CASE q # r
      BY <3>2, <2>1, <1>2, <1>9 DEF LifeOf
    <3> QED BY <3>1, <3>2
  <2>9. /\ child'[q] # "none" => marked' /\ \A p \in Requests : child'[p] # "none" => p = q
        /\ job'[q] # "none" => kind'[q] = "async" /\ child'[q] = "over"
    BY <2>1, <1>2, <1>4, <1>5 DEF LifeOf
  <2> QED BY <2>2, <2>3, <2>4, <2>5, <2>6, <2>7, <2>8, <2>9 DEF LifeOf
<1>13. \A q \in Requests : claim[q] # Nobody => claim[q] \in Requests /\ claim[q] # r /\ q # r
  BY <1>4 DEF Claimed, ClaimOf, Lives, LifeOf, IngestTypeOK
<1>14. aClaim # r /\ sClaim # r
  BY <1>4 DEF Claimed
<1>15. \A q \in held : q # r /\ q \in Requests /\ claim[q] # Nobody /\ kind[claim[q]] = kind[q]
  BY <1>4 DEF Claimed, ClaimOf, IngestTypeOK
<1>16. \A q \in held : kind[q] = "sync" => claim[q] = sClaim
  BY DEF Claimed, ClaimOf, IngestTypeOK
<1>17. Claimed'
  <2>1. ASSUME NEW q \in Requests PROVE ClaimOf(q)'
    <3>1. ClaimOf(q) /\ LifeOf(q)
      BY DEF Claimed, Lives
    <3>2. CASE q = r
      BY <3>2, <1>2, <1>5, <1>6, <1>7 DEF ClaimOf
    <3>3. CASE q # r
      <4>1. req'[q] = "waiting" => on'[q] = on[q] /\ on[q] # r /\ entry'[on'[q]] = entry[on[q]]
        BY <3>1, <3>3, <1>4, <1>5, <1>9 DEF LifeOf
      <4>2. q \in held /\ kind[q] = "sync" => sClaim' = sClaim
        BY <3>1, <1>6 DEF ClaimOf
      <4> QED BY <3>1, <3>3, <4>1, <4>2, <1>2, <1>5, <1>13 DEF ClaimOf
    <3> QED BY <3>2, <3>3
  <2>2. aClaim' # Nobody => kind'[aClaim'] = "async"
    BY <1>5, <1>6, <1>7, <1>14 DEF Claimed, IngestTypeOK
  <2>3. sClaim' # Nobody => kind'[sClaim'] = "sync"
    BY <1>5, <1>6, <1>7, <1>14 DEF Claimed, IngestTypeOK
  <2>4. \A d \in Requests : aOwned'[d] => aClaim' = d /\ \E j \in Requests : job'[j] \notin {"none", "removed"}
    BY <1>2, <1>6 DEF Claimed
  <2> QED BY <2>1, <2>2, <2>3, <2>4 DEF Claimed
<1>18. Counted'
  <2>1. ASSUME NEW d \in Requests, d # c
        PROVE  {q \in held' : claim'[q] = d} = {q \in held : claim[q] = d}
    BY <2>1, <1>2, <1>5, <1>15
  <2>2. {q \in held' : claim'[q] = c} = {q \in held : claim[q] = c} \cup {r}
    BY <1>2, <1>5, <1>15
  <2>3. PICK S : S = {q \in held : claim[q] = c}
    OBVIOUS
  <2>4. IsFiniteSet(S) /\ r \notin S
    BY <2>3, <1>4, HoldersFinite
  <2>5. Cardinality(S \cup {r}) = Cardinality(S) + 1 /\ Cardinality(S) \in Nat
    BY <2>4, FS_AddElement, FS_CardinalityType
  <2>6. /\ refs'[c] = refs[c] + 1 /\ refs[c] = Cardinality(S)
        /\ \A d \in Requests : d # c => refs'[d] = refs[d]
    BY <1>2, <2>3 DEF Counted, IngestTypeOK
  <2>7. \A d \in Requests : refs'[d] = Cardinality({q \in held' : claim'[q] = d})
    <3> TAKE d \in Requests
    <3>1. CASE d = c
      BY <3>1, <2>2, <2>3, <2>5, <2>6
    <3>2. CASE d # c
      BY <3>2, <2>1, <2>6 DEF Counted
    <3> QED BY <3>1, <3>2
  <2>8. refs'[c] > 0
    BY <2>5, <2>6
  <2>9. (aClaim' # Nobody => refs'[aClaim'] > 0 \/ aOwned'[aClaim']) /\ (sClaim' # Nobody => refs'[sClaim'] > 0)
    BY <1>2, <1>6, <2>6, <2>8 DEF Counted, IngestTypeOK
  <2> QED BY <2>7, <2>9 DEF Counted
<1>19. /\ \A q \in Requests : served[q] # Nobody => q # r /\ served[q] # r /\ served[q] \in Requests
       /\ \A t \in Secrets : results[t] # Nobody => results[t] # r /\ results[t] \in Requests
  BY <1>4 DEF Named, IngestTypeOK
<1>20. Named'
  BY <1>2, <1>5, <1>19 DEF Named
<1>21. ASSUME OneKind' PROVE Shared'
  <2>1. OneKind /\ \A q \in Requests : q # r /\ kind[q] # "none" => kind[q] = k
    BY <1>21, <1>4, <1>5 DEF OneKind, IngestTypeOK
  <2>2. Shared
    BY <2>1
  <2>3. \A q \in held : claim[q] = inForce
    <3> TAKE q \in held
    <3>1. kind[q] = k
      BY <1>15, <2>1 DEF Lives, LifeOf, IngestTypeOK
    <3> QED BY <3>1, <2>2, <1>16 DEF Shared
  <2>4. \A q \in held : claim[q] = c /\ inForce = c
    BY <2>3, <1>6, <1>15
  <2>5. current = e => \E q \in Requests : q \in held /\ on[q] = e /\ req[q] = "waiting"
    <3>1. ASSUME current = e PROVE \E q \in Requests : req[q] = "waiting" /\ on[q] = e
      BY <3>1, IngestAssumption DEF Unobserved, Peers, Lives, LifeOf
    <3>2. ASSUME NEW q \in Requests, req[q] = "waiting", on[q] = e, current = e PROVE q \in held
      BY <3>2 DEF Claimed, ClaimOf, Lives, LifeOf
    <3> QED BY <3>1, <3>2
  <2>6. current = e => claim[e] = c /\ secret[e] = s /\ e # r
    <3>1. ASSUME current = e PROVE claim[e] = c /\ secret[e] = s /\ e # r
      <4>1. PICK q \in Requests : q \in held /\ on[q] = e /\ req[q] = "waiting"
        BY <3>1, <2>5
      <4>2. claim[q] = c /\ claim[e] = c /\ inForce = c
        BY <4>1, <2>4, <2>2, <3>1, IngestAssumption DEF Shared
      <4>3. secret[q] = s
        BY <4>1, <4>2, IngestAssumption DEF Claimed, ClaimOf
      <4>4. e # r
        BY <3>1, <1>4 DEF Lives, LifeOf
      <4> QED BY <4>1, <4>2, <4>3, <4>4, <2>2 DEF Shared
    <3> QED BY <3>1
  <2>7. \A q \in held' : kind'[q] = "async" => claim'[q] = aClaim'
    BY <1>2, <1>5, <1>6, <1>15, <2>1, <2>2, <2>4 DEF Shared, Lives, LifeOf, IngestTypeOK
  <2>8. \A q \in held' : claim'[q] = c
    BY <1>2, <1>5, <1>15, <2>4
  <2>9. claim'[e] = c /\ secret'[e] = s
    BY <1>3, <1>5, <2>6
  <2>10. \A q \in Requests : req'[q] = "waiting" => secret'[on'[q]] = secret'[q]
    <3> TAKE q \in Requests
    <3>1. CASE q = r
      BY <3>1, <1>5, <2>9
    <3>2. CASE q # r
      <4>1. req[q] = "waiting" => on[q] # r /\ on[q] \in Requests
        BY <1>4 DEF Lives, LifeOf
      <4> QED BY <3>2, <4>1, <1>5, <2>2 DEF Shared
    <3> QED BY <3>1, <3>2
  <2>11. \A t \in Secrets : results'[t] # Nobody => secret'[results'[t]] = t
    BY <1>2, <1>5, <1>19, <2>2 DEF Shared
  <2>12. \A q \in Requests : served'[q] # Nobody => secret'[served'[q]] = secret'[q]
    BY <1>2, <1>5, <1>19, <2>2 DEF Shared, AnswersOwnSecrets
  <2> QED BY <1>3, <2>7, <2>8, <2>9, <2>10, <2>11, <2>12 DEF Shared, AnswersOwnSecrets
<1>22. DirsOwned'
  BY <1>2, <1>4 DEF DirsOwned, IngestTypeOK
<1> QED BY <1>8, <1>12, <1>17, <1>18, <1>20, <1>21, <1>22

LEMMA Submitted ==
    ASSUME IngestInv, NEW r \in Requests, NEW s \in Secrets, SubmitAsync(r, s) \/ SubmitSync(r, s)
    PROVE  IngestInv'
<1> USE IngestAssumption DEF IngestInv
<1>0. {"accepted", "mismatch", "full", "pending", "replay"} \subseteq Answers
  BY DEF Answers
<1>1. CASE SubmitAsync(r, s)
  <2>1. /\ req[r] = "idle" /\ kind' = [kind EXCEPT ![r] = "async"] /\ secret' = [secret EXCEPT ![r] = s]
        /\ UNCHANGED <<given, marked, child, dir, job, aOwned, sClaim, sCommit, print, results>>
    BY <1>1 DEF SubmitAsync
  <2>2. \A j \in Known(s) : j \in Requests /\ kind[j] # "none" /\ secret[j] = s
    BY DEF Known, Lives, LifeOf
  <2>3. CASE \/ Answer(r, "mismatch", Nobody) \/ Answer(r, "full", Nobody) \/ Answer(r, "pending", Nobody)
             \/ \E j \in Known(s) : Answer(r, "accepted", j)
    <3>1. CASE UNCHANGED <<on, entry, current, task, aClaim, refs, claim, held>>
      <4>1. PICK a \in Answers, run \in Requests \cup {Nobody} :
               /\ Answer(r, a, run)
               /\ run # Nobody => kind[run] # "none" /\ secret[run] = s
        BY <2>2, <2>3, <1>0
      <4>2. UNCHANGED <<on, entryVars, runVars, claimVars, results>>
        BY <2>1, <3>1 DEF entryVars, runVars, claimVars
      <4> QED BY <2>1, <4>1, <4>2, AnsweredAtOnce
    <3>2. CASE Enter(r)
      BY <2>3, <3>2, <1>0 DEF Enter, Answer, IngestTypeOK
    <3> QED BY <1>1, <3>1, <3>2 DEF SubmitAsync
  <2>4. CASE /\ ~AsyncMismatch(s) /\ ~Unobserved /\ TakeClaim(r, aClaim) /\ aClaim' = claim'[r]
             /\ task' = [task EXCEPT ![r] = "parked"] /\ Enter(r) /\ UNCHANGED served
    <3>1. aClaim # Nobody => secret[aClaim] = s
      BY <2>4 DEF AsyncMismatch
    <3> QED BY <2>1, <2>4, <3>1, Enters
  <2> QED BY <1>1, <2>3, <2>4 DEF SubmitAsync
<1>2. CASE SubmitSync(r, s)
  <2>1. /\ req[r] = "idle" /\ kind' = [kind EXCEPT ![r] = "sync"] /\ secret' = [secret EXCEPT ![r] = s]
        /\ UNCHANGED <<given, marked, child, dir, task, job, aClaim, aOwned, sCommit, print, results>>
    BY <1>2 DEF SubmitSync, runVars
  <2>2. CASE \/ Answer(r, "mismatch", Nobody) \/ Answer(r, "pending", Nobody)
             \/ results[s] # Nobody /\ Answer(r, "replay", results[s])
    <3>1. CASE UNCHANGED <<on, entry, current, sClaim, refs, claim, held>>
      <4>1. PICK a \in Answers, run \in Requests \cup {Nobody} :
               /\ Answer(r, a, run)
               /\ run # Nobody => kind[run] # "none" /\ (OneKind => secret[run] = s)
        BY <2>2, <1>0 DEF Named, Shared, IngestTypeOK
      <4>2. UNCHANGED <<on, entryVars, runVars, claimVars, results>>
        BY <2>1, <3>1 DEF entryVars, runVars, claimVars
      <4> QED BY <2>1, <4>1, <4>2, AnsweredAtOnce
    <3>2. CASE Enter(r)
      BY <2>2, <3>2, <1>0 DEF Enter, Answer, IngestTypeOK
    <3> QED BY <1>2, <3>1, <3>2 DEF SubmitSync
  <2>3. CASE /\ ~SyncMismatch(s) /\ ~Unobserved /\ TakeClaim(r, sClaim) /\ sClaim' = claim'[r]
             /\ Enter(r) /\ UNCHANGED served
    <3>1. sClaim # Nobody => secret[sClaim] = s
      BY <2>3 DEF SyncMismatch
    <3> QED BY <2>1, <2>3, <3>1, Enters
  <2> QED BY <1>2, <2>2, <2>3 DEF SubmitSync
<1> QED BY <1>1, <1>2

\* What no step after the submission touches is kept by itself; and so are the claims while
\* no reference is taken or given.
LEMMA ClaimsRest ==
    ASSUME IngestInv, UNCHANGED <<req, kind, secret, served, on, claimVars, results>>,
           \A r \in Requests : /\ entry'[r] \in {"preparing", "committed"} => entry[r] \in {"preparing", "committed"}
                               /\ job[r] \notin {"none", "removed"} => job'[r] \notin {"none", "removed"},
           current' \in {current, Nobody}
    PROVE  Claimed' /\ Counted' /\ Named' /\ (OneKind' => Shared')
<1> USE DEF IngestInv
<1>1. Counted' /\ Named'
  BY DEF claimVars, Counted, Named
<1>2. \A q \in Requests : ClaimOf(q)'
  <2> TAKE q \in Requests
  <2>1. ClaimOf(q) /\ (req[q] = "waiting" => on[q] \in Requests)
    BY DEF Claimed, Lives, LifeOf
  <2> QED BY <2>1 DEF claimVars, ClaimOf
<1>3. Claimed'
  BY <1>2 DEF claimVars, Claimed
<1>4. OneKind' => Shared'
  BY DEF OneKind, claimVars, Shared, AnswersOwnSecrets
<1> QED BY <1>1, <1>3, <1>4

LEMMA CommitEntryKeeps ==
    ASSUME IngestInv, NEW e \in Requests, CommitEntry(e)
    PROVE  IngestInv'
<1> USE IngestAssumption DEF IngestInv
<1>1. /\ entry[e] = "preparing" /\ ~marked /\ marked' = TRUE
      /\ entry' = [entry EXCEPT ![e] = "committed"] /\ dir' = [dir EXCEPT ![e] = "staged"]
      /\ child' = [child EXCEPT ![e] = "ready"]
      /\ UNCHANGED <<req, kind, secret, served, on, given, current, task, job, claimVars, results>>
  BY DEF CommitEntry, reqVars
<1>2. IngestTypeOK'
  BY <1>1 DEF IngestTypeOK, claimVars
<1>3. Claimed' /\ Counted' /\ Named' /\ (OneKind' => Shared')
  BY <1>1, ClaimsRest DEF IngestTypeOK
<1>4. \A q \in Requests : child[q] = "none" /\ job[q] = "none"
  BY <1>1 DEF Lives, LifeOf
<1>5. Lives'
  <2> SUFFICES ASSUME NEW q \in Requests PROVE LifeOf(q)'
    BY DEF Lives
  <2>1. LifeOf(q)
    BY DEF Lives
  <2>2. CASE q = e
    BY <1>1, <1>4, <2>1, <2>2 DEF LifeOf, claimVars, IngestTypeOK
  <2>3. CASE q # e
    BY <1>1, <1>4, <2>1, <2>3 DEF LifeOf, claimVars, IngestTypeOK
  <2> QED BY <2>2, <2>3
<1>6. DirsOwned'
  BY <1>1, <1>4 DEF DirsOwned, IngestTypeOK
<1> QED BY <1>2, <1>3, <1>5, <1>6

LEMMA StartSyncKeeps ==
    ASSUME IngestInv, NEW e \in Requests, StartSync(e)
    PROVE  IngestInv'
<1> USE IngestAssumption DEF IngestInv
<1>1. /\ child[e] = "ready" /\ kind[e] = "sync" /\ child' = [child EXCEPT ![e] = "running"] /\ CommitSyncClaim(e)
      /\ UNCHANGED <<req, kind, secret, served, on, entry, given, current, marked, dir, task, job, aClaim,
                     aOwned, sClaim, refs, claim, held, results>>
  BY DEF StartSync, reqVars, entryVars
<1>2. claim[e] \in Requests
  BY <1>1 DEF Lives, LifeOf, IngestTypeOK
<1>3. sCommit' \in [Requests -> BOOLEAN] /\ print' \in Secrets \cup {Nobody}
  BY <1>1, <1>2, ClaimCommitted
<1>4. IngestTypeOK'
  BY <1>1, <1>3 DEF IngestTypeOK
<1>5. Lives'
  <2> SUFFICES ASSUME NEW q \in Requests PROVE LifeOf(q)'
    BY DEF Lives
  <2>1. LifeOf(q)
    BY DEF Lives
  <2> QED BY <1>1, <2>1 DEF LifeOf, IngestTypeOK
<1>6. Claimed' /\ Counted' /\ Named' /\ (OneKind' => Shared')
  BY <1>1 DEF Claimed, ClaimOf, Counted, Named, OneKind, Shared, AnswersOwnSecrets
<1>7. DirsOwned'
  BY <1>1 DEF DirsOwned, IngestTypeOK
<1> QED BY <1>4, <1>5, <1>6, <1>7

LEMMA JobKeeps ==
    ASSUME IngestInv, NEW e \in Requests, StartJob(e) \/ EndJob(e) \/ KillTask(e)
    PROVE  IngestInv'
<1> USE IngestAssumption DEF IngestInv
<1>1. UNCHANGED <<req, kind, secret, served, on, entry, given, current, marked, child, claimVars, results>>
  BY DEF StartJob, EndJob, KillTask, reqVars, entryVars
<1>2. PICK j \in {"none", "running", "ended", "removed"}, t \in {"parked", "over"}, d \in {"none", "staged", "gone"} :
          /\ job' = [job EXCEPT ![e] = j] /\ task' = [task EXCEPT ![e] = t] /\ dir' = [dir EXCEPT ![e] = d]
          /\ j = "none" <=> job[e] = "none"
          /\ j = "removed" <=> job[e] = "removed"
          /\ j = "running" => t = "parked" /\ job[e] = "pending"
          /\ \/ /\ d = dir[e]
                /\ j = job[e] \/ (j = "running" /\ job[e] = "pending")
                /\ job[e] \in {"pending", "running"} => t = "parked"
             \/ d = "gone" /\ j = "ended" /\ job[e] \in {"pending", "running"}
    <2>0. /\ job = [job EXCEPT ![e] = job[e]] /\ task = [task EXCEPT ![e] = task[e]] /\ dir = [dir EXCEPT ![e] = dir[e]]
          /\ dir[e] \in {"none", "staged", "gone"} /\ job[e] \in {"none", "pending", "running", "ended", "removed"}
      BY DEF IngestTypeOK
    <2>1. CASE StartJob(e)
      BY <2>0, <2>1 DEF StartJob
    <2>2. CASE EndJob(e)
      BY <2>2 DEF EndJob
    <2>3. CASE KillTask(e)
      <3>1. CASE job[e] \in {"pending", "running"}
        BY <2>3, <3>1 DEF KillTask
      <3>2. CASE job[e] \notin {"pending", "running"}
        BY <2>0, <2>3, <3>2 DEF KillTask
      <3> QED BY <3>1, <3>2
    <2> QED BY <2>1, <2>2, <2>3
<1>3. IngestTypeOK'
  BY <1>1, <1>2 DEF IngestTypeOK, claimVars
<1>4. /\ \A q \in Requests : q # e => job'[q] = job[q] /\ task'[q] = task[q] /\ dir'[q] = dir[q]
      /\ job'[e] = j /\ task'[e] = t /\ dir'[e] = d
  BY <1>2 DEF IngestTypeOK
<1>5. Claimed' /\ Counted' /\ Named' /\ (OneKind' => Shared')
  <2>1. \A q \in Requests : job[q] \notin {"none", "removed"} => job'[q] \notin {"none", "removed"}
    BY <1>2, <1>4
  <2> QED BY <1>1, <2>1, ClaimsRest
<1>6. Lives'
  <2> SUFFICES ASSUME NEW q \in Requests PROVE LifeOf(q)'
    BY DEF Lives
  <2>1. LifeOf(q) /\ (job'[q] = "none" <=> job[q] = "none")
    BY <1>2, <1>4 DEF Lives
  <2> QED BY <1>1, <2>1 DEF LifeOf, claimVars
<1>7. DirsOwned'
  <2> SUFFICES ASSUME NEW q \in Requests
               PROVE  /\ dir'[q] = "staged" <=> child'[q] \in {"ready", "running"} \/ job'[q] \in {"pending", "running"}
                      /\ job'[q] \in {"pending", "running"} => task'[q] = "parked"
    BY DEF DirsOwned
  <2>1. /\ dir[q] = "staged" <=> child[q] \in {"ready", "running"} \/ job[q] \in {"pending", "running"}
        /\ job[q] \in {"pending", "running"} => task[q] = "parked" /\ child[q] = "over"
    BY DEF DirsOwned, Lives, LifeOf
  <2>2. CASE q # e
    BY <2>1, <2>2, <1>1, <1>4
  <2>3. CASE q = e
    BY <2>1, <2>3, <1>1, <1>2, <1>4
  <2> QED BY <2>2, <2>3
<1> QED BY <1>3, <1>5, <1>6, <1>7

LEMMA RemoveJobKeeps ==
    ASSUME IngestInv, NEW e \in Requests, RemoveJob(e)
    PROVE  IngestInv'
<1> USE IngestAssumption DEF IngestInv
<1>1. /\ job[e] = "ended" /\ job' = [job EXCEPT ![e] = "removed"]
      /\ UNCHANGED <<req, kind, secret, served, on, entry, given, current, marked, child, dir, task, sClaim,
                     sCommit, refs, claim, held, print, results>>
  BY DEF RemoveJob, reqVars, entryVars
<1>2. \/ aClaim = Nobody /\ UNCHANGED <<aClaim, aOwned>>
      \/ /\ aClaim # Nobody /\ aClaim \in Requests /\ aOwned' = [aOwned EXCEPT ![aClaim] = FALSE]
         /\ aClaim' = IF refs[aClaim] = 0 THEN Nobody ELSE aClaim
  BY DEF RemoveJob, IngestTypeOK
<1>3. \A c \in Requests : ~aOwned'[c]
  BY <1>2 DEF Claimed, IngestTypeOK
<1>4. aClaim' \in {aClaim, Nobody}
  BY <1>2
<1>5. IngestTypeOK'
  <2>0. aOwned \in [Requests -> BOOLEAN] /\ aClaim \in Requests \cup {Nobody} /\ sClaim \in Requests \cup {Nobody}
    BY DEF IngestTypeOK
  <2>1. aOwned' \in [Requests -> BOOLEAN]
    BY <2>0, <1>2
  <2>2. {aClaim', sClaim'} \subseteq Requests \cup {Nobody}
    BY <2>0, <1>1, <1>4
  <2> QED BY <1>1, <2>1, <2>2 DEF IngestTypeOK
<1>6. aClaim' # aClaim => \A q \in held : claim[q] # aClaim
  <2> SUFFICES ASSUME aClaim' # aClaim, NEW q \in held, claim[q] = aClaim PROVE FALSE
    OBVIOUS
  <2>1. aClaim \in Requests /\ Cardinality({p \in held : claim[p] = aClaim}) = 0
    BY <1>2 DEF Counted
  <2>2. PICK S : S = {p \in held : claim[p] = aClaim}
    OBVIOUS
  <2>3. S = {}
    BY <2>1, <2>2, HoldersFinite, FS_EmptySet
  <2> QED BY <2>2, <2>3
<1>7. Lives'
  <2> SUFFICES ASSUME NEW q \in Requests PROVE LifeOf(q)'
    BY DEF Lives
  <2>1. LifeOf(q) /\ (job'[q] = "none" <=> job[q] = "none")
    BY <1>1 DEF Lives, IngestTypeOK
  <2> QED BY <1>1, <2>1 DEF LifeOf
<1>8. Claimed'
  <2>1. \A q \in Requests : ClaimOf(q)'
    BY <1>1 DEF Claimed, ClaimOf
  <2> QED BY <1>1, <1>3, <1>4, <2>1 DEF Claimed
<1>9. Counted'
  <2>1. aClaim' # Nobody => refs[aClaim'] > 0
    <3>1. ASSUME aClaim' # Nobody PROVE refs[aClaim] > 0
      <4>1. aClaim \in Requests /\ refs[aClaim] # 0
        BY <1>2, <3>1
      <4>2. refs[aClaim] \in Nat
        BY <4>1, HoldersFinite DEF Counted
      <4> QED BY <4>1, <4>2
    <3> QED BY <3>1, <1>4
  <2> QED BY <1>1, <2>1 DEF Counted
<1>10. Named' /\ (OneKind' => Shared')
  BY <1>1, <1>6 DEF Named, OneKind, Shared, AnswersOwnSecrets
<1>11. DirsOwned'
  BY <1>1 DEF DirsOwned, IngestTypeOK
<1> QED BY <1>5, <1>7, <1>8, <1>9, <1>10, <1>11

LEMMA ForgetKeeps ==
    ASSUME IngestInv, ForgetPrint \/ \E s \in Secrets : ForgetResult(s)
    PROVE  IngestInv'
<1> USE IngestAssumption DEF IngestInv
<1>1. /\ UNCHANGED <<req, kind, secret, served, on, entry, given, current, marked, child, dir, task, job, aClaim,
                     aOwned, sClaim, sCommit, refs, claim, held>>
      /\ print' \in {print, Nobody}
      /\ results' \in [Secrets -> Requests \cup {Nobody}]
      /\ \A t \in Secrets : results'[t] \in {results[t], Nobody}
  BY DEF ForgetPrint, ForgetResult, reqVars, entryVars, runVars, claimVars, IngestTypeOK
<1>2. IngestTypeOK' /\ Claimed' /\ Counted' /\ DirsOwned'
  BY <1>1 DEF IngestTypeOK, Claimed, ClaimOf, Counted, DirsOwned
<1>3. Lives' /\ Named' /\ (OneKind' => Shared')
  BY <1>1 DEF Lives, LifeOf, Named, OneKind, Shared, AnswersOwnSecrets
<1> QED BY <1>2, <1>3

\* The claims when an entry ends and its leader's reference, if it was the entry's, with it.
LEMMA EntryEnds ==
    ASSUME IngestInv, NEW e \in Requests, NEW how \in Ended, entry[e] # "none",
           entry' = [entry EXCEPT ![e] = how], current' = (IF current = e THEN Nobody ELSE current),
           UNCHANGED <<req, kind, secret, served, on, job, aClaim, aOwned, results>>,
           Lets(e), kind[e] = "sync" \/ UNCHANGED held
    PROVE  Claimed' /\ Named' /\ (OneKind' => Shared')
<1> USE IngestAssumption DEF IngestInv
<1>1. how \notin {"none", "preparing", "committed", "cancelling"}
  BY DEF Ended
<1>2. entry'[e] = how /\ \A q \in Requests : q # e => entry'[q] = entry[q]
  BY DEF IngestTypeOK
<1>3. /\ claim' = claim /\ held' \in {held, held \ {e}}
      /\ sClaim' \in {sClaim, Nobody} /\ (sClaim' # sClaim => \A q \in held' : claim[q] # sClaim)
  BY DEF Lets
<1>4. ASSUME NEW q \in Requests PROVE ClaimOf(q)'
  <2>1. ClaimOf(q) /\ LifeOf(q) /\ LifeOf(e)
    BY DEF Claimed, Lives
  <2>2. q \in held' => claim'[q] # Nobody
    BY <2>1, <1>3 DEF ClaimOf
  <2>3. claim'[q] # Nobody => kind'[claim'[q]] = kind'[q] /\ secret'[claim'[q]] = secret'[q]
    BY <2>1, <1>3 DEF ClaimOf
  <2>4. req[q] = "waiting" /\ (kind[q] = "async" \/ entry'[on[q]] \in {"preparing", "committed"}) => q \in held'
    <3>1. CASE q = e
      BY <3>1, <2>1, <1>1, <1>2, <1>3 DEF LifeOf, ClaimOf
    <3>2. CASE q # e
      BY <3>2, <2>1, <1>1, <1>2, <1>3 DEF LifeOf, ClaimOf
    <3> QED BY <3>1, <3>2
  <2>5. q \in held' /\ kind[q] = "sync" => claim[q] = sClaim'
    BY <2>1, <1>3 DEF ClaimOf
  <2> QED BY <2>2, <2>3, <2>4, <2>5, <1>3 DEF ClaimOf
<1>5. Claimed'
  BY <1>3, <1>4 DEF Claimed
<1>6. Named'
  BY DEF Named
<1>7. OneKind' => Shared'
  BY <1>3 DEF OneKind, Shared, AnswersOwnSecrets
<1> QED BY <1>5, <1>6, <1>7

\* And what becomes of the requests and entries.
LEMMA EntryEndsLives ==
    ASSUME IngestInv, NEW e \in Requests, NEW how \in Ended, entry[e] # "none",
           entry' = [entry EXCEPT ![e] = how], current' = (IF current = e THEN Nobody ELSE current),
           UNCHANGED <<req, kind, on, marked, claim>>, held' \subseteq held,
           \A q \in Requests : q # e => child'[q] = child[q] /\ job'[q] = job[q],
           child'[e] \in {"none", "over"}, child'[e] = "none" <=> child[e] = "none",
           job'[e] # "none" => kind[e] = "async" /\ child'[e] = "over"
    PROVE  Lives'
<1> USE IngestAssumption DEF IngestInv
<1>1. how \notin {"none", "preparing", "committed", "cancelling"}
  BY DEF Ended
<1>2. entry'[e] = how /\ \A q \in Requests : q # e => entry'[q] = entry[q]
  BY DEF IngestTypeOK
<1> SUFFICES ASSUME NEW q \in Requests PROVE LifeOf(q)'
  BY DEF Lives
<1>3. LifeOf(q) /\ LifeOf(e)
  BY DEF Lives
<1>4. CASE q = e
  BY <1>1, <1>2, <1>3, <1>4 DEF LifeOf
<1>5. CASE q # e
  <2>1. req[q] = "waiting" => on[q] \in Requests /\ entry'[on[q]] # "none"
    BY <1>1, <1>2, <1>3 DEF LifeOf
  <2>2. current' = q <=> entry'[q] \in {"preparing", "committed"}
    BY <1>2, <1>3, <1>5 DEF LifeOf
  <2>3. child'[q] # "none" => marked' /\ \A p \in Requests : child'[p] # "none" => p = q
    BY <1>3, <1>5 DEF LifeOf
  <2> QED BY <2>1, <2>2, <2>3, <1>2, <1>3, <1>5 DEF LifeOf
<1> QED BY <1>4, <1>5

LEMMA EndUncommittedKeeps ==
    ASSUME IngestInv, NEW e \in Requests, NEW how \in Ended, EndUncommitted(e, how)
    PROVE  IngestInv'
<1> USE IngestAssumption DEF IngestInv
<1>1. /\ entry[e] \in {"preparing", "cancelling"}
      /\ entry' = [entry EXCEPT ![e] = how] /\ current' = (IF current = e THEN Nobody ELSE current)
      /\ UNCHANGED <<req, kind, secret, served, on, given, marked, child, dir, job, aClaim, aOwned, sCommit,
                     claim, print, results>>
      /\ Abandon(e)
  BY DEF EndUncommitted, EndEntry, reqVars
<1>2. kind[e] \in {"sync", "async"} /\ child[e] = "none" /\ job[e] = "none"
  BY <1>1 DEF Lives, LifeOf, IngestTypeOK
<1>3. Counted' /\ Lets(e) /\ (kind[e] = "sync" \/ UNCHANGED held)
  <2>1. CASE kind[e] = "async"
    <3>1. UNCHANGED <<refs, held, sClaim>>
      BY <1>1, <2>1 DEF Abandon
    <3> QED BY <1>1, <2>1, <3>1 DEF Counted, Lets, IngestTypeOK
  <2>2. CASE kind[e] = "sync"
    BY <1>1, <2>2, SyncReleased DEF Abandon
  <2> QED BY <1>2, <2>1, <2>2
<1>4. Claimed' /\ Named' /\ (OneKind' => Shared')
  BY <1>1, <1>3, EntryEnds
<1>5. Lives'
  <2>1. held' \subseteq held
    BY <1>3 DEF Lets
  <2> QED BY <1>1, <1>2, <2>1, EntryEndsLives
<1>6. task' \in [Requests -> {"none", "parked", "over"}] /\ \A q \in Requests : q # e => task'[q] = task[q]
  BY <1>1 DEF Abandon, IngestTypeOK
<1>7. IngestTypeOK'
  <2>0. aClaim \in Requests \cup {Nobody} /\ sClaim \in Requests \cup {Nobody} /\ held \subseteq Requests
    BY DEF IngestTypeOK
  <2>1. /\ {aClaim', sClaim'} \subseteq Requests \cup {Nobody} /\ held' \in SUBSET Requests
        /\ refs' \in [Requests -> Int]
    <3>1. aClaim' \in Requests \cup {Nobody} /\ sClaim' \in Requests \cup {Nobody}
      BY <1>3, <2>0 DEF Lets
    <3>2. held' \subseteq Requests /\ refs' \in [Requests -> Int]
      BY <1>3, <2>0 DEF Lets
    <3> QED BY <3>1, <3>2
  <2>2. /\ entry' \in [Requests -> {"none", "preparing", "cancelling", "committed"} \cup Ended]
        /\ current' \in Requests \cup {Nobody}
    BY <1>1 DEF IngestTypeOK
  <2> QED BY <1>1, <1>6, <2>1, <2>2 DEF IngestTypeOK
<1>8. DirsOwned'
  BY <1>1, <1>2, <1>6 DEF DirsOwned
<1> QED BY <1>3, <1>4, <1>5, <1>7, <1>8

LEMMA FinishSyncKeeps ==
    ASSUME IngestInv, NEW e \in Requests, NEW how \in Ended, FinishSync(e, how)
    PROVE  IngestInv'
<1> USE IngestAssumption DEF IngestInv
<1>1. /\ kind[e] = "sync" /\ child[e] \in {"ready", "running"}
      /\ child' = [child EXCEPT ![e] = "over"] /\ dir' = [dir EXCEPT ![e] = "gone"]
      /\ entry' = [entry EXCEPT ![e] = how] /\ current' = (IF current = e THEN Nobody ELSE current)
      /\ CommitSyncClaim(e) /\ ReleaseSyncClaim(e)
      /\ UNCHANGED <<req, kind, secret, served, on, given, marked, task, job, aClaim, aOwned, claim, results>>
  BY DEF FinishSync, EndEntry, reqVars
<1>2. entry[e] = "committed" /\ claim[e] \in Requests /\ job[e] = "none"
  BY <1>1 DEF Lives, LifeOf, IngestTypeOK
<1>3. Counted' /\ Lets(e)
  BY <1>1, SyncReleased
<1>4. Claimed' /\ Named' /\ (OneKind' => Shared')
  BY <1>1, <1>2, <1>3, EntryEnds
<1>5. child'[e] = "over" /\ \A q \in Requests : q # e => child'[q] = child[q] /\ dir'[q] = dir[q]
  BY <1>1 DEF IngestTypeOK
<1>6. Lives'
  <2>1. held' \subseteq held
    BY <1>3 DEF Lets
  <2>2. child[e] # "none"
    BY <1>1
  <2> QED BY <1>1, <1>2, <1>5, <2>1, <2>2, EntryEndsLives
<1>7. IngestTypeOK'
  <2>1. /\ {aClaim', sClaim'} \subseteq Requests \cup {Nobody} /\ held' \in SUBSET Requests
        /\ refs' \in [Requests -> Int]
    BY <1>1, <1>3 DEF Lets, IngestTypeOK
  <2>2. /\ entry' \in [Requests -> {"none", "preparing", "cancelling", "committed"} \cup Ended]
        /\ current' \in Requests \cup {Nobody}
    BY <1>1 DEF IngestTypeOK
  <2>3. sCommit' \in [Requests -> BOOLEAN] /\ print' \in Secrets \cup {Nobody}
    BY <1>1, <1>2, ClaimCommitted
  <2>4. /\ child' \in [Requests -> {"none", "ready", "running", "over"}]
        /\ dir' \in [Requests -> {"none", "staged", "gone"}]
    BY <1>1 DEF IngestTypeOK
  <2> QED BY <1>1, <2>1, <2>2, <2>3, <2>4 DEF IngestTypeOK
<1>8. DirsOwned'
  BY <1>1, <1>2, <1>5 DEF DirsOwned, IngestTypeOK
<1> QED BY <1>3, <1>4, <1>6, <1>7, <1>8

LEMMA HandoffKeeps ==
    ASSUME IngestInv, NEW e \in Requests, Handoff(e)
    PROVE  IngestInv'
<1> USE IngestAssumption DEF IngestInv
<1>1. PICK status \in {"pending", "ended"} :
          /\ job' = [job EXCEPT ![e] = status]
          /\ dir' = (IF status = "ended" THEN [dir EXCEPT ![e] = "gone"] ELSE dir)
          /\ status = "pending" => task[e] = "parked"
  BY DEF Handoff, HandedOff
<1>2. /\ child[e] = "ready" /\ kind[e] = "async" /\ aClaim' = claim[e]
      /\ aOwned' = [aOwned EXCEPT ![claim[e]] = TRUE] /\ child' = [child EXCEPT ![e] = "over"]
      /\ entry' = [entry EXCEPT ![e] = "result"] /\ current' = (IF current = e THEN Nobody ELSE current)
      /\ UNCHANGED <<req, kind, secret, served, on, given, marked, task, sClaim, sCommit, refs, claim, held,
                     print, results>>
  BY DEF Handoff, HandedOff, EndEntry, reqVars
<1>3. /\ entry[e] = "committed" /\ current = e /\ claim[e] \in Requests /\ kind[claim[e]] = "async"
      /\ secret[claim[e]] = secret[e] /\ \A q \in Requests : job[q] = "none"
  <2>1. entry[e] = "committed" /\ current = e /\ claim[e] \in Requests
    BY <1>2 DEF Lives, LifeOf, IngestTypeOK
  <2>2. \A q \in Requests : child[q] # "over"
    BY <1>2 DEF Lives, LifeOf
  <2> QED BY <1>2, <2>1, <2>2 DEF Lives, LifeOf, Claimed, ClaimOf
<1>4. /\ child'[e] = "over" /\ job'[e] = status /\ entry'[e] = "result" /\ aOwned'[claim[e]] = TRUE
      /\ \A q \in Requests : q # e => child'[q] = child[q] /\ job'[q] = job[q] /\ entry'[q] = entry[q]
      /\ dir'[e] = (IF status = "ended" THEN "gone" ELSE dir[e])
      /\ \A q \in Requests : q # e => dir'[q] = dir[q]
  BY <1>1, <1>2, <1>3 DEF IngestTypeOK
<1>5. IngestTypeOK'
  <2>1. /\ entry' \in [Requests -> {"none", "preparing", "cancelling", "committed"} \cup Ended]
        /\ current' \in Requests \cup {Nobody}
    BY <1>2 DEF IngestTypeOK, Ended
  <2>2. /\ child' \in [Requests -> {"none", "ready", "running", "over"}]
        /\ dir' \in [Requests -> {"none", "staged", "gone"}]
        /\ job' \in [Requests -> {"none", "pending", "running", "ended", "removed"}]
        /\ aOwned' \in [Requests -> BOOLEAN]
    BY <1>1, <1>2 DEF IngestTypeOK
  <2>3. {aClaim', sClaim'} \subseteq Requests \cup {Nobody}
    BY <1>2, <1>3 DEF IngestTypeOK
  <2> QED BY <1>2, <2>1, <2>2, <2>3 DEF IngestTypeOK
<1>6. Lives'
  <2>1. "result" \in Ended
    BY DEF Ended
  <2>2. job'[e] # "none" => kind[e] = "async" /\ child'[e] = "over"
    BY <1>2, <1>4
  <2> QED BY <1>2, <1>3, <1>4, <2>1, <2>2, EntryEndsLives
<1>7. \A c \in Requests : aOwned'[c] => c = claim[e]
  BY <1>2, <1>3 DEF Claimed, IngestTypeOK
<1>8. Claimed'
  <2>1. ASSUME NEW q \in Requests PROVE ClaimOf(q)'
    <3>1. ClaimOf(q) /\ (req[q] = "waiting" => on[q] \in Requests)
      BY DEF Claimed, Lives, LifeOf
    <3>2. req[q] = "waiting" /\ entry'[on[q]] \in {"preparing", "committed"} => entry[on[q]] \in {"preparing", "committed"}
      BY <3>1, <1>4
    <3> QED BY <3>1, <3>2, <1>2 DEF ClaimOf
  <2>2. \E j \in Requests : job'[j] \notin {"none", "removed"}
    BY <1>4
  <2> QED BY <2>1, <2>2, <1>2, <1>3, <1>7 DEF Claimed
<1>9. Counted'
  BY <1>2, <1>3, <1>4 DEF Counted
<1>10. Named' /\ (OneKind' => Shared')
  BY <1>2, <1>3 DEF Named, OneKind, Shared, AnswersOwnSecrets
<1>11. DirsOwned'
  <2> SUFFICES ASSUME NEW q \in Requests
               PROVE  /\ dir'[q] = "staged" <=> child'[q] \in {"ready", "running"} \/ job'[q] \in {"pending", "running"}
                      /\ job'[q] \in {"pending", "running"} => task'[q] = "parked"
    BY DEF DirsOwned
  <2>1. /\ dir[q] = "staged" <=> child[q] \in {"ready", "running"} \/ job[q] \in {"pending", "running"}
        /\ job[q] = "none"
    BY <1>3 DEF DirsOwned
  <2> QED BY <2>1, <1>1, <1>2, <1>4
<1> QED BY <1>5, <1>6, <1>8, <1>9, <1>10, <1>11

\* A request leaves its entry with an answer, by itself or because the entry has ended.
LEMMA Leaves ==
    ASSUME IngestInv, NEW r \in Requests, NEW a \in Answers, NEW run \in Requests \cup {Nobody},
           req[r] = "waiting", Finally(r), StopWaiting(r), Answer(r, a, run),
           run # Nobody => kind[run] # "none" /\ (OneKind => secret[run] = secret[r]),
           given' \in [Requests -> BOOLEAN], results' \in [Secrets -> Requests \cup {Nobody}],
           \A s \in Secrets : results'[s] # Nobody /\ results'[s] # results[s] =>
                                  kind[results'[s]] # "none" /\ (OneKind => secret[results'[s]] = s),
           UNCHANGED <<kind, secret, on, marked, child, dir, job, aOwned, claim>>
    PROVE  IngestInv'
<1> USE IngestAssumption DEF IngestInv
<1>1. /\ req' = [req EXCEPT ![r] = a] /\ a # "idle" /\ a # "waiting" /\ served' = [served EXCEPT ![r] = run]
      /\ kind[r] \in {"sync", "async"} /\ on[r] \in Requests /\ entry[on[r]] # "none"
  BY DEF Answer, Answers, Lives, LifeOf, IngestTypeOK
<1>2. PICK e \in Requests : e = on[r]
  BY <1>1
<1>3. /\ req'[r] = a /\ served'[r] = run
      /\ \A q \in Requests : q # r => req'[q] = req[q] /\ served'[q] = served[q]
  BY <1>1 DEF IngestTypeOK
<1>4. \/ /\ Peers(e) = {r} /\ entry[e] = "preparing" /\ current = e
         /\ entry' = [entry EXCEPT ![e] = "cancelling"] /\ current' = Nobody
      \/ /\ ~(Peers(e) = {r} /\ entry[e] = "preparing") /\ UNCHANGED <<entry, current>>
  BY <1>2 DEF StopWaiting, Lives, LifeOf
<1>5. /\ \A q \in Requests : q # e => entry'[q] = entry[q]
      /\ entry'[e] = entry[e] \/ (entry'[e] = "cancelling" /\ entry[e] = "preparing" /\ current' = Nobody)
  BY <1>4 DEF IngestTypeOK
<1>6. Counted' /\ Lets(r) /\ (r \notin held' \/ UNCHANGED held)
      /\ \A c \in Requests : aOwned[c] => aClaim' = aClaim
  <2>1. CASE kind[r] = "async"
    <3>1. r \in held
      BY <2>1 DEF Claimed, ClaimOf
    <3>2. ReleaseAsyncClaim(r) /\ UNCHANGED sClaim
      BY <2>1 DEF Finally
    <3> QED BY <2>1, <3>1, <3>2, AsyncReleased
  <2>2. CASE kind[r] = "sync"
    <3>1. UNCHANGED aClaim
      BY <2>2 DEF Finally
    <3>2. CASE ReleaseSyncClaim(r)
      BY <2>2, <3>1, <3>2, SyncReleased
    <3>3. CASE UNCHANGED <<refs, held, sClaim>>
      BY <3>1, <3>3 DEF Counted, Lets, IngestTypeOK
    <3> QED BY <2>2, <3>2, <3>3 DEF Finally
  <2> QED BY <1>1, <2>1, <2>2
<1>7. /\ claim' = claim /\ held' \in {held, held \ {r}}
      /\ aClaim' \in {aClaim, Nobody} /\ (aClaim' # aClaim => \A q \in held' : claim[q] # aClaim)
      /\ sClaim' \in {sClaim, Nobody} /\ (sClaim' # sClaim => \A q \in held' : claim[q] # sClaim)
      /\ refs' \in [Requests -> Int]
  BY <1>6 DEF Lets
<1>8. /\ task' \in [Requests -> {"none", "parked", "over"}]
      /\ \A q \in Requests : task'[q] = task[q] \/ (q = r /\ on[r] # r)
  <2>1. task' = task \/ (on[r] # r /\ task' = [task EXCEPT ![r] = "over"])
    BY <1>1 DEF Finally, Leads
  <2> QED BY <2>1 DEF IngestTypeOK
<1>9. sCommit' \in [Requests -> BOOLEAN] /\ print' \in Secrets \cup {Nobody}
  <2>1. ASSUME OwnsExecution(r), kind[r] = "sync" PROVE claim[r] \in Requests
    BY <2>1, <1>1 DEF OwnsExecution, Leads, Lives, LifeOf, IngestTypeOK
  <2>2. CASE CommitSyncClaim(r) /\ claim[r] \in Requests
    BY <2>2, ClaimCommitted
  <2>3. CASE UNCHANGED <<sCommit, print>>
    BY <2>3 DEF IngestTypeOK
  <2> QED BY <1>1, <2>1, <2>2, <2>3 DEF Finally
<1>10. IngestTypeOK'
  <2>1. /\ {aClaim', sClaim'} \subseteq Requests \cup {Nobody} /\ held' \in SUBSET Requests
    BY <1>7 DEF IngestTypeOK
  <2>2. /\ entry' \in [Requests -> {"none", "preparing", "cancelling", "committed"} \cup Ended]
        /\ current' \in Requests \cup {Nobody}
    BY <1>4 DEF IngestTypeOK
  <2>3. /\ req' \in [Requests -> {"idle", "waiting"} \cup Answers]
        /\ served' \in [Requests -> Requests \cup {Nobody}]
    BY <1>1 DEF IngestTypeOK
  <2> QED BY <1>7, <1>8, <1>9, <2>1, <2>2, <2>3 DEF IngestTypeOK
<1>11. Lives'
  <2> SUFFICES ASSUME NEW q \in Requests PROVE LifeOf(q)'
    BY DEF Lives
  <2>1. LifeOf(q) /\ LifeOf(r) /\ LifeOf(e)
    BY DEF Lives
  <2>2. /\ req'[q] = "idle" <=> kind'[q] = "none"
        /\ req'[q] = "idle" => entry'[q] = "none" /\ job'[q] = "none" /\ q \notin held' /\ claim'[q] = Nobody
    BY <2>1, <1>1, <1>3, <1>5, <1>7 DEF LifeOf
  <2>3. /\ req'[q] = "waiting" => on'[q] \in Requests /\ entry'[on'[q]] # "none"
        /\ entry'[q] # "none" => on'[q] = q /\ claim'[q] # Nobody
    BY <2>1, <1>1, <1>3, <1>5, <1>7 DEF LifeOf
  <2>4. current' = q <=> entry'[q] \in {"preparing", "committed"}
    BY <2>1, <1>4, <1>5 DEF LifeOf, IngestTypeOK
  <2>5. entry'[q] = "preparing" => \E p \in Requests : req'[p] = "waiting" /\ on'[p] = q
    <3> SUFFICES ASSUME entry'[q] = "preparing"
                 PROVE  \E p \in Requests : req'[p] = "waiting" /\ on'[p] = q
      OBVIOUS
    <3>1. PICK p \in Requests : req[p] = "waiting" /\ on[p] = q /\ entry[q] = "preparing"
      BY <2>1, <1>5 DEF LifeOf
    <3>2. CASE q = e
      <4>1. Peers(e) # {r} /\ r \in Peers(e)
        BY <3>1, <3>2, <1>2, <1>4, <1>5 DEF Peers, IngestTypeOK
      <4>2. PICK w \in Peers(e) : w # r
        BY <4>1
      <4> QED BY <3>2, <4>2, <1>3 DEF Peers
    <3>3. CASE q # e
      BY <3>1, <3>3, <1>2, <1>3
    <3> QED BY <3>2, <3>3
  <2>6. /\ entry'[q] \in {"none", "preparing", "cancelling"} => child'[q] = "none"
        /\ entry'[q] = "committed" <=> child'[q] \in {"ready", "running"}
        /\ child'[q] # "none" => marked' /\ \A p \in Requests : child'[p] # "none" => p = q
        /\ job'[q] # "none" => kind'[q] = "async" /\ child'[q] = "over"
    BY <2>1, <1>5 DEF LifeOf
  <2> QED BY <2>2, <2>3, <2>4, <2>5, <2>6 DEF LifeOf
<1>12. Claimed'
  <2>1. ASSUME NEW q \in Requests PROVE ClaimOf(q)'
    <3>1. ClaimOf(q) /\ LifeOf(q)
      BY DEF Claimed, Lives
    <3>2. /\ q \in held' => claim'[q] # Nobody
          /\ claim'[q] # Nobody => kind'[claim'[q]] = kind'[q] /\ secret'[claim'[q]] = secret'[q]
      BY <3>1, <1>7 DEF ClaimOf
    <3>3. req'[q] = "waiting" /\ (kind[q] = "async" \/ entry'[on[q]] \in {"preparing", "committed"}) => q \in held'
      BY <3>1, <1>1, <1>3, <1>5, <1>7 DEF ClaimOf, LifeOf
    <3>4. q \in held' /\ kind[q] = "sync" => claim[q] = sClaim'
      BY <3>1, <1>7 DEF ClaimOf
    <3> QED BY <3>2, <3>3, <3>4, <1>7 DEF ClaimOf
  <2> QED BY <2>1, <1>6, <1>7 DEF Claimed
<1>13. Named'
  BY <1>1, <1>3 DEF Named
<1>14. ASSUME OneKind' PROVE Shared'
  <2>1. OneKind
    BY <1>14 DEF OneKind
  <2>2. /\ \A q \in held' : kind[q] = "async" => claim[q] = aClaim'
        /\ \A q \in held' : current' # Nobody => claim[q] = claim[current']
    BY <2>1, <1>4, <1>7 DEF Shared
  <2>3. /\ \A q \in Requests : req'[q] = "waiting" => secret[on[q]] = secret[q]
        /\ \A s \in Secrets : results'[s] # Nobody => secret[results'[s]] = s
        /\ \A q \in Requests : served'[q] # Nobody => secret[served'[q]] = secret[q]
    BY <2>1, <1>1, <1>3 DEF Shared, AnswersOwnSecrets
  <2> QED BY <2>2, <2>3, <1>7 DEF Shared, AnswersOwnSecrets
<1>15. DirsOwned'
  <2>1. \A q \in Requests : job[q] \in {"pending", "running"} => on[q] = q
    BY DEF Lives, LifeOf
  <2> QED BY <2>1, <1>8 DEF DirsOwned
<1> QED BY <1>6, <1>10, <1>11, <1>12, <1>13, <1>14, <1>15

LEMMA LeaveKeeps ==
    ASSUME IngestInv, NEW r \in Requests, NEW a \in {"gone", "timeout", "needs"}, Leave(r, a)
    PROVE  IngestInv'
<1> USE IngestAssumption DEF IngestInv
<1>1. /\ req[r] = "waiting" /\ Answer(r, a, IF a = "needs" THEN r ELSE Nobody) /\ StopWaiting(r) /\ Finally(r)
      /\ results' = (IF a = "needs" THEN [results EXCEPT ![secret[r]] = r] ELSE results)
      /\ UNCHANGED <<kind, secret, on, given, marked, child, dir, job, aOwned, claim>>
  BY DEF Leave
<1>2. a \in Answers /\ kind[r] # "none" /\ given' \in [Requests -> BOOLEAN]
  BY <1>1 DEF Answers, Lives, LifeOf, IngestTypeOK
<1>3. /\ results' \in [Secrets -> Requests \cup {Nobody}]
      /\ \A s \in Secrets : results'[s] # results[s] => results'[s] = r /\ s = secret[r]
  BY <1>1 DEF IngestTypeOK
<1>4. PICK run \in Requests \cup {Nobody} : run = (IF a = "needs" THEN r ELSE Nobody)
  OBVIOUS
<1>5. run # Nobody => kind[run] # "none" /\ secret[run] = secret[r]
  BY <1>2, <1>4
<1>6. \A s \in Secrets : results'[s] # Nobody /\ results'[s] # results[s] =>
                            kind[results'[s]] # "none" /\ (OneKind => secret[results'[s]] = s)
  BY <1>2, <1>3
<1> QED BY <1>1, <1>2, <1>3, <1>4, <1>5, <1>6, Leaves

\* A submitted request carries a fingerprint.
Carries == \A r \in Requests : kind[r] # "none" => secret[r] \in Secrets

LEMMA WakeKeeps ==
    ASSUME IngestInv, Carries, NEW r \in Requests, Wake(r)
    PROVE  IngestInv'
<1> USE IngestAssumption DEF IngestInv
<1>1. /\ req[r] = "waiting" /\ Finally(r) /\ on[r] \in Requests /\ entry[on[r]] \in Ended
      /\ UNCHANGED <<kind, secret, on, entry, current, marked, child, dir, job, aOwned, claim>>
  BY DEF Wake, Lives, LifeOf
<1>2. PICK e \in Requests : e = on[r]
  BY <1>1
<1>3. StopWaiting(r)
  <2>1. entry[on[r]] # "preparing"
    BY <1>1 DEF Ended
  <2> QED BY <1>1, <2>1 DEF StopWaiting
<1>4. kind[r] # "none" /\ kind[e] # "none" /\ (OneKind => secret[e] = secret[r]) /\ entry[e] # "none"
  BY <1>1, <1>2 DEF Lives, LifeOf, Shared, Ended
<1>5. /\ given' \in [Requests -> BOOLEAN] /\ results' \in [Secrets -> Requests \cup {Nobody}]
      /\ \A s \in Secrets : results'[s] # results[s] => results'[s] = e /\ s = secret[r]
  BY <1>2 DEF Wake, IngestTypeOK
<1>6. \A s \in Secrets : results'[s] # Nobody /\ results'[s] # results[s] =>
                            kind[results'[s]] # "none" /\ (OneKind => secret[results'[s]] = s)
  BY <1>4, <1>5
<1>7. PICK a \in Answers, run \in Requests \cup {Nobody} :
          /\ Answer(r, a, run)
          /\ run # Nobody => kind[run] # "none" /\ (OneKind => secret[run] = secret[r])
  <2>0. {"failed", "gone", "accepted", "pending", "missing", "result", "replay"} \subseteq Answers
    BY DEF Answers
  <2>1. \A j \in Known(secret[r]) : j \in Requests /\ kind[j] # "none" /\ secret[j] = secret[r]
    BY DEF Known, Lives, LifeOf
  <2>2. \A dup : AsyncAnswer(r, dup) =>
           \E a \in Answers, run \in Requests \cup {Nobody} :
               Answer(r, a, run) /\ (run # Nobody => kind[run] # "none" /\ secret[run] = secret[r])
    <3> TAKE dup
    <3>1. CASE OwnsExecution(r)
      BY <3>1, <2>0, <1>4 DEF AsyncAnswer
    <3>2. CASE ~OwnsExecution(r) /\ Known(secret[r]) # {}
      BY <3>2, <2>0, <2>1 DEF AsyncAnswer
    <3>3. CASE ~OwnsExecution(r) /\ Known(secret[r]) = {}
      BY <3>3, <2>0 DEF AsyncAnswer
    <3> QED BY <3>1, <3>2, <3>3
  <2>3. secret[r] \in Secrets
    BY <1>4 DEF Carries
  <2>4. \A dup : SyncAnswer(r, dup) =>
           \E a \in Answers, run \in Requests \cup {Nobody} :
               Answer(r, a, run) /\ (run # Nobody => kind[run] # "none" /\ (OneKind => secret[run] = secret[r]))
    <3> TAKE dup
    <3>1. CASE ~dup
      BY <3>1, <2>0, <1>2, <1>4 DEF SyncAnswer
    <3>2. CASE dup /\ results[secret[r]] # Nobody
      BY <3>2, <2>0, <2>3 DEF SyncAnswer, Named, Shared, IngestTypeOK
    <3>3. CASE dup /\ results[secret[r]] = Nobody
      BY <3>3, <2>0 DEF SyncAnswer
    <3> QED BY <3>1, <3>2, <3>3
  <2>5. \/ Answer(r, "failed", Nobody) \/ Answer(r, "gone", Nobody)
        \/ \E dup \in BOOLEAN : AsyncAnswer(r, dup) \/ SyncAnswer(r, dup)
    BY DEF Wake
  <2> QED BY <2>0, <2>2, <2>4, <2>5
<1> QED BY <1>1, <1>3, <1>5, <1>6, <1>7, Leaves

LEMMA SecretsCarried == IngestInv /\ Carries /\ [IngestNext]_ingestVars => Carries'
<1> SUFFICES ASSUME IngestInv, Carries, [IngestNext]_ingestVars PROVE Carries'
  OBVIOUS
<1>1. ASSUME NEW r \in Requests, NEW s \in Secrets, SubmitAsync(r, s) \/ SubmitSync(r, s)
      PROVE  Carries'
  <2>1. \E k : kind' = [kind EXCEPT ![r] = k] /\ secret' = [secret EXCEPT ![r] = s]
    BY <1>1 DEF SubmitAsync, SubmitSync
  <2> QED BY <2>1 DEF Carries, IngestInv, IngestTypeOK
<1>2. UNCHANGED <<kind, secret>> => Carries'
  BY DEF Carries
<1>3. ASSUME NEW r \in Requests, Wake(r) \/ EntryStep(r) \/ JobStep(r) \/ KillTask(r) \/ RemoveJob(r)
      PROVE  UNCHANGED <<kind, secret>>
  <2>1. Wake(r) \/ KillTask(r) \/ RemoveJob(r) \/ JobStep(r) => UNCHANGED <<kind, secret>>
    BY DEF Wake, KillTask, RemoveJob, JobStep, StartJob, EndJob, reqVars
  <2>2. EntryStep(r) => UNCHANGED <<kind, secret>>
    BY DEF EntryStep, EndUncommitted, FinishSync, CommitEntry, Handoff, HandedOff, StartSync, reqVars
  <2> QED BY <1>3, <2>1, <2>2
<1>4. ASSUME NEW r \in Requests, NEW a \in {"gone", "timeout", "needs"}, Leave(r, a)
      PROVE  UNCHANGED <<kind, secret>>
  BY <1>4 DEF Leave
<1>5. ForgetPrint \/ (\E s \in Secrets : ForgetResult(s)) \/ UNCHANGED ingestVars => UNCHANGED <<kind, secret>>
  BY DEF ForgetPrint, ForgetResult, reqVars, ingestVars
<1> QED BY <1>1, <1>2, <1>3, <1>4, <1>5 DEF IngestNext, Submit

LEMMA IngestInductive == IngestInv /\ Carries /\ [IngestNext]_ingestVars => IngestInv'
<1> SUFFICES ASSUME IngestInv, Carries, [IngestNext]_ingestVars PROVE IngestInv'
  OBVIOUS
<1>0. CASE UNCHANGED ingestVars
  BY <1>0 DEF ingestVars, reqVars, entryVars, runVars, claimVars, IngestInv, IngestTypeOK, Lives, LifeOf, Claimed,
       ClaimOf, Counted, Named, OneKind, Shared, AnswersOwnSecrets, DirsOwned
<1> QED BY <1>0, Submitted, WakeKeeps, EndUncommittedKeeps, FinishSyncKeeps, CommitEntryKeeps, HandoffKeeps,
           StartSyncKeeps, JobKeeps, LeaveKeeps, RemoveJobKeeps, ForgetKeeps
     DEF IngestNext, Submit, EntryStep, JobStep

LEMMA IngestInvariant == IngestSpec => []IngestInv
<1>1. IngestInit => Carries
  BY DEF IngestInit, Carries
<1> QED BY <1>1, IngestStarts, IngestInductive, SecretsCarried, PTL DEF IngestSpec

\* Submissions that share a run share its secrets, a claim outlives no holder, and a staged
\* directory is there exactly while its run can use it, for any number of submissions that
\* come, wait, leave, fail and are cancelled in any order (handle_ingest, handle_ingest_async).
THEOREM SubmissionsStayApart == IngestSpec => []SubmissionsApart
<1>1. ASSUME IngestInv PROVE SubmissionsApart
  <2> USE <1>1, IngestAssumption DEF IngestInv
  <2>1. ClaimsCounted
    BY DEF ClaimsCounted, Counted, Claimed
  <2>2. ASSUME OneHandler PROVE AnswersOwnSecrets /\ EntriesClaimed
    <3>1. OneKind /\ Shared
      BY <2>2, OneHandlerIs
    <3>2. ASSUME NEW e \in Requests, entry[e] = "preparing"
          PROVE  LET inForce == IF kind[e] = "async" THEN aClaim ELSE sClaim
                 IN  /\ inForce # Nobody /\ secret[inForce] = secret[e]
                     /\ \A r \in Peers(e) : secret[r] = secret[e]
      <4>1. \A r \in Peers(e) : secret[r] = secret[e]
        BY <3>1 DEF Peers, Shared
      <4>2. PICK r \in Requests : req[r] = "waiting" /\ on[r] = e /\ r \in held /\ secret[r] = secret[e]
        BY <3>1, <3>2 DEF Lives, LifeOf, Claimed, ClaimOf, Shared
      <4>3. kind[r] = kind[e] /\ kind[r] \in {"sync", "async"}
        BY <3>1, <3>2, <4>2 DEF OneKind, Lives, LifeOf, IngestTypeOK
      <4>4. claim[r] # Nobody /\ secret[claim[r]] = secret[e]
        BY <4>2 DEF Claimed, ClaimOf
      <4>5. claim[r] = IF kind[e] = "async" THEN aClaim ELSE sClaim
        BY <3>1, <4>2, <4>3 DEF Claimed, ClaimOf, Shared
      <4> QED BY <4>1, <4>4, <4>5
    <3> QED BY <3>1, <3>2 DEF Shared, EntriesClaimed
  <2> QED BY <2>1, <2>2 DEF SubmissionsApart, SecretsApart
<1> QED BY <1>1, IngestInvariant, PTL
=============================================================================
