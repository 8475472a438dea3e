---------------------------- MODULE TenancyProofs ----------------------------
(***************************************************************************)
(* Theorems about what belongs to one person: borrowed credentials         *)
(* (CredLease), the user token (UserToken) and checkpointed connector      *)
(* writes (LarkWrite).                                                     *)
(***************************************************************************)
EXTENDS CredLease, UserToken, LarkWrite, TLAPS

-----------------------------------------------------------------------------
(* Borrowed credentials. *)

\* The profile is the person's: from the start, or for good since the one move.
Owned(u, h) == HomeOf[u] = h \/ (u \in moved /\ route[u] = h)

\* A vault holds a token of somebody whose profile it is or was at first.
VaultsOwned ==
    /\ \A u \in People : u \notin moved => route[u] = HomeOf[u]
    /\ \A h \in Homes : token[h] # Nil => Owned(token[h], h)

Granting(c, q) == click[c].pc = "grant" /\ click[c].of = q

\* A delegation id is used for one request; before it there is no card, click or lease.
RequestsOnce ==
    /\ \A q \in Requests :
          /\ request[q].owner # Nil => request[q].home \in Homes
          /\ request[q].owner = Nil => pending[q] = "no" /\ lease[q].st = "none"
    /\ \A c \in Clicks : click[c].pc \in {"peeked", "grant"} =>
          click[c].of \in Requests /\ request[click[c].of].owner # Nil
    /\ \A c \in Clicks : click[c].pc = "grant" => click[c].choice \in Scopes

\* The entry of a card goes to one click, which grants once; a once lease serves once.
GrantsOnce ==
    \A q \in Requests :
        /\ grants[q] <= 1
        /\ grants[q] = 0 <=> lease[q].st = "none"
        /\ grants[q] = 0 => uses[q] = 0
        /\ pending[q] # "no" => grants[q] = 0 /\ \A c \in Clicks : ~ Granting(c, q)
        /\ \A c, d \in Clicks : Granting(c, q) => grants[q] = 0 /\ (Granting(d, q) => c = d)
        /\ lease[q].scope = "once" => uses[q] <= 1 /\ (lease[q].st = "active" => uses[q] = 0)

\* The token in hand is the sender's, or of the one whose profile the sender took over.
TokenOf(r) ==
    LET h == request[brun[r].pick].home IN
    /\ brun[r].pc = "recheck" => Owned(brun[r].tok, h)
    /\ brun[r].pc \in {"claim", "going"} =>
          \/ brun[r].tok = brun[r].sender
          \/ HomeOf[brun[r].tok] = h /\ HomeOf[brun[r].sender] # h

\* A borrow is of a granted lease of the sender that this run may use.
BorrowKept(r) ==
    /\ brun[r].pc \notin {"none", "over"} => brun[r].sender \in People
    /\ \A q \in brun[r].rows : request[q].owner = brun[r].sender /\ lease[q].st # "none"
    /\ brun[r].rows # {} => brun[r].pc = "rows"
    /\ brun[r].pc \in {"check", "read", "recheck", "claim"} => brun[r].pick # Nil
    /\ brun[r].pick # Nil =>
          /\ brun[r].sender \in People
          /\ request[brun[r].pick].owner = brun[r].sender
          /\ lease[brun[r].pick].st # "none"
          /\ lease[brun[r].pick].scope = "once" => brun[r].deleg = brun[r].pick
    /\ brun[r].tok # Nil =>
          /\ brun[r].pc \in {"recheck", "claim", "going"}
          /\ brun[r].pick # Nil
          /\ TokenOf(r)

BorrowsKept == \A r \in BorrowRuns : BorrowKept(r)

\* Inductive.
CredInv == CredTypeOK /\ VaultsOwned /\ RequestsOnce /\ GrantsOnce /\ BorrowsKept

\* What a changed row is.
LEMMA LeaseRows ==
    /\ \A l \in LeaseSet : /\ [l EXCEPT !.aged = TRUE] \in LeaseSet
                           /\ \A st \in Dead : [l EXCEPT !.st = st] \in LeaseSet
    /\ \A scope \in Scopes : [st |-> "active", scope |-> scope, aged |-> FALSE] \in LeaseSet
    /\ \A l \in LeaseSet : l.scope \in Scopes
  BY DEF LeaseSet

LEMMA BorrowRows ==
    /\ BorrowOver \in BorrowSet /\ NoRun \in BorrowSet
    /\ \A u \in People, q \in Requests \cup {Nil} :
          [NoRun EXCEPT !.pc = "find", !.sender = u, !.deleg = q] \in BorrowSet
    /\ \A b \in BorrowSet, pc \in RunPcs :
          /\ \A t \in People \cup {Nil} : [b EXCEPT !.pc = pc, !.tok = t] \in BorrowSet
          /\ \A rows \in SUBSET Requests : [b EXCEPT !.pc = pc, !.rows = rows] \in BorrowSet
          /\ \A q \in Requests, rows \in SUBSET Requests :
                [b EXCEPT !.pc = pc, !.pick = q, !.rows = rows] \in BorrowSet
    /\ \A b \in BorrowSet, rows \in SUBSET Requests : [b EXCEPT !.rows = rows] \in BorrowSet
<1> USE DEF BorrowSet
<1>1. BorrowOver \in BorrowSet /\ NoRun \in BorrowSet
  BY DEF BorrowOver, NoRun, RunPcs
<1>2. \A u \in People, q \in Requests \cup {Nil} :
         [NoRun EXCEPT !.pc = "find", !.sender = u, !.deleg = q] \in BorrowSet
  BY DEF NoRun, RunPcs
<1>3. ASSUME NEW b \in BorrowSet, NEW pc \in RunPcs
      PROVE  /\ \A t \in People \cup {Nil} : [b EXCEPT !.pc = pc, !.tok = t] \in BorrowSet
             /\ \A rows \in SUBSET Requests : [b EXCEPT !.pc = pc, !.rows = rows] \in BorrowSet
             /\ \A q \in Requests, rows \in SUBSET Requests :
                   [b EXCEPT !.pc = pc, !.pick = q, !.rows = rows] \in BorrowSet
  BY ZenonT(60)
<1>4. \A b \in BorrowSet, rows \in SUBSET Requests : [b EXCEPT !.rows = rows] \in BorrowSet
  OBVIOUS
<1> QED BY <1>1, <1>2, <1>3, <1>4, Zenon

LEMMA ClickRows ==
    /\ ClickOver \in ClickSet /\ NoClick \in ClickSet
    /\ \A k \in ClickSet : [k EXCEPT !.pc = "grant"] \in ClickSet
    /\ \A q \in Requests, ch \in Scopes \cup {"deny"} :
          [pc |-> "peeked", of |-> q, choice |-> ch] \in ClickSet
  BY DEF ClickSet, ClickOver, NoClick

LEMMA Fields ==
    /\ \A b \in BorrowSet : /\ b.pc \in RunPcs /\ b.sender \in People \cup {Nil}
                            /\ b.deleg \in Requests \cup {Nil} /\ b.rows \subseteq Requests
                            /\ b.pick \in Requests \cup {Nil} /\ b.tok \in People \cup {Nil}
    /\ \A k \in ClickSet : k.of \in Requests \cup {Nil} /\ k.choice \in Scopes \cup {"deny"}
  BY DEF BorrowSet, ClickSet, RunPcs

LEMMA CredTypes == CredTypeOK /\ BorrowsKept /\ RequestsOnce /\ [CredNext]_credVars => CredTypeOK'
<1> SUFFICES ASSUME CredTypeOK, BorrowsKept, RequestsOnce, [CredNext]_credVars PROVE CredTypeOK'
  OBVIOUS
<1> USE CredAssumption, Fields DEF CredTypeOK
<1>1. CASE UNCHANGED credVars BY <1>1 DEF credVars
<1>2. ASSUME NEW u \in People, NEW h \in Homes \cup {Nil}, Move(u, h) PROVE CredTypeOK'
  BY <1>2 DEF Move
<1>3. ASSUME NEW u \in People, StoreToken(u) PROVE CredTypeOK'
  BY <1>3 DEF StoreToken
<1>4. ASSUME NEW u \in People, Revoke(u) PROVE CredTypeOK'
  <2> lease' \in [Requests -> LeaseSet]
    <3> SUFFICES ASSUME NEW q \in Requests PROVE lease'[q] \in LeaseSet
      BY <1>4 DEF Revoke
    <3> QED BY <1>4, LeaseRows DEF Revoke, Dead
  <2> QED BY <1>4 DEF Revoke
<1>5. ASSUME NEW q \in Requests, LeaseAges(q) PROVE CredTypeOK'
  <2> lease' = [lease EXCEPT ![q] = [lease[q] EXCEPT !.aged = TRUE]]
    BY <1>5 DEF LeaseAges
  <2> QED BY <1>5, LeaseRows DEF LeaseAges
<1>6. ASSUME NEW q \in Requests, CardSent(q) \/ PendingExpires(q) PROVE CredTypeOK'
  BY <1>6 DEF CardSent, PendingExpires
<1>7. ASSUME NEW r \in BorrowRuns, FindRows(r) PROVE CredTypeOK'
  <2> brun' = [brun EXCEPT ![r] = [brun[r] EXCEPT !.pc = "rows", !.rows = ActiveOf(brun[r].sender)]]
    BY <1>7 DEF FindRows
  <2> ActiveOf(brun[r].sender) \in SUBSET Requests BY DEF ActiveOf
  <2> brun' \in [BorrowRuns -> BorrowSet]
    <3> "rows" \in RunPcs /\ brun[r] \in BorrowSet BY DEF RunPcs
    <3> [brun[r] EXCEPT !.pc = "rows", !.rows = ActiveOf(brun[r].sender)] \in BorrowSet
      BY BorrowRows, Zenon
    <3> QED OBVIOUS
  <2> QED BY <1>7 DEF FindRows
<1>8. ASSUME NEW r \in BorrowRuns, NoRow(r) PROVE CredTypeOK'
  <2> brun' = [brun EXCEPT ![r] = [brun[r] EXCEPT !.pc = "going", !.rows = {}]]
    BY <1>8 DEF NoRow
  <2> brun' \in [BorrowRuns -> BorrowSet]
    <3> "going" \in RunPcs /\ brun[r] \in BorrowSet /\ {} \in SUBSET Requests BY DEF RunPcs
    <3> [brun[r] EXCEPT !.pc = "going", !.rows = {}] \in BorrowSet
      BY BorrowRows, Zenon
    <3> QED OBVIOUS
  <2> QED BY <1>8 DEF NoRow
<1>9. ASSUME NEW r \in BorrowRuns, CheckOwner(r) PROVE CredTypeOK'
  <2> brun[r].pick \in Requests
    BY <1>9 DEF CheckOwner, BorrowsKept, BorrowKept
  <2> PICK st \in {"none"} \cup Dead :
         lease' = IF st # "none" THEN [lease EXCEPT ![brun[r].pick].st = st] ELSE lease
    BY <1>9 DEF CheckOwner, Dead
  <2> PICK pc \in RunPcs, t \in People \cup {Nil} :
         brun' = [brun EXCEPT ![r].pc = pc, ![r].tok = t]
    BY ZenonT(60), <1>9 DEF CheckOwner, RunPcs
  <2> brun' = [brun EXCEPT ![r] = [brun[r] EXCEPT !.pc = pc, !.tok = t]]
    OBVIOUS
  <2> lease' \in [Requests -> LeaseSet]
    BY LeaseRows
  <2> brun' \in [BorrowRuns -> BorrowSet]
    <3> brun[r] \in BorrowSet OBVIOUS
    <3> [brun[r] EXCEPT !.pc = pc, !.tok = t] \in BorrowSet
      BY BorrowRows, Zenon
    <3> QED OBVIOUS
  <2> QED BY <1>9 DEF CheckOwner
<1>10. ASSUME NEW r \in BorrowRuns, ReadToken(r) PROVE CredTypeOK'
  <2> brun[r].pick \in Requests /\ request[brun[r].pick].owner # Nil
    BY <1>10 DEF ReadToken, BorrowsKept, BorrowKept
  <2> request[brun[r].pick].home \in Homes
    BY DEF RequestsOnce
  <2> PICK pc \in RunPcs, t \in People \cup {Nil} :
         brun' = [brun EXCEPT ![r].pc = pc, ![r].tok = t]
    <3> PICK t \in People \cup {Nil} : t = token[request[brun[r].pick].home]
      OBVIOUS
    <3> "going" \in RunPcs /\ "recheck" \in RunPcs BY DEF RunPcs
    <3> PICK pc \in RunPcs : pc = IF t = Nil THEN "going" ELSE "recheck"
      OBVIOUS
    <3> brun' = [brun EXCEPT ![r].pc = pc, ![r].tok = t]
      BY <1>10 DEF ReadToken
    <3> QED BY Zenon
  <2> brun' = [brun EXCEPT ![r] = [brun[r] EXCEPT !.pc = pc, !.tok = t]]
    OBVIOUS
  <2> brun' \in [BorrowRuns -> BorrowSet]
    <3> brun[r] \in BorrowSet OBVIOUS
    <3> [brun[r] EXCEPT !.pc = pc, !.tok = t] \in BorrowSet
      BY BorrowRows, Zenon
    <3> QED OBVIOUS
  <2> QED BY <1>10 DEF ReadToken
<1>11. ASSUME NEW r \in BorrowRuns, Claim(r) PROVE CredTypeOK'
  <2> brun[r].pick \in Requests
    BY <1>11 DEF Claim, BorrowsKept, BorrowKept
  <2> PICK st \in {"none"} \cup Dead :
         lease' = IF st # "none" THEN [lease EXCEPT ![brun[r].pick].st = st] ELSE lease
    BY <1>11 DEF Claim, Dead
  <2> PICK t \in People \cup {Nil} :
         brun' = [brun EXCEPT ![r].pc = "going", ![r].tok = t]
    BY ZenonT(60), <1>11 DEF Claim
  <2> brun' = [brun EXCEPT ![r] = [brun[r] EXCEPT !.pc = "going", !.tok = t]]
    OBVIOUS
  <2> lease' \in [Requests -> LeaseSet]
    BY LeaseRows
  <2> brun' \in [BorrowRuns -> BorrowSet]
    <3> "going" \in RunPcs /\ brun[r] \in BorrowSet BY DEF RunPcs
    <3> [brun[r] EXCEPT !.pc = "going", !.tok = t] \in BorrowSet
      BY BorrowRows, Zenon
    <3> QED OBVIOUS
  <2> uses' \in [Requests -> Nat]
    BY <1>11 DEF Claim
  <2> QED BY <1>11 DEF Claim
<1>12. ASSUME NEW r \in BorrowRuns, RunOver(r) PROVE CredTypeOK'
  BY ZenonT(60), <1>12, BorrowRows DEF RunOver
<1>13. ASSUME NEW r \in BorrowRuns, ReplayStanding(r) PROVE CredTypeOK'
  <2> brun[r].sender \in People
    BY <1>13 DEF ReplayStanding, BorrowsKept, BorrowKept
  <2> brun' \in [BorrowRuns -> BorrowSet]
    BY ZenonT(60), <1>13, BorrowRows DEF ReplayStanding
  <2> QED BY <1>13 DEF ReplayStanding
<1>14. ASSUME NEW r \in BorrowRuns, NEW q \in Requests, ExpireRow(r, q) PROVE CredTypeOK'
  <2> lease' \in [Requests -> LeaseSet]
    BY <1>14, LeaseRows DEF ExpireRow, Expired, Dead
  <2> brun' = [brun EXCEPT ![r] = [brun[r] EXCEPT !.rows = brun[r].rows \ {q}]]
    BY <1>14 DEF ExpireRow
  <2> brun[r].rows \ {q} \in SUBSET Requests
    OBVIOUS
  <2> brun' \in [BorrowRuns -> BorrowSet]
    <3> brun[r] \in BorrowSet OBVIOUS
    <3> [brun[r] EXCEPT !.rows = brun[r].rows \ {q}] \in BorrowSet
      BY BorrowRows, Zenon
    <3> QED OBVIOUS
  <2> QED BY <1>14 DEF ExpireRow
<1>15. ASSUME NEW r \in BorrowRuns, NEW q \in Requests, PickRow(r, q) PROVE CredTypeOK'
  <2> brun' = [brun EXCEPT ![r] = [brun[r] EXCEPT !.pc = "check", !.pick = q, !.rows = {}]]
    BY ZenonT(60), <1>15 DEF PickRow
  <2> brun' \in [BorrowRuns -> BorrowSet]
    BY ZenonT(60), BorrowRows DEF RunPcs
  <2> QED BY <1>15 DEF PickRow
<1>16. ASSUME NEW r \in BorrowRuns, NEW q \in Requests, Reserve(r, q) PROVE CredTypeOK'
  <2> brun[r].sender \in People
    BY <1>16 DEF Reserve, BorrowsKept, BorrowKept
  <2> request' \in [Requests -> [owner : People \cup {Nil}, home : Homes \cup {Nil}]]
    BY <1>16 DEF Reserve
  <2> pending' \in [Requests -> {"no", "reserved", "card"}]
    BY <1>16 DEF Reserve
  <2> brun' \in [BorrowRuns -> BorrowSet]
    BY ZenonT(60), <1>16, BorrowRows DEF Reserve
  <2> QED BY <1>16 DEF Reserve
<1>17. ASSUME NEW r \in BorrowRuns, NEW u \in Members, NEW q \in Requests \cup {Nil},
              Spawn(r, u, q) PROVE CredTypeOK'
  <2> brun' \in [BorrowRuns -> BorrowSet]
    BY ZenonT(60), <1>17, BorrowRows DEF Spawn
  <2> QED BY <1>17 DEF Spawn
<1>18. ASSUME NEW c \in Clicks, PopPending(c) PROVE CredTypeOK'
  <2> click' \in [Clicks -> ClickSet]
    BY <1>18, ClickRows DEF PopPending
  <2> QED BY <1>18 DEF PopPending
<1>19. ASSUME NEW c \in Clicks, Grant(c) PROVE CredTypeOK'
  <2> click[c].of \in Requests /\ request[click[c].of].owner \in People /\ click[c].choice \in Scopes
    BY <1>19 DEF Grant, RequestsOnce
  <2> lease' \in [Requests -> LeaseSet]
    BY <1>19, LeaseRows DEF Grant
  <2> click' \in [Clicks -> ClickSet]
    BY <1>19, ClickRows DEF Grant
  <2> grants' \in [Requests -> Nat]
    BY <1>19 DEF Grant
  <2> replay' \subseteq People \X (Requests \cup {Nil})
    BY <1>19 DEF Grant
  <2> QED BY <1>19 DEF Grant
<1>20. ASSUME NEW c \in Clicks, NEW q \in Requests, NEW u \in People,
              NEW ch \in Scopes \cup {"deny"}, ClickCard(c, q, u, ch) PROVE CredTypeOK'
  BY <1>20, ClickRows DEF ClickCard
<1>21. CASE Restart
  <2> brun' \in [BorrowRuns -> BorrowSet]
    BY ZenonT(60), <1>21, BorrowRows DEF Restart
  <2> click' \in [Clicks -> ClickSet]
    BY <1>21, ClickRows DEF Restart
  <2> QED BY <1>21 DEF Restart
<1> QED BY <1>1, <1>2, <1>3, <1>4, <1>5, <1>6, <1>7, <1>8, <1>9, <1>10, <1>11, <1>12, <1>13,
           <1>14, <1>15, <1>16, <1>17, <1>18, <1>19, <1>20, <1>21 DEF CredNext

\* What each step leaves as it was, the runs' own state and the replays apart.
SameShelves == UNCHANGED route /\ UNCHANGED moved /\ UNCHANGED token
SameCards == UNCHANGED pending /\ UNCHANGED request
SameTaps == UNCHANGED click /\ UNCHANGED grants
LeftAlone == SameShelves /\ SameCards /\ SameTaps /\ UNCHANGED lease /\ UNCHANGED uses

LEMMA Footprints ==
    /\ UNCHANGED credVars => LeftAlone
    /\ \A u \in People : StoreToken(u) =>
         /\ SameCards /\ SameTaps /\ UNCHANGED route /\ UNCHANGED moved /\ UNCHANGED lease
         /\ UNCHANGED uses
    /\ \A u \in People : Revoke(u) => SameShelves /\ SameCards /\ SameTaps /\ UNCHANGED uses
    /\ \A u \in People, h \in Homes \cup {Nil} : Move(u, h) =>
         SameCards /\ SameTaps /\ UNCHANGED token /\ UNCHANGED lease /\ UNCHANGED uses
    /\ \A q \in Requests : LeaseAges(q) => SameShelves /\ SameCards /\ SameTaps /\ UNCHANGED uses
    /\ \A q \in Requests : CardSent(q) =>
         SameShelves /\ SameTaps /\ UNCHANGED lease /\ UNCHANGED request /\ UNCHANGED uses
    /\ \A q \in Requests : PendingExpires(q) =>
         SameShelves /\ SameTaps /\ UNCHANGED lease /\ UNCHANGED request /\ UNCHANGED uses
    /\ \A r \in BorrowRuns : FindRows(r) => LeftAlone
    /\ \A r \in BorrowRuns : NoRow(r) => LeftAlone
    /\ \A r \in BorrowRuns : CheckOwner(r) =>
         SameShelves /\ SameCards /\ SameTaps /\ UNCHANGED uses
    /\ \A r \in BorrowRuns : ReadToken(r) => LeftAlone
    /\ \A r \in BorrowRuns : Claim(r) => SameShelves /\ SameCards /\ SameTaps
    /\ \A r \in BorrowRuns : RunOver(r) => LeftAlone
    /\ \A r \in BorrowRuns : ReplayStanding(r) => LeftAlone
    /\ \A r \in BorrowRuns, q \in Requests : ExpireRow(r, q) =>
         SameShelves /\ SameCards /\ SameTaps /\ UNCHANGED uses
    /\ \A r \in BorrowRuns, q \in Requests : PickRow(r, q) => LeftAlone
    /\ \A r \in BorrowRuns, q \in Requests : Reserve(r, q) =>
         SameShelves /\ SameTaps /\ UNCHANGED lease /\ UNCHANGED uses
    /\ \A r \in BorrowRuns, u \in Members, q \in Requests \cup {Nil} : Spawn(r, u, q) => LeftAlone
    /\ \A c \in Clicks : PopPending(c) =>
         /\ SameShelves /\ UNCHANGED lease /\ UNCHANGED request /\ UNCHANGED grants
         /\ UNCHANGED uses
    /\ \A c \in Clicks : Grant(c) => SameShelves /\ SameCards /\ UNCHANGED uses
    /\ \A c \in Clicks, q \in Requests, u \in People, ch \in Scopes \cup {"deny"} : ClickCard(c, q, u, ch) =>
         SameShelves /\ SameCards /\ UNCHANGED lease /\ UNCHANGED grants /\ UNCHANGED uses
    /\ Restart =>
         /\ SameShelves /\ UNCHANGED lease /\ UNCHANGED request /\ UNCHANGED grants
         /\ UNCHANGED uses
<1>1. ASSUME UNCHANGED credVars PROVE LeftAlone
  BY <1>1 DEF credVars, LeftAlone, SameShelves, SameCards, SameTaps
<1>2. ASSUME NEW u \in People, StoreToken(u)
      PROVE SameCards /\ SameTaps /\ UNCHANGED route /\ UNCHANGED moved /\ UNCHANGED lease /\ UNCHANGED uses
  BY <1>2 DEF StoreToken, SameCards, SameTaps
<1>3. ASSUME NEW u \in People, Revoke(u)
      PROVE SameShelves /\ SameCards /\ SameTaps /\ UNCHANGED uses
  BY <1>3 DEF Revoke, SameShelves, SameCards, SameTaps
<1>4. ASSUME NEW u \in People, NEW h \in Homes \cup {Nil}, Move(u, h)
      PROVE SameCards /\ SameTaps /\ UNCHANGED token /\ UNCHANGED lease /\ UNCHANGED uses
  BY <1>4 DEF Move, SameCards, SameTaps
<1>5. ASSUME NEW q \in Requests, LeaseAges(q)
      PROVE SameShelves /\ SameCards /\ SameTaps /\ UNCHANGED uses
  BY <1>5 DEF LeaseAges, SameShelves, SameCards, SameTaps
<1>6. ASSUME NEW q \in Requests, CardSent(q)
      PROVE SameShelves /\ SameTaps /\ UNCHANGED lease /\ UNCHANGED request /\ UNCHANGED uses
  BY <1>6 DEF CardSent, SameShelves, SameTaps
<1>7. ASSUME NEW q \in Requests, PendingExpires(q)
      PROVE SameShelves /\ SameTaps /\ UNCHANGED lease /\ UNCHANGED request /\ UNCHANGED uses
  BY <1>7 DEF PendingExpires, SameShelves, SameTaps
<1>8. ASSUME NEW r \in BorrowRuns, FindRows(r) PROVE LeftAlone
  BY <1>8 DEF FindRows, LeftAlone, SameShelves, SameCards, SameTaps
<1>9. ASSUME NEW r \in BorrowRuns, NoRow(r) PROVE LeftAlone
  BY <1>9 DEF NoRow, LeftAlone, SameShelves, SameCards, SameTaps
<1>10. ASSUME NEW r \in BorrowRuns, CheckOwner(r)
      PROVE SameShelves /\ SameCards /\ SameTaps /\ UNCHANGED uses
  BY <1>10 DEF CheckOwner, SameShelves, SameCards, SameTaps
<1>11. ASSUME NEW r \in BorrowRuns, ReadToken(r) PROVE LeftAlone
  BY <1>11 DEF ReadToken, LeftAlone, SameShelves, SameCards, SameTaps
<1>12. ASSUME NEW r \in BorrowRuns, Claim(r) PROVE SameShelves /\ SameCards /\ SameTaps
  BY <1>12 DEF Claim, SameShelves, SameCards, SameTaps
<1>13. ASSUME NEW r \in BorrowRuns, RunOver(r) PROVE LeftAlone
  BY <1>13 DEF RunOver, LeftAlone, SameShelves, SameCards, SameTaps
<1>14. ASSUME NEW r \in BorrowRuns, ReplayStanding(r) PROVE LeftAlone
  BY <1>14 DEF ReplayStanding, LeftAlone, SameShelves, SameCards, SameTaps
<1>15. ASSUME NEW r \in BorrowRuns, NEW q \in Requests, ExpireRow(r, q)
      PROVE SameShelves /\ SameCards /\ SameTaps /\ UNCHANGED uses
  BY <1>15 DEF ExpireRow, SameShelves, SameCards, SameTaps
<1>16. ASSUME NEW r \in BorrowRuns, NEW q \in Requests, PickRow(r, q) PROVE LeftAlone
  BY <1>16 DEF PickRow, LeftAlone, SameShelves, SameCards, SameTaps
<1>17. ASSUME NEW r \in BorrowRuns, NEW q \in Requests, Reserve(r, q)
      PROVE SameShelves /\ SameTaps /\ UNCHANGED lease /\ UNCHANGED uses
  BY <1>17 DEF Reserve, SameShelves, SameTaps
<1>18. ASSUME NEW r \in BorrowRuns, NEW u \in Members, NEW q \in Requests \cup {Nil},
             Spawn(r, u, q)
      PROVE LeftAlone
  BY <1>18 DEF Spawn, LeftAlone, SameShelves, SameCards, SameTaps
<1>19. ASSUME NEW c \in Clicks, PopPending(c)
      PROVE SameShelves /\ UNCHANGED lease /\ UNCHANGED request /\ UNCHANGED grants /\ UNCHANGED uses
  BY <1>19 DEF PopPending, SameShelves
<1>20. ASSUME NEW c \in Clicks, Grant(c) PROVE SameShelves /\ SameCards /\ UNCHANGED uses
  BY <1>20 DEF Grant, SameShelves, SameCards
<1>21. ASSUME NEW c \in Clicks, NEW q \in Requests, NEW u \in People, NEW ch \in Scopes \cup {"deny"},
             ClickCard(c, q, u, ch)
      PROVE SameShelves /\ SameCards /\ UNCHANGED lease /\ UNCHANGED grants /\ UNCHANGED uses
  BY <1>21 DEF ClickCard, SameShelves, SameCards
<1>22. ASSUME Restart
      PROVE SameShelves /\ UNCHANGED lease /\ UNCHANGED request /\ UNCHANGED grants /\ UNCHANGED uses
  BY <1>22 DEF Restart, SameShelves
<1> QED BY Zenon, <1>1, <1>2, <1>3, <1>4, <1>5, <1>6, <1>7, <1>8, <1>9, <1>10, <1>11,
           <1>12, <1>13, <1>14, <1>15, <1>16, <1>17, <1>18, <1>19, <1>20, <1>21, <1>22

\* Who writes what.
LEMMA RequestWriters ==
    [CredNext]_credVars =>
        \/ UNCHANGED request
        \/ (\E r \in BorrowRuns, q \in Requests : Reserve(r, q))
  BY Zenon, Footprints DEF CredNext, LeftAlone, SameShelves, SameCards, SameTaps

LEMMA RouteWriters ==
    [CredNext]_credVars =>
        \/ UNCHANGED <<route, moved>>
        \/ (\E u \in People, h \in Homes \cup {Nil} : Move(u, h))
  BY Zenon, Footprints DEF CredNext, LeftAlone, SameShelves, SameCards, SameTaps

LEMMA TokenWriters ==
    [CredNext]_credVars =>
        \/ UNCHANGED <<route, moved, token>>
        \/ (\E u \in People, h \in Homes \cup {Nil} : Move(u, h))
        \/ (\E u \in People : StoreToken(u))
  BY Zenon, Footprints DEF CredNext, LeftAlone, SameShelves, SameCards, SameTaps

LEMMA PendingWriters ==
    [CredNext]_credVars =>
        \/ UNCHANGED pending
        \/ (\E q \in Requests : CardSent(q) \/ PendingExpires(q))
        \/ (\E r \in BorrowRuns, q \in Requests : Reserve(r, q))
        \/ (\E c \in Clicks : PopPending(c))
        \/ Restart
  BY Zenon, Footprints DEF CredNext, LeftAlone, SameShelves, SameCards, SameTaps

LEMMA LeaseWriters ==
    [CredNext]_credVars =>
        \/ UNCHANGED lease
        \/ (\E u \in People : Revoke(u))
        \/ (\E q \in Requests : LeaseAges(q))
        \/ (\E r \in BorrowRuns : CheckOwner(r))
        \/ (\E r \in BorrowRuns : Claim(r))
        \/ (\E r \in BorrowRuns, q \in Requests : ExpireRow(r, q))
        \/ (\E c \in Clicks : Grant(c))
  BY Zenon, Footprints DEF CredNext, LeftAlone, SameShelves, SameCards, SameTaps

LEMMA ClickWriters ==
    [CredNext]_credVars =>
        \/ UNCHANGED click
        \/ (\E c \in Clicks, q \in Requests, u \in People, ch \in Scopes \cup {"deny"} :
              ClickCard(c, q, u, ch))
        \/ (\E c \in Clicks : PopPending(c))
        \/ (\E c \in Clicks : Grant(c))
        \/ Restart
  BY Zenon, Footprints DEF CredNext, LeftAlone, SameShelves, SameCards, SameTaps

LEMMA GrantWriters ==
    [CredNext]_credVars =>
        \/ UNCHANGED <<pending, click, lease, grants, uses>>
        \/ (\E u \in People : Revoke(u))
        \/ (\E q \in Requests : LeaseAges(q))
        \/ (\E r \in BorrowRuns : CheckOwner(r))
        \/ (\E r \in BorrowRuns : Claim(r))
        \/ (\E r \in BorrowRuns, q \in Requests : ExpireRow(r, q))
        \/ (\E c \in Clicks : Grant(c))
        \/ (\E q \in Requests : CardSent(q) \/ PendingExpires(q))
        \/ (\E r \in BorrowRuns, q \in Requests : Reserve(r, q))
        \/ (\E c \in Clicks : PopPending(c))
        \/ (\E c \in Clicks, q \in Requests, u \in People, ch \in Scopes \cup {"deny"} :
              ClickCard(c, q, u, ch))
        \/ Restart
  BY Zenon, Footprints DEF CredNext, LeftAlone, SameShelves, SameCards, SameTaps

\* A granted lease keeps its request and scope; who owned a profile still owns it.
Stable ==
    /\ \A q \in Requests : lease[q].st # "none" =>
          lease'[q].st # "none" /\ lease'[q].scope = lease[q].scope
    /\ \A q \in Requests : request[q].owner # Nil => request'[q] = request[q]
    /\ \A u \in People, h \in Homes : Owned(u, h) => Owned(u, h)'

LEMMA StableHolds == CredInv /\ [CredNext]_credVars => Stable
<1> SUFFICES ASSUME CredInv, [CredNext]_credVars PROVE Stable
  OBVIOUS
<1> USE CredAssumption, Fields DEF CredInv, CredTypeOK
<1>1. \A q \in Requests : request[q].owner # Nil => request'[q] = request[q]
  <2>1. CASE UNCHANGED request BY <2>1
  <2>2. ASSUME NEW r \in BorrowRuns, NEW q \in Requests, Reserve(r, q)
        PROVE \A o \in Requests : request[o].owner # Nil => request'[o] = request[o]
    BY <2>2 DEF Reserve
  <2> QED BY Zenon, <2>1, <2>2, RequestWriters
<1>2. \A u \in People, h \in Homes : Owned(u, h) => Owned(u, h)'
  <2>1. CASE UNCHANGED <<route, moved>> BY <2>1 DEF Owned
  <2>2. ASSUME NEW u \in People, NEW h \in Homes \cup {Nil}, Move(u, h)
        PROVE \A v \in People, k \in Homes : Owned(v, k) => Owned(v, k)'
    BY <2>2 DEF Move, Owned
  <2> QED BY Zenon, <2>1, <2>2, RouteWriters
<1>3. \A q \in Requests : lease[q].st # "none" =>
         lease'[q].st # "none" /\ lease'[q].scope = lease[q].scope
  <2> DEFINE Kept == \A q \in Requests : lease[q].st # "none" =>
                        lease'[q].st # "none" /\ lease'[q].scope = lease[q].scope
  <2>1. ASSUME UNCHANGED lease PROVE Kept BY <2>1
  <2>2. ASSUME NEW u \in People, Revoke(u) PROVE Kept
    BY <2>2 DEF Revoke, LeaseSet
  <2>3. ASSUME NEW q \in Requests, LeaseAges(q) PROVE Kept
    BY <2>3 DEF LeaseAges, LeaseSet
  <2>4. ASSUME NEW r \in BorrowRuns, CheckOwner(r) PROVE Kept
    BY <2>4 DEF CheckOwner, LeaseSet
  <2>5. ASSUME NEW r \in BorrowRuns, Claim(r) PROVE Kept
    BY <2>5 DEF Claim, LeaseSet
  <2>6. ASSUME NEW r \in BorrowRuns, NEW q \in Requests, ExpireRow(r, q) PROVE Kept
    BY <2>6 DEF ExpireRow, Expired, LeaseSet
  <2>7. ASSUME NEW c \in Clicks, Grant(c) PROVE Kept
    <3> Granting(c, click[c].of) /\ click[c].of \in Requests
      BY <2>7 DEF Grant, Granting, RequestsOnce
    <3> lease[click[c].of].st = "none"
      BY DEF GrantsOnce
    <3> QED BY <2>7 DEF Grant
  <2> HIDE DEF Kept
  <2>8. Kept
    BY Zenon, <2>1, <2>2, <2>3, <2>4, <2>5, <2>6, <2>7, LeaseWriters
  <2> QED BY <2>8 DEF Kept
<1> QED BY <1>1, <1>2, <1>3, Zenon DEF Stable

LEMMA VaultStep == CredInv /\ [CredNext]_credVars => VaultsOwned'
<1> SUFFICES ASSUME CredInv, [CredNext]_credVars PROVE VaultsOwned'
  OBVIOUS
<1> USE CredAssumption DEF CredInv, CredTypeOK, VaultsOwned
<1>1. CASE UNCHANGED <<route, moved, token>> BY <1>1 DEF Owned
<1>2. ASSUME NEW u \in People, NEW h \in Homes \cup {Nil}, Move(u, h) PROVE VaultsOwned'
  <2> \A v \in People : v \notin moved' => route'[v] = HomeOf[v]
    BY <1>2 DEF Move
  <2> \A k \in Homes : token'[k] # Nil => Owned(token[k], k)' /\ token'[k] = token[k]
    BY <1>2, StableHolds DEF Stable, Move
  <2> QED BY DEF Owned
<1>3. ASSUME NEW u \in People, StoreToken(u) PROVE VaultsOwned'
  BY <1>3 DEF StoreToken, Owned
<1> QED BY Zenon, <1>1, <1>2, <1>3, TokenWriters

LEMMA RequestStep == CredInv /\ [CredNext]_credVars => RequestsOnce'
<1> SUFFICES ASSUME CredInv, [CredNext]_credVars PROVE RequestsOnce'
  OBVIOUS
<1> USE CredAssumption, Fields DEF CredInv, CredTypeOK
<1>1. CredTypeOK' BY CredTypes DEF CredInv
<1>2. \A q \in Requests : request'[q].owner # Nil => request'[q].home \in Homes
  <2>1. CASE UNCHANGED request BY <2>1 DEF RequestsOnce
  <2>2. ASSUME NEW r \in BorrowRuns, NEW q \in Requests, Reserve(r, q)
        PROVE \A o \in Requests : request'[o].owner # Nil => request'[o].home \in Homes
    <3> brun[r].sender \in People
      BY <2>2 DEF Reserve, BorrowsKept, BorrowKept
    <3> QED BY <2>2 DEF Reserve, RequestsOnce
  <2> QED BY Zenon, <2>1, <2>2, RequestWriters
<1>3. \A q \in Requests : request'[q].owner = Nil => pending'[q] = "no"
  <2> \A q \in Requests : request'[q].owner = Nil => request[q].owner = Nil
    BY StableHolds DEF Stable
  <2>1. CASE UNCHANGED pending BY <2>1 DEF RequestsOnce
  <2>2. ASSUME NEW q \in Requests, CardSent(q) \/ PendingExpires(q)
        PROVE \A o \in Requests : request'[o].owner = Nil => pending'[o] = "no"
    BY <2>2 DEF CardSent, PendingExpires, RequestsOnce
  <2>3. ASSUME NEW r \in BorrowRuns, NEW q \in Requests, Reserve(r, q)
        PROVE \A o \in Requests : request'[o].owner = Nil => pending'[o] = "no"
    <3> brun[r].sender \in People
      BY <2>3 DEF Reserve, BorrowsKept, BorrowKept
    <3> QED BY <2>3 DEF Reserve, RequestsOnce
  <2>4. ASSUME NEW c \in Clicks, PopPending(c)
        PROVE \A o \in Requests : request'[o].owner = Nil => pending'[o] = "no"
    BY <2>4 DEF PopPending, RequestsOnce
  <2>5. CASE Restart BY <2>5 DEF Restart
  <2> QED BY Zenon, <2>1, <2>2, <2>3, <2>4, <2>5, PendingWriters
<1>4. \A q \in Requests : request'[q].owner = Nil => lease'[q].st = "none"
  <2> \A q \in Requests : request'[q].owner = Nil => request[q].owner = Nil /\ lease[q].st = "none"
    BY StableHolds DEF Stable, RequestsOnce
  <2> DEFINE Goal == \A o \in Requests : request'[o].owner = Nil => lease'[o].st = "none"
  <2>1. ASSUME UNCHANGED lease PROVE Goal BY <2>1
  <2>2. ASSUME NEW u \in People, Revoke(u) PROVE Goal
    BY <2>2 DEF Revoke
  <2>3. ASSUME NEW q \in Requests, LeaseAges(q) PROVE Goal
    BY <2>3 DEF LeaseAges
  <2>4. ASSUME NEW r \in BorrowRuns, CheckOwner(r) PROVE Goal
    BY <2>4 DEF CheckOwner
  <2>5. ASSUME NEW r \in BorrowRuns, Claim(r) PROVE Goal
    BY <2>5 DEF Claim
  <2>6. ASSUME NEW r \in BorrowRuns, NEW q \in Requests, ExpireRow(r, q) PROVE Goal
    BY <2>6 DEF ExpireRow, Expired
  <2>7. ASSUME NEW c \in Clicks, Grant(c) PROVE Goal
    <3> click[c].of \in Requests /\ request[click[c].of].owner # Nil
      BY <2>7 DEF Grant, RequestsOnce
    <3> QED BY <2>7 DEF Grant
  <2> HIDE DEF Goal
  <2>8. Goal
    BY Zenon, <2>1, <2>2, <2>3, <2>4, <2>5, <2>6, <2>7, LeaseWriters
  <2> QED BY <2>8 DEF Goal
<1>5. \A c \in Clicks :
         /\ click'[c].pc \in {"peeked", "grant"} =>
               click'[c].of \in Requests /\ request'[click'[c].of].owner # Nil
         /\ click'[c].pc = "grant" => click'[c].choice \in Scopes
  <2> DEFINE Bound(k) == /\ k.pc \in {"peeked", "grant"} =>
                               k.of \in Requests /\ request[k.of].owner # Nil
                         /\ k.pc = "grant" => k.choice \in Scopes
  <2>1. \A c \in Clicks : Bound(click[c])
    BY DEF RequestsOnce
  <2>2. \A c \in Clicks : Bound(click'[c])
    <3>1. CASE UNCHANGED click BY <3>1, <2>1
    <3>2. ASSUME NEW c \in Clicks, NEW q \in Requests, NEW u \in People,
                NEW ch \in Scopes \cup {"deny"}, ClickCard(c, q, u, ch)
          PROVE \A d \in Clicks : Bound(click'[d])
      <4> Bound([pc |-> "peeked", of |-> q, choice |-> ch])
        BY <3>2 DEF ClickCard
      <4> QED BY <3>2, <2>1 DEF ClickCard
    <3>3. ASSUME NEW c \in Clicks, PopPending(c) PROVE \A d \in Clicks : Bound(click'[d])
      <4>1. CASE pending[click[c].of] = "no" \/ click[c].choice = "deny"
        <5> Bound(ClickOver) BY DEF ClickOver, NoClick
        <5> click' = [click EXCEPT ![c] = ClickOver] BY <3>3, <4>1 DEF PopPending
        <5> QED BY <2>1
      <4>2. CASE ~ (pending[click[c].of] = "no" \/ click[c].choice = "deny")
        <5> Bound([click[c] EXCEPT !.pc = "grant"])
          BY <4>2, <2>1, <3>3 DEF PopPending, ClickSet
        <5> click' = [click EXCEPT ![c] = [click[c] EXCEPT !.pc = "grant"]]
          BY <3>3, <4>2 DEF PopPending
        <5> QED BY <2>1
      <4> QED BY <4>1, <4>2
    <3>4. ASSUME NEW c \in Clicks, Grant(c) PROVE \A d \in Clicks : Bound(click'[d])
      <4> Bound(ClickOver) BY DEF ClickOver, NoClick
      <4> QED BY <3>4, <2>1 DEF Grant
    <3>5. CASE Restart
      <4> Bound(ClickOver) /\ Bound(NoClick) BY DEF ClickOver, NoClick
      <4> QED BY <3>5 DEF Restart
    <3> HIDE DEF Bound
    <3> QED BY Zenon, <3>1, <3>2, <3>3, <3>4, <3>5, ClickWriters
  <2>3. \A q \in Requests : request[q].owner # Nil => request'[q].owner # Nil
    BY StableHolds DEF Stable
  <2> QED BY <2>2, <2>3
<1> QED BY <1>2, <1>3, <1>4, <1>5 DEF RequestsOnce

LEMMA GrantStep == CredInv /\ [CredNext]_credVars => GrantsOnce'
<1> SUFFICES ASSUME CredInv, [CredNext]_credVars PROVE GrantsOnce'
  OBVIOUS
<1> USE CredAssumption, Fields DEF CredInv, CredTypeOK
<1>1. CASE UNCHANGED <<pending, click, lease, grants, uses>>
  BY <1>1 DEF GrantsOnce, Granting
<1>2. ASSUME NEW u \in People, Revoke(u) PROVE GrantsOnce'
  BY <1>2 DEF Revoke, GrantsOnce, Granting, LeaseSet
<1>3. ASSUME NEW q \in Requests, LeaseAges(q) PROVE GrantsOnce'
  BY <1>3 DEF LeaseAges, GrantsOnce, Granting, LeaseSet
<1>4. ASSUME NEW r \in BorrowRuns, CheckOwner(r) PROVE GrantsOnce'
  BY <1>4 DEF CheckOwner, GrantsOnce, Granting, LeaseSet
<1>5. ASSUME NEW r \in BorrowRuns, Claim(r) PROVE GrantsOnce'
  <2> brun[r].pick \in Requests /\ lease[brun[r].pick].st # "none"
    BY <1>5 DEF Claim, BorrowsKept, BorrowKept
  <2> UNCHANGED <<pending, click, grants>>
    BY <1>5 DEF Claim
  <2> SUFFICES ASSUME NEW q \in Requests
        PROVE /\ grants[q] = 0 <=> lease'[q].st = "none"
              /\ grants[q] = 0 => uses'[q] = 0
              /\ lease'[q].scope = "once" =>
                   uses'[q] <= 1 /\ (lease'[q].st = "active" => uses'[q] = 0)
    BY DEF GrantsOnce, Granting
  <2>1. CASE q # brun[r].pick
    BY <1>5, <2>1 DEF Claim, GrantsOnce
  <2>2. CASE q = brun[r].pick /\ lease[q].st = "active" /\ ~ lease[q].aged
    BY <1>5, <2>2 DEF Claim, GrantsOnce, LeaseSet
  <2>3. CASE q = brun[r].pick /\ ~ (lease[q].st = "active" /\ ~ lease[q].aged)
    BY <1>5, <2>3 DEF Claim, GrantsOnce
  <2> QED BY <2>1, <2>2, <2>3
<1>6. ASSUME NEW r \in BorrowRuns, NEW q \in Requests, ExpireRow(r, q) PROVE GrantsOnce'
  BY <1>6 DEF ExpireRow, Expired, GrantsOnce, Granting, LeaseSet
<1>7. ASSUME NEW q \in Requests, CardSent(q) \/ PendingExpires(q) PROVE GrantsOnce'
  BY <1>7 DEF CardSent, PendingExpires, GrantsOnce, Granting
<1>8. ASSUME NEW r \in BorrowRuns, NEW q \in Requests, Reserve(r, q) PROVE GrantsOnce'
  <2> lease[q].st = "none" /\ \A c \in Clicks : ~ Granting(c, q)
    BY <1>8 DEF Reserve, RequestsOnce, Granting
  <2> QED BY <1>8 DEF Reserve, GrantsOnce, Granting
<1>9. ASSUME NEW c \in Clicks, PopPending(c) PROVE GrantsOnce'
  <2> click[c].of \in Requests
    BY <1>9 DEF PopPending, RequestsOnce
  <2>1. CASE pending[click[c].of] = "no" \/ click[c].choice = "deny"
    <3> click' = [click EXCEPT ![c] = ClickOver] BY <1>9, <2>1 DEF PopPending
    <3> ClickOver.pc = "done" BY DEF ClickOver, NoClick
    <3> \A d \in Clicks, q \in Requests : Granting(d, q)' => Granting(d, q)
      BY DEF Granting
    <3> QED BY <1>9 DEF PopPending, GrantsOnce
  <2>2. CASE ~ (pending[click[c].of] = "no" \/ click[c].choice = "deny")
    <3> click' = [click EXCEPT ![c] = [click[c] EXCEPT !.pc = "grant"]]
      BY <1>9, <2>2 DEF PopPending
    <3> \A d \in Clicks, q \in Requests :
           Granting(d, q)' => Granting(d, q) \/ (d = c /\ q = click[c].of)
      BY DEF Granting, ClickSet
    <3> grants[click[c].of] = 0 /\ \A d \in Clicks : ~ Granting(d, click[c].of)
      BY <2>2 DEF GrantsOnce
    <3> QED BY <1>9 DEF PopPending, GrantsOnce
  <2> QED BY <2>1, <2>2
<1>10. ASSUME NEW c \in Clicks, Grant(c) PROVE GrantsOnce'
  <2> click[c].of \in Requests /\ click[c].choice \in Scopes /\ Granting(c, click[c].of)
    BY <1>10 DEF Grant, RequestsOnce, Granting
  <2> grants[click[c].of] = 0 /\ uses[click[c].of] = 0 /\ pending[click[c].of] = "no"
    BY DEF GrantsOnce
  <2> ClickOver.pc = "done" BY DEF ClickOver, NoClick
  <2> \A d \in Clicks, q \in Requests :
         Granting(d, q)' => Granting(d, q) /\ d # c /\ q # click[c].of
    BY <1>10 DEF Grant, Granting, GrantsOnce
  <2> QED BY <1>10 DEF Grant, GrantsOnce
<1>11. ASSUME NEW c \in Clicks, NEW q \in Requests, NEW u \in People,
              NEW ch \in Scopes \cup {"deny"}, ClickCard(c, q, u, ch) PROVE GrantsOnce'
  <2> \A d \in Clicks, o \in Requests : Granting(d, o)' => Granting(d, o)
    BY <1>11 DEF ClickCard, Granting
  <2> QED BY <1>11 DEF ClickCard, GrantsOnce
<1>12. CASE Restart
  <2> \A d \in Clicks, o \in Requests : ~ Granting(d, o)'
    BY <1>12 DEF Restart, Granting, ClickOver, NoClick
  <2> QED BY <1>12 DEF Restart, GrantsOnce
<1> QED BY Zenon, <1>1, <1>2, <1>3, <1>4, <1>5, <1>6, <1>7, <1>8, <1>9, <1>10, <1>11, <1>12,
           GrantWriters

\* A run that does not move keeps what is said of it.
LEMMA BorrowFrame ==
    ASSUME CredInv, CredTypeOK', Stable, NEW r \in BorrowRuns, brun'[r] = brun[r]
    PROVE  BorrowKept(r)'
<1> USE CredAssumption, Fields DEF CredInv, CredTypeOK
<1>1. BorrowKept(r)
  BY DEF BorrowsKept
<1>2. \A q \in Requests : lease[q].st # "none" =>
         /\ lease'[q].st # "none" /\ lease'[q].scope = lease[q].scope
         /\ request'[q] = request[q]
  BY DEF Stable, RequestsOnce
<1>3. brun[r].pick # Nil => brun[r].pick \in Requests /\ lease[brun[r].pick].st # "none"
  BY <1>1 DEF BorrowKept
<1>4. brun[r].pick # Nil => request[brun[r].pick].home \in Homes
  BY <1>3 DEF RequestsOnce
<1>5. brun[r].tok # Nil /\ TokenOf(r) => TokenOf(r)'
  <2> SUFFICES ASSUME brun[r].tok # Nil, TokenOf(r) PROVE TokenOf(r)'
    OBVIOUS
  <2>1. brun[r].pick # Nil
    BY <1>1 DEF BorrowKept
  <2>2. request'[brun[r].pick] = request[brun[r].pick]
    BY <2>1, <1>3, <1>2
  <2>3. Owned(brun[r].tok, request[brun[r].pick].home) =>
           Owned(brun[r].tok, request[brun[r].pick].home)'
    <3> PICK u \in People, h \in Homes : u = brun[r].tok /\ h = request[brun[r].pick].home
      BY <2>1, <1>4
    <3> Owned(u, h) => Owned(u, h)'
      BY DEF Stable
    <3> QED BY <2>2 DEF Owned
  <2> QED BY <2>2, <2>3 DEF TokenOf, Owned
<1> QED BY <1>1, <1>2, <1>3, <1>5 DEF BorrowKept

LEMMA BorrowStep == CredInv /\ [CredNext]_credVars => BorrowsKept'
<1> SUFFICES ASSUME CredInv, [CredNext]_credVars PROVE BorrowsKept'
  OBVIOUS
<1> USE CredAssumption, Fields DEF CredInv, CredTypeOK
<1>1. CredTypeOK' BY CredTypes DEF CredInv
<1>2. Stable BY StableHolds
<1>3. \A r \in BorrowRuns : BorrowKept(r) BY DEF BorrowsKept
<1>4. \A r \in BorrowRuns : brun'[r] = brun[r] => BorrowKept(r)'
  BY <1>1, <1>2, BorrowFrame
<1>5. \A q \in Requests : lease[q].st # "none" =>
         /\ lease'[q].st # "none" /\ lease'[q].scope = lease[q].scope
         /\ request'[q] = request[q]
  BY <1>2 DEF Stable, RequestsOnce
<1>6. CASE UNCHANGED brun
  BY <1>6, <1>4 DEF BorrowsKept
<1>7. ASSUME NEW r \in BorrowRuns, FindRows(r) PROVE BorrowsKept'
  <2> BorrowKept(r)'
    <3>1. /\ brun'[r].pc = "rows" /\ brun'[r].rows = ActiveOf(brun[r].sender)
          /\ brun'[r].sender = brun[r].sender /\ brun'[r].deleg = brun[r].deleg
          /\ brun'[r].pick = brun[r].pick /\ brun'[r].tok = brun[r].tok
      BY <1>7 DEF FindRows, BorrowSet
    <3>2. brun[r].pc = "find" /\ BorrowKept(r) BY <1>7, <1>3 DEF FindRows
    <3>3. brun[r].sender \in People /\ brun[r].tok = Nil
      BY <3>2 DEF BorrowKept
    <3>4. UNCHANGED <<lease, request>> BY <1>7 DEF FindRows
    <3>5. \A q \in ActiveOf(brun[r].sender) :
             request[q].owner = brun[r].sender /\ lease[q].st # "none"
      BY DEF ActiveOf
    <3> QED BY <3>1, <3>2, <3>3, <3>4, <3>5 DEF BorrowKept
  <2> QED BY <1>7, <1>4 DEF FindRows, BorrowsKept
<1>8. ASSUME NEW r \in BorrowRuns, NoRow(r) PROVE BorrowsKept'
  <2> BorrowKept(r)'
    BY <1>8, <1>3, <1>1, <1>5 DEF NoRow, BorrowKept, BorrowSet
  <2> QED BY <1>8, <1>4 DEF NoRow, BorrowsKept
<1>9. ASSUME NEW r \in BorrowRuns, CheckOwner(r) PROVE BorrowsKept'
  <2> DEFINE u == brun[r].sender
             h == request[brun[r].pick].home
  <2>1. /\ brun[r].pick \in Requests /\ u \in People /\ brun[r].rows = {}
        /\ lease[brun[r].pick].st # "none"
    BY <1>9, <1>3 DEF CheckOwner, BorrowKept
  <2>2. UNCHANGED <<route, moved, request>> /\ h \in Homes
    BY <1>9, <2>1 DEF CheckOwner, RequestsOnce
  <2>3. /\ brun'[r].rows = brun[r].rows /\ brun'[r].sender = brun[r].sender
        /\ brun'[r].deleg = brun[r].deleg /\ brun'[r].pick = brun[r].pick
    BY <1>9 DEF CheckOwner, BorrowSet
  <2>4. ASSUME ~ RouteMatches(u, h) PROVE BorrowKept(r)'
    <3> brun'[r].pc = "going" /\ brun'[r].tok = Nil
      BY <1>9, <2>4 DEF CheckOwner, BorrowSet
    <3> QED BY <2>1, <2>3, <1>3, <1>5 DEF BorrowKept
  <2>5. ASSUME RouteMatches(u, h) /\ brun[r].pc = "check" PROVE BorrowKept(r)'
    <3> brun[r].tok = Nil BY <2>5, <1>3 DEF BorrowKept
    <3> brun'[r].pc = "read" /\ brun'[r].tok = Nil
      BY <1>9, <2>5 DEF CheckOwner, BorrowSet
    <3> QED BY <2>1, <2>3, <1>3, <1>5 DEF BorrowKept
  <2>6. ASSUME RouteMatches(u, h) /\ brun[r].pc = "recheck" PROVE BorrowKept(r)'
    <3>1. brun'[r].pc = "claim" /\ brun'[r].tok = brun[r].tok
      BY <1>9, <2>6 DEF CheckOwner, BorrowSet
    <3>2. brun[r].tok \notin {Nil, u} => HomeOf[brun[r].tok] = h /\ HomeOf[u] # h
      <4> SUFFICES ASSUME brun[r].tok \notin {Nil, u}
                   PROVE HomeOf[brun[r].tok] = h /\ HomeOf[u] # h
        OBVIOUS
      <4> brun[r].tok \in People /\ Owned(brun[r].tok, h)
        BY <2>6, <1>3 DEF BorrowKept, TokenOf
      <4> route[brun[r].tok] # h
        BY <2>6 DEF RouteMatches
      <4> HomeOf[brun[r].tok] = h
        BY DEF Owned
      <4> QED BY <2>1
    <3>3. brun[r].tok # Nil => TokenOf(r)'
      BY <3>1, <3>2, <2>2, <2>3 DEF TokenOf
    <3> QED BY <2>1, <2>3, <3>1, <3>3, <1>3, <1>5 DEF BorrowKept
  <2>7. brun[r].pc \in {"check", "recheck"}
    BY <1>9 DEF CheckOwner
  <2> BorrowKept(r)'
    BY <2>4, <2>5, <2>6, <2>7
  <2> QED BY <1>9, <1>4 DEF CheckOwner, BorrowsKept
<1>10. ASSUME NEW r \in BorrowRuns, ReadToken(r) PROVE BorrowsKept'
  <2> DEFINE h == request[brun[r].pick].home
  <2>1. /\ brun[r].pick \in Requests /\ brun[r].sender \in People /\ brun[r].rows = {}
        /\ lease[brun[r].pick].st # "none"
    BY <1>10, <1>3 DEF ReadToken, BorrowKept
  <2>2. UNCHANGED <<route, moved, request, token>> /\ h \in Homes
    BY <1>10, <2>1 DEF ReadToken, RequestsOnce
  <2>3. /\ brun'[r].rows = brun[r].rows /\ brun'[r].sender = brun[r].sender
        /\ brun'[r].deleg = brun[r].deleg /\ brun'[r].pick = brun[r].pick
        /\ brun'[r].tok = token[h] /\ brun'[r].pc \in {"going", "recheck"}
        /\ token[h] # Nil => brun'[r].pc = "recheck"
    BY <1>10 DEF ReadToken, BorrowSet
  <2>4. token[h] # Nil => Owned(token[h], h)
    BY <2>2 DEF VaultsOwned
  <2>5. token[h] # Nil => TokenOf(r)'
    BY <2>2, <2>3, <2>4 DEF TokenOf, Owned
  <2> BorrowKept(r)'
    BY <2>1, <2>3, <2>5, <1>3, <1>5 DEF BorrowKept
  <2> QED BY <1>10, <1>4 DEF ReadToken, BorrowsKept
<1>11. ASSUME NEW r \in BorrowRuns, Claim(r) PROVE BorrowsKept'
  <2>1. /\ brun[r].pick \in Requests /\ brun[r].sender \in People /\ brun[r].rows = {}
        /\ lease[brun[r].pick].st # "none" /\ brun[r].pc = "claim"
    BY <1>11, <1>3 DEF Claim, BorrowKept
  <2>2. UNCHANGED request
    BY <1>11 DEF Claim
  <2>3. /\ brun'[r].rows = brun[r].rows /\ brun'[r].sender = brun[r].sender
        /\ brun'[r].deleg = brun[r].deleg /\ brun'[r].pick = brun[r].pick
        /\ brun'[r].tok \in {Nil, brun[r].tok} /\ brun'[r].pc = "going"
    BY <1>11 DEF Claim, BorrowSet
  <2>4. brun'[r].tok # Nil => TokenOf(r)'
    BY <1>3, <2>1, <2>2, <2>3 DEF BorrowKept, TokenOf
  <2> BorrowKept(r)'
    BY <2>1, <2>3, <2>4, <1>3, <1>5 DEF BorrowKept
  <2> QED BY <1>11, <1>4 DEF Claim, BorrowsKept
<1>12. ASSUME NEW r \in BorrowRuns, RunOver(r) \/ ReplayStanding(r) PROVE BorrowsKept'
  <2> BorrowKept(r)'
    BY <1>12 DEF RunOver, ReplayStanding, BorrowOver, NoRun, BorrowKept
  <2> QED BY <1>12, <1>4 DEF RunOver, ReplayStanding, BorrowsKept
<1>13. ASSUME NEW r \in BorrowRuns, NEW q \in Requests, ExpireRow(r, q) PROVE BorrowsKept'
  <2> BorrowKept(r)'
    BY SMTT(20), <1>13, <1>3, <1>1, <1>5 DEF ExpireRow, BorrowKept, BorrowSet
  <2> QED BY <1>13, <1>4 DEF ExpireRow, BorrowsKept
<1>14. ASSUME NEW r \in BorrowRuns, NEW q \in Requests, PickRow(r, q) PROVE BorrowsKept'
  <2> BorrowKept(r)'
    BY <1>14, <1>3, <1>1, <1>5 DEF PickRow, Eligible, BorrowKept, BorrowSet, Scopes
  <2> QED BY <1>14, <1>4 DEF PickRow, BorrowsKept
<1>15. ASSUME NEW r \in BorrowRuns, NEW q \in Requests, Reserve(r, q) PROVE BorrowsKept'
  <2> BorrowKept(r)'
    BY <1>15 DEF Reserve, BorrowOver, NoRun, BorrowKept
  <2> QED BY <1>15, <1>4 DEF Reserve, BorrowsKept
<1>16. ASSUME NEW r \in BorrowRuns, NEW u \in Members, NEW q \in Requests \cup {Nil},
              Spawn(r, u, q) PROVE BorrowsKept'
  <2> BorrowKept(r)'
    BY <1>16 DEF Spawn, NoRun, BorrowKept
  <2> QED BY <1>16, <1>4 DEF Spawn, BorrowsKept
<1>17. CASE Restart
  <2> \A r \in BorrowRuns : brun'[r].pc \in {"none", "over"} /\ brun'[r].rows = {}
                            /\ brun'[r].pick = Nil /\ brun'[r].tok = Nil
    BY <1>17 DEF Restart, BorrowOver, NoRun
  <2> QED BY DEF BorrowsKept, BorrowKept
<1> QED BY <1>6, <1>7, <1>8, <1>9, <1>10, <1>11, <1>12, <1>13, <1>14, <1>15, <1>16, <1>17
       DEF credVars, CredNext, StoreToken, Revoke, Move, LeaseAges, CardSent, PendingExpires,
       PopPending, Grant, ClickCard

LEMMA CredInductive ==
    /\ CredInit => CredInv
    /\ CredInv /\ [CredNext]_credVars => CredInv'
<1>1. CredInit => CredInv
  BY CredAssumption DEF CredInit, CredInv, CredTypeOK, VaultsOwned, Owned, RequestsOnce, GrantsOnce, Granting,
     BorrowsKept, BorrowKept, NoLease, NoRun, NoClick, LeaseSet, BorrowSet, ClickSet, RunPcs, Scopes
<1>2. CredInv /\ [CredNext]_credVars => CredInv'
  BY CredTypes, VaultStep, RequestStep, GrantStep, BorrowStep, Zenon DEF CredInv
<1> QED BY <1>1, <1>2

\* The token a run carries is its sender's own, or was in the vault the sender took
\* over with the profile (credential_delegation.py: delegation_env_for_run).
THEOREM BorrowsStayOwn == CredSpec => []BorrowsOwn
<1>1. CredInv => BorrowsOwn
  BY Fields DEF CredInv, BorrowsKept, BorrowKept, TokenOf, BorrowsOwn, CredTypeOK
<1> QED BY <1>1, CredInductive, PTL DEF CredSpec

\* A dead lease stays dead: only Grant makes a lease active, of a request not granted yet.
LEMMA DeadStep ==
    CredInv /\ [CredNext]_credVars =>
        \A q \in Requests : lease[q].st \in Dead => lease'[q].st = lease[q].st
<1> SUFFICES ASSUME CredInv, [CredNext]_credVars
             PROVE \A q \in Requests : lease[q].st \in Dead => lease'[q].st = lease[q].st
  OBVIOUS
<1> USE CredAssumption, Fields DEF CredInv, CredTypeOK
<1> DEFINE Goal == \A q \in Requests : lease[q].st \in Dead => lease'[q].st = lease[q].st
<1>1. ASSUME UNCHANGED lease PROVE Goal BY <1>1
<1>2. ASSUME NEW u \in People, Revoke(u) PROVE Goal
  BY <1>2 DEF Revoke, Dead
<1>3. ASSUME NEW q \in Requests, LeaseAges(q) PROVE Goal
  BY <1>3 DEF LeaseAges, Dead
<1>4. ASSUME NEW r \in BorrowRuns, CheckOwner(r) PROVE Goal
  BY <1>4 DEF CheckOwner, Dead
<1>5. ASSUME NEW r \in BorrowRuns, Claim(r) PROVE Goal
  BY <1>5 DEF Claim, Dead
<1>6. ASSUME NEW r \in BorrowRuns, NEW q \in Requests, ExpireRow(r, q) PROVE Goal
  BY <1>6 DEF ExpireRow, Expired, Dead
<1>7. ASSUME NEW c \in Clicks, Grant(c) PROVE Goal
  <2> click[c].of \in Requests /\ Granting(c, click[c].of)
    BY <1>7 DEF Grant, RequestsOnce, Granting
  <2> lease[click[c].of].st = "none"
    BY DEF GrantsOnce
  <2> QED BY <1>7 DEF Grant, Dead
<1> HIDE DEF Goal
<1>8. Goal
  BY Zenon, <1>1, <1>2, <1>3, <1>4, <1>5, <1>6, <1>7, LeaseWriters
<1> QED BY <1>8 DEF Goal

\* "Allow once" is one grant and one borrow however many clicks race, and a lease that
\* was taken back stays so (_pop_pending, record_lease_use).
THEOREM LeasesStayHonoured == CredSpec => LeasesHonoured
<1>1. CredInv => OnceMeansOnce
  BY Fields DEF CredInv, GrantsOnce, BorrowsKept, BorrowKept, OnceMeansOnce, CredTypeOK
<1>2. CredInv /\ [CredNext]_credVars =>
        [\A q \in Requests : lease[q].st \in Dead => lease'[q].st = lease[q].st]_credVars
  BY DeadStep
<1> QED BY <1>1, <1>2, CredInductive, PTL DEF CredSpec, LeasesHonoured, DeadStays

-----------------------------------------------------------------------------
(* User tokens. *)

Inside == {"locked", "exchange", "rejected", "failed", "vault", "mirror", "clear"}
Storing == {"vault", "mirror", "clear"}

\* Who is inside the identity lock of a profile holds it.
LocksHeld ==
    /\ \A r \in Refreshes : refresh[r].pc \in Inside => idlock[refresh[r].p] = r
    /\ \A s \in Devices : device[s].pc \in Storing => idlock[device[s].p] = s
    /\ writer.pc = "locked" => \A p \in Identities : idlock[p] = Writer

\* The route is what the writer read, and what a store between its copies asserted.
RoutesKept ==
    /\ writer.pc # "none" => writer.from = routed[writer.row] /\ writer.to # writer.from
    /\ \A r \in Refreshes : refresh[r].pc = "mirror" => RoutedTo(refresh[r].p)
    /\ \A s \in Devices : device[s].pc = "mirror" => RoutedTo(device[s].p)

\* Where a token is known, beside the session that got it.
Copy(p, t) ==
    \/ vault[p] = t
    \/ mirror[p] = t
    \/ \E r \in Refreshes : refresh[r].p = p /\ refresh[r].token = t

\* A token is known to one profile, and a session's to nobody else until it is stored,
\* which a failed write of the mirror leaves behind as well.
TokensApart ==
    /\ \A p, q \in Vaults, t \in Tokens : Copy(p, t) /\ Copy(q, t) => p = q
    /\ \A s, z \in Devices :
          device[s].token # 0 /\ device[s].token = device[z].token => s = z
    /\ \A s \in Devices, p \in Vaults :
          device[s].token # 0 /\ Copy(p, device[s].token) =>
             p = device[s].p /\ (device[s].stored # 0 \/ device[s].pc \in {"mirror", "clear"})

\* Tokens are numbered as Feishu issues them.
TokensIssued ==
    /\ valid \subseteq 1..issued
    /\ \A p \in Vaults : vault[p] <= issued /\ mirror[p] <= issued
    /\ \A r \in Refreshes : refresh[r].token <= issued
    /\ \A s \in Devices : device[s].token <= issued

\* What a refresh and a session know of the token they hold.
TokensHeld ==
    /\ \A r \in Refreshes :
          /\ refresh[r].token # 0 => refresh[r].pc \in Inside
          /\ refresh[r].pc \in {"vault", "mirror"} => refresh[r].token \in valid
          /\ refresh[r].pc = "rejected" => refresh[r].token \notin valid
          /\ refresh[r].pc \in {"exchange", "rejected"} /\ refresh[r].token = refresh[r].newest =>
                RevokedAt(refresh[r].p) \/ refresh[r].token = Best(refresh[r].p)
    /\ \A s \in Devices :
          /\ device[s].token # 0 => device[s].token \in valid \/ device[s].stored # 0
          /\ device[s].pc \in {"lock", "vault", "mirror"} => device[s].token # 0
          /\ device[s].pc = "mirror" => vault[device[s].p] \in {0, device[s].token}

Spent(p) == \E r \in Refreshes : refresh[r].pc = "vault" /\ refresh[r].p = p

\* The vault's copy is good, or the mirror's where the vault has none; a marker is true.
CopiesGood ==
    \A p \in Vaults :
        /\ ~ missed[p] /\ ~ Spent(p) =>
              /\ vault[p] # 0 => vault[p] \in valid
              /\ vault[p] = 0 /\ mirror[p] # 0 => mirror[p] \in valid
        /\ mark[p] = "standing" /\ ~ RevokedAt(p) => Best(p) \notin valid

\* Inductive.
TokenInv ==
    /\ TokenTypeOK /\ LocksHeld /\ RoutesKept /\ TokensApart /\ TokensIssued /\ TokensHeld
    /\ CopiesGood

LEMMA TokenRows ==
    /\ AnyVault \in Vaults /\ NoRefresh \in RefreshSet /\ NoDevice \in DeviceSet
    /\ NoWrite \in WriterSet
    /\ \A k \in RefreshSet, pc \in RefreshPcs :
          LET n == [k EXCEPT !.pc = pc] IN
          /\ n \in RefreshSet
          /\ n.pc = pc /\ n.p = k.p /\ n.worker = k.worker /\ n.token = k.token
          /\ n.newest = k.newest
    /\ \A k \in DeviceSet, pc \in DevicePcs :
          LET n == [k EXCEPT !.pc = pc] IN
          /\ n \in DeviceSet
          /\ n.pc = pc /\ n.p = k.p /\ n.status = k.status /\ n.token = k.token
          /\ n.stored = k.stored
    /\ \A k \in RefreshSet : /\ k.p \in Vaults /\ k.token \in 0..MaxTokens /\ k.pc \in RefreshPcs
                             /\ k.worker \in BOOLEAN /\ k.newest \in 0..MaxTokens
    /\ \A k \in DeviceSet : k.stored \in 0..MaxTokens /\ k.p \in Vaults /\ k.token \in 0..MaxTokens /\ k.pc \in DevicePcs
<1>1. AnyVault \in Vaults
  BY TokenAssumption DEF AnyVault
<1>2. NoRefresh \in RefreshSet /\ NoDevice \in DeviceSet
  BY <1>1, TokenAssumption DEF NoRefresh, NoDevice, RefreshSet, DeviceSet, RefreshPcs, DevicePcs, Statuses
<1>3. NoWrite \in WriterSet
  <2> (CHOOSE i \in Rows : TRUE) \in Rows BY TokenAssumption
  <2> QED BY DEF NoWrite, WriterSet
<1>4. \A k \in RefreshSet, pc \in RefreshPcs :
          LET n == [k EXCEPT !.pc = pc] IN
          /\ n \in RefreshSet
          /\ n.pc = pc /\ n.p = k.p /\ n.worker = k.worker /\ n.token = k.token
          /\ n.newest = k.newest
  BY DEF RefreshSet
<1>5. \A k \in DeviceSet, pc \in DevicePcs :
          LET n == [k EXCEPT !.pc = pc] IN
          /\ n \in DeviceSet
          /\ n.pc = pc /\ n.p = k.p /\ n.status = k.status /\ n.token = k.token
          /\ n.stored = k.stored
  BY DEF DeviceSet
<1>6. /\ \A k \in RefreshSet : /\ k.p \in Vaults /\ k.token \in 0..MaxTokens /\ k.pc \in RefreshPcs
                               /\ k.worker \in BOOLEAN /\ k.newest \in 0..MaxTokens
      /\ \A k \in DeviceSet : k.stored \in 0..MaxTokens /\ k.p \in Vaults /\ k.token \in 0..MaxTokens /\ k.pc \in DevicePcs
  BY DEF RefreshSet, DeviceSet
<1> QED BY <1>1, <1>2, <1>3, <1>4, <1>5, <1>6, Zenon

\* What the moves of a refresh and of a session change.
RefreshIs(r, pc, p, tok) ==
    /\ refresh' \in [Refreshes -> RefreshSet]
    /\ \A o \in Refreshes : o # r => refresh'[o] = refresh[o]
    /\ refresh'[r].pc = pc /\ refresh'[r].p = p /\ refresh'[r].token = tok
    /\ refresh'[r].pc = "rejected" => refresh'[r].newest = refresh[r].newest

Loaded(r, tok) ==
    /\ refresh' \in [Refreshes -> RefreshSet]
    /\ \A o \in Refreshes : o # r => refresh'[o] = refresh[o]
    /\ refresh'[r].pc = "exchange" /\ refresh'[r].p = refresh[r].p /\ refresh'[r].token = tok
    /\ tok \in {vault[refresh[r].p], mirror[refresh[r].p]} \ {0}
    /\ refresh'[r].newest = Best(refresh[r].p)

DeviceIs(s, pc, p, tok) ==
    /\ device' \in [Devices -> DeviceSet]
    /\ \A z \in Devices : z # s => device'[z] = device[z]
    /\ device'[s].pc = pc /\ device'[s].p = p /\ device'[s].token = tok
    /\ device'[s].token # 0 /\ device[s].stored # 0 => device'[s].stored # 0

LEMMA RefreshMoves ==
    ASSUME TokenTypeOK, NEW r \in Refreshes, NEW pc \in RefreshPcs, RefreshTo(r, pc)
    PROVE  /\ pc # "done" => RefreshIs(r, pc, refresh[r].p, refresh[r].token)
           /\ pc = "done" => RefreshIs(r, "done", AnyVault, 0)
<1>1. refresh[r] \in RefreshSet /\ refresh \in [Refreshes -> RefreshSet]
  BY DEF TokenTypeOK
<1>2. NoRefresh.p = AnyVault /\ NoRefresh.token = 0
  BY DEF NoRefresh
<1>3. PICK k \in RefreshSet : k = IF pc = "done" THEN NoRefresh ELSE refresh[r]
  BY <1>1, TokenRows
<1>4. refresh' = [refresh EXCEPT ![r] = [k EXCEPT !.pc = pc]]
  BY <1>3 DEF RefreshTo
<1>5. PICK n : n = [k EXCEPT !.pc = pc]
  OBVIOUS
<1>6. n \in RefreshSet /\ n.pc = pc /\ n.p = k.p /\ n.token = k.token /\ n.newest = k.newest
  BY <1>5 DEF RefreshSet
<1>7. refresh' = [refresh EXCEPT ![r] = n]
  BY <1>4, <1>5
<1> QED BY <1>1, <1>2, <1>3, <1>6, <1>7 DEF RefreshIs

LEMMA DeviceMoves ==
    ASSUME TokenTypeOK, NEW s \in Devices, NEW pc \in DevicePcs, DeviceTo(s, pc)
    PROVE  /\ pc # "gone" => DeviceIs(s, pc, device[s].p, device[s].token)
           /\ pc = "gone" => DeviceIs(s, "gone", AnyVault, 0)
<1>1. device[s] \in DeviceSet /\ device \in [Devices -> DeviceSet]
  BY DEF TokenTypeOK
<1>2. NoDevice.p = AnyVault /\ NoDevice.token = 0
  BY DEF NoDevice
<1>3. PICK k \in DeviceSet : k = IF pc = "gone" THEN NoDevice ELSE device[s]
  BY <1>1, TokenRows
<1>4. device' = [device EXCEPT ![s] = [k EXCEPT !.pc = pc]]
  BY <1>3 DEF DeviceTo
<1>5. PICK n : n = [k EXCEPT !.pc = pc]
  OBVIOUS
<1>6. n \in DeviceSet /\ n.pc = pc /\ n.p = k.p /\ n.token = k.token /\ n.stored = k.stored
  BY <1>5 DEF DeviceSet
<1>7. device' = [device EXCEPT ![s] = n]
  BY <1>4, <1>5
<1> QED BY <1>1, <1>2, <1>3, <1>6, <1>7 DEF DeviceIs

LEMMA SessionEnds ==
    ASSUME TokenTypeOK, NEW s \in Devices, NEW st \in Statuses, Ended(s, st)
    PROVE  DeviceIs(s, "idle", device[s].p, 0)
<1>1. device[s] \in DeviceSet /\ device \in [Devices -> DeviceSet]
  BY DEF TokenTypeOK
<1>2. PICK n : n = [device[s] EXCEPT !.pc = "idle", !.status = st, !.token = 0, !.stored = 0]
  OBVIOUS
<1>3. n \in DeviceSet /\ n.pc = "idle" /\ n.p = device[s].p /\ n.token = 0
  <2> "idle" \in DevicePcs /\ 0 \in 0..MaxTokens BY TokenAssumption DEF DevicePcs
  <2> QED BY <1>1, <1>2 DEF DeviceSet
<1>4. device' = [device EXCEPT ![s] = n]
  BY <1>1, <1>2 DEF Ended
<1> QED BY <1>1, <1>3, <1>4 DEF DeviceIs

LEMMA RefreshBegins ==
    ASSUME TokenTypeOK, NEW r \in Refreshes, NEW p \in Vaults, NEW worker \in BOOLEAN,
           RefreshBegin(r, p, worker)
    PROVE  RefreshIs(r, "wait", p, 0)
<1>1. refresh \in [Refreshes -> RefreshSet]
  BY DEF TokenTypeOK
<1>2. PICK n : n = [NoRefresh EXCEPT !.pc = "wait", !.p = p, !.worker = worker]
  OBVIOUS
<1>3. n \in RefreshSet /\ n.pc = "wait" /\ n.p = p /\ n.worker = worker /\ n.token = 0
  <2> "wait" \in RefreshPcs /\ 0 \in 0..MaxTokens BY TokenAssumption DEF RefreshPcs
  <2> QED BY <1>2 DEF NoRefresh, RefreshSet
<1>4. refresh' = [refresh EXCEPT ![r] = n]
  BY <1>2 DEF RefreshBegin
<1> QED BY <1>1, <1>3, <1>4 DEF RefreshIs

\* What each action of a refresh does to it.
LEMMA RefreshSteps ==
    ASSUME TokenTypeOK, NEW r \in Refreshes
    PROVE  LET k == refresh[r] IN
           /\ RefreshLock(r) => RefreshIs(r, "locked", k.p, k.token)
           /\ RefreshLoad(r) => \/ (\E t \in 0..MaxTokens : Loaded(r, t)) /\ UNCHANGED idlock
                                \/ RefreshIs(r, "done", AnyVault, 0) /\ Drop(k.p)
           /\ RecordFailure(r) => RefreshIs(r, "done", AnyVault, 0)
           /\ StoreVault(r) =>
                 \/ RefreshIs(r, "mirror", k.p, k.token) /\ RoutedTo(k.p) /\ PutVault(k.p, k.token)
                    /\ Outdate(k.p) /\ UNCHANGED missed
                 \/ RefreshIs(r, "failed", k.p, k.token) /\ missed' = [missed EXCEPT ![k.p] = TRUE]
                    /\ UNCHANGED <<vault, mark>>
           /\ StoreMirror(r) =>
                 \/ RefreshIs(r, "clear", k.p, k.token) /\ Outdate(k.p)
                    /\ mirror' = [mirror EXCEPT ![k.p] = k.token]
                 \/ RefreshIs(r, "failed", k.p, k.token) /\ UNCHANGED <<mirror, mark>>
           /\ StoreClear(r) => RefreshIs(r, "done", AnyVault, 0)
           /\ RefreshDies(r) => RefreshIs(r, "done", AnyVault, 0)
<1>1. refresh \in [Refreshes -> RefreshSet] /\ refresh[r] \in RefreshSet
  BY DEF TokenTypeOK
<1>2. ASSUME RefreshLoad(r)
      PROVE \/ (\E t \in 0..MaxTokens : Loaded(r, t)) /\ UNCHANGED idlock
            \/ RefreshIs(r, "done", AnyVault, 0) /\ Drop(refresh[r].p)
  <2>1. CASE RefreshTo(r, "done") /\ Drop(refresh[r].p)
    <3> "done" \in RefreshPcs BY DEF RefreshPcs
    <3> QED BY <2>1, RefreshMoves
  <2>2. ASSUME NEW t \in {vault[refresh[r].p], mirror[refresh[r].p]} \ {0}, Take(r, t)
        PROVE  t \in 0..MaxTokens /\ Loaded(r, t)
    <3>1. t \in 0..MaxTokens
      BY <1>1, <2>2, TokenRows DEF TokenTypeOK
    <3>2. PICK b \in 0..MaxTokens : b = Best(refresh[r].p)
      BY <1>1, TokenRows DEF Best, TokenTypeOK
    <3>3. PICK n : n = [refresh[r] EXCEPT !.pc = "exchange", !.token = t, !.newest = b]
      OBVIOUS
    <3>4. /\ n \in RefreshSet /\ n.pc = "exchange" /\ n.p = refresh[r].p
          /\ n.token = t /\ n.newest = b
      BY <1>1, <3>1, <3>2, <3>3 DEF RefreshSet, RefreshPcs
    <3>5. refresh' = [refresh EXCEPT ![r].pc = "exchange", ![r].token = t, ![r].newest = b]
      BY <2>2, <3>2 DEF Take
    <3>6. refresh' = [refresh EXCEPT ![r] = n]
      BY <1>1, <3>3, <3>5
    <3> QED BY <1>1, <2>2, <3>1, <3>4, <3>2, <3>6 DEF Loaded
  <2> QED BY <1>2, <2>1, <2>2 DEF RefreshLoad
<1>3. {"locked", "done", "mirror", "failed", "clear"} \subseteq RefreshPcs
  BY DEF RefreshPcs
<1>4. RefreshLock(r) => RefreshIs(r, "locked", refresh[r].p, refresh[r].token)
  BY <1>3, RefreshMoves DEF RefreshLock
<1>5. RecordFailure(r) \/ StoreClear(r) \/ RefreshDies(r) => RefreshIs(r, "done", AnyVault, 0)
  BY <1>3, RefreshMoves DEF RecordFailure, StoreClear, RefreshDies
<1>6. StoreVault(r) =>
         \/ /\ RefreshIs(r, "mirror", refresh[r].p, refresh[r].token) /\ RoutedTo(refresh[r].p)
            /\ PutVault(refresh[r].p, refresh[r].token) /\ Outdate(refresh[r].p) /\ UNCHANGED missed
         \/ /\ RefreshIs(r, "failed", refresh[r].p, refresh[r].token)
            /\ missed' = [missed EXCEPT ![refresh[r].p] = TRUE] /\ UNCHANGED <<vault, mark>>
  BY <1>3, RefreshMoves DEF StoreVault
<1>7. StoreMirror(r) =>
         \/ /\ RefreshIs(r, "clear", refresh[r].p, refresh[r].token) /\ Outdate(refresh[r].p)
            /\ mirror' = [mirror EXCEPT ![refresh[r].p] = refresh[r].token]
         \/ RefreshIs(r, "failed", refresh[r].p, refresh[r].token) /\ UNCHANGED <<mirror, mark>>
  BY <1>3, RefreshMoves DEF StoreMirror
<1> QED BY <1>2, <1>4, <1>5, <1>6, <1>7

\* What each action of a session does to it.
LEMMA DeviceSteps ==
    ASSUME TokenTypeOK, NEW s \in Devices
    PROVE  LET k == device[s] IN
           /\ \A p \in Vaults : DeviceStart(s, p) => DeviceIs(s, "idle", p, 0)
           /\ PollBegin(s) => \/ k.token = 0 /\ DeviceIs(s, "exchange", k.p, k.token)
                              \/ k.token # 0 /\ DeviceIs(s, "lock", k.p, k.token)
                              \/ DeviceIs(s, "idle", k.p, 0)
           /\ PollExchange(s) =>
                 \/ /\ issued' \in Tokens /\ issued' = issued + 1 /\ valid' = valid \cup {issued'}
                    /\ DeviceIs(s, "lock", k.p, issued') \/ DeviceIs(s, "idle", k.p, 0)
                 \/ DeviceIs(s, "idle", k.p, k.token) /\ UNCHANGED <<valid, issued>>
           /\ PollLock(s) => \/ DeviceIs(s, "vault", k.p, k.token) /\ Hold(k.p, s)
                             \/ DeviceIs(s, "idle", k.p, k.token) /\ UNCHANGED idlock
           /\ PollVault(s) =>
                 \/ /\ DeviceIs(s, "mirror", k.p, k.token) /\ RoutedTo(k.p)
                    /\ PutVault(k.p, k.token) /\ Outdate(k.p) /\ UNCHANGED idlock
                    /\ missed' = [missed EXCEPT ![k.p] = @ \/ Stale(s)]
                 \/ /\ \E t \in {0, k.token} : DeviceIs(s, "idle", k.p, t)
                    /\ Drop(k.p) /\ UNCHANGED <<vault, mark, missed>>
           /\ PollMirror(s) =>
                 \/ /\ DeviceIs(s, "clear", k.p, k.token) /\ Outdate(k.p) /\ UNCHANGED idlock
                    /\ mirror' = [mirror EXCEPT ![k.p] = k.token]
                    /\ missed' = [missed EXCEPT ![k.p] = Stale(s)]
                 \/ /\ \E t \in {0, k.token} :
                          DeviceIs(s, "idle", k.p, t) /\ (t # 0 => device'[s].stored # 0)
                    /\ Drop(k.p) /\ UNCHANGED <<mirror, mark, missed>>
           /\ PollClear(s) => DeviceIs(s, "idle", k.p, 0) /\ mark' \in {mark, [mark EXCEPT ![k.p] = "none"]}
           /\ DeviceCancel(s) => DeviceIs(s, "idle", k.p, 0)
           /\ DeviceDies(s) => DeviceIs(s, "gone", AnyVault, 0)
<1>1. device \in [Devices -> DeviceSet] /\ device[s] \in DeviceSet
  BY DEF TokenTypeOK
<1>2. ASSUME NEW p \in Vaults, DeviceStart(s, p) PROVE DeviceIs(s, "idle", p, 0)
  <2>1. PICK n : n = [NoDevice EXCEPT !.pc = "idle", !.p = p]
    OBVIOUS
  <2>2. n \in DeviceSet /\ n.pc = "idle" /\ n.p = p /\ n.token = 0
    <3> "idle" \in DevicePcs /\ 0 \in 0..MaxTokens /\ "pending" \in Statuses
      BY TokenAssumption DEF DevicePcs, Statuses
    <3> QED BY <2>1 DEF NoDevice, DeviceSet
  <2>3. device' = [device EXCEPT ![s] = n]
    BY <1>2, <2>1 DEF DeviceStart
  <2> QED BY <1>1, <2>2, <2>3 DEF DeviceIs
<1>3. {"exchange", "lock", "idle", "vault", "mirror", "clear", "gone"} \subseteq DevicePcs
  BY DEF DevicePcs
<1>4. {"error", "expired", "success"} \subseteq Statuses
  BY DEF Statuses
<1>5. PollBegin(s) => \/ device[s].token = 0 /\ DeviceIs(s, "exchange", device[s].p, device[s].token)
                      \/ device[s].token # 0 /\ DeviceIs(s, "lock", device[s].p, device[s].token)
                      \/ DeviceIs(s, "idle", device[s].p, 0)
  BY <1>3, <1>4, DeviceMoves, SessionEnds DEF PollBegin
<1>6. PollExchange(s) =>
         \/ /\ issued' \in Tokens /\ issued' = issued + 1 /\ valid' = valid \cup {issued'}
            /\ DeviceIs(s, "lock", device[s].p, issued') \/ DeviceIs(s, "idle", device[s].p, 0)
         \/ DeviceIs(s, "idle", device[s].p, device[s].token) /\ UNCHANGED <<valid, issued>>
  <2> SUFFICES ASSUME PollExchange(s)
      PROVE \/ /\ issued' \in Tokens /\ issued' = issued + 1 /\ valid' = valid \cup {issued'}
               /\ DeviceIs(s, "lock", device[s].p, issued') \/ DeviceIs(s, "idle", device[s].p, 0)
            \/ DeviceIs(s, "idle", device[s].p, device[s].token) /\ UNCHANGED <<valid, issued>>
    OBVIOUS
  <2>1. CASE DeviceTo(s, "idle") /\ UNCHANGED <<valid, issued>>
    BY <2>1, <1>3, DeviceMoves
  <2>2. CASE /\ issued < MaxTokens /\ issued' = issued + 1 /\ valid' = valid \cup {issued'}
             /\ Ended(s, "error") \/ Ended(s, "expired")
    BY <2>2, <1>4, SessionEnds, TokenAssumption DEF TokenTypeOK, Tokens
  <2>3. CASE /\ issued < MaxTokens /\ issued' = issued + 1 /\ valid' = valid \cup {issued'}
             /\ device' = [device EXCEPT ![s].pc = "lock", ![s].token = issued']
    <3>1. issued' \in Tokens /\ issued' \in 0..MaxTokens
      BY <2>3, TokenAssumption DEF TokenTypeOK, Tokens
    <3>2. PICK n : n = [device[s] EXCEPT !.pc = "lock", !.token = issued']
      OBVIOUS
    <3>3. /\ n \in DeviceSet /\ n.pc = "lock" /\ n.p = device[s].p /\ n.token = issued'
          /\ n.stored = device[s].stored
      BY <1>1, <1>3, <3>1, <3>2 DEF DeviceSet
    <3>4. device' = [device EXCEPT ![s] = n]
      BY <1>1, <2>3, <3>2
    <3> QED BY <1>1, <2>3, <3>1, <3>3, <3>4 DEF DeviceIs
  <2> QED BY <2>1, <2>2, <2>3 DEF PollExchange
<1>7. PollLock(s) => \/ DeviceIs(s, "vault", device[s].p, device[s].token) /\ Hold(device[s].p, s)
                     \/ DeviceIs(s, "idle", device[s].p, device[s].token) /\ UNCHANGED idlock
  BY <1>3, DeviceMoves DEF PollLock
<1>8. PollVault(s) =>
         \/ /\ DeviceIs(s, "mirror", device[s].p, device[s].token) /\ RoutedTo(device[s].p)
            /\ PutVault(device[s].p, device[s].token) /\ Outdate(device[s].p) /\ UNCHANGED idlock
            /\ missed' = [missed EXCEPT ![device[s].p] = @ \/ Stale(s)]
         \/ /\ \E t \in {0, device[s].token} : DeviceIs(s, "idle", device[s].p, t)
            /\ Drop(device[s].p) /\ UNCHANGED <<vault, mark, missed>>
  BY <1>3, <1>4, DeviceMoves, SessionEnds DEF PollVault
<1>9. PollMirror(s) =>
         \/ /\ DeviceIs(s, "clear", device[s].p, device[s].token) /\ Outdate(device[s].p)
            /\ UNCHANGED idlock /\ mirror' = [mirror EXCEPT ![device[s].p] = device[s].token]
            /\ missed' = [missed EXCEPT ![device[s].p] = Stale(s)]
         \/ /\ \E t \in {0, device[s].token} :
                  DeviceIs(s, "idle", device[s].p, t) /\ (t # 0 => device'[s].stored # 0)
            /\ Drop(device[s].p) /\ UNCHANGED <<mirror, mark, missed>>
  <2>1. ASSUME device' = [device EXCEPT ![s].pc = "idle", ![s].stored = device[s].token]
        PROVE  DeviceIs(s, "idle", device[s].p, device[s].token) /\ (device[s].token # 0 => device'[s].stored # 0)
    <3>1. PICK n : n = [device[s] EXCEPT !.pc = "idle", !.stored = device[s].token]
      OBVIOUS
    <3>2. n \in DeviceSet /\ n.pc = "idle" /\ n.p = device[s].p /\ n.token = device[s].token /\ n.stored = n.token
      BY <1>1, <1>3, <3>1 DEF DeviceSet
    <3>3. device' = [device EXCEPT ![s] = n]
      BY <1>1, <2>1, <3>1
    <3> QED BY <1>1, <3>2, <3>3 DEF DeviceIs
  <2> QED BY <1>3, <1>4, <2>1, DeviceMoves, SessionEnds DEF PollMirror
<1>10. PollClear(s) => /\ DeviceIs(s, "idle", device[s].p, 0)
                      /\ mark' \in {mark, [mark EXCEPT ![device[s].p] = "none"]}
  BY <1>4, SessionEnds DEF PollClear
<1>11. DeviceCancel(s) => DeviceIs(s, "idle", device[s].p, 0)
  BY <1>4, SessionEnds DEF DeviceCancel
<1>12. DeviceDies(s) => DeviceIs(s, "gone", AnyVault, 0)
  BY <1>3, DeviceMoves DEF DeviceDies
<1> QED BY <1>2, <1>5, <1>6, <1>7, <1>8, <1>9, <1>10, <1>11, <1>12

\* The exchange: the next token, a rejection, or an error; an answer may be lost.
LEMMA ExchangeStep ==
    ASSUME TokenTypeOK, NEW r \in Refreshes, Exchange(r)
    PROVE  LET k == refresh[r] IN
           \/ /\ k.token \in valid /\ issued' \in Tokens /\ issued' = issued + 1
              /\ valid' = (valid \ {k.token}) \cup {issued'}
              /\ \/ RefreshIs(r, "vault", k.p, issued') /\ UNCHANGED missed
                 \/ /\ RefreshIs(r, "failed", k.p, k.token)
                    /\ missed' = [missed EXCEPT ![k.p] = TRUE]
           \/ /\ k.token \notin valid /\ RefreshIs(r, "rejected", k.p, k.token)
              /\ UNCHANGED <<valid, issued, missed>>
           \/ RefreshIs(r, "failed", k.p, k.token) /\ UNCHANGED <<valid, issued, missed>>
<1> DEFINE k == refresh[r]
<1>1. refresh \in [Refreshes -> RefreshSet] /\ k \in RefreshSet
  BY DEF TokenTypeOK
<1>2. {"vault", "failed", "rejected"} \subseteq RefreshPcs
  BY DEF RefreshPcs
<1>3. CASE k.token \notin valid /\ RefreshTo(r, "rejected") /\ UNCHANGED <<valid, issued, missed>>
  BY <1>2, <1>3, RefreshMoves
<1>4. CASE RefreshTo(r, "failed") /\ UNCHANGED <<valid, issued, missed>>
  BY <1>2, <1>4, RefreshMoves
<1>5. CASE /\ k.token \in valid /\ issued < MaxTokens /\ issued' = issued + 1
           /\ valid' = (valid \ {k.token}) \cup {issued'}
           /\ RefreshTo(r, "failed") /\ missed' = [missed EXCEPT ![k.p] = TRUE]
  <2> issued' \in Tokens
    BY <1>5, TokenAssumption DEF TokenTypeOK, Tokens
  <2> QED BY <1>2, <1>5, RefreshMoves
<1>6. CASE /\ k.token \in valid /\ issued < MaxTokens /\ issued' = issued + 1
           /\ valid' = (valid \ {k.token}) \cup {issued'}
           /\ refresh' = [refresh EXCEPT ![r].pc = "vault", ![r].token = issued'] /\ UNCHANGED missed
  <2>1. issued' \in Tokens /\ issued' \in 0..MaxTokens
    BY <1>6, TokenAssumption DEF TokenTypeOK, Tokens
  <2>2. PICK n : n = [k EXCEPT !.pc = "vault", !.token = issued']
    OBVIOUS
  <2>3. n \in RefreshSet /\ n.pc = "vault" /\ n.p = k.p /\ n.worker = k.worker /\ n.token = issued'
    BY <1>1, <1>2, <2>1, <2>2 DEF RefreshSet
  <2>4. refresh' = [refresh EXCEPT ![r] = n]
    BY <1>1, <1>6, <2>2
  <2> QED BY <1>1, <1>6, <2>1, <2>3, <2>4 DEF RefreshIs
<1> QED BY <1>3, <1>4, <1>5, <1>6 DEF Exchange

LEMMA MissedRow == \A f \in [Vaults -> BOOLEAN], p \in Vaults : [f EXCEPT ![p] = TRUE] \in [Vaults -> BOOLEAN]
  OBVIOUS

LEMMA MissedSet ==
    ASSUME missed \in [Vaults -> BOOLEAN], NEW p, NEW b \in BOOLEAN,
           missed' = [missed EXCEPT ![p] = b]
    PROVE  missed' \in [Vaults -> BOOLEAN]
  OBVIOUS

LEMMA MissedAt ==
    ASSUME missed \in [Vaults -> BOOLEAN], NEW p \in Vaults, NEW b,
           missed' = [missed EXCEPT ![p] = @ \/ b], b
    PROVE  missed'[p]
  OBVIOUS

LEMMA TokenTypes == TokenInv /\ [TokenNext]_tokenVars => TokenTypeOK'
<1> SUFFICES ASSUME TokenInv, [TokenNext]_tokenVars PROVE TokenTypeOK'
  OBVIOUS
<1> USE TokenAssumption, TokenRows DEF TokenInv, TokenTypeOK, Marks
<1>1. CASE UNCHANGED tokenVars BY <1>1 DEF tokenVars
<1>2. ASSUME NEW r \in Refreshes, NEW p \in Vaults, NEW worker \in BOOLEAN, RefreshBegin(r, p, worker)
      PROVE TokenTypeOK'
  <2> refresh' \in [Refreshes -> RefreshSet]
    BY <1>2, RefreshBegins DEF RefreshIs
  <2> UNCHANGED <<routed, idlock, valid, issued, vault, mirror, mark, missed, device, revoke, writer>>
    BY <1>2, Zenon DEF RefreshBegin
  <2> QED OBVIOUS
<1>3. ASSUME NEW r \in Refreshes, RefreshLock(r) PROVE TokenTypeOK'
  BY <1>3, RefreshSteps DEF RefreshLock, RefreshIs, Hold
<1>4. ASSUME NEW r \in Refreshes, RefreshLoad(r) PROVE TokenTypeOK'
  <2>1. refresh' \in [Refreshes -> RefreshSet] /\ (UNCHANGED idlock \/ Drop(refresh[r].p))
    BY <1>4, RefreshSteps DEF RefreshIs, Loaded
  <2>2. UNCHANGED <<routed, valid, issued, vault, mirror, mark, missed, device, revoke, writer>>
    BY <1>4 DEF RefreshLoad
  <2>3. idlock' \in [Vaults -> Refreshes \cup Devices \cup {Writer, Unset}]
    BY <2>1 DEF Drop
  <2> QED BY <2>1, <2>2, <2>3
<1>5. ASSUME NEW r \in Refreshes, Exchange(r) PROVE TokenTypeOK'
  <2>1. issued' \in 0..MaxTokens /\ valid' \subseteq Tokens
    BY <1>5, ExchangeStep DEF Tokens
  <2>2. refresh' \in [Refreshes -> RefreshSet]
    BY <1>5, ExchangeStep DEF RefreshIs
  <2>3. missed' \in [Vaults -> BOOLEAN]
    <3>1. missed' = missed \/ missed' = [missed EXCEPT ![refresh[r].p] = TRUE]
      BY <1>5 DEF Exchange
    <3>2. missed \in [Vaults -> BOOLEAN]
      OBVIOUS
    <3>3. PICK p \in Vaults : p = refresh[r].p
      OBVIOUS
    <3>4. [missed EXCEPT ![p] = TRUE] \in [Vaults -> BOOLEAN]
      BY ONLY <3>2, MissedRow
    <3> QED BY ONLY <3>1, <3>2, <3>3, <3>4
  <2> QED BY <1>5, <2>1, <2>2, <2>3 DEF Exchange
<1>6. ASSUME NEW r \in Refreshes, RecordFailure(r) PROVE TokenTypeOK'
  BY <1>6, RefreshSteps DEF RecordFailure, RefreshIs, Drop
<1>7. ASSUME NEW r \in Refreshes, StoreVault(r) PROVE TokenTypeOK'
  <2>1. refresh' \in [Refreshes -> RefreshSet]
    BY <1>7, RefreshSteps DEF RefreshIs
  <2>2. refresh[r].token \in 0..MaxTokens /\ refresh[r].p \in Vaults
    OBVIOUS
  <2>3. mark' \in [Vaults -> Marks]
    BY <1>7 DEF StoreVault, Outdate
  <2>4. vault' \in [Vaults -> 0..MaxTokens]
    BY <1>7, <2>2 DEF StoreVault, PutVault
  <2>5. missed' \in [Vaults -> BOOLEAN]
    <3>1. missed' = missed \/ missed' = [missed EXCEPT ![refresh[r].p] = TRUE]
      BY <1>7 DEF StoreVault
    <3>2. missed \in [Vaults -> BOOLEAN]
      OBVIOUS
    <3>3. PICK p \in Vaults : p = refresh[r].p
      OBVIOUS
    <3>4. [missed EXCEPT ![p] = TRUE] \in [Vaults -> BOOLEAN]
      BY ONLY <3>2, MissedRow
    <3> QED BY ONLY <3>1, <3>2, <3>3, <3>4
  <2> QED BY <1>7, <2>1, <2>3, <2>4, <2>5 DEF StoreVault
<1>8. ASSUME NEW r \in Refreshes, StoreMirror(r) PROVE TokenTypeOK'
  BY <1>8, RefreshSteps DEF StoreMirror, RefreshIs, Outdate
<1>9. ASSUME NEW r \in Refreshes, StoreClear(r) PROVE TokenTypeOK'
  <2>1. refresh' \in [Refreshes -> RefreshSet]
    BY <1>9, RefreshSteps DEF RefreshIs
  <2> QED BY <1>9, <2>1 DEF StoreClear, Drop
<1>10. ASSUME NEW r \in Refreshes, RefreshDies(r) PROVE TokenTypeOK'
  BY <1>10, RefreshSteps DEF RefreshDies, RefreshIs
<1>11. ASSUME NEW s \in Devices, NEW p \in Vaults, DeviceStart(s, p) PROVE TokenTypeOK'
  <2> device' \in [Devices -> DeviceSet]
    BY <1>11, DeviceSteps DEF DeviceIs
  <2> UNCHANGED <<routed, idlock, valid, issued, vault, mirror, mark, missed, refresh, revoke, writer>>
    BY <1>11, Zenon DEF DeviceStart
  <2> QED OBVIOUS
<1>12. ASSUME NEW s \in Devices, PollBegin(s) PROVE TokenTypeOK'
  BY <1>12, DeviceSteps DEF PollBegin, DeviceIs
<1>13. ASSUME NEW s \in Devices, PollExchange(s) PROVE TokenTypeOK'
  <2>1. issued' \in 0..MaxTokens /\ valid' \subseteq Tokens /\ device' \in [Devices -> DeviceSet]
    BY <1>13, DeviceSteps DEF Tokens, DeviceIs
  <2> QED BY <1>13, <2>1 DEF PollExchange
<1>14. ASSUME NEW s \in Devices, PollLock(s) PROVE TokenTypeOK'
  BY <1>14, DeviceSteps DEF PollLock, DeviceIs, Hold
<1>15. ASSUME NEW s \in Devices, PollVault(s) PROVE TokenTypeOK'
  <2>1. device' \in [Devices -> DeviceSet]
    BY <1>15, DeviceSteps DEF DeviceIs
  <2>2. device[s].token \in 0..MaxTokens /\ device[s].p \in Vaults
    OBVIOUS
  <2>3. mark' \in [Vaults -> Marks]
    BY <1>15 DEF PollVault, Outdate
  <2>4. vault' \in [Vaults -> 0..MaxTokens]
    BY <1>15, <2>2 DEF PollVault, PutVault
  <2>5. idlock' \in [Vaults -> Refreshes \cup Devices \cup {Writer, Unset}]
    BY <1>15 DEF PollVault, Drop
  <2>6. missed' \in [Vaults -> BOOLEAN]
    BY <1>15, MissedSet DEF PollVault
  <2> QED BY <1>15, <2>1, <2>3, <2>4, <2>5, <2>6 DEF PollVault
<1>16. ASSUME NEW s \in Devices, PollMirror(s) PROVE TokenTypeOK'
  <2>1. device' \in [Devices -> DeviceSet]
    BY <1>16, DeviceSteps DEF DeviceIs
  <2>2. device[s].token \in 0..MaxTokens /\ device[s].p \in Vaults
    OBVIOUS
  <2>3. mark' \in [Vaults -> Marks]
    BY <1>16 DEF PollMirror, Outdate
  <2>4. mirror' \in [Vaults -> 0..MaxTokens]
    BY <1>16, <2>2 DEF PollMirror
  <2>5. idlock' \in [Vaults -> Refreshes \cup Devices \cup {Writer, Unset}]
    BY <1>16 DEF PollMirror, Drop
  <2>6. missed' \in [Vaults -> BOOLEAN]
    <3>1. missed' = missed \/ missed' = [missed EXCEPT ![device[s].p] = Stale(s)]
      BY <1>16 DEF PollMirror
    <3>2. Stale(s) \in BOOLEAN
      BY DEF Stale
    <3> HIDE DEF Stale
    <3> QED BY <3>1, <3>2, MissedSet
  <2> QED BY <1>16, <2>1, <2>3, <2>4, <2>5, <2>6 DEF PollMirror
<1>17. ASSUME NEW s \in Devices, PollClear(s) PROVE TokenTypeOK'
  <2>1. device' \in [Devices -> DeviceSet] /\ mark' \in {mark, [mark EXCEPT ![device[s].p] = "none"]}
    BY <1>17, DeviceSteps DEF DeviceIs
  <2> QED BY <1>17, <2>1 DEF PollClear, Drop
<1>18. ASSUME NEW s \in Devices, DeviceCancel(s) \/ DeviceDies(s) PROVE TokenTypeOK'
  <2>1. device' \in [Devices -> DeviceSet]
    BY <1>18, DeviceSteps DEF DeviceIs
  <2> QED BY <1>18, <2>1 DEF DeviceCancel, DeviceDies
<1>19. ASSUME NEW p \in Vaults, Recover(p) \/ RevokeBegin(p) PROVE TokenTypeOK'
  BY <1>19 DEF Recover, RevokeBegin
<1>20. CASE RevokeVault \/ RevokeMirror
  <2>1. revoke' \in [pc : {"none", "vault", "mirror", "done"}, p : Vaults] /\ revoke.p \in Vaults
    BY <1>20 DEF RevokeVault, RevokeMirror
  <2>2. vault' \in [Vaults -> 0..MaxTokens] /\ mirror' \in [Vaults -> 0..MaxTokens]
    BY <1>20, <2>1 DEF RevokeVault, RevokeMirror, PutVault
  <2>3. missed' \in [Vaults -> BOOLEAN]
    <3>1. missed' = missed \/ missed' = [missed EXCEPT ![revoke.p] = TRUE]
      BY <1>20 DEF RevokeVault, RevokeMirror
    <3>2. missed \in [Vaults -> BOOLEAN]
      OBVIOUS
    <3>3. PICK p \in Vaults : p = revoke.p
      OBVIOUS
    <3>4. [missed EXCEPT ![p] = TRUE] \in [Vaults -> BOOLEAN]
      BY ONLY <3>2, MissedRow
    <3> QED BY ONLY <3>1, <3>2, <3>3, <3>4
  <2>4. UNCHANGED <<routed, idlock, valid, issued, mark, refresh, device, writer>>
    BY <1>20 DEF RevokeVault, RevokeMirror
  <2> QED BY <2>1, <2>2, <2>3, <2>4
<1>21. ASSUME NEW i \in Rows, NEW to \in Vaults \cup {Unset}, WriterBegin(i, to) PROVE TokenTypeOK'
  BY <1>21 DEF WriterBegin, WriterSet
<1>22. CASE WriterLock
  <2> writer' \in WriterSet BY <1>22 DEF WriterLock, WriterSet
  <2> QED BY <1>22 DEF WriterLock
<1>23. CASE WriterCommit
  <2> writer.row \in Rows /\ writer.to \in Vaults \cup {Unset} BY DEF WriterSet
  <2> QED BY <1>23 DEF WriterCommit
<1> QED BY <1>1, <1>2, <1>3, <1>4, <1>5, <1>6, <1>7, <1>8, <1>9, <1>10, <1>11, <1>12, <1>13, <1>14,
           <1>15, <1>16, <1>17, <1>18, <1>19, <1>20, <1>21, <1>22, <1>23 DEF TokenNext

LEMMA LockStep == TokenInv /\ [TokenNext]_tokenVars => LocksHeld'
<1> SUFFICES ASSUME TokenInv, [TokenNext]_tokenVars PROVE LocksHeld'
  OBVIOUS
<1> USE TokenAssumption, TokenRows DEF TokenInv, TokenTypeOK, LocksHeld, Inside, Storing
<1>1. Writer \notin Refreshes \cup Devices \cup {Unset} /\ Unset \notin Refreshes \cup Devices
  OBVIOUS
<1>2. Identities \subseteq Vaults
  BY DEF Identities, WriterSet
<1>3. CASE UNCHANGED <<idlock, refresh, device, writer>>
  BY <1>3 DEF Identities
<1>4. ASSUME NEW r \in Refreshes, NEW p \in Vaults, NEW worker \in BOOLEAN, RefreshBegin(r, p, worker)
      PROVE LocksHeld'
  <2>1. RefreshIs(r, "wait", p, 0)
    BY <1>4, RefreshBegins
  <2>2. UNCHANGED <<idlock, device, writer>>
    BY <1>4 DEF RefreshBegin
  <2> QED BY <2>1, <2>2 DEF RefreshIs, Identities
<1>5. ASSUME NEW r \in Refreshes, RefreshLock(r) PROVE LocksHeld'
  <2> refresh[r].p \in Vaults OBVIOUS
  <2>1. RefreshIs(r, "locked", refresh[r].p, refresh[r].token)
    BY <1>5, RefreshSteps
  <2>2. UNCHANGED <<device, writer>> /\ Hold(refresh[r].p, r)
    BY <1>5 DEF RefreshLock
  <2> QED BY <1>1, <2>1, <2>2 DEF RefreshIs, Hold, Identities
<1>6. ASSUME NEW r \in Refreshes, RefreshLoad(r) PROVE LocksHeld'
  <2> UNCHANGED <<device, writer>> /\ refresh[r].pc = "locked" /\ idlock[refresh[r].p] = r
    BY <1>6 DEF RefreshLoad
  <2>1. CASE (\E t \in 0..MaxTokens : Loaded(r, t)) /\ UNCHANGED idlock
    BY <2>1 DEF Loaded, Identities
  <2>2. CASE RefreshIs(r, "done", AnyVault, 0) /\ Drop(refresh[r].p)
    BY <2>2, <1>1 DEF RefreshIs, Drop, Identities
  <2> QED BY <1>6, <2>1, <2>2, RefreshSteps
<1>7. ASSUME NEW r \in Refreshes, Exchange(r) PROVE LocksHeld'
  <2> UNCHANGED <<device, writer, idlock>> /\ refresh[r].pc = "exchange"
    BY <1>7 DEF Exchange
  <2> /\ \A o \in Refreshes : o # r => refresh'[o] = refresh[o]
      /\ refresh'[r].p = refresh[r].p
    BY <1>7, ExchangeStep DEF RefreshIs
  <2> QED BY DEF Identities
<1>8. ASSUME NEW r \in Refreshes, RecordFailure(r) \/ StoreClear(r) PROVE LocksHeld'
  <2> /\ UNCHANGED <<device, writer>> /\ idlock[refresh[r].p] = r
      /\ RefreshIs(r, "done", AnyVault, 0) /\ Drop(refresh[r].p)
    BY <1>8, RefreshSteps DEF RecordFailure, StoreClear
  <2> QED BY <1>1 DEF RefreshIs, Drop, Identities
<1>9. ASSUME NEW r \in Refreshes, StoreVault(r) \/ StoreMirror(r) PROVE LocksHeld'
  <2> /\ UNCHANGED <<device, writer, idlock>> /\ refresh[r].pc \in Inside
      /\ \A o \in Refreshes : o # r => refresh'[o] = refresh[o]
      /\ refresh'[r].p = refresh[r].p
    BY <1>9, RefreshSteps DEF RefreshIs, StoreVault, StoreMirror
  <2> QED BY DEF Identities
<1>10. ASSUME NEW r \in Refreshes, RefreshDies(r) PROVE LocksHeld'
  <2> RefreshIs(r, "done", AnyVault, 0)
    BY <1>10, RefreshSteps
  <2> UNCHANGED <<device, writer>> /\ \A p \in Vaults : idlock'[p] = idlock[p] \/ idlock[p] = r
    BY <1>10 DEF RefreshDies
  <2>1. \A o \in Refreshes : refresh'[o].pc \in Inside => idlock'[refresh'[o].p] = o
    BY DEF RefreshIs
  <2>2. \A s \in Devices : device'[s].pc \in Storing => idlock'[device'[s].p] = s
    BY <1>1
  <2>3. writer'.pc = "locked" => \A p \in Identities' : idlock'[p] = Writer
    BY <1>1, <1>2 DEF Identities
  <2> QED BY <2>1, <2>2, <2>3, Zenon
<1>11. ASSUME NEW s \in Devices, NEW p \in Vaults, DeviceStart(s, p) PROVE LocksHeld'
  <2>1. DeviceIs(s, "idle", p, 0)
    BY <1>11, DeviceSteps
  <2>2. UNCHANGED <<idlock, refresh, writer>>
    BY <1>11, Zenon DEF DeviceStart
  <2> QED BY <2>1, <2>2 DEF DeviceIs, Identities
<1>12. ASSUME NEW s \in Devices, PollBegin(s) \/ PollExchange(s) \/ DeviceCancel(s) PROVE LocksHeld'
  <2> /\ UNCHANGED <<refresh, writer, idlock>> /\ device'[s].pc \notin Storing
      /\ \A z \in Devices : z # s => device'[z] = device[z]
    <3>1. UNCHANGED <<refresh, writer, idlock>>
      BY <1>12 DEF PollBegin, PollExchange, DeviceCancel
    <3>2. \E pc \in {"idle", "exchange", "lock"}, t \in 0..MaxTokens : DeviceIs(s, pc, device[s].p, t)
      <4> device[s].token \in 0..MaxTokens /\ 0 \in 0..MaxTokens OBVIOUS
      <4>1. CASE PollBegin(s)
        BY <4>1, DeviceSteps
      <4>2. CASE PollExchange(s)
        <5> Tokens \subseteq 0..MaxTokens BY DEF Tokens
        <5> QED BY <4>2, DeviceSteps
      <4>3. CASE DeviceCancel(s)
        BY <4>3, DeviceSteps
      <4> QED BY <1>12, <4>1, <4>2, <4>3
    <3> QED BY <3>1, <3>2 DEF DeviceIs
  <2> QED BY DEF Identities
<1>13. ASSUME NEW s \in Devices, PollLock(s) PROVE LocksHeld'
  <2> UNCHANGED <<refresh, writer>> BY <1>13 DEF PollLock
  <2>1. CASE DeviceIs(s, "vault", device[s].p, device[s].token) /\ Hold(device[s].p, s)
    <3>1. \A p \in Vaults : idlock[p] # Unset => idlock'[p] = idlock[p]
      BY <2>1 DEF Hold
    <3>2. idlock'[device[s].p] = s
      BY <2>1 DEF Hold
    <3>3. \A r \in Refreshes : refresh'[r].pc \in Inside => idlock'[refresh'[r].p] = r
      BY <1>1, <3>1
    <3>4. \A z \in Devices : device'[z].pc \in Storing => idlock'[device'[z].p] = z
      BY <1>1, <2>1, <3>1, <3>2 DEF DeviceIs
    <3>5. writer'.pc = "locked" => \A p \in Identities' : idlock'[p] = Writer
      BY <1>1, <1>2, <3>1 DEF Identities
    <3> QED BY <3>3, <3>4, <3>5
  <2>2. CASE DeviceIs(s, "idle", device[s].p, device[s].token) /\ UNCHANGED idlock
    BY <2>2 DEF DeviceIs, Identities
  <2> QED BY <1>13, <2>1, <2>2, DeviceSteps
<1>14. ASSUME NEW s \in Devices, PollVault(s) PROVE LocksHeld'
  <2> UNCHANGED <<refresh, writer>> /\ idlock[device[s].p] = s BY <1>14 DEF PollVault
  <2>1. CASE DeviceIs(s, "mirror", device[s].p, device[s].token) /\ UNCHANGED idlock
    BY <2>1 DEF DeviceIs, Identities
  <2>2. CASE (\E t \in {0, device[s].token} : DeviceIs(s, "idle", device[s].p, t)) /\ Drop(device[s].p)
    BY <2>2, <1>1 DEF DeviceIs, Drop, Identities
  <2> QED BY <1>14, <2>1, <2>2, DeviceSteps
<1>15. ASSUME NEW s \in Devices, PollMirror(s) PROVE LocksHeld'
  <2> UNCHANGED <<refresh, writer>> /\ idlock[device[s].p] = s BY <1>15 DEF PollMirror
  <2>1. CASE DeviceIs(s, "clear", device[s].p, device[s].token) /\ UNCHANGED idlock
    BY <2>1 DEF DeviceIs, Identities
  <2>2. CASE (\E t \in {0, device[s].token} : DeviceIs(s, "idle", device[s].p, t)) /\ Drop(device[s].p)
    BY <2>2, <1>1 DEF DeviceIs, Drop, Identities
  <2> QED BY <1>15, <2>1, <2>2, DeviceSteps
<1>16. ASSUME NEW s \in Devices, PollClear(s) PROVE LocksHeld'
  <2> /\ UNCHANGED <<refresh, writer>> /\ idlock[device[s].p] = s
      /\ DeviceIs(s, "idle", device[s].p, 0) /\ Drop(device[s].p)
    BY <1>16, DeviceSteps DEF PollClear
  <2> QED BY <1>1 DEF DeviceIs, Drop, Identities
<1>17. ASSUME NEW s \in Devices, DeviceDies(s) PROVE LocksHeld'
  <2> DeviceIs(s, "gone", AnyVault, 0)
    BY <1>17, DeviceSteps
  <2> UNCHANGED <<refresh, writer>> /\ \A p \in Vaults : idlock'[p] = idlock[p] \/ idlock[p] = s
    BY <1>17 DEF DeviceDies
  <2>1. \A r \in Refreshes : refresh'[r].pc \in Inside => idlock'[refresh'[r].p] = r
    BY <1>1
  <2>2. \A z \in Devices : device'[z].pc \in Storing => idlock'[device'[z].p] = z
    BY DEF DeviceIs
  <2>3. writer'.pc = "locked" => \A p \in Identities' : idlock'[p] = Writer
    BY <1>1, <1>2 DEF Identities
  <2> QED BY <2>1, <2>2, <2>3, Zenon
<1>18. ASSUME NEW i \in Rows, NEW to \in Vaults \cup {Unset}, WriterBegin(i, to) PROVE LocksHeld'
  BY <1>18 DEF WriterBegin
<1>19. CASE WriterLock
  <2>1. CASE writer' = NoWrite /\ UNCHANGED idlock
    BY <1>19, <2>1 DEF WriterLock, NoWrite
  <2>2. CASE /\ \A p \in Identities : idlock[p] = Unset
             /\ idlock' = [p \in Vaults |-> IF p \in Identities THEN Writer ELSE idlock[p]]
             /\ writer' = [writer EXCEPT !.pc = "locked"]
    <3> Identities \subseteq Vaults /\ Identities' = Identities
      BY <2>2 DEF Identities, WriterSet
    <3> UNCHANGED <<refresh, device>> BY <1>19 DEF WriterLock
    <3> QED BY <2>2, <1>1
  <2> QED BY <1>19, <2>1, <2>2 DEF WriterLock
<1>20. CASE WriterCommit
  <2> /\ UNCHANGED <<refresh, device>> /\ writer'.pc = "none"
      /\ \A p \in Vaults : idlock'[p] = idlock[p] \/ idlock[p] = Writer
    BY <1>20 DEF WriterCommit, NoWrite
  <2> QED BY <1>1
<1> QED BY <1>3, <1>4, <1>5, <1>6, <1>7, <1>8, <1>9, <1>10, <1>11, <1>12, <1>13, <1>14, <1>15, <1>16,
           <1>17, <1>18, <1>19, <1>20 DEF TokenNext, tokenVars, Recover, RevokeBegin, RevokeVault, RevokeMirror

\* The route of a profile whose lock the writer does not hold stays.
LEMMA RouteFrame ==
    TokenInv /\ [TokenNext]_tokenVars =>
        \A p \in Vaults : RoutedTo(p) /\ idlock[p] # Writer => RoutedTo(p)'
<1> SUFFICES ASSUME TokenInv, [TokenNext]_tokenVars, NEW p \in Vaults, RoutedTo(p), idlock[p] # Writer
             PROVE RoutedTo(p)'
  OBVIOUS
<1> USE TokenAssumption DEF TokenInv, TokenTypeOK
<1>1. CASE UNCHANGED routed BY <1>1 DEF RoutedTo
<1>2. CASE WriterCommit
  <2>1. p \notin Identities /\ writer.from = routed[writer.row] /\ writer.to # writer.from
    BY <1>2 DEF WriterCommit, LocksHeld, RoutesKept
  <2>2. p # writer.from /\ p # writer.to
    BY <2>1 DEF Identities
  <2>3. PICK i \in Rows : routed[i] = p /\ \A j \in Rows \ {i} : routed[j] = Unset
    BY DEF RoutedTo
  <2>4. i # writer.row /\ writer.row \in Rows
    BY <2>1, <2>2, <2>3 DEF WriterSet
  <2>5. writer.to # Unset
    BY <2>1, <2>3, <2>4
  <2>6. i \in {j \in Rows \ {writer.row} : routed[j] # Unset}
    BY <2>3, <2>4
  <2>7. UNCHANGED routed
    BY <1>2, <2>5, <2>6 DEF WriterCommit
  <2> QED BY <2>7 DEF RoutedTo
<1>3. WriterCommit \/ UNCHANGED routed
  BY Zenon DEF TokenNext, tokenVars, RefreshBegin, RefreshLock, RefreshLoad, Exchange, RecordFailure, StoreVault, StoreMirror, StoreClear,
       RefreshDies, DeviceStart, PollBegin, PollExchange, PollLock, PollVault, PollMirror, PollClear,
       DeviceCancel, DeviceDies, Recover, RevokeBegin, RevokeVault, RevokeMirror, WriterBegin, WriterLock
<1> QED BY <1>1, <1>2, <1>3

LEMMA RouteStep == TokenInv /\ [TokenNext]_tokenVars => RoutesKept'
<1> SUFFICES ASSUME TokenInv, [TokenNext]_tokenVars PROVE RoutesKept'
  OBVIOUS
<1> USE TokenAssumption, TokenRows DEF TokenInv, TokenTypeOK
\* The writer's own reading.
<1>1. writer'.pc # "none" => writer'.from = routed'[writer'.row] /\ writer'.to # writer'.from
  <2>1. CASE UNCHANGED <<routed, writer>> BY <2>1 DEF RoutesKept
  <2>2. ASSUME NEW i \in Rows, NEW to \in Vaults \cup {Unset}, WriterBegin(i, to)
        PROVE writer'.pc # "none" => writer'.from = routed'[writer'.row] /\ writer'.to # writer'.from
    BY <2>2 DEF WriterBegin
  <2>3. CASE WriterLock
    BY <2>3 DEF WriterLock, NoWrite, RoutesKept, WriterSet
  <2>4. CASE WriterCommit
    BY <2>4 DEF WriterCommit, NoWrite
  <2>5. \/ UNCHANGED <<routed, writer>> \/ WriterLock \/ WriterCommit
        \/ \E i \in Rows, to \in Vaults \cup {Unset} : WriterBegin(i, to)
    BY Zenon DEF TokenNext, tokenVars, RefreshBegin, RefreshLock, RefreshLoad, Exchange, RecordFailure, StoreVault, StoreMirror, StoreClear,
       RefreshDies, DeviceStart, PollBegin, PollExchange, PollLock, PollVault, PollMirror, PollClear,
       DeviceCancel, DeviceDies, Recover, RevokeBegin, RevokeVault, RevokeMirror
  <2> QED BY <2>1, <2>2, <2>3, <2>4, <2>5
\* Who is between its two copies asserted the route under the lock.
<1>2. \A r \in Refreshes, p \in Vaults : refresh[r].pc = "mirror" /\ refresh[r].p = p => RoutedTo(p)'
  <2> \A r \in Refreshes : refresh[r].pc = "mirror" => idlock[refresh[r].p] # Writer
    BY DEF LocksHeld, Inside
  <2> QED BY RouteFrame DEF RoutesKept
<1>3. \A s \in Devices, p \in Vaults : device[s].pc = "mirror" /\ device[s].p = p => RoutedTo(p)'
  <2> \A s \in Devices : device[s].pc = "mirror" => idlock[device[s].p] # Writer
    BY DEF LocksHeld, Storing
  <2> QED BY RouteFrame DEF RoutesKept
<1>4. \A r \in Refreshes, p \in Vaults : refresh'[r].pc = "mirror" /\ refresh'[r].p = p => RoutedTo(p)'
  <2> DEFINE Goal == \A r \in Refreshes, p \in Vaults :
                       refresh'[r].pc = "mirror" /\ refresh'[r].p = p => RoutedTo(p)'
  <2>1. ASSUME UNCHANGED refresh PROVE Goal BY <1>2, <2>1
  <2>2. ASSUME NEW r \in Refreshes, NEW pc \in RefreshPcs, NEW p, NEW t,
              RefreshIs(r, pc, p, t), pc # "mirror"
        PROVE Goal
    BY <2>2, <1>2 DEF RefreshIs
  <2>3. ASSUME NEW r \in Refreshes, StoreVault(r) PROVE Goal
    <3>1. CASE RefreshIs(r, "mirror", refresh[r].p, refresh[r].token) /\ RoutedTo(refresh[r].p)
      <4> UNCHANGED routed BY <2>3 DEF StoreVault
      <4> QED BY <3>1, <1>2 DEF RefreshIs, RoutedTo
    <3>2. CASE RefreshIs(r, "failed", refresh[r].p, refresh[r].token)
      BY <3>2, <2>2 DEF RefreshPcs
    <3> QED BY <2>3, <3>1, <3>2, RefreshSteps
  <2> HIDE DEF Goal
  <2>4. RefreshPcs \ {"mirror"} = {"none", "wait", "locked", "exchange", "rejected", "failed", "vault",
                                   "clear", "done"}
    BY DEF RefreshPcs
  <2>5. ASSUME NEW r \in Refreshes, NEW p \in Vaults, NEW w \in BOOLEAN, RefreshBegin(r, p, w) PROVE Goal
    <3> RefreshIs(r, "wait", p, 0) BY <2>5, RefreshBegins
    <3> QED BY <2>2, <2>4
  <2>6. ASSUME NEW r \in Refreshes,
               RefreshLock(r) \/ RecordFailure(r) \/ StoreMirror(r) \/ StoreClear(r) \/ RefreshDies(r)
        PROVE Goal
    BY <2>2, <2>4, <2>6, RefreshSteps
  <2>7. ASSUME NEW r \in Refreshes, RefreshLoad(r) PROVE Goal
    <3>1. ASSUME NEW t \in 0..MaxTokens, Loaded(r, t) PROVE Goal
      BY <3>1, <1>2 DEF Loaded, Goal
    <3> QED BY <2>2, <2>4, <2>7, <3>1, RefreshSteps
  <2>8. ASSUME NEW r \in Refreshes, Exchange(r) PROVE Goal
    BY <2>2, <2>4, <2>8, ExchangeStep
  <2>9. ASSUME NEW r \in Refreshes,
               \/ RefreshLock(r) \/ RefreshLoad(r) \/ Exchange(r) \/ RecordFailure(r)
               \/ StoreVault(r) \/ StoreMirror(r) \/ StoreClear(r) \/ RefreshDies(r)
        PROVE Goal
    BY <2>3, <2>6, <2>7, <2>8, <2>9
  <2>10. UNCHANGED refresh
         \/ (\E r \in Refreshes, p \in Vaults, w \in BOOLEAN : RefreshBegin(r, p, w))
         \/ \E r \in Refreshes :
               \/ RefreshLock(r) \/ RefreshLoad(r) \/ Exchange(r) \/ RecordFailure(r)
               \/ StoreVault(r) \/ StoreMirror(r) \/ StoreClear(r) \/ RefreshDies(r)
    BY Zenon DEF TokenNext, tokenVars, DeviceStart, PollBegin,
       PollExchange, PollLock, PollVault, PollMirror, PollClear, DeviceCancel, DeviceDies, Recover,
       RevokeBegin, RevokeVault, RevokeMirror, WriterBegin, WriterLock, WriterCommit
  <2>11. Goal
    BY <2>1, <2>5, <2>9, <2>10
  <2> QED BY <2>11 DEF Goal
<1>5. \A s \in Devices, p \in Vaults : device'[s].pc = "mirror" /\ device'[s].p = p => RoutedTo(p)'
  <2> DEFINE Goal == \A s \in Devices, p \in Vaults :
                       device'[s].pc = "mirror" /\ device'[s].p = p => RoutedTo(p)'
  <2>1. ASSUME UNCHANGED device PROVE Goal BY <1>3, <2>1
  <2>2. ASSUME NEW s \in Devices, NEW pc \in DevicePcs \ {"mirror"}, NEW p, NEW t, DeviceIs(s, pc, p, t)
        PROVE Goal
    BY <2>2, <1>3 DEF DeviceIs
  <2>3. ASSUME NEW s \in Devices, DeviceIs(s, "mirror", device[s].p, device[s].token), RoutedTo(device[s].p),
               UNCHANGED routed
        PROVE Goal
    BY <2>3, <1>3 DEF DeviceIs, RoutedTo
  <2> HIDE DEF Goal
  <2>4. {"idle", "exchange", "lock", "vault", "clear", "gone"} \subseteq DevicePcs \ {"mirror"}
    BY DEF DevicePcs
  <2>5. ASSUME NEW s \in Devices, NEW p \in Vaults, DeviceStart(s, p) PROVE Goal
    BY <2>2, <2>4, <2>5, DeviceSteps
  <2>6. ASSUME NEW s \in Devices, PollBegin(s) \/ PollExchange(s) \/ PollLock(s) PROVE Goal
    BY <2>2, <2>4, <2>6, DeviceSteps
  <2>7. ASSUME NEW s \in Devices, PollMirror(s) \/ PollClear(s) \/ DeviceCancel(s) \/ DeviceDies(s) PROVE Goal
    BY <2>2, <2>4, <2>7, DeviceSteps
  <2>8. ASSUME NEW s \in Devices, PollVault(s) PROVE Goal
    <3> UNCHANGED routed BY <2>8 DEF PollVault
    <3> QED BY <2>2, <2>3, <2>4, <2>8, DeviceSteps
  <2>10. \/ UNCHANGED device
         \/ (\E s \in Devices, p \in Vaults : DeviceStart(s, p))
         \/ \E s \in Devices : \/ PollBegin(s) \/ PollExchange(s) \/ PollLock(s)
                               \/ PollVault(s)
                               \/ PollMirror(s) \/ PollClear(s) \/ DeviceCancel(s) \/ DeviceDies(s)
    BY Zenon DEF TokenNext, tokenVars, RefreshBegin, RefreshLock, RefreshLoad,
       Exchange, RecordFailure, StoreVault, StoreMirror, StoreClear, RefreshDies, Recover,
       RevokeBegin, RevokeVault, RevokeMirror, WriterBegin, WriterLock, WriterCommit
  <2>9. Goal
    BY <2>1, <2>5, <2>6, <2>7, <2>8, <2>10
  <2> QED BY <2>9 DEF Goal
<1>6. /\ \A r \in Refreshes : refresh'[r].p \in Vaults
      /\ \A s \in Devices : device'[s].p \in Vaults
  <2> TokenTypeOK' BY TokenTypes
  <2> QED BY DEF RefreshSet, DeviceSet
<1>7. \A r \in Refreshes : refresh'[r].pc = "mirror" => RoutedTo(refresh[r].p)'
  <2> TAKE r \in Refreshes
  <2> HAVE refresh'[r].pc = "mirror"
  <2>1. PICK p \in Vaults : p = refresh'[r].p BY Zenon, <1>6
  <2>2. RoutedTo(p)' BY Zenon, <1>4, <2>1
  <2> QED BY Zenon, <2>1, <2>2 DEF RoutedTo
<1>8. \A s \in Devices : device'[s].pc = "mirror" => RoutedTo(device[s].p)'
  <2> TAKE s \in Devices
  <2> HAVE device'[s].pc = "mirror"
  <2>1. PICK p \in Vaults : p = device'[s].p BY Zenon, <1>6
  <2>2. RoutedTo(p)' BY Zenon, <1>5, <2>1
  <2> QED BY Zenon, <2>1, <2>2 DEF RoutedTo
<1> QED BY Zenon, <1>1, <1>7, <1>8 DEF RoutesKept

\* Tokens are issued in order, and only the exchange spends one.
LEMMA ValidFrame ==
    TokenInv /\ [TokenNext]_tokenVars =>
        /\ issued' \in {issued, issued + 1} /\ valid' \subseteq valid \cup {issued'}
        /\ issued' = issued => valid' \subseteq valid
        /\ valid \subseteq valid' \/ \E r \in Refreshes : /\ refresh[r].pc = "exchange"
                                                         /\ refresh[r].token \in valid
                                                         /\ valid \ {refresh[r].token} \subseteq valid'
<1> SUFFICES ASSUME TokenInv, [TokenNext]_tokenVars
    PROVE /\ issued' \in {issued, issued + 1} /\ valid' \subseteq valid \cup {issued'}
          /\ issued' = issued => valid' \subseteq valid
          /\ valid \subseteq valid' \/ \E r \in Refreshes : /\ refresh[r].pc = "exchange"
                                                           /\ refresh[r].token \in valid
                                                           /\ valid \ {refresh[r].token} \subseteq valid'
  OBVIOUS
<1> USE DEF TokenInv, TokenTypeOK
<1>1. CASE UNCHANGED <<valid, issued>> BY <1>1
<1>2. ASSUME NEW r \in Refreshes, Exchange(r)
      PROVE /\ issued' \in {issued, issued + 1} /\ valid' \subseteq valid \cup {issued'}
            /\ issued' = issued => valid' \subseteq valid
            /\ valid \subseteq valid' \/ (/\ refresh[r].pc = "exchange"
                                          /\ refresh[r].token \in valid
                                          /\ valid \ {refresh[r].token} \subseteq valid')
  BY <1>2 DEF Exchange
<1>3. ASSUME NEW s \in Devices, PollExchange(s)
      PROVE /\ issued' \in {issued, issued + 1} /\ valid' \subseteq valid \cup {issued'}
            /\ issued' = issued => valid' \subseteq valid
            /\ valid \subseteq valid'
  BY <1>3 DEF PollExchange
<1>4. (\E r \in Refreshes : Exchange(r)) \/ (\E s \in Devices : PollExchange(s))
      \/ UNCHANGED <<valid, issued>>
  BY Zenon DEF TokenNext, tokenVars, RefreshBegin, RefreshLock, RefreshLoad, RecordFailure, StoreVault, StoreMirror, StoreClear,
       RefreshDies, DeviceStart, PollBegin, PollLock, PollVault, PollMirror, PollClear,
       DeviceCancel, DeviceDies, Recover, RevokeBegin, RevokeVault, RevokeMirror, WriterBegin, WriterLock, WriterCommit
<1> QED BY <1>1, <1>2, <1>3, <1>4

\* A token that is held is not the one another refresh spends, unless it was stored before.
LEMMA HeldStaysValid ==
    TokenInv /\ [TokenNext]_tokenVars =>
        /\ \A r \in Refreshes : refresh[r].pc \in {"vault", "mirror"} => refresh[r].token \in valid'
        /\ \A s \in Devices : device[s].token # 0 => device[s].token \in valid' \/ device[s].stored # 0
<1> SUFFICES ASSUME TokenInv, [TokenNext]_tokenVars
             PROVE  /\ \A r \in Refreshes : refresh[r].pc \in {"vault", "mirror"} => refresh[r].token \in valid'
                    /\ \A s \in Devices : device[s].token # 0 => device[s].token \in valid' \/ device[s].stored # 0
  OBVIOUS
<1> USE TokenAssumption, TokenRows DEF TokenInv, TokenTypeOK
<1>1. CASE valid \subseteq valid' BY <1>1 DEF TokensHeld
<1>2. ASSUME NEW o \in Refreshes, refresh[o].pc = "exchange", refresh[o].token \in valid,
             valid \ {refresh[o].token} \subseteq valid'
      PROVE  /\ \A r \in Refreshes : refresh[r].pc \in {"vault", "mirror"} => refresh[r].token \in valid'
             /\ \A s \in Devices : device[s].token # 0 => device[s].token \in valid' \/ device[s].stored # 0
  <2> DEFINE t == refresh[o].token
             p == refresh[o].p
  <2>1. t \in Tokens /\ p \in Vaults /\ Copy(p, t) /\ idlock[p] = o
    BY <1>2 DEF Copy, LocksHeld, Inside
  <2>2. ASSUME NEW r \in Refreshes, refresh[r].pc \in {"vault", "mirror"} PROVE refresh[r].token # t
    <3> SUFFICES ASSUME refresh[r].token = t PROVE FALSE
      OBVIOUS
    <3> Copy(refresh[r].p, t) /\ refresh[r].p \in Vaults
      BY DEF Copy
    <3> refresh[r].p = p BY <2>1 DEF TokensApart
    <3> idlock[p] = r BY <2>2 DEF LocksHeld, Inside
    <3> QED BY <1>2, <2>1, <2>2
  <2>3. ASSUME NEW s \in Devices, device[s].token # 0, device[s].stored = 0 PROVE device[s].token # t
    <3> SUFFICES ASSUME device[s].token = t PROVE FALSE
      OBVIOUS
    <3> p = device[s].p /\ device[s].pc \in {"mirror", "clear"}
      BY <2>1, <2>3 DEF TokensApart
    <3> idlock[p] = s BY DEF LocksHeld, Storing
    <3> QED BY <2>1
  <2> QED BY <1>2, <2>2, <2>3 DEF TokensHeld
<1> QED BY <1>1, <1>2, ValidFrame, Zenon

\* The copies change by a store under the lock, or by the revocation.
Touched(p) ==
    \/ \E r \in Refreshes : refresh[r].p = p /\ refresh[r].pc \in {"vault", "mirror"}
    \/ \E s \in Devices : device[s].p = p /\ device[s].pc \in {"vault", "mirror"}

LEMMA CopyFrame ==
    TokenInv /\ [TokenNext]_tokenVars =>
        \A p \in Vaults : /\ RevokedAt(p) => RevokedAt(p)'
                          /\ \/ vault'[p] = vault[p] /\ mirror'[p] = mirror[p]
                             \/ RevokedAt(p)' /\ vault'[p] \in {0, vault[p]} /\ mirror'[p] \in {0, mirror[p]}
                             \/ Touched(p)
<1> SUFFICES ASSUME TokenInv, [TokenNext]_tokenVars, NEW p \in Vaults
    PROVE  /\ RevokedAt(p) => RevokedAt(p)'
           /\ \/ vault'[p] = vault[p] /\ mirror'[p] = mirror[p]
              \/ RevokedAt(p)' /\ vault'[p] \in {0, vault[p]} /\ mirror'[p] \in {0, mirror[p]}
              \/ Touched(p)
  OBVIOUS
<1> USE DEF TokenInv, TokenTypeOK, RevokedAt
<1>1. CASE UNCHANGED <<vault, mirror, revoke>> BY <1>1
<1>2. ASSUME NEW r \in Refreshes, StoreVault(r) \/ StoreMirror(r)
      PROVE UNCHANGED revoke /\ (Touched(p) \/ (vault'[p] = vault[p] /\ mirror'[p] = mirror[p]))
  BY <1>2 DEF StoreVault, StoreMirror, Touched, PutVault
<1>3. ASSUME NEW s \in Devices, PollVault(s) \/ PollMirror(s)
      PROVE UNCHANGED revoke /\ (Touched(p) \/ (vault'[p] = vault[p] /\ mirror'[p] = mirror[p]))
  BY <1>3 DEF PollVault, PollMirror, Touched, PutVault
<1>4. CASE RevokeVault BY <1>4 DEF RevokeVault, PutVault
<1>5. CASE RevokeMirror BY <1>5 DEF RevokeMirror
<1>6. ASSUME NEW q \in Vaults, RevokeBegin(q)
      PROVE /\ RevokedAt(p) => RevokedAt(p)'
            /\ vault'[p] = vault[p] /\ mirror'[p] = mirror[p]
  BY <1>6 DEF RevokeBegin
<1>7. \/ UNCHANGED <<vault, mirror, revoke>> \/ RevokeVault \/ RevokeMirror
      \/ \E r \in Refreshes : StoreVault(r) \/ StoreMirror(r)
      \/ \E s \in Devices : PollVault(s) \/ PollMirror(s)
      \/ \E q \in Vaults : RevokeBegin(q)
  BY Zenon DEF TokenNext, tokenVars, RefreshBegin, RefreshLock, RefreshLoad, Exchange, RecordFailure, StoreClear,
       RefreshDies, DeviceStart, PollBegin, PollExchange, PollLock, PollClear,
       DeviceCancel, DeviceDies, Recover, WriterBegin, WriterLock, WriterCommit
<1> QED BY <1>1, <1>2, <1>3, <1>4, <1>5, <1>6, <1>7

\* What a step makes of a refresh.
Advances(r) ==
    LET k == refresh[r]
        n == refresh'[r] IN
    \/ n = k
    \/ n.pc \in {"wait", "done"} /\ n.token = 0 /\ (k.pc = "vault" => missed'[k.p])
    \/ /\ n.p = k.p
       /\ \/ k.pc = "wait" /\ n.pc = "locked" /\ n.token = k.token
          \/ /\ k.pc = "locked" /\ n.pc = "exchange" /\ n.token \in {vault[k.p], mirror[k.p]} \ {0}
             /\ n.newest = Best(k.p)
             /\ UNCHANGED <<vault, mirror, valid>>
          \/ k.pc = "exchange" /\ n.pc = "vault" /\ n.token = issued + 1 /\ n.token \in valid'
             /\ issued' = issued + 1
          \/ k.pc = "exchange" /\ n.pc = "rejected" /\ n.token = k.token /\ n.token \notin valid
             /\ n.newest = k.newest /\ UNCHANGED <<vault, mirror, valid>>
          \/ k.pc = "exchange" /\ n.pc = "failed" /\ n.token = k.token
          \/ k.pc = "vault" /\ n.pc = "mirror" /\ n.token = k.token /\ vault'[k.p] = k.token
          \/ k.pc = "vault" /\ n.pc = "failed" /\ n.token = k.token /\ missed'[k.p]
          \/ k.pc = "mirror" /\ n.pc \in {"clear", "failed"} /\ n.token = k.token

LEMMA RefreshAdvances == TokenInv /\ [TokenNext]_tokenVars => \A r \in Refreshes : Advances(r)
<1> SUFFICES ASSUME TokenInv, [TokenNext]_tokenVars PROVE \A r \in Refreshes : Advances(r)
  OBVIOUS
<1> USE TokenAssumption, TokenRows DEF TokenInv, TokenTypeOK
<1> DEFINE Goal == \A r \in Refreshes : Advances(r)
<1>1. ASSUME UNCHANGED refresh PROVE Goal BY <1>1 DEF Advances
<1>2. ASSUME NEW r \in Refreshes, NEW p \in Vaults, NEW w \in BOOLEAN, RefreshBegin(r, p, w) PROVE Goal
  <2>0. refresh[r].pc = "none" BY <1>2 DEF RefreshBegin
  <2>1. RefreshIs(r, "wait", p, 0) BY <1>2, RefreshBegins
  <2>2. Advances(r) BY <2>0, <2>1 DEF RefreshIs, Advances
  <2>3. ASSUME NEW o \in Refreshes, o # r PROVE refresh'[o] = refresh[o] BY <2>1, <2>3 DEF RefreshIs
  <2> QED BY <2>2, <2>3 DEF Advances
<1>3. ASSUME NEW r \in Refreshes, RefreshIs(r, "done", AnyVault, 0),
             refresh[r].pc = "vault" => missed'[refresh[r].p]
      PROVE Goal
  BY <1>3 DEF RefreshIs, Advances
<1>4. ASSUME NEW r \in Refreshes, RefreshLock(r) PROVE Goal
  <2> RefreshIs(r, "locked", refresh[r].p, refresh[r].token) /\ refresh[r].pc = "wait"
    BY <1>4, RefreshSteps DEF RefreshLock
  <2> QED BY DEF RefreshIs, Advances
<1>5. ASSUME NEW r \in Refreshes, RefreshLoad(r) PROVE Goal
  <2>1. ASSUME NEW t \in 0..MaxTokens, Loaded(r, t) PROVE Goal
    <3> refresh[r].pc = "locked" /\ UNCHANGED <<vault, mirror, valid>> BY <1>5 DEF RefreshLoad
    <3> QED BY <2>1 DEF Loaded, Advances
  <2> refresh[r].pc = "locked" BY <1>5 DEF RefreshLoad
  <2> QED BY <1>3, <1>5, <2>1, RefreshSteps
<1>6. ASSUME NEW r \in Refreshes, Exchange(r) PROVE Goal
  <2> refresh[r].pc = "exchange" /\ UNCHANGED <<vault, mirror>> BY <1>6 DEF Exchange
  <2>1. CASE /\ RefreshIs(r, "vault", refresh[r].p, issued') /\ issued' = issued + 1
             /\ valid' = (valid \ {refresh[r].token}) \cup {issued'}
    BY <2>1 DEF RefreshIs, Advances
  <2>2. CASE RefreshIs(r, "failed", refresh[r].p, refresh[r].token)
    BY <2>2 DEF RefreshIs, Advances
  <2>3. CASE RefreshIs(r, "rejected", refresh[r].p, refresh[r].token) /\ UNCHANGED valid
             /\ refresh[r].token \notin valid
    BY <2>3 DEF RefreshIs, Advances
  <2> QED BY <1>6, <2>1, <2>2, <2>3, ExchangeStep
<1>7. ASSUME NEW r \in Refreshes, StoreVault(r) PROVE Goal
  <2> refresh[r].pc = "vault" /\ refresh[r].p \in Vaults BY <1>7 DEF StoreVault
  <2>1. CASE /\ RefreshIs(r, "mirror", refresh[r].p, refresh[r].token)
             /\ PutVault(refresh[r].p, refresh[r].token)
    BY <2>1 DEF RefreshIs, Advances, PutVault
  <2>2. CASE /\ RefreshIs(r, "failed", refresh[r].p, refresh[r].token)
             /\ missed' = [missed EXCEPT ![refresh[r].p] = TRUE]
    BY <2>2 DEF RefreshIs, Advances
  <2> QED BY <1>7, <2>1, <2>2, RefreshSteps
<1>8. ASSUME NEW r \in Refreshes, StoreMirror(r) PROVE Goal
  <2> refresh[r].pc = "mirror" BY <1>8 DEF StoreMirror
  <2> QED BY <1>8, RefreshSteps DEF RefreshIs, Advances
<1> HIDE DEF Goal
<1>9. ASSUME NEW r \in Refreshes, RecordFailure(r) \/ StoreClear(r) \/ RefreshDies(r) PROVE Goal
  <2>1. CASE RecordFailure(r)
    <3> refresh[r].pc # "vault" BY <2>1 DEF RecordFailure
    <3> QED BY <1>3, <2>1, RefreshSteps
  <2>2. CASE StoreClear(r)
    <3> refresh[r].pc # "vault" BY <2>2 DEF StoreClear
    <3> QED BY <1>3, <2>2, RefreshSteps
  <2>3. CASE RefreshDies(r)
    <3> refresh[r].p \in Vaults OBVIOUS
    <3> refresh[r].pc = "vault" => missed'[refresh[r].p] BY ZenonT(60), <2>3 DEF RefreshDies
    <3> QED BY <1>3, <2>3, RefreshSteps
  <2> QED BY <1>9, <2>1, <2>2, <2>3
<1>10. UNCHANGED refresh
      \/ (\E r \in Refreshes, p \in Vaults, w \in BOOLEAN : RefreshBegin(r, p, w))
      \/ \E r \in Refreshes :
            \/ RefreshLock(r) \/ RefreshLoad(r) \/ Exchange(r) \/ RecordFailure(r)
            \/ StoreVault(r) \/ StoreMirror(r) \/ StoreClear(r) \/ RefreshDies(r)
  BY Zenon DEF TokenNext, tokenVars, DeviceStart, PollBegin, PollExchange, PollLock, PollVault,
       PollMirror, PollClear, DeviceCancel, DeviceDies, Recover, RevokeBegin, RevokeVault,
       RevokeMirror, WriterBegin, WriterLock, WriterCommit
<1>11. Goal
  BY <1>1, <1>2, <1>4, <1>5, <1>6, <1>7, <1>8, <1>9, <1>10
<1> QED BY <1>11 DEF Goal

\* What a step makes of a session.
Proceeds(s) ==
    LET k == device[s]
        n == device'[s] IN
    \/ n = k
    \/ n.pc \in {"idle", "gone"} /\ n.token = 0
    \/ /\ n.p = k.p
       /\ \/ k.pc = "idle" /\ n.pc = "exchange" /\ n.token = k.token
          \/ k.pc = "idle" /\ n.pc = "lock" /\ n.token = k.token /\ n.token # 0
          \/ k.pc = "exchange" /\ n.pc = "lock" /\ n.token = issued + 1 /\ n.token \in valid'
             /\ issued' = issued + 1
          \/ k.pc = "exchange" /\ n.pc = "idle" /\ n.token = k.token
          \/ k.pc = "lock" /\ n.pc \in {"vault", "idle"} /\ n.token = k.token
          \/ k.pc = "vault" /\ n.pc = "mirror" /\ n.token = k.token /\ vault'[k.p] = k.token
          \/ k.pc = "vault" /\ n.pc = "idle" /\ n.token = k.token
          \/ k.pc = "mirror" /\ n.pc = "clear" /\ n.token = k.token
          \/ k.pc = "mirror" /\ n.pc = "idle" /\ n.token = k.token /\ (n.token # 0 => n.stored # 0)
       /\ n.token # 0 /\ k.stored # 0 => n.stored # 0

LEMMA DeviceProceeds == TokenInv /\ [TokenNext]_tokenVars => \A s \in Devices : Proceeds(s)
<1> SUFFICES ASSUME TokenInv, [TokenNext]_tokenVars PROVE \A s \in Devices : Proceeds(s)
  OBVIOUS
<1> USE TokenAssumption, TokenRows DEF TokenInv, TokenTypeOK
<1> DEFINE Goal == \A s \in Devices : Proceeds(s)
<1>1. ASSUME UNCHANGED device PROVE Goal BY <1>1 DEF Proceeds
<1>2. ASSUME NEW s \in Devices, NEW pc \in {"idle", "gone"}, NEW p, DeviceIs(s, pc, p, 0) PROVE Goal
  BY <1>2 DEF DeviceIs, Proceeds
<1>3. ASSUME NEW s \in Devices, PollBegin(s) PROVE Goal
  <2> device[s].pc = "idle" BY <1>3 DEF PollBegin
  <2>1. CASE DeviceIs(s, "exchange", device[s].p, device[s].token)
    BY <2>1 DEF DeviceIs, Proceeds
  <2>2. CASE DeviceIs(s, "lock", device[s].p, device[s].token) /\ device[s].token # 0
    BY <2>2 DEF DeviceIs, Proceeds
  <2> QED BY <1>2, <1>3, <2>1, <2>2, DeviceSteps
<1>4. ASSUME NEW s \in Devices, PollExchange(s) PROVE Goal
  <2> device[s].pc = "exchange" BY <1>4 DEF PollExchange
  <2>1. CASE /\ issued' = issued + 1 /\ valid' = valid \cup {issued'}
             /\ DeviceIs(s, "lock", device[s].p, issued')
    BY <2>1 DEF DeviceIs, Proceeds
  <2>2. CASE DeviceIs(s, "idle", device[s].p, device[s].token)
    BY <2>2 DEF DeviceIs, Proceeds
  <2> QED BY <1>2, <1>4, <2>1, <2>2, DeviceSteps
<1>5. ASSUME NEW s \in Devices, PollLock(s) PROVE Goal
  <2> device[s].pc = "lock" BY <1>5 DEF PollLock
  <2>1. CASE \E pc \in {"vault", "idle"} : DeviceIs(s, pc, device[s].p, device[s].token)
    BY <2>1 DEF DeviceIs, Proceeds
  <2> QED BY <1>5, <2>1, DeviceSteps
<1>6. ASSUME NEW s \in Devices, PollVault(s) PROVE Goal
  <2> device[s].pc = "vault" /\ device[s].p \in Vaults BY <1>6 DEF PollVault
  <2>1. CASE DeviceIs(s, "mirror", device[s].p, device[s].token) /\ PutVault(device[s].p, device[s].token)
    BY <2>1 DEF DeviceIs, Proceeds, PutVault
  <2>2. CASE \E t \in {0, device[s].token} : DeviceIs(s, "idle", device[s].p, t)
    BY <2>2 DEF DeviceIs, Proceeds
  <2> QED BY <1>6, <2>1, <2>2, DeviceSteps
<1>7. ASSUME NEW s \in Devices, PollMirror(s) PROVE Goal
  <2> device[s].pc = "mirror" BY <1>7 DEF PollMirror
  <2>1. CASE DeviceIs(s, "clear", device[s].p, device[s].token)
    BY <2>1 DEF DeviceIs, Proceeds
  <2>2. CASE \E t \in {0, device[s].token} : /\ DeviceIs(s, "idle", device[s].p, t)
                                             /\ t # 0 => device'[s].stored # 0
    BY <2>2 DEF DeviceIs, Proceeds
  <2> QED BY <1>7, <2>1, <2>2, DeviceSteps
<1> HIDE DEF Goal
<1>8. ASSUME NEW s \in Devices, PollClear(s) \/ DeviceCancel(s) \/ DeviceDies(s) PROVE Goal
  BY <1>2, <1>8, DeviceSteps
<1>9. ASSUME NEW s \in Devices, NEW p \in Vaults, DeviceStart(s, p) PROVE Goal
  BY <1>2, <1>9, DeviceSteps
<1>11. \/ UNCHANGED device
         \/ (\E s \in Devices, p \in Vaults : DeviceStart(s, p))
         \/ \E s \in Devices : \/ PollBegin(s) \/ PollExchange(s) \/ PollLock(s)
                               \/ PollVault(s)
                               \/ PollMirror(s) \/ PollClear(s) \/ DeviceCancel(s) \/ DeviceDies(s)
  BY Zenon DEF TokenNext, tokenVars, RefreshBegin, RefreshLock, RefreshLoad,
       Exchange, RecordFailure, StoreVault, StoreMirror, StoreClear, RefreshDies, Recover,
       RevokeBegin, RevokeVault, RevokeMirror, WriterBegin, WriterLock, WriterCommit
<1>10. Goal
  BY <1>1, <1>3, <1>4, <1>5, <1>6, <1>7, <1>8, <1>9, <1>11
<1> QED BY <1>10 DEF Goal

\* What a step makes of a profile's copies.
LEMMA CopiesChange ==
    TokenInv /\ [TokenNext]_tokenVars =>
        \A p \in Vaults :
            /\ \/ vault'[p] \in {0, vault[p]}
               \/ \E r \in Refreshes : refresh[r].p = p /\ refresh[r].pc = "vault" /\ vault'[p] = refresh[r].token
                                       /\ refresh'[r].pc = "mirror"
               \/ \E s \in Devices : device[s].p = p /\ device[s].pc = "vault" /\ vault'[p] = device[s].token
                                     /\ device'[s].pc = "mirror" /\ device'[s].p = p
                                     /\ device'[s].token = device[s].token
                                     /\ (Stale(s) => missed'[p]) /\ UNCHANGED valid
            /\ \/ mirror'[p] \in {0, mirror[p]}
               \/ \E r \in Refreshes : refresh[r].p = p /\ refresh[r].pc = "mirror" /\ mirror'[p] = refresh[r].token
               \/ \E s \in Devices : device[s].p = p /\ device[s].pc = "mirror" /\ mirror'[p] = device[s].token
                                     /\ device'[s].pc = "clear" /\ device'[s].p = p
                                     /\ device'[s].token = device[s].token
                                     /\ (Stale(s) => missed'[p]) /\ UNCHANGED valid
<1> SUFFICES ASSUME TokenInv, [TokenNext]_tokenVars, NEW p \in Vaults
    PROVE   /\ \/ vault'[p] \in {0, vault[p]}
               \/ \E r \in Refreshes : refresh[r].p = p /\ refresh[r].pc = "vault" /\ vault'[p] = refresh[r].token
                                       /\ refresh'[r].pc = "mirror"
               \/ \E s \in Devices : device[s].p = p /\ device[s].pc = "vault" /\ vault'[p] = device[s].token
                                     /\ device'[s].pc = "mirror" /\ device'[s].p = p
                                     /\ device'[s].token = device[s].token
                                     /\ (Stale(s) => missed'[p]) /\ UNCHANGED valid
            /\ \/ mirror'[p] \in {0, mirror[p]}
               \/ \E r \in Refreshes : refresh[r].p = p /\ refresh[r].pc = "mirror" /\ mirror'[p] = refresh[r].token
               \/ \E s \in Devices : device[s].p = p /\ device[s].pc = "mirror" /\ mirror'[p] = device[s].token
                                     /\ device'[s].pc = "clear" /\ device'[s].p = p
                                     /\ device'[s].token = device[s].token
                                     /\ (Stale(s) => missed'[p]) /\ UNCHANGED valid
  OBVIOUS
<1> USE TokenAssumption, TokenRows DEF TokenInv, TokenTypeOK
<1>1. CASE UNCHANGED <<vault, mirror>> BY <1>1
<1>2. ASSUME NEW r \in Refreshes, StoreVault(r)
      PROVE /\ UNCHANGED mirror
            /\ \/ vault'[p] = vault[p]
               \/ refresh[r].p = p /\ refresh[r].pc = "vault" /\ vault'[p] = refresh[r].token
                  /\ refresh'[r].pc = "mirror"
  <2> refresh[r].pc = "vault" /\ UNCHANGED mirror BY <1>2 DEF StoreVault
  <2>1. CASE /\ RefreshIs(r, "mirror", refresh[r].p, refresh[r].token)
             /\ PutVault(refresh[r].p, refresh[r].token)
    BY <2>1 DEF RefreshIs, PutVault
  <2> QED BY <1>2, <2>1, RefreshSteps
<1>3. ASSUME NEW r \in Refreshes, StoreMirror(r)
      PROVE /\ UNCHANGED vault
            /\ \/ mirror'[p] = mirror[p]
               \/ refresh[r].p = p /\ refresh[r].pc = "mirror" /\ mirror'[p] = refresh[r].token
  BY <1>3 DEF StoreMirror
<1>4. ASSUME NEW s \in Devices, PollVault(s)
      PROVE /\ UNCHANGED mirror
            /\ \/ vault'[p] = vault[p]
               \/ /\ device[s].p = p /\ device[s].pc = "vault" /\ vault'[p] = device[s].token
                  /\ device'[s].pc = "mirror" /\ device'[s].p = p /\ device'[s].token = device[s].token
                  /\ (Stale(s) => missed'[p]) /\ UNCHANGED valid
  <2>1. device[s].pc = "vault" /\ UNCHANGED <<mirror, valid>> /\ device[s].p \in Vaults
    BY <1>4 DEF PollVault
  <2>2. \/ UNCHANGED vault
        \/ /\ DeviceIs(s, "mirror", device[s].p, device[s].token)
           /\ PutVault(device[s].p, device[s].token)
           /\ missed' = [missed EXCEPT ![device[s].p] = @ \/ Stale(s)]
    BY <1>4, DeviceSteps
  <2>3. UNCHANGED vault \/ (Stale(s) /\ device[s].p = p => missed'[p])
    <3>1. CASE UNCHANGED vault BY <3>1
    <3>2. CASE missed' = [missed EXCEPT ![device[s].p] = @ \/ Stale(s)]
      BY Zenon, <3>2, <2>1, MissedAt
    <3> QED BY Zenon, <3>1, <3>2, <2>2
  <2> QED BY <2>1, <2>2, <2>3 DEF DeviceIs, PutVault
<1>5. ASSUME NEW s \in Devices, PollMirror(s)
      PROVE /\ UNCHANGED vault
            /\ \/ mirror'[p] = mirror[p]
               \/ /\ device[s].p = p /\ device[s].pc = "mirror" /\ mirror'[p] = device[s].token
                  /\ device'[s].pc = "clear" /\ device'[s].p = p /\ device'[s].token = device[s].token
                  /\ (Stale(s) => missed'[p]) /\ UNCHANGED valid
  <2>1. device[s].pc = "mirror" /\ UNCHANGED <<vault, valid>> /\ device[s].p \in Vaults
    BY <1>5 DEF PollMirror
  <2>2. \/ UNCHANGED mirror
        \/ /\ DeviceIs(s, "clear", device[s].p, device[s].token)
           /\ mirror' = [mirror EXCEPT ![device[s].p] = device[s].token]
           /\ missed' = [missed EXCEPT ![device[s].p] = Stale(s)]
    BY <1>5, DeviceSteps
  <2> QED BY <2>1, <2>2 DEF DeviceIs
<1>6. CASE RevokeVault \/ RevokeMirror
  BY <1>6 DEF RevokeVault, RevokeMirror, PutVault
<1>7. \/ UNCHANGED <<vault, mirror>> \/ RevokeVault \/ RevokeMirror
      \/ \E r \in Refreshes : StoreVault(r) \/ StoreMirror(r)
      \/ \E s \in Devices : PollVault(s) \/ PollMirror(s)
  BY Zenon DEF TokenNext, tokenVars, RefreshBegin, RefreshLock, RefreshLoad, Exchange, RecordFailure,
       StoreClear, RefreshDies, DeviceStart, PollBegin, PollExchange, PollLock, PollClear,
       DeviceCancel, DeviceDies, Recover, RevokeBegin, WriterBegin, WriterLock, WriterCommit
<1> QED BY <1>1, <1>2, <1>3, <1>4, <1>5, <1>6, <1>7

LEMMA IssuedStep == TokenInv /\ [TokenNext]_tokenVars => TokensIssued'
<1> SUFFICES ASSUME TokenInv, [TokenNext]_tokenVars PROVE TokensIssued'
  OBVIOUS
<1> USE TokenAssumption, TokenRows DEF TokenInv, TokenTypeOK
<1>1. /\ refresh' \in [Refreshes -> RefreshSet] /\ device' \in [Devices -> DeviceSet]
      /\ vault' \in [Vaults -> 0..MaxTokens] /\ mirror' \in [Vaults -> 0..MaxTokens]
  BY TokenTypes DEF TokenTypeOK
<1>2. issued \in Nat /\ issued' \in {issued, issued + 1} /\ valid' \subseteq 1..issued'
  <2> issued \in Nat OBVIOUS
  <2> QED BY ValidFrame DEF TokensIssued
<1>3. \A t \in 0..MaxTokens : t <= issued => t <= issued'
  BY <1>2
<1>4. \A r \in Refreshes : refresh'[r].token <= issued'
  <2> SUFFICES ASSUME NEW r \in Refreshes PROVE refresh'[r].token <= issued'
    OBVIOUS
  <2>1. /\ refresh[r].token \in 0..MaxTokens /\ refresh[r].token <= issued
        /\ vault[refresh[r].p] <= issued /\ mirror[refresh[r].p] <= issued
    BY DEF TokensIssued
  <2>2. vault[refresh[r].p] \in 0..MaxTokens /\ mirror[refresh[r].p] \in 0..MaxTokens
    OBVIOUS
  <2>3. Advances(r) BY RefreshAdvances
  <2>4. \/ refresh'[r].token \in {0, refresh[r].token, vault[refresh[r].p], mirror[refresh[r].p]}
        \/ refresh'[r].token = issued + 1 /\ issued' = issued + 1
    BY <2>3 DEF Advances
  <2> QED BY <1>2, <1>3, <2>1, <2>2, <2>4
<1>5. \A s \in Devices : device'[s].token <= issued'
  <2> SUFFICES ASSUME NEW s \in Devices PROVE device'[s].token <= issued'
    OBVIOUS
  <2>1. device[s].token \in 0..MaxTokens /\ device[s].token <= issued
    BY DEF TokensIssued
  <2>2. Proceeds(s) BY DeviceProceeds
  <2>3. \/ device'[s].token \in {0, device[s].token}
        \/ device'[s].token = issued + 1 /\ issued' = issued + 1
    BY <2>2 DEF Proceeds
  <2> QED BY <1>2, <1>3, <2>1, <2>3
<1>6. \A p \in Vaults : vault'[p] <= issued' /\ mirror'[p] <= issued'
  <2> SUFFICES ASSUME NEW p \in Vaults PROVE vault'[p] <= issued' /\ mirror'[p] <= issued'
    OBVIOUS
  <2>1. /\ \A r \in Refreshes : refresh[r].token <= issued'
        /\ \A s \in Devices : device[s].token <= issued'
        /\ vault[p] <= issued' /\ mirror[p] <= issued' /\ 0 <= issued'
    BY <1>2, <1>3 DEF TokensIssued
  <2> QED BY <2>1, CopiesChange
<1> QED BY <1>2, <1>4, <1>5, <1>6 DEF TokensIssued

\* A copy of a token is an old one, a new token, or one a session just stored.
LEMMA NewCopy ==
    TokenInv /\ [TokenNext]_tokenVars =>
        \A p \in Vaults, t \in Tokens : Copy(p, t)' =>
            \/ Copy(p, t)
            \/ t = issued + 1 /\ issued' = issued + 1
               /\ \E r \in Refreshes : refresh[r].p = p /\ refresh[r].pc = "exchange"
                                       /\ refresh'[r].pc = "vault"
            \/ \E s \in Devices : /\ device[s].p = p /\ device[s].token = t /\ device'[s].token = t
                                  /\ device'[s].p = p /\ device'[s].pc \in {"mirror", "clear"}
<1> SUFFICES ASSUME TokenInv, [TokenNext]_tokenVars, NEW p \in Vaults, NEW t \in Tokens, Copy(p, t)'
    PROVE   \/ Copy(p, t)
            \/ t = issued + 1 /\ issued' = issued + 1
               /\ \E r \in Refreshes : refresh[r].p = p /\ refresh[r].pc = "exchange"
                                       /\ refresh'[r].pc = "vault"
            \/ \E s \in Devices : /\ device[s].p = p /\ device[s].token = t /\ device'[s].token = t
                                  /\ device'[s].p = p /\ device'[s].pc \in {"mirror", "clear"}
  OBVIOUS
<1> t # 0 BY DEF Tokens
<1>1. CASE vault'[p] = t \/ mirror'[p] = t
  BY <1>1, CopiesChange DEF Copy
<1>2. ASSUME NEW r \in Refreshes, refresh'[r].p = p, refresh'[r].token = t
      PROVE \/ Copy(p, t)
            \/ t = issued + 1 /\ issued' = issued + 1 /\ refresh[r].p = p /\ refresh[r].pc = "exchange"
               /\ refresh'[r].pc = "vault"
  <2>1. Advances(r) BY RefreshAdvances
  <2>2. CASE refresh[r].p = p /\ refresh'[r].token = refresh[r].token
    BY <1>2, <2>2 DEF Copy
  <2>3. CASE refresh[r].p = p /\ refresh'[r].token \in {vault[p], mirror[p]}
    BY <1>2, <2>3 DEF Copy
  <2>4. CASE /\ refresh'[r].token = issued + 1 /\ issued' = issued + 1 /\ refresh[r].p = p
             /\ refresh[r].pc = "exchange" /\ refresh'[r].pc = "vault"
    BY <1>2, <2>4
  <2> QED BY <1>2, <2>1, <2>2, <2>3, <2>4 DEF Advances
<1> QED BY <1>1, <1>2 DEF Copy

\* A session's token is the one it had, or a new one.
LEMMA NewSessionToken ==
    TokenInv /\ [TokenNext]_tokenVars =>
        \A s \in Devices : device'[s].token # 0 =>
            \/ /\ device'[s].token = device[s].token /\ device'[s].p = device[s].p
               /\ device[s].stored # 0 \/ device[s].pc \in {"mirror", "clear"} =>
                     device'[s].stored # 0 \/ device'[s].pc \in {"mirror", "clear"}
            \/ device'[s].token = issued + 1 /\ issued' = issued + 1 /\ device[s].pc = "exchange"
               /\ device'[s].pc = "lock"
  BY DeviceProceeds DEF Proceeds

\* One step issues at most one token, to one refresh or to one session.
LEMMA OneIssue ==
    TokenInv /\ [TokenNext]_tokenVars =>
        /\ \A r, o \in Refreshes : refresh[r].pc = "exchange" /\ refresh'[r].pc = "vault"
                                   /\ refresh[o].pc = "exchange" /\ refresh'[o].pc = "vault" => r = o
        /\ \A s, z \in Devices : device[s].pc = "exchange" /\ device'[s].pc = "lock"
                                 /\ device[z].pc = "exchange" /\ device'[z].pc = "lock" => s = z
        /\ \A r \in Refreshes, s \in Devices :
              ~ (/\ refresh[r].pc = "exchange" /\ refresh'[r].pc = "vault"
                 /\ device[s].pc = "exchange" /\ device'[s].pc = "lock")
<1> SUFFICES ASSUME TokenInv, [TokenNext]_tokenVars
    PROVE /\ \A r, o \in Refreshes : refresh[r].pc = "exchange" /\ refresh'[r].pc = "vault"
                                     /\ refresh[o].pc = "exchange" /\ refresh'[o].pc = "vault" => r = o
          /\ \A s, z \in Devices : device[s].pc = "exchange" /\ device'[s].pc = "lock"
                                   /\ device[z].pc = "exchange" /\ device'[z].pc = "lock" => s = z
          /\ \A r \in Refreshes, s \in Devices :
                ~ (/\ refresh[r].pc = "exchange" /\ refresh'[r].pc = "vault"
                   /\ device[s].pc = "exchange" /\ device'[s].pc = "lock")
  OBVIOUS
<1> USE DEF TokenInv, TokenTypeOK
<1>1. \/ UNCHANGED refresh
      \/ UNCHANGED device /\ \E r \in Refreshes : \A o \in Refreshes : o # r => refresh'[o] = refresh[o]
  <2>1. ASSUME NEW r \in Refreshes, NEW p \in Vaults, NEW w \in BOOLEAN, RefreshBegin(r, p, w)
        PROVE UNCHANGED device /\ \A o \in Refreshes : o # r => refresh'[o] = refresh[o]
    <3>1. UNCHANGED device BY <2>1, Zenon DEF RefreshBegin
    <3>2. \A o \in Refreshes : o # r => refresh'[o] = refresh[o]
      BY <2>1, RefreshBegins DEF RefreshIs
    <3> QED BY <3>1, <3>2
  <2>2. ASSUME NEW r \in Refreshes,
               \/ RefreshLock(r) \/ RefreshLoad(r) \/ RecordFailure(r)
               \/ StoreVault(r) \/ StoreMirror(r) \/ StoreClear(r) \/ RefreshDies(r)
        PROVE UNCHANGED device /\ \A o \in Refreshes : o # r => refresh'[o] = refresh[o]
    <3>1. UNCHANGED device
      BY <2>2 DEF RefreshLock, RefreshLoad, RecordFailure, StoreVault, StoreMirror, StoreClear, RefreshDies
    <3>2. \A o \in Refreshes : o # r => refresh'[o] = refresh[o]
      BY <2>2, RefreshSteps DEF RefreshIs, Loaded
    <3> QED BY <3>1, <3>2
  <2>3. ASSUME NEW r \in Refreshes, Exchange(r)
        PROVE UNCHANGED device /\ \A o \in Refreshes : o # r => refresh'[o] = refresh[o]
    <3>1. UNCHANGED device BY <2>3 DEF Exchange
    <3>2. \A o \in Refreshes : o # r => refresh'[o] = refresh[o]
      BY <2>3, ExchangeStep DEF RefreshIs
    <3> QED BY <3>1, <3>2
  <2>4. UNCHANGED refresh
        \/ (\E r \in Refreshes, p \in Vaults, w \in BOOLEAN : RefreshBegin(r, p, w))
        \/ \E r \in Refreshes :
              \/ RefreshLock(r) \/ RefreshLoad(r) \/ Exchange(r) \/ RecordFailure(r)
              \/ StoreVault(r) \/ StoreMirror(r) \/ StoreClear(r) \/ RefreshDies(r)
    BY Zenon DEF TokenNext, tokenVars, DeviceStart, PollBegin, PollExchange, PollLock, PollVault,
       PollMirror, PollClear, DeviceCancel, DeviceDies, Recover, RevokeBegin, RevokeVault,
       RevokeMirror, WriterBegin, WriterLock, WriterCommit
  <2> QED BY <2>1, <2>2, <2>3, <2>4
<1>2. \/ UNCHANGED device
      \/ \E s \in Devices : \A z \in Devices : z # s => device'[z] = device[z]
  <2>1. ASSUME NEW s \in Devices, NEW p \in Vaults, DeviceStart(s, p)
        PROVE \A z \in Devices : z # s => device'[z] = device[z]
    BY <2>1, DeviceSteps DEF DeviceIs
  <2>2. ASSUME NEW s \in Devices, PollBegin(s) \/ PollExchange(s) \/ PollLock(s) \/ PollVault(s)
        PROVE \A z \in Devices : z # s => device'[z] = device[z]
    BY <2>2, DeviceSteps DEF DeviceIs
  <2>3. ASSUME NEW s \in Devices, PollMirror(s) \/ PollClear(s) \/ DeviceCancel(s) \/ DeviceDies(s)
        PROVE \A z \in Devices : z # s => device'[z] = device[z]
    BY <2>3, DeviceSteps DEF DeviceIs
  <2>4. UNCHANGED device
        \/ (\E s \in Devices, p \in Vaults : DeviceStart(s, p))
        \/ \E s \in Devices :
              \/ PollBegin(s) \/ PollExchange(s) \/ PollLock(s) \/ PollVault(s)
              \/ PollMirror(s) \/ PollClear(s) \/ DeviceCancel(s) \/ DeviceDies(s)
    BY Zenon DEF TokenNext, tokenVars, RefreshBegin, RefreshLock, RefreshLoad, Exchange, RecordFailure,
       StoreVault, StoreMirror, StoreClear, RefreshDies, Recover, RevokeBegin, RevokeVault,
       RevokeMirror, WriterBegin, WriterLock, WriterCommit
  <2> QED BY <2>1, <2>2, <2>3, <2>4
<1> QED BY <1>1, <1>2

LEMMA ApartStep == TokenInv /\ [TokenNext]_tokenVars => TokensApart'
<1> SUFFICES ASSUME TokenInv, [TokenNext]_tokenVars PROVE TokensApart'
  OBVIOUS
<1> USE TokenAssumption, TokenRows DEF TokenInv, TokenTypeOK
<1>1. device' \in [Devices -> DeviceSet] /\ issued \in Nat
  BY TokenTypes DEF TokenTypeOK
<1>2. \A p \in Vaults, t \in Tokens : Copy(p, t) => t <= issued
  BY DEF Copy, TokensIssued
<1>3. \A s \in Devices : device[s].token <= issued
  BY DEF TokensIssued
<1>4. \A p, q \in Vaults, t \in Tokens : Copy(p, t)' /\ Copy(q, t)' => p = q
  <2> SUFFICES ASSUME NEW p \in Vaults, NEW q \in Vaults, NEW t \in Tokens, Copy(p, t)', Copy(q, t)'
               PROVE p = q
    OBVIOUS
  <2>1. CASE t = issued + 1
    <3>1. ~ Copy(p, t) /\ ~ Copy(q, t) /\ \A z \in Devices : device[z].token # t
      BY <1>1, <1>2, <1>3, <2>1
    <3>2. /\ \E r \in Refreshes : refresh[r].p = p /\ refresh[r].pc = "exchange" /\ refresh'[r].pc = "vault"
          /\ \E r \in Refreshes : refresh[r].p = q /\ refresh[r].pc = "exchange" /\ refresh'[r].pc = "vault"
      BY <3>1, NewCopy
    <3> QED BY <3>2, OneIssue
  <2>2. CASE t # issued + 1
    <3> t # 0 BY DEF Tokens
    <3>1. Copy(p, t) \/ \E s \in Devices : device[s].p = p /\ device[s].token = t
      BY <2>2, NewCopy
    <3>2. Copy(q, t) \/ \E s \in Devices : device[s].p = q /\ device[s].token = t
      BY <2>2, NewCopy
    <3> QED BY <3>1, <3>2 DEF TokensApart
  <2> QED BY <2>1, <2>2
<1>5. \A s, z \in Devices : device'[s].token # 0 /\ device'[s].token = device'[z].token => s = z
  <2> SUFFICES ASSUME NEW s \in Devices, NEW z \in Devices, device'[s].token # 0,
                      device'[s].token = device'[z].token
               PROVE s = z
    OBVIOUS
  <2> QED BY <1>1, <1>3, NewSessionToken, OneIssue DEF TokensApart
<1>6. \A s \in Devices, p \in Vaults, t \in Tokens :
         device'[s].token = t /\ Copy(p, t)' =>
            p = device'[s].p /\ (device'[s].stored # 0 \/ device'[s].pc \in {"mirror", "clear"})
  <2> SUFFICES ASSUME NEW s \in Devices, NEW p \in Vaults, NEW t \in Tokens, device'[s].token = t, Copy(p, t)'
               PROVE p = device'[s].p /\ (device'[s].stored # 0 \/ device'[s].pc \in {"mirror", "clear"})
    OBVIOUS
  <2> t # 0 BY DEF Tokens
  <2>1. CASE t = issued + 1
    <3>1. ~ Copy(p, t) /\ \A z \in Devices : device[z].token # t
      BY <1>1, <1>2, <1>3, <2>1
    <3>2. device[s].pc = "exchange" /\ device'[s].pc = "lock"
      BY <3>1, NewSessionToken
    <3>3. \E r \in Refreshes : refresh[r].pc = "exchange" /\ refresh'[r].pc = "vault"
      BY <3>1, NewCopy
    <3> QED BY <3>2, <3>3, OneIssue
  <2>2. CASE t # issued + 1
    <3>1. /\ device[s].token = t /\ device'[s].p = device[s].p
          /\ device[s].stored # 0 \/ device[s].pc \in {"mirror", "clear"} =>
                device'[s].stored # 0 \/ device'[s].pc \in {"mirror", "clear"}
      BY <2>2, NewSessionToken
    <3>2. CASE Copy(p, t)
      BY <3>1, <3>2 DEF TokensApart
    <3>3. ASSUME NEW z \in Devices, device[z].p = p, device[z].token = t, device'[z].p = p,
                 device'[z].pc \in {"mirror", "clear"}
          PROVE p = device'[s].p /\ (device'[s].stored # 0 \/ device'[s].pc \in {"mirror", "clear"})
      BY <3>1, <3>3 DEF TokensApart
    <3> QED BY <2>2, <3>2, <3>3, NewCopy
  <2> QED BY <2>1, <2>2
<1>7. \A s \in Devices : device'[s].token # 0 => device'[s].token \in Tokens
  BY <1>1 DEF Tokens
<1> QED BY <1>4, <1>5, <1>6, <1>7 DEF TokensApart, Copy

LEMMA HeldStep == TokenInv /\ [TokenNext]_tokenVars => TokensHeld'
<1> SUFFICES ASSUME TokenInv, [TokenNext]_tokenVars PROVE TokensHeld'
  OBVIOUS
<1> USE TokenAssumption, TokenRows DEF TokenInv, TokenTypeOK
<1>1. issued \in Nat /\ (issued' = issued \/ issued' = issued + 1)
  BY ValidFrame
<1>2. \A t \in 0..MaxTokens : t <= issued /\ t \notin valid => t \notin valid'
  BY <1>1, ValidFrame
<1>3. \A r \in Refreshes : refresh[r].pc \in {"exchange", "rejected"} => ~ Touched(refresh[r].p)
  BY DEF Touched, LocksHeld, Inside, Storing
<1>4. \A p \in Vaults : (RevokedAt(p) => RevokedAt(p)')
         /\ (~ Touched(p) => (vault'[p] = vault[p] /\ mirror'[p] = mirror[p]) \/ RevokedAt(p)')
  BY CopyFrame
<1>5. ASSUME NEW r \in Refreshes
      PROVE  /\ refresh'[r].token # 0 => refresh'[r].pc \in Inside
             /\ refresh'[r].pc \in {"vault", "mirror"} => refresh'[r].token \in valid'
             /\ refresh'[r].pc = "rejected" => refresh'[r].token \notin valid'
  <2>1. Advances(r) BY RefreshAdvances
  <2>2. refresh[r].pc \in {"vault", "mirror"} => refresh[r].token \in valid'
    BY HeldStaysValid
  <2>3. refresh[r].token \in 0..MaxTokens /\ refresh[r].token <= issued
    BY DEF TokensIssued
  <2>4. refresh[r].token \notin valid => refresh[r].token \notin valid'
    BY <1>2, <2>3
  <2>5. /\ refresh[r].token # 0 => refresh[r].pc \in Inside
        /\ refresh[r].pc = "rejected" => refresh[r].token \notin valid
    BY DEF TokensHeld
  <2> QED BY <2>1, <2>2, <2>4, <2>5 DEF Advances, Inside
<1>6. ASSUME NEW r \in Refreshes, NEW p \in Vaults, refresh'[r].p = p,
             refresh'[r].pc \in {"exchange", "rejected"}, refresh'[r].token = refresh'[r].newest
      PROVE  RevokedAt(p)' \/ refresh'[r].token = Best(p)'
  <2>1. Advances(r) BY RefreshAdvances
  <2>2. CASE refresh'[r] = refresh[r]
    <3> ~ Touched(p) /\ (RevokedAt(p) \/ refresh[r].token = Best(p))
      BY <1>3, <1>6, <2>2 DEF TokensHeld
    <3> QED BY <1>4, <2>2 DEF Best
  <2>3. CASE /\ refresh'[r].p = refresh[r].p /\ refresh'[r].token = Best(refresh[r].p)
             /\ UNCHANGED <<vault, mirror>>
    BY <1>6, <2>3 DEF Best
  <2>4. CASE /\ refresh'[r].p = refresh[r].p /\ refresh[r].pc = "exchange"
             /\ refresh'[r].token = refresh[r].token /\ refresh'[r].newest = refresh[r].newest
             /\ UNCHANGED <<vault, mirror>>
    <3> RevokedAt(p) \/ refresh[r].token = Best(p)
      BY ZenonT(60), <1>6, <2>4 DEF TokensHeld
    <3> QED BY <1>4, <2>4 DEF Best
  <2> QED BY <1>6, <2>1, <2>2, <2>3, <2>4 DEF Advances
<1>7. ASSUME NEW s \in Devices
      PROVE  /\ device'[s].token # 0 => device'[s].token \in valid' \/ device'[s].stored # 0
             /\ device'[s].pc \in {"lock", "vault", "mirror"} => device'[s].token # 0
  <2>1. Proceeds(s) BY DeviceProceeds
  <2>2. device[s].token # 0 => device[s].token \in valid' \/ device[s].stored # 0
    BY HeldStaysValid
  <2>3. device[s].pc \in {"lock", "vault", "mirror"} => device[s].token # 0
    BY DEF TokensHeld
  <2> QED BY <1>1, <2>1, <2>2, <2>3 DEF Proceeds
<1>8. ASSUME NEW s \in Devices, NEW p \in Vaults, device'[s].p = p, device'[s].pc = "mirror"
      PROVE  vault'[p] \in {0, device'[s].token}
  <2>1. Proceeds(s) BY DeviceProceeds
  <2>2. CASE device'[s] = device[s]
    <3>1. vault[p] \in {0, device[s].token} /\ idlock[p] = s
      BY <1>8, <2>2 DEF TokensHeld, LocksHeld, Storing
    <3>2. \A r \in Refreshes : ~ (refresh[r].p = p /\ refresh[r].pc = "vault")
      BY <3>1 DEF LocksHeld, Inside
    <3>3. \A z \in Devices : ~ (device[z].p = p /\ device[z].pc = "vault")
      BY <3>1, <1>8, <2>2 DEF LocksHeld, Storing
    <3> QED BY <2>2, <3>1, <3>2, <3>3, CopiesChange
  <2> QED BY <1>8, <2>1, <2>2 DEF Proceeds
<1>9. /\ \A r \in Refreshes : refresh'[r].p \in Vaults
      /\ \A s \in Devices : device'[s].p \in Vaults
  <2> TokenTypeOK' BY TokenTypes
  <2> QED OBVIOUS
<1>10. \A r \in Refreshes : refresh'[r].pc \in {"exchange", "rejected"} /\ refresh'[r].token = refresh'[r].newest =>
         RevokedAt(refresh[r].p)' \/ refresh'[r].token = Best(refresh[r].p)'
  BY <1>6, <1>9 DEF Best, RevokedAt
<1>11. \A s \in Devices : device'[s].pc = "mirror" => vault'[device'[s].p] \in {0, device'[s].token}
  BY <1>8, <1>9
<1> QED BY <1>5, <1>7, <1>10, <1>11 DEF TokensHeld

\* A token is spent by an exchange, which then stores the next or has lost it.
LEMMA TokenSpent ==
    TokenInv /\ [TokenNext]_tokenVars =>
        \A t \in valid \ valid' : \E r \in Refreshes :
            /\ refresh[r].token = t
            /\ \/ refresh'[r].pc = "vault" /\ refresh'[r].p = refresh[r].p
               \/ missed'[refresh[r].p]
<1> SUFFICES ASSUME TokenInv, [TokenNext]_tokenVars, NEW t \in valid \ valid'
    PROVE  \E r \in Refreshes :
            /\ refresh[r].token = t
            /\ \/ refresh'[r].pc = "vault" /\ refresh'[r].p = refresh[r].p
               \/ missed'[refresh[r].p]
  OBVIOUS
<1> USE TokenAssumption, TokenRows DEF TokenInv, TokenTypeOK
<1>1. ASSUME NEW r \in Refreshes, Exchange(r)
      PROVE /\ refresh[r].token = t
            /\ \/ refresh'[r].pc = "vault" /\ refresh'[r].p = refresh[r].p
               \/ missed'[refresh[r].p]
  <2> refresh[r].p \in Vaults OBVIOUS
  <2> QED BY <1>1, ExchangeStep DEF RefreshIs
<1>2. ASSUME NEW s \in Devices, PollExchange(s) PROVE FALSE
  BY <1>2 DEF PollExchange
<1>3. (\E r \in Refreshes : Exchange(r)) \/ (\E s \in Devices : PollExchange(s)) \/ UNCHANGED valid
  BY Zenon DEF TokenNext, tokenVars, RefreshBegin, RefreshLock, RefreshLoad, RecordFailure, StoreVault,
       StoreMirror, StoreClear, RefreshDies, DeviceStart, PollBegin, PollLock, PollVault, PollMirror,
       PollClear, DeviceCancel, DeviceDies, Recover, RevokeBegin, RevokeVault, RevokeMirror,
       WriterBegin, WriterLock, WriterCommit
<1> QED BY <1>1, <1>2, <1>3

\* Only a login that reaches the mirror makes up for a missed token.
LEMMA MissedFrame ==
    TokenInv /\ [TokenNext]_tokenVars =>
        \A p \in Vaults : missed[p] /\ ~ missed'[p] =>
            \E s \in Devices : /\ device[s].p = p /\ device[s].pc = "mirror"
                               /\ mirror'[p] = device[s].token /\ vault'[p] = vault[p] /\ ~ Stale(s)
                               /\ UNCHANGED valid
<1> SUFFICES ASSUME TokenInv, [TokenNext]_tokenVars, NEW p \in Vaults, missed[p], ~ missed'[p]
    PROVE   \E s \in Devices : /\ device[s].p = p /\ device[s].pc = "mirror"
                               /\ mirror'[p] = device[s].token /\ vault'[p] = vault[p] /\ ~ Stale(s)
                               /\ UNCHANGED valid
  OBVIOUS
<1> missed \in [Vaults -> BOOLEAN] BY DEF TokenInv, TokenTypeOK
<1>1. ASSUME NEW r \in Refreshes, Exchange(r) PROVE FALSE
  <2> missed' = missed \/ missed' = [missed EXCEPT ![refresh[r].p] = TRUE] BY <1>1 DEF Exchange
  <2> QED OBVIOUS
<1>2. ASSUME NEW r \in Refreshes, StoreVault(r) PROVE FALSE
  <2> missed' = missed \/ missed' = [missed EXCEPT ![refresh[r].p] = TRUE] BY <1>2 DEF StoreVault
  <2> QED OBVIOUS
<1>3. ASSUME NEW r \in Refreshes, RefreshDies(r) PROVE FALSE
  BY <1>3 DEF RefreshDies
<1>4. CASE RevokeVault
  BY <1>4 DEF RevokeVault
<1>5. ASSUME NEW s \in Devices, PollMirror(s)
      PROVE  /\ device[s].p = p /\ device[s].pc = "mirror"
             /\ mirror'[p] = device[s].token /\ vault'[p] = vault[p] /\ ~ Stale(s)
             /\ UNCHANGED valid
  <2>1. /\ missed' = [missed EXCEPT ![device[s].p] = Stale(s)]
        /\ mirror' = [mirror EXCEPT ![device[s].p] = device[s].token]
    BY <1>5 DEF PollMirror
  <2>2. device[s].p = p
    BY <2>1
  <2> QED BY <1>5, <2>1, <2>2 DEF PollMirror, TokenInv, TokenTypeOK
<1>7. ASSUME NEW s \in Devices, PollVault(s) PROVE FALSE
  <2> missed' = missed \/ missed' = [missed EXCEPT ![device[s].p] = @ \/ Stale(s)] BY <1>7 DEF PollVault
  <2> QED OBVIOUS
<1>6. \/ UNCHANGED missed
      \/ \E r \in Refreshes : Exchange(r) \/ StoreVault(r) \/ RefreshDies(r)
      \/ RevokeVault \/ \E s \in Devices : PollMirror(s) \/ PollVault(s)
  BY Zenon DEF TokenNext, tokenVars, RefreshBegin, RefreshLock, RefreshLoad, RecordFailure,
       StoreMirror, StoreClear, DeviceStart, PollBegin, PollExchange, PollLock,
       PollClear, DeviceCancel, DeviceDies, Recover, RevokeBegin, RevokeMirror,
       WriterBegin, WriterLock, WriterCommit
<1> QED BY <1>1, <1>2, <1>3, <1>4, <1>5, <1>6, <1>7

\* The vault is emptied by a revocation, which misses the token.
LEMMA VaultEmptied ==
    TokenInv /\ [TokenNext]_tokenVars =>
        \A p \in Vaults : vault[p] # 0 /\ vault'[p] = 0 => missed'[p]
<1> SUFFICES ASSUME TokenInv, [TokenNext]_tokenVars, NEW p \in Vaults, vault[p] # 0, vault'[p] = 0
             PROVE  missed'[p]
  OBVIOUS
<1> USE TokenAssumption DEF TokenInv, TokenTypeOK
<1>1. ASSUME NEW r \in Refreshes, StoreVault(r) PROVE FALSE
  <2> refresh[r].token # 0 BY <1>1 DEF StoreVault, TokensHeld, Tokens
  <2> QED BY <1>1 DEF StoreVault, PutVault
<1>2. ASSUME NEW s \in Devices, PollVault(s) PROVE FALSE
  <2> device[s].token # 0 BY <1>2 DEF PollVault, TokensHeld
  <2> QED BY <1>2 DEF PollVault, PutVault
<1>3. CASE RevokeVault BY <1>3 DEF RevokeVault, PutVault
<1>4. UNCHANGED vault \/ RevokeVault \/ (\E r \in Refreshes : StoreVault(r)) \/ \E s \in Devices : PollVault(s)
  BY Zenon DEF TokenNext, tokenVars, RefreshBegin, RefreshLock, RefreshLoad, Exchange, RecordFailure,
       StoreMirror, StoreClear, RefreshDies, DeviceStart, PollBegin, PollExchange, PollLock, PollMirror,
       PollClear, DeviceCancel, DeviceDies, Recover, RevokeBegin, RevokeMirror,
       WriterBegin, WriterLock, WriterCommit
<1> QED BY <1>1, <1>2, <1>3, <1>4

\* A standing marker was left by a rejection, and outlives no store.
LEMMA MarkFrame ==
    TokenInv /\ [TokenNext]_tokenVars =>
        \A p \in Vaults : mark'[p] = "standing" =>
            \/ /\ mark[p] = "standing"
               /\ (vault'[p] = vault[p] /\ mirror'[p] = mirror[p]) \/ RevokedAt(p)'
            \/ /\ UNCHANGED <<vault, mirror, valid>>
               /\ \E r \in Refreshes : refresh[r].p = p /\ refresh[r].pc = "rejected"
                                       /\ refresh[r].token = refresh[r].newest
<1> SUFFICES ASSUME TokenInv, [TokenNext]_tokenVars, NEW p \in Vaults, mark'[p] = "standing"
    PROVE   \/ /\ mark[p] = "standing"
               /\ (vault'[p] = vault[p] /\ mirror'[p] = mirror[p]) \/ RevokedAt(p)'
            \/ /\ UNCHANGED <<vault, mirror, valid>>
               /\ \E r \in Refreshes : refresh[r].p = p /\ refresh[r].pc = "rejected"
                                       /\ refresh[r].token = refresh[r].newest
  OBVIOUS
<1> USE DEF TokenInv, TokenTypeOK
<1>1. CASE UNCHANGED <<vault, mirror, mark>> BY <1>1
<1>2. ASSUME NEW r \in Refreshes, RecordFailure(r)
      PROVE \/ UNCHANGED <<vault, mirror, mark>>
            \/ /\ UNCHANGED <<vault, mirror, valid>> /\ refresh[r].p = p
               /\ refresh[r].pc = "rejected" /\ refresh[r].token = refresh[r].newest
            \/ UNCHANGED <<vault, mirror>> /\ mark[p] = "standing"
  BY <1>2 DEF RecordFailure
<1>3. ASSUME NEW r \in Refreshes, StoreVault(r) \/ StoreMirror(r)
      PROVE vault'[p] = vault[p] /\ mirror'[p] = mirror[p] /\ mark[p] = "standing"
  BY <1>3 DEF StoreVault, StoreMirror, PutVault, Outdate
<1>4. ASSUME NEW s \in Devices, PollVault(s) \/ PollMirror(s)
      PROVE vault'[p] = vault[p] /\ mirror'[p] = mirror[p] /\ mark[p] = "standing"
  BY <1>4 DEF PollVault, PollMirror, PutVault, Outdate
<1>5. ASSUME \/ \E r \in Refreshes : StoreClear(r)
             \/ \E s \in Devices : PollClear(s)
             \/ \E q \in Vaults : Recover(q)
      PROVE UNCHANGED <<vault, mirror>> /\ mark[p] = "standing"
  BY <1>5 DEF StoreClear, PollClear, Recover
<1>6. CASE RevokeVault \/ RevokeMirror
  BY <1>6 DEF RevokeVault, RevokeMirror, RevokedAt, PutVault
<1>7. \/ UNCHANGED <<vault, mirror, mark>>
      \/ \E r \in Refreshes : RecordFailure(r) \/ StoreVault(r) \/ StoreMirror(r)
      \/ \E s \in Devices : PollVault(s) \/ PollMirror(s)
      \/ \/ \E r \in Refreshes : StoreClear(r)
         \/ \E s \in Devices : PollClear(s)
         \/ \E q \in Vaults : Recover(q)
      \/ RevokeVault \/ RevokeMirror
  BY Zenon DEF TokenNext, tokenVars, RefreshBegin, RefreshLock, RefreshLoad, Exchange,
       RefreshDies, DeviceStart, PollBegin, PollExchange, PollLock,
       DeviceCancel, DeviceDies, RevokeBegin, WriterBegin, WriterLock, WriterCommit
<1> QED BY <1>1, <1>2, <1>3, <1>4, <1>5, <1>6, <1>7

\* What was good and not spent stays good; what is stored is good.
LEMMA CopiesStep == TokenInv /\ [TokenNext]_tokenVars => CopiesGood'
<1> SUFFICES ASSUME TokenInv, [TokenNext]_tokenVars PROVE CopiesGood'
  OBVIOUS
<1> USE TokenAssumption, TokenRows DEF TokenInv, TokenTypeOK
<1>1. \A r \in Refreshes : refresh[r].token \in 0..MaxTokens /\ refresh[r].p \in Vaults
  OBVIOUS
\* A good copy of a profile with no token missed or on its way stays good.
<1>2. ASSUME NEW p \in Vaults, NEW t \in valid, vault[p] = t \/ mirror[p] = t,
             ~ missed'[p], ~ Spent(p)'
      PROVE  t \in valid'
  <2> SUFFICES ASSUME t \notin valid' PROVE FALSE
    OBVIOUS
  <2>1. PICK r \in Refreshes :
            /\ refresh[r].token = t
            /\ \/ refresh'[r].pc = "vault" /\ refresh'[r].p = refresh[r].p
               \/ missed'[refresh[r].p]
    BY TokenSpent
  <2>2. refresh[r].p = p
    BY <1>2, <2>1 DEF TokensApart, Copy
  <2> QED BY <1>2, <2>1, <2>2 DEF Spent
\* A refresh that stops holding the next token stored it or lost it.
<1>3. ASSUME NEW p \in Vaults, Spent(p), ~ Spent(p)', ~ missed'[p]
      PROVE  vault'[p] \in valid'
  <2>1. PICK r \in Refreshes : refresh[r].pc = "vault" /\ refresh[r].p = p
    BY <1>3 DEF Spent
  <2>2. Advances(r) /\ refresh[r].token \in valid'
    BY <2>1, RefreshAdvances, HeldStaysValid
  <2> QED BY <1>3, <2>1, <2>2 DEF Advances, Spent
<1>4. ASSUME NEW p \in Vaults, missed[p], ~ missed'[p]
      PROVE  /\ vault'[p] # 0 => vault'[p] \in valid'
             /\ mirror'[p] \in valid'
  <2>1. PICK s \in Devices : /\ device[s].p = p /\ device[s].pc = "mirror"
                            /\ mirror'[p] = device[s].token /\ vault'[p] = vault[p] /\ ~ Stale(s)
                            /\ UNCHANGED valid
    BY <1>4, MissedFrame
  <2>2. device[s].token # 0 /\ vault[p] \in {0, device[s].token} /\ valid \subseteq valid'
    BY <2>1 DEF TokensHeld
  <2> QED BY <2>1, <2>2, HeldStaysValid DEF Stale
<1>5. ASSUME NEW p \in Vaults, ~ missed'[p], ~ Spent(p)'
      PROVE  /\ vault'[p] # 0 => vault'[p] \in valid'
             /\ vault'[p] = 0 /\ mirror'[p] # 0 => mirror'[p] \in valid'
  <2>1. CASE missed[p] BY <1>4, <1>5, <2>1
  <2>2. CASE Spent(p)
    <3> vault'[p] \in valid' /\ valid' \subseteq Tokens
      BY <1>3, <1>5, <2>2, TokenTypes
    <3> QED BY DEF Tokens
  <2>3. CASE ~ missed[p] /\ ~ Spent(p)
    <3>1. /\ vault[p] # 0 => vault[p] \in valid'
          /\ vault[p] = 0 /\ mirror[p] # 0 => mirror[p] \in valid'
      BY <1>2, <1>5, <2>3 DEF CopiesGood
    <3>2. vault'[p] # 0 => vault'[p] \in valid'
      <4> \A s \in Devices : device[s].pc = "vault" => device[s].token # 0
        BY DEF TokensHeld
      <4> QED BY <1>5, <3>1, CopiesChange, HeldStaysValid DEF Stale
    <3>3. ASSUME vault'[p] = 0, mirror'[p] # 0 PROVE mirror'[p] \in valid'
      <4>1. CASE mirror'[p] = mirror[p] /\ vault[p] = 0
        BY <3>1, <3>3, <4>1
      <4>2. CASE mirror'[p] # mirror[p]
        <5> \A s \in Devices : device[s].pc = "mirror" => device[s].token # 0
          BY DEF TokensHeld
        <5> QED BY <1>5, <3>3, <4>2, CopiesChange, HeldStaysValid DEF Stale
      <4>3. CASE vault[p] # 0
        BY <1>5, <3>3, <4>3, VaultEmptied
      <4> QED BY <4>1, <4>2, <4>3
    <3> QED BY <3>2, <3>3
  <2> QED BY <2>1, <2>2, <2>3
<1>6. ASSUME NEW p \in Vaults, mark'[p] = "standing", ~ RevokedAt(p)'
      PROVE  Best(p)' \notin valid'
  <2>1. ~ RevokedAt(p) BY <1>6, CopyFrame
  <2>2. Best(p) \in 0..MaxTokens /\ Best(p) <= issued /\ issued \in Nat
    BY DEF Best, TokensIssued
  <2>3. CASE mark[p] = "standing" /\ vault'[p] = vault[p] /\ mirror'[p] = mirror[p]
    <3> Best(p) \notin valid /\ Best(p)' = Best(p) BY <2>1, <2>3 DEF CopiesGood, Best
    <3> QED BY <2>2, ValidFrame
  <2>4. ASSUME UNCHANGED <<vault, mirror, valid>>,
               NEW r \in Refreshes, refresh[r].p = p, refresh[r].pc = "rejected", refresh[r].token = refresh[r].newest
        PROVE  Best(p)' \notin valid'
    <3> Best(p) \notin valid BY <2>1, <2>4 DEF TokensHeld
    <3> QED BY <2>4 DEF Best
  <2> QED BY <1>6, <2>3, <2>4, MarkFrame
<1> QED BY <1>5, <1>6 DEF CopiesGood, Spent, RevokedAt, Best

LEMMA TokenStarts == TokenInit => TokenInv
<1> SUFFICES ASSUME TokenInit PROVE TokenInv
  OBVIOUS
<1>1. /\ \A r \in Refreshes : refresh[r] = NoRefresh
      /\ \A s \in Devices : device[s] = NoDevice
      /\ \A p \in Vaults : vault[p] = 0 /\ mirror[p] = 0 /\ mark[p] = "none"
      /\ valid = {} /\ issued = 0 /\ writer = NoWrite
  BY DEF TokenInit
<1>2. /\ NoRefresh.pc = "none" /\ NoRefresh.token = 0
      /\ NoDevice.pc = "none" /\ NoDevice.token = 0 /\ NoWrite.pc = "none"
  BY DEF NoRefresh, NoDevice, NoWrite
<1>3. TokenTypeOK
  <2> revoke \in [pc : {"none", "vault", "mirror", "done"}, p : Vaults]
    BY TokenRows DEF TokenInit
  <2> QED BY TokenRows, TokenAssumption DEF TokenInit, TokenTypeOK, Tokens, Marks
<1>4. LocksHeld /\ RoutesKept
  BY <1>1, <1>2 DEF LocksHeld, RoutesKept, Inside, Storing
<1>5. TokensApart /\ TokensIssued
  BY <1>1, <1>2 DEF TokensApart, TokensIssued, Copy, Tokens
<1>6. TokensHeld /\ CopiesGood
  BY <1>1, <1>2 DEF TokensHeld, CopiesGood, Inside
<1> QED BY <1>3, <1>4, <1>5, <1>6 DEF TokenInv

\* Every action keeps the invariant.
LEMMA TokenInductive == TokenInv /\ [TokenNext]_tokenVars => TokenInv'
  BY TokenTypes, LockStep, RouteStep, ApartStep, IssuedStep, HeldStep, CopiesStep DEF TokenInv

LEMMA TokenInvariant == TokenSpec => []TokenInv
  BY TokenStarts, TokenInductive, PTL DEF TokenSpec

\* Between stores the copy a refresh would use is one Feishu accepts, and a
\* standing marker tells the truth (_refresh_uat_locked and _store_uat under one identity lock).
THEOREM RefreshStaysHonest == TokenSpec => []RefreshHonest
<1>1. TokenInv => RefreshHonest
  <2> SUFFICES ASSUME TokenInv PROVE RefreshHonest
    OBVIOUS
  <2> USE DEF TokenInv
  <2>1. ASSUME NEW p \in Vaults, Quiet(p), Best(p) # 0, ~ missed[p]
        PROVE  Best(p) \in valid \/ Overtaken(p)
    <3>1. ~ Spent(p)
      BY <2>1, TokenAssumption DEF Quiet, Spent, LocksHeld, Inside, TokenTypeOK
    <3>2. vault[p] \in Nat /\ mirror[p] \in Nat
      BY TokenAssumption DEF TokenTypeOK
    <3> QED BY <2>1, <3>1, <3>2 DEF CopiesGood, Best, Overtaken
  <2>2. \A p \in Vaults : mark[p] = "standing" /\ ~ RevokedAt(p) => Best(p) \notin valid
    BY DEF CopiesGood
  <2> QED BY <2>1, <2>2 DEF RefreshHonest
<1> QED BY <1>1, TokenInvariant, PTL

\* A token enters a profile's copies only while the route names the profile, whatever
\* writer of the route waits for the lock (_store_uat commits under the route it re-reads).
THEOREM TokensStayRouted == TokenSpec => TokenRouted
<1>1. TokenInv /\ [TokenNext]_tokenVars =>
         \A p \in Vaults : vault'[p] \notin {0, vault[p]} \/ mirror'[p] \notin {0, mirror[p]} => RoutedTo(p)
  <2> SUFFICES ASSUME TokenInv, [TokenNext]_tokenVars, NEW p \in Vaults,
                      vault'[p] \notin {0, vault[p]} \/ mirror'[p] \notin {0, mirror[p]}
               PROVE  RoutedTo(p)
    OBVIOUS
  <2> USE DEF TokenInv, TokenTypeOK
  <2>1. ASSUME NEW r \in Refreshes, StoreVault(r) PROVE RoutedTo(p)
    BY <2>1 DEF StoreVault, PutVault
  <2>2. ASSUME NEW s \in Devices, PollVault(s) PROVE RoutedTo(p)
    BY <2>2 DEF PollVault, PutVault
  <2>3. ASSUME NEW r \in Refreshes, StoreMirror(r) PROVE RoutedTo(p)
    <3> refresh[r].p = p /\ refresh[r].pc = "mirror" BY <2>3 DEF StoreMirror
    <3> QED BY DEF RoutesKept
  <2>4. ASSUME NEW s \in Devices, PollMirror(s) PROVE RoutedTo(p)
    <3> device[s].p = p /\ device[s].pc = "mirror" BY <2>4 DEF PollMirror
    <3> QED BY DEF RoutesKept
  <2>5. \/ UNCHANGED <<vault, mirror>> \/ RevokeVault \/ RevokeMirror
        \/ \E r \in Refreshes : StoreVault(r) \/ StoreMirror(r)
        \/ \E s \in Devices : PollVault(s) \/ PollMirror(s)
    BY Zenon DEF TokenNext, tokenVars, RefreshBegin, RefreshLock, RefreshLoad, Exchange, RecordFailure,
         StoreClear, RefreshDies, DeviceStart, PollBegin, PollExchange, PollLock, PollClear,
         DeviceCancel, DeviceDies, Recover, RevokeBegin, WriterBegin, WriterLock, WriterCommit
  <2>6. ~ RevokeVault /\ ~ RevokeMirror
    BY DEF RevokeVault, RevokeMirror, PutVault
  <2> QED BY <2>1, <2>2, <2>3, <2>4, <2>5, <2>6
<1> QED BY <1>1, TokenInvariant, PTL DEF TokenSpec, TokenRouted

-----------------------------------------------------------------------------
(* Durable writes. *)

\* An execution that has the operation's row.
Owns(a, c) == attempt[a].pc \in {"claimed", "ran", "read", "returned"} /\ attempt[a].call = c

\* The row is running while somebody owns it, and one execution at a time does.
RowOwned ==
    /\ \A a \in Attempts : attempt[a].pc # "none" => attempt[a].call \in Calls
    /\ \A a \in Attempts, c \in Calls : Owns(a, c) => op[c] = "running"
    /\ \A a, b \in Attempts, c \in Calls : Owns(a, c) /\ Owns(b, c) => a = b
    /\ \A k \in Resumes : resume[k].pc = "found" => resume[k].call \in Calls

\* Nothing ran before the row was claimed.
RanOnce ==
    /\ \A c \in Calls : executed[c] <= 1 /\ (op[c] = "none" => executed[c] = 0)
    /\ \A a \in Attempts, c \in Calls : Owns(a, c) /\ attempt[a].pc = "claimed" => executed[c] = 0

\* Rows, receipts and answers say of the message what is true of it.
Truthful ==
    /\ \A c \in Calls : /\ executed[c] = 0 => ~ landed[c]
                        /\ op[c] = "confirmed" => landed[c]
                        /\ op[c] = "waiting_auth" => ~ landed[c]
    /\ \A a \in Attempts, c \in Calls : Owns(a, c) =>
          /\ attempt[a].pc = "ran" => landed[c]
          /\ attempt[a].out = "confirmed" /\ attempt[a].pc \in {"read", "returned"} => landed[c]
          /\ attempt[a].out = "auth" /\ attempt[a].pc \in {"read", "returned"} => ~ landed[c]
    /\ \A a \in Attempts, c \in Calls : attempt[a].told = "ok" /\ attempt[a].call = c => landed[c]
    /\ \A a \in Attempts : attempt[a].told = "ok" => attempt[a].pc = "done"

\* A message is offered again once its row is closed.
OfferedAgain ==
    \A c \in Calls : /\ resends[c] <= 1
                     /\ resends[c] > 0 => op[c] = "failed" /\ ~ landed[c]

\* Inductive.
WriteInv == WriteTypeOK /\ RowOwned /\ RanOnce /\ Truthful /\ OfferedAgain

\* The handler's first steps: the call is checked, its row claimed or found taken.
LEMMA ClaimKeeps ==
    ASSUME WriteInv, NEW a \in Attempts, (\E c \in Calls : Call(a, c)) \/ ClaimOperation(a)
    PROVE  WriteInv'
<1> USE DEF WriteInv
<1>1. CASE \E c \in Calls : Call(a, c)
  <2> PICK c \in Calls : Call(a, c)
    BY <1>1
  <2>1. PICK ok \in BOOLEAN :
           attempt' = [attempt EXCEPT ![a] = [NoAttempt EXCEPT !.call = c,
                         !.pc = IF ok THEN "checked" ELSE "done",
                         !.told = IF ok THEN "nothing" ELSE "refused"]]
    BY ZenonT(60) DEF Call
  <2> DEFINE new == [NoAttempt EXCEPT !.call = c, !.pc = IF ok THEN "checked" ELSE "done",
                                      !.told = IF ok THEN "nothing" ELSE "refused"]
  <2>2. /\ new.call = c /\ new.out = "error" /\ new.pc \in {"checked", "done"}
        /\ new.told \in {"nothing", "refused"} /\ DOMAIN new = {"pc", "call", "out", "told"}
    BY DEF NoAttempt
  <2>3. new \in [pc : {"checked", "done"}, call : Calls, out : {"error"}, told : {"nothing", "refused"}]
    BY DEF NoAttempt
  <2>4. attempt' = [attempt EXCEPT ![a] = new]
    BY <2>1
  <2> HIDE DEF new
  <2>5. WriteTypeOK'
    BY ZenonT(60), <2>3, <2>4 DEF WriteTypeOK, Call, Outcomes
  <2>6. /\ \A b \in Attempts, d \in Calls : Owns(b, d)' => Owns(b, d) /\ attempt'[b] = attempt[b]
        /\ \A b \in Attempts : b # a => attempt'[b] = attempt[b]
        /\ attempt'[a].call = c /\ attempt'[a].told # "ok"
        /\ UNCHANGED <<op, resume, executed, landed, resends>>
    BY ZenonT(60), <2>2, <2>4 DEF WriteTypeOK, Call, Owns
  <2>7. RowOwned'
    BY <2>6 DEF RowOwned
  <2>8. RanOnce' /\ OfferedAgain'
    BY <2>6 DEF RanOnce, OfferedAgain
  <2>9. Truthful'
    BY <2>6 DEF Truthful
  <2> QED
    BY <2>5, <2>7, <2>8, <2>9
<1>2. CASE ClaimOperation(a)
  <2> PICK c \in Calls : attempt[a].call = c
    BY <1>2 DEF RowOwned, ClaimOperation
  <2>1. CASE op[c] = "none"
    <3>1. /\ op' = [op EXCEPT ![c] = "running"] /\ attempt' = [attempt EXCEPT ![a].pc = "claimed"]
          /\ attempt[a].pc = "checked" /\ UNCHANGED <<resume, executed, landed, resends>>
      BY <1>2, <2>1 DEF ClaimOperation, Claimable
    <3>2. WriteTypeOK'
      BY SMTT(20), <3>1 DEF WriteTypeOK, OpStates
    <3>3. /\ \A b \in Attempts, d \in Calls : Owns(b, d)' <=> Owns(b, d) \/ (b = a /\ d = c)
          /\ \A b \in Attempts : ~ Owns(b, c)
          /\ \A d \in Calls : ~ Owns(a, d)
          /\ \A b \in Attempts : b # a => attempt'[b] = attempt[b]
          /\ attempt'[a].call = c /\ attempt'[a].told = attempt[a].told /\ attempt'[a].pc = "claimed"
      BY <2>1, <3>1 DEF WriteTypeOK, RowOwned, Owns
    <3>4. RowOwned'
      BY <2>1, <3>1, <3>3 DEF WriteTypeOK, RowOwned
    <3>5. RanOnce'
      BY <2>1, <3>1, <3>3 DEF WriteTypeOK, RanOnce
    <3>6. OfferedAgain'
      BY <2>1, <3>1 DEF WriteTypeOK, OfferedAgain
    <3>7. Truthful'
      BY <2>1, <3>1, <3>3 DEF WriteTypeOK, Truthful
    <3> QED
      BY <3>2, <3>4, <3>5, <3>7, <3>6
  <2>2. CASE op[c] # "none"
    <3>1. /\ attempt[a].pc = "checked" /\ UNCHANGED <<op, resume, executed, landed, resends>>
      BY <1>2, <2>2 DEF ClaimOperation, Claimable
    <3>2. PICK told \in {"ok", "blocked"} :
           /\ attempt' = [attempt EXCEPT ![a].pc = "done", ![a].told = told]
           /\ told = "ok" => op[c] = "confirmed"
      <4>1. CASE op[c] = "confirmed"
        BY <1>2, <2>2, <4>1 DEF ClaimOperation, Claimable
      <4>2. CASE op[c] # "confirmed"
        BY <1>2, <2>2, <4>2 DEF ClaimOperation, Claimable
      <4> QED
        BY <4>1, <4>2
    <3>3. WriteTypeOK'
      <4> DEFINE Executions ==
              [pc : {"none", "checked", "claimed", "ran", "read", "returned", "done"},
               call : Calls \cup {Blank}, out : Outcomes \cup {"confirmed"},
               told : {"nothing", "refused", "ok", "blocked", "failed"}]
      <4>1. attempt \in [Attempts -> Executions] /\ attempt[a] \in Executions
        BY DEF WriteTypeOK
      <4>2. [attempt[a] EXCEPT !.pc = "done", !.told = told] \in Executions
        BY <4>1, <3>2
      <4>3. attempt' = [attempt EXCEPT ![a] = [attempt[a] EXCEPT !.pc = "done", !.told = told]]
        BY <4>1, <3>2
      <4> HIDE DEF Executions
      <4>4. attempt' \in [Attempts -> Executions]
        BY <4>1, <4>2, <4>3
      <4> QED
        BY <3>1, <4>4 DEF WriteTypeOK, Executions
    <3>4. /\ \A b \in Attempts, d \in Calls : Owns(b, d)' => Owns(b, d) /\ attempt'[b] = attempt[b]
          /\ \A b \in Attempts : b # a => attempt'[b] = attempt[b]
          /\ attempt'[a].call = c /\ attempt'[a].pc = "done"
          /\ attempt'[a].told = "ok" => op[c] = "confirmed"
      BY <3>1, <3>2 DEF WriteTypeOK, Owns
    <3>5. RowOwned'
      BY <3>1, <3>4 DEF RowOwned
    <3>6. RanOnce' /\ OfferedAgain'
      BY <3>1, <3>4 DEF RanOnce, OfferedAgain
    <3>7. \A b \in Attempts, d \in Calls : attempt'[b].told = "ok" /\ attempt'[b].call = d => landed[d]
      BY <3>4 DEF Truthful
    <3>8. \A b \in Attempts : attempt'[b].told = "ok" => attempt'[b].pc = "done"
      BY <3>4 DEF Truthful
    <3>9. \A b \in Attempts, d \in Calls : Owns(b, d)' =>
             /\ attempt'[b].pc = "ran" => landed[d]
             /\ attempt'[b].out = "confirmed" /\ attempt'[b].pc \in {"read", "returned"} => landed[d]
             /\ attempt'[b].out = "auth" /\ attempt'[b].pc \in {"read", "returned"} => ~ landed[d]
      BY <3>4 DEF Truthful
    <3>10. Truthful'
      BY <3>1, <3>7, <3>8, <3>9 DEF Truthful
    <3> QED
      BY <3>5, <3>10, <3>3, <3>6
  <2> QED
    BY <2>1, <2>2
<1> QED
  BY <1>1, <1>2

\* lark-cli runs, once for the row.
LEMMA RunKeeps ==
    ASSUME WriteInv, NEW a \in Attempts, NEW out \in Outcomes, RunCli(a, out)
    PROVE  WriteInv'
<1> USE DEF WriteInv
<1> PICK c \in Calls : attempt[a].call = c
  BY DEF RowOwned, RunCli
<1> PICK here \in BOOLEAN : /\ out = "message" => here
                            /\ out = "auth" => ~ here
                            /\ landed' = [landed EXCEPT ![c] = @ \/ here]
  BY DEF RunCli
<1>1. /\ attempt[a].pc = "claimed" /\ executed[c] = 0 /\ ~ landed[c] /\ op[c] = "running"
      /\ executed' = [executed EXCEPT ![c] = 1]
      /\ attempt' = [attempt EXCEPT ![a].out = out, ![a].pc = IF out = "message" THEN "ran" ELSE "read"]
      /\ UNCHANGED <<op, resume, resends>>
  BY DEF WriteTypeOK, RowOwned, RanOnce, Truthful, RunCli, Owns
<1>2. landed' = [landed EXCEPT ![c] = here]
  BY <1>1 DEF WriteTypeOK
<1>3. WriteTypeOK'
  BY <1>1, <1>2 DEF WriteTypeOK
<1>4. /\ \A b \in Attempts, d \in Calls : Owns(b, d)' <=> Owns(b, d)
      /\ \A b \in Attempts : Owns(b, c) <=> b = a
      /\ \A b \in Attempts : b # a => attempt'[b] = attempt[b]
      /\ attempt'[a].call = c /\ attempt'[a].told = attempt[a].told /\ attempt'[a].out = out
      /\ attempt'[a].pc = IF out = "message" THEN "ran" ELSE "read"
  BY <1>1 DEF WriteTypeOK, RowOwned, Owns
<1>5. RowOwned' /\ RanOnce' /\ OfferedAgain'
  BY <1>1, <1>2, <1>4 DEF WriteTypeOK, RowOwned, RanOnce, OfferedAgain
<1>6. Truthful'
  BY <1>1, <1>2, <1>4 DEF WriteTypeOK, Truthful, Outcomes
<1> QED
  BY <1>3, <1>5, <1>6

\* The rest of an execution: what it says of the message stays true.
LEMMA EndKeeps ==
    ASSUME WriteInv, NEW a \in Attempts, Readback(a) \/ Return(a) \/ PostHook(a) \/ WorkerDies(a)
    PROVE  WriteInv'
<1> USE DEF WriteInv
<1> PICK c \in Calls : attempt[a].call = c
  BY DEF RowOwned, Readback, Return, PostHook, WorkerDies
<1>1. UNCHANGED <<resume, executed, landed, resends>>
  BY DEF Readback, Return, PostHook, WorkerDies
<1>2. CASE Readback(a) \/ Return(a)
  <2>1. /\ UNCHANGED op /\ \A b \in Attempts : b # a => attempt'[b] = attempt[b]
        /\ attempt[a].pc \in {"ran", "read"} /\ attempt'[a].pc \in {"read", "returned"}
        /\ attempt'[a].call = c /\ attempt'[a].told = attempt[a].told
        /\ \/ attempt'[a].out \in {"confirmed", "error"} /\ attempt[a].pc = "ran"
           \/ attempt'[a].out = attempt[a].out /\ attempt[a].pc = "read"
    <3>1. CASE Readback(a)
      <4>1. attempt[a].pc = "ran" /\ UNCHANGED op
        BY <3>1 DEF Readback
      <4>2. PICK same \in BOOLEAN : attempt' = [attempt EXCEPT ![a].pc = "read",
                                               ![a].out = IF same THEN "confirmed" ELSE "error"]
        BY <3>1 DEF Readback
      <4> QED
        BY <4>1, <4>2 DEF WriteTypeOK
    <3>2. CASE Return(a)
      BY <3>2 DEF WriteTypeOK, Return
    <3> QED
      BY <1>2, <3>1, <3>2
  <2>2. WriteTypeOK'
    BY SMTT(20), <1>1, <1>2 DEF WriteTypeOK, Readback, Return, Outcomes
  <2>3. \A b \in Attempts, d \in Calls : Owns(b, d)' <=> Owns(b, d)
    BY <2>1 DEF Owns
  <2>4. RowOwned' /\ RanOnce' /\ OfferedAgain'
    BY <1>1, <2>1, <2>3 DEF RowOwned, RanOnce, OfferedAgain
  <2>5. Truthful'
    BY <1>1, <2>1, <2>3 DEF Truthful, Owns
  <2> QED
    BY <2>2, <2>4, <2>5
<1>3. CASE PostHook(a) \/ WorkerDies(a)
  <2>1. /\ \A b \in Attempts : b # a => attempt'[b] = attempt[b]
        /\ attempt[a].pc \notin {"none", "done"}
        /\ attempt'[a].pc = "done" /\ attempt'[a].call = c
        /\ attempt'[a].told = "ok" => attempt[a].told = "ok" \/ (Owns(a, c) /\ attempt[a].out = "confirmed"
                                                                /\ attempt[a].pc = "returned")
    BY <1>3 DEF WriteTypeOK, PostHook, WorkerDies, Receipt, Owns
  <2>2. \/ op' = op
        \/ /\ Owns(a, c) /\ op[c] = "running" /\ attempt[a].pc = "returned"
           /\ op' = [op EXCEPT ![c] = Receipt(attempt[a].out)]
    BY <1>3 DEF PostHook, WorkerDies, Owns
  <2>3. WriteTypeOK'
    BY <1>1, <1>3, <2>2 DEF WriteTypeOK, PostHook, WorkerDies, NoAttempt, Outcomes, OpStates, Receipt
  <2>4. /\ \A b \in Attempts, d \in Calls : Owns(b, d)' <=> Owns(b, d) /\ b # a
        /\ Owns(a, c) => \A b \in Attempts : b # a => ~ Owns(b, c)
    BY <2>1 DEF Owns, RowOwned
  <2>5. RowOwned'
    BY <1>1, <2>1, <2>2, <2>4 DEF WriteTypeOK, RowOwned
  <2>6. RanOnce'
    BY <1>1, <2>1, <2>2, <2>4 DEF WriteTypeOK, RanOnce, Receipt
  <2>7. OfferedAgain'
    BY <1>1, <2>2 DEF WriteTypeOK, OfferedAgain
  <2>8. \A d \in Calls : /\ op'[d] = "confirmed" => landed[d]
                         /\ op'[d] = "waiting_auth" => ~ landed[d]
    BY <2>2 DEF WriteTypeOK, Truthful, Receipt, Outcomes
  <2>9. Truthful'
    BY <1>1, <2>1, <2>4, <2>8 DEF Truthful
  <2> QED
    BY <2>3, <2>5, <2>6, <2>7, <2>9
<1> QED
  BY <1>2, <1>3

\* A recovery closes a row only while it waits.
LEMMA ResumeKeeps ==
    ASSUME WriteInv, NEW k \in Resumes, CloseWaiting(k) \/ \E c \in Calls : FindPending(k, c)
    PROVE  WriteInv'
<1> USE DEF WriteInv
<1>1. UNCHANGED <<attempt, executed, landed>> /\ \A b \in Attempts, d \in Calls : Owns(b, d)' <=> Owns(b, d)
  BY DEF CloseWaiting, FindPending, Owns
<1>2. CASE \E c \in Calls : FindPending(k, c)
  <2>1. WriteTypeOK' /\ RowOwned'
    BY <1>1, <1>2 DEF WriteTypeOK, RowOwned, FindPending
  <2>2. RanOnce' /\ Truthful' /\ OfferedAgain'
    BY <1>1, <1>2 DEF RanOnce, Truthful, OfferedAgain, FindPending
  <2> QED
    BY <2>1, <2>2
<1>3. CASE CloseWaiting(k)
  <2> PICK c \in Calls : resume[k].call = c
    BY <1>3 DEF CloseWaiting, RowOwned
  <2>1. \/ UNCHANGED <<op, resends>>
        \/ /\ op[c] = "waiting_auth" /\ op' = [op EXCEPT ![c] = "failed"]
           /\ resends' = [resends EXCEPT ![c] = @ + 1]
    BY <1>3 DEF CloseWaiting, Closes
  <2>2. resends'[c] = resends[c] \/ (resends[c] = 0 /\ resends'[c] = 1 /\ op[c] = "waiting_auth")
    BY <2>1 DEF WriteTypeOK, OfferedAgain
  <2>3. WriteTypeOK' /\ RowOwned'
    BY <1>1, <1>3, <2>1 DEF WriteTypeOK, RowOwned, CloseWaiting, NoResume, OpStates
  <2>4. RanOnce' /\ Truthful'
    BY <1>1, <2>1 DEF WriteTypeOK, RanOnce, Truthful
  <2>5. OfferedAgain'
    BY <1>1, <2>1, <2>2 DEF WriteTypeOK, OfferedAgain, Truthful
  <2> QED
    BY <2>3, <2>4, <2>5
<1> QED
  BY <1>2, <1>3

\* A message reaches the chat at most once and is offered again only if it is not there,
\* for any number of repeated calls, workers that die and recoveries.
THEOREM MessagesWrittenOnce == WriteSpec => []WrittenOnce
<1>1. WriteInit => WriteInv
  BY WriteAssumption DEF WriteInit, WriteInv, WriteTypeOK, RowOwned, RanOnce, Truthful, OfferedAgain, Owns,
     NoAttempt, NoResume, OpStates, Outcomes
<1>2. WriteInv /\ [WriteNext]_writeVars => WriteInv'
  <2>1. WriteInv /\ UNCHANGED writeVars => WriteInv'
    BY DEF writeVars, WriteInv, WriteTypeOK, RowOwned, RanOnce, Truthful, OfferedAgain, Owns
  <2> QED
    BY <2>1, ClaimKeeps, RunKeeps, EndKeeps, ResumeKeeps DEF WriteNext
<1>3. WriteInv => WrittenOnce
  BY DEF WriteInv, WrittenOnce, WritesOnce, ResendSafe, RanOnce, Truthful, OfferedAgain, WriteTypeOK, RowOwned
<1> QED
  BY <1>1, <1>2, <1>3, PTL DEF WriteSpec
=============================================================================
