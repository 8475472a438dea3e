----------------------------- MODULE CredLease -----------------------------
(***************************************************************************)
(* Credential delegation (credential_delegation.py,                        *)
(* feishu_cred_delegation.py): a run of a group profile borrows the GitLab *)
(* token of the person who started it, after that person approved a card.  *)
(*                                                                         *)
(* A grant is a lease row: "once", bound to the delegation id of its       *)
(* request, or "chat", standing for the group.  A run that is spawned      *)
(* looks its lease up, checks who owns the recorded profile, reads the     *)
(* token, checks the owner again and claims the lease, each in a           *)
(* transaction of its own, while other runs, the owner's revocation, the   *)
(* clock and the HR sync that moves people between profiles go on.         *)
(* One group is modelled; its own token (the allow-list) is absent.        *)
(***************************************************************************)
EXTENDS Naturals, FiniteSets

CONSTANTS People, Homes,        \* personal profiles
          Members,              \* the people who write in the group
          BorrowRuns,           \* runs of the group profile
          Requests,             \* delegation ids
          Clicks,               \* card callbacks, each in an SDK thread
          Nil,
          HomeOf                \* the profile a person is routed to at first

ASSUME CredAssumption ==
  /\ HomeOf \in [People -> Homes] /\ Members \subseteq People
  /\ \A u, v \in People : HomeOf[u] = HomeOf[v] => u = v  \* a profile is made for one person
  /\ Nil \notin People \cup Homes \cup Requests

VARIABLES
  route,    \* the active routing row of a person: a profile, or Nil
  moved,    \* people the HR sync has moved (each at most once)
  token,    \* whose token a profile's vault holds
  lease,    \* the lease a request led to
  pending,  \* "no", "reserved" (the card is being sent) or "card"
  request,  \* owner and recorded profile of a request
  replay,   \* synthetic replays dispatched and not yet run
  brun,     \* a run of the group
  click,    \* a callback of the card
  grants,   \* leases a request led to
  uses      \* borrows of a request's lease

credVars == <<route, moved, token, lease, pending, request, replay, brun, click,
              grants, uses>>

Scopes == {"once", "chat"}
Dead == {"consumed", "revoked", "expired"}
NoLease == [st |-> "none", scope |-> "once", aged |-> FALSE]
NoRun == [pc |-> "none", sender |-> Nil, deleg |-> Nil, rows |-> {}, pick |-> Nil,
          tok |-> Nil]
BorrowOver == [NoRun EXCEPT !.pc = "over"]
NoClick == [pc |-> "none", of |-> Nil, choice |-> "deny"]
ClickOver == [NoClick EXCEPT !.pc = "done"]

RunPcs == {"none", "find", "rows", "check", "read", "recheck", "claim", "going", "over"}

LeaseSet == [st : {"none", "active"} \cup Dead, scope : Scopes, aged : BOOLEAN]
BorrowSet == [pc : RunPcs, sender : People \cup {Nil}, deleg : Requests \cup {Nil},
              rows : SUBSET Requests, pick : Requests \cup {Nil}, tok : People \cup {Nil}]
ClickSet == [pc : {"none", "peeked", "grant", "done"}, of : Requests \cup {Nil},
             choice : Scopes \cup {"deny"}]

CredTypeOK ==
  /\ route \in [People -> Homes \cup {Nil}] /\ moved \subseteq People
  /\ token \in [Homes -> People \cup {Nil}]
  /\ lease \in [Requests -> LeaseSet]
  /\ pending \in [Requests -> {"no", "reserved", "card"}]
  /\ request \in [Requests -> [owner : People \cup {Nil}, home : Homes \cup {Nil}]]
  /\ replay \subseteq People \X (Requests \cup {Nil})
  /\ brun \in [BorrowRuns -> BorrowSet] /\ click \in [Clicks -> ClickSet]
  /\ grants \in [Requests -> Nat] /\ uses \in [Requests -> Nat]

CredInit ==
  /\ route = HomeOf /\ moved = {}
  /\ token \in {[h \in Homes |-> Nil],
                [h \in Homes |-> IF \E u \in People : HomeOf[u] = h
                                 THEN CHOOSE u \in People : HomeOf[u] = h ELSE Nil]}
  /\ lease = [q \in Requests |-> NoLease]
  /\ pending = [q \in Requests |-> "no"]
  /\ request = [q \in Requests |-> [owner |-> Nil, home |-> Nil]]
  /\ replay = {} /\ brun = [r \in BorrowRuns |-> NoRun]
  /\ click = [c \in Clicks |-> NoClick]
  /\ grants = [q \in Requests |-> 0] /\ uses = [q \in Requests |-> 0]

-----------------------------------------------------------------------------
(* The world: the HR sync, the credential centre, the clock, the owner. *)

\* The sync upserts the incoming person's row, or removes the outgoing one's;
\* the two rows of a profile may both be active in between.
Move(u, h) ==
  /\ u \notin moved /\ route[u] # h
  /\ route' = [route EXCEPT ![u] = h]
  /\ moved' = moved \cup {u}
  /\ UNCHANGED <<token, lease, pending, request, replay, brun, click, grants, uses>>

\* A person stores a token in the vault of the profile routed to.
StoreToken(u) ==
  /\ route[u] # Nil
  /\ token' = [token EXCEPT ![route[u]] = u]
  /\ UNCHANGED <<route, moved, lease, pending, request, replay, brun, click, grants,
                 uses>>

\* A lease outlives its TTL; the row says so only when somebody looks.
LeaseAges(q) ==
  /\ lease[q].st = "active" /\ ~lease[q].aged
  /\ lease' = [lease EXCEPT ![q].aged = TRUE]
  /\ UNCHANGED <<route, moved, token, pending, request, replay, brun, click, grants,
                 uses>>

\* revoke_chat_leases: every active lease of the owner for the group.
Revoke(u) ==
  /\ \E q \in Requests : lease[q].st = "active" /\ request[q].owner = u
  /\ lease' = [q \in Requests |->
       IF lease[q].st = "active" /\ request[q].owner = u
       THEN [lease[q] EXCEPT !.st = "revoked"] ELSE lease[q]]
  /\ UNCHANGED <<route, moved, token, pending, request, replay, brun, click, grants,
                 uses>>

-----------------------------------------------------------------------------
(* delegation_env_for_run: what a spawned run borrows. *)

\* A person's message, or a replay with the delegation id of its grant.
Spawn(r, u, q) ==
  /\ brun[r].pc = "none"
  /\ q # Nil => <<u, q>> \in replay
  /\ replay' = replay \ {<<u, q>>}
  /\ brun' = [brun EXCEPT ![r] = [NoRun EXCEPT !.pc = "find", !.sender = u, !.deleg = q]]
  /\ UNCHANGED <<route, moved, token, lease, pending, request, click, grants, uses>>

ActiveOf(u) == {q \in Requests : lease[q].st = "active" /\ request[q].owner = u}

\* find_active_lease reads the sender's active rows ...
FindRows(r) ==
  /\ brun[r].pc = "find"
  /\ brun' = [brun EXCEPT ![r].pc = "rows", ![r].rows = ActiveOf(brun[r].sender)]
  /\ UNCHANGED <<route, moved, token, lease, pending, request, replay, click, grants,
                 uses>>

\* Mutant: the snapshot's row is expired whatever became of it.
ExpiredBlind(q) == [lease EXCEPT ![q].st = "expired"]

\* ... flips a row that outlived its TTL, if it is still active ...
Expired(q) == IF lease[q].st = "active" THEN [lease EXCEPT ![q].st = "expired"] ELSE lease

ExpireRow(r, q) ==
  /\ brun[r].pc = "rows" /\ q \in brun[r].rows /\ lease[q].aged
  /\ lease' = Expired(q)
  /\ brun' = [brun EXCEPT ![r].rows = @ \ {q}]
  /\ UNCHANGED <<route, moved, token, pending, request, replay, click, grants, uses>>

\* ... and takes one this run may use: a once lease only for its own replay.
Eligible(q, deleg) == lease[q].scope = "once" => deleg = q

PickRow(r, q) ==
  /\ brun[r].pc = "rows" /\ q \in brun[r].rows /\ Eligible(q, brun[r].deleg)
  /\ brun' = [brun EXCEPT ![r].pc = "check", ![r].pick = q, ![r].rows = {}]
  /\ UNCHANGED <<route, moved, token, lease, pending, request, replay, click, grants,
                 uses>>

\* No row is eligible: the run goes without a token.
NoRow(r) ==
  /\ brun[r].pc = "rows"
  /\ \A q \in brun[r].rows : ~lease[q].aged /\ ~Eligible(q, brun[r].deleg)
  /\ brun' = [brun EXCEPT ![r].pc = "going", ![r].rows = {}]
  /\ UNCHANGED <<route, moved, token, lease, pending, request, replay, click, grants,
                 uses>>

\* _owner_route_matches: the sender is routed to the recorded profile, and nobody
\* else is (profile_is_solely_owned_by).
RouteMatches(u, h) == {v \in People : route[v] = h} = {u}

\* A sender routed elsewhere: the lease is revoked; a contested profile or a row
\* that does not resolve only refuses this borrow.
Drifted(u, h) == route[u] \notin {h, Nil}

\* The check before the token is read, and the one after it.
CheckOwner(r) ==
  LET u == brun[r].sender
      h == request[brun[r].pick].home IN
  /\ brun[r].pc \in {"check", "recheck"}
  /\ brun' = [brun EXCEPT
       ![r].pc = IF ~RouteMatches(u, h) THEN "going"
                 ELSE IF brun[r].pc = "check" THEN "read" ELSE "claim",
       ![r].tok = IF RouteMatches(u, h) THEN @ ELSE Nil]
  /\ lease' = IF Drifted(u, h) /\ lease[brun[r].pick].st = "active"
              THEN [lease EXCEPT ![brun[r].pick].st = "revoked"] ELSE lease
  /\ UNCHANGED <<route, moved, token, pending, request, replay, click, grants, uses>>

\* Mutant: the owner is not confirmed after the read.
ReadTokenUnconfirmed(r) ==
  /\ brun[r].pc = "read"
  /\ LET t == token[request[brun[r].pick].home] IN
     brun' = [brun EXCEPT ![r].tok = t, ![r].pc = IF t = Nil THEN "going" ELSE "claim"]
  /\ UNCHANGED <<route, moved, token, lease, pending, request, replay, click, grants,
                 uses>>

\* owner_gitlab_env: the record of the owner's own vault.
ReadToken(r) ==
  /\ brun[r].pc = "read"
  /\ LET t == token[request[brun[r].pick].home] IN
     brun' = [brun EXCEPT ![r].pc = IF t = Nil THEN "going" ELSE "recheck", ![r].tok = t]
  /\ UNCHANGED <<route, moved, token, lease, pending, request, replay, click, grants,
                 uses>>

\* record_lease_use: the conditional update is the claim.
Claim(r) ==
  LET q == brun[r].pick
      won == lease[q].st = "active" /\ ~lease[q].aged IN
  /\ brun[r].pc = "claim"
  /\ brun' = [brun EXCEPT ![r].pc = "going", ![r].tok = IF won THEN @ ELSE Nil]
  /\ lease' = IF won /\ lease[q].scope = "once"
              THEN [lease EXCEPT ![q].st = "consumed"] ELSE lease
  /\ uses' = [uses EXCEPT ![q] = IF won THEN @ + 1 ELSE @]
  /\ UNCHANGED <<route, moved, token, pending, request, replay, click, grants>>

\* The run ends with its credential, or without having needed one.
RunOver(r) ==
  /\ brun[r].pc = "going"
  /\ brun' = [brun EXCEPT ![r] = BorrowOver]
  /\ UNCHANGED <<route, moved, token, lease, pending, request, replay, click, grants,
                 uses>>

-----------------------------------------------------------------------------
(* The request: a run whose tool missed the credential left its marker. *)

\* handle_gitlab_delegation_required with a standing grant: the run is replayed.
Standing(u) == \E q \in ActiveOf(u) : lease[q].scope = "chat" /\ ~lease[q].aged

ReplayStanding(r) ==
  LET u == brun[r].sender IN
  /\ brun[r].pc = "going" /\ brun[r].tok = Nil
  /\ route[u] # Nil /\ token[route[u]] # Nil /\ Standing(u)
  /\ brun' = [brun EXCEPT ![r] = BorrowOver]
  /\ replay' = replay \cup {<<u, Nil>>}
  /\ UNCHANGED <<route, moved, token, lease, pending, request, click, grants, uses>>

\* _reserve_pending: one live card of a person and group; the loser sends none.
Reserve(r, q) ==
  LET u == brun[r].sender IN
  /\ brun[r].pc = "going" /\ brun[r].tok = Nil
  /\ route[u] # Nil /\ token[route[u]] # Nil /\ ~Standing(u)
  /\ request[q].owner = Nil
  /\ \A o \in Requests : pending[o] # "no" => request[o].owner # u
  /\ brun' = [brun EXCEPT ![r] = BorrowOver]
  /\ pending' = [pending EXCEPT ![q] = "reserved"]
  /\ request' = [request EXCEPT ![q] = [owner |-> u, home |-> route[u]]]
  /\ UNCHANGED <<route, moved, token, lease, replay, click, grants, uses>>

\* send_auth_card returns; a failed or cancelled send gives the slot back.
CardSent(q) ==
  /\ pending[q] = "reserved"
  /\ \E sent \in BOOLEAN : pending' = [pending EXCEPT ![q] = IF sent THEN "card" ELSE "no"]
  /\ UNCHANGED <<route, moved, token, lease, request, replay, brun, click, grants, uses>>

\* _expire_pending_later, or the sweep of a later request.
PendingExpires(q) ==
  /\ pending[q] = "card"
  /\ pending' = [pending EXCEPT ![q] = "no"]
  /\ UNCHANGED <<route, moved, token, lease, request, replay, brun, click, grants, uses>>

\* handle_delegation_card_action up to the identity check: the operator of the
\* signed event must be the owner, another person's click changes nothing.
ClickCard(c, q, u, choice) ==
  /\ click[c].pc = "none" /\ pending[q] # "no" /\ u = request[q].owner
  /\ click' = [click EXCEPT ![c] = [pc |-> "peeked", of |-> q, choice |-> choice]]
  /\ UNCHANGED <<route, moved, token, lease, pending, request, replay, brun, grants, uses>>

\* _pop_pending: the click that finds the entry resolves it.
PopPending(c) ==
  LET q == click[c].of IN
  /\ click[c].pc = "peeked"
  /\ pending' = [pending EXCEPT ![q] = "no"]
  /\ click' = [click EXCEPT ![c] = IF pending[q] = "no" \/ @.choice = "deny" THEN ClickOver
                                      ELSE [@ EXCEPT !.pc = "grant"]]
  /\ UNCHANGED <<route, moved, token, lease, request, replay, brun, grants, uses>>

\* create_lease, then the replay that carries the delegation id of a once lease.
Grant(c) ==
  LET q == click[c].of
      scope == click[c].choice IN
  /\ click[c].pc = "grant"
  /\ lease' = [lease EXCEPT ![q] = [st |-> "active", scope |-> scope, aged |-> FALSE]]
  /\ grants' = [grants EXCEPT ![q] = @ + 1]
  /\ replay' = replay \cup {<<request[q].owner, IF scope = "once" THEN q ELSE Nil>>}
  /\ click' = [click EXCEPT ![c] = ClickOver]
  /\ UNCHANGED <<route, moved, token, pending, request, brun, uses>>

\* The gateway restarts: pending cards, callbacks and replays are memory, leases
\* are rows, and a run's environment dies with its process.
Restart ==
  /\ \E r \in BorrowRuns : brun[r].pc \notin {"none", "over"}
  /\ pending' = [q \in Requests |-> "no"]
  /\ replay' = {}
  /\ click' = [c \in Clicks |-> IF click[c].pc = "none" THEN NoClick
                                ELSE ClickOver]
  /\ brun' = [r \in BorrowRuns |-> IF brun[r].pc = "none" THEN NoRun
                                   ELSE BorrowOver]
  /\ UNCHANGED <<route, moved, token, lease, request, grants, uses>>

CredNext ==
  \/ \E u \in People : \/ StoreToken(u) \/ Revoke(u)
                       \/ \E h \in Homes \cup {Nil} : Move(u, h)
  \/ \E q \in Requests : LeaseAges(q) \/ CardSent(q) \/ PendingExpires(q)
  \/ \E r \in BorrowRuns :
       \/ FindRows(r) \/ NoRow(r) \/ CheckOwner(r) \/ ReadToken(r) \/ Claim(r)
       \/ RunOver(r) \/ ReplayStanding(r)
       \/ \E q \in Requests : ExpireRow(r, q) \/ PickRow(r, q) \/ Reserve(r, q)
       \/ \E u \in Members, q \in Requests \cup {Nil} : Spawn(r, u, q)
  \/ \E c \in Clicks :
       \/ PopPending(c) \/ Grant(c)
       \/ \E q \in Requests, u \in People, ch \in Scopes \cup {"deny"} :
            ClickCard(c, q, u, ch)
  \/ Restart

CredSpec == CredInit /\ [][CredNext]_credVars

-----------------------------------------------------------------------------
(* What must hold. *)

\* The token a run carries is its sender's own, although the profile the lease
\* names may be handed to somebody else at any point of the borrow.  The one
\* other token it can be is the one the sender took over with the profile.
BorrowsOwn ==
  CredTypeOK /\ \A r \in BorrowRuns :
    brun[r].pc = "going" /\ brun[r].tok \notin {Nil, brun[r].sender} =>
      LET h == request[brun[r].pick].home
      IN  HomeOf[brun[r].tok] = h /\ HomeOf[brun[r].sender] # h

\* "Allow once" is one grant for one run: the request is granted once however
\* many clicks raced, its lease serves one borrow, and only its own replay's.
OnceMeansOnce ==
  /\ \A q \in Requests : grants[q] <= 1 /\ (lease[q].scope = "once" => uses[q] <= 1)
  /\ \A r \in BorrowRuns : /\ brun[r].pc = "going" /\ brun[r].tok # Nil
                           /\ lease[brun[r].pick].scope = "once"
                           => brun[r].deleg = brun[r].pick

\* A dead lease keeps the state it died in: a revocation is never overwritten by
\* a look-up that expires the row from its snapshot.
DeadStays ==
  [][\A q \in Requests : lease[q].st \in Dead => lease'[q].st = lease[q].st]_credVars

\* What the owner granted is what is used: once, and not after it was taken back.
LeasesHonoured == []OnceMeansOnce /\ DeadStays
=============================================================================
