---------------------------- MODULE DesktopViewer ----------------------------
(***************************************************************************)
(* Viewers of one desktop screen (desktop_viewer.py): the registry of      *)
(* viewer ids, the sockets that carry the screen, and the lease that says  *)
(* who drives it.  A clean close of a viewer's last socket hands control   *)
(* back to the agent in three steps, during which the same viewer may come *)
(* back, another may take over, and the registry may drop the id.          *)
(***************************************************************************)
EXTENDS Naturals, FiniteSets

CONSTANTS Viewers,     \* viewer ids, each minted at most once
          Sockets,     \* connections
          MaxViewers,  \* MAX_VIEWERS_PER_PROFILE
          Agent        \* the lease is the agent's

ASSUME ViewerAssumption == MaxViewers \in Nat \ {0} /\ Agent \notin Viewers /\ IsFiniteSet(Sockets)

VARIABLES issued,   \* registered ids
          minted,  \* ids ever minted
          count,   \* Viewer.sockets
          giving,  \* Viewer.releasing
          holder,  \* who holds the lease
          sock,    \* a connection
          leaseCall     \* a lease request between its check and the lease call

viewerVars == <<issued, minted, count, giving, holder, sock, leaseCall>>

NoSock == [pc |-> "none", v |-> Agent, clean |-> FALSE, held |-> FALSE]
SockOver == [NoSock EXCEPT !.pc = "done"]
Idle == <<>>

SockSet == [pc : {"none", "open", "closed", "handing", "release", "finish", "done"},
            v : Viewers \cup {Agent}, clean : BOOLEAN, held : BOOLEAN]

ViewerTypeOK ==
  /\ issued \subseteq minted /\ minted \subseteq Viewers
  /\ count \in [Viewers -> Nat] /\ giving \in [Viewers -> BOOLEAN]
  /\ holder \in Viewers \cup {Agent}
  /\ sock \in [Sockets -> SockSet]
  /\ leaseCall \in {Idle} \cup ({"acquire", "release", "force"} \X Viewers)

ViewerInit ==
  /\ issued = {} /\ minted = {} /\ holder = Agent /\ leaseCall = Idle
  /\ count = [v \in Viewers |-> 0] /\ giving = [v \in Viewers |-> FALSE]
  /\ sock = [s \in Sockets |-> NoSock]

-----------------------------------------------------------------------------
(* The registry. *)

Detached == {v \in issued : count[v] = 0}
Evictable == Detached

\* mint: a full profile drops a detached viewer, and refuses without one.
Mint(v) ==
  /\ v \notin minted
  /\ \E gone \in SUBSET Evictable :
       /\ Cardinality(gone) = IF Cardinality(issued) >= MaxViewers THEN 1 ELSE 0
       /\ issued' = (issued \ gone) \cup {v}
  /\ minted' = minted \cup {v}
  /\ UNCHANGED <<count, giving, holder, sock, leaseCall>>

\* _prune: a detached viewer whose time is over.
PruneViewer(v) ==
  /\ v \in Detached /\ issued' = issued \ {v}
  /\ UNCHANGED <<minted, count, giving, holder, sock, leaseCall>>

\* Mutant: a viewer that is handing control back takes a new socket.
ClaimGiving(s, v) ==
  /\ sock[s].pc = "none" /\ v \in issued
  /\ count' = [count EXCEPT ![v] = @ + 1]
  /\ sock' = [sock EXCEPT ![s] = [NoSock EXCEPT !.pc = "open", !.v = v, !.held = holder = v]]
  /\ UNCHANGED <<issued, minted, giving, holder, leaseCall>>

\* claim_socket: the check and the count are one critical section.
ClaimSocket(s, v) ==
  /\ sock[s].pc = "none" /\ v \in issued /\ ~giving[v]
  /\ count' = [count EXCEPT ![v] = @ + 1]
  /\ sock' = [sock EXCEPT ![s] = [NoSock EXCEPT !.pc = "open", !.v = v, !.held = holder = v]]
  /\ UNCHANGED <<issued, minted, giving, holder, leaseCall>>

-----------------------------------------------------------------------------
(* The bridge. *)

\* _apply of the lease as it is now: the connection remembers having held it,
\* forgets it when the agent holds it, and is closed when another person does.
SeeLease(s) ==
  LET k == sock[s] IN
  /\ k.pc = "open"
  /\ sock' = [sock EXCEPT ![s] =
       IF holder \notin {Agent, k.v} /\ k.held THEN [k EXCEPT !.pc = "closed"]
       ELSE [k EXCEPT !.held = IF holder = Agent THEN FALSE ELSE @ \/ holder = k.v]]
  /\ UNCHANGED <<issued, minted, count, giving, holder, leaseCall>>

\* The peer closes, cleanly or not, the link drops, or the desktop is gone.
SocketEnds(s) ==
  /\ sock[s].pc = "open"
  /\ \E clean \in BOOLEAN :
       sock' = [sock EXCEPT ![s].pc = "closed", ![s].clean = clean]
  /\ UNCHANGED <<issued, minted, count, giving, holder, leaseCall>>

\* release_socket: the last socket, cleanly closed, begins the hand-back.
ReleaseSocket(s) ==
  LET k == sock[s]
      last == k.clean /\ count[k.v] = 1
  IN
  /\ k.pc = "closed"
  /\ count' = [count EXCEPT ![k.v] = @ - 1]
  /\ giving' = [giving EXCEPT ![k.v] = @ \/ last]
  /\ sock' = [sock EXCEPT ![s] = IF last THEN [@ EXCEPT !.pc = "handing"] ELSE SockOver]
  /\ UNCHANGED <<issued, minted, holder, leaseCall>>

\* _hand_back: viewer_may_send_input and release_lease in a thread each.
HandCheck(s) ==
  /\ sock[s].pc = "handing"
  /\ sock' = [sock EXCEPT ![s].pc = IF holder = sock[s].v THEN "release" ELSE "finish"]
  /\ UNCHANGED <<issued, minted, count, giving, holder, leaseCall>>

\* The lease store releases only the named viewer's lease.
Released(v) == holder' = IF holder = v THEN Agent ELSE holder

HandRelease(s) ==
  /\ sock[s].pc = "release" /\ Released(sock[s].v)
  /\ sock' = [sock EXCEPT ![s].pc = "finish"]
  /\ UNCHANGED <<issued, minted, count, giving, leaseCall>>

FinishRelease(s) ==
  /\ sock[s].pc = "finish" /\ sock' = [sock EXCEPT ![s] = SockOver]
  /\ giving' = [giving EXCEPT ![sock[s].v] = FALSE]
  /\ UNCHANGED <<issued, minted, count, holder, leaseCall>>

-----------------------------------------------------------------------------
(* The lease routes. *)

\* _lease_route: the id is checked, then the lease call runs in a thread.
LeaseRequest(op, v) ==
  /\ leaseCall = Idle /\ v \in issued /\ leaseCall' = <<op, v>>
  /\ UNCHANGED <<issued, minted, count, giving, holder, sock>>

\* A takeover needs a running desktop; a forced release frees whoever holds it.
LeaseCall ==
  /\ leaseCall # Idle /\ leaseCall' = Idle
  /\ CASE leaseCall[1] = "acquire" -> holder' \in {holder, leaseCall[2]}
       [] leaseCall[1] = "release" -> Released(leaseCall[2])
       [] leaseCall[1] = "force" -> holder' = Agent
  /\ UNCHANGED <<issued, minted, count, giving, sock>>

ViewerNext ==
  \/ \E v \in Viewers : Mint(v) \/ PruneViewer(v)
  \/ \E s \in Sockets, v \in Viewers : ClaimSocket(s, v)
  \/ \E s \in Sockets : \/ SeeLease(s) \/ SocketEnds(s) \/ ReleaseSocket(s)
                        \/ HandCheck(s) \/ HandRelease(s) \/ FinishRelease(s)
  \/ \E op \in {"acquire", "release", "force"}, v \in Viewers : LeaseRequest(op, v)
  \/ LeaseCall

ViewerSpec == ViewerInit /\ [][ViewerNext]_viewerVars

-----------------------------------------------------------------------------
(* Properties. *)

Attached(v) == {s \in Sockets : sock[s].v = v /\ sock[s].pc \in {"open", "closed"}}

\* An attached viewer stays registered and its sockets are counted exactly (the
\* "bookkeeping bug" of release_socket cannot happen), and while a clean close
\* hands control back the same viewer has no socket that would lose it.
HandBackApart ==
  /\ ViewerTypeOK
  /\ \A v \in Viewers :
       /\ count[v] = Cardinality(Attached(v))
       /\ count[v] > 0 => v \in issued
  /\ \A s \in Sockets : sock[s].pc \in {"handing", "release"} => Attached(sock[s].v) = {}
=============================================================================
