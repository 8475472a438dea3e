------------------------------ MODULE UserToken ------------------------------
(***************************************************************************)
(* One person's Feishu user token (feishu_uat_auth.py,                     *)
(* credential_renewal_common.py, credential_renewal_worker.py, the route   *)
(* writers of routing.py).                                                 *)
(*                                                                         *)
(* The token lives in a profile's vault row and in a mirror file of the    *)
(* profile.  A device-flow session stores a new one, a refresh trades its  *)
(* single-use refresh token for the next, and the renewal worker leaves a  *)
(* needs_reauth marker when Feishu rejects the refresh token.  All of them *)
(* run in several processes and exclude one another by a lock of profile   *)
(* and person, which the writers of the person's route take as well.  A    *)
(* process may die at any step.                                            *)
(***************************************************************************)
EXTENDS Naturals, FiniteSets

CONSTANTS Vaults,     \* profiles
          Rows,       \* routing rows (user_ids) of the person
          Refreshes,  \* runs of the refresh, by the worker or directly
          Devices,    \* device-flow sessions
          Writer,     \* the route writer
          Unset,      \* no profile, and a lock nobody holds
          MaxTokens   \* bound: tokens Feishu issues

ASSUME TokenAssumption ==
  /\ MaxTokens \in Nat /\ Vaults # {} /\ Rows # {} /\ Refreshes \cap Devices = {}
  /\ Unset \notin Vaults \cup Refreshes \cup Devices
  /\ Writer \notin Refreshes \cup Devices \cup {Unset}

VARIABLES routed,   \* a row's profile, Unset when inactive
          idlock,   \* holder of a profile's identity lock
          valid,    \* refresh tokens Feishu accepts
          issued,   \* tokens issued so far, numbered in order of granted_at
          vault,    \* token in a profile's vault row, 0 for none
          mirror,   \* token in the profile's feishu_uat/<open_id>.json
          mark,     \* authoritative needs_reauth marker: standing, standing for a copy a
                    \* refresh took because the newer one could not be read, or outdated
          missed,   \* the profile's newest token was lost, revoked, or put over by a spent one
          refresh,  \* a refresh
          device,   \* a session
          revoke,   \* a revocation by the person
          writer    \* the route writer

tokenVars == <<routed, idlock, valid, issued, vault, mirror, mark, missed, refresh, device, revoke,
               writer>>

Tokens == 1..MaxTokens
AnyVault == CHOOSE p \in Vaults : TRUE
\* newest: the newer of the two copies when one of them was loaded.
NoRefresh == [pc |-> "none", p |-> AnyVault, worker |-> FALSE, token |-> 0, newest |-> 0]
\* stored: the session's token, if the vault has taken it and the mirror has failed to.
NoDevice == [pc |-> "none", p |-> AnyVault, status |-> "pending", token |-> 0, stored |-> 0]
NoWrite == [pc |-> "none", row |-> CHOOSE i \in Rows : TRUE, from |-> Unset, to |-> Unset]

RefreshPcs == {"none", "wait", "locked", "exchange", "rejected", "failed", "vault", "mirror",
               "clear", "done"}
DevicePcs == {"none", "idle", "exchange", "lock", "vault", "mirror", "clear", "gone"}
Statuses == {"pending", "success", "error", "expired"}
Marks == {"none", "standing", "misread", "outdated"}
RefreshSet == [pc : RefreshPcs, p : Vaults, worker : BOOLEAN, token : 0..MaxTokens,
               newest : 0..MaxTokens]
DeviceSet == [pc : DevicePcs, p : Vaults, status : Statuses, token : 0..MaxTokens,
              stored : 0..MaxTokens]
WriterSet == [pc : {"none", "locking", "locked"}, row : Rows,
              from : Vaults \cup {Unset}, to : Vaults \cup {Unset}]

TokenTypeOK ==
  /\ routed \in [Rows -> Vaults \cup {Unset}]
  /\ idlock \in [Vaults -> Refreshes \cup Devices \cup {Writer, Unset}]
  /\ valid \subseteq Tokens /\ issued \in 0..MaxTokens
  /\ vault \in [Vaults -> 0..MaxTokens] /\ mirror \in [Vaults -> 0..MaxTokens]
  /\ mark \in [Vaults -> Marks] /\ missed \in [Vaults -> BOOLEAN]
  /\ refresh \in [Refreshes -> RefreshSet] /\ device \in [Devices -> DeviceSet]
  /\ revoke \in [pc : {"none", "vault", "mirror", "done"}, p : Vaults]
  /\ writer \in WriterSet

TokenInit ==
  /\ routed = [i \in Rows |-> IF i = NoWrite.row THEN AnyVault ELSE Unset]
  /\ idlock = [p \in Vaults |-> Unset] /\ valid = {} /\ issued = 0
  /\ vault = [p \in Vaults |-> 0] /\ mirror = [p \in Vaults |-> 0]
  /\ mark = [p \in Vaults |-> "none"] /\ missed = [p \in Vaults |-> FALSE]
  /\ refresh = [r \in Refreshes |-> NoRefresh] /\ device = [s \in Devices |-> NoDevice]
  /\ revoke = [pc |-> "none", p |-> AnyVault] /\ writer = NoWrite

-----------------------------------------------------------------------------
(* What all of them use. *)

\* _profile_name_for_open_id: exactly one active row names the profile.
RoutedTo(p) == \E i \in Rows : routed[i] = p /\ \A j \in Rows \ {i} : routed[j] = Unset

\* _load_best_uat_payload: the later of the two copies.
Best(p) == IF vault[p] >= mirror[p] THEN vault[p] ELSE mirror[p]

Hold(p, x) == idlock[p] = Unset /\ idlock' = [idlock EXCEPT ![p] = x]
Drop(p) == idlock' = [idlock EXCEPT ![p] = Unset]

\* The vault row is committed if the route is still this profile's.
PutVault(p, t) == vault' = [vault EXCEPT ![p] = t]

\* A token written after the marker outdates it.
Outdate(p) == mark' = [mark EXCEPT ![p] = IF @ = "none" THEN "none" ELSE "outdated"]

RefreshTo(r, pc) ==
  refresh' = [refresh EXCEPT ![r] = [(IF pc = "done" THEN NoRefresh ELSE @) EXCEPT !.pc = pc]]
DeviceTo(s, pc) ==
  device' = [device EXCEPT ![s] = [(IF pc = "gone" THEN NoDevice ELSE @) EXCEPT !.pc = pc]]

-----------------------------------------------------------------------------
(* The refresh. *)

\* The worker takes active routes from the table; a direct caller asserts its own.
RefreshBegin(r, p, worker) ==
  /\ refresh[r].pc = "none" /\ RoutedTo(p)
  /\ refresh' = [refresh EXCEPT ![r] = [NoRefresh EXCEPT !.pc = "wait", !.p = p, !.worker = worker]]
  /\ UNCHANGED <<routed, idlock, valid, issued, vault, mirror, mark, missed, device, revoke, writer>>

RefreshLock(r) ==
  /\ refresh[r].pc = "wait" /\ Hold(refresh[r].p, r) /\ RefreshTo(r, "locked")
  /\ UNCHANGED <<routed, valid, issued, vault, mirror, mark, missed, device, revoke, writer>>

Take(r, t) == refresh' = [refresh EXCEPT ![r].pc = "exchange", ![r].token = t,
                                         ![r].newest = Best(refresh[r].p)]

\* Mutant: the payload is loaded and its token used without the lock.
LoadUnlocked(r) ==
  LET p == refresh[r].p IN
  /\ refresh[r].pc \in {"wait", "locked"} /\ RoutedTo(p) /\ Best(p) # 0
  /\ Take(r, Best(p))
  /\ UNCHANGED <<routed, idlock, valid, issued, vault, mirror, mark, missed, device, revoke, writer>>

\* Under the lock the route is asserted again and the payload loaded; the worker
\* leaves a person alone whose marker stands.  A read that fails counts as no
\* copy, so that the other is taken even if it is the older.  A token that is not
\* near expiry is not refreshed.
RefreshLoad(r) ==
  LET p == refresh[r].p IN
  /\ refresh[r].pc = "locked"
  /\ \/ /\ RoutedTo(p) /\ ~(refresh[r].worker /\ mark[p] # "none")
        /\ \E t \in {vault[p], mirror[p]} \ {0} : Take(r, t)
        /\ UNCHANGED idlock
     \/ RefreshTo(r, "done") /\ Drop(p)
  /\ UNCHANGED <<routed, valid, issued, vault, mirror, mark, missed, device, revoke, writer>>

\* Feishu takes a valid refresh token once and answers with the next; the
\* answer may be lost, and a transient error may come instead.
Exchange(r) ==
  LET p == refresh[r].p
      t == refresh[r].token
  IN
  /\ refresh[r].pc = "exchange"
  /\ \/ /\ t \in valid /\ issued < MaxTokens /\ issued' = issued + 1
        /\ valid' = (valid \ {t}) \cup {issued'}
        /\ \/ refresh' = [refresh EXCEPT ![r].pc = "vault", ![r].token = issued']
              /\ UNCHANGED missed
           \/ RefreshTo(r, "failed") /\ missed' = [missed EXCEPT ![p] = TRUE]
     \/ t \notin valid /\ RefreshTo(r, "rejected") /\ UNCHANGED <<valid, issued, missed>>
     \/ RefreshTo(r, "failed") /\ UNCHANGED <<valid, issued, missed>>
  /\ UNCHANGED <<routed, idlock, vault, mirror, mark, device, revoke, writer>>

\* _record_failure, still under the lock: the worker marks an authoritative
\* rejection, of whichever copy was loaded; any other failure leaves a diagnostic
\* nobody acts on.
RecordFailure(r) ==
  LET p == refresh[r].p IN
  /\ refresh[r].pc \in {"rejected", "failed"}
  /\ mark' = IF refresh[r].worker /\ refresh[r].pc = "rejected"
             THEN [mark EXCEPT ![p] = IF refresh[r].token = refresh[r].newest THEN "standing"
                                      ELSE "misread"]
             ELSE mark
  /\ RefreshTo(r, "done") /\ Drop(p)
  /\ UNCHANGED <<routed, valid, issued, vault, mirror, missed, device, revoke, writer>>

\* _store_uat: the vault row, the mirror file, then the markers, one after the
\* other under the same lock; a write that fails ends the refresh.
StoreVault(r) ==
  LET p == refresh[r].p IN
  /\ refresh[r].pc = "vault"
  /\ \/ /\ RoutedTo(p) /\ PutVault(p, refresh[r].token) /\ Outdate(p)
        /\ RefreshTo(r, "mirror") /\ UNCHANGED missed
     \/ RefreshTo(r, "failed") /\ missed' = [missed EXCEPT ![p] = TRUE] /\ UNCHANGED <<vault, mark>>
  /\ UNCHANGED <<routed, idlock, valid, issued, mirror, device, revoke, writer>>

StoreMirror(r) ==
  LET p == refresh[r].p IN
  /\ refresh[r].pc = "mirror"
  /\ \/ mirror' = [mirror EXCEPT ![p] = refresh[r].token] /\ Outdate(p) /\ RefreshTo(r, "clear")
     \/ RefreshTo(r, "failed") /\ UNCHANGED <<mirror, mark>>
  /\ UNCHANGED <<routed, idlock, valid, issued, vault, missed, device, revoke, writer>>

\* A marker that cannot be removed is an error, and stays.
StoreClear(r) ==
  LET p == refresh[r].p IN
  /\ refresh[r].pc = "clear" /\ RefreshTo(r, "done") /\ Drop(p)
  /\ mark' \in {mark, [mark EXCEPT ![p] = "none"]}
  /\ UNCHANGED <<routed, valid, issued, vault, mirror, missed, device, revoke, writer>>

-----------------------------------------------------------------------------
(* The device flow. *)

DeviceStart(s, p) ==
  /\ device[s].pc = "none" /\ RoutedTo(p)
  /\ device' = [device EXCEPT ![s] = [NoDevice EXCEPT !.pc = "idle", !.p = p]]
  /\ UNCHANGED <<routed, idlock, valid, issued, vault, mirror, mark, missed, refresh, revoke, writer>>

\* The session's result under its poll lock; an ended session forgets its token.
Ended(s, status) == device' = [device EXCEPT ![s].pc = "idle", ![s].status = status,
                                             ![s].token = 0, ![s].stored = 0]

\* poll_session: a session whose route is gone or whose time is over ends; one
\* that already holds a token goes on to store it.
PollBegin(s) ==
  LET p == device[s].p IN
  /\ device[s].pc = "idle" /\ device[s].status = "pending"
  /\ \/ RoutedTo(p) /\ DeviceTo(s, IF device[s].token = 0 THEN "exchange" ELSE "lock")
     \/ ~RoutedTo(p) /\ Ended(s, "error")
     \/ RoutedTo(p) /\ Ended(s, "expired")
  /\ UNCHANGED <<routed, idlock, valid, issued, vault, mirror, mark, missed, refresh, revoke, writer>>

\* The device code is exchanged once the person has consented.
PollExchange(s) ==
  /\ device[s].pc = "exchange"
  /\ \/ /\ issued < MaxTokens /\ issued' = issued + 1 /\ valid' = valid \cup {issued'}
        /\ \/ device' = [device EXCEPT ![s].pc = "lock", ![s].token = issued']
           \/ Ended(s, "error")
           \/ Ended(s, "expired")
     \/ DeviceTo(s, "idle") /\ UNCHANGED <<valid, issued>>
  /\ UNCHANGED <<routed, idlock, vault, mirror, mark, missed, refresh, revoke, writer>>

\* The store waits for the lock only briefly; a busy lock leaves the token
\* pending for the next poll.
PollLock(s) ==
  LET p == device[s].p IN
  /\ device[s].pc = "lock"
  /\ \/ Hold(p, s) /\ DeviceTo(s, "vault")
     \/ idlock[p] # Unset /\ DeviceTo(s, "idle") /\ UNCHANGED idlock
  /\ UNCHANGED <<routed, valid, issued, vault, mirror, mark, missed, refresh, revoke, writer>>

\* A token this session stored before and a refresh has spent since.
Stale(s) == device[s].stored # 0 /\ device[s].token \notin valid

\* A database that is locked leaves the token pending as well.
PollVault(s) ==
  LET p == device[s].p IN
  /\ device[s].pc = "vault"
  /\ \/ /\ RoutedTo(p) /\ PutVault(p, device[s].token) /\ Outdate(p) /\ DeviceTo(s, "mirror")
        /\ missed' = [missed EXCEPT ![p] = @ \/ Stale(s)] /\ UNCHANGED idlock
     \/ /\ Drop(p) /\ UNCHANGED <<vault, mark, missed>>
        /\ DeviceTo(s, "idle") \/ Ended(s, "error") \/ Ended(s, "expired")
  /\ UNCHANGED <<routed, valid, issued, mirror, refresh, revoke, writer>>

\* The mirror is written after the vault row was committed: an error of the file
\* system that may pass leaves the token pending, and the next poll stores it again
\* in both; another ends the session.
PollMirror(s) ==
  LET p == device[s].p IN
  /\ device[s].pc = "mirror"
  /\ \/ /\ mirror' = [mirror EXCEPT ![p] = device[s].token] /\ Outdate(p)
        /\ missed' = [missed EXCEPT ![p] = Stale(s)] /\ DeviceTo(s, "clear") /\ UNCHANGED idlock
     \/ /\ Drop(p) /\ UNCHANGED <<mirror, mark, missed>>
        /\ \/ device' = [device EXCEPT ![s].pc = "idle", ![s].stored = device[s].token]
           \/ Ended(s, "error")
           \/ Ended(s, "expired")
  /\ UNCHANGED <<routed, valid, issued, vault, refresh, revoke, writer>>

PollClear(s) ==
  LET p == device[s].p IN
  /\ device[s].pc = "clear" /\ Drop(p)
  /\ \/ mark' = [mark EXCEPT ![p] = "none"] /\ Ended(s, "success")
     \/ mark' = mark /\ Ended(s, "error")
  /\ UNCHANGED <<routed, valid, issued, vault, mirror, missed, refresh, revoke, writer>>

\* cancel_session waits for the poll lock.
DeviceCancel(s) ==
  /\ device[s].pc = "idle" /\ device[s].status # "error" /\ Ended(s, "error")
  /\ UNCHANGED <<routed, idlock, valid, issued, vault, mirror, mark, missed, refresh, revoke, writer>>

-----------------------------------------------------------------------------
(* Recovery of the marker, by a cron gate or the notifier, under the lock. *)

Recover(p) ==
  /\ idlock[p] = Unset /\ mark[p] = "outdated" /\ mark' = [mark EXCEPT ![p] = "none"]
  /\ UNCHANGED <<routed, idlock, valid, issued, vault, mirror, missed, refresh, device, revoke, writer>>

-----------------------------------------------------------------------------
(* Revocation by the person, which takes no lock. *)

RevokeBegin(p) ==
  /\ revoke.pc = "none" /\ RoutedTo(p) /\ revoke' = [pc |-> "vault", p |-> p]
  /\ UNCHANGED <<routed, idlock, valid, issued, vault, mirror, mark, missed, refresh, device, writer>>

\* The vault row, then the mirror file.
RevokeVault ==
  /\ revoke.pc = "vault" /\ revoke' = [revoke EXCEPT !.pc = "mirror"]
  /\ PutVault(revoke.p, 0) /\ missed' = [missed EXCEPT ![revoke.p] = TRUE]
  /\ UNCHANGED <<routed, idlock, valid, issued, mirror, mark, refresh, device, writer>>

RevokeMirror ==
  /\ revoke.pc = "mirror" /\ revoke' = [revoke EXCEPT !.pc = "done"]
  /\ mirror' = [mirror EXCEPT ![revoke.p] = 0]
  /\ UNCHANGED <<routed, idlock, valid, issued, vault, mark, missed, refresh, device, writer>>

-----------------------------------------------------------------------------
(* Route writers, one at a time by the identity guard of the routing table. *)

\* upsert and soft_delete read the row's identity before they lock.
WriterBegin(i, to) ==
  /\ writer.pc = "none" /\ to # routed[i]
  /\ writer' = [pc |-> "locking", row |-> i, from |-> routed[i], to |-> to]
  /\ UNCHANGED <<routed, idlock, valid, issued, vault, mirror, mark, missed, refresh, device, revoke>>

Identities == {writer.from, writer.to} \ {Unset}

\* Mutant: only the new identity is locked.
LockNewOnly ==
  /\ writer.pc = "locking"
  /\ \A p \in {writer.to} \ {Unset} : idlock[p] = Unset
  /\ idlock' = [p \in Vaults |-> IF p = writer.to THEN Writer ELSE idlock[p]]
  /\ writer' = [writer EXCEPT !.pc = "locked"]
  /\ UNCHANGED <<routed, valid, issued, vault, mirror, mark, missed, refresh, device, revoke>>

\* The locks of the old and of the new identity, taken in one step (they are
\* taken in order, and holding the first alone only delays others); a timeout
\* gives up.
WriterLock ==
  /\ writer.pc = "locking"
  /\ \/ /\ \A p \in Identities : idlock[p] = Unset
        /\ idlock' = [p \in Vaults |-> IF p \in Identities THEN Writer ELSE idlock[p]]
        /\ writer' = [writer EXCEPT !.pc = "locked"]
     \/ writer' = NoWrite /\ UNCHANGED idlock
  /\ UNCHANGED <<routed, valid, issued, vault, mirror, mark, missed, refresh, device, revoke>>

\* The open_id is unique among active rows: a second row is refused.
WriterCommit ==
  LET others == {j \in Rows \ {writer.row} : routed[j] # Unset} IN
  /\ writer.pc = "locked"
  /\ routed' = IF writer.to # Unset /\ others # {} THEN routed
               ELSE [routed EXCEPT ![writer.row] = writer.to]
  /\ idlock' = [p \in Vaults |-> IF idlock[p] = Writer THEN Unset ELSE idlock[p]]
  /\ writer' = NoWrite
  /\ UNCHANGED <<valid, issued, vault, mirror, mark, missed, refresh, device, revoke>>

-----------------------------------------------------------------------------
(* A process dies: its file locks are freed, its sessions are lost. *)

RefreshDies(r) ==
  LET p == refresh[r].p IN
  /\ refresh[r].pc \notin {"none", "done"} /\ RefreshTo(r, "done")
  /\ idlock' = [idlock EXCEPT ![p] = IF @ = r THEN Unset ELSE @]
  /\ missed' = [missed EXCEPT ![p] = @ \/ refresh[r].pc = "vault"]
  /\ UNCHANGED <<routed, valid, issued, vault, mirror, mark, device, revoke, writer>>

DeviceDies(s) ==
  LET p == device[s].p IN
  /\ device[s].pc \notin {"none", "gone"} /\ DeviceTo(s, "gone")
  /\ idlock' = [idlock EXCEPT ![p] = IF @ = s THEN Unset ELSE @]
  /\ UNCHANGED <<routed, valid, issued, vault, mirror, mark, missed, refresh, revoke, writer>>

TokenNext ==
  \/ \E r \in Refreshes, p \in Vaults, worker \in BOOLEAN : RefreshBegin(r, p, worker)
  \/ \E r \in Refreshes :
       \/ RefreshLock(r) \/ RefreshLoad(r) \/ Exchange(r) \/ RecordFailure(r)
       \/ StoreVault(r) \/ StoreMirror(r) \/ StoreClear(r) \/ RefreshDies(r)
  \/ \E s \in Devices, p \in Vaults : DeviceStart(s, p)
  \/ \E s \in Devices :
       \/ PollBegin(s) \/ PollExchange(s) \/ PollLock(s) \/ PollVault(s) \/ PollMirror(s)
       \/ PollClear(s) \/ DeviceCancel(s) \/ DeviceDies(s)
  \/ \E p \in Vaults : Recover(p) \/ RevokeBegin(p)
  \/ RevokeVault \/ RevokeMirror
  \/ \E i \in Rows, to \in Vaults \cup {Unset} : WriterBegin(i, to)
  \/ WriterLock \/ WriterCommit

TokenSpec == TokenInit /\ [][TokenNext]_tokenVars

-----------------------------------------------------------------------------
(* Properties. *)

Quiet(p) == idlock[p] = Unset

\* A device login that waited for the lock put its token over one granted later,
\* and its process died before the mirror.
Overtaken(p) == vault[p] \in valid /\ vault[p] < mirror[p]

\* The person's revocation, which takes no lock, has reached the vault row.
RevokedAt(p) == revoke.p = p /\ revoke.pc \in {"mirror", "done"}

\* Between stores, the copy a refresh would use is one Feishu still accepts: no two
\* refreshes spend the same refresh token, and no store puts a spent one back, whatever
\* fails or dies between its steps.  Excepted are a lost answer or failed commit of a
\* refresh, a revocation, an older login that overtook it, and the case the code leaves
\* open: a session whose mirror write failed stores its token a second time after a
\* refresh has spent it.  A standing marker tells the truth, or a later token outdates
\* it, unless the refresh was refused for the older copy because the newer was not read.
RefreshHonest ==
  /\ TokenTypeOK
  /\ \A p \in Vaults :
       /\ Quiet(p) /\ Best(p) # 0 /\ ~missed[p] => Best(p) \in valid \/ Overtaken(p)
       /\ mark[p] = "standing" /\ ~RevokedAt(p) => Best(p) \notin valid

\* A token enters a profile's vault or mirror only while the person's route
\* names that profile, also when the route is rewritten during the store.
TokenRouted ==
  [][\A p \in Vaults : vault'[p] \notin {0, vault[p]} \/ mirror'[p] \notin {0, mirror[p]}
                        => RoutedTo(p)]_tokenVars

\* Not kept by the code, and in no configuration (README, section 5): once a
\* revocation was answered, only a new authorization stores a token in
\* the profile again.
RevokedStays ==
  [][revoke.pc = "done" /\ vault'[revoke.p] \notin {0, vault[revoke.p]}
       => \E s \in Devices : device[s].pc = "vault"]_tokenVars
=============================================================================
