----------------------------- MODULE MtprotoPool -----------------------------
(***************************************************************************)
(* The pool of per-user MTProto secrets: services/mtproto_allocator.py     *)
(* under routers/mtproto.py issue and the admin's rotate, revoke and       *)
(* bootstrap.  The store is the one of module Store: committed rows, row   *)
(* locks, READ COMMITTED statements, one step per statement that waits.    *)
(* A secret is named by its port and by how many that port had before.     *)
(***************************************************************************)
EXTENDS Naturals

CONSTANTS
  Users,       \* telegram users; their rows in the users table exist
  Ports,       \* ports of the mtg containers
  MaxPerPort,  \* bound: secrets a port ever gets
  Sessions,    \* database sessions
  None

VARIABLES
  live,        \* users with an ACTIVE or TRIAL subscription
  slot,        \* mtproto_secrets with scope = 'user'
  lock,        \* session holding FOR UPDATE on a row, or None
  tx,          \* the open transaction of a session
  handed       \* history: the secrets issue has answered with, and to whom

vars == <<live, slot, lock, tx, handed>>

Slots == Ports \X (1 .. MaxPerPort)

ASSUME PoolAssumption ==
  /\ Ports \subseteq Nat /\ MaxPerPort \in Nat
  /\ None \notin Users \cup Sessions \cup Slots

SlotRow == [status : {"NONE", "FREE", "ACTIVE", "REVOKED"}, user : Users \cup {None}]

Tx == [op   : {"idle", "issue", "rotate", "revoke", "bootstrap"},
       pc   : {"idle", "find", "lock", "claim", "flush", "commit"},
       user : Users \cup {None},
       seen : SUBSET Slots,          \* row found by the pending FOR UPDATE
       old  : Slots \cup {None},     \* row to be REVOKED
       new  : Slots \cup {None},     \* row to be ACTIVE
       want : SUBSET Ports]          \* ports to insert a FREE row for

IdleTx == [op |-> "idle", pc |-> "idle", user |-> None, seen |-> {}, old |-> None,
           new |-> None, want |-> {}]

\* A secret belongs to a user from its claim on, also once it is revoked.
PoolTypeOK ==
  /\ live \subseteq Users
  /\ slot \in [Slots -> SlotRow]
  /\ \A s \in Slots : slot[s].user = None <=> slot[s].status \in {"NONE", "FREE"}
  /\ lock \in [Slots -> Sessions \cup {None}]
  /\ tx \in [Sessions -> Tx]
  /\ handed \subseteq [user : Users, secret : Slots]

Init ==
  /\ live \in SUBSET Users
  /\ slot = [s \in Slots |-> [status |-> "NONE", user |-> None]]
  /\ lock = [s \in Slots |-> None]
  /\ tx = [p \in Sessions |-> IdleTx]
  /\ handed = {}

-----------------------------------------------------------------------------
(* Sessions, locks and the two partial unique indexes.                     *)

Idle(p)    == tx[p].op = "idle"
Free(p, s) == lock[s] \in {None, p}
Take(p, S) == lock' = [s \in Slots |-> IF s \in S THEN p ELSE lock[s]]

End(p) ==
  /\ lock' = [s \in Slots |-> IF lock[s] = p THEN None ELSE lock[s]]
  /\ tx' = [tx EXCEPT ![p] = IdleTx]

Active(u) == {s \in Slots : slot[s].status = "ACTIVE" /\ slot[s].user = u}

\* The rows that make a port taken in ux_mtproto_port_live.
Serving(port) == {s \in Slots : s[1] = port /\ slot[s].status \in {"FREE", "ACTIVE"}}

\* p has flushed its writes, which others see only after its commit.
Flushed(p) == tx[p].pc = "commit"

\* Uncommitted entries of u in ux_mtproto_user_active: added by a claim, or
\* removed by a revocation flushed before the claim.
UserIndexHolders(p, u) ==
  {q \in Sessions \ {p} :
     tx[q].user = u /\ \/ Flushed(q) /\ tx[q].new # None
                       \/ tx[q].pc \in {"claim", "flush", "commit"} /\ tx[q].old # None}

\* Uncommitted FREE rows on the ports of P.
PortIndexHolders(p, P) ==
  {q \in Sessions \ {p} : Flushed(q) /\ tx[q].want \cap P # {}}

-----------------------------------------------------------------------------
(* _claim_free_slot                                                        *)

\* Mutant: no SKIP LOCKED, the statement waits for the lowest port.
LockedToo == {s \in Slots : slot[s].status = "FREE"}

\* FOR UPDATE SKIP LOCKED passes over the rows other sessions are claiming.
Claimable == {s \in Slots : slot[s].status = "FREE" /\ lock[s] = None}

\* ORDER BY port LIMIT 1
Lowest(S) == {s \in S : \A z \in S : s[1] <= z[1]}

\* Mutant: the SELECT lost its FOR UPDATE.
ClaimUnlocked(p) ==
  /\ tx[p].pc = "claim"
  /\ \E s \in Lowest(LockedToo) : tx' = [tx EXCEPT ![p].pc = "flush", ![p].new = s]
  /\ UNCHANGED <<live, slot, lock, handed>>

Claim(p) ==
  /\ tx[p].pc = "claim"
  /\ \E s \in Lowest(Claimable) :
       /\ Free(p, s)
       /\ Take(p, {s})
       /\ tx' = [tx EXCEPT ![p].pc = "flush", ![p].new = s]
  /\ UNCHANGED <<live, slot, handed>>

\* Mutant: POOL_FULL is returned, not raised, so the block commits.
PoolFullCommits(p) ==
  /\ tx[p].pc = "claim"
  /\ Claimable = {}
  /\ slot' = [s \in Slots |-> IF s = tx[p].old THEN [slot[s] EXCEPT !.status = "REVOKED"]
                              ELSE slot[s]]
  /\ End(p)
  /\ UNCHANGED <<live, handed>>

\* 503 POOL_FULL, raised inside the transaction.
PoolFull(p) ==
  /\ tx[p].pc = "claim"
  /\ Claimable = {}
  /\ End(p)
  /\ UNCHANGED <<live, slot, handed>>

\* Mutant: ux_mtproto_user_active was never created.
NoUserIndex(p) == FALSE

\* The user has another ACTIVE row: a duplicate key (Rollback).
UserTaken(p) == Active(tx[p].user) \ {tx[p].old} # {}

\* The claimed row's UPDATE is flushed: it enters the unique index.
Flush(p) ==
  /\ tx[p].op \in {"issue", "rotate"} /\ tx[p].pc = "flush"
  /\ UserIndexHolders(p, tx[p].user) = {}
  /\ ~UserTaken(p)
  /\ tx' = [tx EXCEPT ![p].pc = "commit"]
  /\ UNCHANGED <<live, slot, lock, handed>>

\* Mutant: a revocation returns the row to the pool.
WrittenFreed(p) ==
  [s \in Slots |->
     IF s = tx[p].new THEN [status |-> "ACTIVE", user |-> tx[p].user]
     ELSE IF s = tx[p].old THEN [slot[s] EXCEPT !.status = "FREE"]
     ELSE slot[s]]

\* What the commit leaves of the rows.
Written(p) ==
  [s \in Slots |->
     IF s = tx[p].new THEN [status |-> "ACTIVE", user |-> tx[p].user]
     ELSE IF s = tx[p].old THEN [slot[s] EXCEPT !.status = "REVOKED"]
     ELSE slot[s]]

-----------------------------------------------------------------------------
(* POST /internal/mtproto/issue, scope = 'user'                            *)

\* The subscription is checked first, without a lock.
IssueBegin(p, u) ==
  /\ Idle(p)
  /\ u \in live
  /\ tx' = [tx EXCEPT ![p] = [IdleTx EXCEPT !.op = "issue", !.pc = "find", !.user = u]]
  /\ UNCHANGED <<live, slot, lock, handed>>

\* An ACTIVE secret, read without a lock, is handed out again.
IssueFound(p) ==
  /\ tx[p].pc = "find"
  /\ \E s \in Active(tx[p].user) :
       handed' = handed \cup {[user |-> tx[p].user, secret |-> s]}
  /\ End(p)
  /\ UNCHANGED <<live, slot>>

IssueMissing(p) ==
  /\ tx[p].pc = "find"
  /\ Active(tx[p].user) = {}
  /\ tx' = [tx EXCEPT ![p].pc = "claim"]
  /\ UNCHANGED <<live, slot, lock, handed>>

\* Commit, then answer with the claimed secret.
IssueCommit(p) ==
  /\ tx[p].op = "issue" /\ tx[p].pc = "commit"
  /\ slot' = Written(p)
  /\ handed' = handed \cup {[user |-> tx[p].user, secret |-> tx[p].new]}
  /\ End(p)
  /\ UNCHANGED live

-----------------------------------------------------------------------------
(* POST /admin/mtproto/users/{uid}/rotate and /revoke                      *)

\* SELECT of the user's ACTIVE row FOR UPDATE takes its snapshot.
AdminBegin(p, u, op) ==
  /\ Idle(p)
  /\ tx' = [tx EXCEPT ![p] = [IdleTx EXCEPT !.op = op, !.pc = "lock", !.user = u,
                                !.seen = Active(u)]]
  /\ UNCHANGED <<live, slot, lock, handed>>

\* The row found, if it is still the user's ACTIVE one once it is locked.
Current(p) == tx[p].seen \cap Active(tx[p].user)

\* rotate_user_secret: REVOKE what there is, flush, go on to claim.
RotateLock(p) ==
  /\ tx[p].op = "rotate" /\ tx[p].pc = "lock"
  /\ \A s \in tx[p].seen : Free(p, s)
  /\ Take(p, tx[p].seen)
  /\ \E o \in (IF Current(p) = {} THEN {None} ELSE Current(p)) :
       tx' = [tx EXCEPT ![p].pc = "claim", ![p].old = o]
  /\ UNCHANGED <<live, slot, handed>>

RotateCommit(p) ==
  /\ tx[p].op = "rotate" /\ tx[p].pc = "commit"
  /\ slot' = Written(p)
  /\ End(p)
  /\ UNCHANGED <<live, handed>>

\* revoke_user_secret; with nothing to revoke it is a 404 (Rollback).
RevokeLock(p) ==
  /\ tx[p].op = "revoke" /\ tx[p].pc = "lock"
  /\ \A s \in tx[p].seen : Free(p, s)
  /\ Take(p, tx[p].seen)
  /\ \E o \in Current(p) : tx' = [tx EXCEPT ![p].pc = "commit", ![p].old = o]
  /\ UNCHANGED <<live, slot, handed>>

RevokeCommit(p) ==
  /\ tx[p].op = "revoke" /\ tx[p].pc = "commit"
  /\ slot' = Written(p)
  /\ End(p)
  /\ UNCHANGED <<live, handed>>

-----------------------------------------------------------------------------
(* POST /admin/mtproto/pool/bootstrap                                      *)

\* The wanted ports that have no row yet, of whatever status.
BootstrapBegin(p, P) ==
  /\ Idle(p)
  /\ tx' = [tx EXCEPT ![p] = [IdleTx EXCEPT !.op = "bootstrap", !.pc = "flush",
                 !.want = {port \in P : \A s \in Slots : s[1] = port => slot[s].status = "NONE"}]]
  /\ UNCHANGED <<live, slot, lock, handed>>

\* Mutant: ux_mtproto_port_live was never created.
NoPortIndex(p) == FALSE

\* A live row on one of the ports: a duplicate key (Rollback).
PortTaken(p) == \E port \in tx[p].want : Serving(port) # {}

\* The INSERTs are flushed: they wait for those of another bootstrap.
BootstrapFlush(p) ==
  /\ tx[p].op = "bootstrap" /\ tx[p].pc = "flush"
  /\ PortIndexHolders(p, tx[p].want) = {}
  /\ ~PortTaken(p)
  /\ tx' = [tx EXCEPT ![p].pc = "commit"]
  /\ UNCHANGED <<live, slot, lock, handed>>

\* The name of the next secret on a port.
NextOn(port) ==
  {s \in Slots : /\ s[1] = port
                 /\ slot[s].status = "NONE"
                 /\ \A n \in 1 .. s[2] - 1 : slot[<<port, n>>].status # "NONE"}

BootstrapCommit(p) ==
  /\ tx[p].op = "bootstrap" /\ tx[p].pc = "commit"
  /\ \A port \in tx[p].want : NextOn(port) # {}
  /\ slot' = [s \in Slots |-> IF \E port \in tx[p].want : s \in NextOn(port)
                              THEN [status |-> "FREE", user |-> None] ELSE slot[s]]
  /\ End(p)
  /\ UNCHANGED <<live, handed>>

-----------------------------------------------------------------------------

\* An exception, a duplicate key, a lost connection or a crash.
Rollback(p) ==
  /\ ~Idle(p)
  /\ End(p)
  /\ UNCHANGED <<live, slot, handed>>

\* Module Entitlements starts and ends subscriptions at any time.
SubscriptionChanges(u) ==
  /\ live' = (live \ {u}) \cup ({u} \ live)
  /\ UNCHANGED <<slot, lock, tx, handed>>

Next ==
  \/ \E p \in Sessions :
       \/ \E u \in Users : IssueBegin(p, u)
       \/ IssueFound(p) \/ IssueMissing(p) \/ IssueCommit(p)
       \/ Claim(p) \/ PoolFull(p) \/ Flush(p)
       \/ \E u \in Users : AdminBegin(p, u, "rotate") \/ AdminBegin(p, u, "revoke")
       \/ RotateLock(p) \/ RotateCommit(p) \/ RevokeLock(p) \/ RevokeCommit(p)
       \/ \E P \in SUBSET Ports : BootstrapBegin(p, P)
       \/ BootstrapFlush(p) \/ BootstrapCommit(p)
       \/ Rollback(p)
  \/ \E u \in Users : SubscriptionChanges(u)

Spec == Init /\ [][Next]_vars

-----------------------------------------------------------------------------
(* Properties                                                              *)

\* A user has at most one ACTIVE secret, although issue looks for it without a
\* lock and an admin rotates at the same time.
OneSecretPerUser == \A u \in Users : \A s, z \in Active(u) : s = z

\* mtg serves one secret per port: concurrent bootstraps never put two live
\* rows on one.
PortServedOnce == \A port \in Ports : \A s, z \in Serving(port) : s = z

\* A secret is never handed to two users, however many claim the lowest port
\* at once; revoking one user's secret therefore cuts off nobody else.
PrivateSecrets == \A a, b \in handed : a.secret = b.secret => a.user = b.user

\* Rotation never leaves a user without a secret: only a revocation does, also
\* when the pool turns out to be empty after the old secret was flushed.
RotationKeepsAccess ==
  [][\A u \in Users : Active(u) # {} /\ Active(u)' = {} =>
       \E p \in Sessions : tx[p].op = "revoke" /\ tx[p].user = u /\ tx[p].pc = "commit"]_vars

\* The sessions that the next statement of p waits for.
WaitsFor(p) ==
  CASE tx[p].pc = "lock"  -> {lock[s] : s \in tx[p].seen} \ {p, None}
    [] tx[p].pc = "claim" -> {lock[s] : s \in Lowest(Claimable)} \ {p, None}
    [] tx[p].pc = "flush" -> IF tx[p].op = "bootstrap" THEN PortIndexHolders(p, tx[p].want)
                             ELSE UserIndexHolders(p, tx[p].user)
    [] OTHER              -> {}

\* The handlers of the pool never wait for each other in a cycle.  SKIP LOCKED
\* is what makes it so: an issue may wait for a rotation that claims a slot.
NoWaitCycle ==
  ~ \E C \in SUBSET Sessions : C # {} /\ \A p \in C : WaitsFor(p) \cap C # {}

-----------------------------------------------------------------------------
(* The inductive invariant                                                 *)

\* The fields that a transaction t sets together.
Shaped(t) ==
  /\ t.op = "idle" => t = IdleTx
  /\ t.op = "issue" => t.pc \in {"find", "claim", "flush", "commit"} /\ t.old = None
  /\ t.op = "rotate" => t.pc \in {"lock", "claim", "flush", "commit"}
  /\ t.op = "revoke" => t.pc \in {"lock", "commit"} /\ t.new = None
  /\ t.op = "bootstrap" => t.pc \in {"flush", "commit"} /\ t.old = None /\ t.new = None
  /\ t.op \in {"issue", "rotate", "revoke"} => t.user \in Users
  /\ t.op \in {"issue", "rotate"} => (t.new # None <=> t.pc \in {"flush", "commit"})
  /\ t.op = "revoke" /\ t.pc = "commit" => t.old # None
  /\ t.pc \in {"find", "lock"} => t.old = None
  /\ t.want # {} => t.op = "bootstrap"

\* A session holds locks from its claim on only, and the rows it will write.
HoldsRows(p) ==
  /\ \A s \in Slots : lock[s] = p => tx[p].pc \in {"claim", "flush", "commit"}
  /\ tx[p].old # None => lock[tx[p].old] = p /\ tx[p].old \in Active(tx[p].user)
  /\ tx[p].new # None => lock[tx[p].new] = p /\ slot[tx[p].new].status = "FREE"

\* A flushed claim is the only one for its user, who has no other secret.
ClaimsAlone(p) ==
  Flushed(p) /\ tx[p].new # None =>
    /\ Active(tx[p].user) \subseteq {tx[p].old}
    /\ \A q \in Sessions \ {p} :
         Flushed(q) /\ tx[q].new # None => tx[q].user # tx[p].user

\* Flushed FREE rows are the only ones on their ports, which serve nothing yet.
InsertsAlone(p) ==
  Flushed(p) =>
    /\ \A port \in tx[p].want : Serving(port) = {}
    /\ \A q \in Sessions \ {p} : Flushed(q) => tx[q].want \cap tx[p].want = {}

\* A secret that was handed out stays with the user who got it.
HandedOver == \A h \in handed : slot[h.secret].user = h.user

PoolInv ==
  /\ PoolTypeOK
  /\ \A p \in Sessions : Shaped(tx[p]) /\ HoldsRows(p) /\ ClaimsAlone(p) /\ InsertsAlone(p)
  /\ HandedOver
  /\ OneSecretPerUser /\ PortServedOnce

=============================================================================
