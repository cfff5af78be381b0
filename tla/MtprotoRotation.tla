--------------------------- MODULE MtprotoRotation ---------------------------
(***************************************************************************)
(* The shared MTProto secret: seeded at the API's startup, rotated by an   *)
(* admin (routers/admin/mtproto.py rotate) and by the rotator worker       *)
(* (workers/mtproto_rotator.py), announced on a Redis stream after the     *)
(* commit.  Nothing in the schema keeps the ACTIVE shared row unique.      *)
(***************************************************************************)
EXTENDS Naturals, Sequences

CONSTANTS
  Secrets,      \* ids of the shared rows
  Seed,         \* the secret configured for the startup seed, one of Secrets
  Requests,     \* database sessions of the API: admin requests and startups
  Rotator,      \* database session of the rotator worker
  None,
  RotationAge,  \* mtg_shared_rotation_days
  XaddTries,    \* bound: times the Redis client's retries can apply one XADD
  MaxStream,    \* bound: entries the stream ever gets
  Horizon       \* bound: the clock stops here

VARIABLES
  now,
  secret,       \* mtproto_secrets with scope = 'shared'
  lock,         \* session holding FOR UPDATE on a row, or None
  tx,           \* the open transaction of a session, or its event to announce
  stream,       \* Redis stream mtproto:rotated, oldest entry first
  replaced,     \* history: the row that the rotation to a secret revoked
  born          \* history: the secrets in the order of their commits

Sessions == Requests \cup {Rotator}

rotation == <<now, secret, lock, tx, stream, replaced, born>>

ASSUME RotationAssumption ==
  /\ Seed \in Secrets
  /\ {RotationAge, XaddTries, MaxStream, Horizon} \subseteq Nat
  /\ None \notin Secrets \cup Requests \cup {Rotator}
  /\ Rotator \notin Requests

SecretRow == [status : {"NONE", "ACTIVE", "REVOKED"}, made : Nat]

Tx == [op    : {"idle", "seed", "rotate", "auto"},
       pc    : {"idle", "insert", "select", "lock", "flush", "emit"},
       began : Nat,                      \* PostgreSQL's now() in this transaction
       seen  : SUBSET Secrets,           \* rows found by the pending FOR UPDATE
       old   : Secrets \cup {None},      \* the row to revoke
       new   : Secrets \cup {None}]      \* the row committed, to be announced

IdleTx == [op |-> "idle", pc |-> "idle", began |-> 0, seen |-> {}, old |-> None,
           new |-> None]

RotationTypeOK ==
  /\ now \in Nat
  /\ secret \in [Secrets -> SecretRow]
  /\ lock \in [Secrets -> Sessions \cup {None}]
  /\ tx \in [Sessions -> Tx]
  /\ replaced \in [Secrets -> Secrets \cup {None}]

RotationInit ==
  /\ now = 0
  /\ secret = [s \in Secrets |-> [status |-> "NONE", made |-> 0]]
  /\ lock = [s \in Secrets |-> None]
  /\ tx = [p \in Sessions |-> IdleTx]
  /\ stream = <<>>
  /\ replaced = [s \in Secrets |-> None]
  /\ born = <<>>

Active == {s \in Secrets : secret[s].status = "ACTIVE"}

Idle(p)    == tx[p].op = "idle"
Free(p, s) == lock[s] \in {None, p}
Unlock(p)  == lock' = [s \in Secrets |-> IF lock[s] = p THEN None ELSE lock[s]]

\* A new row; created_at defaults to the time its transaction began.
Row(at) == [status |-> "ACTIVE", made |-> at]

-----------------------------------------------------------------------------
(* seed_shared_secret, at every start of an API process                    *)

SeedBegin(p) ==
  /\ Idle(p)
  /\ Active = {}
  /\ tx' = [tx EXCEPT ![p] = [IdleTx EXCEPT !.op = "seed", !.pc = "insert", !.began = now]]
  /\ UNCHANGED <<now, secret, lock, stream, replaced, born>>

\* secret_hex is unique: the same seed twice is a duplicate key (Rollback).
SeedCommit(p) ==
  /\ tx[p].pc = "insert"
  /\ secret[Seed].status = "NONE"
  /\ secret' = [secret EXCEPT ![Seed] = Row(tx[p].began)]
  /\ born' = Append(born, Seed)
  /\ tx' = [tx EXCEPT ![p] = IdleTx]
  /\ UNCHANGED <<now, lock, stream, replaced>>

-----------------------------------------------------------------------------
(* rotate and _rotate_shared_in_tx                                         *)

\* SELECT of the ACTIVE shared row FOR UPDATE takes its snapshot.
RotateBegin(p) ==
  /\ Idle(p)
  /\ tx' = [tx EXCEPT ![p] = [IdleTx EXCEPT !.op = "rotate", !.pc = "lock",
                                !.began = now, !.seen = Active]]
  /\ UNCHANGED <<now, secret, lock, stream, replaced, born>>

\* run_once: a current secret, read without a lock, that is old enough.
AutoBegin(p) ==
  /\ Idle(p)
  /\ \E s \in Active : secret[s].made + RotationAge <= now
  /\ tx' = [tx EXCEPT ![p] = [IdleTx EXCEPT !.op = "auto", !.pc = "select", !.began = now]]
  /\ UNCHANGED <<now, secret, lock, stream, replaced, born>>

\* The rotator then selects again, FOR UPDATE.
AutoSelect(p) ==
  /\ tx[p].pc = "select"
  /\ tx' = [tx EXCEPT ![p].pc = "lock", ![p].seen = Active]
  /\ UNCHANGED <<now, secret, lock, stream, replaced, born>>

\* All rows found are locked; the first that is still ACTIVE will be revoked.
RotateLock(p) ==
  LET match == tx[p].seen \cap Active IN
  /\ tx[p].pc = "lock"
  /\ \A s \in tx[p].seen : Free(p, s)
  /\ lock' = [s \in Secrets |-> IF s \in tx[p].seen THEN p ELSE lock[s]]
  /\ \E o \in (IF match = {} THEN {None} ELSE match) :
       tx' = [tx EXCEPT ![p].pc = "flush", ![p].old = o]
  /\ UNCHANGED <<now, secret, stream, replaced, born>>

\* Revoke the old row, insert a fresh one, commit.
RotateCommit(p, s) ==
  /\ tx[p].pc = "flush"
  /\ secret[s].status = "NONE" /\ s # Seed
  /\ secret' = [z \in Secrets |->
       IF z = s THEN Row(tx[p].began)
       ELSE IF z = tx[p].old THEN [secret[z] EXCEPT !.status = "REVOKED"]
       ELSE secret[z]]
  /\ replaced' = [replaced EXCEPT ![s] = tx[p].old]
  /\ born' = Append(born, s)
  /\ Unlock(p)
  /\ tx' = [tx EXCEPT ![p] = [IdleTx EXCEPT !.op = tx[p].op, !.pc = "emit", !.new = s]]
  /\ UNCHANGED <<now, stream>>

\* Mutant: the event is announced inside the transaction, before the commit.
AnnouncedEarly(p) ==
  /\ tx[p].pc \in {"flush", "emit"}
  /\ \E s \in Secrets \ {Seed} :
       /\ s = tx[p].new \/ (tx[p].new = None /\ secret[s].status = "NONE")
       /\ Len(stream) < MaxStream
       /\ stream' = Append(stream, s)
       /\ replaced' = [replaced EXCEPT ![s] = IF @ = None THEN tx[p].old ELSE @]
  /\ tx' = [tx EXCEPT ![p] = IF tx[p].pc = "emit" THEN IdleTx ELSE tx[p]]
  /\ UNCHANGED <<now, secret, lock, born>>

\* emit_rotation_event, best effort: its failure is swallowed, and the Redis
\* client's own retries can apply the XADD more than once.
Emit(p) ==
  /\ tx[p].pc = "emit"
  /\ \E n \in 0 .. XaddTries :
       /\ Len(stream) + n <= MaxStream
       /\ stream' = stream \o [i \in 1 .. n |-> tx[p].new]
  /\ tx' = [tx EXCEPT ![p] = IdleTx]
  /\ UNCHANGED <<now, secret, lock, replaced, born>>

\* A lost connection, a crash or a duplicate key.
Rollback(p) ==
  /\ ~Idle(p)
  /\ Unlock(p)
  /\ tx' = [tx EXCEPT ![p] = IdleTx]
  /\ UNCHANGED <<now, secret, stream, replaced, born>>

Tick ==
  /\ now < Horizon
  /\ now' = now + 1
  /\ UNCHANGED <<secret, lock, tx, stream, replaced, born>>

RotationNext ==
  \/ \E p \in Requests : SeedBegin(p) \/ SeedCommit(p) \/ RotateBegin(p)
  \/ AutoBegin(Rotator) \/ AutoSelect(Rotator)
  \/ \E p \in Sessions :
       \/ RotateLock(p)
       \/ \E s \in Secrets : RotateCommit(p, s)
       \/ Emit(p)
       \/ Rollback(p)
  \/ Tick

-----------------------------------------------------------------------------
(* issue, scope = 'shared': ORDER BY created_at LIMIT 1, without a lock    *)

Oldest == {s \in Active : \A z \in Active : secret[s].made <= secret[z].made}

=============================================================================
