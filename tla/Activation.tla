----------------------------- MODULE Activation -----------------------------
(***************************************************************************)
(* The handlers that issue and withdraw subscriptions without a payment:   *)
(* routers/codes.py activate, routers/trials.py create_trial, and the      *)
(* admin's revoke of a subscription and of a code.                         *)
(* A request rejected before it writes anything is a stuttering step: the  *)
(* code_attempts row of a rejected code is rolled back by its own raise.   *)
(***************************************************************************)
EXTENDS Store

Issuing == {"activate", "trial"}

-----------------------------------------------------------------------------
(* _get_or_create_user, the same code in both routers                      *)

\* SELECT ... FOR UPDATE of the users row, when there is one.
LockUser(p) ==
  LET u == tx[p].user IN
  /\ tx[p].op \in Issuing /\ tx[p].pc = "user"
  /\ IF u \in users
     THEN Free(p, u) /\ Take(p, {u}) /\ Goto(p, "read")
     ELSE Goto(p, "insertUser") /\ UNCHANGED lock
  /\ UNCHANGED <<now, users, order, sub, code, trial, charge, panel, grants, term>>

\* INSERT of the missing row, flushed: it waits for a concurrent INSERT of the
\* same key and is a duplicate key (Abort) when that one committed.
InsertUser(p) ==
  LET u == tx[p].user IN
  /\ tx[p].op \in Issuing /\ tx[p].pc = "insertUser"
  /\ Free(p, u)
  /\ u \notin users
  /\ Take(p, {u})
  /\ Goto(p, "read")
  /\ UNCHANGED <<now, users, order, sub, code, trial, charge, panel, grants, term>>

\* Both routers insert with the placeholder sub_url_token = "pending", which is
\* unique: a second creator waits until the first commits or rolls back.
TokenFree(p) == \A q \in Sessions \ {p} : ~(tx[q].op \in Issuing /\ Inserted(q))

IssueInsert(p, s) ==
  /\ tx[p].op \in Issuing
  /\ TokenFree(p)
  /\ InsertSub(p, s, "panel")   \* its own users lock satisfies the foreign key
  /\ UNCHANGED <<now, users, order, sub, code, trial, charge, lock, panel, grants, term>>

NewRow(p, st) ==
  [NoSub EXCEPT !.status = st, !.user = tx[p].user, !.plan = tx[p].plan,
                !.started = tx[p].now, !.exp = tx[p].exp, !.handle = TRUE]

-----------------------------------------------------------------------------
(* activate                                                                *)

\* The clock is read before the transaction waits for the code's row.
ActivateBegin(p, u, k) ==
  /\ Idle(p)
  /\ tx' = [tx EXCEPT ![p] = [IdleTx EXCEPT !.op = "activate", !.pc = "code", !.user = u,
                                !.code = k, !.plan = CodePlan[k],
                                !.days = Days[CodePlan[k]], !.now = now]]
  /\ UNCHANGED <<now, users, order, sub, code, trial, charge, lock, panel, grants, term>>

\* The row, FOR UPDATE, is ACTIVE, in its window and not somebody else's.
ActivateCode(p) ==
  LET k == tx[p].code IN
  /\ tx[p].op = "activate" /\ tx[p].pc = "code"
  /\ Free(p, k)
  /\ code[k] = "ACTIVE"
  /\ tx[p].now <= ValidUntil
  /\ ReservedFor[k] \in {None, tx[p].user}
  /\ Take(p, {k})
  /\ Goto(p, "user")
  /\ UNCHANGED <<now, users, order, sub, code, trial, charge, panel, grants, term>>

\* SELECT of the live subscription FOR UPDATE takes its snapshot.
ActivateRead(p) ==
  /\ tx[p].op = "activate" /\ tx[p].pc = "read"
  /\ tx' = [tx EXCEPT ![p].pc = "lock", ![p].seen = LiveSubs(tx[p].user)]
  /\ UNCHANGED <<now, users, order, sub, code, trial, charge, lock, panel, grants, term>>

\* Its lock is granted: create when it is gone, extend the same plan, replace
\* another one.
ActivateLock(p) ==
  LET match == tx[p].seen \cap LiveSubs(tx[p].user) IN
  /\ tx[p].op = "activate" /\ tx[p].pc = "lock"
  /\ \A s \in tx[p].seen : Free(p, s)
  /\ Take(p, tx[p].seen)
  /\ IF match = {}
     THEN Goto(p, "insert")
     ELSE \E s \in match :
            IF sub[s].plan = tx[p].plan
            THEN tx' = [tx EXCEPT ![p].pc = "panel", ![p].mode = "extend", ![p].sub = s,
                          ![p].exp = Later(sub[s].exp, tx[p].now) + tx[p].days]
            ELSE tx' = [tx EXCEPT ![p].pc = "unlink", ![p].old = s]
  /\ UNCHANGED <<now, users, order, sub, code, trial, charge, panel, grants, term>>

\* Replace: disable the old panel user, then flush REVOKED on its row.
ActivateUnlink(p) ==
  /\ tx[p].op = "activate" /\ tx[p].pc = "unlink"
  /\ panel' = [panel EXCEPT ![tx[p].old].state = "disabled"]
  /\ Goto(p, "insert")
  /\ UNCHANGED <<now, users, order, sub, code, trial, charge, lock, grants, term>>

\* Mutant: the code is not marked.
NeverSpent(k) == code[k]

\* What redeeming leaves of a code.
Spent(k) == IF k \in SingleUse THEN "USED" ELSE code[k]

ActivateCommit(p) ==
  /\ tx[p].op = "activate" /\ tx[p].pc = "commit"
  /\ sub' = [s \in Subs |->
       IF s = tx[p].sub
       THEN IF tx[p].mode = "insert" THEN NewRow(p, "ACTIVE")
            ELSE [sub[s] EXCEPT !.status = "ACTIVE", !.exp = tx[p].exp]
       ELSE IF s = tx[p].old THEN [sub[s] EXCEPT !.status = "REVOKED"]
       ELSE sub[s]]
  /\ users' = users \cup {tx[p].user}
  /\ code' = [code EXCEPT ![tx[p].code] = Spent(tx[p].code)]
  /\ grants' = [grants EXCEPT ![tx[p].code] = @ + 1]
  /\ term' = [term EXCEPT ![tx[p].sub] = @ + tx[p].days]
  /\ End(p)
  /\ UNCHANGED <<now, order, trial, charge, panel>>

-----------------------------------------------------------------------------
(* create_trial                                                            *)

\* begin; no trials row for the user, read without a lock.
TrialBegin(p, u) ==
  /\ Idle(p)
  /\ u \notin trial
  /\ tx' = [tx EXCEPT ![p] = [IdleTx EXCEPT !.op = "trial", !.pc = "user", !.user = u,
                                !.plan = Trial, !.days = TrialDays]]
  /\ UNCHANGED <<now, users, order, sub, code, trial, charge, lock, panel, grants, term>>

\* The user must have no live subscription, read without a lock; then the
\* clock is read.
TrialRead(p) ==
  /\ tx[p].op = "trial" /\ tx[p].pc = "read"
  /\ LiveSubs(tx[p].user) = {}
  /\ tx' = [tx EXCEPT ![p].pc = "insert", ![p].now = now]
  /\ UNCHANGED <<now, users, order, sub, code, trial, charge, lock, panel, grants, term>>

\* Mutant: trials.tg_id is not unique.
TrialNotUnique(p) == TRUE

\* trials.tg_id is unique.
TrialFree(p) == tx[p].user \notin trial

\* The INSERT into trials comes last, at the commit.
TrialCommit(p) ==
  /\ tx[p].op = "trial" /\ tx[p].pc = "commit"
  /\ TrialFree(p)
  /\ sub' = [sub EXCEPT ![tx[p].sub] = NewRow(p, "TRIAL")]
  /\ users' = users \cup {tx[p].user}
  /\ trial' = trial \cup {tx[p].user}
  /\ term' = [term EXCEPT ![tx[p].sub] = @ + tx[p].days]
  /\ End(p)
  /\ UNCHANGED <<now, order, code, charge, panel, grants>>

-----------------------------------------------------------------------------
(* Admin: one short transaction each, nothing awaited inside it.           *)

\* POST /admin/subscriptions/{id}/revoke.  The panel is not told.
RevokeSubscription(s) ==
  /\ lock[s] = None
  /\ sub[s].status \in Live
  /\ sub' = [sub EXCEPT ![s].status = "REVOKED", ![s].exp = now]
  /\ UNCHANGED <<now, users, order, code, trial, charge, lock, tx, panel, grants, term>>

\* DELETE /admin/codes/{id}
RevokeCode(k) ==
  /\ lock[k] = None
  /\ code[k] # "REVOKED"
  /\ code' = [code EXCEPT ![k] = "REVOKED"]
  /\ UNCHANGED <<now, users, order, sub, trial, charge, lock, tx, panel, grants, term>>

-----------------------------------------------------------------------------

ActivationStep(p) ==
  \/ LockUser(p)
  \/ InsertUser(p)
  \/ \E s \in Subs : IssueInsert(p, s)
  \/ \E u \in Users, k \in Codes : ActivateBegin(p, u, k)
  \/ ActivateCode(p)
  \/ ActivateRead(p)
  \/ ActivateLock(p)
  \/ ActivateUnlink(p)
  \/ ActivateCommit(p)
  \/ \E u \in Users : TrialBegin(p, u)
  \/ TrialRead(p)
  \/ TrialCommit(p)

AdminStep ==
  \/ \E s \in Subs : RevokeSubscription(s)
  \/ \E k \in Codes : RevokeCode(k)

=============================================================================
