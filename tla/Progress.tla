------------------------------ MODULE Progress ------------------------------
(***************************************************************************)
(* Do the transactions of Entitlements end?  No lock_timeout or            *)
(* statement_timeout is set anywhere, so a session waits for a lock as     *)
(* long as its holder keeps it, and handlers hold locks across calls to    *)
(* the panel.  They end because every panel call is bounded by the HTTP    *)
(* client's timeout and because PostgreSQL breaks cycles of waits.         *)
(***************************************************************************)
EXTENDS Entitlements

Holders(p, R) == {lock[r] : r \in R} \ {p, None}

\* The sessions that the next statement of p waits for.
WaitsFor(p) ==
  LET t == tx[p] IN
  CASE t.pc = "code"       -> Holders(p, {t.code})
    [] t.pc = "user"       -> IF t.user \in users THEN Holders(p, {t.user}) ELSE {}
    [] t.pc = "insertUser" -> Holders(p, {t.user})
    [] t.pc = "fk"         -> Holders(p, {t.user})
    [] t.pc = "lock"       -> Holders(p, t.seen) \cup
                                (IF t.op = "order" THEN Holders(p, {t.user}) ELSE {})
    [] t.pc = "insert"     -> IndexHolders(p, t.user) \cup
                                (IF t.op \in Issuing
                                 THEN {q \in Sessions \ {p} : tx[q].op \in Issuing /\ Inserted(q)}
                                 ELSE {})
    [] t.pc = "commit"     -> IF t.op = "pay" /\ Revives(p) THEN IndexHolders(p, t.user) ELSE {}
    [] OTHER               -> {}

\* Some set of sessions with p in it waits for itself.
Deadlocked(p) ==
  \E C \in SUBSET Sessions : p \in C /\ \A q \in C : WaitsFor(q) \cap C # {}

\* One more step of a transaction already begun.
Advance(p) ==
  \/ \E o \in Orders : OrderCommit(p, o)
  \/ PayRead(p) \/ PayLock(p) \/ PayForeignKey(p) \/ PayCommit(p)
  \/ \E s \in Subs : PayInsert(p, s) \/ IssueInsert(p, s)
  \/ RefundCommit(p)
  \/ LockUser(p) \/ InsertUser(p)
  \/ ActivateCode(p) \/ ActivateRead(p) \/ ActivateLock(p) \/ ActivateUnlink(p) \/ ActivateCommit(p)
  \/ TrialRead(p) \/ TrialCommit(p)
  \/ PanelAnswers(p)

\* A statement that waits for nobody and cannot succeed raises.
Raise(p) ==
  /\ WaitsFor(p) = {}
  /\ ~ENABLED Advance(p)
  /\ Abort(p)

\* Mutant: nobody breaks a cycle of waits.
NoVictim(p) == FALSE

\* deadlock_timeout elapsed: PostgreSQL cancels one member of the cycle.
DeadlockVictim(p) ==
  /\ Deadlocked(p)
  /\ Abort(p)

\* Handlers keep running, PostgreSQL grants locks in the order they were asked
\* for (so a waiter is not overtaken for ever) and its deadlock detector runs.
\* No new request has to arrive and no crash has to happen.
Fairness ==
  \A p \in Sessions : SF_vars(Advance(p) \/ Raise(p)) /\ WF_vars(DeadlockVictim(p))

FairSpec == Spec /\ Fairness

\* No request hangs for ever, although mark_paid and activate can wait for each
\* other in a cycle (index entry against users row).
EveryTransactionEnds == \A p \in Sessions : ~Idle(p) ~> Idle(p)

=============================================================================
