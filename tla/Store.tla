-------------------------------- MODULE Store --------------------------------
(***************************************************************************)
(* The PostgreSQL tables, row locks and open transactions that the API's   *)
(* handlers share, and the Remnawave panel they call inside them.          *)
(*                                                                         *)
(* A table variable holds the COMMITTED rows.  A handler runs in one       *)
(* session (`async with session.begin()`): its uncommitted writes live in  *)
(* tx[p] until its commit step copies them to the tables, and an abort     *)
(* drops them.  Isolation is READ COMMITTED: a SELECT ... FOR UPDATE first *)
(* collects the matching rows (a read step that fills `seen`), waits for   *)
(* their locks, then looks at the rows again and keeps those that still    *)
(* match.  A row inserted meanwhile is not seen.                           *)
(***************************************************************************)
EXTENDS Naturals

CONSTANTS
  Users, Orders, Codes, Subs,   \* primary keys of the four tables
  Charges,                      \* telegram_payment_charge_id values
  Sessions,                     \* database sessions, one per running handler
  None,                         \* SQL NULL
  Plans, Days,                  \* sellable plans; days one plan grants
  Trial, TrialDays,             \* the "trial" plan, which is not for sale
  CodePlan, ReservedFor,        \* plan of a code; user it is reserved for
  SingleUse,                    \* the codes with single_use = TRUE
  ValidUntil,                   \* codes.valid_until, the same for all codes
  PendingTTL,                   \* billing_plan_ttl_pending_sec
  Legacy,                       \* EXPIRED rows that predate Remnawave: id -> [user, started]
  Opening,                      \* the clock at the start, later than those rows
  Horizon,                      \* bound: the clock stops here
  PanelTries,                   \* bound: times one panel call can take effect
  MaxPanelDays                  \* bound: days the panel holds for one user

VARIABLES
  now,      \* the clock
  users,    \* keys of the users table
  order,    \* orders table
  sub,      \* subscriptions table
  code,     \* status column of the codes table
  trial,    \* users with a row in the trials table
  charge,   \* order that a Telegram charge pays for, None before it is made
  lock,     \* session holding FOR UPDATE (or an uncommitted INSERT) on a row
  tx,       \* the open transaction of a session
  panel,    \* Remnawave: the user whose external_id is the subscription id
  grants,   \* history: commits that granted days for an order or a code
  term      \* history: days the commits granted to a subscription

vars == <<now, users, order, sub, code, trial, charge, lock, tx, panel, grants, term>>

Live    == {"ACTIVE", "TRIAL"}
Rows    == Users \cup Orders \cup Codes \cup Subs
Sources == Orders \cup Codes

ASSUME StorageAssumption ==
  /\ Days \in [Plans -> Nat] /\ TrialDays \in Nat
  /\ CodePlan \in [Codes -> Plans] /\ ReservedFor \in [Codes -> Users \cup {None}]
  /\ SingleUse \subseteq Codes
  /\ ValidUntil \in Nat /\ PendingTTL \in Nat /\ Horizon \in Nat
  /\ PanelTries \in Nat /\ MaxPanelDays \in Nat
  /\ DOMAIN Legacy \subseteq Subs /\ Opening \in Nat
  /\ \A s \in DOMAIN Legacy : /\ Legacy[s] \in [user : Users, started : Nat]
                               /\ Legacy[s].started < Opening
  /\ \A s, z \in DOMAIN Legacy :   \* a user's rows were started one after another
       Legacy[s].user = Legacy[z].user /\ Legacy[s].started = Legacy[z].started => s = z
  /\ None \notin Rows \cup Sessions \cup Charges \cup Plans
  /\ Trial \notin Plans \cup {None}
  /\ Orders \cap Codes = {}

-----------------------------------------------------------------------------
(* Rows and transactions.                                                  *)

OrderRow == [status  : {"NONE", "PENDING", "PAID", "FAILED", "REFUNDED"},
             user    : Users \cup {None},
             plan    : Plans \cup {None},
             created : Nat,
             charge  : Charges \cup {None}]

SubRow == [status  : {"NONE", "ACTIVE", "TRIAL", "EXPIRED", "REVOKED"},
           user    : Users \cup {None},
           plan    : Plans \cup {Trial, None},
           started : Nat,
           exp     : Nat,                  \* expires_at
           order   : Orders \cup {None},   \* last_order_id
           handle  : BOOLEAN]              \* remna_user_id is set

PanelUser == [state : {"absent", "enabled", "disabled"}, days : Nat]

Labels == {"idle", "code", "user", "insertUser", "read", "lock", "unlink", "insert", "fk",
           "panel", "commit"}

Tx == [op     : {"idle", "order", "pay", "refund", "activate", "trial"},
       pc     : Labels,
       user   : Users \cup {None},
       order  : Orders \cup {None},
       charge : Charges \cup {None},
       code   : Codes \cup {None},
       plan   : Plans \cup {Trial, None},
       days   : Nat,                       \* days to grant
       now    : Nat,                       \* datetime.now() as the handler read it
       seen   : SUBSET (Subs \cup Orders), \* rows found by the pending FOR UPDATE
       mode   : {"none", "insert", "extend"},
       sub    : Subs \cup {None},          \* the row to insert or to extend
       old    : Subs \cup {None},          \* the row a replacement revokes
       exp    : Nat]                       \* expires_at to write

NoOrder == [status |-> "NONE", user |-> None, plan |-> None, created |-> 0,
            charge |-> None]
NoSub   == [status |-> "NONE", user |-> None, plan |-> None, started |-> 0,
            exp |-> 0, order |-> None, handle |-> FALSE]
IdleTx  == [op |-> "idle", pc |-> "idle", user |-> None, order |-> None,
            charge |-> None, code |-> None, plan |-> None, days |-> 0, now |-> 0,
            seen |-> {}, mode |-> "none", sub |-> None, old |-> None, exp |-> 0]

TypeOK ==
  /\ now \in Nat /\ now >= Opening
  /\ users \subseteq Users
  /\ order \in [Orders -> OrderRow]
  /\ sub \in [Subs -> SubRow]
  /\ code \in [Codes -> {"ACTIVE", "USED", "REVOKED"}]
  /\ trial \subseteq Users
  /\ charge \in [Charges -> Orders \cup {None}]
  /\ lock \in [Rows -> Sessions \cup {None}]
  /\ tx \in [Sessions -> Tx]
  /\ panel \in [Subs -> PanelUser]
  /\ grants \in [Sources -> Nat]
  /\ term \in [Subs -> Nat]

Init ==
  /\ now = Opening
  /\ users \in SUBSET Users
  /\ order = [o \in Orders |-> NoOrder]
  /\ sub = [s \in Subs |->
              IF s \in DOMAIN Legacy
              THEN [NoSub EXCEPT !.status = "EXPIRED", !.user = Legacy[s].user,
                                 !.plan = Trial, !.started = Legacy[s].started]
              ELSE NoSub]
  /\ \A s \in DOMAIN Legacy : Legacy[s].user \in users
  /\ code = [k \in Codes |-> "ACTIVE"]
  /\ trial = {}
  /\ charge = [c \in Charges |-> None]
  /\ lock = [r \in Rows |-> None]
  /\ tx = [p \in Sessions |-> IdleTx]
  /\ panel = [s \in Subs |-> [state |-> "absent", days |-> 0]]
  /\ grants = [g \in Sources |-> 0]
  /\ term = [s \in Subs |-> 0]

-----------------------------------------------------------------------------
(* Row locks.                                                              *)

Later(a, b) == IF a >= b THEN a ELSE b

Idle(p)      == tx[p].pc = "idle"

\* Mutant: the SELECT lost its FOR UPDATE.
NotForUpdate(p, r) == TRUE

Free(p, r)   == lock[r] \in {None, p}
Take(p, R)   == lock' = [r \in Rows |-> IF r \in R THEN p ELSE lock[r]]
Goto(p, l)   == tx' = [tx EXCEPT ![p].pc = l]

\* The session ends, by commit or rollback: its locks go and it can serve again.
End(p) ==
  /\ lock' = [r \in Rows |-> IF lock[r] = p THEN None ELSE lock[r]]
  /\ tx' = [tx EXCEPT ![p] = IdleTx]

-----------------------------------------------------------------------------
(* ix_subscriptions_one_active_per_user: unique (user_id) over live rows.  *)

LiveSubs(u) == {s \in Subs : sub[s].user = u /\ sub[s].status \in Live}

\* p has executed an INSERT of a live row that is not committed yet.
Inserted(p) == tx[p].mode = "insert" /\ tx[p].pc \in {"fk", "panel", "commit"}

\* p has flushed `status = REVOKED` on the row it replaces, not committed yet.
Unlinked(p) == tx[p].old # None /\ tx[p].pc # "unlink"

\* Sessions whose open transaction decides whether u's index entry is taken.
IndexHolders(p, u) ==
  {q \in Sessions \ {p} : tx[q].user = u /\ (Inserted(q) \/ Unlinked(q))}

\* Mutant: the partial unique index was never created.
NoIndex(p, u) == FALSE

\* A committed live row other than the one p itself revokes: a duplicate key.
IndexTaken(p, u) == LiveSubs(u) \ {tx[p].old} # {}

\* uuid4: an id no table, transaction or panel user has.
Fresh(s) ==
  /\ sub[s].status = "NONE"
  /\ panel[s].state = "absent"
  /\ \A q \in Sessions : tx[q].sub # s

\* INSERT of a live row at a flush: it waits for IndexHolders, then either
\* holds the index entry or fails with a duplicate key (Abort).
InsertSub(p, s, next) ==
  /\ tx[p].pc = "insert"
  /\ IndexHolders(p, tx[p].user) = {}
  /\ ~IndexTaken(p, tx[p].user)
  /\ Fresh(s)
  /\ tx' = [tx EXCEPT ![p].pc = next, ![p].mode = "insert", ![p].sub = s,
                      ![p].exp = tx[p].now + tx[p].days]

-----------------------------------------------------------------------------
(* Remnawave (external).  A call may be applied and its answer lost; the   *)
(* client then repeats it, up to three attempts.                           *)

\* Mutant: a subscription the panel knows already is not extended there.
AppliedToNew(p, n) ==
  IF tx[p].mode = "insert"
  THEN [panel EXCEPT ![tx[p].sub] = [state |-> "enabled", days |-> tx[p].days]]
  ELSE panel

\* The panel after n deliveries of p's create or extend call.
Applied(p, n) ==
  LET s == tx[p].sub IN
  IF tx[p].mode = "insert" \/ ~sub[s].handle
  THEN [panel EXCEPT ![s] = [state |-> "enabled", days |-> tx[p].days]]
  ELSE [panel EXCEPT ![s].days = @ + n * tx[p].days]

\* Mutant: a disabled user is extended like any other.
PanelCallBlind(p, n) ==
  /\ tx[p].pc = "panel"
  /\ panel' = Applied(p, n)
  /\ panel'[tx[p].sub].days <= MaxPanelDays

\* A user that was deleted there cannot be extended (404, KeyError).
PanelCall(p, n) ==
  /\ tx[p].pc = "panel"
  /\ tx[p].mode = "extend" => panel[tx[p].sub].state # "disabled"
  /\ panel' = Applied(p, n)
  /\ panel'[tx[p].sub].days <= MaxPanelDays

\* Some delivery was answered: the handler goes on to commit.
PanelAnswers(p) ==
  /\ \E n \in 1 .. PanelTries : PanelCall(p, n)
  /\ Goto(p, "commit")
  /\ UNCHANGED <<now, users, order, sub, code, trial, charge, lock, grants, term>>

\* Every answer was lost or an error: RemnawaveError rolls the handler back,
\* the panel keeps what it applied.
PanelFails(p) ==
  /\ \E n \in 1 .. PanelTries : PanelCall(p, n)
  /\ End(p)
  /\ UNCHANGED <<now, users, order, sub, code, trial, charge, grants, term>>

-----------------------------------------------------------------------------
(* Rollback and time.                                                      *)

\* Any exception inside session.begin(), a lost connection, a crash of the
\* API or PostgreSQL picking the session as a deadlock victim.
Abort(p) ==
  /\ ~Idle(p)
  /\ End(p)
  /\ UNCHANGED <<now, users, order, sub, code, trial, charge, panel, grants, term>>

Tick ==
  /\ now < Horizon
  /\ now' = now + 1
  /\ UNCHANGED <<users, order, sub, code, trial, charge, lock, tx, panel, grants, term>>

=============================================================================
