------------------------------ MODULE Invariant ------------------------------
(***************************************************************************)
(* The inductive invariant of Entitlements: its safety properties together *)
(* with what an open transaction may rely on.                              *)
(***************************************************************************)
EXTENDS Entitlements

\* The fields that a transaction t sets together.
Shaped(t) ==
  /\ t.op = "idle" <=> t.pc = "idle"
  /\ t.op = "idle" => t = IdleTx
  /\ t.op \in {"pay", "activate", "trial", "order"} => t.user \in Users
  /\ t.op = "pay" => t.order \in Orders /\ t.charge \in Charges /\ t.plan \in Plans
                     /\ t.days = Days[t.plan]
  /\ t.op = "refund" => t.order \in Orders
  /\ t.op = "activate" => t.code \in Codes /\ t.plan = CodePlan[t.code]
                          /\ t.days = Days[t.plan]
  /\ t.op = "trial" => t.plan = Trial /\ t.days = TrialDays
  /\ t.op = "order" => t.plan \in Plans
  /\ t.op \in {"pay", "activate"} => t.now >= Opening
  /\ t.op = "trial" /\ t.pc \in {"insert", "panel", "commit"} => t.now >= Opening
  /\ t.mode = "none" <=> t.sub = None
  /\ t.mode = "none" => t.pc \notin {"fk", "panel", "commit"}
  /\ t.mode = "insert" => t.pc \in {"fk", "panel", "commit"} /\ t.exp = t.now + t.days
  /\ t.mode = "extend" => t.pc \in {"panel", "commit"} /\ t.old = None
                          /\ t.op \in {"pay", "activate"}
  /\ t.mode # "none" => t.op \in {"pay", "activate", "trial"}
  /\ t.old # None => t.op = "activate" /\ t.pc \in {"unlink", "insert", "panel", "commit"}

TxShape == \A p \in Sessions : Shaped(tx[p])

\* The columns that a row of a table has from its INSERT on.
OrderShaped(o) ==
  order[o].status # "NONE" => order[o].user \in Users /\ order[o].plan \in Plans

SubShaped(s) ==
  /\ sub[s].status # "NONE" => sub[s].user \in Users
  /\ sub[s].status \in Live => sub[s].handle = TRUE
  /\ sub[s].status = "NONE" => sub[s] = NoSub /\ term[s] = 0
  /\ sub[s].status = "EXPIRED" => sub[s].started < Opening /\ sub[s].order = None /\ term[s] = 0

RowShape ==
  /\ \A o \in Orders : OrderShaped(o)
  /\ \A s \in Subs : SubShaped(s)

\* The rows that a transaction t refers to exist.
Existing(t) ==
  /\ t.op \in {"pay", "refund"} => order[t.order].status # "NONE"
  /\ t.mode = "extend" => sub[t.sub].status # "NONE"
  /\ t.mode = "extend" /\ t.op = "activate" => sub[t.sub].handle = TRUE
  /\ t.old # None => sub[t.old].status # "NONE"

TxRefers == \A p \in Sessions : Existing(tx[p])

Shape == TypeOK /\ TxShape /\ RowShape /\ TxRefers

\* A payment or refund under way holds its order, which keeps its status; a
\* refund has seen every subscription that rests on its order, and an order
\* being drafted has seen orders of its own user only.
HoldsOrder(p) ==
  /\ tx[p].op = "order" => \A o \in tx[p].seen \cap Orders :
                             order[o].status # "NONE" /\ order[o].user = tx[p].user
  /\ tx[p].op = "pay" => /\ lock[tx[p].order] = p
                         /\ order[tx[p].order].status = "PENDING"
                         /\ order[tx[p].order].user = tx[p].user
                         /\ order[tx[p].order].plan = tx[p].plan
  /\ tx[p].op = "refund" => /\ lock[tx[p].order] = p
                            /\ order[tx[p].order].status = "PAID"
                            /\ \A s \in Subs : sub[s].order = tx[p].order => s \in tx[p].seen

\* An activation past the look-up holds its code, which is still ACTIVE.
HoldsCode(p) ==
  tx[p].op = "activate" /\ tx[p].pc # "code"
    => lock[tx[p].code] = p /\ code[tx[p].code] = "ACTIVE"

\* The row to extend and the row to replace are held, and are the user's own.
HoldsSub(p) ==
  /\ tx[p].mode = "extend" => /\ lock[tx[p].sub] = p
                              /\ sub[tx[p].sub].user = tx[p].user
                              /\ sub[tx[p].sub].status \in Live \cup {"EXPIRED"}
                              /\ tx[p].op = "activate" => sub[tx[p].sub].status \in Live
  /\ tx[p].old # None => /\ lock[tx[p].old] = p
                         /\ sub[tx[p].old].user = tx[p].user
                         /\ sub[tx[p].old].status \in Live

\* The pending write loses no day, and the panel has been told before the commit.
CoversTerm(p) ==
  /\ tx[p].mode = "extend"
       => tx[p].exp >= sub[tx[p].sub].started + term[tx[p].sub] + tx[p].days
  /\ tx[p].pc = "commit" => panel[tx[p].sub].days >= term[tx[p].sub] + tx[p].days

Reliant(p) == HoldsOrder(p) /\ HoldsCode(p) /\ HoldsSub(p) /\ CoversTerm(p)

\* An uncommitted INSERT is the only one for its user, its id is its own, and
\* the user has no live row but the one being replaced.
InsertsAlone(p) ==
  Inserted(p) =>
    /\ sub[tx[p].sub].status = "NONE"
    /\ LiveSubs(tx[p].user) \subseteq {tx[p].old}
    /\ \A q \in Sessions \ {p} : /\ tx[q].sub # tx[p].sub
                                 /\ tx[q].user = tx[p].user => ~Inserted(q)

\* Trial rows belong to users with a trials row.
TrialRecorded ==
  \A s \in Subs \ DOMAIN Legacy : sub[s].plan = Trial => sub[s].user \in trial

IInv ==
  /\ Shape
  /\ \A p \in Sessions : Reliant(p) /\ InsertsAlone(p)
  /\ TrialRecorded
  /\ OneLiveSubscription /\ GrantedOnce /\ LiveIsPaidFor /\ NoGrantLost /\ PanelCovers
  /\ OneTrial /\ OnePendingOrder

-----------------------------------------------------------------------------
(* Whose term is extended: what PaymentExtendsLive rests on besides IInv.  *)

Expired(u) == {s \in Subs : sub[s].user = u /\ sub[s].status = "EXPIRED"}

\* Two expired rows of a user differ in their start, and an expired row is
\* older than the live one, also when that one was expired and revived.
Elder(s, z) ==
  /\ z \in Expired(sub[s].user) \ {s} => sub[s].started # sub[z].started
  /\ z \in LiveSubs(sub[s].user) => sub[s].started < sub[z].started

\* A payment waiting for locks has seen all expired rows of its user; the one it
\* revives is the last of them; a live one it extends is not cut short.
Renews(p) ==
  /\ tx[p].pc = "lock" => Expired(tx[p].user) \subseteq tx[p].seen
  /\ tx[p].mode = "extend" /\ tx[p].sub \in Expired(tx[p].user) =>
       \A z \in Expired(tx[p].user) \ {tx[p].sub} : sub[z].started < sub[tx[p].sub].started
  /\ tx[p].mode = "extend" /\ tx[p].sub \in LiveSubs(tx[p].user) =>
       tx[p].exp >= sub[tx[p].sub].exp

Seniority ==
  /\ \A s, z \in Subs : sub[s].status = "EXPIRED" => Elder(s, z)
  /\ \A p \in Sessions : tx[p].op = "pay" => Renews(p)

-----------------------------------------------------------------------------
(* What the panel serves: what GrantsAreServed rests on besides IInv.      *)

\* A row with a handle has a user on the panel, and a transaction about to commit
\* one that is enabled.
Serving ==
  /\ \A s \in Subs : sub[s].handle => panel[s].state # "absent"
  /\ \A p \in Sessions : tx[p].pc = "commit" => panel[tx[p].sub].state = "enabled"

=============================================================================
