------------------------------ MODULE Console -------------------------------
(***************************************************************************)
(* The handlers that read before they write: admin login and refunds, the  *)
(* mini-app, smart routing and the ruleset administration, each on a       *)
(* session of its own (db.py), with the limiters in front of some of them. *)
(* A session begins a transaction at the first statement; session.begin()  *)
(* raises if there is one already, and a session that is closed without a  *)
(* commit rolls back.  A handler is the list of its statements.            *)
(***************************************************************************)
EXTENDS Integers, Sequences, FiniteSets

CONSTANTS
  Calls,       \* bound: requests at a time
  Served,      \* the handlers of this instance
  Limit,       \* requests per window
  MaxCuts      \* bound: crashes, Redis errors and lost answers

Handlers == {"login", "toggle", "reset", "profile", "create source", "update source",
             "delete source", "force pull", "refund", "node", "activate", "message"}

ASSUME ConsoleAssumption == Served \subseteq Handlers /\ Limit \in Nat \ {0} /\ MaxCuts \in Nat

VARIABLES
  call,       \* per request, its handler, the next statement, its session
  hits,       \* the counters of the limiters, as far as they are compared
  ttl,        \* counters that expire
  let,        \* history: requests let through in the window
  unchecked,  \* history: messages among them that passed although Redis did not answer
  stored,     \* handlers whose write is in the database
  stars,      \* whether Telegram has given the Stars of the order back
  cuts

consoleVars == <<call, hits, ttl, let, unchecked, stored, stars, cuts>>

-----------------------------------------------------------------------------
(* The handlers                                                            *)

LoginSteps   == <<"limit", "captcha", "select", "begin">>
ToggleSteps  == <<"select", "begin">>
ResetSteps   == <<"limit", "select", "begin">>
ProfileSteps == <<"select", "flush">>
CreateSteps  == <<"select", "flush">>
UpdateSteps  == <<"select", "flush">>
DeleteSteps  == <<"select">>          \* the deletion is not even flushed
PullSteps    == <<"select", "fetch", "flush">>
RefundSteps  == <<"select", "push", "begin">>
NodeSteps    == <<"begin">>
ActivateSteps == <<"limit", "begin">> \* the block is module Activation
MessageSteps == <<"limit">>

Steps(h) ==
  CASE h = "login"         -> LoginSteps   [] h = "toggle"        -> ToggleSteps
    [] h = "reset"         -> ResetSteps   [] h = "profile"       -> ProfileSteps
    [] h = "create source" -> CreateSteps  [] h = "update source" -> UpdateSteps
    [] h = "delete source" -> DeleteSteps  [] h = "force pull"    -> PullSteps
    [] h = "refund"        -> RefundSteps  [] h = "node"          -> NodeSteps
    [] h = "activate"      -> ActivateSteps [] h = "message"       -> MessageSteps

Limited == {h \in Served : Steps(h)[1] = "limit"}

\* A request that was answered 2xx is remembered until the next one comes.
Answered(h) == [handler |-> "none", at |-> 0, begun |-> FALSE, first |-> FALSE, ok |-> h]
NoCall      == Answered("none")

ConsoleTypeOK ==
  /\ call \in [Calls -> [handler : Served \cup {"none"}, at : 0 .. 4, begun : BOOLEAN,
                         first : BOOLEAN, ok : Served \cup {"none"}]]
  /\ hits \in [Limited -> 0 .. Limit + 1]
  /\ let \in [Limited -> Nat] /\ unchecked \in Nat
  /\ ttl \subseteq Limited
  /\ stored \subseteq Served
  /\ stars \in BOOLEAN
  /\ cuts \in 0 .. MaxCuts

ConsoleInit ==
  /\ call = [c \in Calls |-> NoCall]
  /\ hits = [k \in Limited |-> 0] /\ let = [k \in Limited |-> 0]
  /\ ttl = {} /\ stored = {} /\ unchecked = 0
  /\ stars = FALSE
  /\ cuts = 0

Handler(c)  == call[c].handler
Busy(c)     == Handler(c) # "none"
Comes(c, s) == Busy(c) /\ Steps(Handler(c))[call[c].at] = s
Cut         == cuts < MaxCuts /\ cuts' = cuts + 1

\* The handler goes on with its next statement, or is through and answers 2xx.
GoOn(c, begun) ==
  call' = IF call[c].at < Len(Steps(Handler(c)))
          THEN [call EXCEPT ![c].at = @ + 1, ![c].begun = begun, ![c].first = FALSE]
          ELSE [call EXCEPT ![c] = Answered(Handler(c))]

\* It raises: an answer of 4xx or 5xx.  The session is closed, rolled back.
Fail(c) == call' = [call EXCEPT ![c] = NoCall]

Arrive(c, h) ==
  /\ ~Busy(c)
  /\ call' = [call EXCEPT ![c] = [NoCall EXCEPT !.handler = h, !.at = 1]]
  /\ UNCHANGED <<hits, ttl, let, unchecked, stored, stars, cuts>>

-----------------------------------------------------------------------------
(* ratelimit.py and the bot's throttling middleware                        *)

\* Mutant: the first request over the limit is let through.
WithinOneMore(n) == n <= Limit + 1

Within(n) == n <= Limit

\* Beyond the limit the code does not tell numbers apart.
Count(k) == hits' = [hits EXCEPT ![k] = IF @ > Limit THEN @ ELSE @ + 1]

\* INCR; the request that finds the counter at 1 still has to set its TTL.
Increment(c) ==
  LET k == Handler(c) IN
  /\ Comes(c, "limit") /\ ~call[c].first
  /\ Count(k)
  /\ let' = [let EXCEPT ![k] = IF Within(hits[k] + 1) THEN @ + 1 ELSE @]
  /\ IF hits[k] = 0 THEN call' = [call EXCEPT ![c].first = TRUE]
     ELSE IF Within(hits[k] + 1) THEN GoOn(c, FALSE) ELSE Fail(c)
  /\ UNCHANGED <<ttl, unchecked, stored, stars, cuts>>

\* INCR is applied and its answer lost: the client sends it again.
IncrementUnanswered(c) ==
  /\ Comes(c, "limit") /\ ~call[c].first /\ Cut
  /\ Count(Handler(c))
  /\ UNCHANGED <<call, ttl, let, unchecked, stored, stars>>

Expire(c) ==
  /\ Comes(c, "limit") /\ call[c].first
  /\ ttl' = ttl \cup {Handler(c)}
  /\ GoOn(c, FALSE)
  /\ UNCHANGED <<hits, let, unchecked, stored, stars, cuts>>

\* Redis does not answer, whether or not it has applied the command: the bot
\* lets the message through (fail-open), the API fails (fail-closed).
RedisFails(c) ==
  LET k == Handler(c) IN
  /\ Comes(c, "limit") /\ Cut
  /\ IF call[c].first THEN ttl' \in {ttl, ttl \cup {k}} /\ UNCHANGED hits
     ELSE (Count(k) \/ UNCHANGED hits) /\ UNCHANGED ttl
  /\ IF k = "message" /\ ~call[c].first
     THEN let' = [let EXCEPT ![k] = @ + 1] /\ unchecked' = unchecked + 1
     ELSE UNCHANGED <<let, unchecked>>
  /\ IF k = "message" THEN GoOn(c, FALSE) ELSE Fail(c)
  /\ UNCHANGED <<stored, stars>>

\* The counter expires.  The bot's counters carry the number of the window in
\* their key: the next window has another one.
WindowEnds(k) ==
  /\ hits[k] # 0 /\ (k \in ttl \/ k = "message")
  /\ hits' = [hits EXCEPT ![k] = 0] /\ let' = [let EXCEPT ![k] = 0]
  /\ unchecked' = IF k = "message" THEN 0 ELSE unchecked
  /\ ttl' = ttl \ {k}
  /\ UNCHANGED <<call, stored, stars, cuts>>

-----------------------------------------------------------------------------
(* Statements                                                              *)

\* The captcha's verdict, or a download on behalf of force_pull.
Remote(c) ==
  /\ Comes(c, "captcha") \/ Comes(c, "fetch")
  /\ GoOn(c, call[c].begun) \/ Fail(c)
  /\ UNCHANGED <<hits, ttl, let, unchecked, stored, stars, cuts>>

\* The pre-flight reads: the row is missing, belongs to somebody else, or the
\* order is not PAID: 4xx.
Select(c) ==
  /\ Comes(c, "select")
  /\ \/ (Handler(c) = "refund" => "refund" \notin stored) /\ GoOn(c, TRUE)
     \/ Fail(c)
  /\ UNCHANGED <<hits, ttl, let, unchecked, stored, stars, cuts>>

\* Written, but in the transaction that the first read began.
Flush(c) ==
  /\ Comes(c, "flush")
  /\ GoOn(c, TRUE)
  /\ UNCHANGED <<hits, ttl, let, unchecked, stored, stars, cuts>>

\* async with session.begin(): raises, or runs the block to its commit or to an
\* answer of 4xx.
Begin(c) ==
  /\ Comes(c, "begin")
  /\ IF call[c].begun
     THEN Fail(c) /\ UNCHANGED stored
     ELSE \/ GoOn(c, FALSE) /\ stored' = stored \cup {Handler(c)}
          \/ Fail(c) /\ UNCHANGED stored
  /\ UNCHANGED <<hits, ttl, let, unchecked, stars, cuts>>

\* _push_refund_to_bot and the bot's endpoint: Telegram refunds a charge once
\* and refuses the second time.
PushRefund(c) ==
  /\ Comes(c, "push")
  /\ \/ ~stars /\ stars' = TRUE /\ GoOn(c, TRUE)
     \/ UNCHANGED stars /\ Fail(c)
  /\ UNCHANGED <<hits, ttl, let, unchecked, stored, cuts>>

\* The bot refunded, but its answer is lost: 502.
PushUnanswered(c) ==
  /\ Comes(c, "push") /\ Cut
  /\ ~stars /\ stars' = TRUE
  /\ Fail(c)
  /\ UNCHANGED <<hits, ttl, let, unchecked, stored>>

\* The API restarts: requests in progress are gone.
ApiRestarts ==
  /\ Cut
  /\ call' = [c \in Calls |-> NoCall]
  /\ UNCHANGED <<hits, ttl, let, unchecked, stored, stars>>

Advance(c) ==
  \/ Increment(c) \/ Expire(c) \/ Remote(c) \/ Select(c) \/ Flush(c) \/ Begin(c) \/ PushRefund(c)

ConsoleNext ==
  \/ \E c \in Calls : Advance(c) \/ IncrementUnanswered(c) \/ RedisFails(c) \/ PushUnanswered(c)
  \/ \E c \in Calls, h \in Served : Arrive(c, h)
  \/ \E k \in Limited : WindowEnds(k)
  \/ ApiRestarts

ConsoleSpec == ConsoleInit /\ [][ConsoleNext]_consoleVars

-----------------------------------------------------------------------------
(* Properties                                                              *)

\* Concurrent requests never get more than the limit through one window of a
\* counter, even if its TTL is lost or an INCR counts twice.  The bot's limiter
\* lets messages pass that Redis did not answer for: so many more, no others.
FailedOpen(k) == IF k = "message" THEN unchecked ELSE 0
LimitHolds == \A k \in Limited : let[k] <= Limit + FailedOpen(k)

\* plan-stage-1.md: beyond the limit the user is told to wait ten minutes, so who
\* is beyond it is let in again.
LimitLifts == \A k \in Limited : hits[k] > Limit ~> hits[k] = 0

\* "call Bot for the actual refund ... atomic ... after the upstream call
\* succeeds": when nothing is under way, an order whose Stars were given back is
\* REFUNDED.
RefundIsRecorded ==
  stars /\ (\A c \in Calls : Handler(c) # "refund") => "refund" \in stored

\* What a handler has acknowledged is in the database.
AckedIsStored ==
  \A c \in Calls : call[c].ok \notin {"none", "message"} => call[c].ok \in stored
=============================================================================
