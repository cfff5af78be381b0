----------------------------- MODULE Deployment -----------------------------
(***************************************************************************)
(* The background workers, the bot and the console next to one another, as *)
(* docker-compose runs them.  They share no variable of these modules, so  *)
(* every behaviour of the whole is one of each part with stuttering steps  *)
(* in between: it is enough to let one part move at a time and to hold the *)
(* others still.  Which part moves is chosen in the initial state.         *)
(***************************************************************************)
EXTENDS MtprotoBroadcast, Prober, Routing, Reminders, Console, Checkout

VARIABLE active

deploymentVars == <<active, vars, proberVars, rulesetVars, reminderVars, consoleVars, checkoutVars>>

Parts == {"broadcaster", "prober", "rulesets", "reminders", "console", "checkout"}

DeploymentInit ==
  /\ active \in Parts
  /\ Init /\ ProberInit /\ RulesetInit /\ RemindersInit /\ ConsoleInit /\ CheckoutInit

BroadcasterMoves ==
  /\ active = "broadcaster" /\ Next
  /\ UNCHANGED <<active, proberVars, rulesetVars, reminderVars, consoleVars, checkoutVars>>

ProberMoves ==
  /\ active = "prober" /\ ProberNext
  /\ UNCHANGED <<active, vars, rulesetVars, reminderVars, consoleVars, checkoutVars>>

RulesetsMove ==
  /\ active = "rulesets" /\ RulesetNext
  /\ UNCHANGED <<active, vars, proberVars, reminderVars, consoleVars, checkoutVars>>

RemindersMove ==
  /\ active = "reminders" /\ RemindersNext
  /\ UNCHANGED <<active, vars, proberVars, rulesetVars, consoleVars, checkoutVars>>

ConsoleMoves ==
  /\ active = "console" /\ ConsoleNext
  /\ UNCHANGED <<active, vars, proberVars, rulesetVars, reminderVars, checkoutVars>>

CheckoutMoves ==
  /\ active = "checkout" /\ CheckoutNext
  /\ UNCHANGED <<active, vars, proberVars, rulesetVars, reminderVars, consoleVars>>

DeploymentNext ==
  \/ BroadcasterMoves \/ ProberMoves \/ RulesetsMove
  \/ RemindersMove \/ ConsoleMoves \/ CheckoutMoves

DeploymentSpec == DeploymentInit /\ [][DeploymentNext]_deploymentVars

\* The loops of the workers keep running; the puller gets the locks it waits
\* for in the order of the requests; the API starts and closes its sessions.
WorkersFairness ==
  /\ WF_vars(active = "broadcaster" /\ WorkerStep)
  /\ WF_proberVars(active = "prober" /\ ProberStep)
  /\ SF_rulesetVars(active = "rulesets" /\ PullerStep)
  /\ WF_rulesetVars(active = "rulesets" /\ SeedSources)
  /\ \A f \in Feeds : WF_rulesetVars(active = "rulesets" /\ AdminCloses(f))

\* The API serves its requests, Redis expires what has a TTL, and the bot handles
\* what it is sent.
RequestsFairness ==
  /\ \A x \in Calls : WF_consoleVars(active = "console" /\ Advance(x))
  /\ \A k \in Limited : WF_consoleVars(active = "console" /\ WindowEnds(k))
  /\ \A x \in Charges : WF_checkoutVars(active = "checkout" /\ (BotStep(x) \/ Serve(x)))

\* What the workers promise rests on the first alone.
FairWorkers    == DeploymentSpec /\ WorkersFairness
FairDeployment == FairWorkers /\ RequestsFairness

-----------------------------------------------------------------------------
(* Properties                                                              *)

DeploymentTypeOK ==
  /\ TypeOK /\ ProberTypeOK /\ RulesetTypeOK /\ RemindersTypeOK
  /\ ConsoleTypeOK /\ CheckoutTypeOK
  /\ active \in Parts

\* The liveness properties of the parts, each while the part moves.
AllEntriesAreRead == active = "broadcaster" => EveryEntryIsRead
NodesAreJudged    == active = "prober" => ProberConverges
ListsAreFollowed  == active = "rulesets" => FeedsAreFollowed
LimitsLift        == active = "console" => LimitLifts
ChargesAreGranted == active = "checkout" => ChargeIsGranted
=============================================================================
