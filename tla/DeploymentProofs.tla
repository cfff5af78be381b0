--------------------------- MODULE DeploymentProofs ---------------------------
(***************************************************************************)
(* The parts next to one another.  A step of the whole is a step of one    *)
(* part and a stuttering step of the others, so a behaviour of the whole   *)
(* is one of each part, and what the parts promise the whole keeps.        *)
(***************************************************************************)
EXTENDS Deployment, WorkersProofs, RulesetsProofs, RequestsProofs

LEMMA StepOfParts ==
  [DeploymentNext]_deploymentVars =>
    /\ [Next]_vars /\ [ProberNext]_proberVars /\ [RulesetNext]_rulesetVars
    /\ [RemindersNext]_reminderVars /\ [ConsoleNext]_consoleVars /\ [CheckoutNext]_checkoutVars
    /\ UNCHANGED active
  BY DEF DeploymentNext, deploymentVars, BroadcasterMoves, ProberMoves, RulesetsMove,
         RemindersMove, ConsoleMoves, CheckoutMoves

\* Every behaviour of the deployment is a behaviour of each of its parts.
THEOREM DeploymentOfParts ==
  DeploymentSpec => /\ Spec /\ ProberSpec /\ RulesetSpec
                    /\ RemindersSpec /\ ConsoleSpec /\ CheckoutSpec
  <1>1. DeploymentInit => /\ Init /\ ProberInit /\ RulesetInit
                          /\ RemindersInit /\ ConsoleInit /\ CheckoutInit
    BY DEF DeploymentInit
  <1> QED BY <1>1, StepOfParts, PTL
      DEF DeploymentSpec, Spec, ProberSpec, RulesetSpec, RemindersSpec, ConsoleSpec, CheckoutSpec

\* The states of all parts keep their types.
THEOREM DeploymentTypeCorrect == DeploymentSpec => []DeploymentTypeOK
  <1>1. DeploymentInit => active \in Parts
    BY DEF DeploymentInit
  <1>2. active \in Parts /\ [DeploymentNext]_deploymentVars => (active \in Parts)'
    BY StepOfParts
  <1>3. DeploymentSpec => [](active \in Parts)
    BY <1>1, <1>2, PTL DEF DeploymentSpec
  <1>4. /\ TypeOK /\ ProberTypeOK /\ RulesetTypeOK /\ RemindersTypeOK
        /\ ConsoleTypeOK /\ CheckoutTypeOK /\ active \in Parts
        => DeploymentTypeOK
    BY DEF DeploymentTypeOK
  <1> QED BY <1>3, <1>4, DeploymentOfParts, BroadcastTyped, ProberTypeCorrect, RulesetTypeCorrect,
             RemindersTypeCorrect, ConsoleTypeCorrect, CheckoutTypeCorrect, PTL

\* What the deployment keeps, whichever part moves: markers and answers of the
\* broadcaster, grounds of the prober's verdicts, one current list per source and
\* the routes made of it, reminders, limits, and the truth of the bot's answers.
DeploymentSafety ==
  /\ AckMeansSettled /\ OneAnswerPerEvent /\ NeverTheOldLink
  /\ VerdictBacked
  /\ CurrentIsLastGood /\ EnginesAgree /\ EveryRouteIsListed
  /\ OncePerUpset /\ RemindedInTime
  /\ LimitHolds /\ ToldTheTruth

\* The safety of every part holds of the deployment.
THEOREM DeploymentSafe == DeploymentSpec => []DeploymentSafety
  <1>1. /\ AckMeansSettled /\ OneAnswerPerEvent /\ NeverTheOldLink
        /\ VerdictBacked
        /\ CurrentIsLastGood /\ EnginesAgree /\ EveryRouteIsListed
        /\ OncePerUpset /\ RemindedInTime
        /\ LimitHolds /\ ToldTheTruth
        => DeploymentSafety
    BY DEF DeploymentSafety
  <1> QED BY <1>1, DeploymentOfParts, AcknowledgedSettled, AnsweredOnce, RevokedNotSent,
             VerdictsAreBacked, OneCurrentSnapshot, EnginesRouteAlike, RoutesAreListed,
             DeliveredOncePerUpset, EveryBucketReminded, LimitIsKept, AnswersAreTrue, PTL
=============================================================================
