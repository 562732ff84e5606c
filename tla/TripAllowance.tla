---------------------------- MODULE TripAllowance ----------------------------
(* What is promised of the allowance that is shown for a trip, under the   *)
(* rules the repository of rules holds                                     *)
(* (apps/travel-map/app/policy/rules.py, engine.py).                       *)
EXTENDS AlgorithmInput, Integers

CONSTANT Rules     \* the rule sets of the repository

Policy == INSTANCE TravelPolicy

(* validate_rule_set and the check for two sets of one day, made when the  *)
(* repository is built.                                                    *)
ASSUME RulesAssumption == Rules \subseteq Policy!RuleSets /\ Policy!ValidRules(Rules)

(* A trip of a day for which there are rules, and the length of its two    *)
(* ways where they are known.                                              *)
PolicyInputs ==
    {i \in [alg : {"policy"}, trip : Policy!Trips,
            out : Nat \cup {Policy!NoDistance}, back : Nat \cup {Policy!NoDistance}] :
        Policy!Eligible(Rules, i.trip.day) # {}}

(* No allowance above the day's ceiling, for an unknown distance, for a    *)
(* trip that is not local, or higher because of an office car              *)
(* (PolicyEngine.calculate, TripPreviewService._policy_result).            *)
AllowanceIsOwed ==
    input.alg = "policy" => Policy!AllowanceIsDue(input.trip, input.out, input.back, Rules)
=============================================================================
