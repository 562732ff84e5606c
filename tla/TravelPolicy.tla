--------------------------- MODULE TravelPolicy ---------------------------
(* The allowance of a local business trip, as a function of the trip, of   *)
(* the rule set in force on the day it starts, and of the distance of the  *)
(* classification path, which may be missing                               *)
(* (apps/travel-map/app/policy/engine.py, rules.py, coverage.py and the    *)
(* policy half of services/trip_preview.py).                               *)
EXTENDS Integers, FiniteSets

(* A private vehicle counts as none, the profile of Seoul's own officials as*)
(* NATIONAL: only the sources that are quoted differ.                      *)
Coverage == {"SEOUL", "BUFFER", "OUTSIDE"}
Profiles == {"INTERNAL_RULE", "NATIONAL", "NONPUBLIC"}
Vehicles == {"NONE", "OFFICIAL_OR_RENTED", "ASSIGNED_OFFICIAL"}

NoAmount   == -1
NoDistance == -1

(* A rule set holds the day it is effective from, two distances, the four  *)
(* hours in minutes, and three amounts of money.                           *)
RuleSets == [from : Nat, localBelow : Nat, actualUpTo : Nat, fourHours : Nat,
             under : Nat, orMore : Nat, deduction : Nat]

Trips == [coverage : Coverage, profile : Profiles, vehicle : Vehicles, day : Nat,
          minutes : Nat \ {0}, otherTrips : BOOLEAN, previous : Nat]

-----------------------------------------------------------------------------
(* What the repository of rules accepts when it is built.                  *)
ValidRule(r) ==
    /\ r.localBelow > 0 /\ r.actualUpTo > 0 /\ r.fourHours > 0
    /\ r.actualUpTo < r.localBelow
    /\ r.deduction <= r.under /\ r.under <= r.orMore

ValidRules(rules) ==
    /\ \A r \in rules : ValidRule(r)
    /\ \A r, s \in rules : r.from = s.from => r = s

Eligible(rules, day) == {r \in rules : r.from <= day}

(* for_date raises LookupError when no rule is eligible.                   *)
ForDate(rules, day) ==
    CHOOSE r \in Eligible(rules, day) : \A s \in Eligible(rules, day) : s.from <= r.from

Classify(trip, metres, rule) ==
    IF trip.coverage = "SEOUL" \/ metres < rule.localBelow THEN "LOCAL" ELSE "NON_LOCAL_EXPECTED"

Base(trip, rule) ==
    LET full == IF trip.minutes >= rule.fourHours THEN rule.orMore ELSE rule.under
        less == IF full < rule.deduction THEN 0 ELSE full - rule.deduction
    IN  IF trip.vehicle = "OFFICIAL_OR_RENTED" THEN less ELSE full

(* The rest of the ceiling, below zero once the ceiling is passed.         *)
RemainingBelowZero(trip, rule) == rule.orMore - trip.previous

Remaining(trip, rule) ==
    IF rule.orMore < trip.previous THEN 0 ELSE rule.orMore - trip.previous

Review(warning) == [status |-> "REVIEW_REQUIRED", amount |-> NoAmount, warning |-> warning]

Calculated(trip, amount) ==
    [status |-> IF trip.profile = "INTERNAL_RULE" THEN "REFERENCE_ESTIMATE" ELSE "ESTIMATED",
     amount |-> amount, warning |-> "NONE"]

(* PolicyEngine.calculate, in the order of its branches.                   *)
Allowance(trip, metres, rule) ==
    LET long == trip.minutes >= rule.fourHours
        base == Base(trip, rule)
        rest == Remaining(trip, rule)
    IN  IF Classify(trip, metres, rule) # "LOCAL" THEN Review("NON_LOCAL_ALLOWANCE_OUT_OF_SCOPE")
        ELSE IF trip.profile = "NONPUBLIC" THEN Review("NONE")
        ELSE IF trip.vehicle = "ASSIGNED_OFFICIAL" THEN Calculated(trip, 0)
        ELSE IF metres <= rule.actualUpTo THEN Review("NONE")
        ELSE IF trip.otherTrips /\ ~ long THEN Review("RULE_INTERPRETATION_UNVERIFIED")
        ELSE IF trip.otherTrips /\ rest < base THEN Calculated(trip, rest)
        ELSE Calculated(trip, base)

Calculate(trip, metres, rules) ==
    LET rule == ForDate(rules, trip.day)
    IN  [class |-> Classify(trip, metres, rule), allowance |-> Allowance(trip, metres, rule)]

-----------------------------------------------------------------------------
(* Both directions of the classification path, or no path at all.          *)
ClassificationDistance(outbound, returning) ==
    IF outbound = NoDistance \/ returning = NoDistance THEN NoDistance ELSE outbound + returning

(* Without a distance the rule set is still the one of the day, but the    *)
(* classification and the allowance are replaced.                          *)
PolicyResult(trip, metres, rules) ==
    IF metres # NoDistance THEN Calculate(trip, metres, rules)
    ELSE [class |-> IF trip.coverage = "SEOUL" THEN "LOCAL" ELSE "REVIEW_REQUIRED",
          allowance |-> Review("DATA_UNAVAILABLE")]

(* Outside the supported area nothing is routed and no rule is looked up.  *)
OutsideResult == [class |-> "REVIEW_REQUIRED", allowance |-> Review("OUT_OF_COVERAGE")]

Preview(trip, outbound, returning, rules) ==
    IF trip.coverage = "OUTSIDE" THEN OutsideResult
    ELSE PolicyResult(trip, ClassificationDistance(outbound, returning), rules)

-----------------------------------------------------------------------------
(* The allowance shown never takes a day above its ceiling, is never       *)
(* shown for a trip whose distance is not known both ways or that is not   *)
(* local, and a vehicle of the office never raises it.                     *)
AllowanceIsDue(trip, outbound, returning, rules) ==
    LET shown(vehicle) ==
            Preview([trip EXCEPT !.vehicle = vehicle], outbound, returning, rules).allowance.amount
        own  == shown(trip.vehicle)
        rule == ForDate(rules, trip.day)
    IN  /\ own # NoAmount =>
               /\ own \in 0 .. rule.orMore
               /\ trip.otherTrips /\ trip.previous <= rule.orMore =>
                      own + trip.previous <= rule.orMore
               /\ outbound # NoDistance /\ returning # NoDistance
               /\ trip.coverage = "SEOUL" \/ outbound + returning < rule.localBelow
        /\ shown("NONE") # NoAmount /\ shown("OFFICIAL_OR_RENTED") # NoAmount =>
               shown("OFFICIAL_OR_RENTED") <= shown("NONE")
=============================================================================
