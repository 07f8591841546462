--------------------------- MODULE ServerProcess ----------------------------
(***************************************************************************)
(* What a process of "maubase serve" finds and makes when it starts, and   *)
(* what it loses when it stops: the keys stay in the database, the rate    *)
(* limiter of the process begins empty.  One process, Front, is watched    *)
(* for its limiter.                                                        *)
(***************************************************************************)
EXTENDS SigningKeys, RateLimiter

CONSTANT Front   \* the process whose limiter is modelled

ASSUME ServerAssumption == Front \in Servers

vars == <<keysVars, limiterVars>>

TypeOK == KeysTypeOK /\ LimiterTypeOK

Init == KeysInit /\ LimiterInit

\* run: a start of Front makes a new Limiter; its requests are gone.
StartFront ==
    /\ Start(Front)
    /\ buckets' = NoBuckets
    /\ attempt' = NoAttempts
    /\ admitted' = NoAdmissions
    /\ owed' = NothingOwed
    /\ stalled' = FALSE

\* Routes are mounted once everything before them is set up.
Serving == boot[Front].at = "up"

KeysStep ==
    /\ KeysNext
    /\ boot[Front].at = "down" => boot'[Front].at = "down"
    /\ UNCHANGED limiterVars

LimiterStep ==
    /\ Serving
    /\ LimiterNext
    /\ UNCHANGED keysVars

Next == StartFront \/ KeysStep \/ LimiterStep

Spec == Init /\ [][Next]_vars
=============================================================================
