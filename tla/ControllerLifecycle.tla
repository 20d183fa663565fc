------------------------- MODULE ControllerLifecycle -------------------------
(***************************************************************************)
(* What a controller's recommendation promises, whatever evidence it keeps *)
(* to establish it.                                                        *)
(*                                                                         *)
(* A recommendation to promote stands on a window assessment newer than    *)
(* every sealed manifest; a deployment is observed only while such a       *)
(* recommendation stands; a rollback is recommended only for what was      *)
(* deployed; and a controller that once failed closed (held, rolled back   *)
(* or stale) never recommends anything again.                              *)
(***************************************************************************)
VARIABLES
    stage,    \* how far the recommendation got
    current,  \* the newest manifest is older than the last passing assessment
    deployed  \* a deployment of the recommended policy was observed

lifecycleVars == <<stage, current, deployed>>

LifecycleInit ==
    /\ stage = "preparing"
    /\ current = FALSE
    /\ deployed = FALSE

Confirm ==
    /\ stage = "preparing"
    /\ stage' = "confirmed"
    /\ UNCHANGED <<current, deployed>>

\* New evidence is sealed: what was assessed before is no longer current.
Seal ==
    /\ stage \in {"preparing", "confirmed", "recommended", "monitoring"}
    /\ stage' = IF stage = "recommended" THEN "confirmed" ELSE stage
    /\ current' = FALSE
    /\ UNCHANGED deployed

Recommend ==
    /\ stage = "confirmed"
    /\ stage' = "recommended"
    /\ current' = TRUE
    /\ UNCHANGED deployed

Deploy ==
    /\ stage = "recommended"
    /\ current
    /\ stage' = "monitoring"
    /\ deployed' = TRUE
    /\ UNCHANGED current

\* A deployed policy passes another window.
Reconfirm ==
    /\ stage = "monitoring"
    /\ current' = TRUE
    /\ UNCHANGED <<stage, deployed>>

Regress ==
    /\ stage = "monitoring"
    /\ deployed
    /\ stage' = "rollback"
    /\ current' = FALSE
    /\ UNCHANGED deployed

Hold ==
    /\ stage \in {"preparing", "confirmed", "monitoring"}
    /\ stage' = "held"
    /\ current' = FALSE
    /\ UNCHANGED deployed

\* A stale assessment, drift or expiry; the evidence itself may stay current.
GoStale ==
    /\ stage # "retired"
    /\ stage' = "stale"
    /\ current' \in {current, FALSE}
    /\ UNCHANGED deployed

Retire ==
    /\ stage # "retired"
    /\ stage' = "retired"
    /\ UNCHANGED <<current, deployed>>

LifecycleNext ==
    \/ Confirm \/ Seal \/ Recommend \/ Deploy \/ Reconfirm
    \/ Regress \/ Hold \/ GoStale \/ Retire

LifecycleSpec == LifecycleInit /\ [][LifecycleNext]_lifecycleVars

=============================================================================
