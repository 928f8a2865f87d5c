-------------------------------- MODULE Siren --------------------------------
(***************************************************************************)
(* What the fire alarm promises its callers: a siren that follows, sooner  *)
(* or later, what was last asked for, and that never changes to anything   *)
(* nobody is asking for at that moment.                                    *)
(***************************************************************************)
VARIABLES wanted, sounding

sirenVars == <<wanted, sounding>>

Init == wanted = FALSE /\ sounding = FALSE

Request == wanted' \in BOOLEAN /\ UNCHANGED sounding

Follow == sounding # wanted /\ sounding' = wanted /\ UNCHANGED wanted

Next == Request \/ Follow

Safety == Init /\ [][Next]_sirenVars
Spec   == Safety /\ WF_sirenVars(Follow)

=============================================================================
