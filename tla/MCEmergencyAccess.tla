--------------------------- MODULE MCEmergencyAccess ---------------------------
(* EmergencyAccess alone, with a key, with waiting periods that have to be *)
(* waited for, and with one call at a time.                                *)
EXTENDS EmergencyAccess, TLC
=============================================================================
