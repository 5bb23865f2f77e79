--------------------------- MODULE MCJobPersistence ---------------------------
(* The registry file with room for fewer jobs than may be remembered.        *)
EXTENDS JobPersistence

CONSTANTS j1, j2, j3
===============================================================================
