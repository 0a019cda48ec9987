----------------------------- MODULE MCService -----------------------------
(* Service for TLC: a create and a resume, two callers of lookup and       *)
(* delete, one of close, and two identifiers of each kind to choose from.  *)
EXTENDS Service
=============================================================================
