---------------------------- MODULE RedactionMC ----------------------------
(***************************************************************************)
(* Keys for Redaction: a sensitive one in two cases, one that only a       *)
(* caller's extra keys make sensitive, and a harmless one.                 *)
(***************************************************************************)
EXTENDS Redaction

LowerCase == [email |-> "email", Email |-> "email", income |-> "income", note |-> "note"]

WithAndWithout == {{}, {"income"}}
=============================================================================
