---------------------------- MODULE MCEventJournal ----------------------------
(***************************************************************************)
(* The instance of EventJournal that TLC checks: one order that is         *)
(* accepted, traded, replaced by itself, cancelled and accepted again, two *)
(* numbers and three records, so that a batch can fail in the middle, the  *)
(* next one follows it, and a later open judges the file.  The first crash *)
(* may take the journal whole, and a second can then judge the new one.    *)
(***************************************************************************)
EXTENDS EventJournal

CONSTANTS k1
=============================================================================
