----------------------------- MODULE MCSequencer -----------------------------
(***************************************************************************)
(* Three tokens for two slots, one log without a signature, timestamps     *)
(* that disagree with the order of arrival.                                *)
(***************************************************************************)
EXTENDS Sequencer

CONSTANTS t1, t2, t3, a1, a2

Log(timestamp, type, token, signed) ==
  [timestamp |-> timestamp, type |-> type, token |-> token,
   from |-> a1, to |-> a2, amount |-> 1, signed |-> signed]

MCLogs ==
  {Log(2, "transfer", t1, TRUE), Log(1, "mint", t2, TRUE), Log(1, "burn", t1, TRUE),
   Log(3, "transfer", t2, FALSE), Log(1, "approve", t3, TRUE)}
MCTokens == {t1, t2, t3}
=============================================================================
