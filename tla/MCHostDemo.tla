----------------------------- MODULE MCHostDemo -----------------------------
(***************************************************************************)
(* Values for HostDemo: every operation the simulator can make of two      *)
(* accounts and one token, which the host may register first or not.       *)
(***************************************************************************)
EXTENDS HostDemo

CONSTANTS a1, a2, t1

MCOperations ==
  [id : 0..2*MaxTx + 1, tx : 0..MaxTx, type : {"add", "sub"}, token : TokenIds,
   account : Accounts, amount : {1}, valid : BOOLEAN]

MCSubmitted == {o \in MCOperations : o.valid}

MCBucket(account, token) == account
MCHash(d) == IF d.count = 0 THEN "zeros" ELSE "head"
=============================================================================
