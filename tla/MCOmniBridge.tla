---------------------------- MODULE MCOmniBridge ----------------------------
(***************************************************************************)
(* One TEE node, two chains, two roots with opposite verdicts on the one   *)
(* transaction, which users may execute once per chain and epoch.          *)
(***************************************************************************)
EXTENDS OmniBridge, TLC

CONSTANTS r1, r2, x1

MCRoots == {r1, r2}
MCEpochs == 0..MaxEpoch
MCProves(root, leaf) ==
  leaf \in Claims \cup (IF root = r1 THEN {<<x1, TRUE>>} ELSE {<<x1, FALSE>>})

\* Bound: no activations here.  No other call reads them; the run of OmniL1 has them.
NoActivation == \A e \in Epochs : activeIn[e].activeNodeCount = 0

\* The chains differ in nothing but their name, and no property is a liveness property.
AnyChain == Permutations(Chains)
=============================================================================
