----------------------------- MODULE MCBundles -----------------------------
(***************************************************************************)
(* BundleDistribution, for TLC: what the operator drafts is either always  *)
(* readable, so that one bundle can overtake another, or at times what an  *)
(* older client cannot read.                                               *)
(***************************************************************************)
EXTENDS BundleDistribution

CONSTANTS rules, newer

VARIABLE drafts  \* what the operator drafts in this behaviour

MCInit == Init /\ drafts \in {{Empty, rules}, {Empty, newer}}

MCNext == Next /\ draft' \in drafts /\ UNCHANGED drafts

MCSpec == MCInit /\ [][MCNext]_<<vars, drafts>> /\ Fairness
============================================================================
