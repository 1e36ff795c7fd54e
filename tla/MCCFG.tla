--------------------------------- MODULE MCCFG ---------------------------------
(***************************************************************************)
(* The CFG of every function of StructuredFunctions.                       *)
(***************************************************************************)
EXTENDS StructuredFunctions, CFG

\* The functions below follow the rules the proofs assume.
ASSUME RulesAssumption == \A f \in MCFunctions : IsStructured(f) => FollowsRules(f)

\* The rules are checked once, when a function is chosen.
StructuredInit == Init /\ IsStructured(func)
StructuredSpec == StructuredInit /\ [][Next]_vars /\ WF_vars(Next)
================================================================================
