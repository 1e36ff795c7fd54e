----------------------------- MODULE MCForwarding -----------------------------
(***************************************************************************)
(* Forwarding on the families of FunctionBodies.                           *)
(***************************************************************************)
EXTENDS FunctionBodies, Forwarding

\* The bodies of the families are ones the theorems are about: those without
\* loops for what is read, and all of them for what is computed.
StraightLineFamilies ==
  {<<"memory", 4>>, <<"calls", 3>>, <<"control", 3>>, <<"indexing", 4>>, <<"references", 3>>}
LoopingFamilies == {<<"looping", 6>>}

ASSUME FamiliesAreStraightLine ==
  \A f \in StraightLineFamilies : \A p \in Bodies(f[1], f[2]) : StraightLine(p)

ASSUME FamiliesKeepResultsInLoops ==
  \A f \in StraightLineFamilies \cup LoopingFamilies :
    \A p \in Bodies(f[1], f[2]) : LoopsNest(p) /\ ResultsStayOutOfOtherLoops(p)

ASSUME FamiliesLoadIndices ==
  \A f \in (StraightLineFamilies \ {<<"indexing", 4>>}) \cup LoopingFamilies :
    \A p \in Bodies(f[1], f[2]) : IndicesAreLoaded(p)
===============================================================================
