---------------------------- MODULE MCVariableScope ----------------------------
(***************************************************************************)
(* The variables and the functions on which VariableScope is checked.      *)
(***************************************************************************)
EXTENDS StructuredFunctions, VariableScope

AccessesOf(S) ==
  {[x \in Blocks |-> IF x \in S THEN kind[x] ELSE "none"] : kind \in [S -> Accesses \ {"none"}]}

AccessesIn(sizes) == UNION {AccessesOf(S) : S \in {T \in SUBSET Blocks : Cardinality(T) \in sizes}}

FewAccesses == [role : Roles \ Results, access : AccessesIn(1 .. 2)]

\* Results which are used in up to two other blocks.
UsesOf(d, S) == [x \in Blocks |-> IF x = d THEN "write" ELSE IF x \in S THEN "read" ELSE "none"]
ResultsOf(f) ==
  {[role |-> r, access |-> UsesOf(d, S)] :
     r \in Results, d \in DOMAIN f, S \in {T \in SUBSET DOMAIN f : Cardinality(T) <= 2}}

\* A scalar with one more access: the analysis of loops only tells a store which
\* comes first from everything else.
LoopAccesses ==
  [role : {"scalar"}, access : {acc \in AccessesIn({3}) : \A x \in Blocks : acc[x] # "read"}]

MCVariablesOf(f) == FewAccesses \cup ResultsOf(f) \cup (IF IsForLoop(f) THEN LoopAccesses ELSE {})

\* They follow the rules the proofs assume.
FollowsConstructRules(f) ==
  /\ LoopsAreClosed(f) /\ BackEdgesStayInLoops(f) /\ TargetsAreUnique(f)
  /\ ConstructsAreLeftByExits(f) /\ ContinuesAreClosed(f) /\ LongContinuesStandAlone(f)

ASSUME RulesAssumption ==
  \A f \in MCScopedFunctions :
    IsStructured(f) => FollowsRules(f) /\ ContinuesAreDominated(f) /\ FollowsConstructRules(f)

StructuredScopeInit == ScopeInit /\ IsStructured(func)
StructuredScopeSpec == StructuredScopeInit /\ [][ScopeNext]_<<vars, scope_vars>>

\* return; and two blocks which nothing mentions.
DeadCode ==
  {<<Block("none", NoBlock, NoBlock, "exit", <<>>),
     Block("none", NoBlock, NoBlock, "direct", <<3>>),
     Block("none", NoBlock, NoBlock, "exit", <<>>)>>}

\* for (; condition; ) with a continue construct of two blocks.
ContinueChain ==
  {<<Block("none", NoBlock, NoBlock, "direct", <<2>>),
     Block("loop", 6, 4, "select", <<3, 6>>),
     Block("none", NoBlock, NoBlock, "direct", <<4>>),
     Block("none", NoBlock, NoBlock, "direct", <<5>>),
     Block("none", NoBlock, NoBlock, "direct", <<2>>),
     Block("none", NoBlock, NoBlock, "exit", <<>>)>>}
===============================================================================
