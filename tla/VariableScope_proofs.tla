-------------------------- MODULE VariableScope_proofs --------------------------
(***************************************************************************)
(* Proofs about analyze_variable_scope, on top of what is proved about the *)
(* constructor of CFG.                                                     *)
(***************************************************************************)
EXTENDS VariableScope, CFG_structured_proofs

-------------------------------------------------------------------------------
\* The analysis starts when the CFG is finished, and leaves it alone.
LEMMA ScopeStepIsCFGStep == ScopeNext => [Next]_vars
<1> SUFFICES ASSUME ScopeNext PROVE [Next]_vars
  OBVIOUS
<1>1. CASE BuildCFG
  BY <1>1 DEF BuildCFG
<1>2. CASE CollectAccesses
  BY <1>2 DEF CollectAccesses
<1>3. CASE analyze_parameter_preservation
  BY <1>3 DEF analyze_parameter_preservation
<1>4. CASE FindLoopDominators
  BY <1>4 DEF FindLoopDominators
<1>5. CASE AddAccess
  BY <1>5 DEF AddAccess
<1>6. CASE ChooseDominator
  BY <1>6 DEF ChooseDominator
<1>7. CASE FindLoopVariable
  BY <1>7 DEF FindLoopVariable
<1>8. CASE AddTemporaryAccess
  BY <1>8 DEF AddTemporaryAccess
<1>9. CASE DeclareTemporary
  BY <1>9 DEF DeclareTemporary
<1> QED
  BY <1>1, <1>2, <1>3, <1>4, <1>5, <1>6, <1>7, <1>8, <1>9 DEF ScopeNext

LEMMA ScopeBuildsCFG == ScopeSpec => Spec
<1>1. ScopeInit => Init
  BY DEF ScopeInit
<1>2. [ScopeNext]_<<vars, scope_vars>> => [Next]_vars
  BY ScopeStepIsCFGStep
<1> QED
  BY <1>1, <1>2, PTL DEF ScopeSpec, Spec

-------------------------------------------------------------------------------
(* DominatorBuilder.                                                       *)

\* Block d has the dominators which all the reachable blocks of set A have.
IsClosest(d, A) ==
  LET reached == {x \in A : order[x] # 0}
  IN IF reached = {} THEN d = NoBlock
     ELSE d \in Numbered /\ \A z \in Blocks : z \in Dom(d) <=> \A x \in reached : z \in Dom(x)

LEMMA AddBlockIsClosest ==
  ASSUME Built, NEW A \in SUBSET Blocks, NEW d, IsClosest(d, A), NEW x \in Blocks
  PROVE  IsClosest(add_block(d, x), A \cup {x})
<1> DEFINE old == {y \in A : order[y] # 0}
           new == {y \in A \cup {x} : order[y] # 0}
<1>1. /\ NoBlock \notin Blocks /\ (idom[x] # NoBlock <=> x \in Numbered)
      /\ order[x] \in Nat
  BY TheTree
<1>2. CASE x \notin Numbered
  <2>1. new = old
    BY <1>2 DEF Numbered
  <2>2. add_block(d, x) = d
    BY <1>1, <1>2 DEF add_block
  <2> QED
    BY <2>1, <2>2 DEF IsClosest
<1>3. CASE x \in Numbered
  <2>1. new = old \cup {x} /\ new # {}
    BY <1>3 DEF Numbered
  <2>2. /\ add_block(d, x) \in Numbered
        /\ \A z \in Blocks : z \in Dom(add_block(d, x)) <=> \A y \in new : z \in Dom(y)
    <3>1. CASE d = NoBlock
      <4>1. add_block(d, x) = x
        BY <1>1, <1>3, <3>1 DEF add_block
      <4>2. old = {}
        BY <1>1, <3>1 DEF IsClosest, Numbered
      <4> HIDE DEF old, new
      <4> QED
        BY <1>3, <2>1, <4>1, <4>2
    <3>2. CASE d # NoBlock
      <4>1. d \in Numbered /\ \A z \in Blocks : z \in Dom(d) <=> \A y \in old : z \in Dom(y)
        BY <3>2 DEF IsClosest
      <4>2. CASE d = x
        <5>1. add_block(d, x) = x
          BY <1>1, <1>3, <4>2 DEF add_block
        <5> HIDE DEF old, new
        <5> QED
          BY <1>3, <2>1, <4>1, <4>2, <5>1
      <4>3. CASE d # x
        <5>1. add_block(d, x) = find_common_dominator(x, d)
          BY <1>1, <1>3, <3>2, <4>3 DEF add_block
        <5>2. add_block(d, x) \in Numbered /\ Dom(add_block(d, x)) = Dom(x) \cap Dom(d)
          BY <5>1, <1>3, <4>1, CommonDominatorIsRight
        <5> HIDE DEF old, new
        <5> QED
          BY <2>1, <4>1, <5>2
      <4> QED
        BY <4>2, <4>3
    <3> QED
      BY <3>1, <3>2
  <2> QED
    BY <2>1, <2>2 DEF IsClosest
<1> QED
  BY <1>2, <1>3

\* What is given to the builder: blocks of the function, and headers for the
\* continue blocks.
BuilderInv ==
  /\ stage \in {"cfg", "parameter", "loops", "accesses", "loop_variable", "temporaries",
                "end", "thrown"}
  /\ stage # "cfg" => phase = "done"
  /\ pending \subseteq Blocks /\ added \subseteq Blocks
  /\ stage \in {"cfg", "parameter", "loops"} => builder = NoBlock /\ added = {}
  /\ stage \in {"accesses", "temporaries"} => IsClosest(builder, added)

\* The header of a continue block is a block.
LEMMA HeadersAreBlocks ==
  ASSUME Built, NEW x \in Blocks, is_continue(x)
  PROVE  /\ continue_block_to_loop_header(x) \in ContinueOf(x) \ {x}
         /\ continue_block_to_loop_header(x) \in Ids /\ continue_block_to_loop_header(x) \in Blocks
<1>1. \E h \in ContinueOf(x) : h # x
  BY DEF is_continue
<1>2. continue_block_to_loop_header(x) \in ContinueOf(x) \ {x}
  BY <1>1 DEF continue_block_to_loop_header
<1>3. ContinueOf(x) \subseteq Ids /\ Ids \subseteq Blocks
  BY Branches DEF ContinueOf, Headers, Ids, Built, IInv, TypeInv
<1> QED
  BY <1>2, <1>3

LEMMA BuilderStep == Built /\ BuilderInv /\ ScopeNext /\ stage # "cfg" => BuilderInv'
<1> SUFFICES ASSUME Built, BuilderInv, ScopeNext, stage # "cfg" PROVE BuilderInv'
  OBVIOUS
<1>1. phase = "done"
  BY DEF BuilderInv
<1>2. CASE analyze_parameter_preservation
  BY <1>2, <1>1 DEF analyze_parameter_preservation, BuilderInv, vars
<1>3. CASE FindLoopDominators
  <2>1. /\ stage' \in {"accesses", "temporaries"} /\ pending' = Accessed /\ stage = "loops"
        /\ added' = added /\ builder' = builder /\ vars' = vars
    BY <1>3 DEF FindLoopDominators
  <2>2. Accessed \subseteq Blocks /\ added = {} /\ builder = NoBlock /\ phase' = "done"
    BY <2>1, <1>1 DEF Accessed, BuilderInv, vars
  <2>3. IsClosest(builder, added)'
    BY <2>1, <2>2 DEF IsClosest
  <2> QED
    BY <2>1, <2>2, <2>3 DEF BuilderInv
<1>4. CASE AddAccess
  <2>1. PICK x \in pending :
          /\ builder' = add_block(IF LiftedAccess(x) = {} THEN builder
                                  ELSE add_block(builder, continue_block_to_loop_header(x)), x)
          /\ pending' = pending \ {x}
          /\ added' = added \cup {x} \cup LiftedAccess(x)
    BY <1>4 DEF AddAccess
  <2>2. /\ stage = "accesses" /\ stage' = stage /\ vars' = vars /\ x \in Blocks
        /\ IsClosest(builder, added) /\ added \subseteq Blocks /\ pending \subseteq Blocks
    BY <1>4 DEF AddAccess, BuilderInv
  <2>3. IsClosest(builder', added') /\ added' \subseteq Blocks
    <3>1. CASE LiftedAccess(x) = {}
      <4>1. builder' = add_block(builder, x) /\ added' = added \cup {x}
        BY <2>1, <3>1
      <4> QED
        BY <2>2, <4>1, AddBlockIsClosest
    <3>2. CASE LiftedAccess(x) # {}
      <4> DEFINE h == continue_block_to_loop_header(x)
                 d == add_block(builder, h)
                 A == added \cup {h}
      <4>1. is_continue(x) /\ LiftedAccess(x) = {h}
        BY <3>2 DEF LiftedAccess
      <4>2. h \in Blocks
        BY <4>1, <2>2, HeadersAreBlocks
      <4>3. IsClosest(d, A) /\ A \in SUBSET Blocks
        BY <4>2, <2>2, AddBlockIsClosest
      <4>4. builder' = add_block(d, x) /\ added' = A \cup {x}
        BY <2>1, <3>2, <4>1
      <4> HIDE DEF d, A
      <4>5. IsClosest(add_block(d, x), A \cup {x})
        BY <4>3, <2>2, AddBlockIsClosest
      <4> QED
        BY <4>3, <4>4, <4>5, <2>2
    <3> QED
      BY <3>1, <3>2
  <2>4. IsClosest(builder, added)' <=> IsClosest(builder', added')
    BY <2>2 DEF IsClosest, Numbered, vars, traversal, Dom, Dominates, RecordedFlow, EdgesInto, edges
  <2> QED
    BY <1>1, <2>1, <2>2, <2>3, <2>4 DEF BuilderInv, vars
<1>5. CASE ChooseDominator
  BY <1>5, <1>1 DEF ChooseDominator, BuilderInv, vars
<1>6. CASE FindLoopVariable
  BY <1>6, <1>1 DEF FindLoopVariable, BuilderInv, vars
<1>7. CASE AddTemporaryAccess
  <2>1. PICK x \in pending :
          /\ builder' = IF LiftedUse(x) = {} THEN add_block(builder, x)
                        ELSE add_block(add_block(builder, x), continue_block_to_loop_header(x))
          /\ pending' = pending \ {x}
          /\ added' = added \cup {x} \cup LiftedUse(x)
    BY <1>7 DEF AddTemporaryAccess
  <2>2. /\ stage = "temporaries" /\ stage' = stage /\ vars' = vars /\ x \in Blocks
        /\ IsClosest(builder, added) /\ added \subseteq Blocks /\ pending \subseteq Blocks
    BY <1>7 DEF AddTemporaryAccess, BuilderInv
  <2>3. IsClosest(builder', added') /\ added' \subseteq Blocks
    <3> DEFINE h == continue_block_to_loop_header(x)
               d == add_block(builder, x)
               A == added \cup {x}
    <3>1. IsClosest(d, A) /\ A \in SUBSET Blocks
      BY <2>2, AddBlockIsClosest
    <3>2. CASE LiftedUse(x) = {}
      BY <2>1, <3>1, <3>2
    <3>3. CASE LiftedUse(x) # {}
      <4>1. is_continue(x) /\ LiftedUse(x) = {h}
        BY <3>3 DEF LiftedUse, LiftedAccess
      <4>2. h \in Blocks
        BY <4>1, <2>2, HeadersAreBlocks
      <4>3. builder' = add_block(d, h) /\ added' = A \cup {h}
        BY <2>1, <3>3, <4>1
      <4> HIDE DEF d, A
      <4>4. IsClosest(add_block(d, h), A \cup {h})
        BY <3>1, <4>2, AddBlockIsClosest
      <4> QED
        BY <3>1, <4>2, <4>3, <4>4
    <3> QED
      BY <3>2, <3>3
  <2>4. IsClosest(builder, added)' <=> IsClosest(builder', added')
    BY <2>2 DEF IsClosest, Numbered, vars, traversal, Dom, Dominates, RecordedFlow, EdgesInto, edges
  <2> QED
    BY <1>1, <2>1, <2>2, <2>3, <2>4 DEF BuilderInv, vars
<1>8. CASE DeclareTemporary
  BY <1>8, <1>1 DEF DeclareTemporary, BuilderInv, vars
<1> QED
  BY <1>2, <1>3, <1>4, <1>5, <1>6, <1>7, <1>8 DEF ScopeNext, BuildCFG, CollectAccesses

LEMMA BuilderInvariance == ScopeSpec => []BuilderInv
<1>1. ScopeInit => BuilderInv
  BY DEF ScopeInit, BuilderInv
<1>2. IInv /\ DomInv /\ UnnumberedInv /\ BuilderInv /\ [ScopeNext]_<<vars, scope_vars>> => BuilderInv'
  <2> SUFFICES ASSUME IInv, DomInv, UnnumberedInv, BuilderInv, [ScopeNext]_<<vars, scope_vars>>
               PROVE  BuilderInv'
    OBVIOUS
  <2>1. CASE stage # "cfg" /\ ScopeNext
    <3>1. Built
      BY <2>1 DEF Built, BuilderInv
    <3> QED
      BY <2>1, <3>1, BuilderStep
  <2>2. CASE stage = "cfg" /\ ScopeNext
    <3>1. CASE BuildCFG
      BY <2>2, <3>1 DEF BuildCFG, BuilderInv, scope_vars
    <3>2. CASE CollectAccesses
      BY <2>2, <3>2 DEF CollectAccesses, BuilderInv, vars
    <3> QED
      BY <2>2, <3>1, <3>2 DEF ScopeNext, analyze_parameter_preservation, FindLoopDominators, AddAccess,
           ChooseDominator, FindLoopVariable, AddTemporaryAccess, DeclareTemporary
  <2>3. CASE UNCHANGED <<vars, scope_vars>>
    BY <2>3 DEF BuilderInv, IsClosest, Numbered, vars, scope_vars, traversal, Dom, Dominates,
         RecordedFlow, EdgesInto, edges
  <2> QED
    BY <2>1, <2>2, <2>3
<1>3. ScopeSpec => [](IInv /\ DomInv /\ UnnumberedInv)
  BY ScopeBuildsCFG, Invariance, DomInvariance, UnnumberedInvariance, PTL
<1> QED
  BY <1>1, <1>2, <1>3, PTL DEF ScopeSpec

\* Whatever the order in which the accesses come, the builder holds the closest
\* common dominator of the reachable blocks it was given, for every function.
THEOREM OrderNeverMatters == ScopeSpec => []OrderDoesNotMatter
<1>1. IInv /\ DomInv /\ UnnumberedInv /\ BuilderInv => OrderDoesNotMatter
  <2> SUFFICES ASSUME IInv, DomInv, UnnumberedInv, BuilderInv, stage \in {"accesses", "temporaries"}
               PROVE  LET reached == {x \in added : order[x] # 0}
                          common == {d \in Numbered : \A x \in reached : d \in DominatorsOf(x)}
                      IN IF reached = {} THEN builder = NoBlock
                         ELSE builder \in common /\ common \subseteq DominatorsOf(builder)
    BY DEF OrderDoesNotMatter
  <2> DEFINE reached == {x \in added : order[x] # 0}
  <2>1. Built /\ IsClosest(builder, added) /\ added \subseteq Blocks /\ phase = "done"
    BY DEF Built, BuilderInv
  <2>2. \A x \in Numbered : DominatorsOf(x) = Dom(x) /\ Dom(x) \subseteq Numbered
    BY <2>1, TreeIsDominance
  <2>3. reached \subseteq Numbered
    BY <2>1 DEF Numbered
  <2>4. CASE reached = {}
    BY <2>1, <2>4 DEF IsClosest
  <2>5. CASE reached # {}
    <3>1. builder \in Numbered /\ \A z \in Blocks : z \in Dom(builder) <=> \A x \in reached : z \in Dom(x)
      BY <2>1, <2>5 DEF IsClosest
    <3>2. builder \in Dom(builder) /\ builder \in Blocks
      BY <3>1, <2>1, DomOfItself DEF Built, IInv, Numbered
    <3>3. Numbered \subseteq Blocks
      BY DEF Numbered
    <3> HIDE DEF reached
    <3>4. \A d \in Numbered : (\A x \in reached : d \in DominatorsOf(x)) <=> d \in DominatorsOf(builder)
      BY <2>2, <2>3, <3>1, <3>3
    <3> QED
      BY <2>2, <2>5, <3>1, <3>2, <3>4 DEF reached
  <2> QED
    BY <2>4, <2>5
<1> QED
  BY <1>1, BuilderInvariance, ScopeBuildsCFG, Invariance, DomInvariance, UnnumberedInvariance, PTL

-------------------------------------------------------------------------------
(* Parameter preservation.                                                 *)

\* What the search for a return computes: a set of blocks which the equation of
\* its recursion describes.
Searched(open, stores) ==
  /\ open \in SUBSET Blocks
  /\ \A x \in Blocks : x \in open <=>
       x \notin stores /\ (Successors(x) = {} \/ \E y \in Successors(x) : y \in open)
  /\ exists_unaccessed_path_to_return(stores) <=> Entry \in open

LEMMA OpenBlocks ==
  ASSUME NEW stores, Entry \in Blocks
  PROVE  \E open : Searched(open, stores)
<1> DEFINE Body(X, x) == x \notin stores /\ (Successors(x) = {} \/ \E y \in Successors(x) : y \in X)
           Closed(X) == \A x \in Blocks : Body(X, x) => x \in X
           P == {x \in Blocks : \A X \in SUBSET Blocks : Closed(X) => x \in X}
           Is(open) == open = [x \in Blocks |->
                          x \notin stores /\ (Successors(x) = {} \/ \E y \in Successors(x) : open[y])]
\* The least set closed under the equation is a solution
<1>1. \A x \in Blocks : Body(P, x) => x \in P
  <2> SUFFICES ASSUME NEW x \in Blocks, Body(P, x), NEW X \in SUBSET Blocks, Closed(X) PROVE x \in X
    OBVIOUS
  <2>1. P \subseteq X
    OBVIOUS
  <2>2. Body(X, x)
    BY <2>1
  <2> QED
    BY <2>2
<1>2. \A x \in P : Body(P, x)
  <2> DEFINE Q == {x \in P : Body(P, x)}
  <2>1. \A x \in Blocks : Body(Q, x) => Body(P, x)
    OBVIOUS
  <2>2. Closed(Q)
    BY <2>1, <1>1
  <2>3. Q \in SUBSET Blocks
    OBVIOUS
  <2> HIDE DEF Q, Closed
  <2>4. P \subseteq Q
    BY <2>2, <2>3
  <2> QED
    BY <2>4 DEF Q
<1>3. Successors(Entry) \subseteq Blocks /\ \A x : Successors(x) \subseteq Blocks
  BY DEF Successors
<1> HIDE DEF P, Closed
<1>4. Is([x \in Blocks |-> x \in P])
  <2> DEFINE f == [x \in Blocks |-> x \in P]
  <2>1. ASSUME NEW x \in Blocks PROVE (\E y \in Successors(x) : f[y]) <=> (\E y \in Successors(x) : y \in P)
    BY <1>3, Zenon
  <2>2. ASSUME NEW x \in Blocks PROVE x \in P <=> Body(P, x)
    BY <1>1, <1>2
  <2>3. ASSUME NEW x \in Blocks
        PROVE  f[x] = (x \notin stores /\ (Successors(x) = {} \/ \E y \in Successors(x) : f[y]))
    <3>1. f[x] = (x \in P)
      BY Zenon
    <3> HIDE DEF f
    <3>2. x \in P <=> x \notin stores /\ (Successors(x) = {} \/ \E y \in Successors(x) : f[y])
      BY <2>1, <2>2, Zenon
    <3>3. (x \in P) = (x \notin stores /\ (Successors(x) = {} \/ \E y \in Successors(x) : f[y]))
      <4> DEFINE q == \E y \in Successors(x) : f[y]
      <4>1. q \in BOOLEAN
        BY Zenon
      <4>2. x \in P <=> x \notin stores /\ (Successors(x) = {} \/ q)
        BY <3>2, Zenon
      <4> HIDE DEF q
      <4>3. (x \in P) = (x \notin stores /\ (Successors(x) = {} \/ q))
        BY <4>1, <4>2, SMT
      <4> QED
        BY <4>3 DEF q
    <3> QED
      BY <3>1, <3>3, Zenon
  <2>4. f = [x \in Blocks |-> f[x]]
    BY Zenon
  <2>5. Is(f)
    <3> HIDE DEF f
    <3> QED
      BY <2>3, <2>4, Zenon
  <2> HIDE DEF Is
  <2> QED
    BY <2>5 DEF f
<1> DEFINE c == CHOOSE open : Is(open)
<1>5. Is(c)
  <2> HIDE DEF Is
  <2> QED
    BY <1>4
<1>6. exists_unaccessed_path_to_return(stores) = c[Entry]
  BY DEF exists_unaccessed_path_to_return
<1> HIDE DEF c
<1>7. \A x \in Blocks : c[x] = (x \notin stores /\ (Successors(x) = {} \/ \E y \in Successors(x) : c[y]))
  BY <1>5, Zenon
<1> DEFINE O == {x \in Blocks : c[x] = TRUE}
<1>8. \A x \in Blocks : c[x] \in BOOLEAN
  BY <1>7, Zenon
<1>9. \A x \in Blocks : x \in O <=> c[x]
  BY <1>8, Zenon
<1> HIDE DEF O
<1>10. \A x \in Blocks : x \in O <=>
         x \notin stores /\ (Successors(x) = {} \/ \E y \in Successors(x) : y \in O)
  BY <1>3, <1>7, <1>9, Zenon
<1>11. O \in SUBSET Blocks
  BY DEF O
<1>12. exists_unaccessed_path_to_return(stores) <=> Entry \in O
  BY <1>6, <1>9, Zenon
<1> QED
  BY <1>10, <1>11, <1>12 DEF Searched

\* Whatever part of the program is left out: what it reaches, it reaches without the
\* branches which lead back.
LEMMA ForwardReaches ==
  ASSUME Built, StructureInv, TargetInv, NEW flow \in SUBSET RealFlow
  PROVE  LET forward == {e \in flow : e[1] \in Elements(preceding[e[2]])}
             D == ReachableWithout(forward, NoBlock)
         IN /\ ReachableWithout(flow, NoBlock) \subseteq D /\ D \subseteq Numbered /\ Entry \in D
            /\ forward \in SUBSET (Blocks \X Blocks)
<1> DEFINE forward == {e \in flow : e[1] \in Elements(preceding[e[2]])}
           D == ReachableWithout(forward, NoBlock)
<1>1. /\ TypeInv /\ EdgesDescend /\ FollowsRules(func) /\ Entry \in Blocks /\ NoBlock \notin Blocks
      /\ Ids \subseteq Blocks /\ Entry \in Numbered /\ Numbered \subseteq Ids /\ func \in Functions
      /\ OnlyBranchesInv
  <2>1. TypeInv /\ EdgesDescend /\ FollowsRules(func) /\ RecordInv /\ OnlyBranchesInv
    BY DEF Built, IInv, StructureInv
  <2> QED
    BY <2>1, TheTree, Branches DEF TypeInv, Numbered, RecordInv
<1>2. /\ RealFlow \in SUBSET (Blocks \X Blocks) /\ RealFlow \subseteq VisitFlow(func)
      /\ VisitFlow(func) \in SUBSET (Blocks \X Blocks)
      /\ \A z, w : <<z, w>> \in RealFlow <=> z \in Ids /\ w \in Elements(func[z].targets)
      /\ \A e \in RealFlow : e = <<e[1], e[2]>>
  <2>1. \A z \in Ids : Elements(func[z].targets) \subseteq Elements(BranchesOf(z))
    BY <1>1, Branches
  <2>2. \A z, w : <<z, w>> \in RealFlow <=> z \in Ids /\ w \in Elements(func[z].targets)
    BY DEF RealFlow, Ids
  <2>3. \A e \in RealFlow : e = <<e[1], e[2]>>
    BY DEF RealFlow
  <2>4. VisitFlow(func) \in SUBSET (Blocks \X Blocks)
    BY <1>1, VisitFlowIsBranches
  <2>5. RealFlow \subseteq VisitFlow(func)
    BY DEF RealFlow, VisitFlow
  <2> QED
    BY <2>2, <2>3, <2>4, <2>5
<1>3. flow \in SUBSET (Blocks \X Blocks) /\ forward \in SUBSET (Blocks \X Blocks)
  BY <1>2
<1>4. /\ D \subseteq Blocks /\ Entry \in D
      /\ \A e \in forward : e[1] \in D => e[2] \in D
  <2>1. /\ D \subseteq Blocks /\ (Entry # NoBlock => Entry \in D) /\ IsClosedWithout(forward, NoBlock, D)
    BY <1>1, <1>3, ReachableIsClosed
  <2>2. \A e \in forward : e[2] # NoBlock
    BY <1>1, <1>3
  <2> QED
    BY <1>1, <2>1, <2>2 DEF IsClosedWithout
<1>5. D \subseteq Numbered
  <2>1. Entry # NoBlock => Entry \in Numbered
    BY <1>1
  <2>2. IsClosedWithout(forward, NoBlock, Numbered)
    <3> SUFFICES ASSUME NEW e \in forward PROVE e[2] \in Numbered
      BY DEF IsClosedWithout
    <3>1. e[2] \in Blocks /\ e[1] \in Elements(preceding[e[2]])
      BY <1>3
    <3> QED
      BY <1>1, <3>1 DEF EdgesDescend, Numbered
  <2> QED
    BY <1>1, <1>3, <2>1, <2>2, ReachableIsLeast
\* A branch backwards leads to a block the search has passed
<1>6. ReachableWithout(flow, NoBlock) \subseteq D
  <2>1. IsClosedWithout(flow, NoBlock, D)
    <3> SUFFICES ASSUME NEW e \in flow, e[1] \in D, e[2] \notin D PROVE FALSE
      BY DEF IsClosedWithout
    <3>1. e[1] \in Blocks /\ order[e[1]] # 0 /\ e[2] \in Elements(func[e[1]].targets) /\ e[2] \in Blocks
      BY <1>2, <1>3, <1>5 DEF Numbered
    <3>2. e[1] \notin Elements(preceding[e[2]])
      BY <1>4
    <3>3. e[1] \notin Without(e[2])
      BY <3>1, <3>2 DEF TargetInv, Dominates, Without
    <3>4. D \subseteq Without(e[2])
      <4>1. Entry \in Without(e[2])
        BY <1>1, <1>4, WithoutIsClosed
      <4>2. IsClosedWithout(forward, NoBlock, D \cap Without(e[2]))
        <5> SUFFICES ASSUME NEW d \in forward, d[1] \in D, d[1] \in Without(e[2])
                     PROVE  d[2] \in D /\ d[2] \in Without(e[2])
          BY DEF IsClosedWithout
        <5>1. d[2] \in D /\ d[2] # e[2]
          BY <1>4
        <5>2. <<d[1], d[2]>> \in VisitFlow(func)
          BY <1>2
        <5> QED
          BY <1>1, <5>1, <5>2, WithoutIsClosed
      <4>3. D \subseteq D \cap Without(e[2])
        <5> DEFINE S == D \cap Without(e[2])
        <5>1. Entry \in S /\ IsClosedWithout(forward, NoBlock, S)
          BY <1>4, <4>1, <4>2
        <5> HIDE DEF S, forward
        <5> QED
          BY <1>1, <1>3, <5>1, ReachableIsLeast DEF S
      <4> QED
        BY <4>3
    <3> QED
      BY <3>3, <3>4
  <2> HIDE DEF D
  <2> QED
    BY <1>1, <1>3, <1>4, <2>1, ReachableIsLeast
<1> QED
  BY <1>3, <1>4, <1>5, <1>6

\* An execution which comes to a return without a store is found by the search,
\* although the search does not follow the branches which lead back.
LEMMA UnwrittenPathIsFound ==
  ASSUME Built, StructureInv, TargetInv, NEW stores \in SUBSET Blocks,
         NEW x \in ReachableWithout({e \in RealFlow : {e[1], e[2]} \cap stores = {}}, NoBlock),
         x \notin stores, func[x].terminator = "exit"
  PROVE  exists_unaccessed_path_to_return(stores)
<1> DEFINE flow == {e \in RealFlow : {e[1], e[2]} \cap stores = {}}
           forward == {e \in flow : e[1] \in Elements(preceding[e[2]])}
           D == ReachableWithout(forward, NoBlock)
<1>1. /\ TypeInv /\ FollowsRules(func) /\ Entry \in Blocks /\ NoBlock \notin Blocks
      /\ Ids \subseteq Blocks /\ Numbered \subseteq Ids /\ func \in Functions /\ OnlyBranchesInv
  <2>1. TypeInv /\ FollowsRules(func) /\ RecordInv /\ OnlyBranchesInv
    BY DEF Built, IInv, StructureInv
  <2> QED
    BY <2>1, TheTree, Branches DEF TypeInv, Numbered, RecordInv
<1>2. flow \in SUBSET RealFlow
  OBVIOUS
<1>3. forward \in SUBSET (Blocks \X Blocks)
  BY <1>2, ForwardReaches
<1>4. D \subseteq Numbered /\ Entry \in D
  BY <1>2, ForwardReaches
<1>5. Numbered \subseteq Blocks
  BY DEF Numbered
<1>6. ReachableWithout(flow, NoBlock) \subseteq D
  BY <1>2, ForwardReaches
\* The search is right about the blocks it passes
<1>7. PICK open : Searched(open, stores)
  BY <1>1, OpenBlocks
<1> SUFFICES ASSUME Entry \notin open PROVE FALSE
  BY <1>7 DEF Searched
<1>8. D \subseteq Blocks \ open
  <2>1. IsClosedWithout(forward, NoBlock, Blocks \ open)
    <3> SUFFICES ASSUME NEW e \in forward, e[1] \in Blocks \ open PROVE e[2] \in Blocks \ open
      BY DEF IsClosedWithout
    <3>1. e[1] \notin stores /\ e[2] \in Blocks /\ e[1] \in Elements(preceding[e[2]])
      BY <1>3
    <3>2. e[2] \in Successors(e[1])
      BY <3>1 DEF Successors
    <3> QED
      BY <1>7, <3>1, <3>2 DEF Searched
  <2> HIDE DEF forward
  <2> QED
    BY <1>1, <1>3, <2>1, ReachableIsLeast
<1>9. x \in D /\ x \in Blocks /\ x \in Ids
  BY <1>1, <1>4, <1>5, <1>6
<1>10. Successors(x) = {}
  <2> SUFFICES ASSUME NEW y \in Successors(x) PROVE FALSE
    OBVIOUS
  <2>1. y \in Blocks /\ x \in EdgeSet(y)
    BY DEF Successors, EdgeSet
  <2>2. y \in Elements(BranchesOf(x))
    BY <1>1, <1>9, <2>1, VisitFlowIsBranches DEF OnlyBranchesInv
  <2>3. func[x].targets = <<>> /\ func[x].merge = "none"
    BY <1>1, <1>9, FunctionsAssumption DEF Ids, BlockOK
  <2>4. BranchesOf(x) = <<>>
    BY <2>3 DEF BranchesOf
  <2> QED
    BY <2>2, <2>4 DEF Elements
<1> QED
  BY <1>7, <1>8, <1>9, <1>10 DEF Searched

\* The analysis of a parameter is the search, and ends the analysis.
ParameterInv ==
  /\ stage \in {"loops", "accesses", "loop_variable", "temporaries", "thrown"} => role # "parameter"
  /\ stage = "end" /\ role = "parameter" =>
       phase = "done" /\ (Stores # {} /\ exists_unaccessed_path_to_return(Stores) => preserved)

LEMMA ParameterStep == BuilderInv /\ ParameterInv /\ [ScopeNext]_<<vars, scope_vars>> => ParameterInv'
<1> SUFFICES ASSUME BuilderInv, ParameterInv, [ScopeNext]_<<vars, scope_vars>> PROVE ParameterInv'
  OBVIOUS
<1>1. CASE BuildCFG
  BY <1>1 DEF BuildCFG, ParameterInv, scope_vars
<1>2. CASE CollectAccesses
  BY <1>2 DEF CollectAccesses, ParameterInv
<1>3. CASE analyze_parameter_preservation
  <2>1. /\ stage' = "end" /\ vars' = vars /\ access' = access /\ stage = "parameter" /\ phase = "done"
        /\ preserved' = (Accessed # {} /\ (Stores = {} \/ exists_unaccessed_path_to_return(Stores)))
    BY <1>3 DEF analyze_parameter_preservation, BuilderInv
  <2>2. Stores' = Stores /\ phase' = "done"
    BY <2>1 DEF Stores, vars
  <2>3. Stores \subseteq Accessed
    BY DEF Stores, Accessed
  <2>4. exists_unaccessed_path_to_return(Stores)' = exists_unaccessed_path_to_return(Stores)
    BY <2>1 DEF exists_unaccessed_path_to_return, Successors, vars, edges, Stores
  <2> QED
    BY <2>1, <2>2, <2>3, <2>4 DEF ParameterInv
<1>4. CASE FindLoopDominators
  BY <1>4 DEF FindLoopDominators, ParameterInv
<1>5. CASE AddAccess
  BY <1>5 DEF AddAccess, ParameterInv
<1>6. CASE ChooseDominator
  BY <1>6 DEF ChooseDominator, ParameterInv
<1>7. CASE FindLoopVariable
  BY <1>7 DEF FindLoopVariable, ParameterInv
<1>8. CASE AddTemporaryAccess
  BY <1>8 DEF AddTemporaryAccess, ParameterInv
<1>9. CASE DeclareTemporary
  BY <1>9 DEF DeclareTemporary, ParameterInv
<1>10. CASE UNCHANGED <<vars, scope_vars>>
  <2>1. Stores' = Stores /\ stage' = stage /\ role' = role /\ preserved' = preserved /\ phase' = phase
    BY <1>10 DEF Stores, vars, scope_vars, result
  <2>2. exists_unaccessed_path_to_return(Stores)' = exists_unaccessed_path_to_return(Stores)
    BY <1>10 DEF exists_unaccessed_path_to_return, Successors, vars, edges, Stores, scope_vars
  <2> QED
    BY <2>1, <2>2 DEF ParameterInv
<1> QED
  BY <1>1, <1>2, <1>3, <1>4, <1>5, <1>6, <1>7, <1>8, <1>9, <1>10 DEF ScopeNext

\* A parameter which an execution may leave unwritten is passed in as well as
\* out, for every function which follows the rules of structured control flow
\* and every set of accesses.
THEOREM ArgumentsAlwaysKeepTheirValue == ScopeSpec /\ FollowsRules(func) => []ArgumentsKeepTheirValue
<1>1. ScopeInit => ParameterInv
  BY DEF ScopeInit, ParameterInv
<1>2. ScopeSpec => []ParameterInv
  <2>1. BuilderInv /\ ParameterInv /\ [ScopeNext]_<<vars, scope_vars>> => ParameterInv'
    BY ParameterStep
  <2> QED
    BY <1>1, <2>1, BuilderInvariance, PTL DEF ScopeSpec
<1>3. IInv /\ DomInv /\ UnnumberedInv /\ StructureInv /\ TargetInv /\ ParameterInv => ArgumentsKeepTheirValue
  <2> SUFFICES ASSUME IInv, DomInv, UnnumberedInv, StructureInv, TargetInv, ParameterInv,
                      stage = "end", role = "parameter", Stores # {},
                      NEW x \in ReachableWithout({e \in RealFlow : {e[1], e[2]} \cap Stores = {}}, NoBlock) \ Stores,
                      func[x].terminator = "exit"
               PROVE  preserved
    BY DEF ArgumentsKeepTheirValue
  <2>1. Built /\ Stores \in SUBSET Blocks
    BY DEF Built, ParameterInv, Stores
  <2>2. exists_unaccessed_path_to_return(Stores)
    BY <2>1, UnwrittenPathIsFound
  <2> QED
    BY <2>2 DEF ParameterInv
<1>4. ScopeSpec /\ FollowsRules(func) => [](IInv /\ DomInv /\ UnnumberedInv /\ StructureInv /\ TargetInv)
  BY ScopeBuildsCFG, Invariance, DomInvariance, UnnumberedInvariance, StructureInvariance,
     TargetInvariance, PTL
<1> QED
  BY <1>2, <1>3, <1>4, PTL

-------------------------------------------------------------------------------
(* Types: the searches of the analysis end in blocks of the CFG.           *)

\* Up from the block the loops around it come later and later in post order.
LoopsClimb == \A x \in Numbered : IsAbove(x, loop_dominator[x])

\* The recursion of OutermostLoop is one.
LEMMA OutermostLoopUnfolds ==
  ASSUME Built, LoopsClimb, NEW d \in Numbered
  PROVE  OutermostLoop(d) = IF loop_dominator[d] = NoBlock THEN d ELSE OutermostLoop(loop_dominator[d])
<1> DEFINE L == Len(post_order)
           S == Numbered
           T == {y \in S : loop_dominator[y] = NoBlock}
           v == [y \in S |-> y]
           next == [y \in S |-> IF loop_dominator[y] = NoBlock THEN y ELSE loop_dominator[y]]
           G == [q \in S \X S |-> q[2]]
           r == [y \in S |-> L - order[y]]
           Is(f) == f = [y \in Numbered |-> IF loop_dominator[y] = NoBlock THEN y ELSE f[loop_dominator[y]]]
<1>1. /\ L \in Nat /\ \A y \in S : order[y] \in Nat /\ order[y] <= L
      /\ \A y \in S : loop_dominator[y] # NoBlock =>
           loop_dominator[y] \in S /\ order[loop_dominator[y]] > order[y]
  BY TheTree DEF Numbered, LoopsClimb, IsAbove
<1> HIDE DEF S
<1>2. IsRanked(S, T, next, r)
  <2>1. next \in [S -> S] /\ r \in [S -> Nat]
    BY <1>1
  <2>2. ASSUME NEW y \in S, y \notin T PROVE r[next[y]] < r[y]
    BY <1>1, <2>2
  <2> HIDE DEF next, r, T
  <2> QED
    BY <2>1, <2>2 DEF IsRanked
<1>3. IsRecursion(S, S, T, v, next, G, r)
  <2>1. v \in [S -> S] /\ G \in [S \X S -> S]
    OBVIOUS
  <2> HIDE DEF T, v, next, G, r
  <2> QED
    BY <1>2, <2>1 DEF IsRecursion
<1>4. \E f : Is(f)
  <2>1. PICK f : Solves(f, S, S, T, v, next, G)
    <3> HIDE DEF T, v, next, G, r
    <3> QED
      BY <1>3, RecursiveFunctionExists
  <2>2. f \in [S -> S] /\ \A y \in S : f[y] = IF y \in T THEN v[y] ELSE G[<<y, f[next[y]]>>]
    <3> HIDE DEF T, v, next, G
    <3> QED
      BY <2>1 DEF Solves
  <2>3. ASSUME NEW y \in S PROVE f[y] = IF loop_dominator[y] = NoBlock THEN y ELSE f[loop_dominator[y]]
    BY <1>1, <2>2
  <2>4. f = [y \in S |-> f[y]]
    BY <2>2
  <2> QED
    BY <2>3, <2>4 DEF S
<1> DEFINE c == CHOOSE f : Is(f)
<1>5. Is(c)
  <2> HIDE DEF Is
  <2> QED
    BY <1>4
<1>6. \A y : OutermostLoop(y) = c[y]
  BY DEF OutermostLoop
<1> HIDE DEF c
<1>7. \A y \in S : c[y] = IF loop_dominator[y] = NoBlock THEN y ELSE c[loop_dominator[y]]
  BY <1>5 DEF S
<1> HIDE DEF Is
<1> QED
  BY <1>6, <1>7 DEF S

LEMMA OutermostLoopExists ==
  ASSUME Built, LoopsClimb, NEW d \in Numbered
  PROVE  OutermostLoop(d) \in Numbered
<1> DEFINE r == [y \in Numbered |-> Len(post_order) - order[y]]
           Bad == {y \in Numbered : OutermostLoop(y) \notin Numbered}
<1>1. /\ Len(post_order) \in Nat /\ \A y \in Numbered : order[y] \in Nat /\ order[y] <= Len(post_order)
      /\ \A y \in Numbered : loop_dominator[y] # NoBlock =>
           loop_dominator[y] \in Numbered /\ order[loop_dominator[y]] > order[y]
  BY TheTree DEF Numbered, LoopsClimb, IsAbove
<1>2. ASSUME NEW y \in Bad PROVE \E q \in Bad : r[q] < r[y]
  <2>1. y \in Numbered /\ loop_dominator[y] # NoBlock /\ OutermostLoop(y) = OutermostLoop(loop_dominator[y])
    BY OutermostLoopUnfolds
  <2>2. loop_dominator[y] \in Bad /\ r[loop_dominator[y]] < r[y]
    BY <1>1, <1>2, <2>1
  <2> QED
    BY <2>2
<1>3. r \in [Numbered -> Nat] /\ Bad \in SUBSET Numbered
  BY <1>1
<1>4. Bad = {}
  <2> HIDE DEF Bad, r
  <2> QED
    BY <1>2, <1>3, RankInduction
<1> QED
  BY <1>4

\* The way goes from block x to block y without a branch.
GoesStraight(x, y) == Successors(x) = {y} /\ preceding[y] = <<x>>

\* The recursion of StraightPath is one.
LEMMA StraightPathUnfolds ==
  ASSUME Built, NEW h, NEW d \in Blocks
  PROVE  /\ d = h => StraightPath(d, h) = {h}
         /\ d # h /\ StraightPath(d, h) # {} =>
              \E y \in Blocks : /\ GoesStraight(d, y) /\ order[y] < order[d] /\ StraightPath(y, h) # {}
                               /\ StraightPath(d, h) = {d} \cup StraightPath(y, h)
<1> DEFINE Straight(x) == \E y \in Blocks : Successors(x) = {y} /\ preceding[y] = <<x>>
           After(x) == CHOOSE y \in Successors(x) : TRUE
           S == Blocks
           V == SUBSET (Blocks \cup {h})
           T == {x \in S : x = h \/ ~Straight(x)}
           v == [x \in S |-> IF x = h THEN {h} ELSE {}]
           next == [x \in S |-> IF Straight(x) THEN After(x) ELSE x]
           G == [q \in S \X V |-> IF q[2] = {} THEN {} ELSE {q[1]} \cup q[2]]
           Is(f) == f = [x \in Blocks |->
                      IF x = h THEN {h}
                      ELSE IF \E y \in Blocks : Successors(x) = {y} /\ preceding[y] = <<x>>
                           THEN LET rest == f[CHOOSE y \in Successors(x) : TRUE]
                                IN IF rest = {} THEN {} ELSE {x} \cup rest
                           ELSE {}]
<1>1. /\ \A x \in S : order[x] \in Nat
      /\ \A x \in S : Straight(x) => /\ After(x) \in S /\ After(x) \in Numbered
                                     /\ order[After(x)] < order[x]
  <2>1. EdgesDescend /\ order \in [Blocks -> Nat]
    BY DEF Built, IInv, TypeInv
  <2>2. ASSUME NEW x \in S, Straight(x)
        PROVE  After(x) \in S /\ After(x) \in Numbered /\ order[After(x)] < order[x]
    <3>1. After(x) \in Successors(x)
      BY <2>2
    <3> HIDE DEF After
    <3>2. After(x) \in Blocks /\ x \in Elements(preceding[After(x)])
      BY <3>1 DEF Successors
    <3> QED
      BY <2>1, <3>2 DEF EdgesDescend, Numbered
  <2> QED
    BY <2>1, <2>2
<1>2. \A f : Is(f) <=> f = [x \in Blocks |->
                         IF x = h THEN {h}
                         ELSE IF Straight(x)
                              THEN IF f[After(x)] = {} THEN {} ELSE {x} \cup f[After(x)]
                              ELSE {}]
  OBVIOUS
<1>s. \A x \in S : Straight(x) => GoesStraight(x, After(x))
  <2> SUFFICES ASSUME NEW x \in S, Straight(x) PROVE GoesStraight(x, After(x))
    OBVIOUS
  <2>1. PICK y \in Blocks : Successors(x) = {y} /\ preceding[y] = <<x>>
    OBVIOUS
  <2>2. After(x) = y
    BY <2>1
  <2> QED
    BY <2>1, <2>2 DEF GoesStraight
<1> HIDE DEF S, Straight, After
<1>3. IsRanked(S, T, next, order)
  <2>1. next \in [S -> S] /\ order \in [S -> Nat]
    BY <1>1, TheTree DEF S
  <2>2. ASSUME NEW y \in S, y \notin T PROVE order[next[y]] < order[y]
    BY <1>1, <2>2
  <2> HIDE DEF next, T
  <2> QED
    BY <2>1, <2>2 DEF IsRanked
<1>4. IsRecursion(S, V, T, v, next, G, order)
  <2>1. v \in [S -> V] /\ G \in [S \X V -> V]
    BY DEF S
  <2> HIDE DEF T, v, next, G, V
  <2> QED
    BY <1>3, <2>1 DEF IsRecursion
<1>5. \E f : Is(f)
  <2>1. PICK f : Solves(f, S, V, T, v, next, G)
    <3> HIDE DEF T, v, next, G, V
    <3> QED
      BY <1>4, RecursiveFunctionExists
  <2>2. f \in [S -> V] /\ \A y \in S : f[y] = IF y \in T THEN v[y] ELSE G[<<y, f[next[y]]>>]
    <3> HIDE DEF T, v, next, G, V
    <3> QED
      BY <2>1 DEF Solves
  <2>3. ASSUME NEW y \in S
        PROVE  f[y] = IF y = h THEN {h}
                      ELSE IF Straight(y)
                           THEN IF f[After(y)] = {} THEN {} ELSE {y} \cup f[After(y)]
                           ELSE {}
    <3>1. CASE y \in T
      <4>1. f[y] = v[y]
        <5> HIDE DEF T, v, next, G, V
        <5> QED
          BY <2>2, <3>1
      <4> QED
        BY <3>1, <4>1
    <3>2. CASE y \notin T
      <4>1. f[y] = G[<<y, f[next[y]]>>]
        <5> HIDE DEF T, v, next, G, V
        <5> QED
          BY <2>2, <3>2
      <4>2. next[y] = After(y) /\ After(y) \in S
        BY <1>1, <3>2
      <4>3. f[After(y)] \in V
        <5> HIDE DEF V
        <5> QED
          BY <2>2, <4>2
      <4>4. f[y] = IF f[After(y)] = {} THEN {} ELSE {y} \cup f[After(y)]
        BY <4>1, <4>2, <4>3
      <4> QED
        BY <3>2, <4>4
    <3> QED
      BY <3>1, <3>2
  <2>4. f = [y \in S |-> f[y]]
    <3> HIDE DEF V
    <3> QED
      BY <2>2
  <2>5. f = [x \in Blocks |-> IF x = h THEN {h}
               ELSE IF Straight(x) THEN IF f[After(x)] = {} THEN {} ELSE {x} \cup f[After(x)] ELSE {}]
    BY <2>3, <2>4 DEF S
  <2> HIDE DEF Is
  <2> QED
    BY <1>2, <2>5
<1> DEFINE c == CHOOSE f : Is(f)
<1>6. Is(c)
  <2> HIDE DEF Is
  <2> QED
    BY <1>5
<1>7. \A x \in Blocks : StraightPath(x, h) = c[x]
  BY DEF StraightPath
<1>8. c = [x \in Blocks |-> IF x = h THEN {h}
             ELSE IF Straight(x) THEN IF c[After(x)] = {} THEN {} ELSE {x} \cup c[After(x)] ELSE {}]
  <2> HIDE DEF Is, c
  <2> QED
    BY <1>2, <1>6
<1> HIDE DEF c, Is
<1>9. \A x \in Blocks : c[x] = IF x = h THEN {h}
             ELSE IF Straight(x) THEN IF c[After(x)] = {} THEN {} ELSE {x} \cup c[After(x)] ELSE {}
  BY <1>8
<1>10. Straight(d) => After(d) \in Blocks /\ GoesStraight(d, After(d)) /\ order[After(d)] < order[d]
  BY <1>1, <1>s DEF S
<1> QED
  BY <1>7, <1>9, <1>10

\* A way without branches holds where it starts, and each of its blocks but the header
\* has one successor, on the way.
LEMMA StraightPathGoesOn ==
  ASSUME Built, NEW h, NEW d \in Blocks, StraightPath(d, h) # {}
  PROVE  /\ d \in StraightPath(d, h) /\ h \in StraightPath(d, h)
         /\ \A x \in StraightPath(d, h) : x # h => \E y \in StraightPath(d, h) : Successors(x) = {y}
         /\ d # h => \E y \in Blocks : h \in Successors(y)
<1> DEFINE Good(x) == /\ x \in StraightPath(x, h) /\ h \in StraightPath(x, h)
                      /\ \A z \in StraightPath(x, h) : z # h => \E y \in StraightPath(x, h) : Successors(z) = {y}
                      /\ x # h => \E y \in Blocks : h \in Successors(y)
           Bad == {x \in Blocks : StraightPath(x, h) # {} /\ ~Good(x)}
<1>1. Bad = {}
  <2>1. ASSUME NEW x \in Bad PROVE \E q \in Bad : order[q] < order[x]
    <3>1. x \in Blocks /\ x # h /\ StraightPath(x, h) # {} /\ ~Good(x)
      BY StraightPathUnfolds
    <3>2. PICK y \in Blocks : /\ GoesStraight(x, y) /\ order[y] < order[x] /\ StraightPath(y, h) # {}
                              /\ StraightPath(x, h) = {x} \cup StraightPath(y, h)
      BY <3>1, StraightPathUnfolds
    <3>3. ~Good(y)
      <4> SUFFICES ASSUME Good(y) PROVE Good(x)
        BY <3>1
      <4>1. y = h => h \in Successors(x)
        BY <3>2 DEF GoesStraight
      <4> QED
        BY <3>1, <3>2, <4>1 DEF GoesStraight
    <3> QED
      BY <3>2, <3>3
  <2>2. order \in [Blocks -> Nat] /\ Bad \in SUBSET Blocks
    BY TheTree
  <2> HIDE DEF Bad
  <2> QED
    BY <2>1, <2>2, RankInduction
<1> QED
  BY <1>1

\* It leads to a block of the CFG.
LEMMA StraightPathsAreInTheCFG ==
  ASSUME Built, NEW d \in Numbered, NEW h, StraightPath(d, h) # {}
  PROVE  h \in Numbered
<1>1. CASE d = h
  BY <1>1
<1>2. CASE d # h
  <2>1. PICK y \in Blocks : h \in Successors(y)
    BY <1>2, StraightPathGoesOn DEF Numbered
  <2>2. h \in Blocks /\ y \in Elements(preceding[h])
    BY <2>1 DEF Successors
  <2> QED
    BY <2>2 DEF Built, IInv, EdgesDescend, Numbered
<1> QED
  BY <1>1, <1>2

\* The header of a continue block comes later in post order when it dominates it.
LEMMA HeaderIsAbove ==
  ASSUME Built, StructureInv, ContinuesAreDominated(func), NEW x \in Numbered, is_continue(x)
  PROVE  IsAbove(x, continue_block_to_loop_header(x))
<1> DEFINE h == continue_block_to_loop_header(x)
<1>1. h \in ContinueOf(x) \ {x} /\ h \in Ids /\ h \in Blocks /\ x \in Blocks /\ order[x] # 0
  BY HeadersAreBlocks DEF Numbered
<1> HIDE DEF h
<1>2. func[h].merge = "loop" /\ func[h].continue_block = x
  BY <1>1 DEF ContinueOf, Headers
<1>3. x \notin ReachableWithout(RecordedFlow, h)
  <2>1. x \notin ReachableWithout(VisitFlow(func), h)
    BY <1>1, <1>2 DEF ContinuesAreDominated, Dominates, Ids
  <2>2. ReachableWithout(RecordedFlow, h) = Without(h)
    BY RecordedFlowIsVisitFlow DEF Built
  <2> QED
    BY <2>1, <2>2 DEF Without
<1>4. h \in Dom(x)
  BY <1>1, <1>3 DEF Dom, Dominates
<1>5. h \in Numbered /\ \A y, z \in Numbered : order[y] = order[z] => y = z
  BY <1>4, TheTree
<1>6. order[h] >= order[x]
  <2>1. TypeInv /\ OrderInv /\ StackInv /\ FedInv /\ EdgesDescend /\ ~Walking
    BY DEF Built, IInv, Walking
  <2> QED
    BY <1>1, <1>4, <2>1, DomComesLater
<1>7. order[h] \in Nat /\ order[x] \in Nat /\ order[h] # order[x]
  BY <1>1, <1>5, TheTree
<1>8. order[h] > order[x]
  BY <1>6, <1>7
<1> QED
  BY <1>5, <1>8 DEF IsAbove, h

ScopeInv ==
  /\ ScopeTypeOK
  /\ stage = "cfg" => /\ builder = NoBlock /\ dominator = NoBlock /\ loop_header = NoBlock
                      /\ complex_continue = NoBlock /\ candidates = {}
  /\ \A c \in candidates : is_continue(c)
  /\ stage \in {"accesses", "loop_variable"} => LoopsClimb

LEMMA ScopeKept ==
  ASSUME vars' = vars
  PROVE  /\ Numbered' = Numbered /\ func' = func
         /\ \A x : is_continue(x)' = is_continue(x)
         /\ loop_dominator' = loop_dominator => (LoopsClimb' <=> LoopsClimb)
<1>1. func' = func /\ order' = order
  BY DEF vars, traversal
<1>2. Numbered' = Numbered
  BY <1>1 DEF Numbered
<1>3. \A x : is_continue(x)' = is_continue(x)
  BY <1>1 DEF is_continue, ContinueOf, Headers
<1>4. loop_dominator' = loop_dominator => (LoopsClimb' <=> LoopsClimb)
  BY <1>1, <1>2 DEF LoopsClimb, IsAbove
<1> QED
  BY <1>1, <1>2, <1>3, <1>4

\* What add_block returns is reachable, or there is none.
LEMMA AddBlockType ==
  ASSUME Built, NEW d \in Numbered \cup {NoBlock}, NEW x \in Blocks
  PROVE  add_block(d, x) \in Numbered \cup {NoBlock}
<1>1. NoBlock \notin Blocks /\ (idom[x] # NoBlock <=> x \in Numbered)
  BY TheTree
<1>2. CASE x \notin Numbered \/ d = NoBlock \/ d = x
  BY <1>1, <1>2 DEF add_block
<1>3. CASE x \in Numbered /\ d # NoBlock /\ d # x
  BY <1>1, <1>3, CommonDominatorIsRight DEF add_block
<1> QED
  BY <1>2, <1>3

LEMMA ScopeTypeStep ==
  ASSUME Built, BuilderInv, StructureInv, ContinuesAreDominated(func), ScopeInv, ScopeNext, stage # "cfg"
  PROVE  ScopeInv'
<1>0. /\ stage \in {"parameter", "loops", "accesses", "loop_variable", "temporaries", "end", "thrown"}
      /\ role \in Roles /\ access \in [Blocks -> Accesses]
      /\ loop_dominator \in [Blocks -> Blocks \cup {NoBlock}]
      /\ pending \subseteq Blocks /\ added \subseteq Blocks /\ candidates \subseteq Blocks
      /\ builder \in Numbered \cup {NoBlock} /\ dominator \in Numbered \cup {NoBlock}
      /\ loop_header \in Numbered \cup {NoBlock} /\ complex_continue \in Numbered \cup {NoBlock}
      /\ preserved \in BOOLEAN /\ hoisted \in BOOLEAN
      /\ \A c \in candidates : is_continue(c)
      /\ stage \in {"accesses", "loop_variable"} => LoopsClimb
  BY DEF ScopeInv, ScopeTypeOK
<1>a. Ids \subseteq Blocks /\ Entry \in Numbered /\ Numbered \subseteq Blocks /\ NoBlock \notin Blocks
  BY TheTree, Branches DEF Built, IInv, TypeInv, Numbered
<1>1. CASE analyze_parameter_preservation
  <2>1. /\ vars' = vars /\ stage' = "end"
        /\ UNCHANGED <<role, access, loop_dominator, pending, added, builder, candidates,
                       dominator, loop_header, hoisted, complex_continue>>
        /\ preserved' \in BOOLEAN
    BY <1>1, Zenon DEF analyze_parameter_preservation, placement
  <2> QED
    BY <1>0, <2>1, ScopeKept DEF ScopeInv, ScopeTypeOK
<1>2. CASE FindLoopDominators
  <2>1. /\ vars' = vars /\ stage' \in {"temporaries", "accesses"} /\ pending' = Accessed
        /\ UNCHANGED <<role, access, added, builder, candidates, dominator, loop_header, hoisted,
                       complex_continue, preserved>>
        /\ loop_dominator' =
             [x \in Blocks |-> IF x \notin DOMAIN func THEN NoBlock
                               ELSE IF is_continue(x) THEN continue_block_to_loop_header(x)
                               ELSE find_loop_dominator(x)]
    BY <1>2 DEF FindLoopDominators, result, placement
  <2>2. \A x \in Blocks : loop_dominator'[x] \in Blocks \cup {NoBlock}
    BY <2>1, HeadersAreBlocks, LoopSearchEnds DEF IsAbove, Numbered
  <2>3. loop_dominator' \in [Blocks -> Blocks \cup {NoBlock}]
    BY <2>1, <2>2
  <2>4. \A x \in Numbered : IsAbove(x, loop_dominator'[x])
    <3> SUFFICES ASSUME NEW x \in Numbered PROVE IsAbove(x, loop_dominator'[x])
      OBVIOUS
    <3>1. IsAbove(x, NoBlock) /\ x \in Blocks
      BY <1>a DEF IsAbove
    <3> QED
      BY <2>1, <3>1, HeaderIsAbove, LoopSearchEnds
  <2>5. LoopsClimb'
    <3>1. order' = order /\ Numbered' = Numbered
      BY <2>1, ScopeKept DEF vars, traversal
    <3> QED
      BY <2>4, <3>1 DEF LoopsClimb, IsAbove
  <2>6. Accessed \subseteq Blocks
    BY DEF Accessed
  <2> QED
    BY <1>0, <2>1, <2>3, <2>5, <2>6, ScopeKept DEF ScopeInv, ScopeTypeOK
<1>3. CASE AddAccess
  <2>1. PICK x \in pending :
          /\ candidates' = IF is_continue(x) /\ role \in {"scalar", "phi"}
                           THEN candidates \cup {x} ELSE candidates
          /\ builder' = add_block(IF LiftedAccess(x) = {} THEN builder
                                  ELSE add_block(builder, continue_block_to_loop_header(x)), x)
          /\ pending' = pending \ {x}
          /\ added' = added \cup {x} \cup LiftedAccess(x)
    BY <1>3 DEF AddAccess
  <2>2. /\ vars' = vars /\ stage = "accesses" /\ stage' = stage
        /\ UNCHANGED <<role, access, loop_dominator, dominator, loop_header, hoisted, complex_continue, preserved>>
    BY <1>3 DEF AddAccess, result, placement
  <2>3. LiftedAccess(x) \subseteq Blocks /\ x \in Blocks
    BY <1>0, HeadersAreBlocks DEF LiftedAccess
  <2>4. builder' \in Numbered \cup {NoBlock}
    <3>1. LiftedAccess(x) # {} => continue_block_to_loop_header(x) \in Blocks
      BY <2>3, HeadersAreBlocks DEF LiftedAccess
    <3>2. (IF LiftedAccess(x) = {} THEN builder ELSE add_block(builder, continue_block_to_loop_header(x)))
             \in Numbered \cup {NoBlock}
      BY <1>0, <3>1, AddBlockType
    <3> QED
      BY <2>1, <2>3, <3>2, AddBlockType
  <2>5. candidates' \subseteq Blocks /\ \A c \in candidates' : is_continue(c)
    BY <1>0, <2>1, <2>3
  <2> QED
    BY <1>0, <2>1, <2>2, <2>3, <2>4, <2>5, ScopeKept DEF ScopeInv, ScopeTypeOK
<1>4. CASE ChooseDominator
  <2> DEFINE d == lift_continue_block_dominator(builder)
  <2>1. /\ vars' = vars /\ stage = "accesses" /\ stage' = "loop_variable" /\ builder' = d
        /\ candidates' \subseteq candidates
        /\ dominator' = IF d # NoBlock /\ role # "phi" /\ may_read_undefined_variable_in_block(d)
                        THEN add_block(d, OutermostLoop(d)) ELSE d
        /\ UNCHANGED <<role, access, loop_dominator, pending, added, loop_header, hoisted,
                       complex_continue, preserved>>
    BY <1>4 DEF ChooseDominator, placement
  <2>2. d \in Numbered \cup {NoBlock}
    BY <1>0, <1>a DEF lift_continue_block_dominator
  <2> HIDE DEF d
  <2>3. dominator' \in Numbered \cup {NoBlock}
    <3>1. d # NoBlock => OutermostLoop(d) \in Blocks
      BY <1>0, <1>a, <2>1, <2>2, OutermostLoopExists
    <3> QED
      BY <2>1, <2>2, <3>1, AddBlockType
  <2> QED
    BY <1>0, <2>1, <2>2, <2>3, ScopeKept DEF ScopeInv, ScopeTypeOK
<1>5. CASE FindLoopVariable
  <2>1. /\ vars' = vars /\ stage' = "end"
        /\ loop_header' =
             IF dominator # NoBlock /\ \E c \in candidates : candidates = {c}
             THEN LET h == continue_block_to_loop_header(CHOOSE c \in candidates : TRUE)
                  IN IF IsLoopVariable(h) THEN h ELSE NoBlock
             ELSE NoBlock
        /\ UNCHANGED <<role, access, loop_dominator, pending, added, builder, candidates, dominator,
                       hoisted, complex_continue, preserved>>
    BY <1>5 DEF FindLoopVariable, placement
  <2>2. loop_header' \in Numbered \cup {NoBlock}
    <3>1. ASSUME NEW h, IsLoopVariable(h), dominator # NoBlock PROVE h \in Numbered
      <4>1. StraightPath(dominator, h) # {} /\ dominator \in Numbered
        BY <1>0, <3>1 DEF IsLoopVariable
      <4> QED
        BY <4>1, StraightPathsAreInTheCFG
    <3> QED
      BY <2>1, <3>1
  <2> QED
    BY <1>0, <2>1, <2>2, ScopeKept DEF ScopeInv, ScopeTypeOK
<1>6. CASE AddTemporaryAccess
  <2>1. PICK x \in pending :
          /\ candidates' = IF LiftedUse(x) = {} THEN candidates ELSE candidates \cup {x}
          /\ builder' = IF LiftedUse(x) = {} THEN add_block(builder, x)
                        ELSE add_block(add_block(builder, x), continue_block_to_loop_header(x))
          /\ pending' = pending \ {x}
          /\ added' = added \cup {x} \cup LiftedUse(x)
    BY <1>6 DEF AddTemporaryAccess
  <2>2. /\ vars' = vars /\ stage = "temporaries" /\ stage' = stage
        /\ UNCHANGED <<role, access, loop_dominator, dominator, loop_header, hoisted, complex_continue, preserved>>
    BY <1>6 DEF AddTemporaryAccess, result, placement
  <2>3. x \in Blocks /\ (LiftedUse(x) # {} => is_continue(x) /\ LiftedUse(x) = {continue_block_to_loop_header(x)})
    BY <1>0 DEF LiftedUse, LiftedAccess
  <2>4. LiftedUse(x) # {} => continue_block_to_loop_header(x) \in Blocks
    BY <2>3, HeadersAreBlocks
  <2>5. builder' \in Numbered \cup {NoBlock}
    <3>1. add_block(builder, x) \in Numbered \cup {NoBlock}
      BY <1>0, <2>3, AddBlockType
    <3> QED
      BY <2>1, <2>4, <3>1, AddBlockType
  <2>6. candidates' \subseteq Blocks /\ (\A c \in candidates' : is_continue(c)) /\ added' \subseteq Blocks
    BY <1>0, <2>1, <2>3, <2>4
  <2> QED
    BY <1>0, <2>1, <2>2, <2>3, <2>5, <2>6, ScopeKept DEF ScopeInv, ScopeTypeOK
<1>7. CASE DeclareTemporary
  <2>1. /\ vars' = vars /\ stage' \in {"thrown", "end"}
        /\ dominator' \in {builder, NoBlock} /\ complex_continue' \in {builder, NoBlock}
        /\ UNCHANGED <<role, access, loop_dominator, pending, added, builder, candidates, loop_header, preserved>>
    BY <1>7 DEF DeclareTemporary
  <2>2. hoisted' \in BOOLEAN
    BY <1>7, Zenon DEF DeclareTemporary
  <2> QED
    BY <1>0, <2>1, <2>2, ScopeKept DEF ScopeInv, ScopeTypeOK
<1> QED
  BY <1>1, <1>2, <1>3, <1>4, <1>5, <1>6, <1>7 DEF ScopeNext, BuildCFG, CollectAccesses

LEMMA ScopeTypeInit == ScopeInit => ScopeInv
<1> SUFFICES ASSUME ScopeInit PROVE ScopeInv
  OBVIOUS
<1>1. /\ stage = "cfg" /\ role = "scalar" /\ access = [x \in Blocks |-> "none"]
      /\ loop_dominator = [x \in Blocks |-> NoBlock]
      /\ pending = {} /\ added = {} /\ builder = NoBlock /\ candidates = {}
      /\ dominator = NoBlock /\ loop_header = NoBlock /\ preserved = FALSE
      /\ hoisted = FALSE /\ complex_continue = NoBlock
  BY DEF ScopeInit
<1>2. role \in Roles /\ access \in [Blocks -> Accesses]
  BY <1>1 DEF Roles, Accesses
<1> QED
  BY <1>1, <1>2 DEF ScopeInv, ScopeTypeOK

LEMMA ScopeTypeBefore ==
  ASSUME IInv, ScopeInv, ScopeNext, stage = "cfg"
  PROVE  ScopeInv'
<1>0. /\ role \in Roles /\ access \in [Blocks -> Accesses]
      /\ loop_dominator \in [Blocks -> Blocks \cup {NoBlock}]
      /\ pending \subseteq Blocks /\ added \subseteq Blocks
      /\ preserved \in BOOLEAN /\ hoisted \in BOOLEAN
      /\ builder = NoBlock /\ dominator = NoBlock /\ loop_header = NoBlock
      /\ complex_continue = NoBlock /\ candidates = {}
  BY DEF ScopeInv, ScopeTypeOK
<1>1. CASE BuildCFG
  <2>1. /\ stage' = "cfg"
        /\ UNCHANGED <<role, access, loop_dominator, pending, added, builder, candidates, dominator,
                       hoisted, complex_continue, loop_header, preserved>>
    BY <1>1 DEF BuildCFG, scope_vars, result, placement
  <2> QED
    BY <1>0, <2>1 DEF ScopeInv, ScopeTypeOK
<1>2. CASE CollectAccesses
  <2>1. PICK v \in VariablesOf(func) : role' = v.role /\ access' = v.access
    BY <1>2 DEF CollectAccesses
  <2>2. /\ stage' \in {"parameter", "loops"}
        /\ UNCHANGED <<loop_dominator, pending, added, builder, candidates, dominator,
                       hoisted, complex_continue, loop_header, preserved>>
    BY <1>2 DEF CollectAccesses, result, placement
  <2>3. v.role \in Roles /\ v.access \in [Blocks -> Accesses]
    BY VariablesAssumption DEF IInv, TypeInv
  <2> QED
    BY <1>0, <2>1, <2>2, <2>3 DEF ScopeInv, ScopeTypeOK
<1> QED
  BY <1>1, <1>2 DEF ScopeNext, analyze_parameter_preservation, FindLoopDominators, AddAccess,
       ChooseDominator, FindLoopVariable, AddTemporaryAccess, DeclareTemporary

LEMMA ContinuesInvariance == Spec /\ ContinuesAreDominated(func) => []ContinuesAreDominated(func)
<1>1. ContinuesAreDominated(func) /\ [Next]_vars => ContinuesAreDominated(func)'
  <2> SUFFICES ASSUME ContinuesAreDominated(func), [Next]_vars PROVE ContinuesAreDominated(func)'
    OBVIOUS
  <2>1. func' = func
    BY FuncKept
  <2> QED
    BY <2>1 DEF ContinuesAreDominated
<1> QED
  BY <1>1, PTL DEF Spec

LEMMA ScopeStep ==
  ASSUME IInv, DomInv, UnnumberedInv, BuilderInv, StructureInv, ContinuesAreDominated(func),
         ScopeInv, [ScopeNext]_<<vars, scope_vars>>
  PROVE  ScopeInv'
<1>1. CASE stage # "cfg" /\ ScopeNext
  <2>1. Built
    BY <1>1 DEF Built, BuilderInv
  <2> QED
    BY <1>1, <2>1, ScopeTypeStep
<1>2. CASE stage = "cfg" /\ ScopeNext
  BY <1>2, ScopeTypeBefore
<1>3. CASE UNCHANGED <<vars, scope_vars>>
  <2>1. /\ vars' = vars
        /\ UNCHANGED <<stage, role, access, loop_dominator, pending, added, builder, candidates, dominator,
                       hoisted, complex_continue, loop_header, preserved>>
    BY <1>3 DEF scope_vars, result, placement
  <2> QED
    BY <2>1, ScopeKept DEF ScopeInv, ScopeTypeOK
<1> QED
  BY <1>1, <1>2, <1>3

LEMMA ScopeInvariance == ScopeSpec /\ FollowsRules(func) /\ ContinuesAreDominated(func) => []ScopeInv
<1>1. ScopeInit => ScopeInv
  BY ScopeTypeInit
<1>2. /\ IInv /\ DomInv /\ UnnumberedInv /\ BuilderInv /\ StructureInv /\ ContinuesAreDominated(func) /\ ScopeInv
      /\ [ScopeNext]_<<vars, scope_vars>>
      => ScopeInv'
  BY ScopeStep
<1>3. ScopeSpec /\ FollowsRules(func) /\ ContinuesAreDominated(func) =>
        [](IInv /\ DomInv /\ UnnumberedInv /\ BuilderInv /\ StructureInv /\ ContinuesAreDominated(func))
  BY ScopeBuildsCFG, Invariance, DomInvariance, UnnumberedInvariance, BuilderInvariance, StructureInvariance,
     ContinuesInvariance, PTL
<1> QED
  BY <1>1, <1>2, <1>3, PTL DEF ScopeSpec

\* The searches of the analysis - the loop around a block, the outermost loop,
\* the way to a header without branches - end, and what the analysis declares,
\* it declares in reachable blocks.
THEOREM ScopeTypesAreKept ==
  ScopeSpec /\ FollowsRules(func) /\ ContinuesAreDominated(func) => []ScopeTypeOK
<1>1. ScopeInv => ScopeTypeOK
  BY DEF ScopeInv
<1> QED
  BY <1>1, ScopeInvariance, PTL

-------------------------------------------------------------------------------
(* What the builder is given, and what dominates it.                       *)

Variables == {"scalar", "composite", "phi"}

\* The blocks the builder is given for the accesses of blocks A.
GivenFor(A) == A \cup UNION {IF role \in Results THEN LiftedUse(x) ELSE LiftedAccess(x) : x \in A}

LEMMA ClosestDominates ==
  ASSUME Built, StructureInv, NEW A \in SUBSET Blocks, NEW d, IsClosest(d, A), NEW x \in A, x \in Numbered
  PROVE  d \in Numbered /\ x \notin Without(d)
<1>1. x \in Blocks /\ order[x] # 0
  BY DEF Numbered
<1>2. d \in Numbered /\ \A z \in Blocks : z \in Dom(d) <=> \A y \in {z1 \in A : order[z1] # 0} : z \in Dom(y)
  BY <1>1 DEF IsClosest
<1>3. d \in Blocks /\ d \in Dom(d)
  BY <1>2, DomOfItself DEF Numbered, Built, IInv
<1>4. d \in Dom(x)
  BY <1>1, <1>2, <1>3
<1> QED
  BY <1>1, <1>2, <1>3, <1>4, DomIsWithout

LEMMA AddBlockDominates ==
  ASSUME Built, StructureInv, NEW d \in Numbered, NEW o \in Numbered
  PROVE  /\ add_block(d, o) \in Numbered
         /\ d \notin Without(add_block(d, o)) /\ o \notin Without(add_block(d, o))
         /\ d \notin Without(o) => add_block(d, o) = o
<1>1. /\ NoBlock \notin Blocks /\ d \in Blocks /\ o \in Blocks /\ idom[o] # NoBlock
  BY TheTree DEF Numbered
<1>2. \A x : x \notin Without(x)
  BY WithoutIsClosed DEF Built, IInv
<1>3. CASE d = o
  BY <1>1, <1>2, <1>3 DEF add_block
<1>4. CASE d # o
  <2> DEFINE c == find_common_dominator(o, d)
  <2>1. add_block(d, o) = c
    BY <1>1, <1>4 DEF add_block
  <2>2. c \in Numbered /\ Dom(c) = Dom(o) \cap Dom(d)
    BY CommonDominatorIsRight
  <2> HIDE DEF c
  <2>3. c \in Blocks /\ c \in Dom(c)
    BY <2>2, DomOfItself DEF Numbered, Built, IInv
  <2>4. d \notin Without(c) /\ o \notin Without(c)
    BY <1>1, <2>2, <2>3, DomIsWithout
  <2>5. ASSUME d \notin Without(o) PROVE c = o
    <3>1. o \in Dom(d) /\ o \in Dom(o)
      BY <1>1, <2>5, DomIsWithout, DomOfItself DEF Built, IInv
    <3>2. c \notin Without(o)
      BY <1>1, <2>2, <2>3, <3>1, DomIsWithout
    <3> QED
      BY <2>2, <2>4, <3>2, NumberedAntisymmetric
  <2> QED
    BY <2>1, <2>2, <2>4, <2>5
<1> QED
  BY <1>3, <1>4

\* Everything is dominated by the entry.
LEMMA EntryDominates ==
  ASSUME Built, StructureInv
  PROVE  Without(Entry) = {}
<1>1. Entry \in Blocks /\ VisitFlow(func) \in SUBSET (Blocks \X Blocks)
  BY FlowsNest
<1>2. IsClosedWithout(VisitFlow(func), Entry, {})
  BY DEF IsClosedWithout
<1> QED
  BY <1>1, <1>2, ReachableIsLeast DEF Without

\* What the analysis reads stays the same when the CFG and the accesses do.
LEMMA AnalysisKept ==
  ASSUME vars' = vars, access' = access, role' = role
  PROVE  /\ Accessed' = Accessed /\ Numbered' = Numbered /\ func' = func
         /\ \A x : Without(x)' = Without(x) /\ Dom(x)' = Dom(x)
         /\ \A x : LiftedAccess(x)' = LiftedAccess(x) /\ LiftedUse(x)' = LiftedUse(x)
         /\ \A A : GivenFor(A)' = GivenFor(A)
         /\ \A d, A : IsClosest(d, A)' <=> IsClosest(d, A)
<1>1. func' = func /\ order' = order /\ preceding' = preceding /\ virtual_preceding' = virtual_preceding
  BY DEF vars, traversal, edges
<1>2. Accessed' = Accessed /\ Numbered' = Numbered
  BY <1>1 DEF Accessed, Numbered
<1>3. \A x : Without(x)' = Without(x)
  BY <1>1, WithoutKept
<1>4. \A x : Dom(x)' = Dom(x)
  BY <1>1 DEF Dom, Dominates, RecordedFlow, EdgesInto
<1>5. \A x : ContinueOf(x)' = ContinueOf(x)
  BY <1>1 DEF ContinueOf, Headers
<1>6. \A x : LiftedAccess(x)' = LiftedAccess(x)
  BY <1>5 DEF LiftedAccess, is_continue, continue_block_to_loop_header
<1>7. \A x : LiftedUse(x)' = LiftedUse(x)
  BY <1>2, <1>6 DEF LiftedUse
<1>8. \A A : GivenFor(A)' = GivenFor(A)
  BY <1>6, <1>7 DEF GivenFor
<1>9. \A d, A : IsClosest(d, A)' <=> IsClosest(d, A)
  BY <1>1, <1>2, <1>4 DEF IsClosest
<1> QED
  BY <1>1, <1>2, <1>3, <1>4, <1>6, <1>7, <1>8, <1>9

\* Which accesses the analysis sees in which stage.
RoleInv ==
  /\ stage \in {"accesses", "loop_variable"} => role \in Variables
  /\ stage = "temporaries" => role \in Results
  /\ stage = "loops" => role \in Variables \cup Results
  /\ stage = "parameter" => role = "parameter"
  /\ stage \in {"parameter", "loops"} => candidates = {}
  /\ stage \notin {"end", "thrown"} => loop_header = NoBlock
  /\ role \in Results => loop_header = NoBlock
  /\ stage \notin {"cfg", "parameter", "loops"} => role # "parameter" \/ stage = "end"
  /\ stage # "cfg" /\ role = "phi" => IsPhi([access |-> access])
  /\ stage # "cfg" /\ role \in Results => IsResult([access |-> access])

\* What the builder has been given, and which of it ends in candidates.
GatheredInv ==
  stage \in {"accesses", "temporaries"} =>
    /\ pending \subseteq Accessed /\ added = GivenFor(Accessed \ pending)
    /\ stage = "temporaries" => candidates = {x \in Accessed \ pending : LiftedUse(x) # {}}

\* The dominator of a variable dominates what was given to the builder.
DominatorInv ==
  stage \in {"loop_variable", "end"} /\ role \in Variables =>
    \A x \in GivenFor(Accessed) : x \in Numbered => dominator \in Numbered /\ x \notin Without(dominator)

\* A loop variable passed the test.
LoopVariableInv ==
  stage = "end" /\ loop_header # NoBlock =>
    /\ role \in Variables /\ dominator \in Numbered
    /\ loop_header \in Headers("loop") /\ loop_header \in Numbered
    /\ IsLoopVariable(loop_header)

\* What DeclareTemporary decides.
TemporaryInv ==
  LET several == Cardinality(Accessed) # 1
      hoist == builder # NoBlock /\ (builder \notin Accessed \/ (several /\ is_single_block_loop(builder)))
  IN stage = "end" /\ role \in Results =>
       /\ IsClosest(builder, GivenFor(Accessed))
       /\ several => builder # NoBlock
       /\ role = "temporary" => (several => dominator = builder) /\ (hoist => hoisted)
       /\ role = "access_chain" /\ hoist /\ (\E x \in Accessed : LiftedUse(x) # {})
            => complex_continue = builder

PlacementInv == RoleInv /\ GatheredInv /\ DominatorInv /\ LoopVariableInv /\ TemporaryInv
LEMMA RoleKept ==
  ASSUME vars' = vars, access' = access, role' = role
  PROVE  /\ IsPhi([access |-> access])' <=> IsPhi([access |-> access])
         /\ IsResult([access |-> access])' <=> IsResult([access |-> access])
         /\ \A x : is_single_block_loop(x)' <=> is_single_block_loop(x)
         /\ dominator' = dominator => \A h : IsLoopVariable(h)' <=> IsLoopVariable(h)
<1>1. func' = func /\ preceding' = preceding
  BY DEF vars, edges
<1>2. IsPhi([access |-> access])' <=> IsPhi([access |-> access])
  BY <1>1 DEF IsPhi
<1>3. RealFlow' = RealFlow /\ StructuralFlow' = StructuralFlow
  BY <1>1 DEF RealFlow, StructuralFlow, StructuralFlowOf
<1>4. Reached' = Reached
  BY <1>3 DEF Reached
<1>5. IsResult([access |-> access])' <=> IsResult([access |-> access])
  BY <1>1, <1>3, <1>4 DEF IsResult
<1>6. \A x : is_single_block_loop(x)' <=> is_single_block_loop(x)
  BY <1>1 DEF is_single_block_loop
<1>7. ASSUME dominator' = dominator, NEW h PROVE IsLoopVariable(h)' <=> IsLoopVariable(h)
  <2>1. Accessed' = Accessed
    BY DEF Accessed
  <2>2. StraightPath(dominator, h)' = StraightPath(dominator, h)
    BY <1>1, <1>7 DEF StraightPath, Successors
  <2>3. ReachableFrom(func[h].merge_block)' = ReachableFrom(func[h].merge_block)
    BY <1>1 DEF ReachableFrom, Successors
  <2> QED
    BY <2>1, <2>2, <2>3 DEF IsLoopVariable
<1> QED
  BY <1>2, <1>5, <1>6, <1>7

LEMMA RoleStep ==
  ASSUME IInv, RoleInv, ScopeInv, [ScopeNext]_<<vars, scope_vars>>
  PROVE  RoleInv'
<1> USE DEF Variables, Results
<1>1. CASE BuildCFG
  <2>1. stage = "cfg" /\ stage' = "cfg" /\ role' = role /\ loop_header' = loop_header
    BY <1>1 DEF BuildCFG, scope_vars, result
  <2> QED
    BY <2>1 DEF RoleInv
<1>2. CASE CollectAccesses
  <2>1. PICK v \in VariablesOf(func) :
          /\ v.role = "phi" => IsPhi(v)
          /\ v.role \in Results => IsResult(v)
          /\ role' = v.role /\ access' = v.access
    BY <1>2 DEF CollectAccesses
  <2>2. /\ stage = "cfg" /\ vars' = vars /\ loop_header' = loop_header /\ candidates' = candidates
        /\ stage' = IF role' = "parameter" THEN "parameter" ELSE "loops"
    BY <1>2 DEF CollectAccesses, result
  <2>3. loop_header = NoBlock /\ candidates = {} /\ v.role \in Roles
    BY <2>2, VariablesAssumption DEF ScopeInv, IInv, TypeInv
  <2>4. role' = "parameter" \/ role' \in Variables \cup Results
    BY <2>1, <2>3 DEF Roles
  <2>5. func' = func
    BY <2>2 DEF vars
  <2>6. IsPhi(v) => IsPhi([access |-> access])'
    BY <2>1, <2>5 DEF IsPhi
  <2>7. IsResult(v) => IsResult([access |-> access])'
    <3>1. RealFlow' = RealFlow /\ StructuralFlow' = StructuralFlow
      BY <2>5 DEF RealFlow, StructuralFlow, StructuralFlowOf
    <3>2. Reached' = Reached
      BY <3>1 DEF Reached
    <3> QED
      BY <2>1, <2>5, <3>1, <3>2 DEF IsResult
  <2> QED
    BY <2>1, <2>2, <2>3, <2>4, <2>6, <2>7 DEF RoleInv
<1>3. ASSUME UNCHANGED <<vars, role, access>>, stage # "cfg",
             /\ stage' \in {"accesses", "loop_variable"} => role \in Variables
             /\ stage' = "temporaries" => role \in Results
             /\ stage' \notin {"cfg", "parameter", "loops"}
             /\ role # "parameter" \/ stage' = "end"
             /\ stage' \notin {"end", "thrown"} => loop_header' = NoBlock
             /\ role \in Results => loop_header' = NoBlock
      PROVE  RoleInv'
  <2>1. /\ IsPhi([access |-> access])' <=> IsPhi([access |-> access])
        /\ IsResult([access |-> access])' <=> IsResult([access |-> access])
    BY <1>3, RoleKept
  <2> QED
    BY <1>3, <2>1 DEF RoleInv
<1>4. CASE analyze_parameter_preservation
  BY <1>3, <1>4 DEF analyze_parameter_preservation, RoleInv
<1>5. CASE FindLoopDominators
  <2>1. /\ UNCHANGED <<vars, role, access>> /\ stage = "loops" /\ loop_header' = loop_header
        /\ stage' = IF role \in Results THEN "temporaries" ELSE "accesses"
    BY <1>5 DEF FindLoopDominators, result
  <2> QED
    BY <1>3, <2>1 DEF RoleInv
<1>6. CASE AddAccess
  BY <1>3, <1>6 DEF AddAccess, RoleInv, result
<1>7. CASE ChooseDominator
  BY <1>3, <1>7 DEF ChooseDominator, RoleInv
<1>8. CASE FindLoopVariable
  BY <1>3, <1>8 DEF FindLoopVariable, RoleInv
<1>9. CASE AddTemporaryAccess
  BY <1>3, <1>9 DEF AddTemporaryAccess, RoleInv, result
<1>10. CASE DeclareTemporary
  BY <1>3, <1>10 DEF DeclareTemporary, RoleInv
<1>11. CASE UNCHANGED <<vars, scope_vars>>
  <2>1. UNCHANGED <<vars, stage, role, access, candidates, loop_header>>
    BY <1>11 DEF scope_vars, result
  <2>2. /\ IsPhi([access |-> access])' <=> IsPhi([access |-> access])
        /\ IsResult([access |-> access])' <=> IsResult([access |-> access])
    BY <2>1, RoleKept
  <2> QED
    BY <2>1, <2>2 DEF RoleInv
<1> QED
  BY <1>1, <1>2, <1>4, <1>5, <1>6, <1>7, <1>8, <1>9, <1>10, <1>11 DEF ScopeNext

LEMMA GatheredStep ==
  ASSUME BuilderInv, RoleInv, GatheredInv, [ScopeNext]_<<vars, scope_vars>>
  PROVE  GatheredInv'
<1>1. CASE BuildCFG \/ CollectAccesses \/ analyze_parameter_preservation \/ ChooseDominator \/ FindLoopVariable \/ DeclareTemporary
  <2>1. stage' \notin {"accesses", "temporaries"}
    BY <1>1 DEF BuildCFG, CollectAccesses, analyze_parameter_preservation, ChooseDominator, FindLoopVariable,
                DeclareTemporary, scope_vars
  <2> QED
    BY <2>1 DEF GatheredInv
<1>2. CASE FindLoopDominators
  <2>1. UNCHANGED <<vars, role, access, added, candidates>> /\ pending' = Accessed /\ stage = "loops"
    BY <1>2 DEF FindLoopDominators
  <2>2. Accessed' = Accessed /\ candidates = {} /\ added = {} /\ GivenFor({})' = {}
    BY <2>1, AnalysisKept DEF RoleInv, BuilderInv, GivenFor
  <2> QED
    BY <2>1, <2>2 DEF GatheredInv
\* One more access is given to the builder
<1>3. ASSUME NEW x \in pending, NEW lifted, UNCHANGED <<vars, role, access>>, stage \in {"accesses", "temporaries"},
             lifted = (IF role \in Results THEN LiftedUse(x) ELSE LiftedAccess(x)),
             pending' = pending \ {x}, added' = added \cup {x} \cup lifted
      PROVE  pending' \subseteq Accessed' /\ added' = GivenFor(Accessed \ pending)'
  <2> DEFINE A == Accessed \ pending
             B == A \cup {x}
  <2>1. /\ Accessed' = Accessed /\ x \in Accessed /\ pending \subseteq Accessed /\ added = GivenFor(A)
        /\ \A S : GivenFor(S)' = GivenFor(S)
    BY <1>3, AnalysisKept DEF GatheredInv
  <2>2. (Accessed \ pending)' = B
    BY <1>3, <2>1
  <2>3. GivenFor(B) = GivenFor(A) \cup {x} \cup lifted
    <3> HIDE DEF A
    <3> QED
      BY <1>3 DEF GivenFor
  <2>4. GivenFor(Accessed \ pending)' = GivenFor(B)
    <3>1. \A y : LiftedUse(y)' = LiftedUse(y) /\ LiftedAccess(y)' = LiftedAccess(y)
      BY <1>3, AnalysisKept
    <3> QED
      BY <1>3, <2>2, <3>1 DEF GivenFor
  <2> QED
    BY <1>3, <2>1, <2>3, <2>4
<1>4. CASE AddAccess
  <2>1. PICK x \in pending : pending' = pending \ {x} /\ added' = added \cup {x} \cup LiftedAccess(x)
    BY <1>4 DEF AddAccess
  <2>2. UNCHANGED <<vars, role, access>> /\ stage = "accesses" /\ stage' = stage /\ role \notin Results
    BY <1>4 DEF AddAccess, RoleInv, Variables, Results
  <2> QED
    BY <1>3, <2>1, <2>2 DEF GatheredInv
<1>5. CASE AddTemporaryAccess
  <2>1. PICK x \in pending :
          /\ candidates' = IF LiftedUse(x) = {} THEN candidates ELSE candidates \cup {x}
          /\ pending' = pending \ {x} /\ added' = added \cup {x} \cup LiftedUse(x)
    BY <1>5 DEF AddTemporaryAccess
  <2>2. UNCHANGED <<vars, role, access>> /\ stage = "temporaries" /\ stage' = stage /\ role \in Results
    BY <1>5 DEF AddTemporaryAccess, RoleInv
  <2>3. pending' \subseteq Accessed' /\ added' = GivenFor(Accessed \ pending)'
    BY <1>3, <2>1, <2>2
  <2>4. candidates' = {y \in Accessed \ pending : LiftedUse(y) # {}}'
    <3>1. /\ Accessed' = Accessed /\ \A y : LiftedUse(y)' = LiftedUse(y)
      BY <2>2, AnalysisKept
    <3>2. {y \in Accessed \ pending : LiftedUse(y) # {}}' = {y \in Accessed \ pending' : LiftedUse(y) # {}}
      BY <3>1
    <3>3. pending \subseteq Accessed /\ candidates = {y \in Accessed \ pending : LiftedUse(y) # {}}
      BY <2>2 DEF GatheredInv
    <3> QED
      BY <2>1, <3>2, <3>3
  <2> QED
    BY <2>2, <2>3, <2>4 DEF GatheredInv
<1>6. CASE UNCHANGED <<vars, scope_vars>>
  <2>1. UNCHANGED <<vars, stage, role, access, pending, added, candidates>>
    BY <1>6 DEF scope_vars
  <2>2. Accessed' = Accessed /\ (\A y : LiftedUse(y)' = LiftedUse(y)) /\ \A S : GivenFor(S)' = GivenFor(S)
    BY <2>1, AnalysisKept
  <2>3. GivenFor(Accessed \ pending)' = GivenFor(Accessed \ pending)
    BY <2>1, <2>2
  <2>4. {y \in Accessed \ pending : LiftedUse(y) # {}}' = {y \in Accessed \ pending : LiftedUse(y) # {}}
    BY <2>1, <2>2
  <2> QED
    BY <2>1, <2>2, <2>3, <2>4 DEF GatheredInv
<1> QED
  BY <1>1, <1>2, <1>4, <1>5, <1>6 DEF ScopeNext

\* Lifting a dominator out of a continue block keeps it above the accesses.
LEMMA ChosenDominates ==
  ASSUME Built, BuilderInv, StructureInv, ScopeInv, RoleInv, GatheredInv, ChooseDominator,
         NEW x \in GivenFor(Accessed), x \in Numbered
  PROVE  dominator' \in Numbered /\ x \notin Without(dominator')
<1> DEFINE d == lift_continue_block_dominator(builder)
           e == add_block(d, OutermostLoop(d))
<1>1. stage = "accesses" /\ pending = {} /\ dominator' \in {d, e}
      /\ (d # NoBlock => dominator' = IF role # "phi" /\ may_read_undefined_variable_in_block(d) THEN e ELSE d)
  BY DEF ChooseDominator
<1>2. IsClosest(builder, GivenFor(Accessed)) /\ GivenFor(Accessed) \in SUBSET Blocks
  <2>1. added = GivenFor(Accessed)
    <3>1. Accessed \ pending = Accessed
      BY <1>1
    <3> QED
      BY <1>1, <3>1 DEF GatheredInv
  <2> QED
    BY <1>1, <2>1 DEF BuilderInv
<1>3. builder \in Numbered /\ x \notin Without(builder)
  BY <1>2, ClosestDominates
<1>4. NoBlock \notin Blocks /\ Entry \in Numbered /\ Without(Entry) = {} /\ Numbered \subseteq Blocks
  BY TheTree, EntryDominates DEF Numbered
<1>5. d \in Numbered /\ x \notin Without(d) /\ d # NoBlock
  BY <1>3, <1>4 DEF lift_continue_block_dominator
<1>6. OutermostLoop(d) \in Numbered
  BY <1>1, <1>5, OutermostLoopExists DEF ScopeInv
<1> HIDE DEF d
<1>7. e \in Numbered /\ d \notin Without(e)
  BY <1>5, <1>6, AddBlockDominates
<1>8. x \notin Without(e)
  BY <1>5, <1>7, NumberedTransitive
<1> QED
  BY <1>1, <1>5, <1>7, <1>8

LEMMA DominatorStep ==
  ASSUME Built, BuilderInv, StructureInv, ScopeInv, RoleInv, GatheredInv, DominatorInv,
         [ScopeNext]_<<vars, scope_vars>>, stage # "cfg"
  PROVE  DominatorInv'
<1>1. CASE CollectAccesses \/ BuildCFG \/ FindLoopDominators \/ AddAccess \/ AddTemporaryAccess
           \/ DeclareTemporary \/ analyze_parameter_preservation
  <2>1. stage' \notin {"loop_variable", "end"} \/ role' \notin Variables
    BY <1>1 DEF CollectAccesses, BuildCFG, FindLoopDominators, AddAccess, AddTemporaryAccess, scope_vars,
                DeclareTemporary, RoleInv, analyze_parameter_preservation, Results, Variables
  <2> QED
    BY <2>1 DEF DominatorInv
<1>2. CASE ChooseDominator
  <2>1. UNCHANGED <<vars, role, access>>
    BY <1>2 DEF ChooseDominator
  <2>2. GivenFor(Accessed)' = GivenFor(Accessed) /\ Numbered' = Numbered /\ \A d : Without(d)' = Without(d)
    BY <2>1, AnalysisKept
  <2>3. Without(dominator)' = Without(dominator')
    BY <2>2
  <2> QED
    BY <1>2, <2>2, <2>3, ChosenDominates DEF DominatorInv
<1>3. CASE FindLoopVariable \/ UNCHANGED <<vars, scope_vars>>
  <2>1. UNCHANGED <<vars, role, access, dominator>> /\ (stage' = stage \/ stage = "loop_variable")
    BY <1>3 DEF FindLoopVariable, scope_vars, result
  <2>2. GivenFor(Accessed)' = GivenFor(Accessed) /\ Numbered' = Numbered /\ \A d : Without(d)' = Without(d)
    BY <2>1, AnalysisKept
  <2>3. Without(dominator)' = Without(dominator)
    BY <2>1, <2>2
  <2> QED
    BY <2>1, <2>2, <2>3 DEF DominatorInv
<1> QED
  BY <1>1, <1>2, <1>3 DEF ScopeNext

LEMMA LoopVariableStep ==
  ASSUME Built, ScopeInv, RoleInv, LoopVariableInv, ScopeInv', [ScopeNext]_<<vars, scope_vars>>
  PROVE  LoopVariableInv'
<1> SUFFICES ASSUME stage' = "end", loop_header' # NoBlock
             PROVE  /\ role' \in Variables /\ dominator' \in Numbered'
                    /\ loop_header' \in Headers("loop")' /\ loop_header' \in Numbered'
                    /\ IsLoopVariable(loop_header)'
  BY DEF LoopVariableInv
<1>1. loop_header' \in Numbered'
  BY DEF ScopeInv, ScopeTypeOK
<1>2. CASE FindLoopVariable
  <2> DEFINE c == CHOOSE c \in candidates : TRUE
             h == continue_block_to_loop_header(c)
  <2>1. /\ UNCHANGED <<vars, role, access, dominator>> /\ stage = "loop_variable"
        /\ loop_header' = IF dominator # NoBlock /\ \E x \in candidates : candidates = {x}
                          THEN IF IsLoopVariable(h) THEN h ELSE NoBlock ELSE NoBlock
    BY <1>2 DEF FindLoopVariable
  <2>2. dominator # NoBlock /\ candidates # {} /\ IsLoopVariable(h) /\ loop_header' = h
    BY <2>1
  <2>3. c \in candidates
    BY <2>2
  <2> HIDE DEF c
  <2>4. dominator \in Numbered /\ is_continue(c) /\ c \in Blocks
    BY <2>2, <2>3 DEF ScopeInv, ScopeTypeOK
  <2>5. h \in Headers("loop")
    BY <2>4, HeadersAreBlocks DEF ContinueOf
  <2>6. role \in Variables
    BY <2>1 DEF RoleInv
  <2>7. Numbered' = Numbered /\ Headers("loop")' = Headers("loop")
    BY <2>1, AnalysisKept DEF Headers
  <2>8. IsLoopVariable(loop_header)' <=> IsLoopVariable(loop_header')
    <3>1. Accessed' = Accessed /\ preceding' = preceding /\ func' = func
      BY <2>1 DEF Accessed, vars, edges
    <3>2. StraightPath(dominator, loop_header)' = StraightPath(dominator, loop_header')
      BY <2>1, <3>1 DEF StraightPath, Successors
    <3>3. ReachableFrom(func[loop_header].merge_block)' = ReachableFrom(func[loop_header'].merge_block)
      BY <3>1 DEF ReachableFrom, Successors
    <3> QED
      BY <3>1, <3>2, <3>3 DEF IsLoopVariable
  <2> HIDE DEF h
  <2> QED
    BY <1>1, <2>1, <2>2, <2>4, <2>5, <2>6, <2>7, <2>8
<1>3. CASE ~FindLoopVariable
  <2>1. UNCHANGED <<vars, role, access, dominator, loop_header, stage>> /\ stage = "end"
    <3>1. BuildCFG => FALSE
      BY DEF BuildCFG, scope_vars
    <3>2. CollectAccesses => FALSE
      BY DEF CollectAccesses
    <3>3. analyze_parameter_preservation => FALSE
      BY DEF analyze_parameter_preservation, RoleInv
    <3>4. FindLoopDominators => FALSE
      BY DEF FindLoopDominators
    <3>5. AddAccess => FALSE
      BY DEF AddAccess
    <3>6. ChooseDominator => FALSE
      BY DEF ChooseDominator
    <3>7. AddTemporaryAccess => FALSE
      BY DEF AddTemporaryAccess
    <3>8. DeclareTemporary => FALSE
      BY DEF DeclareTemporary, RoleInv
    <3> QED
      BY <1>3, <3>1, <3>2, <3>3, <3>4, <3>5, <3>6, <3>7, <3>8 DEF ScopeNext, scope_vars, result
  <2>2. Numbered' = Numbered /\ Headers("loop")' = Headers("loop")
    BY <2>1, AnalysisKept DEF Headers
  <2>3. IsLoopVariable(loop_header)' <=> IsLoopVariable(loop_header)
    BY <2>1, RoleKept
  <2> QED
    BY <2>1, <2>2, <2>3 DEF LoopVariableInv
<1> QED
  BY <1>2, <1>3

LEMMA TemporaryStep ==
  ASSUME Built, BuilderInv, RoleInv, GatheredInv, TemporaryInv, [ScopeNext]_<<vars, scope_vars>>
  PROVE  TemporaryInv'
<1> DEFINE several == Cardinality(Accessed) # 1
           hoist == builder # NoBlock /\ (builder \notin Accessed \/ (several /\ is_single_block_loop(builder)))
           Right == /\ IsClosest(builder, GivenFor(Accessed))
                    /\ several => builder # NoBlock
                    /\ role = "temporary" => (several => dominator' = builder) /\ (hoist => hoisted')
                    /\ role = "access_chain" /\ hoist /\ (\E x \in Accessed : LiftedUse(x) # {})
                         => complex_continue' = builder
<1> SUFFICES ASSUME stage' = "end", role' \in Results
             PROVE  TemporaryInv'
  BY DEF TemporaryInv
<1>1. UNCHANGED <<vars, role, access, builder>> /\ Right
  <2>1. CASE DeclareTemporary
    <3>1. /\ UNCHANGED <<vars, role, access, builder>> /\ stage = "temporaries" /\ pending = {}
          /\ stage' = IF several /\ ~(builder # NoBlock) THEN "thrown" ELSE "end"
          /\ dominator' = IF role = "temporary" /\ several THEN builder ELSE NoBlock
          /\ hoisted' = (role = "temporary" /\ hoist)
          /\ complex_continue' = IF role = "access_chain" /\ hoist /\ candidates # {} THEN builder ELSE NoBlock
      BY <2>1, Zenon DEF DeclareTemporary
    <3>2. added = GivenFor(Accessed) /\ candidates = {x \in Accessed : LiftedUse(x) # {}}
      <4>1. Accessed \ pending = Accessed
        BY <3>1
      <4> QED
        BY <3>1, <4>1 DEF GatheredInv
    <3>3. IsClosest(builder, GivenFor(Accessed))
      BY <3>1, <3>2 DEF BuilderInv
    <3>4. several => builder # NoBlock
      BY <3>1
    <3>5. role = "temporary" /\ hoist => hoisted'
      BY <3>1, Zenon
    <3>6. (\E x \in Accessed : LiftedUse(x) # {}) => candidates # {}
      BY <3>2
    <3>7. role = "access_chain" /\ hoist /\ candidates # {} => complex_continue' = builder
      BY <3>1
    <3>8. role = "temporary" /\ several => dominator' = builder
      BY <3>1
    <3> HIDE DEF several, hoist
    <3> QED
      BY <3>1, <3>3, <3>4, <3>5, <3>6, <3>7, <3>8
  <2>2. CASE ~DeclareTemporary
    <3>1. UNCHANGED <<vars, role, access, builder, dominator, hoisted, complex_continue, stage>> /\ stage = "end"
      <4>1. BuildCFG => FALSE
        BY DEF BuildCFG, scope_vars
      <4>2. CollectAccesses => FALSE
        BY DEF CollectAccesses
      <4>3. analyze_parameter_preservation => FALSE
        BY DEF analyze_parameter_preservation, RoleInv, Results
      <4>4. FindLoopDominators => FALSE
        BY DEF FindLoopDominators
      <4>5. AddAccess => FALSE
        BY DEF AddAccess
      <4>6. ChooseDominator => FALSE
        BY DEF ChooseDominator
      <4>7. AddTemporaryAccess => FALSE
        BY DEF AddTemporaryAccess
      <4>8. FindLoopVariable => FALSE
        BY DEF FindLoopVariable, RoleInv, Results, Variables
      <4> QED
        BY <2>2, <4>1, <4>2, <4>3, <4>4, <4>5, <4>6, <4>7, <4>8 DEF ScopeNext, scope_vars, result, placement
    <3> QED
      BY <3>1 DEF TemporaryInv
  <2> QED
    BY <2>1, <2>2
<1>2. Accessed' = Accessed /\ (\A x : LiftedUse(x)' = LiftedUse(x)) /\ (\A A : GivenFor(A)' = GivenFor(A))
  BY <1>1, AnalysisKept
<1>3. IsClosest(builder, GivenFor(Accessed))' <=> IsClosest(builder, GivenFor(Accessed))
  <2>1. GivenFor(Accessed)' = GivenFor(Accessed)
    BY <1>2
  <2>2. Numbered' = Numbered /\ order' = order /\ \A z : Dom(z)' = Dom(z)
    BY <1>1, AnalysisKept DEF vars, traversal
  <2> QED
    BY <1>1, <2>1, <2>2 DEF IsClosest
<1>4. is_single_block_loop(builder)' <=> is_single_block_loop(builder)
  BY <1>1 DEF is_single_block_loop, vars
<1>5. /\ several' <=> several
      /\ (builder # NoBlock /\ (builder \notin Accessed \/ (several /\ is_single_block_loop(builder))))' <=> hoist
      /\ (\E x \in Accessed : LiftedUse(x) # {})' <=> \E x \in Accessed : LiftedUse(x) # {}
  BY <1>1, <1>2, <1>4
<1> HIDE DEF several
<1> QED
  BY <1>1, <1>3, <1>5 DEF TemporaryInv, several

LEMMA PlacementBefore ==
  ASSUME stage = "cfg", ScopeNext
  PROVE  stage' \in {"cfg", "parameter", "loops"}
<1>1. CASE BuildCFG
  BY <1>1 DEF BuildCFG, scope_vars
<1>2. CASE CollectAccesses
  BY <1>2 DEF CollectAccesses
<1> QED
  BY <1>1, <1>2 DEF ScopeNext, analyze_parameter_preservation, FindLoopDominators, AddAccess,
       ChooseDominator, FindLoopVariable, AddTemporaryAccess, DeclareTemporary

LEMMA PlacementInvariance == ScopeSpec /\ FollowsRules(func) /\ ContinuesAreDominated(func) => []PlacementInv
<1>1. ScopeInit => PlacementInv
  <2> SUFFICES ASSUME ScopeInit PROVE PlacementInv
    OBVIOUS
  <2>1. stage = "cfg" /\ role = "scalar" /\ loop_header = NoBlock
    BY DEF ScopeInit
  <2> QED
    BY <2>1 DEF PlacementInv, RoleInv, GatheredInv, DominatorInv, LoopVariableInv, TemporaryInv, Results
<1>2. /\ IInv /\ DomInv /\ UnnumberedInv /\ BuilderInv /\ StructureInv /\ ScopeInv /\ ScopeInv' /\ PlacementInv
      /\ [ScopeNext]_<<vars, scope_vars>>
      => PlacementInv'
  <2> SUFFICES ASSUME IInv, DomInv, UnnumberedInv, BuilderInv, StructureInv, ScopeInv, ScopeInv', PlacementInv,
                      [ScopeNext]_<<vars, scope_vars>>
               PROVE  PlacementInv'
    OBVIOUS
  <2>1. RoleInv /\ GatheredInv /\ DominatorInv /\ LoopVariableInv /\ TemporaryInv
    BY DEF PlacementInv
  <2>2. RoleInv'
    BY <2>1, RoleStep
  <2>3. GatheredInv'
    BY <2>1, GatheredStep
  <2>4. CASE stage # "cfg"
    <3>1. Built
      BY <2>4 DEF Built, BuilderInv
    <3>2. DominatorInv'
      BY <2>1, <2>4, <3>1, DominatorStep
    <3>3. LoopVariableInv'
      BY <2>1, <3>1, LoopVariableStep
    <3>4. TemporaryInv'
      BY <2>1, <3>1, TemporaryStep
    <3> QED
      BY <2>2, <2>3, <3>2, <3>3, <3>4 DEF PlacementInv
  <2>5. CASE stage = "cfg"
    <3>1. stage' \in {"cfg", "parameter", "loops"}
      BY <2>5, PlacementBefore DEF scope_vars
    <3>2. DominatorInv' /\ LoopVariableInv' /\ TemporaryInv'
      BY <3>1 DEF DominatorInv, LoopVariableInv, TemporaryInv
    <3> QED
      BY <2>2, <2>3, <3>2 DEF PlacementInv
  <2> QED
    BY <2>4, <2>5
<1>3. ScopeSpec /\ FollowsRules(func) /\ ContinuesAreDominated(func) =>
        [](IInv /\ DomInv /\ UnnumberedInv /\ BuilderInv /\ StructureInv /\ ScopeInv)
  BY ScopeBuildsCFG, Invariance, DomInvariance, UnnumberedInvariance, BuilderInvariance, StructureInvariance,
     ScopeInvariance, PTL
<1> QED
  BY <1>1, <1>2, <1>3, PTL DEF ScopeSpec

-------------------------------------------------------------------------------
(* Loop variables.                                                         *)

\* ReachableFrom is closed: the iteration has ended.
LEMMA ReachableFromIsClosed ==
  ASSUME NEW x \in Blocks
  PROVE  x \in ReachableFrom(x) /\ \A y \in ReachableFrom(x) : Successors(y) \subseteq ReachableFrom(x)
<1> DEFINE N == Cardinality(Blocks)
           F == [S \in SUBSET Blocks |-> S \cup UNION {Successors(y) : y \in S}]
           Is(f) == f = [n \in 0 .. N |-> IF n = 0 THEN {x}
                                          ELSE f[n - 1] \cup UNION {Successors(y) : y \in f[n - 1]}]
<1>1. N \in Nat
  BY BlocksAssumption, FS_CardinalityType
<1>2. F \in [SUBSET Blocks -> SUBSET Blocks] /\ F[{}] = {} /\ \A S \in SUBSET Blocks : S \subseteq F[S]
  BY DEF Successors
<1>3. \E f : Is(f)
  <2>1. PICK f \in [0 .. N -> SUBSET Blocks] : f[0] = {x} /\ \A n \in 1 .. N : f[n] = F[f[n - 1]]
    <3>1. F \in [SUBSET Blocks -> SUBSET Blocks] /\ {x} \in SUBSET Blocks
      BY <1>2
    <3> HIDE DEF F, N
    <3>2. IsGrower(F, {x}, Blocks, N)
      BY <1>1, <3>1 DEF IsGrower
    <3> QED
      BY <3>2, GrowthExists
  <2> DEFINE body(n) == IF n = 0 THEN {x} ELSE f[n - 1] \cup UNION {Successors(y) : y \in f[n - 1]}
  <2>2. ASSUME NEW n \in 0 .. N PROVE f[n] = body(n)
    <3>1. CASE n = 0
      BY <2>1, <3>1
    <3>2. CASE n # 0
      <4>1. n \in 1 .. N /\ n - 1 \in 0 .. N
        BY <1>1, <3>2
      <4>2. f[n - 1] \in SUBSET Blocks /\ f[n] = F[f[n - 1]]
        BY <2>1, <4>1
      <4> QED
        BY <3>2, <4>2
    <3> QED
      BY <3>1, <3>2
  <2>3. f = [n \in 0 .. N |-> body(n)]
    <3> HIDE DEF body, N
    <3> QED
      BY <2>1, <2>2
  <2> QED
    BY <2>3
<1> DEFINE c == CHOOSE f : Is(f)
<1>4. Is(c)
  <2> HIDE DEF Is
  <2> QED
    BY <1>3
<1>5. ReachableFrom(x) = c[N]
  BY DEF ReachableFrom
<1> HIDE DEF c
<1>6. c[0] = {x} /\ \A n \in 1 .. N : c[n] = c[n - 1] \cup UNION {Successors(y) : y \in c[n - 1]}
  BY <1>1, <1>4
<1>7. IsGrowth(c, F, {x}, Blocks, N)
  <2>1. \A n \in 1 .. N : c[n - 1] \in SUBSET Blocks => c[n] = F[c[n - 1]]
    BY <1>6
  <2> HIDE DEF F, N
  <2> QED
    BY <1>1, <1>2, <1>6, <2>1 DEF IsGrowth
<1>8. c[N] \in SUBSET Blocks /\ {x} \subseteq c[N] /\ F[c[N]] = c[N]
  <2> HIDE DEF F
  <2> QED
    BY <1>2, <1>7, BlocksAssumption, GrowthEnds
<1>9. c[N] \cup UNION {Successors(y) : y \in c[N]} = c[N]
  BY <1>8
<1> QED
  BY <1>5, <1>8, <1>9

\* A variable declared in the header of a loop is not used outside the loop, except
\* on the way to it (FindLoopVariable): for every function whose loops are closed.
THEOREM LoopVariablesAlwaysStayInTheLoop ==
  ScopeSpec /\ FollowsRules(func) /\ ContinuesAreDominated(func) /\ LoopsAreClosed(func)
    => []LoopVariablesStayInTheLoop
<1>1. /\ IInv /\ DomInv /\ UnnumberedInv /\ BuilderInv /\ StructureInv /\ TargetInv /\ PlacementInv
      /\ LoopsAreClosed(func)
      => LoopVariablesStayInTheLoop
  <2> SUFFICES ASSUME IInv, DomInv, UnnumberedInv, BuilderInv, StructureInv, TargetInv, PlacementInv,
                      LoopsAreClosed(func), stage = "end", loop_header # NoBlock, NEW x \in Accessed \cap Reached
               PROVE  x \in Construct(loop_header) \cup StraightPath(dominator, loop_header)
    BY DEF LoopVariablesStayInTheLoop
  <2> DEFINE h == loop_header
             m == func[h].merge_block
             way == StraightPath(dominator, h)
             after == ReachableFrom(m)
             forward == {e \in RealFlow : e[1] \in Elements(preceding[e[2]])}
             D == ReachableWithout(forward, NoBlock)
             Q == Without(dominator) \cup way \cup Construct(h) \cup after
  <2>1. Built /\ TypeInv
    BY DEF Built, BuilderInv, IInv
  <2>2. /\ Entry \in Blocks /\ NoBlock \notin Blocks /\ Reached \subseteq Numbered /\ RealFlow \in SUBSET (Blocks \X Blocks)
        /\ RealFlow \subseteq VisitFlow(func) /\ VisitFlow(func) \subseteq StructuralFlow
        /\ Numbered \subseteq Structural(NoBlock) /\ Ids \subseteq Blocks /\ Numbered \subseteq Blocks
    BY <2>1, FlowsNest DEF Numbered
  <2>3. /\ role \in Variables /\ dominator \in Numbered /\ h \in Headers("loop") /\ h \in Numbered
        /\ IsLoopVariable(h)
    BY DEF PlacementInv, LoopVariableInv
  <2>4. way # {} /\ after \cap Accessed = {} /\ h \in Ids /\ func[h].merge = "loop" /\ m \in Ids
    <3>1. h \in Ids /\ func[h].merge = "loop"
      BY <2>3 DEF Headers, Ids
    <3>2. m \in Ids
      BY <3>1, <2>1, FunctionsAssumption DEF TypeInv, BlockOK, Ids
    <3> QED
      BY <2>3, <3>1, <3>2 DEF IsLoopVariable
  <2>5. x \notin Without(dominator)
    <3>1. x \in GivenFor(Accessed) /\ x \in Numbered
      BY <2>2 DEF GivenFor
    <3> QED
      BY <2>3, <3>1 DEF PlacementInv, DominatorInv
  <2>6. dominator \in way /\ \A y \in way : y # h => \E z \in way : Successors(y) = {z}
    BY <2>1, <2>2, <2>3, <2>4, StraightPathGoesOn
  <2>7. m \in after /\ \A y \in after : Successors(y) \subseteq after
    BY <2>2, <2>4, ReachableFromIsClosed
  <2>8. h \in Construct(h)
    BY <2>1, <2>3, <2>4, ConstructIsDominated
  <2>9. x \in D /\ D \subseteq Numbered /\ forward \in SUBSET (Blocks \X Blocks)
    BY <2>1, ForwardReaches DEF Reached
  <2>10. /\ Entry # dominator => Entry \in Without(dominator)
         /\ \A y, z : <<y, z>> \in VisitFlow(func) /\ y \in Without(dominator) /\ z # dominator
              => z \in Without(dominator)
    BY <2>1, WithoutIsClosed
  <2>11. IsClosedWithout(forward, NoBlock, Q \cap Numbered)
    <3> SUFFICES ASSUME NEW y, NEW z, <<y, z>> \in forward, y \in Q, y \in Numbered PROVE z \in Q \cap Numbered
      <4> HIDE DEF forward, Q
      <4> QED
        BY <2>9 DEF IsClosedWithout
    <3>1. <<y, z>> \in RealFlow /\ y \in Elements(preceding[z]) /\ z \in Blocks
      BY <2>2
    <3>2. z \in Successors(y) /\ z \in Numbered
      BY <2>1, <3>1 DEF Successors, Numbered, Built, IInv, EdgesDescend
    <3>3. CASE y \in Without(dominator)
      BY <2>2, <2>6, <2>10, <3>1, <3>2, <3>3
    <3>4. CASE y \in way /\ y # h
      BY <2>6, <3>2, <3>4
    <3>5. CASE y \in Construct(h)
      <4>1. y \in Structural(NoBlock) /\ <<y, z>> \in StructuralFlow
        BY <2>2, <3>1
      <4>2. z \in Construct(h) \cup {m}
        BY <2>1, <2>4, <3>5, <4>1, LoopIsClosed
      <4> QED
        BY <2>7, <3>2, <4>2
    <3>6. CASE y \in after
      BY <2>7, <3>2, <3>6
    <3>7. z \in Q
      BY <2>8, <3>3, <3>4, <3>5, <3>6
    <3> QED
      BY <3>2, <3>7
  <2>12. Entry \in Q \cap Numbered
    BY <2>1, <2>6, <2>10, TheTree
  <2>13. D \subseteq Q \cap Numbered
    <3> HIDE DEF forward, Q
    <3> QED
      BY <2>2, <2>9, <2>11, <2>12, ReachableIsLeast
  <2> QED
    BY <2>4, <2>5, <2>9, <2>13
<1>2. ScopeSpec /\ FollowsRules(func) /\ ContinuesAreDominated(func) /\ LoopsAreClosed(func) =>
        [](/\ IInv /\ DomInv /\ UnnumberedInv /\ BuilderInv /\ StructureInv /\ TargetInv /\ PlacementInv
           /\ LoopsAreClosed(func))
  BY ScopeBuildsCFG, Invariance, DomInvariance, UnnumberedInvariance, BuilderInvariance, StructureInvariance,
     TargetInvariance, PlacementInvariance, ClosedInvariance, PTL
<1> QED
  BY <1>1, <1>2, PTL

-------------------------------------------------------------------------------
(* Access chains.                                                          *)

\* The header of a continue block is the one which says so.
LEMMA HeaderOfContinue ==
  ASSUME Built, TargetsAreUnique(func), NEW h \in Ids, func[h].merge = "loop", func[h].continue_block # h
  PROVE  /\ is_continue(func[h].continue_block)
         /\ continue_block_to_loop_header(func[h].continue_block) = h
<1> DEFINE c == func[h].continue_block
           g == continue_block_to_loop_header(c)
<1>1. h \in ContinueOf(c) \ {c}
  BY DEF ContinueOf, Headers, Ids
<1>2. is_continue(c) /\ c \in Blocks
  <2>1. c \in Ids /\ Ids \subseteq Blocks
    BY FunctionsAssumption, Branches DEF Built, IInv, TypeInv, BlockOK, Ids
  <2> QED
    BY <1>1, <2>1 DEF is_continue
<1>3. g \in ContinueOf(c) \ {c}
  BY <1>2, HeadersAreBlocks
<1>4. g \in DOMAIN func /\ func[g].merge = "loop" /\ func[g].continue_block = c /\ g # c
  BY <1>3 DEF ContinueOf, Headers
<1> HIDE DEF g
<1>5. g = h
  BY <1>4 DEF TargetsAreUnique, Ids
<1> QED
  BY <1>2, <1>5 DEF g

\* What a result of role access_chain or temporary promises.
LEMMA ResultIsDominated ==
  ASSUME Built, RoleInv, stage # "cfg", role \in Results, NEW d \in Ids, access[d] = "write"
  PROVE  \A x \in Accessed \ {d} : /\ access[x] = "read"
                                   /\ x \in Reached => x \notin Real(d)
                                   /\ x \notin Reached => x \notin Structural(d)
<1>1. IsResult([access |-> access])
  BY DEF RoleInv
<1>2. PICK e \in DOMAIN func :
        /\ access[e] = "write"
        /\ \A x \in Blocks \ {e} : access[x] # "none" =>
             /\ access[x] = "read"
             /\ x \notin ReachableWithout(IF x \in Reached THEN RealFlow ELSE StructuralFlow, e)
  BY <1>1 DEF IsResult
<1>3. d = e
  <2>1. Ids \subseteq Blocks
    BY Branches DEF Built, IInv, TypeInv
  <2> QED
    BY <1>2, <2>1
<1>4. \A x \in Accessed : x \in Blocks /\ access[x] # "none"
  BY DEF Accessed
<1>5. ASSUME d = e, NEW x \in Accessed \ {d}
      PROVE  /\ access[x] = "read"
             /\ x \in Reached => x \notin Real(d)
             /\ x \notin Reached => x \notin Structural(d)
  <2>1. access[x] = "read" /\ x \notin ReachableWithout(IF x \in Reached THEN RealFlow ELSE StructuralFlow, d)
    BY <1>2, <1>4, <1>5
  <2>2. CASE x \in Reached
    BY <2>1, <2>2 DEF Real
  <2>3. CASE x \notin Reached
    BY <2>1, <2>3 DEF Structural
  <2> QED
    BY <2>1, <2>2, <2>3
<1> QED
  BY <1>3, <1>5

\* A chain of the body which the continue block uses is not used outside the loop.
LEMMA ChainIsInLoop ==
  ASSUME Built, StructureInv, RoleInv, LoopsAreClosed(func), stage # "cfg", role \in Results,
         NEW h \in Ids, func[h].merge = "loop", func[h].continue_block \in Reached,
         func[h].continue_block \in Accessed,
         NEW d \in Construct(h), d # h, access[d] = "write",
         {func[h].merge_block} \cap Reached \subseteq Real(d)
  PROVE  h \in Numbered /\ h \notin Accessed /\ \A x \in Accessed : x \notin Structural(h)
<1> DEFINE m == func[h].merge_block
           c == func[h].continue_block
<1>1. /\ Entry \in Blocks /\ NoBlock \notin Blocks /\ Reached \subseteq Numbered
      /\ RealFlow \in SUBSET (Blocks \X Blocks) /\ StructuralFlow \in SUBSET (Blocks \X Blocks)
      /\ RealFlow \subseteq StructuralFlow /\ Numbered \subseteq Structural(NoBlock)
      /\ \A x : Real(x) \subseteq Without(x) /\ Without(x) \subseteq Structural(x)
  BY FlowsNest
<1>2. /\ h \in Numbered => h \in Construct(h)
      /\ \A x \in Construct(h) : /\ x \in Ids /\ x \notin Structural(h) /\ x \notin Without(h)
                                 /\ x \in Numbered => h \in Numbered
  BY ConstructIsDominated
<1>3. c \in Construct(h) /\ c \in Numbered /\ h \in Numbered
  BY <1>1, <1>2, LoopIsClosed
<1>4. \A x \in Accessed \ {d} : /\ x \in Reached => x \notin Real(d)
                                /\ x \notin Reached => x \notin Structural(d)
  BY <1>2, ResultIsDominated
\* What is only reached through the definition is in the loop
<1>5. Reached \subseteq Real(d) \cup Construct(h)
  <2> DEFINE S == Reached \cap (Real(d) \cup Construct(h))
  <2>1. /\ Entry \in Reached /\ IsClosedWithout(RealFlow, NoBlock, Reached)
        /\ (Entry # d => Entry \in Real(d)) /\ IsClosedWithout(RealFlow, d, Real(d))
    BY <1>1, ReachableIsClosed DEF Reached, Real
  <2>2. Entry \in S
    BY <2>1
  <2>3. IsClosedWithout(RealFlow, NoBlock, S)
    <3> SUFFICES ASSUME NEW x, NEW y, <<x, y>> \in RealFlow, x \in S PROVE y \in S
      <4> HIDE DEF S
      <4> QED
        BY <1>1 DEF IsClosedWithout
    <3>1. y \in Reached /\ x \in Structural(NoBlock) /\ <<x, y>> \in StructuralFlow
      <4>1. y # NoBlock
        BY <1>1
      <4> QED
        BY <1>1, <2>1, <4>1 DEF IsClosedWithout
    <3>2. CASE x \in Real(d)
      BY <2>1, <3>1, <3>2 DEF IsClosedWithout
    <3>3. CASE x \in Construct(h)
      <4>1. y \in Construct(h) \cup {m}
        BY <3>1, <3>3, LoopIsClosed
      <4> QED
        BY <3>1, <4>1
    <3> QED
      BY <3>2, <3>3
  <2>4. Reached \subseteq S
    <3> HIDE DEF S
    <3> QED
      BY <1>1, <2>2, <2>3, ReachableIsLeast DEF Reached
  <2> QED
    BY <2>4
<1>6. ASSUME NEW x \in Accessed PROVE x \notin Structural(h)
  <2>1. CASE x = d
    BY <1>2, <2>1
  <2>2. CASE x # d /\ x \in Reached
    BY <1>2, <1>4, <1>5, <2>2
  <2>3. CASE x # d /\ x \notin Reached
    <3>1. x \notin Structural(d) /\ d \notin Structural(h)
      BY <1>2, <1>4, <2>3
    <3> QED
      BY <3>1, StructuralTransitive
  <2> QED
    BY <2>1, <2>2, <2>3
<1>7. h \notin Accessed
  <2> SUFFICES ASSUME h \in Accessed PROVE FALSE
    OBVIOUS
  <2>1. c \notin Real(h) /\ d \notin Real(h)
    BY <1>1, <1>2, <1>3
  <2>2. h \in Reached
    BY <1>1, <2>1, DominatorIsReached DEF Reached, Real
  <2>3. h \notin Real(d)
    BY <1>4, <2>2
  <2>4. h = d
    BY <1>1, <2>1, <2>2, <2>3, DominanceIsAntisymmetric DEF Reached, Real
  <2> QED
    BY <2>4
<1> QED
  BY <1>3, <1>6, <1>7

\* A chain which is defined in the body of a loop and used by its continue block makes
\* the loop a complex one, if the loop can be left before the definition: for every
\* function whose loops are closed and whose targets are unique.
THEOREM ChainsAlwaysComeFirst ==
  ScopeSpec /\ FollowsRules(func) /\ ContinuesAreDominated(func) /\ LoopsAreClosed(func) /\ TargetsAreUnique(func)
    => []ChainsComeFirst
<1>1. /\ IInv /\ DomInv /\ UnnumberedInv /\ BuilderInv /\ StructureInv /\ PlacementInv
      /\ LoopsAreClosed(func) /\ TargetsAreUnique(func)
      => ChainsComeFirst
  <2> SUFFICES ASSUME IInv, DomInv, UnnumberedInv, BuilderInv, StructureInv, PlacementInv,
                      LoopsAreClosed(func), TargetsAreUnique(func), stage = "end", role = "access_chain",
                      NEW h \in Headers("loop"), access[func[h].continue_block] = "read",
                      func[h].continue_block \in Reached,
                      NEW d \in Construct(h) \ (ContinueConstruct(h) \cup {h}), access[d] = "write",
                      {func[h].merge_block} \cap Reached \subseteq Real(d)
               PROVE  complex_continue = h
    BY DEF ChainsComeFirst, Real
  <2> DEFINE c == func[h].continue_block
             given == {y \in GivenFor(Accessed) : order[y] # 0}
  <2>1. Built /\ role \in Results /\ stage # "cfg" /\ RoleInv /\ TemporaryInv
    BY DEF Built, BuilderInv, Results, PlacementInv
  <2>2. /\ Reached \subseteq Numbered /\ Numbered \subseteq Ids /\ Ids \subseteq Blocks
        /\ \A x : Without(x) \subseteq Structural(x)
        /\ StructuralFlow \in SUBSET (Blocks \X Blocks) /\ Entry \in Blocks
    BY <2>1, FlowsNest
  <2>3. h \in Ids /\ func[h].merge = "loop"
    BY DEF Headers, Ids
  <2>4. c # h
    <3>1. d \in Construct(h) /\ d \notin ContinueConstruct(h)
      OBVIOUS
    <3>2. d \in Structural(c)
      BY <3>1 DEF ContinueConstruct, ContinueConstructOf, Construct, Structural, StructuralFlow
    <3>3. d \notin Structural(h)
      BY <2>1, <2>3, ConstructIsDominated
    <3> QED
      BY <3>2, <3>3
  <2>5. c \in Accessed /\ c \in Numbered /\ d \in Accessed /\ d # c
    <3>1. c \in Blocks /\ d \in Blocks
      BY <2>1, <2>2, <2>3, ConstructIsDominated
    <3> QED
      BY <2>2, <3>1 DEF Accessed
  <2>6. h \in Numbered /\ h \notin Accessed /\ \A x \in Accessed : x \notin Structural(h)
    BY <2>1, <2>3, <2>5, ChainIsInLoop
  <2>7. Cardinality(Accessed) # 1
    <3>1. IsFiniteSet(Accessed)
      <4>1. Accessed \subseteq Blocks
        BY DEF Accessed
      <4> QED
        BY <4>1, BlocksAssumption, FS_Subset
    <3> SUFFICES ASSUME Cardinality(Accessed) = 1 PROVE FALSE
      OBVIOUS
    <3>2. \E x : Accessed = {x}
      BY <3>1, FS_Singleton
    <3> QED
      BY <2>5, <3>2
  <2>8. LiftedUse(c) = {h}
    <3>1. is_continue(c) /\ continue_block_to_loop_header(c) = h
      BY <2>1, <2>3, <2>4, HeaderOfContinue
    <3> QED
      BY <2>7, <3>1 DEF LiftedUse, LiftedAccess
  <2>9. GivenFor(Accessed) \subseteq Blocks /\ h \in GivenFor(Accessed)
    <3>1. ASSUME NEW x \in Accessed PROVE LiftedUse(x) \subseteq Blocks
      BY <2>1, HeadersAreBlocks DEF LiftedUse, LiftedAccess, Accessed
    <3>2. Accessed \subseteq Blocks
      BY DEF Accessed
    <3> QED
      BY <2>1, <2>5, <2>8, <3>1, <3>2 DEF GivenFor
  \* The header dominates every use and every header of a use
  <2>10. ASSUME NEW y \in GivenFor(Accessed) PROVE y \notin Without(h)
    <3>1. CASE y \in Accessed
      BY <2>2, <2>6, <3>1
    <3>2. CASE y \notin Accessed
      <4>1. PICK x \in Accessed : y \in LiftedUse(x)
        BY <2>1, <3>2 DEF GivenFor
      <4>2. y \in ContinueOf(x) \ {x} /\ x \in Blocks
        <5>1. x \in Blocks /\ is_continue(x) /\ y = continue_block_to_loop_header(x)
          BY <4>1 DEF LiftedUse, LiftedAccess, Accessed
        <5> QED
          BY <2>1, <5>1, HeadersAreBlocks
      <4>3. y \in Ids /\ func[y].merge = "loop" /\ func[y].continue_block = x
        BY <4>2 DEF ContinueOf, Headers, Ids
      <4>4. <<y, x>> \in StructuralFlow
        BY <4>3, FlowEdges
      <4>5. x \notin Structural(h) /\ x # h
        BY <2>6, <4>1
      <4>6. y \notin Structural(h)
        BY <2>2, <4>4, <4>5, ReachableIsClosed DEF Structural, IsClosedWithout
      <4> QED
        BY <2>2, <4>6
    <3> QED
      BY <3>1, <3>2
  <2>11. builder = h
    <3>1. IsClosest(builder, GivenFor(Accessed))
      BY <2>1 DEF TemporaryInv
    <3>2. builder \in Numbered /\ h \notin Without(builder)
      BY <2>1, <2>6, <2>9, <3>1, ClosestDominates
    <3>3. given # {} /\ given \subseteq Blocks
      BY <2>6, <2>9 DEF Numbered
    <3>4. \A z \in Blocks : z \in Dom(builder) <=> \A y \in given : z \in Dom(y)
      BY <3>1, <3>3 DEF IsClosest
    <3>5. \A y \in given : h \in Dom(y)
      BY <2>1, <2>6, <2>9, <2>10, DomIsWithout DEF Numbered
    <3> HIDE DEF given
    <3>6. builder \notin Without(h)
      BY <2>1, <2>6, <3>2, <3>4, <3>5, DomIsWithout DEF Numbered
    <3> QED
      BY <2>1, <2>6, <3>2, <3>6, NumberedAntisymmetric
  <2>12. builder # NoBlock
    BY <2>1, <2>6, <2>11, TheTree DEF Numbered
  <2> QED
    BY <2>1, <2>5, <2>6, <2>8, <2>11, <2>12 DEF TemporaryInv
<1>2. ScopeSpec /\ FollowsRules(func) /\ ContinuesAreDominated(func) /\ LoopsAreClosed(func) /\ TargetsAreUnique(func) =>
        [](/\ IInv /\ DomInv /\ UnnumberedInv /\ BuilderInv /\ StructureInv /\ PlacementInv
           /\ LoopsAreClosed(func) /\ TargetsAreUnique(func))
  BY ScopeBuildsCFG, Invariance, DomInvariance, UnnumberedInvariance, BuilderInvariance, StructureInvariance,
     PlacementInvariance, ClosedInvariance, UniqueInvariance, PTL
<1> QED
  BY <1>1, <1>2, PTL

-------------------------------------------------------------------------------
(* The loop around a block.                                                *)

\* The innermost loop around a continue block is the one it continues.
LEMMA ContinueIsInnermost ==
  ASSUME Built, StructureInv, LoopsAreClosed(func), NEW x \in Numbered, is_continue(x)
  PROVE  Innermost(x, continue_block_to_loop_header(x))
<1> DEFINE h == continue_block_to_loop_header(x)
<1>1. h \in ContinueOf(x) \ {x} /\ x \in Blocks
  BY HeadersAreBlocks DEF Numbered
<1> HIDE DEF h
<1>2. h \in Headers("loop") /\ h \in Ids /\ func[h].merge = "loop" /\ func[h].continue_block = x /\ h # x
  BY <1>1 DEF ContinueOf, Headers, Ids
<1>3. x \in Construct(h)
  BY <1>2, LoopIsClosed
<1>4. h \in Structural(NoBlock) /\ <<h, x>> \in StructuralFlow
  <2>1. h \in Numbered
    BY <1>2, <1>3, ConstructIsDominated
  <2> QED
    BY <1>2, <2>1, FlowsNest, FlowEdges
<1>5. ASSUME NEW g \in LoopsAround(x) PROVE h \in Construct(g)
  <2>1. g \in Ids /\ func[g].merge = "loop" /\ x \in Construct(g) \ {g}
    BY <1>5 DEF LoopsAround, Headers, Ids
  <2> QED
    BY <1>4, <2>1, LoopIsClosed
<1>6. h \in LoopsAround(x)
  BY <1>2, <1>3 DEF LoopsAround
<1> QED
  BY <1>5, <1>6 DEF Innermost, h

InnermostInv == stage \in {"accesses", "loop_variable"} => \A x \in Numbered : Innermost(x, loop_dominator[x])

LEMMA InnermostStep ==
  ASSUME Built, StructureInv, PrecedingInv, LoopsAreClosed(func), TargetsAreUnique(func), InnermostInv,
         [ScopeNext]_<<vars, scope_vars>>
  PROVE  InnermostInv'
<1>1. CASE FindLoopDominators
  <2>1. vars' = vars /\ loop_dominator' =
          [x \in Blocks |-> IF x \notin DOMAIN func THEN NoBlock
                            ELSE IF is_continue(x) THEN continue_block_to_loop_header(x)
                            ELSE find_loop_dominator(x)]
    BY <1>1 DEF FindLoopDominators
  <2>2. ASSUME NEW x \in Numbered PROVE Innermost(x, loop_dominator'[x])
    <3>1. x \in Blocks /\ x \in DOMAIN func
      BY FlowsNest DEF Numbered, Ids
    <3> QED
      BY <2>1, <3>1, ContinueIsInnermost, SearchFindsInnermost
  <2>3. Numbered' = Numbered /\ \A x, l : Innermost(x, l)' <=> Innermost(x, l)
    BY <2>1, InnermostKept
  <2>4. \A x \in Numbered : Innermost(x, loop_dominator[x])' <=> Innermost(x, loop_dominator'[x])
    <3> SUFFICES ASSUME NEW x \in Numbered PROVE Innermost(x, loop_dominator[x])' <=> Innermost(x, loop_dominator'[x])
      OBVIOUS
    <3>1. LoopsAround(x)' = LoopsAround(x) /\ \A h : Construct(h)' = Construct(h)
      BY <2>1 DEF LoopsAround, Headers, Construct, ConstructOf, StructuralFlowOf, vars
    <3> QED
      BY <3>1 DEF Innermost
  <2> QED
    BY <2>2, <2>3, <2>4 DEF InnermostInv
<1>2. CASE ~FindLoopDominators
  <2>1. stage' \in {"accesses", "loop_variable"} =>
          vars' = vars /\ loop_dominator' = loop_dominator /\ stage \in {"accesses", "loop_variable"}
    <3>1. BuildCFG \/ CollectAccesses \/ analyze_parameter_preservation \/ FindLoopVariable
            \/ AddTemporaryAccess \/ DeclareTemporary => stage' \notin {"accesses", "loop_variable"}
      BY DEF BuildCFG, CollectAccesses, analyze_parameter_preservation, FindLoopVariable, AddTemporaryAccess,
             DeclareTemporary, scope_vars
    <3>2. AddAccess \/ ChooseDominator => vars' = vars /\ loop_dominator' = loop_dominator /\ stage = "accesses"
      BY DEF AddAccess, ChooseDominator
    <3> QED
      BY <1>2, <3>1, <3>2 DEF ScopeNext, scope_vars
  <2>2. ASSUME vars' = vars, loop_dominator' = loop_dominator
        PROVE  \A x \in Numbered : Innermost(x, loop_dominator[x])' <=> Innermost(x, loop_dominator[x])
    <3> SUFFICES ASSUME NEW x \in Numbered PROVE Innermost(x, loop_dominator[x])' <=> Innermost(x, loop_dominator[x])
      OBVIOUS
    <3>1. LoopsAround(x)' = LoopsAround(x) /\ \A h : Construct(h)' = Construct(h)
      BY <2>2 DEF LoopsAround, Headers, Construct, ConstructOf, StructuralFlowOf, vars
    <3> QED
      BY <2>2, <3>1 DEF Innermost
  <2>3. vars' = vars => Numbered' = Numbered
    BY InnermostKept
  <2> QED
    BY <2>1, <2>2, <2>3 DEF InnermostInv
<1> QED
  BY <1>1, <1>2

LEMMA InnermostInvariance ==
  ScopeSpec /\ FollowsRules(func) /\ LoopsAreClosed(func) /\ TargetsAreUnique(func) => []InnermostInv
<1>1. ScopeInit => InnermostInv
  BY DEF ScopeInit, InnermostInv
<1>2. /\ IInv /\ DomInv /\ UnnumberedInv /\ BuilderInv /\ StructureInv /\ PrecedingInv
      /\ LoopsAreClosed(func) /\ TargetsAreUnique(func) /\ InnermostInv /\ [ScopeNext]_<<vars, scope_vars>>
      => InnermostInv'
  <2> SUFFICES ASSUME IInv, DomInv, UnnumberedInv, BuilderInv, StructureInv, PrecedingInv,
                      LoopsAreClosed(func), TargetsAreUnique(func), InnermostInv,
                      [ScopeNext]_<<vars, scope_vars>>
               PROVE  InnermostInv'
    OBVIOUS
  <2>1. CASE stage = "cfg"
    <3>1. stage' \in {"cfg", "parameter", "loops"}
      BY <2>1, PlacementBefore DEF scope_vars
    <3> QED
      BY <3>1 DEF InnermostInv
  <2>2. CASE stage # "cfg"
    <3>1. Built
      BY <2>2 DEF Built, BuilderInv
    <3> QED
      BY <3>1, InnermostStep
  <2> QED
    BY <2>1, <2>2
<1>3. ScopeSpec /\ FollowsRules(func) /\ LoopsAreClosed(func) /\ TargetsAreUnique(func) =>
        [](/\ IInv /\ DomInv /\ UnnumberedInv /\ BuilderInv /\ StructureInv /\ PrecedingInv
           /\ LoopsAreClosed(func) /\ TargetsAreUnique(func))
  BY ScopeBuildsCFG, Invariance, DomInvariance, UnnumberedInvariance, BuilderInvariance, StructureInvariance,
     PrecedingInvariance, ClosedInvariance, UniqueInvariance, PTL
<1> QED
  BY <1>1, <1>2, <1>3, PTL DEF ScopeSpec

\* The search for the loop around a block, which steps over the constructs before it,
\* finds the innermost loop: for every function whose loops are closed and whose
\* targets are unique.
THEOREM LoopDominatorsAreAlwaysInnermost ==
  ScopeSpec /\ FollowsRules(func) /\ LoopsAreClosed(func) /\ TargetsAreUnique(func) => []LoopDominatorsAreInnermost
<1>1. IInv /\ DomInv /\ UnnumberedInv /\ BuilderInv /\ StructureInv /\ InnermostInv => LoopDominatorsAreInnermost
  <2> SUFFICES ASSUME IInv, DomInv, UnnumberedInv, BuilderInv, StructureInv, InnermostInv, stage = "accesses",
                      NEW x \in Reached
               PROVE  IF LoopsAround(x) = {} THEN loop_dominator[x] = NoBlock
                      ELSE loop_dominator[x] \in LoopsAround(x) /\ \A h \in LoopsAround(x) : loop_dominator[x] \in Construct(h)
    BY DEF LoopDominatorsAreInnermost, LoopsAround
  <2>1. Built
    BY DEF Built, BuilderInv
  <2>2. x \in Numbered
    BY <2>1, FlowsNest
  <2> QED
    BY <2>2 DEF InnermostInv, Innermost
<1>2. ScopeSpec /\ FollowsRules(func) /\ LoopsAreClosed(func) /\ TargetsAreUnique(func) =>
        [](IInv /\ DomInv /\ UnnumberedInv /\ BuilderInv /\ StructureInv /\ InnermostInv)
  BY ScopeBuildsCFG, Invariance, DomInvariance, UnnumberedInvariance, BuilderInvariance, StructureInvariance,
     InnermostInvariance, PTL
<1> QED
  BY <1>1, <1>2, PTL

-------------------------------------------------------------------------------
(* Accesses see the declaration.                                           *)

\* The rules are about the function, which stays the same.
RulesOfExits == ConstructsAreLeftByExits(func) /\ ContinuesAreClosed(func) /\ LongContinuesStandAlone(func)

LEMMA ExitsInvariance == Spec /\ RulesOfExits => []RulesOfExits
<1>1. RulesOfExits /\ [Next]_vars => RulesOfExits'
  <2> SUFFICES ASSUME RulesOfExits, [Next]_vars PROVE RulesOfExits'
    OBVIOUS
  <2>1. func' = func
    BY FuncKept
  <2> QED
    BY <2>1 DEF RulesOfExits, ConstructsAreLeftByExits, ContinuesAreClosed, LongContinuesStandAlone
<1> QED
  BY <1>1, PTL DEF Spec

\* What the rules say of the function at hand.
LEMMA ExitsOfConstructs ==
  ASSUME ConstructsAreLeftByExits(func), NEW h \in Ids, func[h].merge # "none",
         NEW y \in Construct(h), NEW z \in Elements(func[y].targets), z \notin Construct(h)
  PROVE  \E g \in Ids : /\ func[g].merge # "none" /\ h \in Construct(g)
                        /\ z \in {g, func[g].merge_block} \/ (func[g].merge = "loop" /\ z = func[g].continue_block)
BY DEF ConstructsAreLeftByExits, Construct, Ids

LEMMA ExitsOfContinues ==
  ASSUME ContinuesAreClosed(func), NEW h \in Ids, func[h].merge = "loop",
         NEW y \in ContinueConstruct(h), NEW z \in Elements(func[y].targets)
  PROVE  z \in ContinueConstruct(h) \cup {h, func[h].merge_block}
BY DEF ContinuesAreClosed, ContinueConstruct, Ids

\* A continue block which only goes on with its loop or leaves it.
IsSingle(h) ==
  LET c == func[h].continue_block
  IN func[c].merge = "none" /\ Elements(func[c].targets) \subseteq {h, func[h].merge_block}

LEMMA LongContinues ==
  ASSUME Built, StructureInv, LongContinuesStandAlone(func), NEW h \in Ids, func[h].merge = "loop",
         func[h].continue_block # h, func[h].continue_block \in Numbered,
         NEW d \in Construct(h), d # h, d \notin ContinueConstruct(h), func[h].continue_block \notin Without(d)
  PROVE  IsSingle(h)
<1>1. func[h].continue_block \in Without(NoBlock)
  BY FlowsNest
<1> QED
  BY <1>1 DEF LongContinuesStandAlone, IsSingle, Ids, Construct, ContinueConstruct, Dominates, Without

\* A construct within a construct: its blocks are in the outer one, the outer header
\* and the outer merge block are reached without them.
LEMMA ConstructsNest ==
  ASSUME Built, StructureInv, NEW g \in Ids, func[g].merge # "none", NEW h \in Construct(g), func[h].merge # "none",
         NEW d \in Construct(h), d \in Numbered, d # h
  PROVE  /\ g \in Numbered /\ g # d /\ g \in Without(d) /\ func[g].merge_block \in Without(d) /\ d \in Construct(g)
<1> DEFINE m == func[g].merge_block
<1>1. /\ Entry \in Blocks /\ NoBlock \notin Blocks /\ StructuralFlow \in SUBSET (Blocks \X Blocks)
      /\ VisitFlow(func) \in SUBSET (Blocks \X Blocks) /\ VisitFlow(func) \subseteq StructuralFlow
      /\ Numbered \subseteq Structural(NoBlock)
  BY FlowsNest
<1>2. h \in Ids /\ h \notin Structural(g) /\ h \notin Without(g) /\ h \in Structural(m) /\ m # g /\ m \notin Construct(g)
  BY ConstructIsDominated
<1>3. d \in Ids /\ d \notin Structural(h) /\ d \notin Without(h) /\ d \in Structural(func[h].merge_block) /\ h \in Numbered
  BY <1>2, ConstructIsDominated
<1>4. g \in Numbered
  BY <1>2, <1>3, DominatorIsNumbered
\* The inner header does not dominate the outer one, nor its merge block
<1>5. g # h => g \in Structural(h)
  <2>1. g \in Structural(NoBlock)
    BY <1>1, <1>4
  <2> QED
    BY <1>1, <1>2, <2>1, DominanceIsAntisymmetric DEF Structural
<1>6. g # h => m \in Structural(h)
  <2> SUFFICES ASSUME g # h PROVE m \in Structural(h)
    OBVIOUS
  <2>1. <<g, m>> \in StructuralFlow
    BY <1>1, FlowEdges
  <2>2. m # h
    <3>1. \A x : x \notin Structural(x)
      BY <1>1, ReachableIsClosed DEF Structural
    <3> QED
      BY <1>2, <3>1
  <2>3. IsClosedWithout(StructuralFlow, h, Structural(h))
    BY <1>1, ReachableIsClosed DEF Structural
  <2> QED
    BY <1>5, <2>1, <2>2, <2>3 DEF IsClosedWithout
<1>7. d \in Structural(m)
  <2>1. CASE g = h
    BY <1>3, <2>1
  <2>2. CASE g # h
    <3> SUFFICES ASSUME d \notin Structural(m) PROVE FALSE
      OBVIOUS
    <3>1. m # h /\ h \in Structural(m) /\ m \in Structural(h) /\ d \in Structural(NoBlock)
      <4>1. \A x : x \notin Structural(x)
        BY <1>1, ReachableIsClosed DEF Structural
      <4> QED
        BY <1>1, <1>2, <1>6, <2>2, <4>1
    <3> QED
      BY <1>1, <1>3, <3>1, DominatorsAreAChain DEF Structural
  <2> QED
    BY <2>1, <2>2
<1>8. d \notin Structural(g)
  BY <1>2, <1>3, StructuralTransitive
<1>9. d \in Construct(g)
  BY <1>3, <1>7, <1>8 DEF Construct, ConstructOf, Structural, StructuralFlow, Ids
<1>10. h \in Without(d)
  <2> SUFFICES ASSUME h \notin Without(d) PROVE FALSE
    OBVIOUS
  <2> QED
    BY <1>3, NumberedAntisymmetric
<1>11. g # d /\ g \in Without(d)
  <2>1. g \notin Without(d) => h \notin Without(d)
    BY <1>2, NumberedTransitive
  <2>2. g = d => FALSE
    BY <1>2, <1>10
  <2> QED
    BY <1>10, <2>1, <2>2
<1>12. m \in Without(d)
  <2>1. m # d
    BY <1>2, <1>9
  <2>2. <<g, m>> \in VisitFlow(func)
    BY FlowEdges
  <2> QED
    BY <1>11, <2>1, <2>2, WithoutIsClosed DEF Built, IInv
<1> QED
  BY <1>4, <1>9, <1>11, <1>12

\* Block x is dominated by d, and the loops it continues are, too.
IsSeenFrom(d, x) ==
  /\ x \in Reached /\ x \notin Without(d)
  /\ is_continue(x) => continue_block_to_loop_header(x) \notin Without(d)

\* A block which is seen from a block of a construct, not its header, is in the
\* construct: the ways out of it lead to blocks which are reached without block d.
LEMMA SeenInConstruct ==
  ASSUME Built, StructureInv, RulesOfExits, LoopsAreClosed(func), TargetsAreUnique(func),
         NEW d \in Numbered, NEW h \in Ids, func[h].merge # "none", d \in Construct(h), d # h,
         NEW x, IsSeenFrom(d, x)
  PROVE  x \in Construct(h)
<1> DEFINE Single == {y \in Blocks : \E g \in Ids : /\ func[g].merge = "loop" /\ h \in Construct(g) /\ IsSingle(g)
                                                   /\ y = func[g].continue_block /\ y # g}
           S == Reached \cap (Without(d) \cup Construct(h) \cup Single)
<1>1. /\ Entry \in Blocks /\ NoBlock \notin Blocks /\ Reached \subseteq Numbered /\ Ids \subseteq Blocks
      /\ RealFlow \in SUBSET (Blocks \X Blocks) /\ RealFlow \subseteq VisitFlow(func)
      /\ Numbered \subseteq Blocks
  BY FlowsNest DEF Numbered
<1>2. /\ Entry \in Reached /\ IsClosedWithout(RealFlow, NoBlock, Reached)
  BY <1>1, ReachableIsClosed DEF Reached
<1>3. /\ Entry # d => Entry \in Without(d)
      /\ \A y, z : <<y, z>> \in VisitFlow(func) /\ y \in Without(d) /\ z # d => z \in Without(d)
  BY WithoutIsClosed DEF Built, IInv
\* The constructs around the construct are reached without d
<1>4. ASSUME NEW g \in Ids, func[g].merge # "none", h \in Construct(g)
      PROVE  g \in Numbered /\ g # d /\ g \in Without(d) /\ func[g].merge_block \in Without(d) /\ d \in Construct(g)
  BY <1>4, ConstructsNest
\* The continue block of a loop around the construct
<1>5. ASSUME NEW g \in Ids, func[g].merge = "loop", h \in Construct(g), NEW c, c = func[g].continue_block,
             c \in Reached, c \notin Construct(h)
      PROVE  c \in Without(d) \cup Single
  <2>1. g \in Without(d) /\ g # d /\ d \in Construct(g)
    BY <1>4, <1>5
  <2>2. CASE c = g
    BY <2>1, <2>2
  <2>3. CASE c # g /\ c \notin Without(d)
    <3>1. c \in Numbered /\ c # d
      BY <1>1, <1>5
    <3>2. d \notin ContinueConstruct(g)
      <4> SUFFICES ASSUME d \in ContinueConstruct(g) PROVE FALSE
        OBVIOUS
      <4>1. d \notin Without(c)
        <5>1. d \notin Structural(c)
          BY <1>5 DEF ContinueConstruct, ContinueConstructOf, Structural, StructuralFlow
        <5> QED
          BY <5>1, FlowsNest
      <4> QED
        BY <2>3, <3>1, <4>1, NumberedAntisymmetric
    <3>3. IsSingle(g)
      BY <1>5, <2>1, <2>3, <3>1, <3>2, LongContinues DEF RulesOfExits
    <3> QED
      BY <1>1, <1>5, <2>3, <3>1, <3>3
  <2> QED
    BY <2>2, <2>3
<1>6. Entry \in S
  <2>1. CASE Entry = d
    BY <1>2, <2>1
  <2>2. CASE Entry # d
    BY <1>2, <1>3, <2>2
  <2> QED
    BY <2>1, <2>2
<1>7. IsClosedWithout(RealFlow, NoBlock, S)
  <2> SUFFICES ASSUME NEW y, NEW z, <<y, z>> \in RealFlow, y \in S PROVE z \in S
    <3> HIDE DEF S
    <3> QED
      BY <1>1 DEF IsClosedWithout
  <2>1. z \in Reached /\ y \in Reached /\ <<y, z>> \in VisitFlow(func)
    <3>1. z # NoBlock
      BY <1>1
    <3> QED
      BY <1>1, <1>2, <3>1 DEF IsClosedWithout
  <2>2. y \in Ids /\ z \in Elements(func[y].targets)
    BY FlowEdges
  <2>3. CASE y \in Without(d)
    BY <1>3, <2>1, <2>3
  <2>4. CASE y \in Construct(h) /\ z \notin Construct(h)
    <3>1. PICK g \in Ids : /\ func[g].merge # "none" /\ h \in Construct(g)
                           /\ z \in {g, func[g].merge_block} \/ (func[g].merge = "loop" /\ z = func[g].continue_block)
      BY <2>2, <2>4, ExitsOfConstructs DEF RulesOfExits
    <3>2. CASE z \in {g, func[g].merge_block}
      BY <1>4, <2>1, <3>1, <3>2
    <3>3. CASE func[g].merge = "loop" /\ z = func[g].continue_block
      <4>1. z \in Without(d) \cup Single
        BY <1>5, <2>1, <2>4, <3>1, <3>3
      <4> QED
        BY <2>1, <4>1
    <3> QED
      BY <3>1, <3>2, <3>3
  <2>5. CASE y \in Single
    <3>1. PICK g \in Ids : func[g].merge = "loop" /\ h \in Construct(g) /\ IsSingle(g) /\ y = func[g].continue_block
      BY <2>5
    <3>2. z \in {g, func[g].merge_block}
      BY <2>2, <3>1 DEF IsSingle
    <3> QED
      BY <1>4, <2>1, <3>1, <3>2
  <2> QED
    BY <2>1, <2>3, <2>4, <2>5
<1>8. Reached \subseteq S
  <2> HIDE DEF S
  <2> QED
    BY <1>1, <1>6, <1>7, ReachableIsLeast DEF Reached
<1>9. x \in Reached /\ x \notin Without(d) /\ (is_continue(x) => continue_block_to_loop_header(x) \notin Without(d))
  BY DEF IsSeenFrom
<1>10. ASSUME x \in Single PROVE FALSE
  <2>1. PICK g \in Ids : func[g].merge = "loop" /\ h \in Construct(g) /\ x = func[g].continue_block /\ x # g
    BY <1>10
  <2>2. is_continue(x) /\ continue_block_to_loop_header(x) = g
    BY <2>1, HeaderOfContinue
  <2>3. g \in Without(d)
    BY <1>4, <2>1
  <2> QED
    BY <1>9, <2>2, <2>3
<1> QED
  BY <1>8, <1>9, <1>10

\* If it is in the continue construct of a loop, the block it is seen from is.
LEMMA SeenInContinue ==
  ASSUME Built, StructureInv, RulesOfExits, LoopsAreClosed(func), TargetsAreUnique(func),
         NEW d \in Numbered, NEW h \in Ids, func[h].merge = "loop", d \in Construct(h), d # h,
         NEW x \in ContinueConstruct(h), IsSeenFrom(d, x)
  PROVE  d \in ContinueConstruct(h)
<1> DEFINE c == func[h].continue_block
           m == func[h].merge_block
<1> SUFFICES ASSUME d \notin ContinueConstruct(h) PROVE FALSE
  OBVIOUS
<1>1. /\ Entry \in Blocks /\ NoBlock \notin Blocks /\ Reached \subseteq Numbered
      /\ RealFlow \in SUBSET (Blocks \X Blocks) /\ RealFlow \subseteq VisitFlow(func)
      /\ StructuralFlow \in SUBSET (Blocks \X Blocks) /\ VisitFlow(func) \in SUBSET (Blocks \X Blocks)
      /\ Numbered = Without(NoBlock) /\ \A y : Real(y) \subseteq Without(y) /\ Without(y) \subseteq Structural(y)
  BY FlowsNest
<1>2. \A y : y \notin Structural(y) /\ y \notin Without(y)
  BY <1>1, ReachableIsClosed DEF Structural, Without
<1>3. \A y : y \in ContinueConstruct(h) <=> y \in Construct(h) /\ y \notin Structural(c)
  BY DEF ContinueConstruct, ContinueConstructOf, Construct, Structural, StructuralFlow
<1>4. /\ x \in Reached /\ x \notin Without(d) /\ (is_continue(x) => continue_block_to_loop_header(x) \notin Without(d))
      /\ x \in Numbered /\ x \notin Without(c)
  BY <1>1, <1>3 DEF IsSeenFrom
<1>5. /\ c \in Construct(h) /\ c \in ContinueConstruct(h) /\ c \notin Without(h) /\ d \in Structural(c)
      /\ d \notin Without(h) /\ d \notin Structural(h) /\ m \notin Construct(h)
  BY <1>2, <1>3, LoopIsClosed, ConstructIsDominated
<1>6. c # h /\ c # d /\ c \in Numbered /\ c \notin {m}
  <2>1. c \in Numbered
    BY <1>4, DominatorIsNumbered
  <2> QED
    BY <1>2, <1>5, <2>1
\* The header and the merge block are reached without the continue block
<1>7. h \in Without(c) /\ m \in Without(c)
  <2>1. h \in Without(c)
    BY <1>5, <1>6, NumberedAntisymmetric
  <2>2. <<h, m>> \in VisitFlow(func)
    BY FlowEdges
  <2> QED
    BY <1>6, <2>1, <2>2, WithoutIsClosed DEF Built, IInv
<1>8. (Entry # c => Entry \in Without(c))
      /\ \A y, z : <<y, z>> \in VisitFlow(func) /\ y \in Without(c) /\ z # c => z \in Without(c)
  BY WithoutIsClosed DEF Built, IInv
<1>9. Entry \in Reached /\ IsClosedWithout(RealFlow, NoBlock, Reached)
  BY <1>1, ReachableIsClosed DEF Reached
<1>10. d \notin Without(c) \/ c \notin Without(d)
  BY <1>1, <1>4, <1>6, DominatorsAreAChain DEF Without
<1>11. CASE d \notin Without(c)
  <2> DEFINE T == Without(c) \cup ContinueConstruct(h)
  <2>1. Entry \in T
    BY <1>5, <1>8
  <2>2. IsClosedWithout(RealFlow, NoBlock, T)
    <3> SUFFICES ASSUME NEW y, NEW z, <<y, z>> \in RealFlow, y \in T PROVE z \in T
      <4> HIDE DEF T
      <4> QED
        BY <1>1 DEF IsClosedWithout
    <3>1. y \in Ids /\ z \in Elements(func[y].targets) /\ <<y, z>> \in VisitFlow(func)
      BY <1>1, FlowEdges
    <3>2. CASE y \in Without(c)
      BY <1>5, <1>8, <3>1, <3>2
    <3>3. CASE y \in ContinueConstruct(h)
      <4>1. z \in ContinueConstruct(h) \cup {h, m}
        BY <3>1, <3>3, ExitsOfContinues DEF RulesOfExits
      <4> QED
        BY <1>7, <4>1
    <3> QED
      BY <3>2, <3>3
  <2>3. Reached \subseteq T
    <3> HIDE DEF T
    <3> QED
      BY <1>1, <2>1, <2>2, ReachableIsLeast DEF Reached
  <2>4. d \in Reached
    <3>1. x \notin Real(d)
      BY <1>1, <1>4
    <3> QED
      BY <1>1, <1>4, <3>1, DominatorIsReached DEF Reached, Real
  <2> QED
    BY <1>11, <2>3, <2>4
<1>12. CASE d \in Without(c) /\ c \notin Without(d)
  <2> DEFINE T == Without(c) \cup {c}
  <2>1. IsSingle(h)
    BY <1>6, <1>12, LongContinues DEF RulesOfExits
  <2>2. Entry \in T
    BY <1>8
  <2>3. IsClosedWithout(RealFlow, NoBlock, T)
    <3> SUFFICES ASSUME NEW y, NEW z, <<y, z>> \in RealFlow, y \in T PROVE z \in T
      <4> HIDE DEF T
      <4> QED
        BY <1>1 DEF IsClosedWithout
    <3>1. y \in Ids /\ z \in Elements(func[y].targets) /\ <<y, z>> \in VisitFlow(func)
      BY <1>1, FlowEdges
    <3>2. CASE y \in Without(c)
      BY <1>8, <3>1, <3>2
    <3>3. CASE y = c
      BY <1>7, <2>1, <3>1, <3>3 DEF IsSingle
    <3> QED
      BY <3>2, <3>3
  <2>4. Reached \subseteq T
    <3> HIDE DEF T
    <3> QED
      BY <1>1, <2>2, <2>3, ReachableIsLeast DEF Reached
  <2>5. x = c
    BY <1>4, <2>4
  <2>6. is_continue(x) /\ continue_block_to_loop_header(x) = h
    BY <1>6, <2>5, HeaderOfContinue
  <2>7. h \notin Without(d)
    BY <1>4, <2>6
  <2>8. h = d
    BY <1>5, <2>7, NumberedAntisymmetric
  <2> QED
    BY <2>8
<1> QED
  BY <1>10, <1>11, <1>12

\* Every access sees the declaration, and a temporary which is not hoisted is declared
\* by its definition: for every function which follows the rules about constructs.
THEOREM AccessesAlwaysSeeTheDeclaration ==
  ScopeSpec /\ FollowsRules(func) /\ ContinuesAreDominated(func) /\ LoopsAreClosed(func) /\ TargetsAreUnique(func)
    /\ RulesOfExits
    => []AccessesSeeTheDeclaration
<1>1. /\ IInv /\ DomInv /\ UnnumberedInv /\ BuilderInv /\ StructureInv /\ PlacementInv
      /\ LoopsAreClosed(func) /\ TargetsAreUnique(func) /\ RulesOfExits
      => AccessesSeeTheDeclaration
  <2> SUFFICES ASSUME IInv, DomInv, UnnumberedInv, BuilderInv, StructureInv, PlacementInv,
                      LoopsAreClosed(func), TargetsAreUnique(func), RulesOfExits, stage = "end",
                      \/ role \in Variables
                      \/ role = "temporary" /\ Cardinality(Accessed) > 1
               PROVE  /\ \A x \in Accessed \cap Reached : dominator # NoBlock /\ x \in Scope(dominator)
                      /\ role = "temporary" /\ ~hoisted => access[dominator] = "write"
    BY DEF AccessesSeeTheDeclaration, Variables
  <2>1. Built /\ stage # "cfg" /\ RoleInv /\ DominatorInv /\ TemporaryInv
    BY DEF Built, BuilderInv, PlacementInv
  <2>2. /\ NoBlock \notin Blocks /\ Reached \subseteq Numbered /\ Numbered \subseteq Ids /\ Ids \subseteq Blocks
        /\ \A y : Real(y) \subseteq Without(y) /\ Without(y) \subseteq Structural(y)
        /\ RealFlow \in SUBSET (Blocks \X Blocks) /\ Entry \in Blocks
    BY <2>1, FlowsNest
  \* What was given to the builder: the accesses and the headers of loops they continue
  <2>3. \A x \in Accessed : x \in GivenFor(Accessed) /\ LiftedAccess(x) \subseteq GivenFor(Accessed)
    <3>1. role \in Results => \A x : LiftedUse(x) = LiftedAccess(x)
      <4>1. role \in Results => Cardinality(Accessed) > 1
        BY DEF Results, Variables
      <4>2. Cardinality(Accessed) > 1 => Cardinality(Accessed) # 1
        OBVIOUS
      <4> QED
        BY <4>1, <4>2 DEF LiftedUse
    <3> QED
      BY <3>1 DEF GivenFor
  <2>4. GivenFor(Accessed) \subseteq Blocks
    <3>1. ASSUME NEW x \in Accessed PROVE LiftedAccess(x) \subseteq Blocks /\ x \in Blocks
      BY <2>1, HeadersAreBlocks DEF LiftedAccess, Accessed
    <3> QED
      BY <3>1 DEF GivenFor, LiftedUse
  <2>5. ASSUME role = "temporary" PROVE dominator = builder /\ builder # NoBlock /\ IsClosest(builder, GivenFor(Accessed))
    <3>1. role \in Results /\ Cardinality(Accessed) # 1
      BY <2>5 DEF Results, Variables
    <3> QED
      BY <2>1, <2>5, <3>1 DEF TemporaryInv
  <2>6. ASSUME NEW x \in GivenFor(Accessed), x \in Numbered PROVE dominator \in Numbered /\ x \notin Without(dominator)
    <3>1. CASE role \in Variables
      BY <2>1, <2>6, <3>1 DEF DominatorInv
    <3>2. CASE role = "temporary"
      BY <2>1, <2>4, <2>5, <2>6, <3>2, ClosestDominates
    <3> QED
      BY <3>1, <3>2
  <2>7. ASSUME NEW x \in Accessed, x \in Reached PROVE dominator \in Numbered /\ IsSeenFrom(dominator, x)
    <3>1. dominator \in Numbered /\ x \notin Without(dominator)
      BY <2>2, <2>3, <2>6, <2>7
    <3>2. ASSUME is_continue(x) PROVE continue_block_to_loop_header(x) \notin Without(dominator)
      <4> DEFINE g == continue_block_to_loop_header(x)
      <4>1. g \in ContinueOf(x) /\ g \in GivenFor(Accessed)
        <5>1. x \in Blocks
          BY DEF Accessed
        <5> QED
          BY <2>1, <2>3, <3>2, <5>1, HeadersAreBlocks DEF LiftedAccess
      <4> HIDE DEF g
      <4>2. g \in Ids /\ func[g].merge = "loop" /\ func[g].continue_block = x
        BY <4>1 DEF ContinueOf, Headers, Ids
      <4>3. g \in Numbered
        <5>1. x \in Construct(g)
          BY <2>1, <4>2, LoopIsClosed
        <5> QED
          BY <2>1, <2>2, <2>7, <4>2, <5>1, ConstructIsDominated
      <4> QED
        BY <2>6, <4>1, <4>3 DEF g
    <3> QED
      BY <2>7, <3>1, <3>2 DEF IsSeenFrom
  <2>8. ASSUME NEW x \in Accessed \cap Reached PROVE dominator # NoBlock /\ x \in Scope(dominator)
    <3>1. dominator \in Numbered /\ IsSeenFrom(dominator, x)
      BY <2>7, <2>8
    <3>2. x \in Ids /\ x \notin Real(dominator) /\ dominator \in Blocks
      BY <2>2, <3>1 DEF IsSeenFrom
    <3>3. ASSUME NEW h \in Around(dominator)
          PROVE  /\ x \in Construct(h)
                 /\ func[h].merge = "loop" /\ x \in ContinueConstruct(h) => dominator \in ContinueConstruct(h)
      <4>1. h \in Ids /\ func[h].merge # "none" /\ dominator \in Construct(h) /\ dominator # h
        BY <3>3 DEF Around, Headers, Ids
      <4> QED
        BY <2>1, <3>1, <4>1, SeenInConstruct, SeenInContinue
    <3> QED
      BY <2>2, <3>2, <3>3 DEF Scope, Ids, Real
  <2>9. ASSUME role = "temporary", ~hoisted PROVE access[dominator] = "write"
    <3>1. role \in Results /\ Cardinality(Accessed) # 1 /\ dominator = builder /\ builder # NoBlock
      BY <2>5, <2>9 DEF Results, Variables
    <3>2. builder \in Accessed
      BY <2>1, <2>9, <3>1 DEF TemporaryInv
    <3>3. IsResult([access |-> access])
      BY <2>1, <3>1 DEF RoleInv
    <3>4. PICK d \in Ids : access[d] = "write"
      BY <3>3 DEF IsResult, Ids
    <3>5. d \in Accessed
      BY <2>2, <3>4 DEF Accessed
    <3>6. builder = d
      <4> SUFFICES ASSUME builder # d PROVE FALSE
        OBVIOUS
      <4>1. /\ builder \in Reached => builder \notin Real(d)
            /\ builder \notin Reached => builder \notin Structural(d)
        BY <2>1, <3>1, <3>2, <3>4, ResultIsDominated
      <4>2. builder \in Numbered
        <5>1. IsClosest(builder, GivenFor(Accessed))
          BY <2>5, <2>9
        <5> QED
          BY <3>1, <5>1 DEF IsClosest
      <4>3. CASE builder \in Reached
        <5>1. d \in Reached
          BY <2>2, <4>1, <4>3, DominatorIsReached DEF Reached, Real
        <5>2. d \notin Real(builder)
          BY <2>2, <2>3, <2>6, <3>1, <3>5, <5>1
        <5> QED
          BY <2>2, <4>1, <4>3, <5>2, DominanceIsAntisymmetric DEF Reached, Real
      <4>4. CASE builder \notin Reached
        <5>1. builder \notin Without(d)
          BY <2>2, <4>1, <4>4
        <5>2. d \in Numbered
          BY <2>1, <4>2, <5>1, DominatorIsNumbered
        <5>3. d \notin Without(builder)
          BY <2>3, <2>6, <3>1, <3>5, <5>2
        <5> QED
          BY <2>1, <4>2, <5>1, <5>3, NumberedAntisymmetric
      <4> QED
        BY <4>3, <4>4
    <3> QED
      BY <3>1, <3>4, <3>6
  <2> QED
    BY <2>8, <2>9
<1>2. ScopeSpec /\ FollowsRules(func) /\ ContinuesAreDominated(func) /\ LoopsAreClosed(func) /\ TargetsAreUnique(func)
        /\ RulesOfExits =>
        [](/\ IInv /\ DomInv /\ UnnumberedInv /\ BuilderInv /\ StructureInv /\ PlacementInv
           /\ LoopsAreClosed(func) /\ TargetsAreUnique(func) /\ RulesOfExits)
  BY ScopeBuildsCFG, Invariance, DomInvariance, UnnumberedInvariance, BuilderInvariance, StructureInvariance,
     PlacementInvariance, ClosedInvariance, UniqueInvariance, ExitsInvariance, PTL
<1> QED
  BY <1>1, <1>2, PTL

-------------------------------------------------------------------------------
(* Values and iterations.                                                  *)

\* No loop is around the outermost loop around a block, which dominates the block.
LEMMA OutermostIsOutside ==
  ASSUME Built, StructureInv, LoopsClimb, NEW x \in Numbered, \A y \in Numbered : Innermost(y, loop_dominator[y])
  PROVE  LoopsAround(OutermostLoop(x)) = {} /\ x \notin Without(OutermostLoop(x))
<1> DEFINE r == [y \in Numbered |-> Len(post_order) - order[y]]
           IsOutside(y) == LoopsAround(OutermostLoop(y)) = {} /\ y \notin Without(OutermostLoop(y))
           Bad == {y \in Numbered : ~IsOutside(y)}
<1>1. /\ Len(post_order) \in Nat /\ \A y \in Numbered : order[y] \in Nat /\ order[y] <= Len(post_order)
      /\ \A y \in Numbered : loop_dominator[y] # NoBlock =>
           loop_dominator[y] \in Numbered /\ order[loop_dominator[y]] > order[y]
  BY TheTree DEF Numbered, LoopsClimb, IsAbove
<1>2. NoBlock \notin Blocks /\ Ids \subseteq Blocks
  BY FlowsNest
<1>3. ASSUME NEW y \in Bad PROVE \E q \in Bad : r[q] < r[y]
  <2>1. y \in Numbered /\ ~IsOutside(y)
    OBVIOUS
  <2>2. CASE loop_dominator[y] = NoBlock
    <3>1. OutermostLoop(y) = y /\ y \notin Without(y)
      BY <2>1, <2>2, OutermostLoopUnfolds, WithoutIsClosed DEF Built, IInv
    <3>2. LoopsAround(y) = {}
      BY <1>2, <2>1, <2>2 DEF Innermost, LoopsAround, Headers, Ids
    <3> QED
      BY <2>1, <3>1, <3>2
  <2>3. CASE loop_dominator[y] # NoBlock
    <3> DEFINE q == loop_dominator[y]
    <3>1. q \in Numbered /\ order[q] > order[y] /\ OutermostLoop(y) = OutermostLoop(q)
      BY <1>1, <2>1, <2>3, OutermostLoopUnfolds
    <3>2. q \in Headers("loop") /\ y \in Construct(q)
      BY <2>1, <2>3 DEF Innermost, LoopsAround
    <3> HIDE DEF q
    <3>3. y \notin Without(q)
      BY <3>2, ConstructIsDominated DEF Headers, Ids
    <3>4. ~IsOutside(q)
      <4> SUFFICES ASSUME IsOutside(q) PROVE FALSE
        OBVIOUS
      <4>1. y \notin Without(OutermostLoop(q))
        BY <3>3, NumberedTransitive
      <4> QED
        BY <2>1, <3>1, <4>1
    <3>5. r[q] < r[y]
      BY <1>1, <2>1, <3>1
    <3> QED
      BY <3>1, <3>4, <3>5
  <2> QED
    BY <2>2, <2>3
<1>4. r \in [Numbered -> Nat] /\ Bad \in SUBSET Numbered
  BY <1>1
<1>5. Bad = {}
  <2> HIDE DEF Bad, r
  <2> QED
    BY <1>3, <1>4, RankInduction
<1> QED
  BY <1>5

\* A variable which may be read before it is written is declared outside all loops.
OutsideInv ==
  stage \in {"loop_variable", "end"} /\ role \in Variables \ {"phi"} /\ dominator # NoBlock =>
    access[dominator] = "write" \/ LoopsAround(dominator) = {}

LEMMA OutsideWhenChosen ==
  ASSUME Built, StructureInv, ScopeInv, InnermostInv, ChooseDominator, role # "phi", dominator' # NoBlock
  PROVE  access[dominator'] = "write" \/ LoopsAround(dominator') = {}
<1> DEFINE d == lift_continue_block_dominator(builder)
           o == OutermostLoop(d)
<1>1. /\ stage = "accesses"
      /\ dominator' = IF d # NoBlock /\ role # "phi" /\ may_read_undefined_variable_in_block(d)
                      THEN add_block(d, o) ELSE d
  BY DEF ChooseDominator
<1>2. d \in Numbered
  <2>1. builder \in Numbered \cup {NoBlock} /\ Entry \in Numbered /\ NoBlock \notin Blocks
    BY TheTree DEF ScopeInv, ScopeTypeOK
  <2>2. d # NoBlock
    <3>1. d = NoBlock => dominator' = NoBlock
      <4> HIDE DEF d, o
      <4> QED
        BY <1>1
    <3> QED
      BY <3>1
  <2> QED
    BY <2>1, <2>2 DEF lift_continue_block_dominator
<1>3. NoBlock \notin Blocks /\ d # NoBlock
  BY <1>2, TheTree DEF Numbered
<1>4. CASE access[d] = "write"
  BY <1>1, <1>4 DEF may_read_undefined_variable_in_block
<1>5. CASE access[d] # "write"
  <2>1. dominator' = add_block(d, o)
    BY <1>1, <1>3, <1>5 DEF may_read_undefined_variable_in_block
  <2>2. LoopsClimb /\ \A y \in Numbered : Innermost(y, loop_dominator[y])
    BY <1>1 DEF ScopeInv, InnermostInv
  <2> HIDE DEF d
  <2>3. LoopsAround(o) = {} /\ d \notin Without(o) /\ o \in Numbered
    BY <1>2, <2>2, OutermostIsOutside, OutermostLoopExists
  <2>4. add_block(d, o) = o
    <3> HIDE DEF o
    <3> QED
      BY <1>2, <2>3, AddBlockDominates
  <2> QED
    BY <2>1, <2>3, <2>4
<1> QED
  BY <1>4, <1>5

LEMMA OutsideStep ==
  ASSUME Built, StructureInv, ScopeInv, RoleInv, InnermostInv, OutsideInv, [ScopeNext]_<<vars, scope_vars>>, stage # "cfg"
  PROVE  OutsideInv'
<1>1. CASE CollectAccesses \/ BuildCFG \/ FindLoopDominators \/ AddAccess \/ AddTemporaryAccess
           \/ DeclareTemporary \/ analyze_parameter_preservation
  <2>1. stage' \notin {"loop_variable", "end"} \/ role' \notin Variables
    BY <1>1 DEF CollectAccesses, BuildCFG, FindLoopDominators, AddAccess, AddTemporaryAccess, scope_vars,
                DeclareTemporary, RoleInv, analyze_parameter_preservation, Results, Variables
  <2> QED
    BY <2>1 DEF OutsideInv
<1>2. ASSUME UNCHANGED <<vars, role, access>>,
             role \in Variables \ {"phi"} /\ dominator' # NoBlock => access[dominator'] = "write" \/ LoopsAround(dominator') = {}
      PROVE  OutsideInv'
  <2>1. LoopsAround(dominator)' = LoopsAround(dominator')
    BY <1>2 DEF LoopsAround, Headers, Construct, ConstructOf, StructuralFlowOf, vars
  <2> QED
    BY <1>2, <2>1 DEF OutsideInv
<1>3. CASE ChooseDominator
  <2>1. UNCHANGED <<vars, role, access>>
    BY <1>3 DEF ChooseDominator
  <2> QED
    BY <1>2, <1>3, <2>1, OutsideWhenChosen
<1>4. CASE FindLoopVariable
  <2>1. UNCHANGED <<vars, role, access, dominator>> /\ stage = "loop_variable"
    BY <1>4 DEF FindLoopVariable
  <2> QED
    BY <1>2, <2>1 DEF OutsideInv
<1>5. CASE UNCHANGED <<vars, scope_vars>>
  <2>1. UNCHANGED <<vars, role, access, dominator, stage>>
    BY <1>5 DEF scope_vars, result
  <2>2. CASE stage \in {"loop_variable", "end"}
    BY <1>2, <2>1, <2>2 DEF OutsideInv
  <2>3. CASE stage \notin {"loop_variable", "end"}
    BY <2>1, <2>3 DEF OutsideInv
  <2> QED
    BY <2>2, <2>3
<1> QED
  BY <1>1, <1>3, <1>4, <1>5 DEF ScopeNext

LEMMA OutsideInvariance ==
  ScopeSpec /\ FollowsRules(func) /\ ContinuesAreDominated(func) /\ LoopsAreClosed(func) /\ TargetsAreUnique(func)
    => []OutsideInv
<1>1. ScopeInit => OutsideInv
  BY DEF ScopeInit, OutsideInv
<1>2. /\ IInv /\ DomInv /\ UnnumberedInv /\ BuilderInv /\ StructureInv /\ ScopeInv /\ PlacementInv /\ InnermostInv
      /\ OutsideInv /\ [ScopeNext]_<<vars, scope_vars>>
      => OutsideInv'
  <2> SUFFICES ASSUME IInv, DomInv, UnnumberedInv, BuilderInv, StructureInv, ScopeInv, PlacementInv, InnermostInv,
                      OutsideInv, [ScopeNext]_<<vars, scope_vars>>
               PROVE  OutsideInv'
    OBVIOUS
  <2>1. CASE stage = "cfg"
    <3>1. stage' \in {"cfg", "parameter", "loops"}
      BY <2>1, PlacementBefore DEF scope_vars
    <3> QED
      BY <3>1 DEF OutsideInv
  <2>2. CASE stage # "cfg"
    <3>1. Built /\ RoleInv
      BY <2>2 DEF Built, BuilderInv, PlacementInv
    <3> QED
      BY <2>2, <3>1, OutsideStep
  <2> QED
    BY <2>1, <2>2
<1>3. ScopeSpec /\ FollowsRules(func) /\ ContinuesAreDominated(func) /\ LoopsAreClosed(func) /\ TargetsAreUnique(func) =>
        [](/\ IInv /\ DomInv /\ UnnumberedInv /\ BuilderInv /\ StructureInv /\ ScopeInv /\ PlacementInv /\ InnermostInv)
  BY ScopeBuildsCFG, Invariance, DomInvariance, UnnumberedInvariance, BuilderInvariance, StructureInvariance,
     ScopeInvariance, PlacementInvariance, InnermostInvariance, PTL
<1> QED
  BY <1>1, <1>2, <1>3, PTL DEF ScopeSpec

\* What holds of the stores and is kept by the branches holds of the blocks with a value.
LEMMA DefinedIsLeast ==
  ASSUME RealFlow \in SUBSET (Blocks \X Blocks), NEW X \in SUBSET Blocks, (Stores \cap Reached) \subseteq X,
         \A e \in RealFlow : e[1] \in X => e[2] \in X
  PROVE  Defined \subseteq X
<1> DEFINE N == Cardinality(Blocks)
           c == (Stores \cap Reached)
           More(S) == S \cup {e[2] : e \in {d \in RealFlow : d[1] \in S}}
           F == [S \in SUBSET Blocks |-> More(S)]
           Is(f) == f = [n \in 0 .. N |-> IF n = 0 THEN c ELSE More(f[n - 1])]
<1>1. N \in Nat
  BY BlocksAssumption, FS_CardinalityType
<1>2. c \in SUBSET Blocks
  BY DEF Stores
<1>3. F \in [SUBSET Blocks -> SUBSET Blocks] /\ \A S \in SUBSET Blocks : F[S] = More(S)
  <2>1. \A S \in SUBSET Blocks : More(S) \in SUBSET Blocks
    OBVIOUS
  <2> HIDE DEF More
  <2> QED
    BY <2>1
<1>4. \A S \in SUBSET X : F[S] \subseteq X
  <2>1. \A S \in SUBSET X : More(S) \subseteq X
    OBVIOUS
  <2> HIDE DEF F, More
  <2> QED
    BY <1>3, <2>1
<1> HIDE DEF F, c, More, N
<1>5. \E f : Is(f)
  <2>1. PICK f \in [0 .. N -> SUBSET Blocks] : f[0] = c /\ \A n \in 1 .. N : f[n] = F[f[n - 1]]
    <3>1. IsGrower(F, c, Blocks, N)
      BY <1>1, <1>2, <1>3 DEF IsGrower
    <3> QED
      BY <3>1, GrowthExists
  <2> DEFINE body(n) == IF n = 0 THEN c ELSE More(f[n - 1])
  <2>2. ASSUME NEW n \in 0 .. N PROVE f[n] = body(n)
    <3>1. CASE n = 0
      BY <2>1, <3>1
    <3>2. CASE n # 0
      <4>1. n \in 1 .. N /\ n - 1 \in 0 .. N
        BY <1>1, <3>2
      <4>2. f[n - 1] \in SUBSET Blocks /\ f[n] = F[f[n - 1]]
        BY <2>1, <4>1
      <4> QED
        BY <1>3, <3>2, <4>2
    <3> QED
      BY <3>1, <3>2
  <2>3. f = [n \in 0 .. N |-> body(n)]
    <3> HIDE DEF body
    <3> QED
      BY <2>1, <2>2
  <2> QED
    BY <2>3
<1> DEFINE r == CHOOSE f : Is(f)
<1>6. Is(r)
  <2> HIDE DEF Is
  <2> QED
    BY <1>5
<1>7. Defined = r[N]
  BY DEF Defined, N, c, More
<1> HIDE DEF r
<1>8. r[0] = c /\ \A n \in 1 .. N : r[n] = More(r[n - 1])
  BY <1>1, <1>6
<1>9. IsGrowth(r, F, c, Blocks, N)
  BY <1>1, <1>2, <1>3, <1>8 DEF IsGrowth
<1>10. c \subseteq X
  BY DEF c
<1>11. r[N] \subseteq X
  BY <1>4, <1>9, <1>10, GrowthIsLeast
<1> QED
  BY <1>7, <1>11

\* What holds of the reads, and of what comes before them, holds of the blocks in need.
LEMMA NeededIsLeast ==
  ASSUME RealFlow \in SUBSET (Blocks \X Blocks), NEW X \in SUBSET Blocks, {x \in Blocks : access[x] \in {"read", "update"}} \subseteq X,
         \A e \in RealFlow : e[2] \in X /\ access[e[1]] = "none" => e[1] \in X
  PROVE  Needed \subseteq X
<1> DEFINE N == Cardinality(Blocks)
           c == {x \in Blocks : access[x] \in {"read", "update"}}
           More(S) == S \cup {e[1] : e \in {d \in RealFlow : d[2] \in S /\ access[d[1]] = "none"}}
           F == [S \in SUBSET Blocks |-> More(S)]
           Is(f) == f = [n \in 0 .. N |-> IF n = 0 THEN c ELSE More(f[n - 1])]
<1>1. N \in Nat
  BY BlocksAssumption, FS_CardinalityType
<1>2. c \in SUBSET Blocks
  BY DEF Stores
<1>3. F \in [SUBSET Blocks -> SUBSET Blocks] /\ \A S \in SUBSET Blocks : F[S] = More(S)
  <2>1. \A S \in SUBSET Blocks : More(S) \in SUBSET Blocks
    OBVIOUS
  <2> HIDE DEF More
  <2> QED
    BY <2>1
<1>4. \A S \in SUBSET X : F[S] \subseteq X
  <2>1. \A S \in SUBSET X : More(S) \subseteq X
    OBVIOUS
  <2> HIDE DEF F, More
  <2> QED
    BY <1>3, <2>1
<1> HIDE DEF F, c, More, N
<1>5. \E f : Is(f)
  <2>1. PICK f \in [0 .. N -> SUBSET Blocks] : f[0] = c /\ \A n \in 1 .. N : f[n] = F[f[n - 1]]
    <3>1. IsGrower(F, c, Blocks, N)
      BY <1>1, <1>2, <1>3 DEF IsGrower
    <3> QED
      BY <3>1, GrowthExists
  <2> DEFINE body(n) == IF n = 0 THEN c ELSE More(f[n - 1])
  <2>2. ASSUME NEW n \in 0 .. N PROVE f[n] = body(n)
    <3>1. CASE n = 0
      BY <2>1, <3>1
    <3>2. CASE n # 0
      <4>1. n \in 1 .. N /\ n - 1 \in 0 .. N
        BY <1>1, <3>2
      <4>2. f[n - 1] \in SUBSET Blocks /\ f[n] = F[f[n - 1]]
        BY <2>1, <4>1
      <4> QED
        BY <1>3, <3>2, <4>2
    <3> QED
      BY <3>1, <3>2
  <2>3. f = [n \in 0 .. N |-> body(n)]
    <3> HIDE DEF body
    <3> QED
      BY <2>1, <2>2
  <2> QED
    BY <2>3
<1> DEFINE r == CHOOSE f : Is(f)
<1>6. Is(r)
  <2> HIDE DEF Is
  <2> QED
    BY <1>5
<1>7. Needed = r[N]
  BY DEF Needed, N, c, More
<1> HIDE DEF r
<1>8. r[0] = c /\ \A n \in 1 .. N : r[n] = More(r[n - 1])
  BY <1>1, <1>6
<1>9. IsGrowth(r, F, c, Blocks, N)
  BY <1>1, <1>2, <1>3, <1>8 DEF IsGrowth
<1>10. c \subseteq X
  BY DEF c
<1>11. r[N] \subseteq X
  BY <1>4, <1>9, <1>10, GrowthIsLeast
<1> QED
  BY <1>7, <1>11

\* Sets which hold what follows their blocks, or what comes before.
HoldsNext(X) == \A e \in RealFlow : e[1] \in X => e[2] \in X
HoldsPrevious(X) == \A e \in RealFlow : e[2] \in X => e[1] \in X

\* The blocks which can be reached from block d, and those from which it can be.
From(d) == {x \in Blocks : \A X \in SUBSET Blocks : HoldsNext(X) /\ d \in X => x \in X}
Towards(d) == {x \in Blocks : \A X \in SUBSET Blocks : HoldsPrevious(X) /\ d \in X => x \in X}

LEMMA FromIsLeast ==
  ASSUME RealFlow \in SUBSET (Blocks \X Blocks), NEW d \in Blocks
  PROVE  /\ d \in From(d) /\ HoldsNext(From(d)) /\ From(d) \in SUBSET Blocks
         /\ \A X \in SUBSET Blocks : HoldsNext(X) /\ d \in X => From(d) \subseteq X
         /\ d \in Towards(d) /\ HoldsPrevious(Towards(d)) /\ Towards(d) \in SUBSET Blocks
<1>1. \A e \in RealFlow : e[1] \in Blocks /\ e[2] \in Blocks
  OBVIOUS
<1>2. HoldsNext(From(d))
  BY <1>1 DEF HoldsNext, From
<1>3. HoldsPrevious(Towards(d))
  BY <1>1 DEF HoldsPrevious, Towards
<1> QED
  BY <1>2, <1>3 DEF From, Towards

\* What comes back to a block which no loop is around comes from its own loop.
LEMMA CyclesAreLoops ==
  ASSUME Built, StructureInv, LoopsAreClosed(func), BackEdgesStayInLoops(func), NEW d \in Numbered,
         LoopsAround(d) = {}, NEW p \in From(d), <<p, d>> \in RealFlow
  PROVE  func[d].merge = "loop" /\ p \in Construct(d)
<1> DEFINE F == From(d)
           S == F \cap Towards(d)
<1>1. /\ Entry \in Blocks /\ NoBlock \notin Blocks /\ Ids \subseteq Blocks
      /\ RealFlow \in SUBSET (Blocks \X Blocks) /\ VisitFlow(func) \in SUBSET (Blocks \X Blocks)
      /\ RealFlow \subseteq VisitFlow(func) /\ VisitFlow(func) \subseteq StructuralFlow
      /\ Numbered = Without(NoBlock) /\ Numbered \subseteq Ids /\ Numbered \subseteq Structural(NoBlock)
  BY FlowsNest
<1>2. d \in Blocks
  BY DEF Numbered
<1>3. /\ d \in F /\ HoldsNext(F) /\ F \in SUBSET Blocks
      /\ \A X \in SUBSET Blocks : HoldsNext(X) /\ d \in X => F \subseteq X
      /\ d \in Towards(d) /\ HoldsPrevious(Towards(d))
  BY <1>1, <1>2, FromIsLeast
<1>4. F \subseteq Numbered
  <2>1. IsClosedWithout(VisitFlow(func), NoBlock, Numbered) /\ Numbered \in SUBSET Blocks
    BY <1>1, ReachableIsClosed DEF Without, Numbered
  <2>2. HoldsNext(Numbered)
    BY <1>1, <2>1 DEF HoldsNext, IsClosedWithout
  <2> QED
    BY <1>3, <2>1, <2>2
<1>5. d \in S /\ p \in S
  BY <1>3 DEF HoldsPrevious
<1> HIDE DEF F
<1>6. S \in SUBSET Ids /\ S # {} /\ S \subseteq Numbered
  BY <1>1, <1>4, <1>5
\* The block of the cycles through d which is entered first
<1>7. PICK y \in S : \A x \in S : <<x, y>> \in RealFlow => x \notin Without(y)
  <2> HIDE DEF S
  <2> DEFINE forward == {e \in VisitFlow(func) : ~Dominates(VisitFlow(func), e[2], e[1])}
  <2>1. \E y \in S : \A x \in S : <<x, y>> \notin forward
    BY <1>6 DEF StructureInv, FollowsRules, IsReducible, Ids
  <2>2. ASSUME NEW x, NEW y, <<x, y>> \notin forward, <<x, y>> \in RealFlow PROVE x \notin Without(y)
    BY <1>1, <2>2 DEF Dominates, Without
  <2> QED
    BY <2>1, <2>2
<1>8. \A x \in S : <<x, y>> \in RealFlow => func[y].merge = "loop" /\ x \in Construct(y)
  BY <1>6, <1>7, BackEdges
<1>9. CASE y = d
  BY <1>5, <1>8, <1>9
<1>10. CASE y # d
  <2>1. PICK x \in S : <<x, y>> \in RealFlow
    <3> SUFFICES ASSUME \A x \in S : <<x, y>> \notin RealFlow PROVE FALSE
      OBVIOUS
    <3> DEFINE X == F \ {y}
    <3>1. X \in SUBSET Blocks /\ d \in X
      BY <1>3, <1>10
    <3>2. ASSUME NEW e \in RealFlow, e[1] \in X PROVE e[2] \in X
      <4>1. e[2] \in F /\ e[1] \in F /\ e = <<e[1], e[2]>>
        BY <1>1, <1>3, <3>2 DEF HoldsNext
      <4>2. ASSUME e[2] = y PROVE FALSE
        <5>1. e[1] \in Towards(d)
          BY <1>3, <4>2 DEF HoldsPrevious
        <5>2. e[1] \in S /\ <<e[1], y>> \in RealFlow
          BY <4>1, <4>2, <5>1
        <5> QED
          BY <5>2
      <4> QED
        BY <4>1, <4>2
    <3>3. HoldsNext(X)
      BY <3>2 DEF HoldsNext
    <3>4. F \subseteq X
      BY <1>3, <3>1, <3>3
    <3> QED
      BY <3>4
  <2>2. func[y].merge = "loop" /\ x \in Construct(y) /\ y \in Ids
    BY <1>6, <1>8, <2>1
  <2>3. \A z \in Structural(NoBlock) : \A w : <<z, w>> \in StructuralFlow => (w \in Construct(y) \ {y} => z \in Construct(y))
    BY <2>2, LoopIsClosed
  <2>4. d \in Construct(y)
    <3> SUFFICES ASSUME d \notin Construct(y) PROVE FALSE
      OBVIOUS
    <3> DEFINE W == S \cap Construct(y)
               X == F \ W
    <3>1. X \in SUBSET Blocks /\ d \in X
      BY <1>3
    <3>2. ASSUME NEW e \in RealFlow, e[1] \in X PROVE e[2] \in X
      <4>1. e[2] \in F /\ e[1] \in F /\ e = <<e[1], e[2]>>
        BY <1>1, <1>3, <3>2 DEF HoldsNext
      <4>2. ASSUME e[2] \in W PROVE FALSE
        <5>1. e[1] \in S
          BY <1>3, <4>1, <4>2 DEF HoldsPrevious
        <5>2. e[1] \in Construct(y)
          <6>1. CASE e[2] = y
            BY <1>8, <4>1, <5>1, <6>1
          <6>2. CASE e[2] # y
            <7>1. e[1] \in Structural(NoBlock) /\ <<e[1], e[2]>> \in StructuralFlow
              BY <1>1, <1>6, <4>1, <5>1
            <7> QED
              BY <2>3, <4>2, <6>2, <7>1
          <6> QED
            BY <6>1, <6>2
        <5> QED
          BY <3>2, <5>1, <5>2
      <4> QED
        BY <4>1, <4>2
    <3>3. HoldsNext(X)
      BY <3>2 DEF HoldsNext
    <3>4. F \subseteq X
      BY <1>3, <3>1, <3>3
    <3> QED
      BY <2>1, <2>2, <3>4
  <2>5. y \in LoopsAround(d)
    BY <1>10, <2>2, <2>4 DEF LoopsAround, Headers, Ids
  <2> QED
    BY <2>5
<1> QED
  BY <1>9, <1>10

\* A stored value comes from what the dominator of the stores reaches.
LEMMA DefinedFromDominator ==
  ASSUME Built, StructureInv, NEW d \in Numbered, \A x \in Accessed : x \in Numbered => x \notin Without(d)
  PROVE  Defined \subseteq From(d) /\ Defined \subseteq Reached
<1>1. /\ Entry \in Blocks /\ NoBlock \notin Blocks /\ RealFlow \in SUBSET (Blocks \X Blocks)
      /\ Reached \subseteq Numbered /\ \A x : Real(x) \subseteq Without(x)
  BY FlowsNest
<1>2. d \in Blocks /\ Stores \subseteq Accessed
  BY DEF Numbered, Stores, Accessed
<1>3. d \in From(d) /\ HoldsNext(From(d)) /\ From(d) \in SUBSET Blocks
  BY <1>1, <1>2, FromIsLeast
<1>4. \A x : /\ Real(x) \subseteq Blocks /\ IsClosedWithout(RealFlow, x, Real(x))
             /\ Entry # x => Entry \in Real(x)
  BY <1>1, ReachableIsClosed DEF Real
<1>5. Reached = Real(NoBlock)
  BY DEF Reached, Real
<1>6. Reached \subseteq Real(d) \cup From(d)
  <2> DEFINE S == Real(d) \cup From(d)
  <2>1. Entry \in S
    BY <1>3, <1>4
  <2>2. IsClosedWithout(RealFlow, NoBlock, S)
    BY <1>3, <1>4 DEF IsClosedWithout, HoldsNext
  <2> HIDE DEF S
  <2>3. Real(NoBlock) \subseteq S
    BY <1>1, <2>1, <2>2, ReachableIsLeast DEF Real
  <2> QED
    BY <1>5, <2>3 DEF S
<1>7. Stores \cap Reached \subseteq From(d)
  BY <1>1, <1>2, <1>6
<1>8. Defined \subseteq From(d)
  BY <1>1, <1>3, <1>7, DefinedIsLeast DEF HoldsNext
<1>9. \A e \in RealFlow : e[1] \in Reached => e[2] \in Reached
  BY <1>1, <1>4, <1>5 DEF IsClosedWithout
<1>10. Defined \subseteq Reached
  <2>1. Reached \in SUBSET Blocks /\ Stores \cap Reached \subseteq Reached
    BY <1>4, <1>5
  <2> QED
    BY <1>1, <1>9, <2>1, DefinedIsLeast
<1> QED
  BY <1>8, <1>10

\* The value an OpPhi needs is needed where it is, and the blocks before it store it.
LEMMA PhiIsNeededAtOnce ==
  ASSUME Built, StructureInv, IsPhi([access |-> access]), NEW d \in Needed, NEW p, <<p, d>> \in RealFlow
  PROVE  p \in Accessed
<1>1. RealFlow \in SUBSET (Blocks \X Blocks) /\ Ids \subseteq Blocks
  BY FlowsNest
<1>2. PICK t \in Ids :
        access = [x \in Blocks |-> IF x = t
                    THEN (IF t \in {q \in Ids : t \in Elements(func[q].targets)} THEN "update" ELSE "read")
                    ELSE IF x \in {q \in Ids : t \in Elements(func[q].targets)} THEN "write" ELSE "none"]
  BY DEF IsPhi, Ids
<1>3. \A q \in Blocks : <<q, t>> \in RealFlow => access[q] # "none"
  <2> SUFFICES ASSUME NEW q \in Blocks, <<q, t>> \in RealFlow PROVE access[q] # "none"
    OBVIOUS
  <2>1. q \in Ids /\ t \in Elements(func[q].targets)
    BY FlowEdges
  <2> QED
    BY <1>2, <2>1
<1>4. Needed \subseteq {t}
  <2>1. {t} \in SUBSET Blocks /\ {x \in Blocks : access[x] \in {"read", "update"}} \subseteq {t}
    BY <1>1, <1>2
  <2>2. \A e \in RealFlow : e[2] \in {t} /\ access[e[1]] = "none" => e[1] \in {t}
    BY <1>1, <1>3
  <2> QED
    BY <1>1, <2>1, <2>2, NeededIsLeast
<1> QED
  BY <1>1, <1>3, <1>4 DEF Accessed

\* A value which is still needed is not lost to the declaration being executed again,
\* in the next iteration of a loop around it (ChooseDominator): for every function
\* whose loops are closed and whose back edges stay in them.
THEOREM ValuesAlwaysOutliveIterations ==
  ScopeSpec /\ FollowsRules(func) /\ ContinuesAreDominated(func) /\ LoopsAreClosed(func) /\ TargetsAreUnique(func)
      /\ BackEdgesStayInLoops(func)
    => []ValuesOutliveIterations
<1>1. /\ IInv /\ DomInv /\ UnnumberedInv /\ BuilderInv /\ StructureInv /\ ScopeInv /\ PlacementInv /\ OutsideInv
      /\ LoopsAreClosed(func) /\ BackEdgesStayInLoops(func)
      => ValuesOutliveIterations
  <2> SUFFICES ASSUME IInv, DomInv, UnnumberedInv, BuilderInv, StructureInv, ScopeInv, PlacementInv, OutsideInv,
                      LoopsAreClosed(func), BackEdgesStayInLoops(func),
                      stage = "end", role \in Variables, dominator # NoBlock,
                      NEW e \in RealFlow, e[2] = dominator, e[1] \in Defined,
                      ~(func[dominator].merge = "loop" /\ e[1] \in Construct(dominator)),
                      dominator \in Needed
               PROVE  FALSE
    BY DEF ValuesOutliveIterations, Variables
  <2> DEFINE d == dominator
             p == e[1]
  <2>1. Built
    BY DEF Built, BuilderInv
  <2>2. d \in Numbered
    BY DEF ScopeInv, ScopeTypeOK
  <2>3. /\ RealFlow \in SUBSET (Blocks \X Blocks) /\ Reached \subseteq Numbered
    BY <2>1, FlowsNest
  <2>4. <<p, d>> \in RealFlow
    BY <2>3
  <2>5. \A x \in Accessed : x \in Numbered => x \notin Without(d)
    BY DEF PlacementInv, DominatorInv, GivenFor
  <2>6. p \in From(d) /\ p \in Numbered
    BY <2>1, <2>2, <2>3, <2>5, DefinedFromDominator
  <2>7. CASE role = "phi"
    <3>1. IsPhi([access |-> access])
      BY <2>7 DEF PlacementInv, RoleInv
    <3>2. p \in Accessed
      BY <2>1, <2>4, <3>1, PhiIsNeededAtOnce
    <3>3. p \notin Without(d)
      BY <2>5, <2>6, <3>2
    <3> QED
      BY <2>1, <2>4, <2>6, <3>3, BackEdges
  <2>8. CASE role # "phi"
    <3>1. access[d] # "write"
      <4> DEFINE X == {x \in Blocks : access[x] # "write"}
      <4>1. Needed \subseteq X
        <5>1. X \in SUBSET Blocks /\ {x \in Blocks : access[x] \in {"read", "update"}} \subseteq X
          OBVIOUS
        <5>2. \A c \in RealFlow : c[2] \in X /\ access[c[1]] = "none" => c[1] \in X
          BY <2>3
        <5> HIDE DEF X
        <5> QED
          BY <2>3, <5>1, <5>2, NeededIsLeast
      <4> QED
        BY <4>1
    <3>2. LoopsAround(d) = {}
      BY <2>8, <3>1 DEF OutsideInv
    <3> QED
      BY <2>1, <2>2, <2>4, <2>6, <3>2, CyclesAreLoops
  <2> QED
    BY <2>7, <2>8
<1>2. ScopeSpec /\ FollowsRules(func) /\ ContinuesAreDominated(func) /\ LoopsAreClosed(func) /\ TargetsAreUnique(func)
        /\ BackEdgesStayInLoops(func) =>
        [](/\ IInv /\ DomInv /\ UnnumberedInv /\ BuilderInv /\ StructureInv /\ ScopeInv /\ PlacementInv /\ OutsideInv
           /\ LoopsAreClosed(func) /\ BackEdgesStayInLoops(func))
  BY ScopeBuildsCFG, Invariance, DomInvariance, UnnumberedInvariance, BuilderInvariance, StructureInvariance,
     ScopeInvariance, PlacementInvariance, OutsideInvariance, ClosedInvariance, BackEdgesInvariance, PTL
<1> QED
  BY <1>1, <1>2, PTL
===============================================================================
