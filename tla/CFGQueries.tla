------------------------------ MODULE CFGQueries -------------------------------
(***************************************************************************)
(* What the analyses and the emission of blocks ask of a finished CFG:     *)
(* common dominators, the loop around a block, what can be reached.        *)
(***************************************************************************)
EXTENDS CFG

Successors(x) == {y \in Blocks : x \in Elements(preceding[y])}

find_common_dominator(x, y) ==
  LET climb[p \in Numbered \X Numbered] ==
        IF p[1] = p[2] THEN p[1]
        ELSE IF ClimbsFirst(p[1], p[2]) THEN climb[<<idom[p[1]], p[2]>>]
        ELSE climb[<<p[1], idom[p[2]]>>]
  IN climb[<<x, y>>]

\* Mutant: the first block is taken before it is known to be reachable.
add_block_unreachable(d, x) ==
  IF d = NoBlock \/ d = x THEN x
  ELSE IF idom[x] = NoBlock THEN d
  ELSE find_common_dominator(x, d)

\* Mutant: the block which comes first is taken for the dominator.
add_block_first(d, x) ==
  IF idom[x] = NoBlock THEN d
  ELSE IF d = NoBlock \/ order[d] < order[x] THEN x ELSE d

\* DominatorBuilder::add_block: unreachable blocks are ignored.
add_block(d, x) ==
  IF idom[x] = NoBlock THEN d
  ELSE IF d = NoBlock \/ d = x THEN x
  ELSE find_common_dominator(x, d)

\* A block which branches backwards is not a place for a declaration.
lift_continue_block_dominator(d) ==
  IF d # NoBlock /\ \E to \in Elements(func[d].targets) : order[to] > order[d]
  THEN Entry ELSE d

Headers(kind) == {h \in DOMAIN func : func[h].merge = kind}
\* Mutant: the search does not step over the loop which ends at the block.
StepOver_never(x) == {}

\* The headers whose construct ends at block x: the search for the loop around x
\* goes on before the construct.
StepOver(x) ==
  {k \in DOMAIN preceding[x] : LET p == func[preceding[x][k]] IN p.merge # "none" /\ p.merge_block = x}

find_loop_dominator(x) ==
  LET above[y \in Blocks] ==
        IF preceding[y] = <<>> THEN NoBlock
        ELSE LET over == StepOver(y)
                 k == IF over = {} THEN 1 ELSE CHOOSE i \in over : \A j \in over : i <= j
                 p == preceding[y][k]
             IN IF over = {} /\ func[p].merge = "loop" THEN p ELSE above[p]
  IN above[x]

\* The blocks walk_from visits.
ReachableFrom(x) ==
  LET reach[n \in 0 .. Cardinality(Blocks)] ==
        IF n = 0 THEN {x}
        ELSE LET before == reach[n - 1] IN before \cup UNION {Successors(y) : y \in before}
  IN reach[Cardinality(Blocks)]

-------------------------------------------------------------------------------
\* The structured program which is emitted: constructs are scopes.

\* Merge instructions are edges, too.
StructuralFlowOf(f) ==
  UNION {{x} \X (Elements(f[x].targets)
                   \cup (IF f[x].merge = "none" THEN {} ELSE {f[x].merge_block})
                   \cup (IF f[x].merge = "loop" THEN {f[x].continue_block} ELSE {})) : x \in DOMAIN f}

ConstructOf(f, h) ==
  (DOMAIN f \ ReachableWithout(StructuralFlowOf(f), h))
    \cap ReachableWithout(StructuralFlowOf(f), f[h].merge_block)

ContinueConstructOf(f, h) ==
  ConstructOf(f, h) \ ReachableWithout(StructuralFlowOf(f), f[h].continue_block)

StructuralFlow == StructuralFlowOf(func)
Reached == ReachableWithout(RealFlow, NoBlock)
Construct(h) == ConstructOf(func, h)
ContinueConstruct(h) == ContinueConstructOf(func, h)

\* Rules about constructs which the analyses count on.  A loop construct holds its
\* continue target, is entered at its header and left to its merge block.
LoopsAreClosed(f) ==
  \A h \in DOMAIN f : f[h].merge = "loop" =>
    /\ f[h].continue_block \in ConstructOf(f, h)
    /\ \A e \in StructuralFlowOf(f) : e[1] \in ReachableWithout(StructuralFlowOf(f), NoBlock) =>
         /\ e[1] \in ConstructOf(f, h) => e[2] \in ConstructOf(f, h) \cup {f[h].merge_block}
         /\ e[2] \in ConstructOf(f, h) \ {h} => e[1] \in ConstructOf(f, h)

\* A construct is entered at its header.
ConstructsHaveOneEntry(f) ==
  \A h \in DOMAIN f : f[h].merge # "none" =>
    \A e \in StructuralFlowOf(f) :
      e[1] \in ReachableWithout(StructuralFlowOf(f), NoBlock) /\ e[2] \in ConstructOf(f, h) \ {h} =>
        e[1] \in ConstructOf(f, h)

\* A switch has a construct.
SwitchesHaveMerges(f) == \A h \in DOMAIN f : f[h].terminator = "multiselect" => f[h].merge = "selection"

\* What closes a cycle is a branch from a loop to its header.
BackEdgesStayInLoops(f) ==
  \A e \in VisitFlow(f) :
    e[1] \in ReachableWithout(VisitFlow(f), NoBlock) /\ Dominates(VisitFlow(f), e[2], e[1]) =>
      f[e[2]].merge = "loop" /\ e[1] \in ConstructOf(f, e[2])

\* A block is the merge block of one header only, the continue target of one other
\* block only.
TargetsAreUnique(f) ==
  \A g, h \in DOMAIN f :
    \/ g = h
    \/ /\ f[g].merge # "none" /\ f[h].merge # "none" => f[g].merge_block # f[h].merge_block
       /\ f[g].merge = "loop" /\ f[h].merge = "loop" /\ f[g].continue_block = f[h].continue_block
          => f[g].continue_block \in {g, h}

\* A construct is left for the header, the merge block or the continue target of a
\* construct around it, or its own.
ConstructsAreLeftByExits(f) ==
  \A h \in DOMAIN f : f[h].merge # "none" =>
    \A x \in ConstructOf(f, h) : \A y \in Elements(f[x].targets) \ ConstructOf(f, h) :
      \E g \in DOMAIN f : /\ f[g].merge # "none" /\ h \in ConstructOf(f, g)
                          /\ y \in {g, f[g].merge_block} \/ (f[g].merge = "loop" /\ y = f[g].continue_block)

\* A continue construct is left for its header or the merge block.
ContinuesAreClosed(f) ==
  \A h \in DOMAIN f : f[h].merge = "loop" =>
    \A x \in ContinueConstructOf(f, h) :
      Elements(f[x].targets) \subseteq ContinueConstructOf(f, h) \cup {h, f[h].merge_block}

\* A continue construct which cannot be reached without some block of the loop, other
\* than the header, is one block.
LongContinuesStandAlone(f) ==
  \A h \in DOMAIN f : f[h].merge = "loop" /\ f[h].continue_block # h =>
    LET c == f[h].continue_block
    IN \/ f[c].merge = "none" /\ Elements(f[c].targets) \subseteq {h, f[h].merge_block}
       \/ \A d \in ConstructOf(f, h) \ (ContinueConstructOf(f, h) \cup {h}) : ~Dominates(VisitFlow(f), d, c)
       \/ c \notin ReachableWithout(VisitFlow(f), NoBlock)
============================================================================
