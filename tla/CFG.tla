---------------------------------- MODULE CFG ----------------------------------
(***************************************************************************)
(* The control flow graph of one function: class CFG of spirv_cfg.cpp.     *)
(*                                                                         *)
(* The constructor walks the blocks depth first with an explicit stack,    *)
(* numbers them in post order, records every edge which is not a back edge *)
(* and some edges which are not in the program (a header reaches its merge *)
(* block whatever the construct does), and computes in one sweep over the  *)
(* reversed post order the immediate dominator of every block.  The back   *)
(* ends declare a variable in the block which dominates its accesses, so   *)
(* the invented edges decide in which scope a variable is declared.        *)
(***************************************************************************)
EXTENDS FunctionBlocks

CONSTANT Functions   \* the functions considered: their blocks

ASSUME FunctionsAssumption ==
  /\ NoBlock \notin Blocks
  /\ \A f \in Functions : /\ DOMAIN f \subseteq Blocks /\ Entry \in DOMAIN f
                          /\ \A b \in DOMAIN f : BlockOK(f[b], DOMAIN f)

VARIABLES
  func,        \* the function: chosen once, never changed
  phase,       \* where the constructor is: "top" of the loop of
               \* post_order_visit_entry, "visiting" branches, "resolve",
               \* "dominators", "common" (find_common_dominator), "done"
  visit_stack,
  last_visited_size,
  visited,     \* the blocks with visited_branches
  order,       \* VisitOrder::order, 0 before visited_resolve
  post_order,
  preceding,   \* preceding_edges
  virtual_preceding, \* virtual_dominance_preceding_edges
  idom,        \* immediate_dominators, NoBlock when not set
  block,       \* index in post_order of the block whose dominator is computed
  edge,        \* index of the branch being visited or of the edge being resolved
  a, b         \* the arguments of find_common_dominator

traversal == <<visit_stack, last_visited_size, visited, order, post_order>>
edges == <<preceding, virtual_preceding>>
vars == <<func, phase, traversal, edges, idom, block, edge, a, b>>

-------------------------------------------------------------------------------
Top == visit_stack[Len(visit_stack)]

\* Mutant: the merge block is visited after the branches.
BranchesOf_merge_last(x) ==
  func[x].targets \o (IF func[x].merge = "none" THEN <<>> ELSE <<func[x].merge_block>>)

\* Mutant: the merge block is visited whether or not there is one.
BranchesOf_any_merge(x) == <<func[x].merge_block>> \o func[x].targets

\* The branches post_order_visit_branches visits: merge block first.
BranchesOf(x) ==
  (IF func[x].merge = "none" THEN <<>> ELSE <<func[x].merge_block>>) \o func[x].targets

\* Mutant: no branch is taken for a back edge.
is_back_edge_never(to) == FALSE

\* Mutant: a crossing edge is taken for a back edge.
is_back_edge_visited(to) == to \in visited

\* The branch leads back to a block which is still on the way to the entry.
is_back_edge(to) == to \in visited /\ order[to] = 0

\* The edges which post_order_visit_resolve adds for the branches.
BranchEdges(x) ==
  {to \in Elements(func[x].targets) : ~is_back_edge(to)}
    \cup (IF func[x].merge = "loop" /\ ~is_back_edge(func[x].merge_block)
          THEN {func[x].merge_block} ELSE {})

HasSelectionMerge(x) == func[x].merge = "selection" /\ ~is_back_edge(func[x].merge_block)

\* An implied branch from a selection header to its merge block, when the merge
\* block is unreachable or can only be reached from one place in the construct.
\* before: the edges into the merge block with those of the branches.
ImpliesMergeEdge(x, before) ==
  /\ HasSelectionMerge(x)
  /\ \/ before = <<>>
     \/ func[x].terminator = "multiselect" /\ Cardinality(BranchEdges(x)) = 1
     \/ /\ ~(func[x].terminator = "multiselect" /\ Cardinality(BranchEdges(x)) = 1)
        /\ Len(before) = 1 /\ before[1] # x

\* add_branch for every block of targets
add_branch(table, x, targets) ==
  [to \in Blocks |-> IF to \in targets /\ x \notin Elements(table[to])
                     THEN Append(table[to], x) ELSE table[to]]

add_virtual_dominance_branch(x) ==
  virtual_preceding' =
    add_branch(virtual_preceding, x, IF HasSelectionMerge(x) THEN {func[x].merge_block} ELSE {})

\* Mutant: the edges which only dominance sees are not resolved.
EdgesInto_recorded(x) == preceding[x]

\* The edges which build_immediate_dominators resolves.
EdgesInto(x) == preceding[x] \o virtual_preceding[x]

-------------------------------------------------------------------------------
\* build_post_order_visit_order

Init ==
  /\ func \in Functions
  /\ phase = "top" /\ visit_stack = <<Entry>> /\ last_visited_size = 0
  /\ visited = {} /\ order = [x \in Blocks |-> 0] /\ post_order = <<>>
  /\ preceding = [x \in Blocks |-> <<>>] /\ virtual_preceding = [x \in Blocks |-> <<>>]
  /\ idom = [x \in Blocks |-> NoBlock]
  /\ block = 0 /\ edge = 1 /\ a = NoBlock /\ b = NoBlock

\* post_order_visit_branches is entered for the top of the stack.
StartVisit ==
  /\ phase = "top"
  /\ last_visited_size' = Len(visit_stack)
  /\ IF Top \in visited
     THEN phase' = "resolve" /\ UNCHANGED visited
     ELSE phase' = "visiting" /\ visited' = visited \cup {Top}
  /\ edge' = 1
  /\ UNCHANGED <<func, visit_stack, order, post_order, edges, idom, block, a, b>>

\* Obvious duplicates are not pushed.
IsPruned(to) ==
  \/ to \in visited
  \/ \E k \in DOMAIN visit_stack : k > last_visited_size /\ visit_stack[k] = to

visit_branch ==
  LET branches == BranchesOf(visit_stack[last_visited_size])
      to == branches[edge]
  IN /\ phase = "visiting" /\ edge <= Len(branches)
     /\ visit_stack' = IF IsPruned(to) THEN visit_stack ELSE Append(visit_stack, to)
     /\ edge' = edge + 1
     /\ UNCHANGED <<func, phase, last_visited_size, visited, order, post_order, edges,
                    idom, block, a, b>>

\* The branches just pushed are reversed, to be visited in their order.
EndVisit ==
  LET m == last_visited_size
      n == Len(visit_stack)
  IN /\ phase = "visiting" /\ edge > Len(BranchesOf(visit_stack[m]))
     /\ visit_stack' = [k \in 1 .. n |-> IF k <= m THEN visit_stack[k]
                                         ELSE visit_stack[n + m + 1 - k]]
     /\ phase' = IF n = m THEN "resolve" ELSE "top"
     /\ UNCHANGED <<func, last_visited_size, visited, order, post_order, edges, idom,
                    block, edge, a, b>>

\* post_order_visit_resolve of the top of the stack, which is then popped; the
\* loop goes on with the next block of the stack.
post_order_visit_resolve ==
  LET x == Top
      rest == SubSeq(visit_stack, 1, Len(visit_stack) - 1)
      branched == add_branch(preceding, x, BranchEdges(x))
      implied == IF ImpliesMergeEdge(x, branched[func[x].merge_block])
                 THEN {func[x].merge_block} ELSE {}
  IN /\ phase = "resolve"
     /\ IF order[x] # 0
        THEN UNCHANGED <<order, post_order, edges>>
        ELSE /\ preceding' = add_branch(branched, x, implied)
             /\ add_virtual_dominance_branch(x)
             /\ order' = [order EXCEPT ![x] = Len(post_order) + 1]
             /\ post_order' = Append(post_order, x)
     /\ visit_stack' = rest
     /\ IF rest = <<>>
        THEN /\ phase' = "dominators"
             /\ block' = Len(post_order') /\ edge' = 1
             /\ idom' = [idom EXCEPT ![Entry] = Entry]
        ELSE /\ phase' = IF rest[Len(rest)] \in visited THEN "resolve" ELSE "top"
             /\ UNCHANGED <<block, edge, idom>>
     /\ UNCHANGED <<func, last_visited_size, visited, a, b>>

-------------------------------------------------------------------------------
\* build_immediate_dominators

NextBlock ==
  /\ phase = "dominators" /\ edge > Len(EdgesInto(post_order[block]))
  /\ IF block = 1
     THEN phase' = "done" /\ UNCHANGED <<block, edge>>
     ELSE block' = block - 1 /\ edge' = 1 /\ UNCHANGED phase
  /\ UNCHANGED <<func, traversal, edges, idom, a, b>>

\* Mutant: the first edge decides.
ResolveEdge_first ==
  /\ phase = "dominators" /\ edge <= Len(EdgesInto(post_order[block]))
  /\ idom' = IF idom[post_order[block]] = NoBlock
             THEN [idom EXCEPT ![post_order[block]] = EdgesInto(post_order[block])[edge]]
             ELSE idom
  /\ edge' = edge + 1
  /\ UNCHANGED <<func, phase, traversal, edges, block, a, b>>

\* resolve_preds for one edge
ResolveEdge ==
  LET x == post_order[block]
      from == EdgesInto(x)[edge]
  IN /\ phase = "dominators" /\ edge <= Len(EdgesInto(x))
     /\ IF idom[x] = NoBlock
        THEN /\ idom' = [idom EXCEPT ![x] = from] /\ edge' = edge + 1
             /\ UNCHANGED <<phase, a, b>>
        ELSE /\ phase' = "common" /\ a' = idom[x] /\ b' = from
             /\ UNCHANGED <<idom, edge>>
     /\ UNCHANGED <<func, traversal, edges, block>>

\* Mutant: the block later in post order climbs.
ClimbsFirst_later(x, y) == order[x] > order[y]

\* The block earlier in post order climbs.
ClimbsFirst(x, y) == order[x] < order[y]

\* One iteration of find_common_dominator
Climb ==
  /\ phase = "common" /\ a # b
  /\ IF ClimbsFirst(a, b)
     THEN a' = idom[a] /\ UNCHANGED b
     ELSE b' = idom[b] /\ UNCHANGED a
  /\ UNCHANGED <<func, phase, traversal, edges, idom, block, edge>>

CommonDominator ==
  /\ phase = "common" /\ a = b
  /\ idom' = [idom EXCEPT ![post_order[block]] = a]
  /\ edge' = edge + 1 /\ phase' = "dominators"
  /\ UNCHANGED <<func, traversal, edges, block, a, b>>

Next ==
  \/ StartVisit \/ visit_branch \/ EndVisit \/ post_order_visit_resolve
  \/ NextBlock \/ ResolveEdge \/ Climb \/ CommonDominator

Spec == Init /\ [][Next]_vars
FairSpec == Spec /\ WF_vars(Next)

-------------------------------------------------------------------------------
\* Reference definitions.

\* Block x is on every path from the entry to block y.
Dominates(flow, x, y) == y \notin ReachableWithout(flow, x)

RealFlow == UNION {{x} \X Elements(func[x].targets) : x \in DOMAIN func}
RecordedFlow == UNION {Elements(EdgesInto(y)) \X {y} : y \in Blocks}

Numbered == {x \in Blocks : order[x] # 0}

\* The branches the traversal follows, those to merge blocks among them.
VisitFlow(f) ==
  UNION {{x} \X (Elements(f[x].targets) \cup (IF f[x].merge = "none" THEN {} ELSE {f[x].merge_block})) :
           x \in DOMAIN f}

\* Rules of structured control flow which the analyses count on.
MergesAreDominated(f) ==
  \A h \in DOMAIN f : f[h].merge # "none" =>
    h # f[h].merge_block /\ Dominates(VisitFlow(f), h, f[h].merge_block)

\* Only branches to a dominator close a cycle.
IsReducible(f) ==
  LET forward == {e \in VisitFlow(f) : ~Dominates(VisitFlow(f), e[2], e[1])}
  IN \A S \in SUBSET DOMAIN f : S # {} => \E y \in S : \A x \in S : <<x, y>> \notin forward

IsInLoop(f, h, x) ==
  Dominates(VisitFlow(f), h, x) /\ ~Dominates(VisitFlow(f), f[h].merge_block, x)

\* A loop construct is entered at its header.
LoopsHaveOneEntry(f) ==
  \A h \in DOMAIN f : f[h].merge = "loop" =>
    \A e \in VisitFlow(f) : e[1] \in ReachableWithout(VisitFlow(f), NoBlock) /\ e[2] # h =>
      (IsInLoop(f, h, e[2]) => IsInLoop(f, h, e[1]))

\* The continue target of a loop can only be reached through the header.
ContinuesAreDominated(f) ==
  \A h \in DOMAIN f : f[h].merge = "loop" => Dominates(VisitFlow(f), h, f[h].continue_block)

FollowsRules(f) == MergesAreDominated(f) /\ IsReducible(f) /\ LoopsHaveOneEntry(f)

\* The blocks between x and the entry in the dominator tree, with x.
DominatorsOf(x) ==
  LET above[n \in 0 .. Cardinality(Blocks)] ==
        IF n = 0 THEN {x} ELSE {idom[y] : y \in above[n - 1] \ {NoBlock}}
  IN UNION {above[n] : n \in 0 .. Cardinality(Blocks)}

-------------------------------------------------------------------------------
TypeOK ==
  /\ phase \in {"top", "visiting", "resolve", "dominators", "common", "done"}
  /\ visit_stack \in Seq(Blocks) /\ last_visited_size \in Nat
  /\ visited \subseteq Blocks
  /\ order \in [Blocks -> Nat] /\ post_order \in Seq(Blocks)
  /\ preceding \in [Blocks -> Seq(Blocks)] /\ virtual_preceding \in [Blocks -> Seq(Blocks)]
  /\ idom \in [Blocks -> Blocks \cup {NoBlock}]
  /\ block \in Nat /\ edge \in Nat
  /\ {a, b} \subseteq Blocks \cup {NoBlock}

\* Every recorded edge leads from a block to one which comes earlier in post
\* order: the back edges are gone, all of them, and the graph is acyclic.  This
\* is what lets one sweep compute the dominators and find_common_dominator end.
EdgesDescend ==
  \A y \in Blocks : \A x \in Elements(preceding[y]) \cup Elements(virtual_preceding[y]) :
    order[y] # 0 /\ order[y] < order[x]

\* find_common_dominator never leaves the part of the tree built so far (the
\* assertion in build_immediate_dominators, on the way up as well).
ClimbsInTheTree ==
  phase = "common" =>
    /\ a # NoBlock /\ b # NoBlock
    /\ order[a] > block /\ order[b] > block

\* The single sweep computes the dominator tree of the recorded edges exactly.
DominatorsAreExact ==
  phase = "done" =>
    \A x \in Numbered :
      DominatorsOf(x) = {y \in Numbered : Dominates(RecordedFlow, y, x)}

\* In the program itself every path to a block passes its immediate dominator.
DominatorsAreReal ==
  phase = "done" =>
    \A x \in ReachableWithout(RealFlow, NoBlock) :
      x # Entry => Dominates(RealFlow, idom[x], x)

\* No block inside a construct dominates the merge block of the construct: what
\* is used after the construct is declared before it.
MergeIsOutside ==
  phase = "done" =>
    \A h \in Numbered :
      func[h].merge # "none" /\ h # func[h].merge_block =>
        idom[func[h].merge_block] \in DominatorsOf(h)

\* The blocks outside a construct come before those inside it in post order,
\* because its merge block is visited first: what post_order_visit_branches
\* promises to the analyses which look for post dominators.
OutsideComesFirst ==
  phase = "done" =>
    \A h, x \in Numbered :
      func[h].merge = "loop" /\ h \in DominatorsOf(x) /\ func[h].merge_block \notin DominatorsOf(x) =>
        order[func[h].merge_block] < order[x]

\* The constructor returns.
ConstructionEnds == <>(phase = "done")
===============================================================================
