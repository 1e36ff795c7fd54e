------------------------- MODULE CFG_structured_proofs -------------------------
(***************************************************************************)
(* Proofs about the dominator tree of a function which follows the rules   *)
(* of structured control flow: it is the dominator tree of the program,    *)
(* although the back edges are missing and edges to merge blocks are       *)
(* invented.                                                               *)
(***************************************************************************)
EXTENDS CFGQueries, CFG_proofs

Without(d) == ReachableWithout(VisitFlow(func), d)

\* The visited blocks without a number are on the stack.
OnStackInv ==
  \A y \in visited : order[y] = 0 => \E k \in DOMAIN visit_stack : Open(k) /\ visit_stack[k] = y

\* What is on the stack or visited was reached without the blocks which are not.
ReachInv ==
  \A d \in (Blocks \cup {NoBlock}) \ visited :
    /\ visited \subseteq Without(d)
    /\ \A k \in DOMAIN visit_stack : visit_stack[k] # d => visit_stack[k] \in Without(d)

\* The open blocks are a path: none of them is needed to reach those below it.
PathInv ==
  \A k, l \in DOMAIN visit_stack : \A y \in Blocks :
    k < l /\ Open(k) /\ Open(l) /\ visit_stack[l] = y => visit_stack[k] \in Without(y)

\* The block merge_block is numbered, or will be before entry l of the stack is
\* visited: the branches are pushed in their order and then reversed.
MergeComesFirst(l, merge_block) ==
  \/ order[merge_block] # 0
  \/ \E i \in DOMAIN visit_stack :
       /\ visit_stack[i] = merge_block
       /\ IF phase = "visiting" /\ l > last_visited_size THEN i > last_visited_size /\ i < l ELSE i > l

\* Entry l of the stack was pushed by entry j.
PushedBy(l, j) ==
  /\ j < l /\ Open(j) /\ (\A i \in DOMAIN visit_stack : j < i /\ i < l => ~Open(i))
  /\ <<visit_stack[j], visit_stack[l]>> \in VisitFlow(func)
  /\ func[visit_stack[j]].merge # "none" /\ visit_stack[l] # func[visit_stack[j]].merge_block =>
       MergeComesFirst(l, func[visit_stack[j]].merge_block)

\* Every entry was pushed by the last block opened before it.
ParentInv == \A l \in DOMAIN visit_stack : l > 1 => \E j \in DOMAIN visit_stack : PushedBy(l, j)

\* Every branch of a numbered block is recorded but the back edges, and every
\* branch to a merge block.
RecordInv ==
  \A x \in Blocks : order[x] # 0 =>
    /\ x \in Ids
    /\ \A y \in Elements(BranchesOf(x)) : x \in EdgeSet(y) \/ Dominates(VisitFlow(func), y, x)
    /\ func[x].merge # "none" => x \in EdgeSet(func[x].merge_block)

\* Nothing else is recorded.
OnlyBranchesInv == \A y \in Blocks : \A x \in EdgeSet(y) : <<x, y>> \in VisitFlow(func)

\* The merge block of a loop is numbered before a block of the loop is visited.
MergeFirstInv ==
  \A h \in Ids : func[h].merge = "loop" =>
    /\ \A x \in visited : x # h /\ IsInLoop(func, h, x) => order[func[h].merge_block] # 0
    /\ \A x \in Blocks : order[x] # 0 /\ IsInLoop(func, h, x) => order[func[h].merge_block] < order[x]

\* The traversal has numbered the entry block.
EntryInv == phase = "done" => order[Entry] # 0

StructureInv ==
  /\ FollowsRules(func) /\ EntryInv
  /\ OnStackInv /\ ReachInv /\ PathInv /\ ParentInv
  /\ RecordInv /\ OnlyBranchesInv /\ MergeFirstInv

-------------------------------------------------------------------------------
LEMMA VisitFlowIsBranches ==
  ASSUME func \in Functions
  PROVE  /\ VisitFlow(func) \in SUBSET (Blocks \X Blocks) /\ VisitFlow(func) \in SUBSET (Ids \X Ids)
         /\ \A x \in Ids : \A y : <<x, y>> \in VisitFlow(func) <=> y \in Elements(BranchesOf(x))
         /\ \A x \in Ids : Elements(BranchesOf(x)) \subseteq Ids /\ Elements(BranchesOf(x)) \subseteq Blocks
<1>1. /\ Ids \subseteq Blocks
      /\ \A x \in Ids : Elements(BranchesOf(x)) =
           Elements(func[x].targets) \cup (IF func[x].merge = "none" THEN {} ELSE {func[x].merge_block})
      /\ \A x \in Ids : BranchesOf(x) \in Seq(Ids)
  BY Branches
<1>2. VisitFlow(func) = UNION {{x} \X Elements(BranchesOf(x)) : x \in Ids}
  BY <1>1 DEF VisitFlow, Ids
<1>3. \A x \in Ids : Elements(BranchesOf(x)) \subseteq Ids
  BY <1>1 DEF Elements
<1> QED
  BY <1>1, <1>2, <1>3

LEMMA WithoutKept ==
  ASSUME func' = func
  PROVE  /\ VisitFlow(func)' = VisitFlow(func) /\ Ids' = Ids
         /\ \A d : Without(d)' = Without(d) /\ BranchesOf(d)' = BranchesOf(d)
BY DEF Without, Ids, BranchesOf

LEMMA FuncKept == [Next]_vars => func' = func
BY DEF Next, StartVisit, visit_branch, EndVisit, post_order_visit_resolve, NextBlock, ResolveEdge,
       Climb, CommonDominator, vars

\* Without(d), as a closed set.
LEMMA WithoutIsClosed ==
  ASSUME TypeInv, NEW d
  PROVE  /\ Without(d) \subseteq Blocks /\ d \notin Without(d) /\ (Entry # d => Entry \in Without(d))
         /\ \A x, y : <<x, y>> \in VisitFlow(func) /\ x \in Without(d) /\ y # d => y \in Without(d)
<1>1. VisitFlow(func) \in SUBSET (Blocks \X Blocks) /\ Entry \in Blocks
  BY VisitFlowIsBranches, Branches DEF TypeInv
<1>2. /\ Without(d) \subseteq Blocks /\ d \notin Without(d) /\ (Entry # d => Entry \in Without(d))
      /\ IsClosedWithout(VisitFlow(func), d, Without(d))
  BY <1>1, ReachableIsClosed DEF Without
<1>3. ASSUME NEW x, NEW y, <<x, y>> \in VisitFlow(func), x \in Without(d), y # d PROVE y \in Without(d)
  BY <1>2, <1>3 DEF IsClosedWithout
<1> QED
  BY <1>2, <1>3

\* The stack when a block is visited.
LEMMA EntriesAfterVisit ==
  ASSUME TypeInv, StackInv, OrderInv, StartVisit
  PROVE  /\ Len(visit_stack) \in DOMAIN visit_stack /\ Top = visit_stack[Len(visit_stack)] /\ Top \in Ids
         /\ visit_stack' = visit_stack /\ order' = order /\ visited' = visited \cup {Top}
         /\ \A k \in DOMAIN visit_stack : k # Len(visit_stack) => (Open(k)' <=> Open(k))
         /\ Top \notin visited => Open(Len(visit_stack))' /\ ~Open(Len(visit_stack)) /\ order[Top] = 0
         /\ Top \in visited => (Open(Len(visit_stack))' <=> Open(Len(visit_stack)))
<1> DEFINE n == Len(visit_stack)
<1>1. n \in Nat \ {0} /\ n \in DOMAIN visit_stack /\ Top = visit_stack[n] /\ Top \in Ids /\ Walking
      /\ \A k \in DOMAIN visit_stack : k \in Nat /\ k <= n
  <2>1. Walking
    BY DEF StartVisit, Walking
  <2>2. visit_stack \in Seq(Ids)
    BY DEF TypeInv
  <2> QED
    BY <2>1, <2>2, AtTop
<1>2. visit_stack' = visit_stack /\ order' = order /\ visited' = visited \cup {Top}
  BY DEF StartVisit
<1>3. Top \notin visited => order[Top] = 0
  BY <1>1, Branches DEF OrderInv, TypeInv
<1>4. ASSUME NEW k \in DOMAIN visit_stack, k # n PROVE Open(k)' <=> Open(k)
  <2>1. CASE visit_stack[k] = Top
    <3>1. n > k
      BY <1>1, <1>4
    <3> QED
      BY <1>1, <1>2, <2>1, <3>1 DEF Open
  <2>2. CASE visit_stack[k] # Top
    BY <1>2, <2>2 DEF Open
  <2> QED
    BY <2>1, <2>2
<1>5. Top \notin visited => Open(n)' /\ ~Open(n)
  BY <1>1, <1>2, <1>3 DEF Open
<1>6. Top \in visited => (Open(n)' <=> Open(n))
  BY <1>1, <1>2 DEF Open
<1> QED
  BY <1>1, <1>2, <1>3, <1>4, <1>5, <1>6

\* The traversal is over in the other steps.
LEMMA TraversalKept ==
  ASSUME TypeInv, StackInv, [Next]_vars, ~StartVisit, ~visit_branch, ~EndVisit, ~post_order_visit_resolve
  PROVE  /\ UNCHANGED <<func, visit_stack, last_visited_size, visited, order, post_order,
                        preceding, virtual_preceding>>
         /\ phase' = phase \/ DOMAIN visit_stack = {}
<1>1. CASE UNCHANGED vars
  BY <1>1 DEF vars, traversal, edges
<1>2. CASE NextBlock \/ ResolveEdge \/ Climb \/ CommonDominator
  <2>1. UNCHANGED <<func, visit_stack, last_visited_size, visited, order, post_order,
                    preceding, virtual_preceding>>
    BY <1>2 DEF NextBlock, ResolveEdge, Climb, CommonDominator, traversal, edges
  <2>2. ~Walking
    BY <1>2 DEF NextBlock, ResolveEdge, Climb, CommonDominator, Walking
  <2>3. visit_stack = <<>>
    BY <2>2 DEF StackInv
  <2>4. DOMAIN visit_stack = {}
    BY <2>3
  <2> QED
    BY <2>1, <2>4
<1> QED
  BY <1>1, <1>2 DEF Next

\* The positions of the stack.
LEMMA Positions ==
  ASSUME TypeInv
  PROVE  /\ \A k \in DOMAIN visit_stack : k \in Nat /\ k >= 1 /\ k <= Len(visit_stack) /\ visit_stack[k] \in Ids
         /\ Len(visit_stack) \in Nat /\ last_visited_size \in Nat
         /\ \A k \in Nat : k >= 1 /\ k <= Len(visit_stack) => k \in DOMAIN visit_stack
         /\ visited \subseteq Ids /\ Ids \subseteq Blocks /\ NoBlock \notin Blocks
<1>1. visit_stack \in Seq(Ids) /\ last_visited_size \in Nat /\ visited \subseteq Ids
  BY DEF TypeInv
<1>2. Ids \subseteq Blocks /\ NoBlock \notin Blocks
  BY Branches DEF TypeInv
<1>3. DOMAIN visit_stack = 1 .. Len(visit_stack) /\ Len(visit_stack) \in Nat
  BY <1>1
<1>4. \A k \in DOMAIN visit_stack : visit_stack[k] \in Ids
  BY <1>1
<1> QED
  BY <1>1, <1>2, <1>3, <1>4

LEMMA OnStackStep ==
  ASSUME TypeInv, StackInv, OrderInv, OnStackInv, [Next]_vars
  PROVE  OnStackInv'
<1> SUFFICES ASSUME NEW y \in visited', order'[y] = 0
             PROVE  \E k \in DOMAIN visit_stack' : Open(k)' /\ visit_stack'[k] = y
  BY DEF OnStackInv
<1>1. CASE StartVisit
  <2>1. CASE y = Top /\ Top \notin visited
    BY <1>1, <2>1, EntriesAfterVisit
  <2>2. CASE ~(y = Top /\ Top \notin visited)
    <3>1. y \in visited /\ order[y] = 0
      BY <1>1, <2>2, EntriesAfterVisit
    <3>2. PICK k \in DOMAIN visit_stack : Open(k) /\ visit_stack[k] = y
      BY <3>1 DEF OnStackInv
    <3>3. k = Len(visit_stack) => Top \in visited
      BY <1>1, <3>1, <3>2, EntriesAfterVisit
    <3> QED
      BY <1>1, <3>2, <3>3, EntriesAfterVisit
  <2> QED
    BY <2>1, <2>2
<1>2. CASE visit_branch
  <2>1. y \in visited /\ order[y] = 0
    BY <1>2 DEF visit_branch
  <2>2. PICK k \in DOMAIN visit_stack : Open(k) /\ visit_stack[k] = y
    BY <2>1 DEF OnStackInv
  <2> QED
    BY <1>2, <2>2, EntriesAfterBranch
<1>3. CASE EndVisit
  <2>1. y \in visited /\ order[y] = 0
    BY <1>3 DEF EndVisit
  <2>2. PICK k \in DOMAIN visit_stack : Open(k) /\ visit_stack[k] = y
    BY <2>1 DEF OnStackInv
  <2> QED
    BY <1>3, <2>2, EntriesAfterEnd
<1>4. CASE post_order_visit_resolve
  <2>1. y # Top /\ y \in visited /\ y \in Blocks
    BY <1>4, EntriesAfterResolve, Positions DEF post_order_visit_resolve
  <2>2. order[y] = 0
    BY <1>4, <2>1, EntriesAfterResolve
  <2>3. PICK k \in DOMAIN visit_stack : Open(k) /\ visit_stack[k] = y
    BY <2>1, <2>2 DEF OnStackInv
  <2>4. k # Len(visit_stack)
    BY <2>1, <2>3 DEF Top
  <2>5. k < Len(visit_stack)
    BY <2>4, Positions
  <2> QED
    BY <1>4, <2>1, <2>3, <2>5, EntriesAfterResolve
<1>5. CASE ~StartVisit /\ ~visit_branch /\ ~EndVisit /\ ~post_order_visit_resolve
  BY <1>5, TraversalKept DEF OnStackInv, Open
<1> QED
  BY <1>1, <1>2, <1>3, <1>4, <1>5

LEMMA ReachStep ==
  ASSUME TypeInv, StackInv, OrderInv, ReachInv, [Next]_vars
  PROVE  ReachInv'
<1>1. func' = func
  BY FuncKept
<1>2. ASSUME NEW d \in (Blocks \cup {NoBlock}) \ visited'
      PROVE  /\ visited' \subseteq Without(d)
             /\ \A k \in DOMAIN visit_stack' : visit_stack'[k] # d => visit_stack'[k] \in Without(d)
  <2>1. CASE StartVisit
    <3>1. d # Top /\ d \notin visited
      BY <1>2, <2>1, EntriesAfterVisit
    <3>2. visited \subseteq Without(d) /\ \A k \in DOMAIN visit_stack : visit_stack[k] # d => visit_stack[k] \in Without(d)
      BY <3>1 DEF ReachInv
    <3> QED
      BY <2>1, <3>1, <3>2, EntriesAfterVisit
  <2>2. CASE visit_branch
    <3> DEFINE x == visit_stack[last_visited_size]
               to == BranchesOf(x)[edge]
    <3>1. visited' = visited /\ phase = "visiting"
      BY <2>2 DEF visit_branch
    <3>2. visited \subseteq Without(d) /\ \A k \in DOMAIN visit_stack : visit_stack[k] # d => visit_stack[k] \in Without(d)
      BY <1>2, <3>1 DEF ReachInv
    <3>3. x \in visited /\ <<x, to>> \in VisitFlow(func)
      <4>1. x \in visited
        BY <3>1 DEF StackInv
      <4>2. x \in Ids /\ to \in Elements(BranchesOf(x))
        BY <2>2, BranchPushed
      <4> HIDE DEF x, to
      <4> QED
        BY <4>1, <4>2, VisitFlowIsBranches DEF TypeInv
    <3>4. to # d => to \in Without(d)
      <4> HIDE DEF x, to
      <4> QED
        BY <3>2, <3>3, WithoutIsClosed
    <3>5. ASSUME NEW k \in DOMAIN visit_stack' PROVE visit_stack'[k] = to \/ \E j \in DOMAIN visit_stack : visit_stack'[k] = visit_stack[j]
      BY <2>2, EntriesAfterBranch
    <3> HIDE DEF to
    <3> QED
      BY <3>1, <3>2, <3>4, <3>5
  <2>3. CASE EndVisit
    <3>1. visited' = visited
      BY <2>3 DEF EndVisit
    <3>2. visited \subseteq Without(d) /\ \A k \in DOMAIN visit_stack : visit_stack[k] # d => visit_stack[k] \in Without(d)
      BY <1>2, <3>1 DEF ReachInv
    <3>3. ASSUME NEW k \in DOMAIN visit_stack' PROVE \E j \in DOMAIN visit_stack : visit_stack'[k] = visit_stack[j]
      <4>1. k \in DOMAIN visit_stack
        BY <2>3, EntriesAfterEnd
      <4>2. k <= last_visited_size \/ k > last_visited_size
        BY <4>1, Positions
      <4> QED
        BY <2>3, <4>1, <4>2, EntriesAfterEnd
    <3> QED
      BY <3>1, <3>2, <3>3
  <2>4. CASE post_order_visit_resolve
    <3>1. visited' = visited
      BY <2>4 DEF post_order_visit_resolve
    <3> QED
      BY <1>2, <2>4, <3>1, EntriesAfterResolve DEF ReachInv
  <2>5. CASE ~StartVisit /\ ~visit_branch /\ ~EndVisit /\ ~post_order_visit_resolve
    BY <1>2, <2>5, TraversalKept DEF ReachInv
  <2> QED
    BY <2>1, <2>2, <2>3, <2>4, <2>5
<1>3. \A d : Without(d)' = Without(d)
  BY <1>1, WithoutKept
<1> QED
  BY <1>2, <1>3 DEF ReachInv

LEMMA PathStep ==
  ASSUME TypeInv, StackInv, OrderInv, ReachInv, PathInv, [Next]_vars
  PROVE  PathInv'
<1>1. func' = func
  BY FuncKept
<1>2. ASSUME NEW k \in DOMAIN visit_stack', NEW l \in DOMAIN visit_stack', NEW y \in Blocks,
             k < l, Open(k)', Open(l)', visit_stack'[l] = y
      PROVE  visit_stack'[k] \in Without(y)
  <2>1. CASE StartVisit
    <3>1. k \in DOMAIN visit_stack /\ l \in DOMAIN visit_stack /\ visit_stack' = visit_stack
      BY <1>2, <2>1, EntriesAfterVisit
    <3>2. k # Len(visit_stack)
      BY <1>2, <3>1, Positions
    <3>3. Open(k)
      BY <1>2, <2>1, <3>1, <3>2, EntriesAfterVisit
    <3>4. CASE l = Len(visit_stack) /\ Top \notin visited
      <4>1. y = Top /\ visit_stack[k] \in visited
        BY <1>2, <3>1, <3>3, <3>4 DEF Open, Top
      <4> QED
        BY <3>1, <3>4, <4>1 DEF ReachInv
    <3>5. CASE ~(l = Len(visit_stack) /\ Top \notin visited)
      <4>1. Open(l)
        BY <1>2, <2>1, <3>1, <3>5, EntriesAfterVisit
      <4> QED
        BY <1>2, <3>1, <3>3, <4>1 DEF PathInv
    <3> QED
      BY <3>4, <3>5
  <2>2. CASE visit_branch
    <3>1. /\ k \in DOMAIN visit_stack /\ Open(k) /\ visit_stack'[k] = visit_stack[k]
          /\ l \in DOMAIN visit_stack /\ Open(l) /\ visit_stack'[l] = visit_stack[l]
      BY <1>2, <2>2, EntriesAfterBranch
    <3> QED
      BY <1>2, <3>1 DEF PathInv
  <2>3. CASE EndVisit
    <3>1. /\ k \in DOMAIN visit_stack /\ Open(k) /\ visit_stack'[k] = visit_stack[k]
          /\ l \in DOMAIN visit_stack /\ Open(l) /\ visit_stack'[l] = visit_stack[l]
      BY <1>2, <2>3, EntriesAfterEnd
    <3> QED
      BY <1>2, <3>1 DEF PathInv
  <2>4. CASE post_order_visit_resolve
    <3>1. /\ k \in DOMAIN visit_stack /\ Open(k) /\ visit_stack'[k] = visit_stack[k]
          /\ l \in DOMAIN visit_stack /\ Open(l) /\ visit_stack'[l] = visit_stack[l]
      BY <1>2, <2>4, EntriesAfterResolve
    <3> QED
      BY <1>2, <3>1 DEF PathInv
  <2>5. CASE ~StartVisit /\ ~visit_branch /\ ~EndVisit /\ ~post_order_visit_resolve
    BY <1>2, <2>5, TraversalKept DEF PathInv, Open
  <2> QED
    BY <2>1, <2>2, <2>3, <2>4, <2>5
<1>3. \A d : Without(d)' = Without(d)
  BY <1>1, WithoutKept
<1> QED
  BY <1>2, <1>3 DEF PathInv

-------------------------------------------------------------------------------
\* The merge block of an open block is not open below it.
LEMMA MergeIsNotBelow ==
  ASSUME TypeInv, MergesAreDominated(func), PathInv,
         NEW m \in DOMAIN visit_stack, Open(m), func[visit_stack[m]].merge # "none",
         NEW k \in DOMAIN visit_stack, Open(k), k <= m
  PROVE  visit_stack[k] # func[visit_stack[m]].merge_block
<1> DEFINE h == visit_stack[m]
           target == func[h].merge_block
<1>1. h \in Ids /\ h \in Blocks /\ k \in Nat /\ m \in Nat
  BY Positions
<1>2. h # target /\ target \notin Without(h)
  BY <1>1 DEF MergesAreDominated, Dominates, Without, Ids
<1>3. k < m => visit_stack[k] \in Without(h)
  BY <1>1 DEF PathInv
<1>4. k = m \/ k < m
  BY <1>1
<1> QED
  BY <1>2, <1>3, <1>4

\* The merge block of the block being visited is pushed first.
LEMMA MergeIsPushedFirst ==
  ASSUME TypeInv, StackInv, OrderInv, BranchInv, MergesAreDominated(func), OnStackInv, PathInv, visit_branch,
         func[visit_stack[last_visited_size]].merge # "none", edge # 1
  PROVE  \/ order[func[visit_stack[last_visited_size]].merge_block] # 0
         \/ \E i \in DOMAIN visit_stack :
              i > last_visited_size /\ visit_stack[i] = func[visit_stack[last_visited_size]].merge_block
<1> DEFINE m == last_visited_size
           x == visit_stack[m]
           target == func[x].merge_block
<1>1. phase = "visiting" /\ m \in DOMAIN visit_stack /\ x \in Ids /\ m \in Nat
  BY AtTop, Positions DEF visit_branch, StackInv
<1>2. Open(m)
  BY <1>1 DEF StackInv, Open
<1>3. 1 \in DOMAIN BranchesOf(x) /\ BranchesOf(x)[1] = target
  <2>1. func[x].targets \in Seq(Ids)
    BY <1>1, FunctionsAssumption DEF TypeInv, Ids, BlockOK
  <2>2. BranchesOf(x) = <<target>> \o func[x].targets
    BY DEF BranchesOf
  <2> QED
    BY <2>1, <2>2
<1>4. target \in visited \/ \E j \in DOMAIN visit_stack : j > m /\ visit_stack[j] = target
  <2>1. ~(edge <= 1)
    BY DEF TypeInv
  <2> HIDE DEF x, target
  <2> QED
    BY <1>1, <1>2, <1>3, <2>1 DEF BranchInv, x
<1>5. ASSUME target \in visited, order[target] = 0 PROVE FALSE
  <2>1. PICK k \in DOMAIN visit_stack : Open(k) /\ visit_stack[k] = target
    BY <1>5 DEF OnStackInv
  <2>2. k <= m
    <3>1. k > m => visit_stack[k] \notin visited
      BY <1>1 DEF StackInv
    <3> QED
      BY <1>1, <1>5, <2>1, <3>1, Positions
  <2> QED
    BY <1>1, <1>2, <2>1, <2>2, MergeIsNotBelow
<1> QED
  BY <1>4, <1>5

LEMMA ParentWhenVisiting ==
  ASSUME TypeInv, StackInv, OrderInv, ParentInv, StartVisit
  PROVE  ParentInv'
<1>1. func' = func /\ VisitFlow(func)' = VisitFlow(func)
  BY WithoutKept DEF StartVisit
<1>2. visit_stack' = visit_stack /\ order' = order /\ last_visited_size' = Len(visit_stack) /\ phase = "top"
  BY DEF StartVisit
<1>3. SUFFICES ASSUME NEW l \in DOMAIN visit_stack, l > 1
               PROVE  \E j \in DOMAIN visit_stack : PushedBy(l, j)'
  BY <1>2 DEF ParentInv
<1>4. PICK j \in DOMAIN visit_stack : PushedBy(l, j)
  BY <1>3 DEF ParentInv
<1>5. l <= Len(visit_stack) /\ l \in Nat /\ j \in Nat /\ j < l /\ Open(j)
  BY <1>4, Positions DEF PushedBy
<1>6. \A i \in DOMAIN visit_stack : i < l => (Open(i)' <=> Open(i))
  <2> SUFFICES ASSUME NEW i \in DOMAIN visit_stack, i < l PROVE Open(i)' <=> Open(i)
    OBVIOUS
  <2>1. i # Len(visit_stack)
    BY <1>5, Positions
  <2> QED
    BY <2>1, EntriesAfterVisit
<1>7. \A t : MergeComesFirst(l, t) => MergeComesFirst(l, t)'
  <2>1. ~(l > Len(visit_stack)) /\ Len(visit_stack) \in Nat
    BY <1>5, Positions
  <2> QED
    BY <1>2, <2>1 DEF MergeComesFirst
<1>8. (\A i \in DOMAIN visit_stack : j < i /\ i < l => ~Open(i))'
  BY <1>2, <1>4, <1>6 DEF PushedBy
<1>9. (<<visit_stack[j], visit_stack[l]>> \in VisitFlow(func))'
  BY <1>1, <1>2, <1>4 DEF PushedBy
<1>10. (func[visit_stack[j]].merge # "none" /\ visit_stack[l] # func[visit_stack[j]].merge_block =>
          MergeComesFirst(l, func[visit_stack[j]].merge_block))'
  BY <1>1, <1>2, <1>4, <1>7 DEF PushedBy
<1>11. (j < l /\ Open(j))'
  BY <1>5, <1>6
<1>12. PushedBy(l, j)'
  BY <1>8, <1>9, <1>10, <1>11 DEF PushedBy
<1> QED
  BY <1>12

LEMMA ParentWhenPushing ==
  ASSUME TypeInv, StackInv, OrderInv, BranchInv, MergesAreDominated(func), OnStackInv, PathInv,
         ParentInv, visit_branch
  PROVE  ParentInv'
<1>0. PICK m \in DOMAIN visit_stack : m = last_visited_size
  BY DEF StackInv, visit_branch
<1>a. PICK x \in Ids : x = visit_stack[m]
  BY Positions
<1>b. PICK to : to = BranchesOf(x)[edge]
  OBVIOUS
<1>c. PICK target : target = func[x].merge_block
  OBVIOUS
<1>1. func' = func /\ VisitFlow(func)' = VisitFlow(func)
  BY WithoutKept DEF visit_branch
<1>2. /\ order' = order /\ last_visited_size' = last_visited_size /\ phase = "visiting" /\ phase' = "visiting"
      /\ visited' = visited
  BY DEF visit_branch
<1>3. SUFFICES ASSUME NEW l \in DOMAIN visit_stack', l > 1
               PROVE  \E j \in DOMAIN visit_stack' : PushedBy(l, j)'
  BY <1>2 DEF ParentInv
<1>4. \A k \in DOMAIN visit_stack : k \in DOMAIN visit_stack' /\ visit_stack'[k] = visit_stack[k]
  BY EntriesAfterBranch
<1>5. CASE l \in DOMAIN visit_stack
  <2>1. PICK j \in DOMAIN visit_stack : PushedBy(l, j)
    BY <1>3, <1>5 DEF ParentInv
  <2>2. (j < l /\ Open(j))'
    BY <2>1, EntriesAfterBranch DEF PushedBy
  <2>3. \A i \in DOMAIN visit_stack' : j < i /\ i < l => ~Open(i)'
    BY <2>1, EntriesAfterBranch DEF PushedBy
  <2>4. visit_stack'[j] = visit_stack[j] /\ visit_stack'[l] = visit_stack[l] /\ j \in DOMAIN visit_stack'
    BY <1>4, <1>5
  <2>5. \A t : MergeComesFirst(l, t) => MergeComesFirst(l, t)'
    BY <1>2, <1>4 DEF MergeComesFirst
  <2>6. (func[visit_stack[j]].merge # "none" /\ visit_stack[l] # func[visit_stack[j]].merge_block =>
          MergeComesFirst(l, func[visit_stack[j]].merge_block))'
    BY <1>1, <2>1, <2>4, <2>5 DEF PushedBy
  <2>7. PushedBy(l, j)'
    BY <1>1, <2>1, <2>2, <2>3, <2>4, <2>6 DEF PushedBy
  <2> QED
    BY <2>4, <2>7
<1>6. CASE l \notin DOMAIN visit_stack
  <2>1. l = Len(visit_stack) + 1 /\ visit_stack'[l] = to /\ to \notin visited
    BY <1>0, <1>a, <1>b, <1>3, <1>6, EntriesAfterBranch
  <2>2. /\ m \in DOMAIN visit_stack /\ m \in DOMAIN visit_stack' /\ x \in visited /\ visit_stack'[m] = x
        /\ order[x] = 0 /\ \A k \in DOMAIN visit_stack : k > m => visit_stack[k] \notin visited
    BY <1>0, <1>a, <1>2, <1>4 DEF StackInv
  <2>3. Open(m)
    BY <1>a, <2>2 DEF Open
  <2>4. Open(m)'
    BY <2>2, <2>3, EntriesAfterBranch
  <2>5. m < l
    BY <2>1, <2>2, Positions
  <2>6. \A i \in DOMAIN visit_stack' : m < i /\ i < l => ~Open(i)'
    <3> SUFFICES ASSUME NEW i \in DOMAIN visit_stack', m < i, Open(i)' PROVE FALSE
      OBVIOUS
    <3>1. i \in DOMAIN visit_stack /\ Open(i)
      BY EntriesAfterBranch
    <3> QED
      BY <2>2, <3>1 DEF Open
  <2>7. x \in Ids /\ <<x, to>> \in VisitFlow(func)
    <3>1. x \in Ids /\ to \in Elements(BranchesOf(x))
      BY <1>0, <1>a, <1>b, BranchPushed
    <3> QED
      BY <3>1, VisitFlowIsBranches DEF TypeInv
  <2>8. ASSUME func[x].merge # "none", to # target
        PROVE  MergeComesFirst(l, target)'
    <3>1. edge # 1
      <4> SUFFICES ASSUME edge = 1 PROVE FALSE
        OBVIOUS
      <4>1. func[x].targets \in Seq(Ids)
        BY <2>7, FunctionsAssumption DEF TypeInv, Ids, BlockOK
      <4>2. BranchesOf(x) = <<target>> \o func[x].targets
        BY <1>c, <2>8 DEF BranchesOf
      <4>3. BranchesOf(x)[1] = target
        BY <4>1, <4>2
      <4> QED
        BY <1>b, <2>8, <4>3
    <3>2. \/ order[target] # 0
          \/ \E i \in DOMAIN visit_stack : i > m /\ visit_stack[i] = target
      BY <1>0, <1>a, <1>c, <2>8, <3>1, MergeIsPushedFirst
    <3>3. ASSUME NEW i \in DOMAIN visit_stack, i > m, visit_stack[i] = target
          PROVE  MergeComesFirst(l, target)'
      <4>1. i < l
        BY <2>1, Positions
      <4>2. i \in DOMAIN visit_stack' /\ visit_stack'[i] = target
        BY <1>4, <3>3
      <4> QED
        BY <1>0, <1>1, <1>2, <2>2, <2>5, <3>3, <4>1, <4>2 DEF MergeComesFirst
    <3> QED
      BY <1>1, <1>2, <2>2, <3>2, <3>3 DEF MergeComesFirst
  <2>9. (func[visit_stack[m]].merge # "none" /\ visit_stack[l] # func[visit_stack[m]].merge_block =>
          MergeComesFirst(l, func[visit_stack[m]].merge_block))'
    BY <1>1, <1>c, <2>1, <2>2, <2>8
  <2>10. PushedBy(l, m)'
    BY <1>1, <1>2, <2>1, <2>2, <2>4, <2>5, <2>6, <2>7, <2>9 DEF PushedBy
  <2> QED
    BY <2>2, <2>10
<1> QED
  BY <1>5, <1>6

LEMMA ParentWhenReversing ==
  ASSUME TypeInv, StackInv, OrderInv, ParentInv, EndVisit
  PROVE  ParentInv'
<1>1. PICK m, n : m = last_visited_size /\ n = Len(visit_stack)
  OBVIOUS
<1>2. /\ n \in Nat /\ m \in 1 .. n /\ m \in Nat
      /\ DOMAIN visit_stack = 1 .. n /\ DOMAIN visit_stack' = 1 .. n
      /\ \A k \in 1 .. m : visit_stack'[k] = visit_stack[k]
      /\ \A k \in (m + 1) .. n : n + m + 1 - k \in (m + 1) .. n /\ visit_stack'[k] = visit_stack[n + m + 1 - k]
  <2>1. DOMAIN visit_stack' = DOMAIN visit_stack
    BY EntriesAfterEnd
  <2>2. n \in Nat /\ m \in 1 .. n /\ m \in Nat /\ DOMAIN visit_stack = 1 .. n
    BY <1>1, Reversed DEF TypeInv
  <2> QED
    BY <1>1, <2>1, <2>2, Reversed
<1>3. /\ func' = func /\ VisitFlow(func)' = VisitFlow(func) /\ order' = order
      /\ phase = "visiting" /\ phase' # "visiting"
  BY WithoutKept DEF EndVisit
<1>4. /\ \A k \in 1 .. n : Open(k)' <=> k <= m /\ Open(k)
      /\ \A k \in 1 .. n : Open(k) => k <= m
  BY <1>1, <1>2, EntriesAfterEnd
<1>5. Open(m)
  BY <1>1, <1>3 DEF StackInv, Open
<1>6. SUFFICES ASSUME NEW l \in 1 .. n, l > 1
               PROVE  \E j \in 1 .. n : PushedBy(l, j)'
  BY <1>2 DEF ParentInv
<1>7. CASE l <= m
  <2>1. PICK j \in 1 .. n : PushedBy(l, j)
    BY <1>2, <1>6 DEF ParentInv
  <2>2. j < l /\ j \in 1 .. m /\ l \in 1 .. m /\ Open(j) /\ Open(j)'
    BY <1>2, <1>4, <1>7, <2>1 DEF PushedBy
  <2>3. visit_stack'[j] = visit_stack[j] /\ visit_stack'[l] = visit_stack[l]
    BY <1>2, <2>2
  <2>4. \A i \in 1 .. n : j < i /\ i < l => ~Open(i)'
    BY <1>2, <1>4, <2>1 DEF PushedBy
  <2>5. ASSUME NEW target, MergeComesFirst(l, target) PROVE MergeComesFirst(l, target)'
    <3>1. CASE order[target] # 0
      BY <1>3, <3>1 DEF MergeComesFirst
    <3>2. CASE order[target] = 0
      <4>1. PICK i \in 1 .. n : visit_stack[i] = target /\ i > l
        BY <1>1, <1>2, <1>7, <2>5, <3>2 DEF MergeComesFirst
      <4>2. CASE i <= m
        <5>1. visit_stack'[i] = target
          BY <1>2, <4>1, <4>2
        <5> QED
          BY <1>2, <1>3, <4>1, <5>1 DEF MergeComesFirst
      <4>3. CASE i > m
        <5>1. PICK h \in 1 .. n : h > m /\ visit_stack'[h] = target
          BY <1>1, <1>2, <4>1, <4>3, EntriesAfterEnd
        <5>2. h > l
          BY <1>2, <1>7, <5>1
        <5> QED
          BY <1>2, <1>3, <5>1, <5>2 DEF MergeComesFirst
      <4> QED
        BY <1>2, <4>2, <4>3
    <3> QED
      BY <3>1, <3>2
  <2>6. (func[visit_stack[j]].merge # "none" /\ visit_stack[l] # func[visit_stack[j]].merge_block =>
          MergeComesFirst(l, func[visit_stack[j]].merge_block))'
    BY <1>3, <2>1, <2>3, <2>5 DEF PushedBy
  <2>7. PushedBy(l, j)'
    BY <1>2, <1>3, <2>1, <2>2, <2>3, <2>4, <2>6 DEF PushedBy
  <2> QED
    BY <2>7
<1>8. CASE l > m
  <2>1. PICK p : p = n + m + 1 - l
    OBVIOUS
  <2>2. p \in 1 .. n /\ p > m /\ p > 1 /\ visit_stack'[l] = visit_stack[p] /\ visit_stack'[m] = visit_stack[m]
    <3>1. l \in (m + 1) .. n
      BY <1>2, <1>8
    <3>2. p \in (m + 1) .. n /\ visit_stack'[l] = visit_stack[p]
      BY <1>2, <2>1, <3>1
    <3> QED
      BY <1>2, <3>2
  <2>3. PICK j \in 1 .. n : PushedBy(p, j)
    BY <1>2, <2>2 DEF ParentInv
  <2>4. j = m
    <3>1. Open(j) /\ j <= m /\ \A i \in 1 .. n : j < i /\ i < p => ~Open(i)
      BY <1>2, <1>4, <2>3 DEF PushedBy
    <3> QED
      BY <1>2, <1>5, <2>2, <3>1
  <2>5. m < l /\ Open(m)' /\ m \in 1 .. n
    BY <1>2, <1>4, <1>5, <1>8
  <2>6. \A i \in 1 .. n : m < i => ~Open(i)'
    BY <1>2, <1>4
  <2>7. ASSUME NEW target, MergeComesFirst(p, target) PROVE MergeComesFirst(l, target)'
    <3>1. CASE order[target] # 0
      BY <1>3, <3>1 DEF MergeComesFirst
    <3>2. CASE order[target] = 0
      <4>1. PICK i \in 1 .. n : visit_stack[i] = target /\ i > m /\ i < p
        BY <1>1, <1>2, <1>3, <2>2, <2>7, <3>2 DEF MergeComesFirst
      <4>2. PICK h : h = n + m + 1 - i
        OBVIOUS
      <4>3. h \in (m + 1) .. n /\ h > l /\ n + m + 1 - h = i
        BY <1>2, <2>1, <4>1, <4>2
      <4>4. visit_stack'[h] = target /\ h \in 1 .. n
        BY <1>2, <4>1, <4>3
      <4> QED
        BY <1>2, <1>3, <4>3, <4>4 DEF MergeComesFirst
    <3> QED
      BY <3>1, <3>2
  <2>8. (func[visit_stack[m]].merge # "none" /\ visit_stack[l] # func[visit_stack[m]].merge_block =>
          MergeComesFirst(l, func[visit_stack[m]].merge_block))'
    BY <1>3, <2>2, <2>3, <2>4, <2>7 DEF PushedBy
  <2>9. PushedBy(l, m)'
    BY <1>2, <1>3, <2>2, <2>3, <2>4, <2>5, <2>6, <2>8 DEF PushedBy
  <2> QED
    BY <2>5, <2>9
<1> QED
  BY <1>2, <1>7, <1>8

LEMMA ParentWhenResolving ==
  ASSUME TypeInv, StackInv, OrderInv, ParentInv, post_order_visit_resolve
  PROVE  ParentInv'
<1>1. PICK n : n = Len(visit_stack)
  OBVIOUS
<1>2. /\ func' = func /\ VisitFlow(func)' = VisitFlow(func)
      /\ phase = "resolve" /\ phase' # "visiting"
  BY WithoutKept DEF post_order_visit_resolve
<1>3. /\ n \in DOMAIN visit_stack /\ visit_stack[n] = Top /\ n \in Nat
      /\ \A k \in DOMAIN visit_stack : k \in Nat /\ k <= n /\ visit_stack[k] \in Ids
      /\ Ids \subseteq Blocks
  <2>1. Walking
    BY <1>2 DEF Walking
  <2> QED
    BY <1>1, <2>1, AtTop, Positions
<1>4. /\ \A k \in DOMAIN visit_stack' : k \in DOMAIN visit_stack /\ k < n /\ visit_stack'[k] = visit_stack[k]
      /\ \A k \in DOMAIN visit_stack : k < n => k \in DOMAIN visit_stack'
      /\ \A k \in DOMAIN visit_stack' : Open(k)' => Open(k)
      /\ \A k \in DOMAIN visit_stack' : Open(k) /\ visit_stack[k] # Top => Open(k)'
  BY <1>1, EntriesAfterResolve
<1>5. order'[Top] # 0 /\ \A y \in Blocks : order[y] # 0 => order'[y] # 0
  BY EntriesAfterResolve
<1>6. SUFFICES ASSUME NEW l \in DOMAIN visit_stack', l > 1
               PROVE  \E j \in DOMAIN visit_stack' : PushedBy(l, j)'
  BY DEF ParentInv
<1>7. l \in DOMAIN visit_stack /\ l < n /\ visit_stack'[l] = visit_stack[l]
  BY <1>4
<1>8. PICK j \in DOMAIN visit_stack : PushedBy(l, j)
  BY <1>6, <1>7 DEF ParentInv
<1>9. j < l /\ Open(j) /\ j < n /\ j \in DOMAIN visit_stack' /\ visit_stack'[j] = visit_stack[j]
  <2>1. j < l /\ Open(j)
    BY <1>8 DEF PushedBy
  <2>2. j < n
    BY <1>3, <1>7, <2>1
  <2> QED
    BY <1>4, <2>1, <2>2
<1>10. Open(j)'
  <2>1. visit_stack[j] # Top
    BY <1>3, <1>9 DEF Open
  <2> QED
    BY <1>4, <1>9, <2>1
<1>11. \A i \in DOMAIN visit_stack' : j < i /\ i < l => ~Open(i)'
  BY <1>4, <1>8 DEF PushedBy
<1>12. PICK target : target = func[visit_stack[j]].merge_block
  OBVIOUS
<1>13. ASSUME func[visit_stack[j]].merge # "none", MergeComesFirst(l, target)
       PROVE  MergeComesFirst(l, target)'
  <2>1. target \in Blocks
    <3>1. visit_stack[j] \in Ids
      BY <1>3
    <3>2. target \in Ids
      BY <1>12, <1>13, <3>1, FunctionsAssumption DEF TypeInv, Ids, BlockOK
    <3> QED
      BY <1>3, <3>2
  <2>2. CASE order'[target] # 0
    BY <2>2 DEF MergeComesFirst
  <2>3. CASE order'[target] = 0
    <3>1. PICK i \in DOMAIN visit_stack : visit_stack[i] = target /\ i > l
      BY <1>2, <1>5, <1>13, <2>1, <2>3 DEF MergeComesFirst
    <3>2. i # n
      BY <1>3, <1>5, <2>3, <3>1
    <3>3. i \in DOMAIN visit_stack' /\ visit_stack'[i] = target
      BY <1>3, <1>4, <3>1, <3>2
    <3> QED
      BY <1>2, <3>1, <3>3 DEF MergeComesFirst
  <2> QED
    BY <2>2, <2>3
<1>14. (func[visit_stack[j]].merge # "none" /\ visit_stack[l] # func[visit_stack[j]].merge_block =>
          MergeComesFirst(l, func[visit_stack[j]].merge_block))'
  BY <1>2, <1>7, <1>8, <1>9, <1>12, <1>13 DEF PushedBy
<1>15. PushedBy(l, j)'
  BY <1>2, <1>7, <1>8, <1>9, <1>10, <1>11, <1>14 DEF PushedBy
<1> QED
  BY <1>9, <1>15

LEMMA ParentStep ==
  ASSUME TypeInv, StackInv, OrderInv, BranchInv, MergesAreDominated(func), OnStackInv, PathInv,
         ParentInv, [Next]_vars
  PROVE  ParentInv'
<1>1. CASE ~StartVisit /\ ~visit_branch /\ ~EndVisit /\ ~post_order_visit_resolve
  <2>1. /\ UNCHANGED <<func, visit_stack, last_visited_size, visited, order>>
        /\ phase' = phase \/ DOMAIN visit_stack = {}
    BY <1>1, TraversalKept
  <2>2. CASE phase' = phase
    BY <2>1, <2>2, WithoutKept DEF ParentInv, PushedBy, MergeComesFirst, Open
  <2>3. CASE DOMAIN visit_stack = {}
    BY <2>1, <2>3 DEF ParentInv
  <2> QED
    BY <2>1, <2>2, <2>3
<1> QED
  BY <1>1, ParentWhenVisiting, ParentWhenPushing, ParentWhenReversing, ParentWhenResolving

-------------------------------------------------------------------------------
\* The block being resolved for the first time is open at the top of the stack.
LEMMA TopIsOpen ==
  ASSUME TypeInv, StackInv, OnStackInv, phase = "resolve", order[Top] = 0
  PROVE  /\ Len(visit_stack) \in DOMAIN visit_stack /\ visit_stack[Len(visit_stack)] = Top
         /\ Top \in Ids /\ Open(Len(visit_stack))
<1> DEFINE n == Len(visit_stack)
<1>1. n \in DOMAIN visit_stack /\ visit_stack[n] = Top /\ Top \in Ids
  BY AtTop DEF Walking
<1>2. Top \in visited
  BY <1>1 DEF StackInv
<1>3. PICK k \in DOMAIN visit_stack : Open(k) /\ visit_stack[k] = Top
  BY <1>2 DEF OnStackInv
<1>4. k = n
  BY <1>1, <1>3, Positions DEF Open
<1> QED
  BY <1>1, <1>3, <1>4

\* A branch is taken for a back edge only when its target dominates the block:
\* the open blocks from the target up are a cycle otherwise.
LEMMA BackEdgesAreDominated ==
  ASSUME TypeInv, StackInv, OnStackInv, PathInv, ParentInv, IsReducible(func), phase = "resolve", order[Top] = 0,
         NEW y \in Elements(BranchesOf(Top)), is_back_edge(y)
  PROVE  Dominates(VisitFlow(func), y, Top)
<1> DEFINE n == Len(visit_stack)
           Forward(e) == e \in VisitFlow(func) /\ ~Dominates(VisitFlow(func), e[2], e[1])
<1>1. SUFFICES ASSUME Top \in Without(y) PROVE FALSE
  BY DEF Dominates, Without
<1>2. n \in DOMAIN visit_stack /\ visit_stack[n] = Top /\ Top \in Ids /\ Open(n)
  BY TopIsOpen
<1>3. PICK m \in DOMAIN visit_stack : Open(m) /\ visit_stack[m] = y
  BY DEF is_back_edge, OnStackInv
<1>4. <<Top, y>> \in VisitFlow(func)
  BY <1>2, VisitFlowIsBranches DEF TypeInv
<1> DEFINE S == {visit_stack[k] : k \in {i \in DOMAIN visit_stack : i >= m /\ Open(i)}}
<1>5. S \in SUBSET Ids /\ y \in S /\ Top \in S
  BY <1>2, <1>3, Positions
<1>6. ASSUME NEW z \in S PROVE \E w \in S : Forward(<<w, z>>)
  <2>1. PICK k \in DOMAIN visit_stack : k >= m /\ Open(k) /\ visit_stack[k] = z
    OBVIOUS
  <2>2. CASE k = m
    <3>1. Forward(<<Top, z>>)
      BY <1>1, <1>3, <1>4, <2>1, <2>2 DEF Dominates, Without
    <3> QED
      BY <1>5, <3>1
  <2>3. CASE k # m
    <3>1. k > m /\ k > 1
      BY <2>1, <2>3, Positions
    <3>2. PICK j \in DOMAIN visit_stack : PushedBy(k, j)
      BY <3>1 DEF ParentInv
    <3>3. /\ j < k /\ Open(j) /\ <<visit_stack[j], z>> \in VisitFlow(func)
          /\ \A i \in DOMAIN visit_stack : j < i /\ i < k => ~Open(i)
      BY <2>1, <3>2 DEF PushedBy
    <3>4. j >= m
      BY <1>3, <3>1, <3>3, Positions
    <3>5. visit_stack[j] \in Without(z)
      BY <2>1, <3>3, Positions DEF PathInv
    <3>6. visit_stack[j] \in S
      BY <3>3, <3>4
    <3>7. Forward(<<visit_stack[j], z>>)
      BY <3>3, <3>5 DEF Dominates, Without
    <3> QED
      BY <3>6, <3>7
  <2> QED
    BY <2>2, <2>3
<1> HIDE DEF S
<1>7. S \in SUBSET DOMAIN func /\ S # {}
  BY <1>5 DEF Ids
<1>8. PICK z \in S : \A x \in S : ~Forward(<<x, z>>)
  BY <1>7 DEF IsReducible
<1> QED
  BY <1>6, <1>8

LEMMA RecordStep ==
  ASSUME TypeInv, StackInv, OrderInv, FollowsRules(func), OnStackInv, PathInv, ParentInv, RecordInv, [Next]_vars
  PROVE  RecordInv'
<1>1. /\ func' = func /\ VisitFlow(func)' = VisitFlow(func) /\ Ids' = Ids
      /\ \A x : BranchesOf(x)' = BranchesOf(x)
  BY FuncKept, WithoutKept
<1>2. SUFFICES ASSUME NEW x \in Blocks, order'[x] # 0
               PROVE  /\ x \in Ids
                      /\ \A y \in Elements(BranchesOf(x)) : x \in EdgeSet(y)' \/ Dominates(VisitFlow(func), y, x)
                      /\ \A target \in Blocks : func[x].merge # "none" /\ target = func[x].merge_block =>
                           x \in EdgeSet(target)'
  <2>1. \A x \in Blocks : \A y : x \in EdgeSet(y)' \/ Dominates(VisitFlow(func), y, x) <=>
                                   (x \in EdgeSet(y) \/ Dominates(VisitFlow(func), y, x))'
    BY <1>1 DEF Dominates
  <2>2. \A x \in Ids : func[x].merge # "none" => func[x].merge_block \in Blocks
    BY Positions, FunctionsAssumption DEF TypeInv, Ids, BlockOK
  <2> QED
    BY <1>1, <1>2, <2>1, <2>2 DEF RecordInv, Elements
<1>3. CASE order[x] # 0 /\ \A y \in Blocks : EdgeSet(y) \subseteq EdgeSet(y)'
  <2>1. /\ x \in Ids
        /\ \A y \in Elements(BranchesOf(x)) : x \in EdgeSet(y) \/ Dominates(VisitFlow(func), y, x)
        /\ func[x].merge # "none" => x \in EdgeSet(func[x].merge_block)
    BY <1>3 DEF RecordInv
  <2>2. Elements(BranchesOf(x)) \subseteq Blocks
    BY <2>1, VisitFlowIsBranches DEF TypeInv
  <2> QED
    BY <1>3, <2>1, <2>2
<1>4. CASE ~post_order_visit_resolve
  <2>1. order' = order /\ preceding' = preceding /\ virtual_preceding' = virtual_preceding
    BY <1>4 DEF Next, StartVisit, visit_branch, EndVisit, NextBlock, ResolveEdge, Climb, CommonDominator,
                vars, traversal, edges
  <2>2. \A y : EdgeSet(y)' = EdgeSet(y)
    BY <2>1 DEF EdgeSet
  <2> QED
    BY <1>2, <1>3, <2>1, <2>2
<1>5. CASE post_order_visit_resolve
  <2>1. phase = "resolve" /\ \A y \in Blocks : EdgeSet(y) \subseteq EdgeSet(y)'
    BY <1>5, Resolved DEF post_order_visit_resolve
  <2>2. CASE order[x] # 0
    BY <1>3, <2>1, <2>2
  <2>3. CASE order[x] = 0
    <3>1. x = Top /\ order[Top] = 0
      BY <1>2, <1>5, <2>3, EntriesAfterResolve
    <3>2. x \in Ids
      BY <2>1, <3>1, TopIsOpen
    <3>3. Elements(BranchesOf(x)) \subseteq Blocks
      BY <3>2, VisitFlowIsBranches DEF TypeInv
    <3>4. \A y \in Elements(BranchesOf(x)) : ~is_back_edge(y) => x \in EdgeSet(y)'
      BY <1>5, <3>1, <3>3, Resolved DEF ResolvedInto
    <3>5. \A y \in Elements(BranchesOf(x)) : is_back_edge(y) => Dominates(VisitFlow(func), y, x)
      BY <2>1, <3>1, BackEdgesAreDominated DEF FollowsRules
    <3>6. ASSUME NEW target \in Blocks, func[x].merge # "none", target = func[x].merge_block
          PROVE  x \in EdgeSet(target)'
      <4>1. target \in Elements(BranchesOf(x))
        BY <3>2, <3>6, Branches DEF TypeInv
      <4>2. ASSUME is_back_edge(target) PROVE FALSE
        <5>1. PICK k \in DOMAIN visit_stack : Open(k) /\ visit_stack[k] = target
          BY <4>2 DEF is_back_edge, OnStackInv
        <5>2. k <= Len(visit_stack)
          BY Positions
        <5>3. /\ Len(visit_stack) \in DOMAIN visit_stack /\ visit_stack[Len(visit_stack)] = x
              /\ Open(Len(visit_stack))
          BY <2>1, <3>1, TopIsOpen
        <5> QED
          BY <3>6, <5>1, <5>2, <5>3, MergeIsNotBelow DEF FollowsRules
      <4> QED
        BY <3>4, <4>1, <4>2
    <3> QED
      BY <3>2, <3>4, <3>5, <3>6
  <2> QED
    BY <2>2, <2>3
<1> QED
  BY <1>4, <1>5

LEMMA OnlyBranchesStep ==
  ASSUME TypeInv, StackInv, OnlyBranchesInv, [Next]_vars
  PROVE  OnlyBranchesInv'
<1>1. VisitFlow(func)' = VisitFlow(func)
  BY FuncKept, WithoutKept
<1>2. ASSUME NEW y \in Blocks, NEW x \in EdgeSet(y)' PROVE <<x, y>> \in VisitFlow(func)
  <2>1. CASE ~post_order_visit_resolve
    <3>1. preceding' = preceding /\ virtual_preceding' = virtual_preceding
      BY <2>1 DEF Next, StartVisit, visit_branch, EndVisit, NextBlock, ResolveEdge, Climb, CommonDominator,
                  vars, traversal, edges
    <3>2. EdgeSet(y)' = EdgeSet(y)
      BY <3>1 DEF EdgeSet
    <3> QED
      BY <3>2 DEF OnlyBranchesInv
  <2>2. CASE post_order_visit_resolve
    <3>1. CASE x \in EdgeSet(y)
      BY <3>1 DEF OnlyBranchesInv
    <3>2. CASE x \notin EdgeSet(y)
      <4>1. x = Top /\ Top \in Ids /\ y \in ResolvedInto(Top)
        BY <1>2, <2>2, <3>2, Resolved
      <4> QED
        BY <4>1, VisitFlowIsBranches DEF TypeInv, ResolvedInto
    <3> QED
      BY <3>1, <3>2
  <2> QED
    BY <2>1, <2>2
<1> QED
  BY <1>1, <1>2 DEF OnlyBranchesInv

\* A block is visited from a block of the loop, or from the header, which pushed
\* the merge block first.
LEMMA MergeFirstWhenVisiting ==
  ASSUME TypeInv, StackInv, OrderInv, LoopsHaveOneEntry(func), ReachInv, ParentInv, MergeFirstInv, StartVisit,
         Top \notin visited,
         NEW h \in Ids, func[h].merge = "loop", Top # h, IsInLoop(func, h, Top)
  PROVE  order[func[h].merge_block] # 0
<1> DEFINE n == Len(visit_stack)
           target == func[h].merge_block
<1>1. n \in DOMAIN visit_stack /\ n \in Nat /\ n >= 1 /\ visit_stack[n] = Top /\ Top \in Ids
      /\ phase = "top" /\ Walking
  BY EntriesAfterVisit, Positions DEF StartVisit, Walking
<1>2. Top \notin Without(h) /\ Top \in Without(target)
  BY DEF IsInLoop, Dominates, Without
<1>3. Top # target
  BY <1>2, WithoutIsClosed
<1>4. n # 1
  <2> SUFFICES ASSUME n = 1 PROVE FALSE
    OBVIOUS
  <2>1. Top = Entry
    BY <1>1 DEF StackInv
  <2> QED
    BY <1>2, <2>1, WithoutIsClosed
<1>5. PICK j \in DOMAIN visit_stack : PushedBy(n, j)
  <2> HIDE DEF n
  <2>1. n > 1
    BY <1>1, <1>4
  <2> QED
    BY <1>1, <2>1 DEF ParentInv
<1>6. PICK p \in Ids : p = visit_stack[j]
  BY Positions
<1>7. p \in visited /\ <<p, Top>> \in VisitFlow(func)
  BY <1>1, <1>5, <1>6 DEF PushedBy, Open
<1>8. p \in Without(NoBlock)
  <2>1. NoBlock \in (Blocks \cup {NoBlock}) \ visited
    BY Positions
  <2> QED
    BY <1>7, <2>1 DEF ReachInv
<1>9. IsInLoop(func, h, p)
  BY <1>7, <1>8 DEF LoopsHaveOneEntry, Without, Ids
<1>10. CASE p # h
  BY <1>7, <1>9, <1>10 DEF MergeFirstInv
<1>11. CASE p = h
  <2>1. MergeComesFirst(n, target)
    BY <1>1, <1>3, <1>5, <1>6, <1>11 DEF PushedBy
  <2>2. \A i \in DOMAIN visit_stack : ~(i > n)
    BY Positions
  <2> QED
    BY <1>1, <2>1, <2>2 DEF MergeComesFirst
<1> QED
  BY <1>10, <1>11

\* The merge block of a numbered header is numbered.
LEMMA MergeIsNumbered ==
  ASSUME TypeInv, EdgesDescend, RecordInv, NEW h \in Blocks, order[h] # 0, func[h].merge # "none"
  PROVE  /\ func[h].merge_block \in Blocks /\ h \in EdgeSet(func[h].merge_block)
         /\ order[func[h].merge_block] # 0
<1>1. h \in Ids /\ h \in EdgeSet(func[h].merge_block)
  BY DEF RecordInv
<1>2. func[h].merge_block \in Blocks
  BY <1>1, Positions, FunctionsAssumption DEF TypeInv, Ids, BlockOK
<1> QED
  BY <1>1, <1>2 DEF EdgesDescend, EdgeSet

LEMMA MergeFirstStep ==
  ASSUME TypeInv, StackInv, OrderInv, EdgesDescend, FollowsRules(func), ReachInv, ParentInv, RecordInv,
         MergeFirstInv, [Next]_vars
  PROVE  MergeFirstInv'
<1>1. func' = func /\ Ids' = Ids /\ VisitFlow(func)' = VisitFlow(func)
  BY FuncKept, WithoutKept
<1>2. \A h, x : IsInLoop(func, h, x)' = IsInLoop(func, h, x)
  BY <1>1 DEF IsInLoop, Dominates
<1>3. SUFFICES ASSUME NEW h \in Ids, func[h].merge = "loop", NEW target \in Blocks, target = func[h].merge_block
               PROVE  /\ \A x \in visited' : x # h /\ IsInLoop(func, h, x) => order'[target] # 0
                      /\ \A x \in Blocks : order'[x] # 0 /\ IsInLoop(func, h, x) => order'[target] < order'[x]
  <2>1. \A h \in Ids : func[h].merge = "loop" => func[h].merge_block \in Blocks
    BY Positions, FunctionsAssumption DEF TypeInv, Ids, BlockOK
  <2> QED
    BY <1>1, <1>2, <1>3, <2>1 DEF MergeFirstInv
<1>4. /\ \A x \in visited : x # h /\ IsInLoop(func, h, x) => order[target] # 0
      /\ \A x \in Blocks : order[x] # 0 /\ IsInLoop(func, h, x) => order[target] < order[x]
  BY <1>3 DEF MergeFirstInv
<1>5. \A x : IsInLoop(func, h, x) => x # target
  <2> SUFFICES ASSUME IsInLoop(func, h, target) PROVE FALSE
    OBVIOUS
  <2> QED
    BY <1>3, WithoutIsClosed DEF IsInLoop, Dominates, Without
<1>6. CASE ~post_order_visit_resolve /\ ~StartVisit
  <2>1. order' = order /\ visited' = visited
    BY <1>6 DEF Next, visit_branch, EndVisit, NextBlock, ResolveEdge, Climb, CommonDominator, vars, traversal
  <2> QED
    BY <1>4, <2>1
<1>7. CASE StartVisit
  <2>1. order' = order /\ visited' = visited \cup {Top}
    BY <1>7 DEF StartVisit
  <2>2. Top \notin visited /\ Top # h /\ IsInLoop(func, h, Top) => order[target] # 0
    BY <1>3, <1>7, MergeFirstWhenVisiting DEF FollowsRules
  <2> QED
    BY <1>4, <2>1, <2>2
<1>8. CASE post_order_visit_resolve
  <2>1. visited' = visited /\ \A x \in Blocks : order[x] # 0 => order'[x] # 0
    BY <1>8, EntriesAfterResolve DEF post_order_visit_resolve
  <2>2. CASE order[Top] # 0
    <3>1. order' = order
      BY <1>8, <2>2, Resolved
    <3> QED
      BY <1>4, <2>1, <3>1
  <2>3. CASE order[Top] = 0
    <3>1. order' = [order EXCEPT ![Top] = Len(post_order) + 1] /\ Top \in Blocks
      BY <1>8, <2>3, Resolved, Positions
    <3>2. /\ order'[Top] = Len(post_order) + 1 /\ \A x \in Blocks : x # Top => order'[x] = order[x]
          /\ \A x \in Blocks : order[x] \in Nat /\ order[x] <= Len(post_order)
          /\ Len(post_order) \in Nat
      <4>1. order \in [Blocks -> Nat] /\ post_order \in Seq(Ids)
        BY DEF TypeInv
      <4> QED
        BY <3>1, <4>1 DEF OrderInv
    <3>3. ASSUME NEW x \in Blocks, order'[x] # 0, IsInLoop(func, h, x) PROVE order'[target] < order'[x]
      <4>1. CASE x = Top
        <5>1. order'[target] = order[target]
          BY <1>5, <3>2, <3>3, <4>1
        <5> QED
          BY <3>2, <4>1, <5>1
      <4>2. CASE x # Top
        <5>1. order[x] # 0 /\ order'[x] = order[x] /\ order[target] < order[x]
          BY <1>4, <3>2, <3>3, <4>2
        <5>2. order[target] # 0
          <6>1. CASE x = h
            BY <1>3, <5>1, <6>1, MergeIsNumbered
          <6>2. CASE x # h
            BY <1>4, <3>3, <5>1, <6>2 DEF OrderInv
          <6> QED
            BY <6>1, <6>2
        <5>3. order'[target] = order[target]
          BY <2>3, <3>2, <5>2
        <5> QED
          BY <5>1, <5>3
      <4> QED
        BY <4>1, <4>2
    <3> QED
      BY <1>4, <2>1, <3>3
  <2> QED
    BY <2>2, <2>3
<1> QED
  BY <1>6, <1>7, <1>8

LEMMA EntryStep ==
  ASSUME TypeInv, TreeInv, EntryInv, [Next]_vars
  PROVE  EntryInv'
<1> SUFFICES ASSUME phase' = "done" PROVE order'[Entry] # 0
  BY DEF EntryInv
<1>1. CASE phase = "done"
  <2>1. order' = order
    BY <1>1 DEF Next, StartVisit, visit_branch, EndVisit, post_order_visit_resolve, NextBlock, ResolveEdge,
                Climb, CommonDominator, vars, traversal
  <2> QED
    BY <1>1, <2>1 DEF EntryInv
<1>2. CASE phase # "done"
  <2>1. NextBlock
    BY <1>2 DEF Next, StartVisit, visit_branch, EndVisit, post_order_visit_resolve, ResolveEdge,
                Climb, CommonDominator, vars
  <2>2. order' = order /\ Sweeping
    BY <2>1 DEF NextBlock, traversal, Sweeping
  <2>3. block \in DOMAIN post_order /\ order[Entry] = Len(post_order)
    BY <2>2 DEF TreeInv
  <2>4. post_order \in Seq(Ids)
    BY DEF TypeInv
  <2>5. Len(post_order) # 0
    BY <2>3, <2>4
  <2> QED
    BY <2>2, <2>3, <2>5
<1> QED
  BY <1>1, <1>2

LEMMA StructureStep == IInv /\ StructureInv /\ [Next]_vars => StructureInv'
<1> SUFFICES ASSUME IInv, StructureInv, [Next]_vars PROVE StructureInv'
  OBVIOUS
<1>1. TypeInv /\ OrderInv /\ StackInv /\ BranchInv /\ EdgesDescend /\ TreeInv
  BY DEF IInv
<1>2. /\ FollowsRules(func) /\ EntryInv /\ MergesAreDominated(func) /\ OnStackInv /\ ReachInv /\ PathInv /\ ParentInv
      /\ RecordInv /\ OnlyBranchesInv /\ MergeFirstInv
  BY DEF StructureInv, FollowsRules
<1>3. FollowsRules(func)'
  <2>1. func' = func
    BY FuncKept
  <2> QED
    BY <1>2, <2>1 DEF FollowsRules, MergesAreDominated, IsReducible, LoopsHaveOneEntry, IsInLoop
<1>4. OnStackInv' /\ ReachInv' /\ PathInv' /\ ParentInv'
  BY <1>1, <1>2, OnStackStep, ReachStep, PathStep, ParentStep
<1>5. RecordInv' /\ OnlyBranchesInv' /\ MergeFirstInv' /\ EntryInv'
  BY <1>1, <1>2, RecordStep, OnlyBranchesStep, MergeFirstStep, EntryStep
<1> QED
  BY <1>3, <1>4, <1>5 DEF StructureInv

LEMMA StructureInit == Init /\ FollowsRules(func) => StructureInv
<1> SUFFICES ASSUME Init, FollowsRules(func) PROVE StructureInv
  OBVIOUS
<1>1. visit_stack = <<Entry>> /\ visited = {} /\ order = [x \in Blocks |-> 0] /\ TypeInv
      /\ \A y \in Blocks : preceding[y] = <<>> /\ virtual_preceding[y] = <<>>
  BY TypeInit DEF Init
<1>2. DOMAIN visit_stack = {1} /\ visit_stack[1] = Entry
  BY <1>1
<1>3. OnStackInv /\ PathInv /\ ParentInv
  BY <1>1, <1>2 DEF OnStackInv, PathInv, ParentInv
<1>4. ReachInv
  BY <1>1, <1>2, WithoutIsClosed DEF ReachInv
<1>5. RecordInv /\ OnlyBranchesInv
  BY <1>1 DEF RecordInv, OnlyBranchesInv, EdgeSet, Elements
<1>6. MergeFirstInv /\ EntryInv
  BY <1>1 DEF Init, MergeFirstInv, EntryInv
<1> QED
  BY <1>3, <1>4, <1>5, <1>6 DEF StructureInv

LEMMA StructureInvariance == Spec /\ FollowsRules(func) => []StructureInv
<1>1. Init /\ FollowsRules(func) => StructureInv
  BY StructureInit
<1>2. IInv /\ StructureInv /\ [Next]_vars => StructureInv'
  BY StructureStep
<1> QED
  BY <1>1, <1>2, Invariance, PTL DEF Spec

-------------------------------------------------------------------------------
\* What a block which is dominated by another one is needed for, both are.
LEMMA DominanceIsTransitive ==
  ASSUME NEW flow \in SUBSET (Blocks \X Blocks), Entry \in Blocks, NEW d, NEW y, y # d,
         y \notin ReachableWithout(flow, d)
  PROVE  ReachableWithout(flow, d) \subseteq ReachableWithout(flow, y)
<1> DEFINE S == ReachableWithout(flow, d) \cap ReachableWithout(flow, y)
<1>1. /\ Entry # d => Entry \in ReachableWithout(flow, d)
      /\ IsClosedWithout(flow, d, ReachableWithout(flow, d))
      /\ Entry # y => Entry \in ReachableWithout(flow, y)
      /\ IsClosedWithout(flow, y, ReachableWithout(flow, y))
  BY ReachableIsClosed
<1>2. Entry # d => Entry \in S
  BY <1>1
<1>3. IsClosedWithout(flow, d, S)
  BY <1>1 DEF IsClosedWithout
<1>4. ReachableWithout(flow, d) \subseteq S
  <2> HIDE DEF S
  <2> QED
    BY <1>2, <1>3, ReachableIsLeast
<1> QED
  BY <1>4

\* The missing back edges and the invented edges change no dominator: the
\* recorded edges and the branches of the function avoid a block alike.
LEMMA RecordedFlowIsVisitFlow ==
  ASSUME IInv, DomInv, StructureInv, phase = "done", NEW d
  PROVE  ReachableWithout(RecordedFlow, d) = Without(d) /\ Without(d) \subseteq Numbered
<1> DEFINE R == ReachableWithout(RecordedFlow, d)
<1>1. /\ TypeInv /\ EdgesDescend /\ RecordInv /\ OnlyBranchesInv /\ Entry \in Blocks
      /\ RecordedFlow \in SUBSET (Blocks \X Blocks) /\ VisitFlow(func) \in SUBSET (Blocks \X Blocks)
      /\ \A x, y \in Blocks : <<x, y>> \in RecordedFlow <=> x \in EdgeSet(y)
  BY FlowIsEdges, VisitFlowIsBranches, Branches DEF IInv, TypeInv, StructureInv
<1>2. RecordedFlow \subseteq VisitFlow(func)
  BY <1>1 DEF OnlyBranchesInv
<1>3. \A z : ReachableWithout(RecordedFlow, z) \subseteq Without(z)
  BY <1>1, <1>2, ReachableGrows DEF Without
<1>4. R \subseteq Numbered
  <2>1. Entry \in Numbered
    BY <1>1 DEF StructureInv, EntryInv, Numbered
  <2>2. IsClosedWithout(RecordedFlow, d, Numbered)
    <3> SUFFICES ASSUME NEW x \in Blocks, NEW y \in Blocks, x \in EdgeSet(y) PROVE y \in Numbered
      BY <1>1 DEF IsClosedWithout
    <3> QED
      BY <1>1 DEF EdgesDescend, EdgeSet, Numbered
  <2> QED
    BY <1>1, <2>1, <2>2, ReachableIsLeast
<1>5. /\ R \subseteq Blocks /\ (Entry # d => Entry \in R) /\ IsClosedWithout(RecordedFlow, d, R)
  BY <1>1, ReachableIsClosed
<1>6. ASSUME NEW x \in R, NEW y \in Blocks, <<x, y>> \in VisitFlow(func), y # d PROVE y \in R
  <2>1. x \in Numbered /\ x \in Blocks /\ order[x] # 0
    BY <1>4, <1>5 DEF Numbered
  <2>2. x \in Ids /\ y \in Elements(BranchesOf(x))
    BY <1>1, <1>6, VisitFlowIsBranches DEF TypeInv
  <2>3. x \in EdgeSet(y) \/ Dominates(VisitFlow(func), y, x)
    BY <1>1, <2>1, <2>2 DEF RecordInv
  <2>4. CASE x \in EdgeSet(y)
    <3>1. <<x, y>> \in RecordedFlow
      BY <1>1, <2>1, <2>4
    <3> QED
      BY <1>5, <1>6, <3>1 DEF IsClosedWithout
  <2>5. CASE Dominates(VisitFlow(func), y, x)
    <3>1. x \notin ReachableWithout(RecordedFlow, y)
      BY <1>3, <2>5 DEF Dominates, Without
    <3>2. y \notin R => R \subseteq ReachableWithout(RecordedFlow, y)
      BY <1>1, <1>6, DominanceIsTransitive
    <3> QED
      BY <3>1, <3>2
  <2> QED
    BY <2>3, <2>4, <2>5
<1>7. IsClosedWithout(VisitFlow(func), d, R)
  BY <1>1, <1>6 DEF IsClosedWithout
<1>8. Without(d) \subseteq R
  <2> HIDE DEF R
  <2> QED
    BY <1>1, <1>5, <1>7, ReachableIsLeast DEF Without
<1> QED
  BY <1>3, <1>4, <1>8

\* The immediate dominator of a block is one of its dominators.
LEMMA ImmediateDominator ==
  ASSUME IInv, DomInv, phase = "done", NEW x \in Numbered, x # Entry
  PROVE  /\ idom[x] \in Blocks /\ idom[x] # x /\ idom[x] \in Dom(x)
<1>1. TypeInv /\ x \in Blocks /\ order[x] # 0
  BY DEF IInv, Numbered
<1>2. IsExact(x)
  BY <1>1 DEF DomInv
<1>3. order[idom[x]] \in Nat /\ order[x] \in Nat
  BY <1>1, <1>2 DEF IsExact, TypeInv
<1>4. idom[x] \in Dom(idom[x])
  BY <1>1, <1>2, DomOfItself DEF IsExact
<1> QED
  BY <1>2, <1>3, <1>4 DEF IsExact

\* In a function which follows the rules, no block inside a construct dominates
\* the merge block of the construct.
THEOREM MergeIsAlwaysOutside == Spec /\ FollowsRules(func) => []MergeIsOutside
<1>1. IInv /\ DomInv /\ StructureInv => MergeIsOutside
  <2> SUFFICES ASSUME IInv, DomInv, StructureInv, phase = "done", NEW h \in Numbered, func[h].merge # "none"
               PROVE  idom[func[h].merge_block] \in DominatorsOf(h)
    BY DEF MergeIsOutside
  <2> DEFINE target == func[h].merge_block
  <2>1. TypeInv /\ OrderInv /\ EdgesDescend /\ RecordInv /\ h \in Blocks /\ order[h] # 0
    BY DEF IInv, StructureInv, Numbered
  <2>2. target \in Blocks /\ h \in EdgeSet(target) /\ order[target] # 0
    BY <2>1, MergeIsNumbered
  <2> HIDE DEF target
  <2>3. target # Entry
    <3>1. order[target] < order[h] /\ order[h] <= Len(post_order)
      BY <2>1, <2>2 DEF EdgesDescend, EdgeSet, OrderInv
    <3>2. order[target] \in Nat /\ order[h] \in Nat /\ Len(post_order) \in Nat
      BY <2>1, <2>2 DEF TypeInv
    <3>3. order[Entry] = Len(post_order)
      BY DEF DomInv
    <3> QED
      BY <3>1, <3>2, <3>3
  <2>4. idom[target] \in Blocks /\ idom[target] # target /\ idom[target] \in Dom(target)
    BY <2>2, <2>3, ImmediateDominator DEF Numbered
  <2>5. idom[target] \in Dom(h)
    BY <2>1, <2>2, <2>3, <2>4, DomByEdges
  <2> QED
    BY <2>5, TreeIsDominance DEF target
<1> QED
  BY <1>1, Invariance, DomInvariance, StructureInvariance, PTL

\* In a function which follows the rules, every path of the program to a block
\* passes the immediate dominator which was computed from the recorded edges.
THEOREM DominatorsAreAlwaysReal == Spec /\ FollowsRules(func) => []DominatorsAreReal
<1>1. IInv /\ DomInv /\ StructureInv => DominatorsAreReal
  <2> SUFFICES ASSUME IInv, DomInv, StructureInv, phase = "done",
                      NEW x \in ReachableWithout(RealFlow, NoBlock), x # Entry
               PROVE  Dominates(RealFlow, idom[x], x)
    BY DEF DominatorsAreReal
  <2>1. TypeInv /\ Entry \in Blocks /\ VisitFlow(func) \in SUBSET (Blocks \X Blocks)
    BY VisitFlowIsBranches, Branches DEF IInv, TypeInv
  <2>2. RealFlow \subseteq VisitFlow(func)
    BY DEF RealFlow, VisitFlow
  <2>3. \A d : ReachableWithout(RealFlow, d) \subseteq Without(d)
    BY <2>1, <2>2, ReachableGrows DEF Without
  <2>4. x \in Numbered
    BY <2>3, RecordedFlowIsVisitFlow
  <2>5. idom[x] \in Dom(x)
    BY <2>4, ImmediateDominator
  <2>6. x \notin Without(idom[x])
    BY <2>5, RecordedFlowIsVisitFlow DEF Dom, Dominates
  <2> QED
    BY <2>3, <2>6 DEF Dominates
<1> QED
  BY <1>1, Invariance, DomInvariance, StructureInvariance, PTL

\* In a function which follows the rules, the merge block of a loop comes before
\* the blocks of the loop in post order.
THEOREM OutsideAlwaysComesFirst == Spec /\ FollowsRules(func) => []OutsideComesFirst
<1>1. IInv /\ DomInv /\ StructureInv => OutsideComesFirst
  <2> SUFFICES ASSUME IInv, DomInv, StructureInv, phase = "done", NEW h \in Numbered, NEW x \in Numbered,
                      func[h].merge = "loop", h \in DominatorsOf(x), func[h].merge_block \notin DominatorsOf(x)
               PROVE  order[func[h].merge_block] < order[x]
    BY DEF OutsideComesFirst
  <2>1. /\ TypeInv /\ EdgesDescend /\ RecordInv /\ MergeFirstInv
        /\ h \in Blocks /\ order[h] # 0 /\ x \in Blocks /\ order[x] # 0
    BY DEF IInv, StructureInv, Numbered
  <2>2. h \in Ids /\ func[h].merge_block \in Blocks
    BY <2>1, MergeIsNumbered DEF RecordInv
  <2>3. h \in Dom(x) /\ func[h].merge_block \notin Dom(x)
    BY TreeIsDominance
  <2>4. x \notin Without(h) /\ x \in Without(func[h].merge_block)
    BY <2>1, <2>2, <2>3, RecordedFlowIsVisitFlow DEF Dom, Dominates
  <2>5. IsInLoop(func, h, x)
    BY <2>4 DEF IsInLoop, Dominates, Without
  <2> QED
    BY <2>1, <2>2, <2>5 DEF MergeFirstInv
<1> QED
  BY <1>1, Invariance, DomInvariance, StructureInvariance, PTL

-------------------------------------------------------------------------------
(* The finished dominator tree.                                            *)

\* A block without a number has no dominator.
UnnumberedInv == phase = "done" => \A x \in Blocks : order[x] = 0 => idom[x] = NoBlock

Built == IInv /\ DomInv /\ UnnumberedInv /\ phase = "done"

LEMMA UnnumberedInvariance == Spec => []UnnumberedInv
<1>1. Init => UnnumberedInv
  BY DEF Init, UnnumberedInv
<1>2. IInv /\ UnnumberedInv /\ [Next]_vars => UnnumberedInv'
  <2> SUFFICES ASSUME IInv, UnnumberedInv, [Next]_vars, phase' = "done", NEW x \in Blocks, order'[x] = 0
               PROVE  idom'[x] = NoBlock
    BY DEF UnnumberedInv
  <2>1. CASE UNCHANGED vars
    BY <2>1 DEF UnnumberedInv, vars, traversal
  <2>2. CASE NextBlock
    <3>1. phase = "dominators" /\ order' = order /\ idom' = idom /\ block = 1
      BY <2>2 DEF NextBlock, traversal
    <3>2. x # Entry /\ order[x] < block
      <4>1. order[Entry] = Len(post_order) /\ block \in DOMAIN post_order /\ post_order \in Seq(Ids)
        BY <3>1 DEF IInv, TreeInv, TypeInv, Sweeping
      <4>2. Len(post_order) > 0
        BY <4>1
      <4> QED
        BY <3>1, <4>1, <4>2
    <3> QED
      BY <3>1, <3>2 DEF IInv, TreeInv, Sweeping
  <2>3. CASE StartVisit \/ visit_branch \/ EndVisit \/ post_order_visit_resolve \/ ResolveEdge \/ Climb \/ CommonDominator
    <3>1. StartVisit => FALSE
      BY DEF StartVisit
    <3>2. visit_branch => FALSE
      BY DEF visit_branch
    <3>3. EndVisit => FALSE
      BY DEF EndVisit
    <3>4. post_order_visit_resolve => FALSE
      BY DEF post_order_visit_resolve
    <3>5. ResolveEdge => FALSE
      BY DEF ResolveEdge
    <3>6. Climb => FALSE
      BY DEF Climb
    <3>7. CommonDominator => FALSE
      BY DEF CommonDominator
    <3> QED
      BY <2>3, <3>1, <3>2, <3>3, <3>4, <3>5, <3>6, <3>7
  <2> QED
    BY <2>1, <2>2, <2>3 DEF Next
<1> QED
  BY <1>1, <1>2, Invariance, PTL DEF Spec

\* What the analysis may count on: every numbered block but the entry has an
\* immediate dominator further up, and only numbered blocks have one.
LEMMA TheTree ==
  ASSUME Built
  PROVE  /\ NoBlock \notin Blocks /\ Entry \in Numbered /\ idom[Entry] = Entry
         /\ order \in [Blocks -> Nat] /\ Len(post_order) \in Nat
         /\ \A x \in Blocks : /\ idom[x] # NoBlock <=> x \in Numbered
                              /\ order[x] <= Len(post_order)
         /\ \A x \in Numbered : x # Entry =>
              /\ idom[x] \in Numbered /\ order[idom[x]] > order[x]
              /\ Dom(x) = Dom(idom[x]) \cup {x}
         /\ \A x, y \in Numbered : order[x] = order[y] => x = y
         /\ \A x \in Numbered : order[x] <= order[Entry] /\ Dom(x) \subseteq Numbered
<1>1. TypeInv /\ OrderInv /\ DomInv /\ UnnumberedInv /\ phase = "done"
  BY DEF Built, IInv
<1>2. NoBlock \notin Blocks /\ Entry \in Blocks
  BY <1>1, FunctionsAssumption, Branches DEF TypeInv
<1>3. order \in [Blocks -> Nat] /\ post_order \in Seq(Ids) /\ Len(post_order) \in Nat
  BY <1>1 DEF TypeInv
<1>4. /\ \A x \in Blocks : /\ order[x] <= Len(post_order)
                           /\ order[x] # 0 => x \in visited /\ post_order[order[x]] = x
  BY <1>1 DEF OrderInv
<1>5. visited \subseteq Blocks
  BY <1>1, Branches DEF TypeInv
<1>6. order[Entry] = Len(post_order) /\ idom[Entry] = Entry
  BY <1>1 DEF DomInv
<1>7. Entry \in Numbered
  <2> SUFFICES ASSUME order[Entry] = 0 PROVE FALSE
    BY <1>2 DEF Numbered
  <2>1. idom[Entry] = NoBlock
    BY <1>1, <1>2 DEF UnnumberedInv
  <2> QED
    BY <2>1, <1>2, <1>6
<1>8. \A x \in Numbered : x # Entry => IsExact(x)
  BY <1>1 DEF DomInv, Numbered
<1>9. \A x \in Numbered : x # Entry =>
        /\ idom[x] \in Numbered /\ order[idom[x]] > order[x]
        /\ Dom(x) = Dom(idom[x]) \cup {x}
  <2> SUFFICES ASSUME NEW x \in Numbered, x # Entry
               PROVE  /\ idom[x] \in Numbered /\ order[idom[x]] > order[x]
                      /\ Dom(x) = Dom(idom[x]) \cup {x}
    OBVIOUS
  <2>1. idom[x] \in Blocks /\ order[idom[x]] > order[x] /\ Dom(x) = Dom(idom[x]) \cup {x}
    BY <1>8 DEF IsExact
  <2>2. order[x] \in Nat /\ order[idom[x]] \in Nat
    BY <2>1, <1>3 DEF Numbered
  <2>3. order[idom[x]] # 0
    BY <2>1, <2>2
  <2> QED
    BY <2>1, <2>3 DEF Numbered
<1>10. \A x \in Blocks : idom[x] # NoBlock <=> x \in Numbered
  BY <1>1, <1>2, <1>6, <1>9 DEF UnnumberedInv, Numbered
<1>11. \A x, y \in Numbered : order[x] = order[y] => x = y
  BY <1>4 DEF Numbered
<1>12. \A x \in Numbered : order[x] <= order[Entry]
  BY <1>4, <1>6 DEF Numbered
<1>13. \A x \in Numbered : Dom(x) \subseteq Numbered
  BY TreeIsDominance DEF Built
<1> QED
  BY <1>2, <1>3, <1>4, <1>6, <1>7, <1>9, <1>10, <1>11, <1>12, <1>13

\* find_common_dominator ends, in the block whose dominators are the dominators
\* both blocks have.
LEMMA CommonDominatorIsRight ==
  ASSUME Built, NEW x \in Numbered, NEW y \in Numbered
  PROVE  /\ find_common_dominator(x, y) \in Numbered
         /\ Dom(find_common_dominator(x, y)) = Dom(x) \cap Dom(y)
<1> DEFINE S == Numbered \X Numbered
           L == Len(post_order)
           T == {p \in S : p[1] = p[2]}
           v == [p \in S |-> p[1]]
           next == [p \in S |-> IF ClimbsFirst(p[1], p[2]) THEN <<idom[p[1]], p[2]>>
                                                         ELSE <<p[1], idom[p[2]]>>]
           G == [q \in S \X Numbered |-> q[2]]
           r == [p \in S |-> (L - order[p[1]]) + (L - order[p[2]])]
           Is(f) == f = [p \in S |-> IF p[1] = p[2] THEN p[1]
                                     ELSE IF ClimbsFirst(p[1], p[2]) THEN f[<<idom[p[1]], p[2]>>]
                                     ELSE f[<<p[1], idom[p[2]]>>]]
<1>1. /\ L \in Nat /\ Entry \in Numbered /\ idom[Entry] = Entry
      /\ \A z \in Numbered : /\ order[z] \in Nat /\ order[z] <= L /\ order[z] <= order[Entry]
                             /\ idom[z] \in Numbered
                             /\ z # Entry => order[idom[z]] > order[z] /\ Dom(z) = Dom(idom[z]) \cup {z}
      /\ \A z, w \in Numbered : order[z] = order[w] => z = w
  <2>1. Numbered \subseteq Blocks
    BY DEF Numbered
  <2> QED
    BY <2>1, TheTree
<1>2. /\ \A z, w \in Numbered : order[z] < order[w] => z # Entry
      /\ \A z, w \in Numbered : z # w => order[z] < order[w] \/ order[w] < order[z]
  <2>1. order[Entry] \in Nat
    BY <1>1
  <2> QED
    BY <2>1, <1>1
<1>3. next \in [S -> S]
  BY <1>1
<1>4. r \in [S -> Nat]
  <2>1. \A z \in Numbered : L - order[z] \in Nat
    BY <1>1
  <2> QED
    BY <2>1
<1>5. ASSUME NEW p \in S, p \notin T PROVE r[next[p]] < r[p]
  <2>1. PICK z \in Numbered, w \in Numbered : p = <<z, w>>
    OBVIOUS
  <2>2. z # w
    BY <1>5, <2>1
  <2>3. /\ L \in Nat /\ order[z] \in Nat /\ order[w] \in Nat
        /\ order[idom[z]] \in Nat /\ order[idom[w]] \in Nat
    BY <1>1
  <2>4. r[p] = (L - order[z]) + (L - order[w])
    BY <2>1
  <2>5. CASE ClimbsFirst(z, w)
    <3>1. order[z] < order[w]
      BY <2>5 DEF ClimbsFirst
    <3>2. order[idom[z]] > order[z]
      BY <3>1, <1>1, <1>2
    <3>3. next[p] = <<idom[z], w>> /\ <<idom[z], w>> \in S
      BY <2>1, <2>5, <1>1
    <3>4. r[next[p]] = (L - order[idom[z]]) + (L - order[w])
      BY <3>3
    <3> QED
      BY <2>3, <2>4, <3>2, <3>4
  <2>6. CASE ~ClimbsFirst(z, w)
    <3>1. order[w] < order[z]
      BY <2>2, <2>3, <2>6, <1>2 DEF ClimbsFirst
    <3>2. order[idom[w]] > order[w]
      BY <3>1, <1>1, <1>2
    <3>3. next[p] = <<z, idom[w]>> /\ <<z, idom[w]>> \in S
      BY <2>1, <2>6, <1>1
    <3>4. r[next[p]] = (L - order[z]) + (L - order[idom[w]])
      BY <3>3
    <3> QED
      BY <2>3, <2>4, <3>2, <3>4
  <2> QED
    BY <2>5, <2>6
<1>6. IsRanked(S, T, next, r)
  BY <1>3, <1>4, <1>5 DEF IsRanked
<1>7. \E f : Is(f)
  <2> DEFINE V == Numbered
  <2>1. IsRecursion(S, V, T, v, next, G, r)
    <3>1. v \in [S -> V] /\ G \in [S \X V -> V]
      OBVIOUS
    <3> HIDE DEF S, T, v, next, G, r, V
    <3> QED
      BY <1>6, <3>1 DEF IsRecursion
  <2>2. PICK f \in [S -> Numbered] : \A p \in S : f[p] = IF p \in T THEN v[p] ELSE G[<<p, f[next[p]]>>]
    <3>1. PICK f : Solves(f, S, V, T, v, next, G)
      <4> HIDE DEF S, T, v, next, G, r, V
      <4> QED
        BY <2>1, RecursiveFunctionExists
    <3>2. f \in [S -> V] /\ \A p \in S : f[p] = IF p \in T THEN v[p] ELSE G[<<p, f[next[p]]>>]
      <4> HIDE DEF S, T, v, next, G, r, V
      <4> QED
        BY <3>1 DEF Solves
    <3> HIDE DEF S, T, v, next, G, r
    <3> QED
      BY <3>2
  <2>3. ASSUME NEW p \in S
        PROVE  f[p] = IF p[1] = p[2] THEN p[1]
                      ELSE IF ClimbsFirst(p[1], p[2]) THEN f[<<idom[p[1]], p[2]>>]
                      ELSE f[<<p[1], idom[p[2]]>>]
    <3>1. f[p] = IF p \in T THEN v[p] ELSE G[<<p, f[next[p]]>>]
      <4> HIDE DEF S, T, v, next, G
      <4> QED
        BY <2>2
    <3>2. next[p] \in S /\ f[next[p]] \in Numbered
      BY <1>3, <2>2
    <3>3. G[<<p, f[next[p]]>>] = f[next[p]]
      BY <3>2
    <3>4. v[p] = p[1] /\ (p \in T <=> p[1] = p[2])
      OBVIOUS
    <3>5. next[p] = IF ClimbsFirst(p[1], p[2]) THEN <<idom[p[1]], p[2]>> ELSE <<p[1], idom[p[2]]>>
      OBVIOUS
    <3> HIDE DEF S, T, v, next, G
    <3> QED
      BY <3>1, <3>3, <3>4, <3>5
  <2>4. f = [p \in S |-> f[p]]
    BY <2>2
  <2> HIDE DEF S
  <2> QED
    BY <2>3, <2>4
<1> DEFINE c == CHOOSE f : Is(f)
<1>8. Is(c)
  <2> HIDE DEF Is
  <2> QED
    BY <1>7
<1>9. find_common_dominator(x, y) = c[<<x, y>>]
  BY DEF find_common_dominator
<1> HIDE DEF c
<1>10. \A p \in S : c[p] = IF p[1] = p[2] THEN p[1]
                           ELSE IF ClimbsFirst(p[1], p[2]) THEN c[<<idom[p[1]], p[2]>>]
                           ELSE c[<<p[1], idom[p[2]]>>]
  <2> HIDE DEF S
  <2> QED
    BY <1>8
<1> DEFINE Good(p) == c[p] \in Numbered /\ Dom(c[p]) = Dom(p[1]) \cap Dom(p[2])
           Bad == {p \in S : ~Good(p)}
<1>11. Bad = {}
  <2>1. ASSUME NEW p \in Bad PROVE \E q \in Bad : r[q] < r[p]
    <3>1. p \in S /\ ~Good(p)
      OBVIOUS
    <3>2. p \notin T
      BY <3>1, <1>10
    <3>3. next[p] \in S /\ r[next[p]] < r[p]
      BY <1>3, <1>5, <3>1, <3>2
    <3>4. c[p] = c[next[p]]
      BY <3>1, <3>2, <1>10
    <3>5. Dom(next[p][1]) \cap Dom(next[p][2]) = Dom(p[1]) \cap Dom(p[2])
      <4>1. PICK z \in Numbered, w \in Numbered : p = <<z, w>>
        BY <3>1
      <4>2. z # w /\ order[z] \in Nat /\ order[w] \in Nat /\ z \in Blocks /\ w \in Blocks
        BY <3>1, <3>2, <4>1, <1>1 DEF Numbered
      <4>3. TypeInv /\ OrderInv /\ StackInv /\ FedInv /\ EdgesDescend /\ ~Walking
        BY DEF Built, IInv, Walking
      <4>4. CASE ClimbsFirst(z, w)
        <5>1. order[z] < order[w] /\ order[w] # 0
          BY <4>2, <4>4 DEF ClimbsFirst, Numbered
        <5>2. next[p] = <<idom[z], w>>
          BY <4>1, <4>4
        <5>3. Dom(z) = Dom(idom[z]) \cup {z}
          BY <5>1, <1>1, <1>2
        <5>4. \A d \in Blocks : d \in Dom(z) /\ d \in Dom(w) <=> d \in Dom(idom[z]) /\ d \in Dom(w)
          BY <4>2, <4>3, <5>1, <5>3, ClimbKeeps
        <5> QED
          BY <4>1, <5>2, <5>4 DEF Dom
      <4>5. CASE ~ClimbsFirst(z, w)
        <5>1. order[w] < order[z] /\ order[z] # 0
          BY <4>2, <4>5, <1>2 DEF ClimbsFirst, Numbered
        <5>2. next[p] = <<z, idom[w]>>
          BY <4>1, <4>5
        <5>3. Dom(w) = Dom(idom[w]) \cup {w}
          BY <5>1, <1>1, <1>2
        <5>4. \A d \in Blocks : d \in Dom(w) /\ d \in Dom(z) <=> d \in Dom(idom[w]) /\ d \in Dom(z)
          BY <4>2, <4>3, <5>1, <5>3, ClimbKeeps
        <5> QED
          BY <4>1, <5>2, <5>4 DEF Dom
      <4> QED
        BY <4>4, <4>5
    <3>6. ~Good(next[p])
      BY <3>1, <3>4, <3>5
    <3> HIDE DEF next, r, Good
    <3> QED
      BY <3>3, <3>6
  <2>2. Bad \in SUBSET S
    OBVIOUS
  <2> HIDE DEF Bad, S, r
  <2> QED
    BY <2>1, <2>2, <1>4, RankInduction
<1>12. <<x, y>> \in S /\ Good(<<x, y>>)
  BY <1>11
<1> QED
  BY <1>9, <1>12

-------------------------------------------------------------------------------
(* Branches, and what the analyses see of them.                            *)

\* Every branch of a numbered block is recorded for the analyses, not only for
\* the dominators, unless it leads back to a dominator.
TargetInv ==
  \A x \in Blocks : order[x] # 0 =>
    \A y \in Elements(func[x].targets) :
      x \in Elements(preceding[y]) \/ Dominates(VisitFlow(func), y, x)

\* What the resolution of a block adds to the edges which are not virtual.
LEMMA PrecedingResolved ==
  ASSUME TypeInv, StackInv, post_order_visit_resolve
  PROVE  \A y \in Blocks :
           /\ Elements(preceding[y]) \subseteq Elements(preceding'[y])
           /\ order[Top] = 0 /\ y \in BranchEdges(Top) => Top \in Elements(preceding'[y])
<1> DEFINE x == Top
           target == func[x].merge_block
           branched == add_branch(preceding, x, BranchEdges(x))
           implied == IF ImpliesMergeEdge(x, branched[target]) THEN {target} ELSE {}
<1>1. CASE order[x] # 0
  <2>1. preceding' = preceding
    BY <1>1 DEF post_order_visit_resolve, edges
  <2> QED
    BY <1>1, <2>1
<1>2. CASE order[x] = 0
  <2>1. preceding' = add_branch(branched, x, implied)
    BY <1>2 DEF post_order_visit_resolve
  <2>2. preceding \in [Blocks -> Seq(Ids)] /\ x \in Ids
    BY Resolved DEF TypeInv
  <2>3. /\ branched \in [Blocks -> Seq(Ids)]
        /\ \A y \in Blocks : \A z : z \in Elements(branched[y]) <=>
             z \in Elements(preceding[y]) \/ (z = x /\ y \in BranchEdges(x))
    BY <2>2, AddBranch
  <2> HIDE DEF x, branched, implied
  <2>4. \A y \in Blocks : \A z : z \in Elements(preceding'[y]) <=>
          z \in Elements(branched[y]) \/ (z = x /\ y \in implied)
    BY <2>1, <2>2, <2>3, AddBranch
  <2> QED
    BY <2>3, <2>4 DEF x
<1> QED
  BY <1>1, <1>2

LEMMA TargetStep ==
  ASSUME TypeInv, StackInv, OrderInv, StructureInv, TargetInv, [Next]_vars
  PROVE  TargetInv'
<1>1. func' = func /\ VisitFlow(func)' = VisitFlow(func)
  BY FuncKept, WithoutKept
<1>2. \A x \in Blocks : order[x] # 0 => x \in Ids
  BY DEF StructureInv, RecordInv
<1>3. \A x \in Ids : Elements(func[x].targets) \subseteq Elements(BranchesOf(x))
                     /\ Elements(func[x].targets) \subseteq Blocks
  BY Branches, VisitFlowIsBranches DEF TypeInv
<1>4. SUFFICES ASSUME NEW x \in Blocks, order'[x] # 0, NEW y \in Elements(func[x].targets)
               PROVE  x \in Elements(preceding'[y]) \/ Dominates(VisitFlow(func), y, x)
  <2>1. \A x, y : Dominates(VisitFlow(func), y, x)' <=> Dominates(VisitFlow(func), y, x)
    BY <1>1 DEF Dominates
  <2> QED
    BY <1>1, <1>4, <2>1 DEF TargetInv, Elements
<1>5. CASE ~post_order_visit_resolve
  <2>1. order' = order /\ preceding' = preceding
    BY <1>5 DEF Next, StartVisit, visit_branch, EndVisit, NextBlock, ResolveEdge, Climb, CommonDominator,
                vars, traversal, edges
  <2> QED
    BY <1>4, <2>1 DEF TargetInv
<1>6. CASE post_order_visit_resolve
  <2>1. CASE order[x] # 0
    <3>1. x \in Elements(preceding[y]) \/ Dominates(VisitFlow(func), y, x)
      BY <1>4, <2>1 DEF TargetInv
    <3>2. y \in Blocks
      BY <1>2, <1>3, <1>4, <2>1
    <3> QED
      BY <1>6, <3>1, <3>2, PrecedingResolved
  <2>2. CASE order[x] = 0
    <3>1. x = Top /\ order[Top] = 0 /\ phase = "resolve"
      BY <1>4, <1>6, <2>2, EntriesAfterResolve DEF post_order_visit_resolve
    <3>2. x \in Ids
      BY <3>1, <1>6, Resolved
    <3>3. y \in Blocks /\ y \in Elements(BranchesOf(x))
      BY <1>3, <1>4, <3>2
    <3>4. CASE is_back_edge(y)
      BY <3>1, <3>3, <3>4, BackEdgesAreDominated DEF StructureInv, FollowsRules
    <3>5. CASE ~is_back_edge(y)
      <4>1. y \in BranchEdges(Top)
        BY <1>4, <3>1, <3>5 DEF BranchEdges
      <4> QED
        BY <1>6, <3>1, <3>3, <4>1, PrecedingResolved
    <3> QED
      BY <3>4, <3>5
  <2> QED
    BY <2>1, <2>2
<1> QED
  BY <1>5, <1>6

LEMMA TargetInvariance == Spec /\ FollowsRules(func) => []TargetInv
<1>1. Init => TargetInv
  BY DEF Init, TargetInv
<1>2. IInv /\ StructureInv /\ TargetInv /\ [Next]_vars => TargetInv'
  BY TargetStep DEF IInv
<1> QED
  BY <1>1, <1>2, Invariance, StructureInvariance, PTL DEF Spec

-------------------------------------------------------------------------------
(* The search for the loop around a block ends.                            *)

\* Where the search for the loop around block y goes on.
IsBefore(y, p) ==
  preceding[y] # <<>> =>
    LET over == StepOver(y)
        k == IF over = {} THEN 1 ELSE CHOOSE i \in over : \A j \in over : i <= j
    IN p = preceding[y][k]

IsAbove(x, z) == z = NoBlock \/ (z \in Numbered /\ order[z] > order[x])

\* It goes on at a block which comes later in post order.
LEMMA BeforeIsAbove ==
  ASSUME Built, NEW y \in Blocks, preceding[y] # <<>>, NEW p, IsBefore(y, p)
  PROVE  p \in Blocks /\ y \in Numbered /\ p \in Numbered /\ order[y] < order[p]
<1> DEFINE over == StepOver(y)
           k == IF over = {} THEN 1 ELSE CHOOSE i \in over : \A j \in over : i <= j
<1>1. preceding[y] \in Seq(Ids) /\ Ids \subseteq Blocks /\ TypeInv /\ EdgesDescend
  BY Branches DEF Built, IInv, TypeInv
<1>2. k \in DOMAIN preceding[y]
  <2>1. CASE over = {}
    BY <1>1, <2>1
  <2>2. CASE over # {}
    <3>1. over \in SUBSET Nat /\ over \subseteq DOMAIN preceding[y]
      BY <1>1 DEF StepOver
    <3>2. \E i \in over : \A j \in over : i <= j
      BY <2>2, <3>1, LeastNatural
    <3> HIDE DEF over
    <3>3. (CHOOSE i \in over : \A j \in over : i <= j) \in over
      BY <3>2
    <3> QED
      BY <2>2, <3>1, <3>3
  <2> QED
    BY <2>1, <2>2
<1>3. p = preceding[y][k]
  BY DEF IsBefore
<1> HIDE DEF k
<1>4. p \in Elements(preceding[y]) /\ p \in Blocks
  BY <1>1, <1>2, <1>3 DEF Elements
<1>5. order[y] # 0 /\ order[y] < order[p] /\ order[y] \in Nat /\ order[p] \in Nat
  BY <1>1, <1>4 DEF EdgesDescend, TypeInv
<1> QED
  BY <1>4, <1>5 DEF Numbered

\* The recursion of find_loop_dominator is one: block p is where the search goes on
\* from block y.
LEMMA LoopSearchUnfolds ==
  ASSUME Built, NEW y \in Blocks
  PROVE  /\ preceding[y] = <<>> => find_loop_dominator(y) = NoBlock
         /\ preceding[y] # <<>> =>
              \E p \in Numbered :
                /\ IsBefore(y, p)
                /\ find_loop_dominator(y) = IF StepOver(y) = {} /\ func[p].merge = "loop" THEN p
                                            ELSE find_loop_dominator(p)
<1> DEFINE L == Len(post_order)
           P(z) == LET over == StepOver(z)
                       k == IF over = {} THEN 1 ELSE CHOOSE i \in over : \A j \in over : i <= j
                   IN preceding[z][k]
           Ends(z) == preceding[z] = <<>> \/ (StepOver(z) = {} /\ func[P(z)].merge = "loop")
           T == {z \in Blocks : Ends(z)}
           V == Blocks \cup {NoBlock}
           v == [z \in Blocks |-> IF preceding[z] = <<>> THEN NoBlock ELSE P(z)]
           next == [z \in Blocks |-> IF preceding[z] = <<>> THEN z ELSE P(z)]
           G == [q \in Blocks \X V |-> q[2]]
           r == [z \in Blocks |-> L - order[z]]
           Is(f) == f = [z \in Blocks |->
                      IF preceding[z] = <<>> THEN NoBlock
                      ELSE LET over == StepOver(z)
                               k == IF over = {} THEN 1 ELSE CHOOSE i \in over : \A j \in over : i <= j
                               p == preceding[z][k]
                           IN IF over = {} /\ func[p].merge = "loop" THEN p ELSE f[p]]
<1>1. \A z \in Blocks : preceding[z] # <<>> =>
        P(z) \in Blocks /\ z \in Numbered /\ P(z) \in Numbered /\ order[z] < order[P(z)]
  <2> SUFFICES ASSUME NEW z \in Blocks, preceding[z] # <<>>
               PROVE  P(z) \in Blocks /\ z \in Numbered /\ P(z) \in Numbered /\ order[z] < order[P(z)]
    OBVIOUS
  <2>1. IsBefore(z, P(z))
    BY DEF IsBefore
  <2> HIDE DEF P
  <2> QED
    BY <2>1, BeforeIsAbove
<1>2. L \in Nat /\ \A z \in Blocks : order[z] \in Nat /\ order[z] <= L
  BY TheTree
<1>3. \A f : Is(f) <=> f = [z \in Blocks |->
                         IF preceding[z] = <<>> THEN NoBlock
                         ELSE IF StepOver(z) = {} /\ func[P(z)].merge = "loop" THEN P(z) ELSE f[P(z)]]
  OBVIOUS
<1>p. \A z \in Blocks : preceding[z] # <<>> => IsBefore(z, P(z))
  BY DEF IsBefore
<1> HIDE DEF P
<1>4. IsRanked(Blocks, T, next, r)
  <2>1. next \in [Blocks -> Blocks] /\ r \in [Blocks -> Nat]
    BY <1>1, <1>2
  <2>2. ASSUME NEW z \in Blocks, z \notin T PROVE r[next[z]] < r[z]
    <3>1. preceding[z] # <<>> /\ next[z] = P(z)
      BY <2>2
    <3>2. P(z) \in Blocks /\ order[z] < order[P(z)]
      BY <1>1, <3>1
    <3> QED
      BY <1>2, <3>1, <3>2
  <2> HIDE DEF next, r, T
  <2> QED
    BY <2>1, <2>2 DEF IsRanked
<1>5. IsRecursion(Blocks, V, T, v, next, G, r)
  <2>1. v \in [Blocks -> V] /\ G \in [Blocks \X V -> V]
    BY <1>1
  <2> HIDE DEF T, v, next, G, r, V
  <2> QED
    BY <1>4, <2>1 DEF IsRecursion
<1>6. \E f : Is(f)
  <2>1. PICK f : Solves(f, Blocks, V, T, v, next, G)
    <3> HIDE DEF T, v, next, G, r, V
    <3> QED
      BY <1>5, RecursiveFunctionExists
  <2>2. f \in [Blocks -> V] /\ \A z \in Blocks : f[z] = IF z \in T THEN v[z] ELSE G[<<z, f[next[z]]>>]
    <3> HIDE DEF T, v, next, G, V
    <3> QED
      BY <2>1 DEF Solves
  <2>3. ASSUME NEW z \in Blocks
        PROVE  f[z] = IF preceding[z] = <<>> THEN NoBlock
                      ELSE IF StepOver(z) = {} /\ func[P(z)].merge = "loop" THEN P(z) ELSE f[P(z)]
    <3>1. CASE z \in T
      <4>1. f[z] = v[z]
        <5> HIDE DEF T, v, next, G, V
        <5> QED
          BY <2>2, <3>1
      <4> QED
        BY <3>1, <4>1
    <3>2. CASE z \notin T
      <4>1. f[z] = G[<<z, f[next[z]]>>]
        <5> HIDE DEF T, v, next, G, V
        <5> QED
          BY <2>2, <3>2
      <4>2. next[z] = P(z) /\ P(z) \in Blocks
        BY <1>1, <3>2
      <4>3. f[P(z)] \in V
        <5> HIDE DEF V
        <5> QED
          BY <2>2, <4>2
      <4>4. f[z] = f[P(z)]
        BY <4>1, <4>2, <4>3
      <4> QED
        BY <3>2, <4>4
    <3> QED
      BY <3>1, <3>2
  <2>4. f = [z \in Blocks |-> f[z]]
    <3> HIDE DEF V
    <3> QED
      BY <2>2
  <2>5. f = [z \in Blocks |-> IF preceding[z] = <<>> THEN NoBlock
               ELSE IF StepOver(z) = {} /\ func[P(z)].merge = "loop" THEN P(z) ELSE f[P(z)]]
    BY <2>3, <2>4
  <2> HIDE DEF Is
  <2> QED
    BY <1>3, <2>5
<1> DEFINE c == CHOOSE f : Is(f)
<1>7. Is(c)
  <2> HIDE DEF Is
  <2> QED
    BY <1>6
<1>8. \A z \in Blocks : find_loop_dominator(z) = c[z]
  BY DEF find_loop_dominator
<1>9. c = [z \in Blocks |-> IF preceding[z] = <<>> THEN NoBlock
               ELSE IF StepOver(z) = {} /\ func[P(z)].merge = "loop" THEN P(z) ELSE c[P(z)]]
  <2> HIDE DEF Is, c
  <2> QED
    BY <1>3, <1>7
<1> HIDE DEF c, Is
<1>10. \A z \in Blocks : c[z] = IF preceding[z] = <<>> THEN NoBlock
               ELSE IF StepOver(z) = {} /\ func[P(z)].merge = "loop" THEN P(z) ELSE c[P(z)]
  BY <1>9
<1>11. preceding[y] # <<>> => P(y) \in Numbered /\ P(y) \in Blocks /\ IsBefore(y, P(y))
  BY <1>1, <1>p
<1> QED
  BY <1>8, <1>10, <1>11

\* It ends, in a header which comes later in post order.
LEMMA LoopSearchEnds ==
  ASSUME Built, NEW x \in Blocks
  PROVE  IsAbove(x, find_loop_dominator(x))
<1> DEFINE r == [y \in Blocks |-> Len(post_order) - order[y]]
           Bad == {y \in Blocks : ~IsAbove(y, find_loop_dominator(y))}
<1>1. Len(post_order) \in Nat /\ \A y \in Blocks : order[y] \in Nat /\ order[y] <= Len(post_order)
  BY TheTree
<1>2. Bad = {}
  <2>1. ASSUME NEW y \in Bad PROVE \E q \in Bad : r[q] < r[y]
    <3>1. y \in Blocks /\ ~IsAbove(y, find_loop_dominator(y)) /\ preceding[y] # <<>>
      BY LoopSearchUnfolds DEF IsAbove
    <3>2. PICK p \in Numbered :
            /\ IsBefore(y, p)
            /\ find_loop_dominator(y) = IF StepOver(y) = {} /\ func[p].merge = "loop" THEN p
                                        ELSE find_loop_dominator(p)
      BY <3>1, LoopSearchUnfolds
    <3>3. p \in Blocks /\ order[y] < order[p] /\ order[y] \in Nat /\ order[p] \in Nat
      BY <1>1, <3>1, <3>2, BeforeIsAbove
    <3>4. ~IsAbove(p, find_loop_dominator(p))
      <4> SUFFICES ASSUME IsAbove(p, find_loop_dominator(p)) PROVE IsAbove(y, find_loop_dominator(y))
        BY <3>1
      <4>1. \A z \in Numbered : order[z] \in Nat
        BY <1>1 DEF Numbered
      <4> QED
        BY <3>2, <3>3, <4>1 DEF IsAbove
    <3> QED
      BY <1>1, <3>1, <3>3, <3>4
  <2>2. r \in [Blocks -> Nat] /\ Bad \in SUBSET Blocks
    BY <1>1
  <2> HIDE DEF Bad, r
  <2> QED
    BY <2>1, <2>2, RankInduction
<1> QED
  BY <1>2

-------------------------------------------------------------------------------
(* Dominance, along a flow.                                                *)

\* What is reached is reached without a block which is not.
LEMMA DominatorIsReached ==
  ASSUME NEW flow \in SUBSET (Blocks \X Blocks), Entry \in Blocks, NoBlock \notin Blocks,
         NEW d, NEW z \in ReachableWithout(flow, NoBlock), z \notin ReachableWithout(flow, d)
  PROVE  d \in ReachableWithout(flow, NoBlock)
<1> DEFINE A == ReachableWithout(flow, NoBlock)
           R == ReachableWithout(flow, d)
           S == A \cap R
<1> SUFFICES ASSUME d \notin A PROVE FALSE
  OBVIOUS
<1>1. Entry \in A /\ IsClosedWithout(flow, NoBlock, A)
  BY ReachableIsClosed
<1>2. Entry \in R /\ IsClosedWithout(flow, d, R)
  <2>1. (Entry # d => Entry \in R) /\ IsClosedWithout(flow, d, R)
    BY ReachableIsClosed
  <2> QED
    BY <1>1, <2>1
<1> HIDE DEF A, R
<1>3. Entry \in S /\ IsClosedWithout(flow, NoBlock, S)
  BY <1>1, <1>2 DEF IsClosedWithout
<1> HIDE DEF S
<1>4. A \subseteq S
  BY <1>3, ReachableIsLeast DEF A
<1> QED
  BY <1>4 DEF S, A, R

\* Two blocks which dominate a block dominate each other, one way.
LEMMA DominatorsAreAChain ==
  ASSUME NEW flow \in SUBSET (Blocks \X Blocks), Entry \in Blocks, NoBlock \notin Blocks,
         NEW c, NEW d, c # d, NEW z \in ReachableWithout(flow, NoBlock),
         z \notin ReachableWithout(flow, c), z \notin ReachableWithout(flow, d)
  PROVE  c \notin ReachableWithout(flow, d) \/ d \notin ReachableWithout(flow, c)
<1> DEFINE C == ReachableWithout(flow, c)
           D == ReachableWithout(flow, d)
           S == C \cup D
<1> SUFFICES ASSUME c \in D, d \in C PROVE FALSE
  OBVIOUS
<1>1. IsClosedWithout(flow, c, C) /\ (Entry # c => Entry \in C)
  BY ReachableIsClosed
<1>2. IsClosedWithout(flow, d, D) /\ (Entry # d => Entry \in D)
  BY ReachableIsClosed
<1> HIDE DEF C, D
<1>3. Entry \in S /\ IsClosedWithout(flow, NoBlock, S)
  BY <1>1, <1>2 DEF IsClosedWithout
<1> HIDE DEF S
<1>4. ReachableWithout(flow, NoBlock) \subseteq S
  BY <1>3, ReachableIsLeast
<1> QED
  BY <1>4 DEF S, C, D

\* Two blocks do not dominate each other.
LEMMA DominanceIsAntisymmetric ==
  ASSUME NEW flow \in SUBSET (Blocks \X Blocks), Entry \in Blocks, NoBlock \notin Blocks,
         NEW c, NEW d \in ReachableWithout(flow, NoBlock),
         c \notin ReachableWithout(flow, d), d \notin ReachableWithout(flow, c)
  PROVE  c = d
<1> DEFINE C == ReachableWithout(flow, c)
           D == ReachableWithout(flow, d)
<1> SUFFICES ASSUME c # d PROVE FALSE
  OBVIOUS
<1>1. C \subseteq D /\ D \subseteq C
  BY DominanceIsTransitive
<1>2. IsClosedWithout(flow, c, C) /\ (Entry # c => Entry \in C)
  BY ReachableIsClosed
<1>3. IsClosedWithout(flow, d, D) /\ (Entry # d => Entry \in D)
  BY ReachableIsClosed
<1> HIDE DEF C, D
<1>4. Entry \in C /\ IsClosedWithout(flow, NoBlock, C)
  BY <1>1, <1>2, <1>3 DEF IsClosedWithout
<1>5. ReachableWithout(flow, NoBlock) \subseteq C
  BY <1>4, ReachableIsLeast
<1> QED
  BY <1>5 DEF C

-------------------------------------------------------------------------------
(* The flow of the program, of the traversal and of the structure.         *)

Structural(d) == ReachableWithout(StructuralFlow, d)

Real(d) == ReachableWithout(RealFlow, d)

LEMMA FlowsNest ==
  ASSUME Built, StructureInv
  PROVE  /\ Entry \in Blocks /\ NoBlock \notin Blocks /\ Ids \subseteq Blocks
         /\ RealFlow \in SUBSET (Blocks \X Blocks) /\ VisitFlow(func) \in SUBSET (Blocks \X Blocks)
         /\ StructuralFlow \in SUBSET (Blocks \X Blocks)
         /\ RealFlow \subseteq VisitFlow(func) /\ VisitFlow(func) \subseteq StructuralFlow
         /\ \A d : Real(d) \subseteq Without(d) /\ Without(d) \subseteq Structural(d)
         /\ Numbered = Without(NoBlock) /\ Reached \subseteq Numbered /\ Numbered \subseteq Ids
         /\ Numbered \subseteq Structural(NoBlock)
<1>1. /\ TypeInv /\ OrderInv /\ DomInv /\ RecordInv /\ ReachInv /\ phase = "done" /\ IInv
  BY DEF Built, IInv, StructureInv
<1>2. Entry \in Ids /\ NoBlock \notin Blocks /\ Ids \subseteq Blocks /\ func \in Functions
  BY <1>1, Branches DEF TypeInv
<1>3. \A x \in Ids : /\ Elements(func[x].targets) \subseteq Ids
                     /\ func[x].merge # "none" => func[x].merge_block \in Ids
                     /\ func[x].merge = "loop" => func[x].continue_block \in Ids
  BY <1>2, FunctionsAssumption DEF Ids, BlockOK, Elements
<1>4. RealFlow \in SUBSET (Ids \X Ids)
  BY <1>3 DEF RealFlow, Ids
<1>5. VisitFlow(func) \in SUBSET (Ids \X Ids)
  BY <1>2, VisitFlowIsBranches
<1>6. StructuralFlow \in SUBSET (Ids \X Ids)
  BY <1>3 DEF StructuralFlow, StructuralFlowOf, Ids
<1>7. RealFlow \subseteq VisitFlow(func)
  BY DEF RealFlow, VisitFlow
<1>8. VisitFlow(func) \subseteq StructuralFlow
  BY DEF StructuralFlow, StructuralFlowOf, VisitFlow
<1>9. /\ RealFlow \in SUBSET (Blocks \X Blocks) /\ VisitFlow(func) \in SUBSET (Blocks \X Blocks)
      /\ StructuralFlow \in SUBSET (Blocks \X Blocks)
  BY <1>2, <1>4, <1>5, <1>6
<1>10. \A d : Real(d) \subseteq Without(d) /\ Without(d) \subseteq Structural(d)
  BY <1>2, <1>7, <1>8, <1>9, ReachableGrows DEF Real, Without, Structural
<1>11. Numbered \subseteq Ids
  BY <1>1 DEF RecordInv, Numbered
<1>12. Numbered = Without(NoBlock)
  <2>1. Without(NoBlock) \subseteq Numbered
    BY <1>1, RecordedFlowIsVisitFlow
  <2>2. Numbered \subseteq visited
    BY <1>1 DEF Numbered, OrderInv
  <2>3. visited \subseteq Blocks
    BY <1>1, <1>2 DEF TypeInv
  <2>4. visited \subseteq Without(NoBlock)
    BY <1>1, <1>2, <2>3 DEF ReachInv
  <2> QED
    BY <2>1, <2>2, <2>4
<1> QED
  BY <1>2, <1>7, <1>8, <1>9, <1>10, <1>11, <1>12 DEF Reached, Real

\* The edges of the flows.
LEMMA FlowEdges ==
  /\ \A x, y : <<x, y>> \in RealFlow <=> x \in Ids /\ y \in Elements(func[x].targets)
  /\ \A x \in Ids : func[x].merge # "none" => <<x, func[x].merge_block>> \in VisitFlow(func)
  /\ \A x \in Ids : func[x].merge = "loop" => <<x, func[x].continue_block>> \in StructuralFlow
<1>1. \A x, y : <<x, y>> \in RealFlow <=> x \in Ids /\ y \in Elements(func[x].targets)
  BY DEF RealFlow, Ids
<1>2. ASSUME NEW x \in Ids, func[x].merge # "none" PROVE <<x, func[x].merge_block>> \in VisitFlow(func)
  BY <1>2 DEF VisitFlow, Ids
<1>3. ASSUME NEW x \in Ids, func[x].merge = "loop" PROVE <<x, func[x].continue_block>> \in StructuralFlow
  BY <1>3 DEF StructuralFlow, StructuralFlowOf, Ids
<1> QED
  BY <1>1, <1>2, <1>3

LEMMA DomIsWithout ==
  ASSUME Built, StructureInv, NEW x \in Blocks, NEW d \in Blocks
  PROVE  d \in Dom(x) <=> x \notin Without(d)
BY RecordedFlowIsVisitFlow DEF Built, Dom, Dominates

\* What dominates along more edges dominates along fewer, and what dominates a
\* block with a number has one.
LEMMA DominatorIsNumbered ==
  ASSUME Built, StructureInv, NEW x \in Numbered, NEW d, x \notin Without(d)
  PROVE  d \in Numbered
<1>1. /\ Entry \in Blocks /\ NoBlock \notin Blocks /\ VisitFlow(func) \in SUBSET (Blocks \X Blocks)
      /\ Numbered = Without(NoBlock)
  BY FlowsNest
<1> QED
  BY <1>1, DominatorIsReached DEF Without

LEMMA NumberedAntisymmetric ==
  ASSUME Built, StructureInv, NEW x, NEW y \in Numbered, x \notin Without(y), y \notin Without(x)
  PROVE  x = y
<1>1. /\ Entry \in Blocks /\ NoBlock \notin Blocks /\ VisitFlow(func) \in SUBSET (Blocks \X Blocks)
      /\ Numbered = Without(NoBlock)
  BY FlowsNest
<1> QED
  BY <1>1, DominanceIsAntisymmetric DEF Without

\* Block x dominates block y, block y dominates block z.
LEMMA NumberedTransitive ==
  ASSUME Built, StructureInv, NEW x, NEW y, NEW z, y \notin Without(x), z \notin Without(y)
  PROVE  z \notin Without(x)
<1>1. Entry \in Blocks /\ VisitFlow(func) \in SUBSET (Blocks \X Blocks)
  BY FlowsNest
<1>2. CASE x = y
  BY <1>2
<1>3. CASE x # y
  BY <1>1, <1>3, DominanceIsTransitive DEF Without
<1> QED
  BY <1>2, <1>3

LEMMA StructuralTransitive ==
  ASSUME Built, StructureInv, NEW x, NEW y, NEW z, y \notin Structural(x), z \notin Structural(y)
  PROVE  z \notin Structural(x)
<1>1. Entry \in Blocks /\ StructuralFlow \in SUBSET (Blocks \X Blocks)
  BY FlowsNest
<1>2. CASE x = y
  BY <1>2
<1>3. CASE x # y
  BY <1>1, <1>3, DominanceIsTransitive DEF Structural
<1> QED
  BY <1>2, <1>3

\* A construct holds its header, which dominates it, and not its merge block.
LEMMA ConstructIsDominated ==
  ASSUME Built, StructureInv, NEW h \in Ids, func[h].merge # "none"
  PROVE  /\ h \in Numbered => h \in Construct(h)
         /\ func[h].merge_block \notin Construct(h) /\ func[h].merge_block \notin Without(h)
         /\ h # func[h].merge_block
         /\ \A x \in Construct(h) : /\ x \in Ids /\ x \notin Structural(h) /\ x \notin Without(h)
                                    /\ x \in Structural(func[h].merge_block)
                                    /\ x \in Numbered => h \in Numbered
<1> DEFINE m == func[h].merge_block
<1>1. /\ Entry \in Blocks /\ NoBlock \notin Blocks /\ StructuralFlow \in SUBSET (Blocks \X Blocks)
      /\ \A d : Without(d) \subseteq Structural(d)
  BY FlowsNest
<1>2. /\ \A x : x \in Construct(h) <=> x \in Ids /\ x \notin Structural(h) /\ x \in Structural(m)
  BY DEF Construct, ConstructOf, Structural, StructuralFlow, Ids
<1>3. \A d : d \notin Structural(d)
  BY <1>1, ReachableIsClosed DEF Structural
<1>4. m \notin Without(h) /\ h # m
  BY DEF StructureInv, FollowsRules, MergesAreDominated, Dominates, Without, Ids
<1>5. ASSUME h \in Numbered PROVE h \in Construct(h)
  <2>1. h \in Without(m)
    BY <1>4, <1>5, NumberedAntisymmetric
  <2> QED
    BY <1>1, <1>2, <1>3, <2>1
<1>6. ASSUME NEW x \in Construct(h)
      PROVE  /\ x \in Ids /\ x \notin Structural(h) /\ x \notin Without(h) /\ x \in Structural(m)
             /\ x \in Numbered => h \in Numbered
  BY <1>1, <1>2, <1>6, DominatorIsNumbered
<1> QED
  BY <1>2, <1>3, <1>4, <1>5, <1>6

-------------------------------------------------------------------------------
(* Rules about constructs, and what a function which follows them keeps.   *)

LEMMA ClosedInvariance == Spec /\ LoopsAreClosed(func) => []LoopsAreClosed(func)
<1>1. LoopsAreClosed(func) /\ [Next]_vars => LoopsAreClosed(func)'
  <2> SUFFICES ASSUME LoopsAreClosed(func), [Next]_vars PROVE LoopsAreClosed(func)'
    OBVIOUS
  <2>1. func' = func
    BY FuncKept
  <2> QED
    BY <2>1 DEF LoopsAreClosed, ConstructOf, StructuralFlowOf
<1> QED
  BY <1>1, PTL DEF Spec

\* What a loop construct may be left to, and where it is entered.
LEMMA LoopIsClosed ==
  ASSUME Built, StructureInv, LoopsAreClosed(func), NEW h \in Ids, func[h].merge = "loop"
  PROVE  /\ func[h].continue_block \in Construct(h)
         /\ \A x \in Structural(NoBlock) : \A y : <<x, y>> \in StructuralFlow =>
              /\ x \in Construct(h) => y \in Construct(h) \cup {func[h].merge_block}
              /\ y \in Construct(h) \ {h} => x \in Construct(h)
<1>1. \A g \in DOMAIN func : func[g].merge = "loop" =>
        /\ func[g].continue_block \in Construct(g)
        /\ \A e \in StructuralFlow : e[1] \in Structural(NoBlock) =>
             /\ e[1] \in Construct(g) => e[2] \in Construct(g) \cup {func[g].merge_block}
             /\ e[2] \in Construct(g) \ {g} => e[1] \in Construct(g)
  BY DEF LoopsAreClosed, Construct, StructuralFlow, Structural
<1>2. h \in DOMAIN func
  BY DEF Ids
<1>3. ASSUME NEW x \in Structural(NoBlock), NEW y, <<x, y>> \in StructuralFlow
      PROVE  /\ x \in Construct(h) => y \in Construct(h) \cup {func[h].merge_block}
             /\ y \in Construct(h) \ {h} => x \in Construct(h)
  <2> DEFINE e == <<x, y>>
  <2>1. e \in StructuralFlow /\ e[1] = x /\ e[2] = y
    BY <1>3
  <2> HIDE DEF e
  <2> QED
    BY <1>1, <1>2, <1>3, <2>1
<1> QED
  BY <1>1, <1>2, <1>3

LEMMA UniqueInvariance == Spec /\ TargetsAreUnique(func) => []TargetsAreUnique(func)
<1>1. TargetsAreUnique(func) /\ [Next]_vars => TargetsAreUnique(func)'
  <2> SUFFICES ASSUME TargetsAreUnique(func), [Next]_vars PROVE TargetsAreUnique(func)'
    OBVIOUS
  <2>1. func' = func
    BY FuncKept
  <2> QED
    BY <2>1 DEF TargetsAreUnique
<1> QED
  BY <1>1, PTL DEF Spec

LEMMA BackEdgesInvariance == Spec /\ BackEdgesStayInLoops(func) => []BackEdgesStayInLoops(func)
<1>1. BackEdgesStayInLoops(func) /\ [Next]_vars => BackEdgesStayInLoops(func)'
  <2> SUFFICES ASSUME BackEdgesStayInLoops(func), [Next]_vars PROVE BackEdgesStayInLoops(func)'
    OBVIOUS
  <2>1. func' = func
    BY FuncKept
  <2> QED
    BY <2>1 DEF BackEdgesStayInLoops, ConstructOf, StructuralFlowOf
<1> QED
  BY <1>1, PTL DEF Spec

\* A branch to a dominator is one of the loop to its header.
LEMMA BackEdges ==
  ASSUME Built, StructureInv, BackEdgesStayInLoops(func), NEW x \in Numbered, NEW y, <<x, y>> \in RealFlow,
         x \notin Without(y)
  PROVE  func[y].merge = "loop" /\ x \in Construct(y)
<1>1. Numbered = Without(NoBlock) /\ RealFlow \subseteq VisitFlow(func)
  BY FlowsNest
<1> DEFINE e == <<x, y>>
<1>2. e \in VisitFlow(func) /\ e[1] = x /\ e[2] = y
  BY <1>1
<1> HIDE DEF e
<1>3. e[1] \in ReachableWithout(VisitFlow(func), NoBlock) /\ Dominates(VisitFlow(func), e[2], e[1])
  BY <1>1, <1>2 DEF Without, Dominates
<1>4. func[e[2]].merge = "loop" /\ e[1] \in ConstructOf(func, e[2])
  BY <1>2, <1>3 DEF BackEdgesStayInLoops
<1> QED
  BY <1>2, <1>4 DEF Construct

-------------------------------------------------------------------------------
(* The loop around a block.                                                *)

\* A loop header leads to its merge block, and dominance adds no first edge.
PrecedingInv ==
  /\ \A h \in Blocks : order[h] # 0 /\ func[h].merge = "loop" => h \in Elements(preceding[func[h].merge_block])
  /\ \A y \in Blocks : virtual_preceding[y] # <<>> => preceding[y] # <<>>

\* A block which is resolved adds the first edge into its merge block for the
\* analyses, too.
LEMMA VirtualResolved ==
  ASSUME TypeInv, StackInv, post_order_visit_resolve, order[Top] = 0,
         NEW y \in Blocks, virtual_preceding'[y] # <<>>, virtual_preceding[y] = <<>>
  PROVE  preceding'[y] # <<>>
<1> DEFINE x == Top
           target == func[x].merge_block
           branched == add_branch(preceding, x, BranchEdges(x))
           implied == IF ImpliesMergeEdge(x, branched[target]) THEN {target} ELSE {}
           fixed == IF HasSelectionMerge(x) THEN {target} ELSE {}
<1>1. /\ preceding' = add_branch(branched, x, implied)
      /\ virtual_preceding' = add_branch(virtual_preceding, x, fixed)
  BY DEF post_order_visit_resolve, add_virtual_dominance_branch
<1>2. preceding \in [Blocks -> Seq(Ids)] /\ virtual_preceding \in [Blocks -> Seq(Ids)] /\ x \in Ids
  BY Resolved DEF TypeInv
<1>3. branched \in [Blocks -> Seq(Ids)]
  BY <1>2, AddBranch
<1>4. ASSUME y \notin fixed PROVE FALSE
  <2>1. virtual_preceding'[y] = virtual_preceding[y]
    <3> HIDE DEF x, fixed
    <3> QED
      BY <1>1, <1>4 DEF add_branch
  <2> QED
    BY <2>1
<1>5. y = target /\ HasSelectionMerge(x)
  BY <1>4
<1>6. CASE branched[y] # <<>>
  <2> HIDE DEF x, branched, implied, fixed
  <2>1. preceding'[y] \in {branched[y], Append(branched[y], x)}
    BY <1>1 DEF add_branch
  <2>2. branched[y] \in Seq(Ids)
    BY <1>3
  <2> QED
    BY <1>6, <2>1, <2>2
<1>7. CASE branched[y] = <<>>
  <2>1. y \in implied
    BY <1>5, <1>7 DEF ImpliesMergeEdge
  <2> HIDE DEF x, branched, implied, fixed
  <2>2. x \in Elements(preceding'[y])
    BY <1>1, <1>2, <1>3, <2>1, AddBranch
  <2> QED
    BY <2>2 DEF Elements
<1> QED
  BY <1>6, <1>7

LEMMA PrecedingStep ==
  ASSUME TypeInv, StackInv, OrderInv, StructureInv, PrecedingInv, [Next]_vars
  PROVE  PrecedingInv'
<1>1. func' = func
  BY FuncKept
<1>2. CASE ~post_order_visit_resolve
  <2>1. order' = order /\ preceding' = preceding /\ virtual_preceding' = virtual_preceding
    BY <1>2 DEF Next, StartVisit, visit_branch, EndVisit, NextBlock, ResolveEdge, Climb, CommonDominator,
                vars, traversal, edges
  <2> QED
    BY <1>1, <2>1 DEF PrecedingInv, Elements
<1>3. CASE post_order_visit_resolve
  <2>1. /\ Top \in Ids /\ Ids \subseteq Blocks
        /\ order[Top] # 0 => UNCHANGED <<order, post_order, preceding, virtual_preceding>>
        /\ preceding' \in [Blocks -> Seq(Ids)] /\ preceding \in [Blocks -> Seq(Ids)]
    BY <1>3, Resolved, Positions DEF TypeInv
  <2>2. \A y \in Blocks : Elements(preceding[y]) \subseteq Elements(preceding'[y])
    BY <1>3, PrecedingResolved
  <2>3. ASSUME NEW y \in Blocks, preceding[y] # <<>> PROVE preceding'[y] # <<>>
    <3>1. preceding[y] \in Seq(Ids)
      BY <2>1
    <3>2. Elements(preceding[y]) # {}
      <4> DEFINE s == preceding[y]
      <4>1. s[1] \in Elements(s)
        <5> HIDE DEF s
        <5>1. s \in Seq(Ids) /\ s # <<>>
          BY <3>1, <2>3 DEF s
        <5>2. 1 \in DOMAIN s
          BY <5>1
        <5> QED
          BY <5>2 DEF Elements
      <4> QED
        BY <4>1
    <3>3. Elements(preceding'[y]) # {}
      BY <2>2, <3>2
    <3> QED
      BY <3>3 DEF Elements
  <2>4. ASSUME NEW y \in Blocks, virtual_preceding'[y] # <<>> PROVE preceding'[y] # <<>>
    <3>1. CASE virtual_preceding[y] # <<>>
      BY <2>3, <3>1 DEF PrecedingInv
    <3>2. CASE virtual_preceding[y] = <<>>
      <4>1. order[Top] = 0
        BY <2>1, <2>4, <3>2
      <4> QED
        BY <1>3, <2>4, <3>2, <4>1, VirtualResolved
    <3> QED
      BY <3>1, <3>2
  <2>5. ASSUME NEW h \in Blocks, order'[h] # 0, func[h].merge = "loop", NEW target, target = func[h].merge_block
        PROVE  h \in Elements(preceding'[target])
    <3>1. h \in Ids => target \in Blocks
      BY <2>1, <2>5, FunctionsAssumption DEF TypeInv, Ids, BlockOK
    <3>2. CASE order[h] # 0
      <4>1. h \in Ids /\ h \in Elements(preceding[target])
        BY <2>5, <3>2 DEF PrecedingInv, StructureInv, RecordInv
      <4> QED
        BY <2>2, <3>1, <4>1
    <3>3. CASE order[h] = 0
      <4>1. h = Top /\ order[Top] = 0 /\ phase = "resolve"
        BY <2>5, <1>3, <3>3, EntriesAfterResolve DEF post_order_visit_resolve
      <4>2. ASSUME is_back_edge(target) PROVE FALSE
        <5>1. PICK k \in DOMAIN visit_stack : Open(k) /\ visit_stack[k] = target
          BY <4>2 DEF is_back_edge, OnStackInv, StructureInv
        <5>2. k <= Len(visit_stack)
          BY Positions
        <5>3. /\ Len(visit_stack) \in DOMAIN visit_stack /\ visit_stack[Len(visit_stack)] = h
              /\ Open(Len(visit_stack))
          BY <4>1, TopIsOpen DEF StructureInv
        <5>4. func[visit_stack[Len(visit_stack)]].merge # "none"
          BY <2>5, <5>3
        <5> QED
          BY <2>5, <5>1, <5>2, <5>3, <5>4, MergeIsNotBelow DEF FollowsRules, StructureInv
      <4>3. target \in BranchEdges(Top)
        BY <2>5, <4>1, <4>2 DEF BranchEdges
      <4> QED
        BY <1>3, <2>1, <3>1, <4>1, <4>3, PrecedingResolved
    <3> QED
      BY <3>2, <3>3
  <2>6. /\ \A h \in Blocks : order'[h] # 0 /\ func'[h].merge = "loop" => h \in Elements(preceding'[func'[h].merge_block])
        /\ \A y \in Blocks : virtual_preceding'[y] # <<>> => preceding'[y] # <<>>
    BY <1>1, <2>4, <2>5
  <2> QED
    BY <2>6 DEF PrecedingInv, Elements
<1> QED
  BY <1>2, <1>3

LEMMA PrecedingInvariance == Spec /\ FollowsRules(func) => []PrecedingInv
<1>1. Init => PrecedingInv
  BY DEF Init, PrecedingInv
<1>2. IInv /\ StructureInv /\ PrecedingInv /\ [Next]_vars => PrecedingInv'
  BY PrecedingStep DEF IInv
<1> QED
  BY <1>1, <1>2, Invariance, StructureInvariance, PTL DEF Spec

\* A block of the CFG without edges into it is the entry.
LEMMA OnlyEntryHasNoEdges ==
  ASSUME Built, PrecedingInv, NEW y \in Numbered, preceding[y] = <<>>
  PROVE  y = Entry
<1> SUFFICES ASSUME y # Entry PROVE FALSE
  OBVIOUS
<1>1. TypeInv /\ OrderInv /\ StackInv /\ FedInv /\ ~Walking /\ y \in Blocks /\ order[y] # 0
  BY DEF Built, IInv, Walking, Numbered
<1>2. EdgeSet(y) # {}
  <2>1. ~Pending(y)
    BY <1>1 DEF StackInv, Pending
  <2>2. y \in visited
    BY <1>1 DEF OrderInv
  <2> QED
    BY <1>1, <2>1, <2>2 DEF FedInv
<1>3. virtual_preceding[y] = <<>>
  BY <1>1 DEF PrecedingInv
<1> QED
  BY <1>2, <1>3 DEF EdgeSet, Elements

\* The loops around a block, and the innermost of them.
LoopsAround(x) == {h \in Headers("loop") : h # x /\ x \in Construct(h)}

Innermost(x, l) ==
  IF LoopsAround(x) = {} THEN l = NoBlock
  ELSE l \in LoopsAround(x) /\ \A h \in LoopsAround(x) : l \in Construct(h)

\* What dominates a block comes later in post order.
LEMMA DominatorIsLater ==
  ASSUME Built, StructureInv, NEW x \in Numbered, NEW d, x \notin Without(d)
  PROVE  d \in Numbered /\ order[d] \in Nat /\ order[x] \in Nat /\ order[d] >= order[x]
<1>1. d \in Numbered
  BY DominatorIsNumbered
<1>2. x \in Blocks /\ d \in Blocks /\ order[x] # 0 /\ order[d] \in Nat /\ order[x] \in Nat
  BY <1>1, TheTree DEF Numbered
<1>3. d \in Dom(x)
  BY <1>2, DomIsWithout
<1>4. TypeInv /\ OrderInv /\ StackInv /\ FedInv /\ EdgesDescend /\ ~Walking
  BY DEF Built, IInv, Walking
<1> QED
  BY <1>1, <1>2, <1>3, <1>4, DomComesLater

\* An edge which the analyses see stays in a loop, or leads to its merge block, and
\* never to its header.
LEMMA EdgesAndLoops ==
  ASSUME Built, StructureInv, LoopsAreClosed(func), NEW y \in Blocks, NEW p \in Elements(preceding[y]),
         NEW g \in Headers("loop")
  PROVE  /\ g \in Ids /\ func[g].merge = "loop" /\ p \in Numbered /\ y \in Numbered /\ p # y
         /\ y \in Construct(g) /\ y # g => p \in Construct(g)
         /\ p \in Construct(g) => g \in Numbered /\ y # g /\ y \in Construct(g) \cup {func[g].merge_block}
<1>1. /\ VisitFlow(func) \in SUBSET (Blocks \X Blocks) /\ VisitFlow(func) \subseteq StructuralFlow
      /\ Numbered \subseteq Structural(NoBlock)
  BY FlowsNest
<1>2. order[y] # 0 /\ order[y] < order[p] /\ order[y] \in Nat /\ <<p, y>> \in VisitFlow(func)
  BY TheTree DEF Built, IInv, EdgesDescend, StructureInv, OnlyBranchesInv, EdgeSet
<1>3. p \in Blocks /\ y \in Numbered
  BY <1>1, <1>2 DEF Numbered
<1>4. order[p] \in Nat /\ p \in Numbered /\ p # y
  BY <1>2, <1>3, TheTree DEF Numbered
<1>5. g \in Ids /\ func[g].merge = "loop"
  BY DEF Headers, Ids
<1>6. p \in Structural(NoBlock) /\ <<p, y>> \in StructuralFlow
  BY <1>1, <1>2, <1>4
<1>7. /\ p \in Construct(g) => y \in Construct(g) \cup {func[g].merge_block}
      /\ y \in Construct(g) \ {g} => p \in Construct(g)
  BY <1>5, <1>6, LoopIsClosed
<1>8. ASSUME p \in Construct(g) PROVE g \in Numbered /\ y # g
  <2>1. p \notin Without(g)
    BY <1>5, <1>8, ConstructIsDominated
  <2>2. g \in Numbered /\ order[g] \in Nat /\ order[g] >= order[p]
    BY <1>4, <2>1, DominatorIsLater
  <2> QED
    BY <1>2, <1>4, <2>2
<1> QED
  BY <1>3, <1>4, <1>5, <1>7, <1>8

\* One step of the search for the loop around a block.
LEMMA SearchKeepsTheLoops ==
  ASSUME Built, StructureInv, PrecedingInv, LoopsAreClosed(func), TargetsAreUnique(func),
         NEW y \in Numbered, preceding[y] # <<>>, NEW p \in Numbered, IsBefore(y, p)
  PROVE  IF StepOver(y) = {} /\ func[p].merge = "loop" THEN Innermost(y, p) ELSE LoopsAround(y) = LoopsAround(p)
<1> DEFINE over == StepOver(y)
           k == IF over = {} THEN 1 ELSE CHOOSE i \in over : \A j \in over : i <= j
<1>1. y \in Blocks /\ preceding[y] \in Seq(Ids) /\ preceding \in [Blocks -> Seq(Ids)]
  BY DEF Built, IInv, TypeInv, Numbered
<1>2. over = {i \in DOMAIN preceding[y] : LET q == func[preceding[y][i]] IN q.merge # "none" /\ q.merge_block = y}
  BY DEF StepOver
<1>3. k \in DOMAIN preceding[y] /\ (over # {} => k \in over) /\ p = preceding[y][k]
  <2>1. p = preceding[y][k]
    BY DEF IsBefore
  <2>2. CASE over = {}
    BY <1>1, <2>1, <2>2
  <2>3. CASE over # {}
    <3>1. over \in SUBSET Nat /\ over \subseteq DOMAIN preceding[y]
      BY <1>1, <1>2
    <3>2. \E i \in over : \A j \in over : i <= j
      BY <2>3, <3>1, LeastNatural
    <3> HIDE DEF over
    <3>3. (CHOOSE i \in over : \A j \in over : i <= j) \in over
      BY <3>2
    <3> QED
      BY <2>1, <2>3, <3>1, <3>3
  <2> QED
    BY <2>2, <2>3
<1>4. /\ p \in Elements(preceding[y])
      /\ over # {} => func[p].merge # "none" /\ func[p].merge_block = y
      /\ \A q \in Elements(preceding[y]) : func[q].merge # "none" /\ func[q].merge_block = y => over # {}
  <2> HIDE DEF k
  <2> QED
    BY <1>2, <1>3 DEF Elements
<1> HIDE DEF over, k
<1>5. p \in Ids /\ p # y
  <2>1. Numbered \subseteq Ids
    BY FlowsNest
  <2>2. IsBefore(y, p) => order[y] < order[p]
    BY <1>1, BeforeIsAbove
  <2>3. order[y] \in Nat
    BY <1>1, TheTree
  <2> QED
    BY <2>1, <2>2, <2>3
<1>6. ASSUME NEW g \in LoopsAround(y) PROVE g \in Headers("loop") /\ p \in Construct(g)
  BY <1>1, <1>4, <1>6, EdgesAndLoops DEF LoopsAround
<1>7. ASSUME NEW g \in LoopsAround(p)
      PROVE  /\ g \in Headers("loop") /\ g \in Numbered /\ y # g /\ y \in Construct(g) \cup {func[g].merge_block}
             /\ g # p
  BY <1>1, <1>4, <1>7, EdgesAndLoops DEF LoopsAround
<1>8. CASE over # {}
  <2>1. ASSUME NEW g \in LoopsAround(y) PROVE g \in LoopsAround(p)
    <3>1. y \in Construct(g) /\ g \in Ids /\ func[g].merge # "none"
      BY <2>1 DEF LoopsAround, Headers, Ids
    <3>2. func[g].merge_block \notin Construct(g)
      BY <3>1, ConstructIsDominated
    <3>3. g # p
      BY <1>4, <1>8, <3>1, <3>2
    <3> QED
      BY <1>6, <2>1, <3>3 DEF LoopsAround
  <2>2. ASSUME NEW g \in LoopsAround(p) PROVE g \in LoopsAround(y)
    <3>1. ASSUME y = func[g].merge_block PROVE FALSE
      <4>1. g \in DOMAIN func /\ p \in DOMAIN func /\ func[g].merge # "none" /\ func[p].merge # "none"
        BY <1>4, <1>5, <1>8, <2>2 DEF LoopsAround, Headers, Ids
      <4>2. g # p /\ func[g].merge_block = func[p].merge_block
        BY <1>4, <1>7, <1>8, <2>2, <3>1
      <4> QED
        BY <4>1, <4>2 DEF TargetsAreUnique
    <3> QED
      BY <1>7, <2>2, <3>1 DEF LoopsAround
  <2>3. LoopsAround(y) = LoopsAround(p)
    BY <2>1, <2>2
  <2> QED
    BY <1>8, <2>3 DEF over
<1>9. CASE over = {} /\ func[p].merge = "loop"
  <2>1. p \in Headers("loop") /\ p \in Construct(p)
    BY <1>5, <1>9, ConstructIsDominated DEF Headers, Ids
  <2>2. y \in Construct(p) \cup {func[p].merge_block}
    BY <1>1, <1>4, <2>1, EdgesAndLoops
  <2>3. y # func[p].merge_block
    BY <1>4, <1>9
  <2>4. p \in LoopsAround(y)
    BY <1>5, <2>1, <2>2, <2>3 DEF LoopsAround
  <2> QED
    BY <1>6, <1>9, <2>4 DEF Innermost, over
<1>10. CASE over = {} /\ func[p].merge # "loop"
  <2>1. ASSUME NEW g \in LoopsAround(y) PROVE g \in LoopsAround(p)
    <3>1. g # p
      BY <1>10, <2>1 DEF LoopsAround, Headers
    <3> QED
      BY <1>6, <2>1, <3>1 DEF LoopsAround
  <2>2. ASSUME NEW g \in LoopsAround(p) PROVE g \in LoopsAround(y)
    <3>1. ASSUME y = func[g].merge_block PROVE FALSE
      <4>1. g \in Blocks /\ order[g] # 0 /\ func[g].merge = "loop"
        BY <1>7, <2>2 DEF Numbered, Headers
      <4>2. g \in Elements(preceding[y])
        BY <3>1, <4>1 DEF PrecedingInv
      <4> QED
        BY <1>4, <1>10, <3>1, <4>1, <4>2
    <3> QED
      BY <1>7, <2>2, <3>1 DEF LoopsAround
  <2>3. LoopsAround(y) = LoopsAround(p)
    BY <2>1, <2>2
  <2> QED
    BY <1>10, <2>3 DEF over
<1> QED
  BY <1>8, <1>9, <1>10 DEF over

\* The search finds the innermost loop.
LEMMA SearchFindsInnermost ==
  ASSUME Built, StructureInv, PrecedingInv, LoopsAreClosed(func), TargetsAreUnique(func), NEW x \in Numbered
  PROVE  Innermost(x, find_loop_dominator(x))
<1> DEFINE r == [y \in Blocks |-> Len(post_order) - order[y]]
           Bad == {y \in Numbered : ~Innermost(y, find_loop_dominator(y))}
<1>1. /\ Len(post_order) \in Nat /\ \A y \in Blocks : order[y] \in Nat /\ order[y] <= Len(post_order)
      /\ Numbered \subseteq Blocks
  BY TheTree DEF Numbered
<1>2. ASSUME NEW y \in Bad PROVE \E q \in Bad : r[q] < r[y]
  <2>1. y \in Numbered /\ y \in Blocks /\ ~Innermost(y, find_loop_dominator(y))
    BY <1>1
  <2>2. CASE preceding[y] = <<>>
    <3>1. y = Entry /\ find_loop_dominator(y) = NoBlock
      BY <2>1, <2>2, OnlyEntryHasNoEdges, LoopSearchUnfolds
    <3>2. LoopsAround(y) = {}
      <4> SUFFICES ASSUME NEW g \in LoopsAround(y) PROVE FALSE
        OBVIOUS
      <4>1. g \in Ids /\ func[g].merge # "none" /\ g # Entry /\ Entry \in Construct(g)
        BY <3>1 DEF LoopsAround, Headers, Ids
      <4>2. Entry \notin Without(g)
        BY <4>1, ConstructIsDominated
      <4>3. TypeInv
        BY DEF Built, IInv
      <4> QED
        BY <4>1, <4>2, <4>3, WithoutIsClosed
    <3> QED
      BY <2>1, <3>1, <3>2 DEF Innermost
  <2>3. CASE preceding[y] # <<>>
    <3>1. PICK p \in Numbered :
            /\ IsBefore(y, p)
            /\ find_loop_dominator(y) = IF StepOver(y) = {} /\ func[p].merge = "loop" THEN p
                                        ELSE find_loop_dominator(p)
      BY <2>1, <2>3, LoopSearchUnfolds
    <3>2. IF StepOver(y) = {} /\ func[p].merge = "loop" THEN Innermost(y, p) ELSE LoopsAround(y) = LoopsAround(p)
      BY <2>1, <2>3, <3>1, SearchKeepsTheLoops
    <3>3. p \in Blocks /\ order[y] < order[p] /\ order[y] \in Nat /\ order[p] \in Nat
      BY <1>1, <2>1, <2>3, <3>1, BeforeIsAbove
    <3>4. LoopsAround(y) = LoopsAround(p) /\ find_loop_dominator(y) = find_loop_dominator(p)
      BY <2>1, <3>1, <3>2
    <3>5. ~Innermost(p, find_loop_dominator(p))
      BY <2>1, <3>4 DEF Innermost
    <3> QED
      BY <1>1, <2>1, <3>1, <3>3, <3>5
  <2> QED
    BY <2>2, <2>3
<1>3. r \in [Blocks -> Nat] /\ Bad \in SUBSET Blocks
  BY <1>1
<1>4. Bad = {}
  <2> HIDE DEF Bad, r
  <2> QED
    BY <1>2, <1>3, RankInduction
<1> QED
  BY <1>4

LEMMA InnermostKept ==
  ASSUME vars' = vars
  PROVE  Numbered' = Numbered /\ \A x, l : Innermost(x, l)' <=> Innermost(x, l)
<1>1. func' = func /\ order' = order
  BY DEF vars, traversal
<1>2. \A h : Construct(h)' = Construct(h)
  BY <1>1 DEF Construct, ConstructOf, StructuralFlowOf
<1>3. \A x : LoopsAround(x)' = LoopsAround(x)
  BY <1>1, <1>2 DEF LoopsAround, Headers
<1> QED
  BY <1>1, <1>2, <1>3 DEF Innermost, Numbered
===============================================================================
