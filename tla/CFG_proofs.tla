------------------------------ MODULE CFG_proofs -------------------------------
(***************************************************************************)
(* Proofs about the constructor of CFG, for every function: the recorded   *)
(* edges descend in post order, and find_common_dominator never leaves the *)
(* part of the dominator tree which has been built, so that the one sweep  *)
(* over the reversed post order computes the dominators of the recorded    *)
(* edges exactly.  Nothing is assumed of the function but that its blocks  *)
(* exist: neither structured control flow nor reducibility is needed.      *)
(***************************************************************************)
EXTENDS CFG, IterationTheorems

Ids == DOMAIN func
Walking == phase \in {"top", "visiting", "resolve"}
Sweeping == phase \in {"dominators", "common"}

\* The edges into block y.
EdgeSet(y) == Elements(preceding[y]) \cup Elements(virtual_preceding[y])

\* The blocks an edge is recorded to when block x is resolved.
ResolvedInto(x) == {to \in Elements(BranchesOf(x)) : ~is_back_edge(to)}

\* Entry k of the stack is where its block was visited, and it is not resolved.
Open(k) ==
  /\ visit_stack[k] \in visited /\ order[visit_stack[k]] = 0
  /\ \A j \in DOMAIN visit_stack : j > k => visit_stack[j] # visit_stack[k]

TypeInv ==
  /\ func \in Functions
  /\ phase \in {"top", "visiting", "resolve", "dominators", "common", "done"}
  /\ visit_stack \in Seq(Ids) /\ last_visited_size \in Nat
  /\ visited \subseteq Ids
  /\ order \in [Blocks -> Nat] /\ post_order \in Seq(Ids)
  /\ preceding \in [Blocks -> Seq(Ids)] /\ virtual_preceding \in [Blocks -> Seq(Ids)]
  /\ idom \in [Blocks -> Blocks \cup {NoBlock}]
  /\ block \in Nat /\ edge \in Nat \ {0}
  /\ a \in Blocks \cup {NoBlock} /\ b \in Blocks \cup {NoBlock}

\* The post order and its inverse.
OrderInv ==
  /\ \A i \in DOMAIN post_order : order[post_order[i]] = i
  /\ \A x \in Blocks : /\ order[x] <= Len(post_order)
                       /\ order[x] # 0 => x \in visited /\ post_order[order[x]] = x

\* The shape of the stack: the entry block is at its bottom and nowhere else;
\* what is pushed for one block has not been visited.
StackInv ==
  /\ Walking => /\ visit_stack # <<>> /\ visit_stack[1] = Entry /\ order[Entry] = 0
                /\ \A k \in DOMAIN visit_stack : k > 1 => visit_stack[k] # Entry
                /\ Len(visit_stack) > 1 => Entry \in visited
  /\ ~Walking => visit_stack = <<>>
  /\ phase = "visiting" =>
       /\ last_visited_size \in DOMAIN visit_stack
       /\ visit_stack[last_visited_size] \in visited
       /\ order[visit_stack[last_visited_size]] = 0
       /\ \A k \in DOMAIN visit_stack : k > last_visited_size => visit_stack[k] \notin visited
  /\ phase = "resolve" => visit_stack[Len(visit_stack)] \in visited

\* Every branch of a block which is being visited has been visited or is on the
\* stack above it.
BranchInv ==
  \A k \in DOMAIN visit_stack : Open(k) =>
    \A i \in DOMAIN BranchesOf(visit_stack[k]) :
      \/ phase = "visiting" /\ k = last_visited_size /\ edge <= i
      \/ BranchesOf(visit_stack[k])[i] \in visited
      \/ \E j \in DOMAIN visit_stack : j > k /\ visit_stack[j] = BranchesOf(visit_stack[k])[i]

\* An open block below entry n of the stack branches to block y.
Pushed(n, y) ==
  \E k \in DOMAIN visit_stack : k < n /\ Open(k) /\ y \in Elements(BranchesOf(visit_stack[k]))

Pending(y) == \E k \in DOMAIN visit_stack : Open(k) /\ y \in Elements(BranchesOf(visit_stack[k]))

\* Every block but the entry has an edge into it, or will have one when the
\* block which pushed it is resolved.
FedInv ==
  /\ \A n \in DOMAIN visit_stack : \A y \in Blocks : n > 1 /\ visit_stack[n] = y =>
       EdgeSet(y) # {} \/ Pushed(n, y)
  /\ \A y \in visited : y # Entry /\ order[y] # 0 =>
       EdgeSet(y) # {} \/ Pending(y)

\* The part of the tree which has been built is the one above block: every
\* block in it has an immediate dominator higher up, and the entry is its root.
TreeInv ==
  /\ Walking => \A x \in Blocks : idom[x] = NoBlock
  /\ Sweeping =>
       /\ block \in DOMAIN post_order
       /\ order[Entry] = Len(post_order) /\ idom[Entry] = Entry
       /\ \A x \in Blocks : x # Entry /\ order[x] > block =>
            idom[x] \in Blocks /\ order[idom[x]] > order[x]
       /\ \A x \in Blocks : x # Entry /\ order[x] < block => idom[x] = NoBlock
       /\ post_order[block] # Entry /\ idom[post_order[block]] # NoBlock =>
            order[idom[post_order[block]]] > block
       /\ edge > 1 => idom[post_order[block]] # NoBlock
  /\ phase = "common" =>
       /\ post_order[block] # Entry /\ idom[post_order[block]] # NoBlock
       /\ a \in Blocks /\ order[a] > block
       /\ b \in Blocks /\ order[b] > block

-------------------------------------------------------------------------------
\* The blocks and branches of a function.
LEMMA Branches ==
  ASSUME func \in Functions
  PROVE  /\ Ids \subseteq Blocks /\ Entry \in Ids /\ NoBlock \notin Blocks
         /\ \A x \in Ids :
              /\ BranchesOf(x) \in Seq(Ids)
              /\ Elements(BranchesOf(x)) =
                   Elements(func[x].targets)
                     \cup (IF func[x].merge = "none" THEN {} ELSE {func[x].merge_block})
<1>1. /\ Ids \subseteq Blocks /\ Entry \in Ids /\ NoBlock \notin Blocks
      /\ \A x \in Ids : BlockOK(func[x], Ids)
  BY FunctionsAssumption DEF Ids
<1>2. ASSUME NEW x \in Ids
      PROVE  /\ BranchesOf(x) \in Seq(Ids)
             /\ Elements(BranchesOf(x)) =
                  Elements(func[x].targets)
                    \cup (IF func[x].merge = "none" THEN {} ELSE {func[x].merge_block})
  <2> DEFINE targets == func[x].targets
             target == func[x].merge_block
  <2>1. targets \in Seq(Ids) /\ (func[x].merge # "none" => target \in Ids)
    BY <1>1 DEF BlockOK
  <2>2. CASE func[x].merge = "none"
    <3>1. BranchesOf(x) = targets
      BY <2>1, <2>2 DEF BranchesOf
    <3> QED
      BY <3>1, <2>1, <2>2 DEF Elements
  <2>3. CASE func[x].merge # "none"
    <3>1. BranchesOf(x) = <<target>> \o targets
      BY <2>3 DEF BranchesOf
    <3>2. /\ BranchesOf(x) \in Seq(Ids) /\ Len(BranchesOf(x)) = Len(targets) + 1
          /\ BranchesOf(x)[1] = target
          /\ \A k \in 1 .. Len(targets) : BranchesOf(x)[k + 1] = targets[k]
          /\ \A k \in 2 .. (Len(targets) + 1) : BranchesOf(x)[k] = targets[k - 1]
      BY <3>1, <2>1, <2>3
    <3> HIDE DEF targets, target
    <3>3. Elements(BranchesOf(x)) = Elements(targets) \cup {target}
      <4>1. DOMAIN BranchesOf(x) = {1} \cup 2 .. (Len(targets) + 1) /\ DOMAIN targets = 1 .. Len(targets)
        BY <3>2, <2>1
      <4>2. ASSUME NEW y \in Elements(BranchesOf(x)) PROVE y \in Elements(targets) \cup {target}
        <5>1. PICK k \in {1} \cup 2 .. (Len(targets) + 1) : y = BranchesOf(x)[k]
          BY <4>1 DEF Elements
        <5>2. CASE k = 1
          BY <5>1, <5>2, <3>2
        <5>3. CASE k \in 2 .. (Len(targets) + 1)
          <6>1. k - 1 \in DOMAIN targets /\ y = targets[k - 1]
            BY <5>1, <5>3, <3>2, <4>1, <2>1
          <6> QED
            BY <6>1 DEF Elements
        <5> QED
          BY <5>1, <5>2, <5>3
      <4>3. ASSUME NEW y \in Elements(targets) \cup {target} PROVE y \in Elements(BranchesOf(x))
        <5>1. CASE y = target
          BY <5>1, <3>2, <4>1 DEF Elements
        <5>2. CASE y \in Elements(targets)
          <6>1. PICK k \in 1 .. Len(targets) : y = targets[k]
            BY <5>2, <4>1 DEF Elements
          <6>2. k + 1 \in DOMAIN BranchesOf(x) /\ y = BranchesOf(x)[k + 1]
            BY <6>1, <3>2, <4>1, <2>1
          <6> QED
            BY <6>2 DEF Elements
        <5> QED
          BY <4>3, <5>1, <5>2
      <4> QED
        BY <4>2, <4>3
    <3> QED
      BY <3>2, <3>3, <2>3 DEF targets, target
  <2> QED
    BY <2>2, <2>3
<1> QED
  BY <1>1, <1>2

\* What an edge adds to a table.
LEMMA AddBranch ==
  ASSUME NEW table \in [Blocks -> Seq(Ids)], NEW x \in Ids, NEW targets
  PROVE  /\ add_branch(table, x, targets) \in [Blocks -> Seq(Ids)]
         /\ \A y \in Blocks : \A z :
              z \in Elements(add_branch(table, x, targets)[y]) <=>
                z \in Elements(table[y]) \/ (z = x /\ y \in targets)
<1> DEFINE t == add_branch(table, x, targets)
<1>1. \A y \in Blocks : t[y] = IF y \in targets /\ x \notin Elements(table[y])
                               THEN Append(table[y], x) ELSE table[y]
  BY DEF add_branch
<1>2. t \in [Blocks -> Seq(Ids)]
  BY DEF add_branch
<1>3. ASSUME NEW y \in Blocks, y \in targets, x \notin Elements(table[y])
      PROVE  Elements(t[y]) = Elements(table[y]) \cup {x}
  <2> DEFINE s == table[y]
  <2>1. s \in Seq(Ids) /\ t[y] = Append(s, x)
    BY <1>1, <1>3
  <2> HIDE DEF s, t
  <2>2. /\ DOMAIN t[y] = DOMAIN s \cup {Len(s) + 1}
        /\ \A k \in DOMAIN s : t[y][k] = s[k]
        /\ t[y][Len(s) + 1] = x
    BY <2>1
  <2>3. Elements(t[y]) = Elements(s) \cup {x}
    BY <2>2 DEF Elements
  <2> QED
    BY <2>3 DEF s
<1>4. ASSUME NEW y \in Blocks
      PROVE  \A z : z \in Elements(t[y]) <=> z \in Elements(table[y]) \/ (z = x /\ y \in targets)
  <2>1. CASE y \in targets /\ x \notin Elements(table[y])
    BY <2>1, <1>3
  <2>2. CASE ~(y \in targets /\ x \notin Elements(table[y]))
    BY <2>2, <1>1
  <2> QED
    BY <2>1, <2>2
<1> QED
  BY <1>2, <1>4

\* What the resolution of the block at the top of the stack does.
LEMMA Resolved ==
  ASSUME TypeInv, StackInv, post_order_visit_resolve
  PROVE  /\ Top \in Ids /\ Top \in visited
         /\ preceding' \in [Blocks -> Seq(Ids)] /\ virtual_preceding' \in [Blocks -> Seq(Ids)]
         /\ order[Top] # 0 => UNCHANGED <<order, post_order, preceding, virtual_preceding>>
         /\ order[Top] = 0 => /\ order' = [order EXCEPT ![Top] = Len(post_order) + 1]
                              /\ post_order' = Append(post_order, Top)
         /\ \A y \in Blocks :
              /\ EdgeSet(y) \subseteq EdgeSet(y)'
              /\ EdgeSet(y)' \subseteq EdgeSet(y) \cup {Top}
              /\ Top \in EdgeSet(y)' /\ Top \notin EdgeSet(y) => order[Top] = 0 /\ y \in ResolvedInto(Top)
              /\ order[Top] = 0 /\ y \in ResolvedInto(Top) => Top \in EdgeSet(y)'
<1> DEFINE x == Top
           target == func[x].merge_block
           branched == add_branch(preceding, x, BranchEdges(x))
           implied == IF ImpliesMergeEdge(x, branched[target]) THEN {target} ELSE {}
           fixed == IF HasSelectionMerge(x) THEN {target} ELSE {}
<1>1. Top \in Ids /\ Top \in visited
  BY DEF TypeInv, StackInv, Walking, Top, post_order_visit_resolve
<1>2. CASE order[x] # 0
  <2>1. UNCHANGED <<order, post_order, preceding, virtual_preceding>>
    BY <1>2 DEF post_order_visit_resolve, edges
  <2> QED
    BY <1>1, <1>2, <2>1 DEF EdgeSet, TypeInv
<1>3. CASE order[x] = 0
  <2>1. /\ preceding' = add_branch(branched, x, implied)
        /\ virtual_preceding' = add_branch(virtual_preceding, x, fixed)
        /\ order' = [order EXCEPT ![x] = Len(post_order) + 1]
        /\ post_order' = Append(post_order, x)
    BY <1>3 DEF post_order_visit_resolve, add_virtual_dominance_branch
  <2>2. preceding \in [Blocks -> Seq(Ids)] /\ virtual_preceding \in [Blocks -> Seq(Ids)]
    BY DEF TypeInv
  <2>3. /\ branched \in [Blocks -> Seq(Ids)]
        /\ \A y \in Blocks : \A z : z \in Elements(branched[y]) <=>
             z \in Elements(preceding[y]) \/ (z = x /\ y \in BranchEdges(x))
    BY <1>1, <2>2, AddBranch
  <2> HIDE DEF x, branched, implied, fixed
  <2>4. /\ preceding' \in [Blocks -> Seq(Ids)]
        /\ \A y \in Blocks : \A z : z \in Elements(preceding'[y]) <=>
             z \in Elements(branched[y]) \/ (z = x /\ y \in implied)
    BY <1>1, <2>1, <2>3, AddBranch DEF x
  <2>5. /\ virtual_preceding' \in [Blocks -> Seq(Ids)]
        /\ \A y \in Blocks : \A z : z \in Elements(virtual_preceding'[y]) <=>
             z \in Elements(virtual_preceding[y]) \/ (z = x /\ y \in fixed)
    BY <1>1, <2>1, <2>2, AddBranch DEF x
  <2>6. BranchEdges(x) \cup implied \cup fixed = ResolvedInto(x)
    <3>1. Elements(BranchesOf(x)) = Elements(func[x].targets)
                       \cup (IF func[x].merge = "none" THEN {} ELSE {target})
      BY <1>1, Branches DEF x, TypeInv
    <3>2. func[x].merge \in {"none", "loop", "selection"}
      BY <1>1, FunctionsAssumption DEF x, TypeInv, Ids, BlockOK
    <3>3. implied \subseteq fixed
      BY DEF implied, fixed, ImpliesMergeEdge
    <3>4. BranchEdges(x) \cup fixed = ResolvedInto(x)
      BY <3>1, <3>2 DEF BranchEdges, fixed, HasSelectionMerge, ResolvedInto
    <3> QED
      BY <3>3, <3>4
  <2>7. \A y \in Blocks : EdgeSet(y)' = EdgeSet(y) \cup (IF y \in ResolvedInto(x) THEN {x} ELSE {})
    <3> SUFFICES ASSUME NEW y \in Blocks
                 PROVE  EdgeSet(y)' = EdgeSet(y) \cup (IF y \in ResolvedInto(x) THEN {x} ELSE {})
      OBVIOUS
    <3>1. EdgeSet(y)' = Elements(preceding'[y]) \cup Elements(virtual_preceding'[y])
      BY DEF EdgeSet, Elements
    <3> QED
      BY <3>1, <2>3, <2>4, <2>5, <2>6 DEF EdgeSet
  <2> QED
    BY <1>1, <1>3, <2>1, <2>4, <2>5, <2>7 DEF x
<1> QED
  BY <1>2, <1>3

\* EdgesInto(y) lists EdgeSet(y).
LEMMA EdgesListed ==
  ASSUME TypeInv, NEW y \in Blocks
  PROVE  /\ EdgesInto(y) \in Seq(Ids)
         /\ \A i \in DOMAIN EdgesInto(y) : EdgesInto(y)[i] \in EdgeSet(y)
         /\ EdgeSet(y) # {} => Len(EdgesInto(y)) > 0
<1> DEFINE p == preceding[y]
           v == virtual_preceding[y]
<1>1. p \in Seq(Ids) /\ v \in Seq(Ids) /\ EdgesInto(y) = p \o v
  BY DEF TypeInv, EdgesInto
<1>2. EdgeSet(y) = {p[k] : k \in DOMAIN p} \cup {v[k] : k \in DOMAIN v}
  BY DEF EdgeSet, Elements
<1> HIDE DEF p, v
<1>3. /\ EdgesInto(y) \in Seq(Ids) /\ Len(EdgesInto(y)) = Len(p) + Len(v)
      /\ \A i \in 1 .. Len(p) : EdgesInto(y)[i] = p[i]
      /\ \A i \in (Len(p) + 1) .. (Len(p) + Len(v)) :
           i - Len(p) \in 1 .. Len(v) /\ EdgesInto(y)[i] = v[i - Len(p)]
  BY <1>1
<1>4. DOMAIN p = 1 .. Len(p) /\ DOMAIN v = 1 .. Len(v)
  BY <1>1
<1>5. ASSUME NEW i \in DOMAIN EdgesInto(y) PROVE EdgesInto(y)[i] \in EdgeSet(y)
  <2>1. i \in 1 .. Len(p) \/ i \in (Len(p) + 1) .. (Len(p) + Len(v))
    BY <1>3, <1>1
  <2>2. CASE i \in 1 .. Len(p)
    BY <2>2, <1>2, <1>3, <1>4
  <2>3. CASE i \in (Len(p) + 1) .. (Len(p) + Len(v))
    BY <2>3, <1>2, <1>3, <1>4
  <2> QED
    BY <2>1, <2>2, <2>3
<1>6. EdgeSet(y) # {} => Len(p) > 0 \/ Len(v) > 0
  BY <1>1, <1>2, <1>4
<1> QED
  BY <1>1, <1>3, <1>5, <1>6

-------------------------------------------------------------------------------
\* The blocks the traversal is at.
LEMMA AtTop ==
  ASSUME TypeInv, StackInv
  PROVE  /\ Walking => /\ Len(visit_stack) \in Nat \ {0} /\ Len(visit_stack) \in DOMAIN visit_stack
                       /\ Top \in Ids /\ Top = visit_stack[Len(visit_stack)]
         /\ phase = "visiting" => /\ last_visited_size \in 1 .. Len(visit_stack)
                                  /\ visit_stack[last_visited_size] \in Ids
BY DEF TypeInv, StackInv, Walking, Top

\* What the actions do to the stack.
LEMMA BranchPushed ==
  ASSUME TypeInv, StackInv, visit_branch
  PROVE  LET x == visit_stack[last_visited_size]
             to == BranchesOf(x)[edge]
         IN /\ x \in Ids /\ edge \in DOMAIN BranchesOf(x) /\ to \in Ids
            /\ to \in Elements(BranchesOf(x))
            /\ visit_stack' = (IF IsPruned(to) THEN visit_stack ELSE Append(visit_stack, to))
<1>1. phase = "visiting" /\ edge <= Len(BranchesOf(visit_stack[last_visited_size]))
  BY DEF visit_branch
<1>2. visit_stack[last_visited_size] \in Ids
  BY <1>1, AtTop
<1>3. BranchesOf(visit_stack[last_visited_size]) \in Seq(Ids)
  BY <1>2, Branches DEF TypeInv
<1>4. edge \in DOMAIN BranchesOf(visit_stack[last_visited_size])
  BY <1>1, <1>3 DEF TypeInv
<1>5. BranchesOf(visit_stack[last_visited_size])[edge] \in Ids
  BY <1>3, <1>4
<1>6. BranchesOf(visit_stack[last_visited_size])[edge] \in Elements(BranchesOf(visit_stack[last_visited_size]))
  BY <1>4 DEF Elements
<1> QED
  BY <1>2, <1>4, <1>5, <1>6 DEF visit_branch

LEMMA Reversed ==
  ASSUME TypeInv, StackInv, EndVisit
  PROVE  LET m == last_visited_size
             n == Len(visit_stack)
         IN /\ n \in Nat /\ m \in 1 .. n
            /\ visit_stack' \in Seq(Ids) /\ Len(visit_stack') = n
            /\ \A k \in 1 .. m : visit_stack'[k] = visit_stack[k]
            /\ \A k \in (m + 1) .. n : /\ n + m + 1 - k \in (m + 1) .. n
                                       /\ visit_stack'[k] = visit_stack[n + m + 1 - k]
<1> DEFINE m == last_visited_size
           n == Len(visit_stack)
<1>1. n \in Nat /\ m \in 1 .. n /\ visit_stack \in Seq(Ids)
  BY AtTop DEF TypeInv, EndVisit
<1>2. visit_stack' = [k \in 1 .. n |-> IF k <= m THEN visit_stack[k] ELSE visit_stack[n + m + 1 - k]]
  BY DEF EndVisit
<1> HIDE DEF m, n
<1>3. \A k \in (m + 1) .. n : n + m + 1 - k \in (m + 1) .. n /\ n + m + 1 - k \in 1 .. n
  BY <1>1
<1>4. \A k \in 1 .. n : visit_stack[k] \in Ids
  BY <1>1 DEF n
<1>5. \A k \in 1 .. n : visit_stack'[k] \in Ids
  <2> SUFFICES ASSUME NEW k \in 1 .. n PROVE visit_stack'[k] \in Ids
    OBVIOUS
  <2>1. CASE k <= m
    BY <2>1, <1>2, <1>4
  <2>2. CASE ~(k <= m)
    <3>1. k \in (m + 1) .. n
      BY <2>2, <1>1
    <3> QED
      BY <3>1, <2>2, <1>2, <1>3, <1>4
  <2> QED
    BY <2>1, <2>2
<1>6. visit_stack' \in [1 .. n -> Ids]
  BY <1>2, <1>5
<1>7. visit_stack' \in Seq(Ids) /\ Len(visit_stack') = n
  BY <1>1, <1>6
<1>8. \A k \in 1 .. m : visit_stack'[k] = visit_stack[k]
  BY <1>1, <1>2
<1>9. \A k \in (m + 1) .. n : visit_stack'[k] = visit_stack[n + m + 1 - k]
  BY <1>1, <1>2
<1> QED
  BY <1>1, <1>3, <1>7, <1>8, <1>9 DEF m, n

LEMMA Front ==
  ASSUME NEW S, NEW s \in Seq(S), NEW n \in Nat, n <= Len(s)
  PROVE  /\ SubSeq(s, 1, n) \in Seq(S) /\ Len(SubSeq(s, 1, n)) = n
         /\ \A k \in 1 .. n : SubSeq(s, 1, n)[k] = s[k]
OBVIOUS

LEMMA Popped ==
  ASSUME TypeInv, StackInv, post_order_visit_resolve
  PROVE  /\ visit_stack' \in Seq(Ids) /\ Len(visit_stack') = Len(visit_stack) - 1
         /\ \A k \in 1 .. (Len(visit_stack) - 1) : visit_stack'[k] = visit_stack[k]
<1> DEFINE n == Len(visit_stack) - 1
<1>1. visit_stack' = SubSeq(visit_stack, 1, n)
  BY DEF post_order_visit_resolve
<1>2. visit_stack \in Seq(Ids) /\ n \in Nat /\ n <= Len(visit_stack)
  <2>1. visit_stack # <<>>
    BY AtTop DEF post_order_visit_resolve, Walking
  <2>2. visit_stack \in Seq(Ids)
    BY DEF TypeInv
  <2> QED
    BY <2>1, <2>2
<1> HIDE DEF n
<1>3. /\ SubSeq(visit_stack, 1, n) \in Seq(Ids)
      /\ Len(SubSeq(visit_stack, 1, n)) = n
      /\ \A k \in 1 .. n : SubSeq(visit_stack, 1, n)[k] = visit_stack[k]
  BY <1>2, Front
<1> QED
  BY <1>1, <1>3 DEF n

-------------------------------------------------------------------------------
\* Type correctness.

LEMMA TypeInit == Init => TypeInv
<1> SUFFICES ASSUME Init PROVE TypeInv
  OBVIOUS
<1>1. Ids \subseteq Blocks /\ Entry \in Ids
  BY Branches DEF Init
<1> QED
  BY <1>1 DEF Init, TypeInv

LEMMA TypeStep ==
  ASSUME TypeInv, StackInv, OrderInv, TreeInv, [Next]_vars
  PROVE  TypeInv'
<1>0. func \in Functions /\ Ids \subseteq Blocks /\ Entry \in Ids
  BY Branches DEF TypeInv
<1>1. CASE StartVisit
  <2>1. Top \in Ids
    BY <1>1, AtTop DEF StartVisit, Walking
  <2>2. visited' \subseteq Ids /\ phase' \in {"resolve", "visiting"}
    BY <1>1, <2>1 DEF StartVisit, TypeInv
  <2> QED
    BY <1>1, <2>2 DEF StartVisit, edges, Ids, TypeInv
<1>2. CASE visit_branch
  <2>1. visit_stack' \in Seq(Ids)
    <3>1. visit_stack \in Seq(Ids)
      BY DEF TypeInv
    <3>2. PICK to \in Ids : visit_stack' = visit_stack \/ visit_stack' = Append(visit_stack, to)
      BY <1>2, BranchPushed
    <3> QED
      BY <3>1, <3>2
  <2> QED
    BY <1>2, <2>1 DEF visit_branch, edges, Ids, TypeInv
<1>3. CASE EndVisit
  <2>1. visit_stack' \in Seq(Ids)
    BY <1>3, Reversed
  <2>2. phase' \in {"resolve", "top"}
    BY <1>3 DEF EndVisit
  <2> QED
    BY <1>3, <2>1, <2>2 DEF EndVisit, edges, Ids, TypeInv
<1>4. CASE post_order_visit_resolve
  <2>1. /\ visit_stack' \in Seq(Ids) /\ Top \in Ids
        /\ preceding' \in [Blocks -> Seq(Ids)] /\ virtual_preceding' \in [Blocks -> Seq(Ids)]
    BY <1>4, Popped, Resolved
  <2>2. order' \in [Blocks -> Nat] /\ post_order' \in Seq(Ids)
    <3>1. CASE order[Top] # 0
      <4>1. order' = order /\ post_order' = post_order
        BY <1>4, <3>1, Resolved
      <4> QED
        BY <4>1 DEF TypeInv
    <3>2. CASE order[Top] = 0
      <4>1. order' = [order EXCEPT ![Top] = Len(post_order) + 1] /\ post_order' = Append(post_order, Top)
        BY <1>4, <3>2, Resolved
      <4>2. order \in [Blocks -> Nat] /\ post_order \in Seq(Ids)
        BY DEF TypeInv
      <4>3. Len(post_order) + 1 \in Nat
        BY <4>2
      <4>4. order' \in [Blocks -> Nat]
        BY <4>1, <4>2, <4>3
      <4>5. post_order' \in Seq(Ids)
        BY <4>1, <4>2, <2>1
      <4> QED
        BY <4>4, <4>5
    <3> QED
      BY <3>1, <3>2
  <2>3. phase' \in {"dominators", "resolve", "top"} /\ block' \in Nat /\ edge' \in Nat \ {0}
    BY <1>4, <2>2 DEF post_order_visit_resolve, TypeInv
  <2>4. idom' \in [Blocks -> Blocks \cup {NoBlock}]
    <3>1. idom' = idom \/ idom' = [idom EXCEPT ![Entry] = Entry]
      BY <1>4 DEF post_order_visit_resolve
    <3> QED
      BY <1>0, <3>1 DEF TypeInv
  <2> QED
    BY <1>4, <2>1, <2>2, <2>3, <2>4 DEF post_order_visit_resolve, Ids, TypeInv
<1>5. CASE NextBlock
  <2>1. block \in Nat \ {0} /\ phase = "dominators"
    BY <1>5 DEF NextBlock, TreeInv, Sweeping, TypeInv
  <2>2. phase' \in {"done", "dominators"} /\ block' \in Nat /\ edge' \in Nat \ {0}
    BY <1>5, <2>1 DEF NextBlock, TypeInv
  <2> QED
    BY <1>5, <2>2 DEF NextBlock, traversal, edges, Ids, TypeInv
<1>6. CASE ResolveEdge
  <2> DEFINE x == post_order[block]
             from == EdgesInto(x)[edge]
  <2>1. x \in Ids
    BY <1>6 DEF ResolveEdge, TreeInv, Sweeping, TypeInv
  <2>2. from \in Blocks
    <3>1. EdgesInto(x) \in Seq(Ids)
      BY <1>0, <2>1, EdgesListed
    <3>2. edge \in DOMAIN EdgesInto(x)
      BY <1>6, <3>1 DEF ResolveEdge, TypeInv
    <3> QED
      BY <1>0, <3>1, <3>2
  <2>3. CASE idom[x] = NoBlock
    <3>1. idom' = [idom EXCEPT ![x] = from] /\ edge' = edge + 1 /\ UNCHANGED <<phase, a, b>>
      BY <1>6, <2>3 DEF ResolveEdge
    <3>2. idom \in [Blocks -> Blocks \cup {NoBlock}] /\ edge \in Nat \ {0}
      BY DEF TypeInv
    <3>3. idom' \in [Blocks -> Blocks \cup {NoBlock}]
      BY <2>2, <3>1, <3>2
    <3>4. edge' \in Nat \ {0}
      BY <3>1, <3>2
    <3> QED
      BY <1>6, <3>1, <3>3, <3>4 DEF ResolveEdge, traversal, edges, Ids, TypeInv
  <2>4. CASE idom[x] # NoBlock
    <3>1. phase' = "common" /\ a' = idom[x] /\ b' = from /\ UNCHANGED <<idom, edge>>
      BY <1>6, <2>4 DEF ResolveEdge
    <3>2. idom[x] \in Blocks
      BY <1>0, <2>1, <2>4 DEF TypeInv
    <3> QED
      BY <1>6, <2>2, <3>1, <3>2 DEF ResolveEdge, traversal, edges, Ids, TypeInv
  <2> QED
    BY <2>3, <2>4
<1>7. CASE Climb
  <2>1. a \in Blocks /\ b \in Blocks
    BY <1>7 DEF Climb, TreeInv, TypeInv
  <2>2. a' \in Blocks \cup {NoBlock} /\ b' \in Blocks \cup {NoBlock}
    BY <1>7, <2>1 DEF Climb, TypeInv
  <2> QED
    BY <1>7, <2>2 DEF Climb, traversal, edges, Ids, TypeInv
<1>8. CASE CommonDominator
  <2>1. idom' = [idom EXCEPT ![post_order[block]] = a] /\ edge' = edge + 1 /\ phase' = "dominators"
    BY <1>8 DEF CommonDominator
  <2>2. /\ idom \in [Blocks -> Blocks \cup {NoBlock}] /\ edge \in Nat \ {0}
        /\ a \in Blocks \cup {NoBlock}
    BY DEF TypeInv
  <2>3. idom' \in [Blocks -> Blocks \cup {NoBlock}]
    BY <2>1, <2>2
  <2>4. edge' \in Nat \ {0}
    BY <2>1, <2>2
  <2> QED
    BY <1>8, <2>1, <2>3, <2>4 DEF CommonDominator, traversal, edges, Ids, TypeInv
<1>9. CASE UNCHANGED vars
  BY <1>9 DEF vars, traversal, edges, Ids, TypeInv
<1> QED
  BY <1>1, <1>2, <1>3, <1>4, <1>5, <1>6, <1>7, <1>8, <1>9 DEF Next

-------------------------------------------------------------------------------
\* The post order.

LEMMA OrderStep ==
  ASSUME TypeInv, StackInv, OrderInv, [Next]_vars
  PROVE  OrderInv'
<1>1. CASE post_order_visit_resolve /\ order[Top] = 0
  <2> DEFINE n == Len(post_order)
  <2>1. /\ Top \in Ids /\ Top \in visited /\ Top \in Blocks
        /\ order' = [order EXCEPT ![Top] = n + 1] /\ post_order' = Append(post_order, Top)
    BY <1>1, Resolved, Branches DEF TypeInv
  <2>2. visited' = visited
    BY <1>1 DEF post_order_visit_resolve
  <2>3. post_order \in Seq(Ids) /\ n \in Nat /\ order \in [Blocks -> Nat]
    BY DEF TypeInv
  <2> HIDE DEF n
  <2>4. /\ post_order' \in Seq(Ids) /\ Len(post_order') = n + 1
        /\ DOMAIN post_order' = 1 .. (n + 1) /\ DOMAIN post_order = 1 .. n
        /\ \A i \in 1 .. n : post_order'[i] = post_order[i] /\ post_order[i] \in Blocks
        /\ post_order'[n + 1] = Top
    BY <2>1, <2>3, Branches DEF n, TypeInv
  <2>5. order'[Top] = n + 1 /\ \A x \in Blocks : x # Top => order'[x] = order[x]
    BY <2>1, <2>3
  <2>6. ASSUME NEW i \in DOMAIN post_order' PROVE order'[post_order'[i]] = i
    <3>1. CASE i = n + 1
      BY <3>1, <2>4, <2>5
    <3>2. CASE i \in 1 .. n
      <4>1. order[post_order[i]] = i
        BY <3>2, <2>4 DEF OrderInv
      <4>2. post_order[i] # Top
        BY <4>1, <1>1, <3>2
      <4> QED
        BY <4>1, <4>2, <3>2, <2>4, <2>5
    <3> QED
      BY <3>1, <3>2, <2>4, <2>3
  <2>7. ASSUME NEW x \in Blocks
        PROVE  /\ order'[x] <= Len(post_order')
               /\ order'[x] # 0 => x \in visited' /\ post_order'[order'[x]] = x
    <3>1. CASE x = Top
      BY <3>1, <2>1, <2>2, <2>3, <2>4, <2>5
    <3>2. CASE x # Top
      <4>1. order[x] \in Nat /\ order[x] <= n /\ (order[x] # 0 => x \in visited /\ post_order[order[x]] = x)
        BY <2>3 DEF OrderInv, n
      <4>2. order'[x] = order[x]
        BY <3>2, <2>5
      <4> QED
        BY <4>1, <4>2, <2>2, <2>3, <2>4
    <3> QED
      BY <3>1, <3>2
  <2> QED
    BY <2>6, <2>7 DEF OrderInv
<1>2. ASSUME order' = order, post_order' = post_order, visited \subseteq visited'
      PROVE  OrderInv'
  BY <1>2 DEF OrderInv
<1>3. CASE post_order_visit_resolve /\ order[Top] # 0
  <2>1. order' = order /\ post_order' = post_order /\ visited' = visited
    BY <1>3, Resolved DEF post_order_visit_resolve
  <2> QED
    BY <2>1, <1>2
<1>4. CASE StartVisit
  BY <1>4, <1>2 DEF StartVisit
<1>5. CASE visit_branch
  BY <1>5, <1>2 DEF visit_branch
<1>6. CASE EndVisit
  BY <1>6, <1>2 DEF EndVisit
<1>7. CASE NextBlock \/ ResolveEdge \/ Climb \/ CommonDominator
  BY <1>7, <1>2 DEF NextBlock, ResolveEdge, Climb, CommonDominator, traversal
<1>8. CASE UNCHANGED vars
  BY <1>8, <1>2 DEF vars, traversal
<1> QED
  BY <1>1, <1>3, <1>4, <1>5, <1>6, <1>7, <1>8 DEF Next

-------------------------------------------------------------------------------
\* The shape of the stack.

\* The part of StackInv which holds in every phase of the traversal.
Shape ==
  /\ visit_stack # <<>> /\ visit_stack[1] = Entry /\ order[Entry] = 0
  /\ \A k \in DOMAIN visit_stack : k > 1 => visit_stack[k] # Entry
  /\ Len(visit_stack) > 1 => Entry \in visited

LEMMA StackStep ==
  ASSUME TypeInv, TypeInv', StackInv, OrderInv, [Next]_vars
  PROVE  StackInv'
<1> DEFINE n == Len(visit_stack)
           m == last_visited_size
<1>0. /\ visit_stack \in Seq(Ids) /\ n \in Nat /\ DOMAIN visit_stack = 1 .. n
      /\ visit_stack' \in Seq(Ids') /\ DOMAIN visit_stack' = 1 .. Len(visit_stack')
      /\ Len(visit_stack') \in Nat
      /\ Walking => Shape /\ n \in Nat \ {0}
      /\ phase = "visiting" => m \in 1 .. n
  BY AtTop DEF TypeInv, StackInv, Shape
<1>1. ASSUME Walking', Shape', phase' \in {"top", "visiting", "resolve"},
             phase' = "visiting" =>
               /\ last_visited_size' \in DOMAIN visit_stack'
               /\ visit_stack'[last_visited_size'] \in visited'
               /\ order'[visit_stack'[last_visited_size']] = 0
               /\ \A k \in DOMAIN visit_stack' : k > last_visited_size' => visit_stack'[k] \notin visited',
             phase' = "resolve" => visit_stack'[Len(visit_stack')] \in visited'
      PROVE  StackInv'
  BY <1>1 DEF StackInv, Shape
<1>2. CASE StartVisit
  <2>1. /\ phase = "top" /\ m' = n /\ visit_stack' = visit_stack /\ order' = order
        /\ Top = visit_stack[n] /\ Top \in Ids /\ Top \in Blocks
    BY <1>2, AtTop, Branches DEF StartVisit, Walking, TypeInv
  <2>2. Shape
    BY <1>0, <2>1 DEF Walking
  <2>3. CASE Top \in visited
    <3>1. phase' = "resolve" /\ visited' = visited
      BY <1>2, <2>3 DEF StartVisit
    <3>2. Shape'
      BY <2>1, <2>2, <3>1 DEF Shape
    <3> QED
      BY <1>1, <2>1, <2>3, <3>1, <3>2 DEF Walking
  <2>4. CASE Top \notin visited
    <3>1. phase' = "visiting" /\ visited' = visited \cup {Top}
      BY <1>2, <2>4 DEF StartVisit
    <3>2. Shape'
      BY <2>1, <2>2, <3>1 DEF Shape
    <3>3. order[Top] = 0
      BY <2>1, <2>4 DEF OrderInv
    <3>4. \A k \in DOMAIN visit_stack' : k > m' => visit_stack'[k] \notin visited'
      BY <1>0, <2>1
    <3>5. m' \in DOMAIN visit_stack' /\ visit_stack'[m'] \in visited' /\ order'[visit_stack'[m']] = 0
      BY <1>0, <2>1, <3>1, <3>3 DEF Walking
    <3> QED
      BY <1>1, <3>1, <3>2, <3>4, <3>5 DEF Walking
  <2> QED
    BY <2>3, <2>4
<1>3. CASE visit_branch
  <2>1. /\ phase = "visiting" /\ phase' = phase /\ m' = m /\ visited' = visited /\ order' = order
    BY <1>3 DEF visit_branch
  <2>2. Shape /\ m \in 1 .. n
    BY <1>0, <2>1 DEF Walking
  <2>3. /\ visit_stack[m] \in visited /\ order[visit_stack[m]] = 0
        /\ \A k \in DOMAIN visit_stack : k > m => visit_stack[k] \notin visited
    BY <2>1 DEF StackInv
  <2>4. CASE visit_stack' = visit_stack
    <3>1. Shape'
      BY <2>1, <2>2, <2>4 DEF Shape
    <3> QED
      BY <1>0, <1>1, <2>1, <2>2, <2>3, <2>4, <3>1 DEF Walking
  <2>5. CASE visit_stack' # visit_stack
    <3>1. PICK to \in Ids : to \notin visited /\ visit_stack' = Append(visit_stack, to)
      BY <1>3, <2>5, BranchPushed DEF IsPruned
    <3>2. /\ Len(visit_stack') = n + 1 /\ DOMAIN visit_stack' = 1 .. (n + 1)
          /\ \A k \in 1 .. n : visit_stack'[k] = visit_stack[k]
          /\ visit_stack'[n + 1] = to
      BY <1>0, <3>1
    <3>3. Entry \in visited
      <4>1. CASE n > 1
        BY <4>1, <2>2 DEF Shape
      <4>2. CASE ~(n > 1)
        <5>1. m = 1
          BY <1>0, <2>2, <4>2
        <5> QED
          BY <5>1, <2>2, <2>3 DEF Shape
      <4> QED
        BY <4>1, <4>2
    <3>4. Shape'
      <4>1. visit_stack' # <<>> /\ visit_stack'[1] = Entry /\ order'[Entry] = 0
        BY <1>0, <2>1, <2>2, <3>2 DEF Shape
      <4>2. \A k \in DOMAIN visit_stack' : k > 1 => visit_stack'[k] # Entry
        BY <1>0, <2>2, <3>1, <3>2, <3>3 DEF Shape
      <4> QED
        BY <4>1, <4>2, <3>3, <2>1 DEF Shape
    <3>5. \A k \in DOMAIN visit_stack' : k > m' => visit_stack'[k] \notin visited'
      BY <1>0, <2>1, <2>2, <2>3, <3>1, <3>2
    <3>6. m' \in DOMAIN visit_stack' /\ visit_stack'[m'] = visit_stack[m]
      BY <1>0, <2>1, <2>2, <3>2
    <3> QED
      BY <1>1, <2>1, <2>3, <3>4, <3>5, <3>6 DEF Walking
  <2> QED
    BY <2>4, <2>5
<1>4. CASE EndVisit
  <2>1. phase = "visiting" /\ visited' = visited /\ order' = order
    BY <1>4 DEF EndVisit
  <2>2. Shape /\ m \in 1 .. n /\ visit_stack[m] \in visited
    BY <1>0, <2>1 DEF Walking, StackInv
  <2>3. /\ Len(visit_stack') = n /\ \A k \in 1 .. m : visit_stack'[k] = visit_stack[k]
        /\ \A k \in (m + 1) .. n : /\ n + m + 1 - k \in (m + 1) .. n
                                   /\ visit_stack'[k] = visit_stack[n + m + 1 - k]
    BY <1>4, Reversed
  <2>4. Shape'
    <3>1. visit_stack' # <<>> /\ visit_stack'[1] = Entry /\ order'[Entry] = 0
      BY <1>0, <2>1, <2>2, <2>3 DEF Shape
    <3>2. ASSUME NEW k \in 1 .. n, k > 1 PROVE visit_stack'[k] # Entry
      <4>1. CASE k \in 1 .. m
        BY <1>0, <2>2, <2>3, <3>2, <4>1 DEF Shape
      <4>2. CASE k \in (m + 1) .. n
        <5>1. /\ n + m + 1 - k \in 1 .. n /\ n + m + 1 - k > 1
              /\ visit_stack'[k] = visit_stack[n + m + 1 - k]
          BY <1>0, <2>2, <2>3, <4>2
        <5> QED
          BY <1>0, <2>2, <5>1 DEF Shape
      <4> QED
        BY <1>0, <2>2, <4>1, <4>2, <3>2
    <3>3. \A k \in DOMAIN visit_stack' : k > 1 => visit_stack'[k] # Entry
      BY <1>0, <2>3, <3>2
    <3>4. Len(visit_stack') > 1 => Entry \in visited'
      BY <2>1, <2>2, <2>3 DEF Shape
    <3> QED
      BY <3>1, <3>3, <3>4 DEF Shape
  <2>5. CASE n = m
    <3>1. phase' = "resolve"
      BY <1>4, <2>5 DEF EndVisit
    <3>2. visit_stack'[n] \in visited'
      BY <1>0, <2>1, <2>2, <2>3, <2>5
    <3> QED
      BY <1>1, <2>3, <2>4, <3>1, <3>2 DEF Walking
  <2>6. CASE n # m
    <3>1. phase' = "top"
      BY <1>4, <2>6 DEF EndVisit
    <3> QED
      BY <1>1, <2>4, <3>1 DEF Walking
  <2> QED
    BY <2>5, <2>6
<1>5. CASE post_order_visit_resolve
  <2>1. phase = "resolve" /\ visited' = visited
    BY <1>5 DEF post_order_visit_resolve
  <2>2. Shape /\ n \in Nat \ {0} /\ Top = visit_stack[n] /\ Top \in Ids /\ Top \in Blocks /\ Entry \in Blocks
    BY <1>0, <2>1, AtTop, Branches DEF Walking, TypeInv
  <2>3. /\ visit_stack' = SubSeq(visit_stack, 1, n - 1) /\ Len(visit_stack') = n - 1
        /\ \A k \in 1 .. (n - 1) : visit_stack'[k] = visit_stack[k]
    BY <1>5, Popped DEF post_order_visit_resolve
  <2>4. CASE visit_stack' = <<>>
    <3>1. phase' = "dominators"
      BY <1>5, <2>3, <2>4 DEF post_order_visit_resolve
    <3> QED
      BY <2>4, <3>1 DEF StackInv, Walking
  <2>5. CASE visit_stack' # <<>>
    <3>1. n > 1
      BY <1>0, <2>2, <2>3, <2>5
    <3>2. phase' = IF visit_stack'[Len(visit_stack')] \in visited THEN "resolve" ELSE "top"
      BY <1>5, <2>3, <2>5 DEF post_order_visit_resolve
    <3>3. order'[Entry] = 0
      <4>0. n \in DOMAIN visit_stack /\ order \in [Blocks -> Nat]
        BY <1>0, <2>2 DEF TypeInv
      <4>1. Top # Entry
        BY <2>2, <3>1, <4>0 DEF Shape
      <4>2. order' = order \/ order' = [order EXCEPT ![Top] = Len(post_order) + 1]
        BY <1>5, Resolved
      <4> QED
        BY <4>0, <4>1, <4>2, <2>2 DEF Shape
    <3>4. Shape'
      <4>1. visit_stack'[1] = Entry
        BY <2>2, <2>3, <3>1 DEF Shape
      <4>2. \A k \in DOMAIN visit_stack' : k > 1 => visit_stack'[k] # Entry
        BY <1>0, <2>2, <2>3 DEF Shape
      <4>3. Entry \in visited'
        BY <2>1, <2>2, <3>1 DEF Shape
      <4> QED
        BY <2>5, <3>3, <4>1, <4>2, <4>3 DEF Shape
    <3> QED
      BY <1>1, <2>1, <3>2, <3>4 DEF Walking
  <2> QED
    BY <2>4, <2>5
<1>6. CASE NextBlock \/ ResolveEdge \/ Climb \/ CommonDominator
  <2>1. phase \in {"dominators", "common"} /\ visit_stack' = visit_stack
    BY <1>6 DEF NextBlock, ResolveEdge, Climb, CommonDominator, traversal
  <2>2. phase' \in {"dominators", "common", "done"}
    BY <1>6, <2>1 DEF NextBlock, ResolveEdge, Climb, CommonDominator
  <2> QED
    BY <2>1, <2>2 DEF StackInv, Walking
<1>7. CASE UNCHANGED vars
  BY <1>7 DEF vars, traversal, StackInv, Walking
<1> QED
  BY <1>2, <1>3, <1>4, <1>5, <1>6, <1>7 DEF Next

-------------------------------------------------------------------------------
\* The branches of the open blocks, and the edges into the visited ones.  Both
\* invariants are about the open entries of the stack, and so are the lemmas:
\* which entries are open after a step, and where the entries above them are.

\* How a step of the traversal moves the entries of the stack.
LEMMA EntriesAfterBranch ==
  ASSUME TypeInv, StackInv, visit_branch
  PROVE  /\ \A k \in DOMAIN visit_stack : k \in DOMAIN visit_stack' /\ visit_stack'[k] = visit_stack[k]
         /\ \A k \in DOMAIN visit_stack' : k \notin DOMAIN visit_stack =>
              /\ k = Len(visit_stack) + 1 /\ visit_stack'[k] \notin visited
              /\ visit_stack'[k] = BranchesOf(visit_stack[last_visited_size])[edge]
         /\ BranchesOf(visit_stack[last_visited_size])[edge] \notin visited =>
              \E j \in DOMAIN visit_stack' :
                j > last_visited_size /\ visit_stack'[j] = BranchesOf(visit_stack[last_visited_size])[edge]
         /\ \A k : Open(k)' /\ k \in DOMAIN visit_stack' => k \in DOMAIN visit_stack /\ Open(k)
         /\ \A k \in DOMAIN visit_stack : Open(k) => Open(k)'
<1> DEFINE n == Len(visit_stack)
           to == BranchesOf(visit_stack[last_visited_size])[edge]
<1>1. /\ visit_stack \in Seq(Ids) /\ n \in Nat /\ DOMAIN visit_stack = 1 .. n /\ to \in Ids
      /\ visit_stack' = IF IsPruned(to) THEN visit_stack ELSE Append(visit_stack, to)
      /\ last_visited_size \in 1 .. n /\ visited' = visited /\ order' = order
  BY BranchPushed, AtTop DEF TypeInv, visit_branch
<1> HIDE DEF n, to
<1>2. CASE IsPruned(to)
  <2>1. visit_stack' = visit_stack
    BY <1>1, <1>2
  <2>2. to \notin visited => \E j \in DOMAIN visit_stack : j > last_visited_size /\ visit_stack[j] = to
    BY <1>2 DEF IsPruned
  <2>3. \A k : Open(k)' <=> Open(k)
    BY <1>1, <2>1 DEF Open
  <2> QED
    BY <1>1, <2>1, <2>2, <2>3 DEF to
<1>3. CASE ~IsPruned(to)
  <2>1. /\ visit_stack' = Append(visit_stack, to) /\ to \notin visited
        /\ DOMAIN visit_stack' = 1 .. (n + 1)
        /\ \A k \in 1 .. n : visit_stack'[k] = visit_stack[k]
        /\ visit_stack'[n + 1] = to
    BY <1>1, <1>3 DEF IsPruned, n
  <2>2. n + 1 \in DOMAIN visit_stack' /\ n + 1 > last_visited_size
    BY <1>1, <2>1
  <2>3. ASSUME NEW k \in DOMAIN visit_stack', Open(k)' PROVE k \in DOMAIN visit_stack /\ Open(k)
    <3>1. visit_stack'[k] \in visited
      BY <1>1, <2>3 DEF Open
    <3>2. k \in 1 .. n
      BY <1>1, <2>1, <3>1
    <3> QED
      BY <1>1, <2>1, <2>3, <3>2 DEF Open
  <2>4. \A k \in DOMAIN visit_stack' : k \notin DOMAIN visit_stack => k = n + 1
    BY <1>1, <2>1
  <2>5. ASSUME NEW k \in DOMAIN visit_stack, Open(k) PROVE Open(k)'
    <3>1. /\ visit_stack[k] \in visited /\ order[visit_stack[k]] = 0
          /\ \A j \in 1 .. n : j > k => visit_stack[j] # visit_stack[k]
      BY <1>1, <2>5 DEF Open
    <3>2. \A j \in 1 .. (n + 1) : j > k => visit_stack'[j] # visit_stack[k]
      BY <1>1, <2>1, <3>1
    <3> QED
      BY <1>1, <2>1, <3>1, <3>2 DEF Open
  <2> QED
    BY <1>1, <2>1, <2>2, <2>3, <2>4, <2>5 DEF n, to
<1> QED
  BY <1>2, <1>3

LEMMA EntriesAfterEnd ==
  ASSUME TypeInv, StackInv, EndVisit
  PROVE  /\ DOMAIN visit_stack' = DOMAIN visit_stack
         /\ \A k \in DOMAIN visit_stack : k <= last_visited_size => visit_stack'[k] = visit_stack[k]
         /\ \A k \in DOMAIN visit_stack : k > last_visited_size =>
              \E j \in DOMAIN visit_stack : j > last_visited_size /\ visit_stack'[k] = visit_stack[j]
         /\ \A k \in DOMAIN visit_stack : k > last_visited_size =>
              \E j \in DOMAIN visit_stack : j > last_visited_size /\ visit_stack'[j] = visit_stack[k]
         /\ \A k \in DOMAIN visit_stack : Open(k)' <=> k <= last_visited_size /\ Open(k)
         /\ \A k \in DOMAIN visit_stack : Open(k) => k <= last_visited_size
<1> DEFINE n == Len(visit_stack)
           m == last_visited_size
<1>1. /\ n \in Nat /\ m \in 1 .. n /\ DOMAIN visit_stack = 1 .. n /\ DOMAIN visit_stack' = 1 .. n
      /\ \A k \in 1 .. m : visit_stack'[k] = visit_stack[k]
      /\ \A k \in (m + 1) .. n : /\ n + m + 1 - k \in (m + 1) .. n
                                 /\ visit_stack'[k] = visit_stack[n + m + 1 - k]
  BY Reversed DEF TypeInv
<1>2. visited' = visited /\ order' = order /\ \A k \in 1 .. n : k > m => visit_stack[k] \notin visited
  BY <1>1 DEF EndVisit, StackInv
<1> HIDE DEF n, m
<1>3. \A k \in 1 .. n : k <= m => visit_stack'[k] = visit_stack[k]
  BY <1>1
<1>4. \A k \in 1 .. n : k > m => \E j \in 1 .. n : j > m /\ visit_stack'[k] = visit_stack[j]
  <2> SUFFICES ASSUME NEW k \in 1 .. n, k > m
               PROVE  \E j \in 1 .. n : j > m /\ visit_stack'[k] = visit_stack[j]
    OBVIOUS
  <2>1. n + m + 1 - k \in 1 .. n /\ n + m + 1 - k > m /\ k \in (m + 1) .. n
    BY <1>1
  <2> QED
    BY <1>1, <2>1
<1>5. \A k \in 1 .. n : k > m => \E j \in 1 .. n : j > m /\ visit_stack'[j] = visit_stack[k]
  <2> SUFFICES ASSUME NEW k \in 1 .. n, k > m
               PROVE  \E j \in 1 .. n : j > m /\ visit_stack'[j] = visit_stack[k]
    OBVIOUS
  <2> DEFINE j == n + m + 1 - k
  <2>1. j \in 1 .. n /\ j > m /\ j \in (m + 1) .. n /\ n + m + 1 - j = k
    BY <1>1
  <2>2. visit_stack'[j] = visit_stack[k]
    BY <1>1, <2>1
  <2> QED
    BY <2>1, <2>2
<1>6. ASSUME NEW k \in 1 .. n, Open(k)' PROVE k <= m /\ Open(k)
  <2>1. /\ visit_stack'[k] \in visited /\ order[visit_stack'[k]] = 0
        /\ \A j \in 1 .. n : j > k => visit_stack'[j] # visit_stack'[k]
    BY <1>1, <1>2, <1>6 DEF Open
  <2>2. k <= m
    BY <1>1, <1>2, <1>4, <2>1
  <2>3. \A j \in 1 .. n : j > k => visit_stack[j] # visit_stack[k]
    BY <1>1, <1>2, <1>3, <2>1, <2>2
  <2> QED
    BY <1>1, <1>3, <2>1, <2>2, <2>3 DEF Open
<1>7. ASSUME NEW k \in 1 .. n, Open(k) PROVE k <= m /\ Open(k)'
  <2>1. /\ visit_stack[k] \in visited /\ order[visit_stack[k]] = 0
        /\ \A j \in 1 .. n : j > k => visit_stack[j] # visit_stack[k]
    BY <1>1, <1>7 DEF Open
  <2>2. k <= m
    BY <1>1, <1>2, <2>1
  <2>3. \A j \in 1 .. n : j > k => visit_stack'[j] # visit_stack[k]
    BY <1>1, <1>2, <1>3, <1>4, <2>1, <2>2
  <2> QED
    BY <1>1, <1>2, <1>3, <2>1, <2>2, <2>3 DEF Open
<1> QED
  BY <1>1, <1>3, <1>4, <1>5, <1>6, <1>7 DEF n, m

LEMMA EntriesAfterResolve ==
  ASSUME TypeInv, StackInv, post_order_visit_resolve
  PROVE  /\ \A k \in DOMAIN visit_stack' :
              k \in DOMAIN visit_stack /\ k < Len(visit_stack) /\ visit_stack'[k] = visit_stack[k]
         /\ \A k \in DOMAIN visit_stack : k < Len(visit_stack) => k \in DOMAIN visit_stack'
         /\ order'[Top] # 0 /\ \A x \in Blocks : x # Top => order'[x] = order[x]
         /\ \A k \in DOMAIN visit_stack' : Open(k)' => Open(k)
         /\ \A k \in DOMAIN visit_stack' : Open(k) /\ visit_stack[k] # Top => Open(k)'
<1> DEFINE n == Len(visit_stack)
<1>1. /\ n \in Nat \ {0} /\ DOMAIN visit_stack = 1 .. n /\ Top = visit_stack[n] /\ Top \in Ids
      /\ DOMAIN visit_stack' = 1 .. (n - 1)
      /\ \A k \in 1 .. (n - 1) : visit_stack'[k] = visit_stack[k] /\ visit_stack[k] \in Blocks
      /\ visited' = visited
  <2>1. phase = "resolve" /\ visited' = visited
    BY DEF post_order_visit_resolve
  <2>2. visit_stack \in Seq(Ids) /\ Ids \subseteq Blocks
    BY Branches DEF TypeInv
  <2>3. n \in Nat \ {0} /\ Top = visit_stack[n] /\ Top \in Ids
    BY <2>1, AtTop DEF Walking
  <2>4. /\ visit_stack' \in Seq(Ids) /\ Len(visit_stack') = n - 1
        /\ \A k \in 1 .. (n - 1) : visit_stack'[k] = visit_stack[k]
    BY Popped
  <2>5. DOMAIN visit_stack = 1 .. n /\ \A k \in 1 .. n : visit_stack[k] \in Blocks
    BY <2>2
  <2>6. DOMAIN visit_stack' = 1 .. (n - 1)
    BY <2>4
  <2> QED
    BY <2>1, <2>3, <2>4, <2>5, <2>6
<1>2. Top \in Blocks /\ order \in [Blocks -> Nat] /\ Len(post_order) \in Nat
  <2>1. Ids \subseteq Blocks /\ order \in [Blocks -> Nat] /\ post_order \in Seq(Ids)
    BY Branches DEF TypeInv
  <2>2. Len(post_order) \in Nat
    BY <2>1
  <2> QED
    BY <1>1, <2>1, <2>2
<1>3. order'[Top] # 0 /\ \A x \in Blocks : x # Top => order'[x] = order[x]
  <2>1. CASE order[Top] = 0
    <3>1. order' = [order EXCEPT ![Top] = Len(post_order) + 1]
      BY <2>1, Resolved
    <3> QED
      BY <3>1, <1>2
  <2>2. CASE order[Top] # 0
    BY <2>2, Resolved
  <2> QED
    BY <2>1, <2>2
<1> HIDE DEF n
<1>4. ASSUME NEW k \in 1 .. (n - 1), Open(k)' PROVE Open(k)
  <2>1. /\ visit_stack[k] \in visited /\ order'[visit_stack[k]] = 0
        /\ \A j \in 1 .. (n - 1) : j > k => visit_stack[j] # visit_stack[k]
    BY <1>1, <1>4 DEF Open
  <2>2. visit_stack[k] # Top /\ order[visit_stack[k]] = 0
    BY <1>1, <1>3, <2>1
  <2>3. \A j \in 1 .. n : j > k => visit_stack[j] # visit_stack[k]
    <3> SUFFICES ASSUME NEW j \in 1 .. n, j > k PROVE visit_stack[j] # visit_stack[k]
      OBVIOUS
    <3>1. CASE j = n
      BY <3>1, <1>1, <2>2
    <3>2. CASE j # n
      <4>1. j \in 1 .. (n - 1)
        BY <3>2, <1>1
      <4> QED
        BY <4>1, <2>1
    <3> QED
      BY <3>1, <3>2
  <2> QED
    BY <1>1, <2>1, <2>2, <2>3 DEF Open
<1>5. ASSUME NEW k \in 1 .. (n - 1), Open(k), visit_stack[k] # Top PROVE Open(k)'
  <2>1. order'[visit_stack[k]] = 0
    BY <1>1, <1>3, <1>5 DEF Open
  <2> QED
    BY <1>1, <1>5, <2>1 DEF Open
<1>6. \A k \in DOMAIN visit_stack' : k \in DOMAIN visit_stack /\ k < n /\ visit_stack'[k] = visit_stack[k]
  BY <1>1
<1>7. \A k \in DOMAIN visit_stack : k < n => k \in DOMAIN visit_stack'
  BY <1>1
<1> QED
  BY <1>1, <1>3, <1>4, <1>5, <1>6, <1>7 DEF n

\* Branch i of entry k has been taken care of.
Handled(k, i) ==
  \/ phase = "visiting" /\ k = last_visited_size /\ edge <= i
  \/ BranchesOf(visit_stack[k])[i] \in visited
  \/ \E j \in DOMAIN visit_stack : j > k /\ visit_stack[j] = BranchesOf(visit_stack[k])[i]

LEMMA BranchStep ==
  ASSUME TypeInv, TypeInv', StackInv, OrderInv, BranchInv, [Next]_vars
  PROVE  BranchInv'
<1>1. SUFFICES ASSUME NEW k \in DOMAIN visit_stack', Open(k)',
                      NEW i, i \in DOMAIN BranchesOf(visit_stack'[k])
               PROVE  Handled(k, i)'
  <2>1. UNCHANGED func
    BY DEF Next, StartVisit, visit_branch, EndVisit, post_order_visit_resolve, NextBlock, ResolveEdge,
           Climb, CommonDominator, vars
  <2> QED
    BY <1>1, <2>1 DEF BranchInv, Handled, BranchesOf
<1>2. \A l \in DOMAIN visit_stack : Open(l) =>
        \A h \in DOMAIN BranchesOf(visit_stack[l]) : Handled(l, h)
  BY DEF BranchInv, Handled
<1>3. CASE StartVisit
  <2>1. /\ phase = "top" /\ visit_stack' = visit_stack /\ order' = order /\ func' = func
        /\ last_visited_size' = Len(visit_stack) /\ edge' = 1
        /\ Len(visit_stack) \in DOMAIN visit_stack /\ Top = visit_stack[Len(visit_stack)]
        /\ \A l \in DOMAIN visit_stack : l \in Nat /\ l <= Len(visit_stack)
    BY <1>3, AtTop DEF StartVisit, Walking, TypeInv
  <2>2. CASE visit_stack[k] \in visited
    <3>1. Open(k)
      BY <1>1, <2>1, <2>2 DEF Open
    <3>2. Handled(k, i)
      BY <1>1, <1>2, <2>1, <3>1
    <3>3. visited \subseteq visited'
      BY <1>3 DEF StartVisit
    <3>4. \/ BranchesOf(visit_stack[k])[i] \in visited
          \/ \E j \in DOMAIN visit_stack : j > k /\ visit_stack[j] = BranchesOf(visit_stack[k])[i]
      BY <2>1, <3>2 DEF Handled
    <3> QED
      BY <2>1, <3>3, <3>4 DEF Handled, BranchesOf
  <2>3. CASE visit_stack[k] \notin visited
    <3>1. visit_stack[k] = Top /\ phase' = "visiting"
      BY <1>1, <1>3, <2>1, <2>3 DEF Open, StartVisit
    <3>2. k = Len(visit_stack)
      BY <1>1, <2>1, <3>1 DEF Open
    <3>3. i \in Nat /\ i >= 1
      <4>1. visit_stack[k] \in Ids
        BY <1>1, <2>1 DEF TypeInv
      <4>2. BranchesOf(visit_stack[k]) \in Seq(Ids)
        BY <4>1, Branches DEF TypeInv
      <4> QED
        BY <1>1, <2>1, <4>2
    <3> QED
      BY <2>1, <3>1, <3>2, <3>3 DEF Handled
  <2> QED
    BY <2>2, <2>3
<1>4. CASE visit_branch
  <2>1. /\ func' = func /\ phase = "visiting" /\ phase' = phase /\ visited' = visited
        /\ last_visited_size' = last_visited_size /\ edge' = edge + 1 /\ edge \in Nat
    BY <1>4 DEF visit_branch, TypeInv
  <2>2. k \in DOMAIN visit_stack /\ Open(k) /\ visit_stack'[k] = visit_stack[k]
    BY <1>1, <1>4, EntriesAfterBranch
  <2>3. Handled(k, i)
    BY <1>1, <1>2, <2>2
  <2>4. CASE k = last_visited_size /\ edge <= i
    <3>1. CASE i = edge
      BY <1>4, <2>1, <2>2, <2>4, <3>1, EntriesAfterBranch DEF Handled, BranchesOf
    <3>2. CASE i # edge
      <4>1. i \in Nat
        <5>1. visit_stack[k] \in Ids
          BY <2>2 DEF TypeInv
        <5>2. BranchesOf(visit_stack[k]) \in Seq(Ids)
          BY <5>1, Branches DEF TypeInv
        <5> QED
          BY <1>1, <2>2, <5>2
      <4> QED
        BY <2>1, <2>4, <3>2, <4>1 DEF Handled
    <3> QED
      BY <3>1, <3>2
  <2>5. CASE ~(k = last_visited_size /\ edge <= i)
    BY <1>4, <2>1, <2>2, <2>3, <2>5, EntriesAfterBranch DEF Handled, BranchesOf
  <2> QED
    BY <2>4, <2>5
<1>5. CASE EndVisit
  <2> DEFINE m == last_visited_size
  <2>1. /\ func' = func /\ visited' = visited /\ phase = "visiting"
        /\ edge > Len(BranchesOf(visit_stack[m])) /\ edge \in Nat
    BY <1>5 DEF EndVisit, TypeInv
  <2>2. /\ k \in DOMAIN visit_stack /\ k <= m /\ Open(k) /\ visit_stack'[k] = visit_stack[k]
        /\ DOMAIN visit_stack' = DOMAIN visit_stack /\ k \in Nat /\ m \in Nat
        /\ \A j \in DOMAIN visit_stack : j \in Nat
    <3>1. k \in DOMAIN visit_stack /\ DOMAIN visit_stack' = DOMAIN visit_stack
      BY <1>1, <1>5, EntriesAfterEnd
    <3>2. k <= m /\ Open(k) /\ visit_stack'[k] = visit_stack[k]
      BY <1>1, <1>5, <3>1, EntriesAfterEnd
    <3>3. m \in Nat /\ \A j \in DOMAIN visit_stack : j \in Nat
      <4>1. visit_stack \in Seq(Ids) /\ m \in Nat
        BY DEF TypeInv
      <4>2. \A j \in DOMAIN visit_stack : j \in Nat
        BY <4>1
      <4> QED
        BY <4>1, <4>2
    <3> QED
      BY <3>1, <3>2, <3>3
  <2>3. Handled(k, i)
    BY <1>1, <1>2, <2>2
  <2>4. ~(k = m /\ edge <= i)
    <3>1. visit_stack[k] \in Ids
      BY <2>2 DEF TypeInv
    <3>2. BranchesOf(visit_stack[k]) \in Seq(Ids)
      BY <3>1, Branches DEF TypeInv
    <3>3. i \in Nat /\ i <= Len(BranchesOf(visit_stack[k]))
      BY <1>1, <2>2, <3>2
    <3> QED
      BY <2>1, <3>2, <3>3
  <2>5. CASE BranchesOf(visit_stack[k])[i] \in visited
    BY <2>1, <2>2, <2>5 DEF Handled, BranchesOf
  <2>6. ASSUME NEW j \in DOMAIN visit_stack, j > k, visit_stack[j] = BranchesOf(visit_stack[k])[i]
        PROVE  Handled(k, i)'
    <3>1. \E l \in DOMAIN visit_stack : l > k /\ visit_stack'[l] = visit_stack[j]
      <4>1. CASE j <= m
        BY <1>5, <2>6, <4>1, EntriesAfterEnd
      <4>2. CASE ~(j <= m)
        <5>1. PICK l \in DOMAIN visit_stack : l > m /\ visit_stack'[l] = visit_stack[j]
          BY <1>5, <2>2, <4>2, EntriesAfterEnd
        <5>2. l > k
          BY <2>2, <5>1
        <5> QED
          BY <5>1, <5>2
      <4> QED
        BY <4>1, <4>2
    <3> QED
      BY <2>1, <2>2, <2>6, <3>1 DEF Handled, BranchesOf
  <2> QED
    BY <2>3, <2>4, <2>5, <2>6 DEF Handled
<1>6. CASE post_order_visit_resolve
  <2>1. func' = func /\ visited' = visited /\ phase = "resolve"
    BY <1>6 DEF post_order_visit_resolve
  <2>2. k \in DOMAIN visit_stack /\ Open(k) /\ visit_stack'[k] = visit_stack[k]
    BY <1>1, <1>6, EntriesAfterResolve
  <2>3. Handled(k, i)
    BY <1>1, <1>2, <2>2
  <2>4. Top \in visited /\ Top = visit_stack[Len(visit_stack)]
    BY <1>6, Resolved DEF Top
  <2>5. CASE BranchesOf(visit_stack[k])[i] \in visited
    BY <2>1, <2>2, <2>5 DEF Handled, BranchesOf
  <2>6. ASSUME NEW j \in DOMAIN visit_stack, j > k, visit_stack[j] = BranchesOf(visit_stack[k])[i]
        PROVE  Handled(k, i)'
    <3>1. CASE j = Len(visit_stack)
      BY <2>1, <2>2, <2>4, <2>6, <3>1 DEF Handled, BranchesOf
    <3>2. CASE j # Len(visit_stack)
      <4>1. j < Len(visit_stack)
        BY <3>2 DEF TypeInv
      <4>2. j \in DOMAIN visit_stack' /\ visit_stack'[j] = visit_stack[j]
        BY <1>6, <4>1, EntriesAfterResolve
      <4> QED
        BY <2>1, <2>2, <2>6, <4>2 DEF Handled, BranchesOf
    <3> QED
      BY <3>1, <3>2
  <2> QED
    BY <2>1, <2>3, <2>5, <2>6 DEF Handled
<1>7. CASE NextBlock \/ ResolveEdge \/ Climb \/ CommonDominator
  <2>1. phase \in {"dominators", "common"} /\ visit_stack' = visit_stack
    BY <1>7 DEF NextBlock, ResolveEdge, Climb, CommonDominator, traversal
  <2>2. visit_stack = <<>>
    BY <2>1 DEF StackInv, Walking
  <2> QED
    BY <1>1, <2>1, <2>2
<1>8. CASE UNCHANGED vars
  BY <1>1, <1>2, <1>8 DEF vars, traversal, Handled, BranchesOf, Open
<1> QED
  BY <1>3, <1>4, <1>5, <1>6, <1>7, <1>8 DEF Next

LEMMA FedStep ==
  ASSUME TypeInv, TypeInv', StackInv, OrderInv, FedInv, [Next]_vars
  PROVE  FedInv'
<1> DEFINE N == Len(visit_stack)
<1>0. N \in Nat /\ DOMAIN visit_stack = 1 .. N /\ Len(visit_stack') \in Nat
      /\ DOMAIN visit_stack' = 1 .. Len(visit_stack')
  <2>1. visit_stack \in Seq(Ids) /\ visit_stack' \in Seq(Ids')
    BY DEF TypeInv
  <2> QED
    BY <2>1
<1>1. SUFFICES
        /\ \A n \in DOMAIN visit_stack' : \A y \in Blocks : n > 1 /\ visit_stack'[n] = y =>
             EdgeSet(y)' # {} \/ Pushed(n, y)'
        /\ \A y \in visited' : y # Entry /\ order'[y] # 0 =>
             EdgeSet(y)' # {} \/ Pending(y)'
  BY DEF FedInv
<1>2. CASE StartVisit
  <2>1. /\ visit_stack' = visit_stack /\ order' = order /\ func' = func /\ visited \subseteq visited'
        /\ UNCHANGED edges /\ visited' \subseteq visited \cup {Top}
        /\ Top \in Blocks
    BY <1>2, AtTop, Branches DEF StartVisit, Walking, TypeInv
  <2>2. \A y : EdgeSet(y)' = EdgeSet(y)
    BY <2>1 DEF EdgeSet, edges
  <2>3. \A n, y : (Pushed(n, y) => Pushed(n, y)') /\ (Pending(y) => Pending(y)')
    BY <2>1 DEF Pushed, Pending, Open, BranchesOf
  <2>4. \A y \in visited' : order'[y] # 0 => y \in visited
    BY <2>1 DEF OrderInv
  <2> QED
    BY <2>1, <2>2, <2>3, <2>4 DEF FedInv
<1>3. CASE visit_branch
  <2> DEFINE m == last_visited_size
  <2>1. /\ order' = order /\ func' = func /\ visited' = visited /\ UNCHANGED edges
        /\ phase = "visiting" /\ m \in 1 .. N
    BY <1>3, AtTop DEF visit_branch
  <2>2. \A y : EdgeSet(y)' = EdgeSet(y)
    BY <2>1 DEF EdgeSet, edges
  <2>3. \A k \in DOMAIN visit_stack : /\ k \in DOMAIN visit_stack' /\ visit_stack'[k] = visit_stack[k]
                                      /\ Open(k) => Open(k)'
    BY <1>3, EntriesAfterBranch
  <2>4. \A n, y : Pushed(n, y) => Pushed(n, y)'
    BY <2>1, <2>3 DEF Pushed, BranchesOf
  <2>5. ASSUME NEW n \in DOMAIN visit_stack', n > 1, NEW y \in Blocks, visit_stack'[n] = y
        PROVE  EdgeSet(y)' # {} \/ Pushed(n, y)'
    <3>1. CASE n \in DOMAIN visit_stack
      BY <2>2, <2>3, <2>4, <2>5, <3>1 DEF FedInv
    <3>2. CASE n \notin DOMAIN visit_stack
      <4>1. n = N + 1 /\ visit_stack'[n] = BranchesOf(visit_stack[m])[edge]
        BY <1>3, <3>2, EntriesAfterBranch
      <4>2. visit_stack'[n] \in Elements(BranchesOf(visit_stack[m]))
        BY <1>3, <2>5, <4>1, BranchPushed
      <4>3. Open(m)
        BY <1>0, <2>1 DEF Open, StackInv
      <4>4. m \in DOMAIN visit_stack /\ m < n
        BY <1>0, <2>1, <4>1
      <4> QED
        BY <2>1, <2>3, <2>5, <4>2, <4>3, <4>4 DEF Pushed, BranchesOf
    <3> QED
      BY <3>1, <3>2
  <2>6. ASSUME NEW y \in visited, y # Entry, order[y] # 0
        PROVE  EdgeSet(y)' # {} \/ Pending(y)'
    <3>1. CASE EdgeSet(y) # {}
      BY <3>1, <2>2
    <3>2. CASE Pending(y)
      <4>1. PICK k \in DOMAIN visit_stack : Open(k) /\ y \in Elements(BranchesOf(visit_stack[k]))
        BY <3>2 DEF Pending
      <4> QED
        BY <2>1, <2>3, <4>1 DEF Pending, BranchesOf
    <3> QED
      BY <2>6, <3>1, <3>2 DEF FedInv
  <2> QED
    BY <2>1, <2>5, <2>6
<1>4. CASE EndVisit
  <2> DEFINE m == last_visited_size
  <2>1. /\ order' = order /\ func' = func /\ visited' = visited /\ UNCHANGED edges
        /\ phase = "visiting" /\ m \in 1 .. N
    BY <1>4, AtTop DEF EndVisit
  <2>2. \A y : EdgeSet(y)' = EdgeSet(y)
    BY <2>1 DEF EdgeSet, edges
  <2>3. /\ DOMAIN visit_stack' = DOMAIN visit_stack
        /\ \A k \in DOMAIN visit_stack : Open(k) => k <= m /\ Open(k)' /\ visit_stack'[k] = visit_stack[k]
        /\ \A k \in DOMAIN visit_stack : k <= m => visit_stack'[k] = visit_stack[k]
        /\ \A k \in DOMAIN visit_stack : k > m =>
              \E j \in DOMAIN visit_stack : j > m /\ visit_stack'[k] = visit_stack[j]
    BY <1>4, EntriesAfterEnd
  <2>4. Len(visit_stack') = N
    BY <1>4, Reversed
  <2>5. \A n, y : (Pushed(n, y) => Pushed(n, y)') /\ (Pending(y) => Pending(y)')
    BY <2>1, <2>3 DEF Pushed, Pending, BranchesOf
  <2>6. ASSUME NEW n \in DOMAIN visit_stack, n > 1, NEW y \in Blocks, visit_stack'[n] = y
        PROVE  EdgeSet(y)' # {} \/ Pushed(n, y)'
    <3>1. CASE n <= m
      BY <2>2, <2>3, <2>5, <2>6, <3>1 DEF FedInv
    <3>2. CASE ~(n <= m)
      <4>1. PICK j \in DOMAIN visit_stack : j > m /\ visit_stack'[n] = visit_stack[j]
        BY <1>0, <2>1, <2>3, <3>2
      <4>2. j > 1
        BY <1>0, <2>1, <4>1
      <4>3. CASE EdgeSet(y) # {}
        BY <2>2, <4>3
      <4>4. CASE Pushed(j, y)
        <5>1. PICK k \in DOMAIN visit_stack : Open(k) /\ y \in Elements(BranchesOf(visit_stack[k]))
          BY <4>4 DEF Pushed
        <5>2. k < n
          BY <1>0, <2>1, <2>3, <3>2, <5>1
        <5> QED
          BY <2>1, <2>3, <5>1, <5>2 DEF Pushed, BranchesOf
      <4> QED
        BY <2>6, <4>1, <4>2, <4>3, <4>4 DEF FedInv
    <3> QED
      BY <3>1, <3>2
  <2> QED
    BY <2>1, <2>2, <2>3, <2>4, <2>5, <2>6 DEF FedInv
<1>5. CASE post_order_visit_resolve
  <2>1. /\ func' = func /\ visited' = visited /\ N \in Nat \ {0} /\ N \in DOMAIN visit_stack
        /\ Top = visit_stack[N] /\ Top \in Ids
    BY <1>5, AtTop DEF post_order_visit_resolve, Walking
  <2>2. \A y \in Blocks : EdgeSet(y) \subseteq EdgeSet(y)'
    BY <1>5, Resolved
  <2>3. /\ Len(visit_stack') = N - 1 /\ Ids \subseteq Blocks /\ visited \subseteq Blocks
        /\ \A k \in DOMAIN visit_stack : visit_stack[k] \in Blocks
    <3>1. Len(visit_stack') = N - 1
      BY <1>5, Popped
    <3>2. Ids \subseteq Blocks
      BY Branches DEF TypeInv
    <3>3. visit_stack \in Seq(Ids) /\ visited \subseteq Ids
      BY DEF TypeInv
    <3>4. \A k \in DOMAIN visit_stack : visit_stack[k] \in Ids
      BY <3>3
    <3> QED
      BY <3>1, <3>2, <3>3, <3>4
  <2>4. ASSUME NEW k \in DOMAIN visit_stack, k < N, Open(k), NEW n, k < n,
               NEW y \in Elements(BranchesOf(visit_stack[k]))
        PROVE  Pushed(n, y)' /\ Pending(y)'
    <3>1. visit_stack[k] # Top
      BY <2>1, <2>4 DEF Open
    <3>2. k \in DOMAIN visit_stack' /\ visit_stack'[k] = visit_stack[k] /\ Open(k)'
      BY <1>5, <2>4, <3>1, EntriesAfterResolve
    <3> QED
      BY <2>1, <2>4, <3>2 DEF Pushed, Pending, BranchesOf
  <2>5. ASSUME NEW n \in DOMAIN visit_stack, n > 1, NEW y \in Blocks, visit_stack[n] = y
        PROVE  EdgeSet(y)' # {} \/ Pushed(n, y)'
    <3>1. CASE EdgeSet(y) # {}
      BY <2>2, <3>1
    <3>2. CASE Pushed(n, y)
      <4>1. PICK k \in DOMAIN visit_stack :
              k < n /\ Open(k) /\ y \in Elements(BranchesOf(visit_stack[k]))
        BY <3>2 DEF Pushed
      <4>2. k < N
        BY <1>0, <4>1
      <4> QED
        BY <2>4, <4>1, <4>2
    <3> QED
      BY <2>5, <3>1, <3>2 DEF FedInv
  <2>6. ASSUME NEW n \in DOMAIN visit_stack', n > 1, NEW y \in Blocks, visit_stack'[n] = y
        PROVE  EdgeSet(y)' # {} \/ Pushed(n, y)'
    BY <1>5, <2>5, <2>6, EntriesAfterResolve
  <2>7. ASSUME NEW y \in visited, y # Entry, order'[y] # 0
        PROVE  EdgeSet(y)' # {} \/ Pending(y)'
    <3>1. CASE y = Top
      <4>1. N > 1
        <5>1. visit_stack[1] = Entry
          BY <1>5 DEF StackInv, Walking, post_order_visit_resolve
        <5> QED
          BY <2>1, <2>7, <3>1, <5>1
      <4>2. CASE EdgeSet(y) # {}
        BY <2>2, <2>3, <4>2
      <4>3. CASE Pushed(N, y)
        <5>1. PICK k \in DOMAIN visit_stack :
                k < N /\ Open(k) /\ y \in Elements(BranchesOf(visit_stack[k]))
          BY <4>3 DEF Pushed
        <5> QED
          BY <2>4, <5>1
      <4> QED
        BY <2>1, <2>3, <3>1, <4>1, <4>2, <4>3 DEF FedInv
    <3>2. CASE y # Top
      <4>1. order[y] # 0
        BY <1>5, <2>3, <2>7, <3>2, EntriesAfterResolve
      <4>2. CASE EdgeSet(y) # {}
        BY <2>2, <2>3, <4>2
      <4>3. CASE Pending(y)
        <5>1. PICK k \in DOMAIN visit_stack : Open(k) /\ y \in Elements(BranchesOf(visit_stack[k]))
          BY <4>3 DEF Pending
        <5>2. CASE k = N
          <6>1. order[Top] = 0 /\ y \in ResolvedInto(Top)
            BY <2>1, <4>1, <5>1, <5>2 DEF Open, ResolvedInto, is_back_edge
          <6> QED
            BY <1>5, <2>3, <6>1, Resolved
        <5>3. CASE k # N
          <6>1. k < N /\ k < N + 1
            BY <1>0, <5>3
          <6> QED
            BY <2>4, <5>1, <6>1
        <5> QED
          BY <5>2, <5>3
      <4> QED
        BY <2>7, <4>1, <4>2, <4>3 DEF FedInv
    <3> QED
      BY <3>1, <3>2
  <2> QED
    BY <2>1, <2>6, <2>7
<1>6. CASE \/ NextBlock \/ ResolveEdge \/ Climb \/ CommonDominator \/ UNCHANGED vars
  <2>1. UNCHANGED <<func, traversal, edges>>
    BY <1>6 DEF NextBlock, ResolveEdge, Climb, CommonDominator, vars
  <2>2. \A y : EdgeSet(y)' = EdgeSet(y)
    BY <2>1 DEF EdgeSet, edges
  <2>3. \A n, y : (Pushed(n, y)' <=> Pushed(n, y)) /\ (Pending(y)' <=> Pending(y))
    BY <2>1 DEF Pushed, Pending, Open, BranchesOf, traversal
  <2> QED
    BY <2>1, <2>2, <2>3 DEF FedInv, traversal
<1> QED
  BY <1>2, <1>3, <1>4, <1>5, <1>6 DEF Next

-------------------------------------------------------------------------------
\* The recorded edges descend: when a block is resolved its branches have all
\* been visited, so those which are not back edges have been resolved before.

LEMMA EdgesStep ==
  ASSUME TypeInv, TypeInv', StackInv, OrderInv, BranchInv, EdgesDescend, [Next]_vars
  PROVE  EdgesDescend'
<1>0. EdgesDescend <=> \A y \in Blocks : \A x \in EdgeSet(y) : order[y] # 0 /\ order[y] < order[x]
  BY DEF EdgesDescend, EdgeSet
<1>1. SUFFICES ASSUME NEW y \in Blocks, NEW x \in EdgeSet(y)'
               PROVE  order'[y] # 0 /\ order'[y] < order'[x]
  BY DEF EdgesDescend, EdgeSet
<1>2. CASE post_order_visit_resolve
  <2> DEFINE N == Len(visit_stack)
  <2>1. /\ N \in Nat /\ N \in DOMAIN visit_stack /\ DOMAIN visit_stack = 1 .. N
        /\ Top = visit_stack[N] /\ Top \in Ids
        /\ Top \in visited /\ phase = "resolve"
    <3>1. phase = "resolve"
      BY <1>2 DEF post_order_visit_resolve
    <3>2. visit_stack \in Seq(Ids)
      BY DEF TypeInv
    <3> QED
      BY <3>1, <3>2, AtTop DEF Walking, StackInv
  <2>2. order \in [Blocks -> Nat] /\ Top \in Blocks /\ Len(post_order) \in Nat
    <3>1. order \in [Blocks -> Nat] /\ post_order \in Seq(Ids) /\ Ids \subseteq Blocks
      BY Branches DEF TypeInv
    <3> QED
      BY <2>1, <3>1
  <2>3. CASE order[Top] # 0
    <3>1. order' = order /\ preceding' = preceding /\ virtual_preceding' = virtual_preceding
      BY <1>2, <2>3, Resolved
    <3> QED
      BY <1>0, <1>1, <3>1 DEF EdgeSet
  <2>4. CASE order[Top] = 0
    <3>1. order'[Top] = Len(post_order) + 1 /\ \A z \in Blocks : z # Top => order'[z] = order[z]
      <4>1. order' = [order EXCEPT ![Top] = Len(post_order) + 1]
        BY <1>2, <2>4, Resolved
      <4> QED
        BY <2>2, <4>1
    <3>2. CASE x \in EdgeSet(y)
      <4>1. order[y] # 0 /\ order[y] < order[x] /\ x \in Blocks /\ order[y] \in Nat
        <5>1. x \in Ids /\ Ids \subseteq Blocks
          <6>1. preceding[y] \in Seq(Ids) /\ virtual_preceding[y] \in Seq(Ids) /\ Ids \subseteq Blocks
            BY Branches DEF TypeInv
          <6> QED
            BY <3>2, <6>1 DEF EdgeSet, Elements
        <5> QED
          BY <1>0, <2>2, <3>2, <5>1
      <4>2. order[x] \in Nat /\ order[x] # 0
        BY <2>2, <4>1
      <4> QED
        BY <2>4, <3>1, <4>1, <4>2
    <3>3. CASE x \notin EdgeSet(y)
      <4>1. x = Top /\ y \in ResolvedInto(Top)
        BY <1>1, <1>2, <3>3, Resolved
      <4>2. PICK i \in DOMAIN BranchesOf(Top) : y = BranchesOf(Top)[i]
        BY <4>1 DEF ResolvedInto, Elements
      <4>3. Open(N)
        BY <2>1, <2>4 DEF Open
      <4>4. y \in visited
        BY <2>1, <4>2, <4>3 DEF BranchInv
      <4>5. order[y] # 0
        BY <4>1, <4>4 DEF ResolvedInto, is_back_edge
      <4>6. y # Top /\ order[y] \in Nat /\ order[y] <= Len(post_order)
        BY <2>2, <2>4, <4>5 DEF OrderInv
      <4> QED
        BY <2>2, <3>1, <4>1, <4>5, <4>6
    <3> QED
      BY <3>2, <3>3
  <2> QED
    BY <2>3, <2>4
<1>3. CASE UNCHANGED <<order, edges>>
  BY <1>0, <1>1, <1>3 DEF EdgeSet, edges
<1>4. CASE \/ StartVisit \/ visit_branch \/ EndVisit \/ NextBlock \/ ResolveEdge \/ Climb
           \/ CommonDominator \/ UNCHANGED vars
  BY <1>3, <1>4 DEF StartVisit, visit_branch, EndVisit, NextBlock, ResolveEdge, Climb, CommonDominator,
                    vars, traversal
<1> QED
  BY <1>2, <1>4 DEF Next

-------------------------------------------------------------------------------
\* The dominator tree.

\* The block whose dominator is being computed.
LEMMA AtBlock ==
  ASSUME TypeInv, OrderInv, TreeInv, Sweeping
  PROVE  /\ post_order[block] \in Blocks /\ order[post_order[block]] = block
         /\ block \in Nat \ {0} /\ block <= Len(post_order)
         /\ \A x \in Blocks : order[x] \in Nat /\ (order[x] = block => x = post_order[block])
         /\ \A x \in Blocks : order[x] <= order[Entry]
<1>1. /\ post_order \in Seq(Ids) /\ Ids \subseteq Blocks /\ order \in [Blocks -> Nat] /\ block \in Nat
      /\ block \in DOMAIN post_order /\ order[Entry] = Len(post_order)
  BY Branches DEF TypeInv, TreeInv
<1>2. block \in Nat \ {0} /\ block <= Len(post_order) /\ post_order[block] \in Blocks
  BY <1>1
<1>3. order[post_order[block]] = block
  BY <1>1 DEF OrderInv
<1>4. \A x \in Blocks : order[x] \in Nat /\ (order[x] = block => x = post_order[block])
  BY <1>1, <1>2 DEF OrderInv
<1>5. \A x \in Blocks : order[x] <= order[Entry]
  BY <1>1 DEF OrderInv
<1> QED
  BY <1>2, <1>3, <1>4, <1>5

\* An edge into that block comes from a block which has been done.
LEMMA AtEdge ==
  ASSUME TypeInv, OrderInv, TreeInv, EdgesDescend, ResolveEdge
  PROVE  LET x == post_order[block]
             from == EdgesInto(x)[edge]
         IN from \in Blocks /\ order[from] > block /\ x # Entry
<1> DEFINE x == post_order[block]
           from == EdgesInto(x)[edge]
<1>1. Sweeping /\ edge <= Len(EdgesInto(x)) /\ edge \in Nat \ {0}
  BY DEF ResolveEdge, Sweeping, TypeInv
<1>2. x \in Blocks /\ order[x] = block
  BY <1>1, AtBlock
<1>3. EdgesInto(x) \in Seq(Ids) /\ \A i \in DOMAIN EdgesInto(x) : EdgesInto(x)[i] \in EdgeSet(x)
  BY <1>2, EdgesListed
<1>4. from \in EdgeSet(x) /\ from \in Ids
  <2>1. edge \in DOMAIN EdgesInto(x)
    BY <1>1, <1>3
  <2> QED
    BY <1>3, <2>1
<1>5. from \in Blocks /\ order[x] < order[from]
  BY <1>2, <1>4, Branches DEF TypeInv, EdgesDescend, EdgeSet
<1>6. x # Entry
  <2>1. order[from] <= order[Entry] /\ order[from] \in Nat /\ order[x] \in Nat
    BY <1>1, <1>2, <1>5, AtBlock
  <2> QED
    BY <1>5, <2>1
<1> QED
  BY <1>2, <1>5, <1>6

LEMMA TreeStep ==
  ASSUME TypeInv, TypeInv', StackInv, OrderInv, OrderInv', FedInv, EdgesDescend, TreeInv, [Next]_vars
  PROVE  TreeInv'
<1> DEFINE x == post_order[block]
<1>1. CASE StartVisit \/ visit_branch \/ EndVisit
  <2>1. Walking /\ idom' = idom /\ phase' \in {"top", "visiting", "resolve"}
    BY <1>1 DEF StartVisit, visit_branch, EndVisit, Walking
  <2> QED
    BY <2>1 DEF TreeInv, Walking, Sweeping
<1>2. CASE post_order_visit_resolve
  <2>1. Walking
    BY <1>2 DEF post_order_visit_resolve, Walking
  <2>2. \A y \in Blocks : idom[y] = NoBlock
    BY <2>1 DEF TreeInv
  <2>3. visit_stack' = SubSeq(visit_stack, 1, Len(visit_stack) - 1)
    BY <1>2 DEF post_order_visit_resolve
  <2>4. CASE visit_stack' # <<>>
    <3>1. idom' = idom /\ phase' \in {"top", "resolve"}
      BY <1>2, <2>3, <2>4 DEF post_order_visit_resolve
    <3> QED
      BY <2>2, <3>1 DEF TreeInv, Walking, Sweeping
  <2>5. CASE visit_stack' = <<>>
    <3>1. phase' = "dominators" /\ block' = Len(post_order') /\ edge' = 1
          /\ idom' = [idom EXCEPT ![Entry] = Entry]
      BY <1>2, <2>3, <2>5 DEF post_order_visit_resolve
    <3>2. Top = Entry
      <4>1. Len(visit_stack') = 0
        BY <2>5
      <4>2. Len(visit_stack) - 1 = 0 /\ Len(visit_stack) \in Nat \ {0}
        BY <1>2, <2>1, <4>1, Popped, AtTop
      <4>3. Len(visit_stack) = 1
        BY <4>2
      <4>4. Top = visit_stack[1]
        BY <4>3 DEF Top
      <4>5. visit_stack[1] = Entry
        BY <2>1 DEF StackInv
      <4> QED
        BY <4>4, <4>5
    <3>3. Entry \in Blocks /\ order \in [Blocks -> Nat] /\ idom \in [Blocks -> Blocks \cup {NoBlock}]
          /\ post_order \in Seq(Blocks) /\ post_order' \in Seq(Ids')
      <4>1. Ids \subseteq Blocks /\ Entry \in Ids /\ post_order \in Seq(Ids)
        BY Branches DEF TypeInv
      <4>2. post_order \in Seq(Blocks)
        BY <4>1
      <4> QED
        BY <4>1, <4>2 DEF TypeInv
    <3>4. order'[Entry] = Len(post_order') /\ Len(post_order') \in Nat \ {0}
      <4>1. order[Top] = 0
        BY <2>1, <3>2 DEF StackInv
      <4>2. order' = [order EXCEPT ![Entry] = Len(post_order) + 1] /\ post_order' = Append(post_order, Entry)
        BY <1>2, <3>2, <4>1, Resolved
      <4>3. Len(post_order') = Len(post_order) + 1 /\ Len(post_order) \in Nat
        BY <3>3, <4>2
      <4> QED
        BY <3>3, <4>2, <4>3
    <3>5. idom'[Entry] = Entry /\ \A y \in Blocks : y # Entry => idom'[y] = NoBlock
      BY <2>2, <3>1, <3>3
    <3>6. post_order'[block'] = Entry
      BY <3>1, <3>3, <3>4 DEF OrderInv
    <3>7. \A y \in Blocks : ~(order'[y] > block')
      <4>1. \A y \in Blocks : order'[y] <= Len(post_order') /\ order'[y] \in Nat
        BY DEF OrderInv, TypeInv
      <4> QED
        BY <3>1, <3>4, <4>1
    <3>8. block' \in DOMAIN post_order'
      BY <3>1, <3>3, <3>4
    <3> QED
      BY <3>1, <3>4, <3>5, <3>6, <3>7, <3>8 DEF TreeInv, Walking, Sweeping
  <2> QED
    BY <2>4, <2>5
<1>3. CASE NextBlock
  <2>1. /\ phase = "dominators" /\ Sweeping /\ edge > Len(EdgesInto(x)) /\ ~Walking
        /\ UNCHANGED <<order, post_order, idom>>
    BY <1>3 DEF NextBlock, Sweeping, Walking, traversal
  <2>2. CASE block = 1
    <3>1. phase' = "done"
      BY <1>3, <2>2 DEF NextBlock
    <3> QED
      BY <3>1 DEF TreeInv, Walking, Sweeping
  <2>3. CASE block # 1
    <3>1. block' = block - 1 /\ edge' = 1 /\ phase' = "dominators"
      BY <1>3, <2>1, <2>3 DEF NextBlock
    <3>2. /\ x \in Blocks /\ order[x] = block /\ block \in Nat \ {0} /\ block <= Len(post_order)
          /\ \A y \in Blocks : order[y] \in Nat /\ (order[y] = block => y = x)
      BY <2>1, AtBlock
    <3>3. block - 1 \in DOMAIN post_order /\ block - 1 \in Nat
      <4>1. post_order \in Seq(Ids)
        BY DEF TypeInv
      <4> QED
        BY <2>3, <3>2, <4>1
    <3>4. x # Entry => idom[x] \in Blocks /\ order[idom[x]] > block
      <4> SUFFICES ASSUME x # Entry PROVE idom[x] \in Blocks /\ order[idom[x]] > block
        OBVIOUS
      <4>1. EdgeSet(x) # {}
        <5>1. visit_stack = <<>>
          BY <2>1 DEF StackInv
        <5>2. ~Pending(x)
          BY <5>1 DEF Pending
        <5>3. x \in visited /\ order[x] # 0
          BY <3>2 DEF OrderInv
        <5> QED
          BY <5>2, <5>3 DEF FedInv
      <4>2. Len(EdgesInto(x)) > 0 /\ EdgesInto(x) \in Seq(Ids)
        BY <3>2, <4>1, EdgesListed
      <4>3. edge > 1
        <5>1. Len(EdgesInto(x)) \in Nat /\ edge \in Nat
          BY <4>2 DEF TypeInv
        <5> QED
          BY <2>1, <4>2, <5>1
      <4>4. idom[x] # NoBlock
        BY <2>1, <4>3 DEF TreeInv
      <4>5. order[idom[x]] > block
        BY <2>1, <4>4 DEF TreeInv
      <4> QED
        BY <3>2, <4>4, <4>5 DEF TypeInv
    <3>5. \A y \in Blocks : y # Entry /\ order[y] > block - 1 => idom[y] \in Blocks /\ order[idom[y]] > order[y]
      <4> SUFFICES ASSUME NEW y \in Blocks, y # Entry, order[y] > block - 1
                   PROVE  idom[y] \in Blocks /\ order[idom[y]] > order[y]
        OBVIOUS
      <4>1. CASE order[y] = block
        BY <3>2, <3>4, <4>1
      <4>2. CASE order[y] > block
        BY <2>1, <4>2 DEF TreeInv
      <4> QED
        BY <3>2, <4>1, <4>2
    <3>6. \A y \in Blocks : y # Entry /\ order[y] < block => idom[y] = NoBlock
      BY <2>1 DEF TreeInv
    <3>7. \A y \in Blocks : y # Entry /\ order[y] < block - 1 => idom[y] = NoBlock
      BY <3>2, <3>6
    <3>8. post_order[block - 1] # Entry => idom[post_order[block - 1]] = NoBlock
      <4>1. order[post_order[block - 1]] = block - 1
        BY <3>3 DEF OrderInv
      <4>2. post_order[block - 1] \in Blocks
        <5>1. post_order \in Seq(Ids) /\ Ids \subseteq Blocks
          BY Branches DEF TypeInv
        <5> QED
          BY <3>3, <5>1
      <4> QED
        BY <3>2, <3>6, <4>1, <4>2
    <3>9. order[Entry] = Len(post_order) /\ idom[Entry] = Entry
      BY <2>1 DEF TreeInv
    <3>10. /\ post_order'[block'] = post_order[block - 1] /\ block' \in DOMAIN post_order'
           /\ order'[Entry] = Len(post_order') /\ idom'[Entry] = Entry
           /\ phase' = "dominators" /\ ~(edge' > 1)
      BY <2>1, <3>1, <3>3, <3>9
    <3>11. \A y \in Blocks : y # Entry /\ order'[y] > block' => idom'[y] \in Blocks /\ order'[idom'[y]] > order'[y]
      BY <2>1, <3>1, <3>5
    <3>12. \A y \in Blocks : y # Entry /\ order'[y] < block' => idom'[y] = NoBlock
      BY <2>1, <3>1, <3>7
    <3>13. post_order'[block'] # Entry => idom'[post_order'[block']] = NoBlock
      BY <2>1, <3>8, <3>10
    <3> QED
      BY <3>10, <3>11, <3>12, <3>13 DEF TreeInv, Walking, Sweeping
  <2> QED
    BY <2>2, <2>3
<1>4. CASE ResolveEdge
  <2> DEFINE from == EdgesInto(x)[edge]
  <2>1. Sweeping /\ phase = "dominators" /\ UNCHANGED <<order, post_order, block>>
    BY <1>4 DEF ResolveEdge, Sweeping, traversal
  <2>2. from \in Blocks /\ order[from] > block /\ x # Entry
    BY <1>4, AtEdge
  <2>3. x \in Blocks /\ order[x] = block /\ block \in Nat
    BY <2>1, AtBlock
  <2>4. CASE idom[x] = NoBlock
    <3>1. idom' = [idom EXCEPT ![x] = from] /\ phase' = "dominators" /\ edge' = edge + 1
      BY <1>4, <2>1, <2>4 DEF ResolveEdge
    <3>2. idom'[x] = from /\ \A y \in Blocks : y # x => idom'[y] = idom[y]
      BY <2>3, <3>1 DEF TypeInv
    <3>3. from # NoBlock /\ Entry \in Blocks
      BY <2>2, Branches DEF TypeInv
    <3>4. \A y \in Blocks : order[y] > block \/ order[y] < block => y # x
      BY <2>3
    <3>5. \A y \in Blocks : y # Entry /\ order[y] > block => idom'[y] \in Blocks /\ order[idom'[y]] > order[y]
      BY <2>1, <3>2, <3>4 DEF TreeInv
    <3>6. \A y \in Blocks : y # Entry /\ order[y] < block => idom'[y] = NoBlock
      BY <2>1, <3>2, <3>4 DEF TreeInv
    <3>7. block \in DOMAIN post_order /\ order[Entry] = Len(post_order) /\ idom'[Entry] = Entry
      BY <2>1, <2>2, <3>2, <3>3 DEF TreeInv
    <3>8. order[idom'[x]] > block /\ idom'[x] # NoBlock
      BY <2>2, <3>2, <3>3
    <3> QED
      BY <2>1, <3>1, <3>5, <3>6, <3>7, <3>8 DEF TreeInv, Walking, Sweeping
  <2>5. CASE idom[x] # NoBlock
    <3>1. phase' = "common" /\ a' = idom[x] /\ b' = from /\ UNCHANGED <<idom, edge>>
      BY <1>4, <2>5 DEF ResolveEdge
    <3>2. idom[x] \in Blocks /\ order[idom[x]] > block
      BY <2>1, <2>2, <2>3, <2>5 DEF TreeInv, TypeInv
    <3> QED
      BY <2>1, <2>2, <2>5, <3>1, <3>2 DEF TreeInv, Walking, Sweeping
  <2> QED
    BY <2>4, <2>5
<1>5. CASE Climb
  <2>1. Sweeping /\ phase = "common" /\ a # b /\ UNCHANGED <<order, post_order, block, edge, idom, phase>>
    BY <1>5 DEF Climb, Sweeping, traversal
  <2>2. /\ a \in Blocks /\ order[a] > block /\ b \in Blocks /\ order[b] > block /\ block \in Nat
        /\ \A y \in Blocks : order[y] \in Nat /\ order[y] <= order[Entry]
    BY <2>1, AtBlock DEF TreeInv
  <2>3. \A y \in Blocks : y # Entry /\ order[y] > block => idom[y] \in Blocks /\ order[idom[y]] > order[y]
    BY <2>1 DEF TreeInv
  <2>4. CASE ClimbsFirst(a, b)
    <3>1. a' = idom[a] /\ b' = b
      BY <1>5, <2>4 DEF Climb
    <3>2. a # Entry
      BY <2>2, <2>4 DEF ClimbsFirst
    <3>3. idom[a] \in Blocks /\ order[idom[a]] > order[a]
      BY <2>2, <2>3, <3>2
    <3>4. idom[a] \in Blocks /\ order[idom[a]] > block
      BY <2>2, <3>3
    <3> QED
      BY <2>1, <2>2, <3>1, <3>4 DEF TreeInv, Walking, Sweeping
  <2>5. CASE ~ClimbsFirst(a, b)
    <3>1. b' = idom[b] /\ a' = a
      BY <1>5, <2>5 DEF Climb
    <3>2. b # Entry
      <4> SUFFICES ASSUME b = Entry PROVE FALSE
        OBVIOUS
      <4>1. order[a] = order[b] /\ order[a] # 0
        BY <2>2, <2>5 DEF ClimbsFirst
      <4>2. a = b
        BY <2>2, <4>1 DEF OrderInv
      <4> QED
        BY <2>1, <4>2
    <3>3. idom[b] \in Blocks /\ order[idom[b]] > order[b]
      BY <2>2, <2>3, <3>2
    <3>4. idom[b] \in Blocks /\ order[idom[b]] > block
      BY <2>2, <3>3
    <3> QED
      BY <2>1, <2>2, <3>1, <3>4 DEF TreeInv, Walking, Sweeping
  <2> QED
    BY <2>4, <2>5
<1>6. CASE CommonDominator
  <2>1. /\ Sweeping /\ phase = "common" /\ UNCHANGED <<order, post_order, block>>
        /\ idom' = [idom EXCEPT ![x] = a] /\ phase' = "dominators"
    BY <1>6 DEF CommonDominator, Sweeping, traversal
  <2>2. a \in Blocks /\ order[a] > block /\ x # Entry
    BY <2>1 DEF TreeInv
  <2>3. x \in Blocks /\ order[x] = block /\ block \in Nat
    BY <2>1, AtBlock
  <2>4. idom'[x] = a /\ \A y \in Blocks : y # x => idom'[y] = idom[y]
    BY <2>1, <2>3 DEF TypeInv
  <2>5. a # NoBlock /\ Entry \in Blocks
    BY <2>2, Branches DEF TypeInv
  <2>6. \A y \in Blocks : order[y] > block \/ order[y] < block => y # x
    BY <2>3
  <2>7. \A y \in Blocks : y # Entry /\ order[y] > block => idom'[y] \in Blocks /\ order[idom'[y]] > order[y]
    BY <2>1, <2>4, <2>6 DEF TreeInv
  <2>8. \A y \in Blocks : y # Entry /\ order[y] < block => idom'[y] = NoBlock
    BY <2>1, <2>4, <2>6 DEF TreeInv
  <2>9. block \in DOMAIN post_order /\ order[Entry] = Len(post_order) /\ idom'[Entry] = Entry
    BY <2>1, <2>2, <2>4, <2>5 DEF TreeInv
  <2>10. order[idom'[x]] > block /\ idom'[x] # NoBlock
    BY <2>2, <2>4, <2>5
  <2> QED
    BY <2>1, <2>7, <2>8, <2>9, <2>10 DEF TreeInv, Walking, Sweeping
<1>7. CASE UNCHANGED vars
  BY <1>7 DEF vars, traversal, TreeInv, Walking, Sweeping
<1> QED
  BY <1>1, <1>2, <1>3, <1>4, <1>5, <1>6, <1>7 DEF Next

-------------------------------------------------------------------------------
IInv == /\ TypeInv /\ OrderInv /\ StackInv /\ BranchInv /\ FedInv
        /\ EdgesDescend /\ TreeInv

LEMMA Initially == Init => IInv
<1> SUFFICES ASSUME Init PROVE IInv
  OBVIOUS
<1>1. TypeInv
  BY TypeInit
<1>2. \A y \in Blocks : preceding[y] = <<>> /\ virtual_preceding[y] = <<>> /\ order[y] = 0 /\ idom[y] = NoBlock
  BY DEF Init
<1>3. Entry \in Blocks
  BY Branches DEF Init
<1>4. visit_stack = <<Entry>> /\ visited = {} /\ post_order = <<>> /\ phase = "top"
  BY DEF Init
<1>5. OrderInv
  BY <1>2, <1>4 DEF OrderInv
<1>6. StackInv
  BY <1>2, <1>3, <1>4 DEF StackInv, Walking
<1>7. BranchInv
  BY <1>4 DEF BranchInv, Open
<1>8. FedInv
  BY <1>4 DEF FedInv
<1>9. EdgesDescend
  BY <1>2 DEF EdgesDescend, Elements
<1>10. TreeInv
  BY <1>2, <1>4 DEF TreeInv, Walking, Sweeping
<1> QED
  BY <1>1, <1>5, <1>6, <1>7, <1>8, <1>9, <1>10 DEF IInv

LEMMA Inductive == IInv /\ [Next]_vars => IInv'
<1> SUFFICES ASSUME IInv, [Next]_vars PROVE IInv'
  OBVIOUS
<1>1. TypeInv /\ OrderInv /\ StackInv /\ BranchInv /\ FedInv /\ EdgesDescend /\ TreeInv
  BY DEF IInv
<1>2. TypeInv'
  BY <1>1, TypeStep
<1>3. OrderInv'
  BY <1>1, OrderStep
<1>4. StackInv' /\ BranchInv' /\ FedInv' /\ EdgesDescend'
  BY <1>1, <1>2, StackStep, BranchStep, FedStep, EdgesStep
<1>5. TreeInv'
  BY <1>1, <1>2, <1>3, TreeStep
<1> QED
  BY <1>2, <1>3, <1>4, <1>5 DEF IInv

LEMMA Invariance == Spec => []IInv
<1>1. Init => IInv
  BY Initially
<1>2. IInv /\ [Next]_vars => IInv'
  BY Inductive
<1> QED
  BY <1>1, <1>2, PTL DEF Spec

\* The tables of the constructor hold blocks and positions.
THEOREM TypeCorrect == Spec => []TypeOK
<1>1. IInv => TypeOK
  <2> SUFFICES ASSUME IInv PROVE TypeOK
    OBVIOUS
  <2>1. TypeInv /\ Ids \subseteq Blocks
    BY Branches DEF IInv, TypeInv
  <2>2. /\ visit_stack \in Seq(Blocks) /\ post_order \in Seq(Blocks)
        /\ preceding \in [Blocks -> Seq(Blocks)] /\ virtual_preceding \in [Blocks -> Seq(Blocks)]
    <3>1. Seq(Ids) \subseteq Seq(Blocks)
      BY <2>1
    <3> QED
      BY <2>1, <3>1 DEF TypeInv
  <2> QED
    BY <2>1, <2>2 DEF TypeInv, TypeOK
<1> QED
  BY <1>1, Invariance, PTL

\* Every recorded edge leads to a block earlier in post order, whatever the
\* control flow of the function is.
THEOREM EdgesAlwaysDescend == Spec => []EdgesDescend
<1>1. IInv => EdgesDescend
  BY DEF IInv
<1> QED
  BY <1>1, Invariance, PTL

\* find_common_dominator only meets blocks which have an immediate dominator,
\* whatever the control flow of the function is.
THEOREM ClimbsStayInTheTree == Spec => []ClimbsInTheTree
<1>1. IInv => ClimbsInTheTree
  <2> SUFFICES ASSUME IInv, phase = "common"
               PROVE  a # NoBlock /\ b # NoBlock /\ order[a] > block /\ order[b] > block
    BY DEF ClimbsInTheTree
  <2> QED
    BY FunctionsAssumption DEF IInv, TreeInv
<1> QED
  BY <1>1, Invariance, PTL

-------------------------------------------------------------------------------
(* What ReachableWithout computes: the least set of blocks which contains  *)
(* the entry and is closed under the flow, block x left out.               *)

\* One step of ReachableWithout.
Spread(flow, x, S) == S \cup ({e[2] : e \in {d \in flow : d[1] \in S}} \ {x})

IsClosedWithout(flow, x, S) ==
  \A d \in flow : d[1] \in S /\ d[2] # x => d[2] \in S

\* The sets ReachableWithout goes through.
LEMMA ReachSteps ==
  ASSUME NEW flow \in SUBSET (Blocks \X Blocks), NEW x, Entry \in Blocks
  PROVE  \E reach \in [0 .. Cardinality(Blocks) -> SUBSET Blocks] :
           /\ reach[0] = {Entry} \ {x}
           /\ \A n \in 1 .. Cardinality(Blocks) : reach[n] = Spread(flow, x, reach[n - 1])
           /\ ReachableWithout(flow, x) = reach[Cardinality(Blocks)]
<1> DEFINE N == Cardinality(Blocks)
           Is(reach) == reach = [n \in 0 .. N |->
                          IF n = 0 THEN {Entry} \ {x}
                          ELSE LET before == reach[n - 1]
                               IN before \cup ({e[2] : e \in {d \in flow : d[1] \in before}} \ {x})]
           F == [S \in SUBSET Blocks |-> Spread(flow, x, S)]
<1>1. N \in Nat
  BY BlocksAssumption, FS_CardinalityType
<1>2. F \in [SUBSET Blocks -> SUBSET Blocks]
  BY DEF Spread
<1>3. PICK g \in [0 .. N -> SUBSET Blocks] :
        g[0] = {Entry} \ {x} /\ \A n \in 1 .. N : g[n] = F[g[n - 1]]
  <2> DEFINE T == SUBSET Blocks
             c == {Entry} \ {x}
  <2>1. c \in T /\ IsMapOn(F, T)
    BY <1>2 DEF IsMapOn
  <2> HIDE DEF F, N, T, c
  <2>2. \E g : IsIteration(g, F, c, T, N)
    BY <1>1, <2>1, Iterates
  <2> QED
    BY <2>2 DEF T, c, IsIteration
<1>4. \A n \in 1 .. N : g[n] = Spread(flow, x, g[n - 1])
  <2> SUFFICES ASSUME NEW n \in 1 .. N PROVE g[n] = Spread(flow, x, g[n - 1])
    OBVIOUS
  <2>1. n - 1 \in 0 .. N
    BY <1>1
  <2> QED
    BY <1>3, <2>1
<1>5. Is(g)
  <2>1. ASSUME NEW n \in 0 .. N
        PROVE  g[n] = IF n = 0 THEN {Entry} \ {x}
                      ELSE LET before == g[n - 1]
                           IN before \cup ({e[2] : e \in {d \in flow : d[1] \in before}} \ {x})
    <3>1. CASE n = 0
      BY <3>1, <1>3
    <3>2. CASE n # 0
      <4>1. n \in 1 .. N
        BY <3>2, <1>1
      <4> QED
        BY <4>1, <3>2, <1>4 DEF Spread
    <3> QED
      BY <3>1, <3>2
  <2> QED
    BY <2>1
<1> DEFINE r == CHOOSE reach : Is(reach)
<1>6. Is(r)
  <2> HIDE DEF Is
  <2> QED
    BY <1>5
<1>7. ReachableWithout(flow, x) = r[N]
  BY DEF ReachableWithout
<1> HIDE DEF r, Is
<1>8. /\ DOMAIN r = 0 .. N
      /\ \A n \in 0 .. N : r[n] = IF n = 0 THEN {Entry} \ {x}
                                  ELSE LET before == r[n - 1]
                                       IN before \cup ({e[2] : e \in {d \in flow : d[1] \in before}} \ {x})
  BY <1>6 DEF Is
<1>9. r[0] = {Entry} \ {x} /\ \A n \in 1 .. N : r[n] = Spread(flow, x, r[n - 1])
  BY <1>1, <1>8 DEF Spread
<1>10. \A n \in 0 .. N : r[n] \in SUBSET Blocks
  <2> DEFINE S == {n \in Nat : n <= N => r[n] \in SUBSET Blocks}
  <2>1. 0 \in S
    BY <1>9
  <2>2. ASSUME NEW n \in Nat, n \in S PROVE n + 1 \in S
    <3> SUFFICES ASSUME n + 1 <= N PROVE r[n + 1] \in SUBSET Blocks
      OBVIOUS
    <3>1. n + 1 \in 1 .. N /\ n + 1 - 1 = n /\ r[n] \in SUBSET Blocks
      BY <1>1, <2>2
    <3>2. r[n + 1] = Spread(flow, x, r[n])
      BY <3>1, <1>9
    <3> QED
      BY <3>1, <3>2 DEF Spread
  <2> HIDE DEF S
  <2>3. Nat \subseteq S
    BY <2>1, <2>2, SetInduction
  <2> QED
    BY <2>3, <1>1 DEF S
<1>11. r = [n \in 0 .. N |-> r[n]]
  BY <1>6, <1>8 DEF Is
<1>12. r \in [0 .. N -> SUBSET Blocks]
  BY <1>10, <1>11
<1> QED
  BY <1>7, <1>9, <1>12

\* ReachableWithout is the least set of blocks which is closed under the flow.
LEMMA ReachableIsLeast ==
  ASSUME NEW flow \in SUBSET (Blocks \X Blocks), NEW x, Entry \in Blocks,
         NEW S, Entry # x => Entry \in S, IsClosedWithout(flow, x, S)
  PROVE  ReachableWithout(flow, x) \subseteq S
<1> DEFINE N == Cardinality(Blocks)
<1>1. N \in Nat
  BY BlocksAssumption, FS_CardinalityType
<1>2. PICK reach \in [0 .. N -> SUBSET Blocks] :
        /\ reach[0] = {Entry} \ {x}
        /\ \A n \in 1 .. N : reach[n] = Spread(flow, x, reach[n - 1])
        /\ ReachableWithout(flow, x) = reach[N]
  BY ReachSteps
<1> DEFINE T == {n \in Nat : n <= N => reach[n] \subseteq S}
<1>3. 0 \in T
  BY <1>2
<1>4. ASSUME NEW n \in Nat, n \in T PROVE n + 1 \in T
  <2> SUFFICES ASSUME n + 1 <= N PROVE reach[n + 1] \subseteq S
    OBVIOUS
  <2>1. n + 1 \in 1 .. N /\ n + 1 - 1 = n /\ reach[n] \subseteq S
    BY <1>1, <1>4
  <2>2. reach[n + 1] = Spread(flow, x, reach[n])
    BY <2>1, <1>2
  <2> QED
    BY <2>1, <2>2 DEF Spread, IsClosedWithout
<1> HIDE DEF T
<1>5. Nat \subseteq T
  BY <1>3, <1>4, SetInduction
<1> QED
  BY <1>1, <1>2, <1>5 DEF T

\* It is a set of blocks, without x, with the entry, and closed under the flow:
\* the iteration has ended after as many steps as there are blocks.
LEMMA ReachableIsClosed ==
  ASSUME NEW flow \in SUBSET (Blocks \X Blocks), NEW x, Entry \in Blocks
  PROVE  /\ ReachableWithout(flow, x) \subseteq Blocks
         /\ x \notin ReachableWithout(flow, x)
         /\ Entry # x => Entry \in ReachableWithout(flow, x)
         /\ IsClosedWithout(flow, x, ReachableWithout(flow, x))
<1> DEFINE N == Cardinality(Blocks)
           F == [S \in SUBSET Blocks |-> Spread(flow, x, S)]
           c == {Entry} \ {x}
<1>1. PICK reach \in [0 .. N -> SUBSET Blocks] :
        /\ reach[0] = c
        /\ \A n \in 1 .. N : reach[n] = Spread(flow, x, reach[n - 1])
        /\ ReachableWithout(flow, x) = reach[N]
  BY ReachSteps
<1>2. IsGrowth(reach, F, c, Blocks, N)
  <2>1. N \in Nat
    BY BlocksAssumption, FS_CardinalityType
  <2>2. F \in [SUBSET Blocks -> SUBSET Blocks] /\ c \in SUBSET Blocks
    BY DEF Spread
  <2>3. \A n \in 1 .. N : reach[n - 1] \in SUBSET Blocks => reach[n] = F[reach[n - 1]]
    BY <1>1
  <2> HIDE DEF F, c, N
  <2> QED
    BY <1>1, <2>1, <2>2, <2>3 DEF IsGrowth
<1>3. F[{}] = {} /\ \A X \in SUBSET Blocks : X \subseteq F[X]
  BY DEF Spread
<1>4. reach[N] \in SUBSET Blocks /\ c \subseteq reach[N] /\ F[reach[N]] = reach[N]
  <2> HIDE DEF F, c
  <2> QED
    BY <1>2, <1>3, BlocksAssumption, GrowthEnds
<1>5. IsClosedWithout(flow, x, reach[N])
  <2>1. Spread(flow, x, reach[N]) = reach[N]
    BY <1>4
  <2> QED
    BY <2>1 DEF Spread, IsClosedWithout
<1>6. x \notin reach[N]
  <2> DEFINE S == Blocks \ {x}
  <2>1. S \in SUBSET Blocks /\ c \subseteq S /\ \A X \in SUBSET S : F[X] \subseteq S
    BY DEF Spread
  <2>2. reach[N] \subseteq S
    <3> HIDE DEF F, c, S, N
    <3>1. S \in SUBSET Blocks
      BY <2>1
    <3>2. c \subseteq S /\ \A X \in SUBSET S : F[X] \subseteq S
      BY <2>1
    <3>3. \A T \in SUBSET Blocks :
            c \subseteq T /\ (\A X \in SUBSET T : F[X] \subseteq T) => reach[N] \subseteq T
      BY <1>2, GrowthIsLeast
    <3> QED
      BY <3>1, <3>2, <3>3
  <2> QED
    BY <2>2
<1> HIDE DEF N
<1> QED
  BY <1>1, <1>4, <1>5, <1>6

\* A block which can be reached is the entry, or the flow leads to it from one.
LEMMA ReachedFromABlock ==
  ASSUME NEW flow \in SUBSET (Blocks \X Blocks), NEW x, Entry \in Blocks,
         NEW y \in ReachableWithout(flow, x)
  PROVE  y = Entry \/ \E d \in flow : d[1] \in ReachableWithout(flow, x) /\ d[2] = y
<1> DEFINE R == ReachableWithout(flow, x)
           S == R \ {y}
<1> SUFFICES ASSUME y # Entry, \A d \in flow : d[1] \in R => d[2] # y PROVE FALSE
  OBVIOUS
<1>1. Entry # x => Entry \in R
  BY ReachableIsClosed
<1>2. IsClosedWithout(flow, x, R)
  BY ReachableIsClosed
<1>3. IsClosedWithout(flow, x, S)
  BY <1>2 DEF IsClosedWithout
<1>4. Entry # x => Entry \in S
  BY <1>1
<1> HIDE DEF S
<1>5. R \subseteq S
  BY <1>3, <1>4, ReachableIsLeast
<1> QED
  BY <1>5 DEF S

\* More flow, more blocks.
LEMMA ReachableGrows ==
  ASSUME NEW flow \in SUBSET (Blocks \X Blocks), NEW more \in SUBSET (Blocks \X Blocks),
         flow \subseteq more, NEW x, Entry \in Blocks
  PROVE  ReachableWithout(flow, x) \subseteq ReachableWithout(more, x)
<1> DEFINE R == ReachableWithout(more, x)
<1>1. (Entry # x => Entry \in R) /\ IsClosedWithout(more, x, R)
  BY ReachableIsClosed
<1>2. IsClosedWithout(flow, x, R)
  BY <1>1 DEF IsClosedWithout
<1> QED
  BY <1>1, <1>2, ReachableIsLeast

-------------------------------------------------------------------------------
(* The dominators.                                                         *)

\* The blocks which dominate block y along the recorded edges.
Dom(y) == {d \in Blocks : Dominates(RecordedFlow, d, y)}

\* The immediate dominator of block y is right.
IsExact(y) ==
  /\ idom[y] \in Blocks /\ order[idom[y]] > order[y]
  /\ Dom(y) = Dom(idom[y]) \cup {y}

\* The dominators of the block whose dominator is being computed are those of
\* the edges resolved so far; find_common_dominator keeps those of one more.
DomInv ==
  LET x == post_order[block]
      e == EdgesInto(x)
  IN /\ Sweeping => \A y \in Blocks : y # Entry /\ order[y] > block => IsExact(y)
     /\ Sweeping /\ x # Entry =>
          /\ edge <= Len(e) + 1
          /\ edge = 1 => idom[x] = NoBlock
          /\ edge > 1 => \A d \in Blocks : d \in Dom(idom[x]) <=> \A i \in 1 .. (edge - 1) : d \in Dom(e[i])
     /\ phase = "common" =>
          /\ edge > 1 /\ edge <= Len(e)
          /\ \A d \in Blocks : d \in Dom(a) /\ d \in Dom(b) <=> d \in Dom(idom[x]) /\ d \in Dom(e[edge])
     /\ phase = "done" =>
          /\ order[Entry] = Len(post_order) /\ idom[Entry] = Entry
          /\ \A y \in Blocks : y # Entry /\ order[y] # 0 => IsExact(y)

-------------------------------------------------------------------------------
\* EdgesInto(y) lists EdgeSet(y), all of it.
LEMMA EdgesExact ==
  ASSUME TypeInv, NEW y \in Blocks
  PROVE  /\ EdgesInto(y) \in Seq(Ids)
         /\ EdgeSet(y) = {EdgesInto(y)[i] : i \in DOMAIN EdgesInto(y)}
<1> DEFINE p == preceding[y]
           v == virtual_preceding[y]
           e == EdgesInto(y)
<1>1. p \in Seq(Ids) /\ v \in Seq(Ids) /\ e = p \o v
  BY DEF TypeInv, EdgesInto
<1>2. EdgeSet(y) = {p[k] : k \in DOMAIN p} \cup {v[k] : k \in DOMAIN v}
  BY DEF EdgeSet, Elements
<1>3. e \in Seq(Ids) /\ \A i \in DOMAIN e : e[i] \in EdgeSet(y)
  BY EdgesListed
<1> HIDE DEF p, v, e
<1>4. /\ Len(e) = Len(p) + Len(v)
      /\ DOMAIN p = 1 .. Len(p) /\ DOMAIN v = 1 .. Len(v) /\ DOMAIN e = 1 .. Len(e)
      /\ \A i \in 1 .. Len(p) : e[i] = p[i]
      /\ \A i \in 1 .. Len(v) : e[Len(p) + i] = v[i]
  BY <1>1
<1>5. ASSUME NEW z \in EdgeSet(y) PROVE \E i \in DOMAIN e : z = e[i]
  <2>1. CASE \E k \in DOMAIN p : z = p[k]
    <3>1. PICK k \in 1 .. Len(p) : z = p[k]
      BY <2>1, <1>4
    <3>2. k \in DOMAIN e
      BY <1>1, <1>4
    <3> QED
      BY <3>1, <3>2, <1>4
  <2>2. CASE \E k \in DOMAIN v : z = v[k]
    <3>1. PICK k \in 1 .. Len(v) : z = v[k]
      BY <2>2, <1>4
    <3>2. Len(p) + k \in DOMAIN e
      BY <1>1, <1>4
    <3> QED
      BY <3>1, <3>2, <1>4
  <2> QED
    BY <1>2, <2>1, <2>2
<1> QED
  BY <1>3, <1>5 DEF e

\* The recorded flow goes from the edges of each block to the block.
LEMMA FlowIsEdges ==
  ASSUME TypeInv
  PROVE  /\ RecordedFlow \in SUBSET (Blocks \X Blocks)
         /\ \A y \in Blocks : EdgeSet(y) \subseteq Blocks
         /\ \A x, y \in Blocks : <<x, y>> \in RecordedFlow <=> x \in EdgeSet(y)
<1>1. \A y \in Blocks : Elements(EdgesInto(y)) = EdgeSet(y)
  BY EdgesExact DEF Elements
<1>2. RecordedFlow = UNION {EdgeSet(y) \X {y} : y \in Blocks}
  BY <1>1 DEF RecordedFlow
<1>3. \A y \in Blocks : EdgeSet(y) \subseteq Blocks
  <2> SUFFICES ASSUME NEW y \in Blocks PROVE EdgeSet(y) \subseteq Blocks
    OBVIOUS
  <2>1. Ids \subseteq Blocks
    BY Branches DEF TypeInv
  <2>2. EdgesInto(y) \in Seq(Ids)
    BY EdgesExact
  <2>3. \A i \in DOMAIN EdgesInto(y) : EdgesInto(y)[i] \in Ids
    BY <2>2
  <2> QED
    BY <2>1, <2>3, EdgesExact
<1> QED
  BY <1>2, <1>3

\* A block other than the entry is dominated by itself and by what dominates
\* all the blocks which lead to it.
LEMMA DomByEdges ==
  ASSUME TypeInv, NEW y \in Blocks, y # Entry
  PROVE  \A d \in Blocks : d \in Dom(y) <=> d = y \/ \A x \in EdgeSet(y) : d \in Dom(x)
<1> SUFFICES ASSUME NEW d \in Blocks
             PROVE  d \in Dom(y) <=> d = y \/ \A x \in EdgeSet(y) : d \in Dom(x)
  OBVIOUS
<1> DEFINE R == ReachableWithout(RecordedFlow, d)
<1>1. /\ RecordedFlow \in SUBSET (Blocks \X Blocks) /\ Entry \in Blocks
      /\ EdgeSet(y) \subseteq Blocks
      /\ \A x \in Blocks : <<x, y>> \in RecordedFlow <=> x \in EdgeSet(y)
  BY FlowIsEdges, Branches DEF TypeInv
<1>2. R \subseteq Blocks /\ d \notin R /\ IsClosedWithout(RecordedFlow, d, R)
  BY <1>1, ReachableIsClosed
<1>3. \A x \in Blocks : d \in Dom(x) <=> x \notin R
  BY DEF Dom, Dominates
<1>4. ASSUME y \in R PROVE \E x \in EdgeSet(y) : x \in R
  <2>1. PICK f \in RecordedFlow : f[1] \in R /\ f[2] = y
    BY <1>1, <1>4, ReachedFromABlock
  <2>2. f = <<f[1], y>> /\ f[1] \in Blocks
    BY <2>1, <1>1
  <2> QED
    BY <2>1, <2>2, <1>1
<1>5. ASSUME NEW x \in EdgeSet(y), x \in R, d # y PROVE y \in R
  <2>1. <<x, y>> \in RecordedFlow
    BY <1>1
  <2> QED
    BY <2>1, <1>2, <1>5 DEF IsClosedWithout
<1> HIDE DEF R
<1> QED
  BY <1>1, <1>2, <1>3, <1>4, <1>5

LEMMA DomOfEntry ==
  ASSUME TypeInv
  PROVE  Dom(Entry) = {Entry}
<1>1. RecordedFlow \in SUBSET (Blocks \X Blocks) /\ Entry \in Blocks
  BY FlowIsEdges, Branches DEF TypeInv
<1>2. \A d \in Blocks : /\ d \notin ReachableWithout(RecordedFlow, d)
                        /\ Entry # d => Entry \in ReachableWithout(RecordedFlow, d)
  BY <1>1, ReachableIsClosed
<1> QED
  BY <1>1, <1>2 DEF Dom, Dominates

\* A block dominates itself.
LEMMA DomOfItself ==
  ASSUME TypeInv, NEW y \in Blocks
  PROVE  y \in Dom(y)
BY DomOfEntry, DomByEdges

\* Only blocks which come later in post order dominate a block.
LEMMA DomComesLater ==
  ASSUME TypeInv, OrderInv, StackInv, FedInv, EdgesDescend, ~Walking,
         NEW y \in Blocks, order[y] # 0, NEW d \in Dom(y)
  PROVE  order[d] >= order[y]
<1> DEFINE Bad(z) == order[z] # 0 /\ d \in Dom(z) /\ order[d] < order[z]
           S == {order[z] : z \in {x \in Blocks : Bad(x)}}
<1>1. /\ order \in [Blocks -> Nat] /\ Len(post_order) \in Nat /\ d \in Blocks
      /\ \A x \in Blocks : order[x] \in Nat /\ order[x] <= Len(post_order)
  <2>1. order \in [Blocks -> Nat] /\ post_order \in Seq(Ids)
    BY DEF TypeInv
  <2>2. \A x \in Blocks : order[x] <= Len(post_order)
    BY DEF OrderInv
  <2> QED
    BY <2>1, <2>2 DEF Dom
<1> SUFFICES ASSUME order[d] < order[y] PROVE FALSE
  BY <1>1
<1>2. S \in SUBSET Nat /\ S # {} /\ \A k \in S : k <= Len(post_order)
  BY <1>1
<1>3. PICK m \in S : \A k \in S : k <= m
  BY <1>1, <1>2, GreatestNatural
<1>4. PICK z \in Blocks : Bad(z) /\ m = order[z]
  OBVIOUS
<1>5. z # Entry /\ z # d
  BY <1>1, <1>4, DomOfEntry
<1>6. EdgeSet(z) # {}
  <2>1. ~Pending(z)
    BY DEF StackInv, Pending
  <2>2. z \in visited
    BY <1>4 DEF OrderInv
  <2> QED
    BY <2>1, <2>2, <1>4, <1>5 DEF FedInv
<1>7. PICK x \in EdgeSet(z) : TRUE
  BY <1>6
<1>8. x \in Blocks /\ order[z] < order[x]
  BY FlowIsEdges DEF EdgesDescend, EdgeSet
<1>9. d \in Dom(x)
  BY <1>1, <1>4, <1>5, DomByEdges
<1>10. order[d] \in Nat /\ order[z] \in Nat /\ order[x] \in Nat
  BY <1>1, <1>8
<1>11. Bad(x)
  BY <1>4, <1>8, <1>9, <1>10
<1>12. order[x] \in S
  BY <1>8, <1>11
<1>13. order[x] <= m
  BY <1>3, <1>12
<1> QED
  BY <1>4, <1>8, <1>10, <1>13

-------------------------------------------------------------------------------
\* What one step of the sweep does to the dominators known so far.

\* The edges do not change any more.
LEMMA DomKept ==
  ASSUME UNCHANGED <<preceding, virtual_preceding>>
  PROVE  /\ RecordedFlow' = RecordedFlow
         /\ \A y : Dom(y)' = Dom(y) /\ EdgesInto(y)' = EdgesInto(y)
<1>1. \A y : EdgesInto(y)' = EdgesInto(y)
  BY DEF EdgesInto
<1>2. RecordedFlow' = RecordedFlow
  BY DEF RecordedFlow, EdgesInto
<1> QED
  BY <1>1, <1>2 DEF Dom, Dominates
\* One climb loses no common dominator: the block earlier in post order does not
\* dominate the other one.
LEMMA ClimbKeeps ==
  ASSUME TypeInv, OrderInv, StackInv, FedInv, EdgesDescend, ~Walking,
         NEW x \in Blocks, NEW y \in Blocks, order[x] < order[y], order[y] # 0, Dom(x) = Dom(idom[x]) \cup {x}
  PROVE  \A d \in Blocks : d \in Dom(x) /\ d \in Dom(y) <=> d \in Dom(idom[x]) /\ d \in Dom(y)
<1>1. x \notin Dom(y)
  <2> SUFFICES ASSUME x \in Dom(y) PROVE FALSE
    OBVIOUS
  <2>1. order[x] >= order[y]
    BY DomComesLater
  <2>2. order[x] \in Nat /\ order[y] \in Nat
    BY DEF TypeInv
  <2> QED
    BY <2>1, <2>2
<1> QED
  BY <1>1

\* When all the edges into a block are resolved, its dominator is right.
LEMMA BlockFinished ==
  ASSUME IInv, DomInv, phase = "dominators", edge > Len(EdgesInto(post_order[block])),
         post_order[block] # Entry
  PROVE  IsExact(post_order[block])
<1> DEFINE x == post_order[block]
           e == EdgesInto(x)
<1>1. TypeInv /\ OrderInv /\ StackInv /\ FedInv /\ TreeInv /\ Sweeping /\ ~Walking
  BY DEF IInv, Sweeping, Walking
<1>2. x \in Blocks /\ order[x] = block /\ block # 0
  BY <1>1, AtBlock
<1>3. /\ e \in Seq(Ids) /\ EdgeSet(x) = {e[i] : i \in DOMAIN e}
      /\ edge \in Nat \ {0} /\ Len(e) \in Nat /\ DOMAIN e = 1 .. Len(e)
  <2>1. e \in Seq(Ids) /\ EdgeSet(x) = {e[i] : i \in DOMAIN e}
    BY <1>1, <1>2, EdgesExact
  <2> QED
    BY <2>1, <1>1 DEF TypeInv
<1>4. EdgeSet(x) # {}
  <2>1. ~Pending(x)
    BY <1>1 DEF StackInv, Pending
  <2>2. x \in visited
    BY <1>1, <1>2 DEF OrderInv
  <2> QED
    BY <1>1, <1>2, <2>1, <2>2 DEF FedInv
<1> HIDE DEF e
<1>5. edge = Len(e) + 1 /\ edge > 1
  <2>1. edge <= Len(e) + 1
    BY <1>1 DEF DomInv, e
  <2>2. Len(e) # 0
    BY <1>3, <1>4
  <2> QED
    BY <2>1, <2>2, <1>3 DEF e
<1>6. idom[x] \in Blocks /\ order[idom[x]] > order[x]
  BY <1>1, <1>2, <1>5 DEF TreeInv, TypeInv
<1>7. \A d \in Blocks : d \in Dom(idom[x]) <=> \A i \in DOMAIN e : d \in Dom(e[i])
  <2>1. edge - 1 = Len(e)
    BY <1>3, <1>5
  <2> QED
    BY <1>1, <1>3, <1>5, <2>1 DEF DomInv, e
<1>8. \A d \in Blocks : d \in Dom(x) <=> d = x \/ d \in Dom(idom[x])
  <2>1. \A d \in Blocks : d \in Dom(x) <=> d = x \/ \A z \in EdgeSet(x) : d \in Dom(z)
    BY <1>1, <1>2, DomByEdges
  <2> QED
    BY <1>3, <1>7, <2>1
<1>9. Dom(x) = Dom(idom[x]) \cup {x}
  BY <1>2, <1>8 DEF Dom
<1> QED
  BY <1>6, <1>9 DEF IsExact

\* Every step but those of the sweep leaves the tree alone.
LEMMA DomWhileWalking ==
  ASSUME IInv, IInv', Walking, [Next]_vars
  PROVE  DomInv'
<1>1. CASE Walking'
  BY <1>1 DEF DomInv, Sweeping, Walking
<1>2. CASE ~Walking'
  <2>1. post_order_visit_resolve
    BY <1>2 DEF Next, vars, Walking, StartVisit, visit_branch, EndVisit, NextBlock, ResolveEdge, Climb,
                CommonDominator, traversal
  <2>2. phase' = "dominators" /\ block' = Len(post_order') /\ edge' = 1
    BY <1>2, <2>1 DEF post_order_visit_resolve, Walking
  <2>3. TypeInv' /\ OrderInv' /\ TreeInv' /\ Sweeping'
    BY <2>2 DEF IInv, Sweeping
  <2>4. order'[Entry] = Len(post_order') /\ block' \in DOMAIN post_order'
    BY <2>3 DEF TreeInv
  <2>5. \A y \in Blocks : order'[y] \in Nat /\ order'[y] <= Len(post_order')
    BY <2>3 DEF TypeInv, OrderInv
  <2>6. post_order'[block'] = Entry
    <3>1. Entry \in Blocks /\ Len(post_order') \in Nat /\ Len(post_order') # 0
      <4>1. Entry \in Blocks
        BY Branches DEF IInv, TypeInv
      <4>2. post_order' \in Seq(Ids')
        BY <2>3 DEF TypeInv
      <4> QED
        BY <4>1, <4>2, <2>2, <2>4
    <3> QED
      BY <3>1, <2>2, <2>3, <2>4 DEF OrderInv
  <2>7. \A y \in Blocks : ~(order'[y] > block')
    BY <2>2, <2>4, <2>5
  <2> QED
    BY <2>2, <2>6, <2>7 DEF DomInv
<1> QED
  BY <1>1, <1>2

LEMMA DomStep ==
  ASSUME IInv, IInv', DomInv, [Next]_vars
  PROVE  DomInv'
<1> DEFINE x == post_order[block]
           e == EdgesInto(x)
<1>1. CASE Walking
  BY <1>1, DomWhileWalking
<1>2. CASE NextBlock
  <2>1. /\ phase = "dominators" /\ Sweeping /\ ~Walking /\ edge > Len(e)
        /\ UNCHANGED <<order, post_order, preceding, virtual_preceding, idom>>
    BY <1>2 DEF NextBlock, Sweeping, Walking, traversal, edges
  <2>2. TypeInv /\ OrderInv /\ StackInv /\ TreeInv /\ TypeInv' /\ OrderInv' /\ TreeInv'
    BY DEF IInv
  <2>3. x \in Blocks /\ order[x] = block /\ block \in Nat \ {0} /\ \A y \in Blocks : order[y] \in Nat
    BY <2>1, <2>2, AtBlock
  <2>4. \A y \in Blocks : IsExact(y)' = IsExact(y)
    BY <2>1, DomKept DEF IsExact
  <2>5. x # Entry => IsExact(x)
    BY <2>1, BlockFinished
  <2>6. \A y \in Blocks : y # Entry /\ order[y] >= block => IsExact(y)
    <3> SUFFICES ASSUME NEW y \in Blocks, y # Entry, order[y] >= block PROVE IsExact(y)
      OBVIOUS
    <3>1. order[y] = block \/ order[y] > block
      BY <2>3
    <3>2. CASE order[y] = block
      BY <3>2, <2>1, <2>2, <2>5, AtBlock
    <3>3. CASE order[y] > block
      BY <3>3, <2>1 DEF DomInv
    <3> QED
      BY <3>1, <3>2, <3>3
  <2>7. CASE block = 1
    <3>1. phase' = "done"
      BY <1>2, <2>7 DEF NextBlock
    <3>2. \A y \in Blocks : order[y] # 0 => order[y] >= block
      BY <2>3, <2>7
    <3>3. order[Entry] = Len(post_order) /\ idom[Entry] = Entry
      BY <2>1, <2>2 DEF TreeInv
    <3>4. order'[Entry] = Len(post_order') /\ idom'[Entry] = Entry
      BY <2>1, <3>3
    <3>5. \A y \in Blocks : y # Entry /\ order'[y] # 0 => IsExact(y)'
      BY <2>1, <2>4, <2>6, <3>2
    <3> QED
      BY <3>1, <3>4, <3>5 DEF DomInv, Sweeping
  <2>8. CASE block # 1
    <3>1. phase' = "dominators" /\ block' = block - 1 /\ edge' = 1
      BY <1>2, <2>1, <2>8 DEF NextBlock
    <3>2. Sweeping'
      BY <3>1 DEF Sweeping
    <3>3. \A y \in Blocks : y # Entry /\ order'[y] > block' => IsExact(y)'
      BY <2>1, <2>3, <2>4, <2>6, <3>1
    <3>0. PICK z : z = post_order[block - 1]
      OBVIOUS
    <3>4. z \in Blocks /\ order[z] = block - 1 /\ block - 1 \in Nat
      <4>1. post_order \in Seq(Ids) /\ Ids \subseteq Blocks /\ block \in DOMAIN post_order
        BY <2>1, <2>2, Branches DEF TypeInv, TreeInv
      <4>2. block - 1 \in DOMAIN post_order
        BY <4>1, <2>3, <2>8
      <4> QED
        BY <4>1, <4>2, <2>2, <3>0 DEF OrderInv
    <3>5. z # Entry => idom[z] = NoBlock
      <4>1. order[z] < block
        BY <2>3, <3>4
      <4> QED
        BY <2>1, <2>2, <3>4, <4>1 DEF TreeInv
    <3>6. z = post_order'[block'] /\ EdgesInto(post_order[block])' = EdgesInto(z)
      BY <2>1, <3>0, <3>1 DEF EdgesInto
    <3>7. edge' <= Len(EdgesInto(post_order[block])') + 1
      <4>1. EdgesInto(z) \in Seq(Ids)
        BY <2>2, <3>4, EdgesExact
      <4>2. Len(EdgesInto(z)) \in Nat
        BY <4>1
      <4> QED
        BY <3>1, <3>6, <4>2
    <3> QED
      BY <2>1, <3>1, <3>2, <3>3, <3>5, <3>6, <3>7 DEF DomInv
  <2> QED
    BY <2>7, <2>8
<1>3. ASSUME UNCHANGED <<order, post_order, preceding, virtual_preceding, block>>
      PROVE  /\ e' = e /\ x' = x /\ RecordedFlow' = RecordedFlow
             /\ \A y : Dom(y)' = Dom(y)
  BY <1>3, DomKept DEF EdgesInto
<1>4. CASE ResolveEdge
  <2>1. /\ phase = "dominators" /\ Sweeping /\ ~Walking /\ edge <= Len(e)
        /\ UNCHANGED <<order, post_order, preceding, virtual_preceding, block>>
    BY <1>4 DEF ResolveEdge, Sweeping, Walking, traversal, edges
  <2>2. TypeInv /\ OrderInv /\ StackInv /\ TreeInv /\ EdgesDescend /\ TypeInv'
    BY DEF IInv
  <2>3. x \in Blocks /\ order[x] = block /\ block \in Nat \ {0} /\ edge \in Nat \ {0}
    BY <2>1, <2>2, AtBlock DEF TypeInv
  <2>4. x # Entry /\ e[edge] \in Blocks /\ order[e[edge]] > block
    BY <1>4, <2>2, AtEdge
  <2>5. e \in Seq(Ids) /\ Len(e) \in Nat
    BY <2>2, <2>3, EdgesExact
  <2> HIDE DEF e, x
  <2>6. CASE idom[x] = NoBlock
    <3>1. idom' = [idom EXCEPT ![x] = e[edge]] /\ edge' = edge + 1 /\ phase' = phase
      BY <1>4, <2>6 DEF ResolveEdge, x, e
    <3>2. idom'[x] = e[edge] /\ \A y \in Blocks : y # x => idom'[y] = idom[y]
      BY <2>2, <2>3, <3>1 DEF TypeInv
    <3>3. edge = 1
      BY <2>1, <2>2, <2>3, <2>6 DEF TreeInv, x
    <3>4. \A y \in Blocks : y # Entry /\ order'[y] > block' => IsExact(y)'
      <4> SUFFICES ASSUME NEW y \in Blocks, y # Entry, order'[y] > block' PROVE IsExact(y)'
        OBVIOUS
      <4>1. IsExact(y) /\ y # x
        BY <2>1, <2>3 DEF DomInv
      <4> QED
        BY <4>1, <3>2, <2>1, <1>3 DEF IsExact
    <3>8. e' = e /\ x' = x /\ RecordedFlow' = RecordedFlow
      BY <2>1, <1>3 DEF e, x
    <3>5. (\A d \in Blocks : d \in Dom(idom[x]) <=> \A i \in 1 .. (edge - 1) : d \in Dom(e[i]))'
      <4>1. edge' - 1 = 1 /\ idom'[x'] = e'[1]
        BY <3>1, <3>2, <3>3, <3>8
      <4> QED
        BY <4>1, <3>8 DEF Dom
    <3>6. edge' <= Len(e) + 1 /\ edge' # 1
      BY <2>1, <2>3, <2>5, <3>1
    <3>7. Sweeping' /\ phase' = "dominators"
      BY <2>1, <3>1 DEF Sweeping
    <3> QED
      BY <3>4, <3>5, <3>6, <3>7, <3>8 DEF DomInv, e, x
  <2>7. CASE idom[x] # NoBlock
    <3>1. phase' = "common" /\ a' = idom[x] /\ b' = e[edge] /\ UNCHANGED <<idom, edge>>
      BY <1>4, <2>7 DEF ResolveEdge, x, e
    <3>2. edge > 1
      BY <2>1, <2>3, <2>4, <2>7 DEF DomInv, x
    <3>3. Sweeping'
      BY <3>1 DEF Sweeping
    <3>4. e' = e /\ x' = x /\ RecordedFlow' = RecordedFlow /\ \A y : Dom(y)' = Dom(y)
      BY <2>1, <1>3 DEF e, x
    <3>5. \A y \in Blocks : y # Entry /\ order'[y] > block' => IsExact(y)'
      BY <2>1, <3>1, <3>4 DEF DomInv, IsExact
    <3>6. /\ edge <= Len(e) + 1
          /\ \A d \in Blocks : d \in Dom(idom[x]) <=> \A i \in 1 .. (edge - 1) : d \in Dom(e[i])
      BY <2>1, <2>4, <3>2 DEF DomInv, e, x
    <3>7. edge' <= Len(e') + 1 /\ edge' > 1 /\ edge' # 1 /\ edge' <= Len(e')
      BY <2>1, <2>3, <3>1, <3>2, <3>4, <3>6
    <3>8. /\ (\A d \in Blocks : d \in Dom(idom[x]) <=> \A i \in 1 .. (edge - 1) : d \in Dom(e[i]))'
          /\ (\A d \in Blocks : d \in Dom(a) /\ d \in Dom(b) <=> d \in Dom(idom[x]) /\ d \in Dom(e[edge]))'
      BY <3>1, <3>4, <3>6 DEF Dom
    <3> QED
      BY <3>1, <3>3, <3>5, <3>7, <3>8 DEF DomInv, e, x
  <2> QED
    BY <2>6, <2>7
<1>5. CASE Climb
  <2>1. /\ phase = "common" /\ phase' = "common" /\ Sweeping /\ Sweeping' /\ ~Walking /\ a # b
        /\ UNCHANGED <<order, post_order, preceding, virtual_preceding, block, idom, edge>>
    BY <1>5 DEF Climb, Sweeping, Walking, traversal, edges
  <2>2. TypeInv /\ OrderInv /\ StackInv /\ FedInv /\ TreeInv /\ EdgesDescend
    BY DEF IInv
  <2>3. /\ a \in Blocks /\ b \in Blocks /\ order[a] > block /\ order[b] > block
        /\ block \in Nat \ {0} /\ \A y \in Blocks : order[y] \in Nat /\ order[y] <= order[Entry]
    BY <2>1, <2>2, AtBlock DEF TreeInv
  <2>4. e' = e /\ x' = x /\ RecordedFlow' = RecordedFlow /\ \A y : Dom(y)' = Dom(y)
    BY <2>1, <1>3
  <2> HIDE DEF e, x
  <2>5. order[a] # order[b]
    BY <2>1, <2>2, <2>3 DEF OrderInv
  <2>6. \A d \in Blocks : d \in Dom(a') /\ d \in Dom(b') <=> d \in Dom(a) /\ d \in Dom(b)
    <3>1. CASE order[a] < order[b]
      <4>1. a # Entry
        BY <2>3, <3>1
      <4>2. Dom(a) = Dom(idom[a]) \cup {a}
        BY <2>1, <2>3, <4>1 DEF DomInv, IsExact
      <4>3. a' = idom[a] /\ b' = b
        BY <1>5, <3>1 DEF Climb, ClimbsFirst
      <4>4. order[b] # 0
        BY <2>3
      <4>5. \A d \in Blocks : d \in Dom(a) /\ d \in Dom(b) <=> d \in Dom(idom[a]) /\ d \in Dom(b)
        BY <2>1, <2>2, <2>3, <3>1, <4>2, <4>4, ClimbKeeps
      <4> QED
        BY <4>3, <4>5
    <3>2. CASE order[b] < order[a]
      <4>1. b # Entry
        BY <2>3, <3>2
      <4>2. Dom(b) = Dom(idom[b]) \cup {b}
        BY <2>1, <2>3, <4>1 DEF DomInv, IsExact
      <4>3. b' = idom[b] /\ a' = a
        <5>1. ~(order[a] < order[b])
          BY <2>3, <3>2
        <5> QED
          BY <1>5, <5>1 DEF Climb, ClimbsFirst
      <4>4. order[a] # 0
        BY <2>3
      <4>5. \A d \in Blocks : d \in Dom(b) /\ d \in Dom(a) <=> d \in Dom(idom[b]) /\ d \in Dom(a)
        BY <2>1, <2>2, <2>3, <3>2, <4>2, <4>4, ClimbKeeps
      <4> QED
        BY <4>3, <4>5
    <3> QED
      BY <2>3, <2>5, <3>1, <3>2
  <2>7. \A y \in Blocks : y # Entry /\ order'[y] > block' => IsExact(y)'
    BY <2>1, <2>4 DEF DomInv, IsExact
  <2>8. /\ x # Entry => edge <= Len(e) + 1
        /\ x # Entry => \A d \in Blocks : d \in Dom(idom[x]) <=> \A i \in 1 .. (edge - 1) : d \in Dom(e[i])
        /\ edge > 1 /\ edge # 1 /\ edge <= Len(e)
        /\ \A d \in Blocks : d \in Dom(a) /\ d \in Dom(b) <=> d \in Dom(idom[x]) /\ d \in Dom(e[edge])
    <3>1. edge > 1 /\ edge # 1
      BY <2>1, <2>2 DEF DomInv, TypeInv
    <3> QED
      BY <2>1, <3>1 DEF DomInv, e, x
  <2>9. (x # Entry => \A d \in Blocks : d \in Dom(idom[x]) <=> \A i \in 1 .. (edge - 1) : d \in Dom(e[i]))'
    BY <2>1, <2>4, <2>8 DEF Dom
  <2>10. (\A d \in Blocks : d \in Dom(a) /\ d \in Dom(b) <=> d \in Dom(idom[x]) /\ d \in Dom(e[edge]))'
    <3>1. \A d \in Blocks : d \in Dom(a') /\ d \in Dom(b') <=> d \in Dom(idom[x]) /\ d \in Dom(e[edge])
      BY <2>6, <2>8
    <3> QED
      BY <3>1, <2>1, <2>4 DEF Dom
  <2>11. edge' > 1 /\ edge' # 1 /\ edge' <= Len(e') /\ (x' # Entry => edge' <= Len(e') + 1)
    BY <2>1, <2>4, <2>8
  <2> QED
    BY <2>1, <2>7, <2>9, <2>10, <2>11 DEF DomInv, e, x
<1>6. CASE CommonDominator
  <2>1. /\ phase = "common" /\ phase' = "dominators" /\ Sweeping /\ Sweeping' /\ a = b
        /\ UNCHANGED <<order, post_order, preceding, virtual_preceding, block>>
        /\ idom' = [idom EXCEPT ![x] = a] /\ edge' = edge + 1
    BY <1>6 DEF CommonDominator, Sweeping, traversal, edges
  <2>2. TypeInv /\ OrderInv /\ TreeInv
    BY DEF IInv
  <2>3. x \in Blocks /\ order[x] = block /\ block \in Nat \ {0} /\ edge \in Nat \ {0} /\ x # Entry
    BY <2>1, <2>2, AtBlock DEF TypeInv, TreeInv
  <2>4. e' = e /\ x' = x /\ RecordedFlow' = RecordedFlow /\ \A y : Dom(y)' = Dom(y)
    BY <2>1, <1>3
  <2>5. e \in Seq(Ids) /\ Len(e) \in Nat
    BY <2>2, <2>3, EdgesExact
  <2> HIDE DEF e, x
  <2>6. idom'[x] = a /\ \A y \in Blocks : y # x => idom'[y] = idom[y]
    BY <2>1, <2>2, <2>3 DEF TypeInv
  <2>7. \A y \in Blocks : y # Entry /\ order'[y] > block' => IsExact(y)'
    <3> SUFFICES ASSUME NEW y \in Blocks, y # Entry, order'[y] > block' PROVE IsExact(y)'
      OBVIOUS
    <3>1. IsExact(y) /\ y # x
      BY <2>1, <2>3 DEF DomInv
    <3> QED
      BY <3>1, <2>1, <2>4, <2>6 DEF IsExact, Dom
  <2>8. /\ edge > 1 /\ edge <= Len(e)
        /\ \A d \in Blocks : d \in Dom(idom[x]) <=> \A i \in 1 .. (edge - 1) : d \in Dom(e[i])
        /\ \A d \in Blocks : d \in Dom(a) /\ d \in Dom(b) <=> d \in Dom(idom[x]) /\ d \in Dom(e[edge])
    <3>1. edge > 1
      BY <2>1 DEF DomInv
    <3> QED
      BY <2>1, <2>3, <3>1 DEF DomInv, e, x
  <2>9. \A d \in Blocks : d \in Dom(a) <=> \A i \in 1 .. edge : d \in Dom(e[i])
    <3>1. 1 .. edge = (1 .. (edge - 1)) \cup {edge}
      BY <2>3
    <3> QED
      BY <2>1, <2>8, <3>1
  <2>10. edge' - 1 = edge /\ edge' # 1 /\ edge' > 1 /\ edge' <= Len(e') + 1
    BY <2>1, <2>3, <2>4, <2>5, <2>8
  <2>11. (\A d \in Blocks : d \in Dom(idom[x]) <=> \A i \in 1 .. (edge - 1) : d \in Dom(e[i]))'
    BY <2>4, <2>6, <2>9, <2>10 DEF Dom
  <2> QED
    BY <2>1, <2>7, <2>10, <2>11 DEF DomInv, e, x
<1>7. CASE UNCHANGED vars
  <2>1. UNCHANGED <<order, post_order, preceding, virtual_preceding, block, phase, idom, edge, a, b>>
    BY <1>7 DEF vars, traversal, edges
  <2>2. e' = e /\ x' = x /\ RecordedFlow' = RecordedFlow
    BY <2>1, <1>3
  <2>3. \A y : IsExact(y)' = IsExact(y)
    BY <2>1, <2>2 DEF IsExact, Dom
  <2> QED
    BY <2>1, <2>2, <2>3 DEF DomInv, Sweeping, Dom
<1>8. CASE StartVisit \/ visit_branch \/ EndVisit \/ post_order_visit_resolve
  BY <1>1, <1>8 DEF StartVisit, visit_branch, EndVisit, post_order_visit_resolve, Walking
<1> QED
  BY <1>2, <1>4, <1>5, <1>6, <1>7, <1>8 DEF Next

LEMMA DomInvariance == Spec => []DomInv
<1>1. Init => DomInv
  BY DEF Init, DomInv, Sweeping
<1>2. IInv /\ IInv' /\ DomInv /\ [Next]_vars => DomInv'
  BY DomStep
<1> QED
  BY <1>1, <1>2, Invariance, PTL DEF Spec

-------------------------------------------------------------------------------
\* The tree as DominatorsOf reads it.

\* The sets of blocks DominatorsOf goes through.
LEMMA AboveSteps ==
  ASSUME TypeInv, NEW x \in Blocks
  PROVE  \E above \in [0 .. Cardinality(Blocks) -> SUBSET (Blocks \cup {NoBlock})] :
           /\ above[0] = {x}
           /\ \A n \in 1 .. Cardinality(Blocks) : above[n] = {idom[y] : y \in above[n - 1] \ {NoBlock}}
           /\ DominatorsOf(x) = UNION {above[n] : n \in 0 .. Cardinality(Blocks)}
<1> DEFINE N == Cardinality(Blocks)
           T == SUBSET (Blocks \cup {NoBlock})
           c == {x}
           Is(above) == above = [n \in 0 .. N |->
                          IF n = 0 THEN {x} ELSE {idom[y] : y \in above[n - 1] \ {NoBlock}}]
           F == [S \in T |-> {idom[y] : y \in S \ {NoBlock}}]
<1>1. N \in Nat
  BY BlocksAssumption, FS_CardinalityType
<1>2. IsMapOn(F, T) /\ c \in T
  <2>1. ASSUME NEW S \in T PROVE {idom[y] : y \in S \ {NoBlock}} \in T
    <3>1. \A y \in S \ {NoBlock} : idom[y] \in Blocks \cup {NoBlock}
      BY DEF TypeInv
    <3> QED
      BY <3>1
  <2> QED
    BY <2>1 DEF IsMapOn
<1>3. PICK g : IsIteration(g, F, c, T, N)
  <2> HIDE DEF F, N, T, c
  <2> QED
    BY <1>1, <1>2, Iterates
<1>4. g \in [0 .. N -> T] /\ g[0] = {x} /\ \A n \in 1 .. N : g[n] = {idom[y] : y \in g[n - 1] \ {NoBlock}}
  <2>1. g \in [0 .. N -> T] /\ g[0] = {x} /\ \A n \in 1 .. N : g[n] = F[g[n - 1]]
    BY <1>3 DEF IsIteration
  <2>2. \A n \in 1 .. N : n - 1 \in 0 .. N
    BY <1>1
  <2> QED
    BY <2>1, <2>2
<1>5. Is(g)
  <2>1. ASSUME NEW n \in 0 .. N
        PROVE  g[n] = IF n = 0 THEN {x} ELSE {idom[y] : y \in g[n - 1] \ {NoBlock}}
    <3>1. n = 0 \/ n \in 1 .. N
      BY <1>1
    <3> QED
      BY <3>1, <1>4
  <2> QED
    BY <2>1, <1>4
<1> DEFINE r == CHOOSE above : Is(above)
<1>6. Is(r)
  <2> HIDE DEF Is
  <2> QED
    BY <1>5
<1>7. DominatorsOf(x) = UNION {r[n] : n \in 0 .. N}
  BY DEF DominatorsOf
<1> HIDE DEF r
<1>8. /\ r[0] = {x} /\ \A n \in 1 .. N : r[n] = {idom[y] : y \in r[n - 1] \ {NoBlock}}
      /\ r = [n \in 0 .. N |-> r[n]]
  <2>1. /\ r = [n \in 0 .. N |-> r[n]]
        /\ \A n \in 0 .. N : r[n] = IF n = 0 THEN {x} ELSE {idom[y] : y \in r[n - 1] \ {NoBlock}}
    BY <1>6
  <2>2. 0 \in 0 .. N /\ \A n \in 1 .. N : n \in 0 .. N /\ n # 0
    BY <1>1
  <2> HIDE DEF Is, N, T, F, c
  <2> QED
    BY <2>1, <2>2
<1>9. \A n \in 0 .. N : r[n] \in T
  <2> DEFINE S == {n \in Nat : n <= N => r[n] \in T}
  <2>1. 0 \in S
    BY <1>8
  <2>2. ASSUME NEW n \in Nat, n \in S PROVE n + 1 \in S
    <3> SUFFICES ASSUME n + 1 <= N PROVE r[n + 1] \in T
      OBVIOUS
    <3>1. n + 1 \in 1 .. N /\ n + 1 - 1 = n /\ r[n] \in T
      BY <1>1, <2>2
    <3>2. r[n + 1] = {idom[y] : y \in r[n] \ {NoBlock}}
      <4>1. \A i \in 1 .. N : r[i] = {idom[y] : y \in r[i - 1] \ {NoBlock}}
        BY <1>8
      <4>2. r[n + 1] = {idom[y] : y \in r[n + 1 - 1] \ {NoBlock}}
        BY <3>1, <4>1
      <4> QED
        BY <3>1, <4>2
    <3>3. \A y \in r[n] \ {NoBlock} : idom[y] \in Blocks \cup {NoBlock}
      BY <3>1 DEF TypeInv
    <3> QED
      BY <3>2, <3>3
  <2> HIDE DEF S
  <2>3. Nat \subseteq S
    BY <2>1, <2>2, SetInduction
  <2> QED
    BY <2>3, <1>1 DEF S
<1>10. r \in [0 .. N -> T]
  BY <1>8, <1>9
<1> QED
  BY <1>7, <1>8, <1>10

\* The post order has no more entries than there are blocks.
LEMMA OrderIsBounded ==
  ASSUME TypeInv, OrderInv
  PROVE  Len(post_order) <= Cardinality(Blocks)
<1> DEFINE n == Len(post_order)
           I == 1 .. n
<1>1. post_order \in Seq(Ids) /\ Ids \subseteq Blocks /\ n \in Nat
  BY Branches DEF TypeInv
<1>2. post_order \in [I -> Blocks]
  BY <1>1
<1>3. \A i, j \in I : post_order[i] = post_order[j] => i = j
  BY <1>1 DEF OrderInv
<1>4. post_order \in Injection(I, Blocks)
  BY <1>2, <1>3 DEF Injection, IsInjective
<1>5. Cardinality(I) <= Cardinality(Blocks)
  <2> HIDE DEF I
  <2> QED
    BY <1>4, BlocksAssumption, FS_Injection
<1>6. Cardinality(I) = n
  <2>1. Cardinality(1 .. n) = IF 1 > n THEN 0 ELSE n - 1 + 1
    BY <1>1, FS_Interval
  <2> QED
    BY <1>1, <2>1
<1> QED
  BY <1>5, <1>6

\* DominatorsOf(x) is the least set which contains x and the immediate dominator
\* of every block in it.
LEMMA AboveIsClosed ==
  ASSUME IInv, DomInv, phase = "done", NEW x \in Numbered
  PROVE  /\ DominatorsOf(x) \subseteq Numbered /\ x \in DominatorsOf(x)
         /\ \A y \in DominatorsOf(x) : idom[y] \in DominatorsOf(x)
         /\ \A S : x \in S /\ (\A y \in S \cap Numbered : idom[y] \in S) => DominatorsOf(x) \subseteq S
<1> DEFINE N == Cardinality(Blocks)
<1>1. TypeInv /\ OrderInv /\ Entry \in Blocks /\ NoBlock \notin Blocks /\ x \in Blocks /\ N \in Nat
  BY Branches, BlocksAssumption, FS_CardinalityType DEF IInv, TypeInv, Numbered
<1>2. PICK above \in [0 .. N -> SUBSET (Blocks \cup {NoBlock})] :
        /\ above[0] = {x}
        /\ \A n \in 1 .. N : above[n] = {idom[y] : y \in above[n - 1] \ {NoBlock}}
        /\ DominatorsOf(x) = UNION {above[n] : n \in 0 .. N}
  BY <1>1, AboveSteps
<1>3. /\ order[Entry] = Len(post_order) /\ idom[Entry] = Entry
      /\ \A y \in Blocks : y # Entry /\ order[y] # 0 => idom[y] \in Blocks /\ order[idom[y]] > order[y]
      /\ \A y \in Blocks : order[y] \in Nat /\ order[y] <= Len(post_order)
      /\ Len(post_order) \in Nat
  <2>1. post_order \in Seq(Ids) /\ \A y \in Blocks : order[y] \in Nat /\ order[y] <= Len(post_order)
    BY <1>1 DEF TypeInv, OrderInv
  <2>2. /\ order[Entry] = Len(post_order) /\ idom[Entry] = Entry
        /\ \A y \in Blocks : y # Entry /\ order[y] # 0 => IsExact(y)
    BY DEF DomInv
  <2> QED
    BY <2>1, <2>2 DEF IsExact
<1>4. \A y \in Numbered : y \in Blocks /\ idom[y] \in Numbered /\ (y # Entry => order[idom[y]] > order[y])
  BY <1>1, <1>3 DEF Numbered
<1> HIDE DEF N
<1>5. \A n \in 0 .. N : \A y \in above[n] : y \in Numbered /\ (y = Entry \/ order[y] > n)
  <2> DEFINE S == {n \in Nat : n <= N => \A y \in above[n] : y \in Numbered /\ (y = Entry \/ order[y] > n)}
  <2>1. 0 \in S
    BY <1>2, <1>3, <1>4 DEF Numbered
  <2>2. ASSUME NEW n \in Nat, n \in S PROVE n + 1 \in S
    <3> SUFFICES ASSUME n + 1 <= N, NEW z \in above[n + 1]
                 PROVE  z \in Numbered /\ (z = Entry \/ order[z] > n + 1)
      OBVIOUS
    <3>1. n + 1 \in 1 .. N /\ n + 1 - 1 = n /\ n <= N
      BY <1>1
    <3>2. above[n + 1] = {idom[y] : y \in above[n] \ {NoBlock}}
      BY <3>1, <1>2
    <3>3. PICK y \in above[n] : z = idom[y]
      BY <3>2
    <3>4. y \in Numbered /\ (y = Entry \/ order[y] > n)
      BY <3>1, <3>3, <2>2
    <3>5. CASE y = Entry
      BY <3>3, <3>4, <3>5, <1>3
    <3>6. CASE y # Entry
      <4>1. z \in Numbered /\ order[z] > order[y] /\ order[y] > n
        BY <3>3, <3>4, <3>6, <1>4
      <4>2. order[z] \in Nat /\ order[y] \in Nat
        BY <4>1, <3>4, <1>3, <1>4
      <4> QED
        BY <4>1, <4>2
    <3> QED
      BY <3>5, <3>6
  <2> HIDE DEF S
  <2>3. Nat \subseteq S
    BY <2>1, <2>2, SetInduction
  <2> QED
    BY <2>3, <1>1 DEF S
<1>6. DominatorsOf(x) \subseteq Numbered /\ x \in DominatorsOf(x)
  <2>1. 0 \in 0 .. N
    BY <1>1
  <2> QED
    BY <2>1, <1>2, <1>5
<1>7. ASSUME NEW y \in DominatorsOf(x) PROVE idom[y] \in DominatorsOf(x)
  <2>1. PICK n \in 0 .. N : y \in above[n]
    BY <1>2
  <2>2. y \in Numbered /\ (y = Entry \/ order[y] > n) /\ y # NoBlock
    BY <2>1, <1>1, <1>4, <1>5
  <2>3. CASE n = N
    <3>1. y = Entry
      <4>1. Len(post_order) <= N
        BY <1>1, OrderIsBounded DEF N
      <4>2. order[y] <= Len(post_order) /\ order[y] \in Nat
        BY <2>2, <1>3, <1>4
      <4> QED
        BY <4>1, <4>2, <2>2, <2>3, <1>1, <1>3
    <3> QED
      BY <3>1, <1>3
  <2>4. CASE n # N
    <3>1. n + 1 \in 1 .. N /\ n + 1 - 1 = n /\ n + 1 \in 0 .. N
      BY <2>4, <1>1
    <3>2. above[n + 1] = {idom[z] : z \in above[n] \ {NoBlock}}
      BY <3>1, <1>2
    <3>3. idom[y] \in above[n + 1]
      BY <3>2, <2>1, <2>2
    <3> QED
      BY <3>1, <3>3, <1>2
  <2> QED
    BY <2>3, <2>4
<1>8. ASSUME NEW U, x \in U, \A y \in U \cap Numbered : idom[y] \in U
      PROVE  DominatorsOf(x) \subseteq U
  <2> DEFINE S == {n \in Nat : n <= N => above[n] \subseteq U}
  <2>1. 0 \in S
    BY <1>2, <1>8
  <2>2. ASSUME NEW n \in Nat, n \in S PROVE n + 1 \in S
    <3> SUFFICES ASSUME n + 1 <= N PROVE above[n + 1] \subseteq U
      OBVIOUS
    <3>1. n + 1 \in 1 .. N /\ n + 1 - 1 = n /\ n <= N /\ n \in 0 .. N
      BY <1>1
    <3>2. above[n + 1] = {idom[y] : y \in above[n] \ {NoBlock}}
      BY <3>1, <1>2
    <3>3. above[n] \subseteq U \cap Numbered
      BY <3>1, <2>2, <1>5
    <3> QED
      BY <3>2, <3>3, <1>8
  <2> HIDE DEF S
  <2>3. Nat \subseteq S
    BY <2>1, <2>2, SetInduction
  <2> QED
    BY <2>3, <1>1, <1>2 DEF S
<1> QED
  BY <1>6, <1>7, <1>8

\* The blocks above a block in the tree are the blocks which dominate it.
LEMMA TreeIsDominance ==
  ASSUME IInv, DomInv, phase = "done", NEW x \in Numbered
  PROVE  DominatorsOf(x) = Dom(x) /\ Dom(x) \subseteq Numbered
<1>1. /\ TypeInv /\ OrderInv /\ StackInv /\ FedInv /\ EdgesDescend /\ ~Walking
      /\ Entry \in Blocks /\ x \in Blocks /\ order[x] # 0
  BY Branches DEF IInv, TypeInv, Walking, Numbered
<1>2. /\ idom[Entry] = Entry /\ order[Entry] = Len(post_order)
      /\ \A y \in Blocks : order[y] \in Nat /\ order[y] <= Len(post_order)
      /\ Len(post_order) \in Nat
  <2>1. post_order \in Seq(Ids)
    BY <1>1 DEF TypeInv
  <2> QED
    BY <1>1, <2>1 DEF DomInv, TypeInv, OrderInv
<1>3. \A y \in Numbered : y \in Blocks /\ (y # Entry => Dom(y) = Dom(idom[y]) \cup {y} /\ order[idom[y]] > order[y])
  BY <1>1 DEF DomInv, IsExact, Numbered
<1>4. /\ DominatorsOf(x) \subseteq Numbered /\ x \in DominatorsOf(x)
      /\ \A y \in DominatorsOf(x) : idom[y] \in DominatorsOf(x)
      /\ \A S : x \in S /\ (\A y \in S \cap Numbered : idom[y] \in S) => DominatorsOf(x) \subseteq S
  BY AboveIsClosed
<1>5. DominatorsOf(x) \subseteq Dom(x)
  <2> DEFINE S == {y \in Blocks : Dom(y) \subseteq Dom(x)}
  <2>1. \A y \in S \cap Numbered : idom[y] \in S
    <3> SUFFICES ASSUME NEW y \in S, y \in Numbered PROVE idom[y] \in S
      OBVIOUS
    <3>1. CASE y = Entry
      BY <3>1, <1>2
    <3>2. CASE y # Entry
      BY <3>2, <1>1, <1>3 DEF DomInv, IsExact, Numbered
    <3> QED
      BY <3>1, <3>2
  <2>2. x \in S
    BY <1>1
  <2>3. DominatorsOf(x) \subseteq S
    BY <1>4, <2>1, <2>2
  <2> QED
    BY <1>1, <2>3, DomOfItself
<1>6. ASSUME NEW d \in Dom(x) PROVE d \in DominatorsOf(x)
  <2> DEFINE Bad(y) == y \in DominatorsOf(x) /\ d \in Dom(y)
             S == {order[y] : y \in {z \in Blocks : Bad(z)}}
  <2>1. S \in SUBSET Nat /\ S # {} /\ \A k \in S : k <= Len(post_order)
    BY <1>1, <1>2, <1>4, <1>6
  <2>2. PICK m \in S : \A k \in S : k <= m
    BY <2>1, <1>2, GreatestNatural
  <2>3. PICK y \in Blocks : Bad(y) /\ m = order[y]
    OBVIOUS
  <2>4. y \in Numbered /\ idom[y] \in DominatorsOf(x)
    BY <2>3, <1>4
  <2>5. CASE y = Entry
    BY <2>3, <2>5, <1>1, DomOfEntry
  <2>6. CASE y # Entry
    <3>1. d = y \/ d \in Dom(idom[y])
      BY <2>3, <2>4, <2>6, <1>3
    <3>2. ASSUME d \in Dom(idom[y]) PROVE FALSE
      <4>1. idom[y] \in Blocks /\ order[idom[y]] > order[y]
        BY <2>4, <2>6, <1>3, <1>4 DEF Numbered
      <4>2. order[idom[y]] \in S
        BY <4>1, <3>2, <2>4
      <4>3. order[idom[y]] <= m /\ m = order[y]
        BY <4>2, <2>2, <2>3
      <4>4. order[idom[y]] \in Nat /\ order[y] \in Nat
        BY <4>1, <1>2
      <4> QED
        BY <4>1, <4>3, <4>4
    <3> QED
      BY <2>3, <3>1, <3>2
  <2> QED
    BY <2>5, <2>6
<1> QED
  BY <1>4, <1>5, <1>6

\* The single sweep of build_immediate_dominators computes the dominator tree of
\* the recorded edges exactly, for every function.
THEOREM DominatorsAlwaysExact == Spec => []DominatorsAreExact
<1>1. IInv /\ DomInv => DominatorsAreExact
  <2> SUFFICES ASSUME IInv, DomInv, phase = "done", NEW x \in Numbered
               PROVE  DominatorsOf(x) = {y \in Numbered : Dominates(RecordedFlow, y, x)}
    BY DEF DominatorsAreExact
  <2>1. DominatorsOf(x) = Dom(x) /\ Dom(x) \subseteq Numbered
    BY TreeIsDominance
  <2> QED
    BY <2>1 DEF Dom, Numbered
<1> QED
  BY <1>1, Invariance, DomInvariance, PTL
===============================================================================
