--------------------------- MODULE StructuredFunctions ---------------------------
(***************************************************************************)
(* All functions of up to MaxBlocks blocks which follow the structured     *)
(* control flow rules of SPIR-V, up to renaming of their blocks.           *)
(*                                                                         *)
(* Blocks are numbered in the order a breadth-first reading of the         *)
(* function mentions them.  Shapes(size) builds the functions block by block and *)
(* keeps track of the constructs around each block; IsStructured keeps the *)
(* functions a valid module may contain.                                   *)
(***************************************************************************)
EXTENDS FunctionBlocks

CONSTANTS
  MaxBlocks,    \* the largest number of blocks of a function
  MaxBranches   \* the largest number of targets of a terminator

MCBlocks == 1 .. MaxBlocks

Block(merge, target, continue, terminator, targets) ==
  [merge |-> merge, merge_block |-> target, continue_block |-> continue,
   terminator |-> terminator, targets |-> targets]

\* The sequences of n distinct targets when ids up to known have been mentioned:
\* some of those in old, and new ids in the order of their mention.
TargetLists(old, known, n) ==
  LET lists[k \in 0 .. n] ==
        IF k = 0 THEN {[targets |-> <<>>, known |-> known]}
        ELSE UNION {{[targets |-> Append(l.targets, t),
                      known |-> IF t > l.known THEN t ELSE l.known] :
                       t \in {u \in old \cup {l.known + 1} :
                                u <= MaxBlocks /\ \A i \in DOMAIN l.targets : l.targets[i] # u}} :
                     l \in lists[k - 1]}
  IN lists[n]

\* A prefix of a function is its blocks, the number of ids mentioned in them and
\* the constructs around every block mentioned, innermost last.
In(h, continue) == [header |-> h, continue |-> continue]

\* The constructs the next block may open ("none" opens no construct).
Openings(p) ==
  LET x == Len(p.body) + 1 IN
  {o \in {[merge |-> "none", target |-> NoBlock, continue |-> NoBlock, known |-> p.known],
          [merge |-> "selection", target |-> p.known + 1, continue |-> NoBlock, known |-> p.known + 1],
          [merge |-> "loop", target |-> p.known + 1, continue |-> x, known |-> p.known + 1],
          [merge |-> "loop", target |-> p.known + 1, continue |-> p.known + 2, known |-> p.known + 2]} :
     o.known <= MaxBlocks}

\* Where a block inside the constructs around may leave them for.
Leaving(around, headers) ==
  LET last(S) == {around[i].header : i \in {j \in S : \A k \in S : k <= j}}
      loops == {i \in DOMAIN around : headers[around[i].header].merge = "loop"}
      breaks == {i \in DOMAIN around : \/ headers[around[i].header].merge = "loop"
                                       \/ headers[around[i].header].terminator = "multiselect"}
      inContinue == around # <<>> /\ around[Len(around)].continue
  IN {headers[h].merge_block : h \in last(DOMAIN around) \cup last(loops) \cup last(breaks)}
       \cup (IF inContinue THEN last(loops) ELSE {headers[h].continue_block : h \in last(loops)})

\* The prefixes longer by one block.
Extensions(p) ==
  LET x == Len(p.body) + 1
      Extended(o, terminator, l, around) ==
        [body |-> Append(p.body, Block(o.merge, o.target, o.continue, terminator, l.targets)),
         known |-> l.known,
         around |-> [y \in 1 .. l.known |->
                       IF y \in DOMAIN p.around THEN p.around[y]
                       ELSE IF y = o.target THEN p.around[x]
                       ELSE IF y = o.continue THEN Append(p.around[x], In(x, TRUE))
                       ELSE around]]
      Opened(o, terminator, lengths) ==
        LET around == IF o.merge = "none" THEN p.around[x]
                      ELSE Append(p.around[x], In(x, o.continue = x))
            leaving == Leaving(around, Append(p.body, Block(o.merge, o.target, o.continue, terminator, <<>>)))
            inside == {y \in DOMAIN p.around : y > x /\ p.around[y] = around}
        IN {Extended(o, terminator, l, around) :
              l \in {m \in UNION {TargetLists((leaving \cup inside) \ {Entry}, o.known, n) : n \in lengths} :
                       terminator = "select" /\ o.merge # "selection" =>
                         \E i \in DOMAIN m.targets : m.targets[i] \in leaving}}
      BackEdges(q, h) == {y \in DOMAIN q.body : \E k \in DOMAIN q.body[y].targets :
                                                    q.body[y].targets[k] = h /\ h <= y}
      \* a loop has one back edge, in its continue construct
      CanClose(q, h) ==
        LET n == Cardinality(BackEdges(q, h)) IN
        n = 1 \/ (n = 0 /\ \E y \in DOMAIN q.around \ DOMAIN q.body :
                            \E k \in DOMAIN q.around[y] : q.around[y][k] = In(h, TRUE))
  IN {q \in UNION {IF o.merge = "none" THEN Opened(o, "exit", {0}) \cup Opened(o, "direct", {1})
                                              \cup Opened(o, "select", {2})
                   ELSE IF o.merge = "loop" THEN Opened(o, "direct", {1}) \cup Opened(o, "select", {2})
                   ELSE Opened(o, "select", {2}) \cup Opened(o, "multiselect", 1 .. MaxBranches) :
                   o \in Openings(p)} :
        \A h \in DOMAIN q.body : q.body[h].merge = "loop" => CanClose(q, h)}

Shapes(size) ==
  LET built[n \in 0 .. size] ==
        IF n = 0 THEN [prefixes |-> {[body |-> <<>>, known |-> 1, around |-> <<<<>>>>]}, complete |-> {}]
        ELSE LET before == built[n - 1]
                 longer == UNION {Extensions(p) : p \in {q \in before.prefixes : q.known >= n}}
             IN [prefixes |-> longer,
                 complete |-> before.complete \cup {p.body : p \in {q \in longer : q.known = n}}]
  IN built[size].complete

-------------------------------------------------------------------------------
\* The rules of structured control flow.

Ids(f) == DOMAIN f
Edges(f) == {<<x, y>> \in Ids(f) \X Ids(f) : \E k \in DOMAIN f[x].targets : f[x].targets[k] = y}
StructuralEdges(f) ==
  Edges(f) \cup {<<x, f[x].merge_block>> : x \in {y \in Ids(f) : f[y].merge # "none"}}
           \cup {<<x, f[x].continue_block>> : x \in {y \in Ids(f) : f[y].merge = "loop"}}

\* <<x, y>> : block x structurally dominates block y.
StructuralDominance(f) ==
  LET flow == StructuralEdges(f)
  IN UNION {{x} \X (Ids(f) \ ReachableWithout(flow, x)) : x \in Ids(f)}

\* Some of the edges form a cycle.
HasCycle(graph, ids) ==
  LET left[n \in 0 .. Cardinality(ids)] ==
        IF n = 0 THEN ids
        ELSE LET before == left[n - 1]
             IN {x \in before : \E y \in before : <<y, x>> \in graph}
  IN left[Cardinality(ids)] # {}

IsStructured(f) ==
  LET dom == StructuralDominance(f)
      flow == Edges(f)
      headers == {h \in Ids(f) : f[h].merge # "none"}
      loops == {h \in headers : f[h].merge = "loop"}
      breakable == loops \cup {h \in headers : f[h].terminator = "multiselect"}
      \* <<h, x>> : block x is in the construct, in the continue construct of h
      inside == {<<h, x>> \in dom : h \in headers /\ <<f[h].merge_block, x>> \notin dom}
      continues == {<<h, x>> \in inside : h \in loops /\ <<f[h].continue_block, x>> \in dom}
      back == {<<x, y>> \in flow : <<y, x>> \in dom}
      Innermost(x, kind) ==
        {h \in kind : <<h, x>> \in inside /\ \A g \in kind : <<g, x>> \in inside => <<g, h>> \in dom}
      \* Where a branch of block x may leave the constructs x is in.
      Exits(x) ==
        {f[h].merge_block : h \in Innermost(x, headers) \cup Innermost(x, loops) \cup Innermost(x, breakable)}
          \cup {f[h].continue_block : h \in Innermost(x, loops)}
  IN /\ \A h \in headers : h # f[h].merge_block /\ <<h, f[h].merge_block>> \in dom
     /\ \A g, h \in headers : g # h => f[g].merge_block # f[h].merge_block
     /\ \A h \in loops : /\ <<h, f[h].continue_block>> \in inside
                         /\ Cardinality({e \in back : e[2] = h}) = 1
     /\ \A e \in back : <<e[2], e[1]>> \in continues
     /\ \A e \in flow : e[2] # Entry
     /\ ~HasCycle({e \in StructuralEdges(f) \ back : e[1] # e[2]}, Ids(f))
     \* constructs are nested, entered at their header and left by their exits
     /\ \A e \in inside : e[2] \in headers =>
          \A x \in Ids(f) : <<e[2], x>> \in inside => <<e[1], x>> \in inside
     /\ \A e \in flow \ back :
          /\ \A h \in headers : h # e[2] /\ <<h, e[2]>> \in inside => <<h, e[1]>> \in inside
          /\ (\E h \in Innermost(e[1], headers) : <<h, e[2]>> \notin inside) => e[2] \in Exits(e[1])
     \* a continue construct is left by its back edge or to the merge block
     /\ \A c \in continues : \A e \in flow :
          e[1] = c[2] => <<c[1], e[2]>> \in continues \/ e[2] \in {c[1], f[c[1]].merge_block}
     \* a conditional branch without a selection merge stays in one construct
     /\ \A x \in Ids(f) :
          f[x].terminator = "select" /\ f[x].merge # "selection" =>
            Cardinality({t \in {f[x].targets[1], f[x].targets[2]} :
                          t \notin Exits(x) /\ <<x, t>> \notin back}) <= 1

Candidates == Shapes(MaxBlocks)

\* A definition of its own, so that TLC keeps the value of the one above.
MCFunctions == Candidates

\* The functions worth a block more: loops whose continue block is not their
\* header, without switches.
IsForLoop(f) ==
  /\ \E h \in DOMAIN f : f[h].merge = "loop" /\ f[h].continue_block # h
  /\ \A x \in DOMAIN f : f[x].terminator # "multiselect"

ScopedFunctions == {f \in Candidates : Len(f) < MaxBlocks \/ IsForLoop(f)}
MCScopedFunctions == ScopedFunctions
=================================================================================
