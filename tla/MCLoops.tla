-------------------------------- MODULE MCLoops ---------------------------------
(***************************************************************************)
(* The functions of StructuredFunctions, alone and as the body of a loop.     *)
(***************************************************************************)
EXTENDS StructuredFunctions

CONSTANT MaxInner      \* the largest function put into a loop

\* The blocks of a loop around a function, and those of the function.
LoopedBlocks == 1 .. MaxInner + 6

\* A loop around function g: blocks 1 (entry), 2 (header), 3 (merge), 4 (continue
\* target), 5 (the block after it, where there is one), then those of g.  ends[x] is
\* where an exit x of g goes: to a block of the loop, or NoBlock if it stays.
LoopAround(g, head, tail, ends) ==
  LET k == IF tail = "chain" THEN 5 ELSE 4
      Header(terminator, targets) == Block("loop", 3, 4, terminator, targets)
      Jump_(y) == Block("none", NoBlock, NoBlock, "direct", <<y>>)
      Test(targets) == Block("none", NoBlock, NoBlock, "select", targets)
      Moved(y) == IF y = NoBlock THEN NoBlock ELSE y + k
      Inside(old) == Block(old.merge, Moved(old.merge_block), Moved(old.continue_block), old.terminator,
                           [i \in DOMAIN old.targets |-> Moved(old.targets[i])])
  IN << Jump_(2),
        CASE head = "direct" -> Header("direct", <<k + 1>>)
          [] head = "select" -> Header("select", <<k + 1, 3>>)
          [] head = "inverted" -> Header("select", <<3, k + 1>>),
        Block("none", NoBlock, NoBlock, "exit", <<>>),
        CASE tail = "direct" -> Jump_(2)
          [] tail = "chain" -> Jump_(5)
          [] tail = "select" -> Test(<<2, 3>>)
          [] tail = "inverted" -> Test(<<3, 2>>) >>
     \o (IF tail = "chain" THEN <<Jump_(2)>> ELSE <<>>)
     \o [x \in DOMAIN g |-> IF ends[x] # NoBlock THEN Jump_(ends[x]) ELSE Inside(g[x])]

Looped(g) ==
  {LoopAround(g, ht[1], ht[2], ends) :
     ht \in ({"direct"} \X {"direct", "chain", "select", "inverted"})
                         \cup {<<"select", "direct">>, <<"select", "chain">>, <<"inverted", "direct">>},
     ends \in {e \in [DOMAIN g -> {NoBlock, 3, 4}] :
                 \A x \in DOMAIN g : g[x].terminator # "exit" => e[x] = NoBlock}}

\* The loop of LoopAround without the entry block, to be put into another loop.
BareLoop(head, tail) ==
  LET f == LoopAround(<<Block("none", NoBlock, NoBlock, "exit", <<>>)>>, head, tail, <<4>>)
      Moved(y) == IF y = NoBlock THEN NoBlock ELSE y - 1
  IN [x \in 1 .. Len(f) - 1 |->
        [f[x + 1] EXCEPT !.merge_block = Moved(f[x + 1].merge_block),
                         !.continue_block = Moved(f[x + 1].continue_block),
                         !.targets = [i \in DOMAIN f[x + 1].targets |-> Moved(f[x + 1].targets[i])]]]

\* A switch in a switch: a loop around is left, or goes on, from both.
NestedSwitch ==
  << Block("selection", 2, NoBlock, "multiselect", <<3, 2>>),
     Block("none", NoBlock, NoBlock, "exit", <<>>),
     Block("selection", 4, NoBlock, "multiselect", <<4, 5>>),
     Block("none", NoBlock, NoBlock, "direct", <<2>>),
     Block("none", NoBlock, NoBlock, "exit", <<>>) >>

\* The functions put into a loop: no block only goes on to a block of its own.
Bodies ==
  {g \in Shapes(MaxInner) :
     \A x \in DOMAIN g : g[x].terminator = "direct" =>
       \E h \in DOMAIN g : g[h].merge # "none" /\ g[h].merge_block = g[x].targets[1]}
    \cup {BareLoop(head, tail) : head \in {"direct", "select"}, tail \in {"direct", "select"}}
    \cup {NestedSwitch}

LoopedFunctions ==
  {f \in Shapes(MaxBlocks) \cup UNION {Looped(g) : g \in Bodies} : Len(f) <= MaxInner + 6}

MCLooped == LoopedFunctions
===============================================================================
