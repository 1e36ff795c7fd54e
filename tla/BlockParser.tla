------------------------------ MODULE BlockParser ------------------------------
(***************************************************************************)
(* The part of Parser::parse which makes SPIRBlocks of labels, merge       *)
(* instructions and terminators, and the marks (ir.block_meta) it leaves   *)
(* on the blocks they name.  A function is parsed as a whole: what one     *)
(* block's instructions change does not depend on when another block is    *)
(* parsed.                                                                 *)
(***************************************************************************)
EXTENDS FunctionBlocks

\* OpBranchConditional with two equal targets
IsBogus(block) == block.terminator = "select" /\ block.targets[1] = block.targets[2]

\* The construct is left by a branch to another block than its merge block.
IsEmulatedSwitch(block) ==
  IsBogus(block) /\ block.merge = "selection" /\ block.targets[1] # block.merge_block

\* The loop is left at once.
IsCollapsedLoop(block) ==
  IsBogus(block) /\ block.merge = "loop" /\ block.targets[1] = block.merge_block

\* No loop header loses its merge instruction to the parser.
LoopsAreKept(f) == \A h \in DOMAIN f : f[h].merge = "loop" => ~IsBogus(f[h])

\* The end of a block.  A bogus conditional becomes a switch with a default label
\* only, or a direct branch without its merge instruction.
Parsed(block) ==
  IF IsEmulatedSwitch(block)
  THEN [block EXCEPT !.terminator = "multiselect", !.targets = <<block.targets[1]>>]
  ELSE IF IsBogus(block)
  THEN [merge |-> "none", merge_block |-> NoBlock, continue_block |-> NoBlock,
        terminator |-> "direct", targets |-> <<block.targets[1]>>]
  ELSE block

Blocks_of(f) == [x \in DOMAIN f |-> Parsed(f[x])]

\* The marks of block x, by the instructions of block h.
MarksOf(f, h, x) ==
  {mark \in {"header", "continue", "loop merge", "selection merge", "switch merge"} :
     CASE mark = "header" -> f[h].merge = "loop" /\ x = h
       [] mark = "continue" -> /\ f[h].merge = "loop" /\ x = f[h].continue_block /\ x # h
                               /\ ~IsCollapsedLoop(f[h])
       [] mark = "loop merge" -> /\ f[h].merge = "loop" /\ x = f[h].merge_block
                                 /\ ~IsCollapsedLoop(f[h])
       [] mark = "selection merge" -> /\ f[h].merge = "selection" /\ x = f[h].merge_block
                                      /\ ~IsEmulatedSwitch(f[h])
       [] mark = "switch merge" -> /\ f[h].merge = "selection" /\ x = f[h].merge_block
                                   /\ f[h].terminator = "multiselect" \/ IsEmulatedSwitch(f[h])}

block_meta(f) == [x \in DOMAIN f |-> UNION {MarksOf(f, h, x) : h \in DOMAIN f}]

\* continue_block_to_loop_header, NoBlock where there is no entry
header_of_continue(f) ==
  [x \in DOMAIN f |->
     LET headers == {h \in DOMAIN f : f[h].merge = "loop" /\ f[h].continue_block = x}
     IN IF headers = {} THEN NoBlock ELSE CHOOSE h \in headers : TRUE]
===============================================================================
