---------------------------- MODULE FunctionBlocks -----------------------------
(***************************************************************************)
(* The blocks of a function, as every part of the compiler sees them.      *)
(***************************************************************************)
EXTENDS Integers, FiniteSets, Sequences

CONSTANTS
  Blocks,     \* ids of blocks
  Entry,      \* func.entry_block
  NoBlock     \* 0: no block

\* A function has finitely many blocks: an id is below the bound in the header of the module.
ASSUME BlocksAssumption == IsFiniteSet(Blocks)

Elements(s) == {s[k] : k \in DOMAIN s}

\* A SPIRBlock, as far as control flow goes: the kind of merge instruction, the
\* merge block (next_block of a selection, merge_block of a loop), the continue
\* target, the terminator and the blocks it may branch to.
BlockOK(block, ids) ==
  /\ block.merge \in {"none", "loop", "selection"}
  /\ block.terminator \in {"direct", "select", "multiselect", "exit"}
  /\ block.targets \in Seq(ids)
  /\ block.terminator = "direct" => Len(block.targets) = 1
  /\ block.terminator = "select" => Len(block.targets) = 2
  /\ block.terminator = "multiselect" => block.targets # <<>>   \* the default label
  /\ block.merge = "none" => block.merge_block = NoBlock /\ block.continue_block = NoBlock
  /\ block.merge # "none" => block.merge_block \in ids
  /\ block.merge = "loop" => block.continue_block \in ids
  \* a selection keeps its merge block in the field of a direct branch
  /\ block.merge = "selection" => block.terminator \in {"select", "multiselect"}
  \* a merge instruction is followed by a branch
  /\ block.terminator = "exit" => block.targets = <<>> /\ block.merge = "none"

\* The blocks which can be reached from the entry without entering block x.
ReachableWithout(flow, x) ==
  LET reach[n \in 0 .. Cardinality(Blocks)] ==
        IF n = 0 THEN {Entry} \ {x}
        ELSE LET before == reach[n - 1]
             IN before \cup ({e[2] : e \in {d \in flow : d[1] \in before}} \ {x})
  IN reach[Cardinality(Blocks)]
===============================================================================
