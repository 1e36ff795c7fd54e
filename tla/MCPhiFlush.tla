------------------------------ MODULE MCPhiFlush -------------------------------
(***************************************************************************)
(* The header of a loop, entered from a block outside and from its         *)
(* continue block, with all OpPhi instructions over a few values.          *)
(***************************************************************************)
EXTENDS PhiFlush

CONSTANTS Outside, Inside,   \* the two parents
          Initial            \* a value computed outside the loop

\* OpPhi instructions for the variables in the order of names; the entries of an
\* instruction are next to each other.
Instructions(order, back) ==
  [k \in 1 .. 2 * Len(order) |->
     LET v == order[(k + 1) \div 2] IN
     IF k % 2 = 1 THEN [local_variable |-> Initial, parent |-> Outside, function_variable |-> v]
     ELSE [local_variable |-> back[v], parent |-> Inside, function_variable |-> v]]

\* One order of the variables stands for all: the others rename them.
AnOrder == CHOOSE s \in [1 .. 3 -> Variables] : \A k, l \in 1 .. 3 : s[k] = s[l] => k = l

MCJoins ==
  {[phis |-> Instructions(AnOrder, back), reads |-> reads, outside |-> {Outside}, loop_variables |-> loop] :
     back \in [Variables -> Variables \cup Values],
     reads \in {r \in [Values -> SUBSET Variables] : r[Initial] = {}},
     loop \in {{AnOrder[2]}}}
================================================================================
