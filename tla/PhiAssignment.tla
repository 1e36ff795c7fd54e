----------------------------- MODULE PhiAssignment -----------------------------
(***************************************************************************)
(* What the OpPhi instructions of a block mean: whoever comes from a block *)
(* gives all of them their new values at once.                             *)
(***************************************************************************)
EXTENDS Integers, Sequences

CONSTANTS
  Variables,   \* the OpPhi results of the block: variables in the output
  Parents,     \* the blocks before it
  Joins        \* the blocks considered

\* The entries of OpPhi instructions which a parent takes.
Entries(join, parent) == {k \in DOMAIN join.phis : join.phis[k].parent = parent}

\* What every variable is after coming from a parent, by the names of the old values.
Assigned(join, parent) ==
  [v \in Variables |->
     IF \E k \in Entries(join, parent) : join.phis[k].function_variable = v
     THEN join.phis[CHOOSE k \in Entries(join, parent) :
                      join.phis[k].function_variable = v].local_variable
     ELSE v]

VARIABLES
  join,        \* the block: chosen once
  meaning      \* by parent, the values the output gives the variables, as a set which
               \* is empty as long as the edge is not written

Unwritten == [p \in Parents |-> {}]

Init == join \in Joins /\ meaning = Unwritten

\* Code for the edge from a parent is written.
Assign(p) ==
  /\ meaning' = [meaning EXCEPT ![p] = {Assigned(join, p)}]
  /\ UNCHANGED join

\* The output is thrown away.
Discard == meaning' = Unwritten /\ UNCHANGED join

Next == Discard \/ \E p \in Parents : Assign(p)

Spec == Init /\ [][Next]_<<join, meaning>>
================================================================================
