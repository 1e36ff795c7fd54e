-------------------------------- MODULE PhiFlush --------------------------------
(***************************************************************************)
(* How the output gives the OpPhi results of a block their values:         *)
(* CompilerGLSL::flush_phi, for one block and all the edges into it.       *)
(*                                                                         *)
(* An OpPhi result is a variable of the function.  The code of an edge     *)
(* assigns one variable after the other, in the order of the instructions, *)
(* and must not read a variable which it has written.  A variable which a  *)
(* later assignment of the edge names is copied first; an expression       *)
(* which reads it through its text is invalid after the write, becomes a   *)
(* temporary and asks for another pass.  The first use of a copy asks for  *)
(* another pass too, in which the copy is declared with the variable.      *)
(*                                                                         *)
(* Values are named by what they are when the edge begins: a variable by   *)
(* itself, any other value by its id.                                      *)
(***************************************************************************)
EXTENDS Integers, Sequences

CONSTANTS
  Variables,   \* the OpPhi results of the block
  Values,      \* other ids which OpPhi instructions name
  Parents,     \* the blocks before it
  Joins,       \* the blocks considered
  Nothing,     \* no value, no block
  Stale,       \* the value of a text which reads a variable after it was written
  MaxVisits,   \* how often the code of one edge is written in a pass, at most
  MaxIterations   \* options.force_recompile_max_debug_iterations

\* phi_variables of the block; by value, the variables it is computed from; the
\* parents outside the loop the block is the header of, and its loop variables.
JoinOK(j) ==
  /\ j.phis \in Seq([local_variable : Variables \cup Values, parent : Parents,
                     function_variable : Variables])
  /\ j.reads \in [Values -> SUBSET Variables]
  /\ j.outside \subseteq Parents /\ j.loop_variables \subseteq Variables
  \* an OpPhi instruction has one entry for each parent
  /\ \A k, l \in DOMAIN j.phis :
       /\ j.phis[k].parent = j.phis[l].parent
       /\ j.phis[k].function_variable = j.phis[l].function_variable
       => k = l
  \* what comes from outside the loop was not computed in it
  /\ \A k \in DOMAIN j.phis :
       j.phis[k].parent \in j.outside =>
         j.phis[k].local_variable \in {e \in Values : j.reads[e] = {}}

ASSUME PhiAssumption ==
  /\ Nothing \notin Variables \cup Values \cup Parents
  /\ Variables \cap Values = {} /\ Stale \notin Variables \cup Values
  /\ MaxVisits \in Nat \ {0} /\ MaxIterations \in Nat \ {0, 1}
  /\ \A j \in Joins : JoinOK(j)

VARIABLES
  join,        \* the block: chosen once
  phase,       \* "emit", "done" (compile returned) or "thrown"
  pass,        \* pass_count, counted up to MaxIterations
  forced,      \* forced_temporaries: survives reset()
  allocated,   \* the variables with allocate_temporary_copy: survives reset()
  force,       \* is_force_recompile
  progress,    \* is_force_recompile_forward_progress
  text,        \* by value: "none" yet, a "temporary" or "forwarded"
  dependees,   \* SPIRVariable::dependees of every variable
  invalid,     \* invalid_expressions
  declared,    \* flushed_phi_variables: the copies which are declared
  from,        \* the parent whose edge is written, or Nothing
  itr,         \* the entry of phi_variables looked at
  saved,       \* temporary_phi_variables
  static,      \* static_expression of the loop variables of this edge, or Nothing
  env,         \* the values of the variables after the code written so far
  copy,        \* the values of the copies
  written,     \* by parent, env after the edge: a set, empty before it is written
  visits       \* by parent, how often its edge has been written in this pass

compiler == <<pass, forced, allocated, force, progress>>
tables == <<text, dependees, invalid, declared>>
edge == <<from, itr, saved, static, env, copy>>
phi_vars == <<join, phase, compiler, tables, edge, written, visits>>

-------------------------------------------------------------------------------
Old == [v \in Variables |-> v]
NoValues == [v \in Variables |-> Nothing]
Phi == join.phis[itr]

\* What the text of an id is worth at this point of the edge.
Read(id) ==
  IF id \in saved' THEN copy'[id]
  ELSE IF id \in Variables THEN env[id]
  ELSE IF text[id] = "forwarded" /\ \E v \in join.reads[id] : env[v] # v THEN Stale
  ELSE id

\* Mutant: what is read after it became invalid is not remembered.
NoteRead_forgetful(id, recompile) ==
  /\ UNCHANGED forced
  /\ force' = (force \/ id \in invalid \/ recompile)
  /\ progress' = (progress \/ id \in invalid)

\* handle_invalid_expression: what is read after it became invalid is a temporary of
\* the next pass.  recompile is set when something else asks for a pass.
NoteRead(id, recompile) ==
  /\ forced' = forced \cup ({id} \cap invalid)
  /\ force' = (force \/ id \in invalid \/ recompile)
  /\ progress' = (progress \/ id \in invalid)

\* register_write, for a variable nothing else aliases
register_write(v) ==
  /\ invalid' = invalid \cup dependees[v]
  /\ dependees' = [dependees EXCEPT ![v] = {}]

\* Mutant: only the next assignment is looked at.
NeedsCopy_next(v) ==
  itr + 1 \in DOMAIN join.phis /\ join.phis[itr + 1].parent = from /\ join.phis[itr + 1].local_variable = v

\* A later assignment of this edge names the variable.
NeedsCopy(v) ==
  \E k \in DOMAIN join.phis :
    k > itr /\ join.phis[k].parent = from /\ join.phis[k].local_variable = v

\* loop_variable && !loop_variable_enable
IsStatic(v) == v \in join.loop_variables /\ from \in join.outside

-------------------------------------------------------------------------------
PhiInit ==
  /\ join \in Joins
  /\ phase = "emit" /\ pass = 0 /\ forced = {} /\ allocated = {}
  /\ force = FALSE /\ progress = FALSE
  /\ text = [e \in Values |-> "none"] /\ dependees = [v \in Variables |-> {}]
  /\ invalid = {} /\ declared = {}
  /\ from = Nothing /\ itr = 1 /\ saved = {} /\ static = NoValues
  /\ env = Old /\ copy = NoValues
  /\ written = [p \in Parents |-> {}] /\ visits = [p \in Parents |-> 0]

\* The instruction which computes a value is emitted.
EmitValue(e) ==
  /\ phase = "emit" /\ from = Nothing /\ text[e] = "none"
  /\ IF e \in forced
     THEN text' = [text EXCEPT ![e] = "temporary"] /\ UNCHANGED dependees
     ELSE /\ text' = [text EXCEPT ![e] = "forwarded"]
          /\ dependees' = [v \in Variables |->
                             dependees[v] \cup (IF v \in join.reads[e] THEN {e} ELSE {})]
  /\ UNCHANGED <<join, phase, compiler, invalid, declared, edge, written, visits>>

\* flush_phi(from, to) is called; what the edge names has been emitted.  The code of
\* a continue block is written once for every continue statement.
BeginFlush(p) ==
  /\ phase = "emit" /\ from = Nothing /\ visits[p] < MaxVisits
  /\ \A k \in DOMAIN join.phis :
       join.phis[k].parent = p /\ join.phis[k].local_variable \in Values =>
         text[join.phis[k].local_variable] # "none"
  /\ from' = p /\ itr' = 1 /\ saved' = {} /\ static' = NoValues
  /\ env' = Old /\ copy' = NoValues
  /\ visits' = [visits EXCEPT ![p] = @ + 1]
  /\ UNCHANGED <<join, phase, compiler, tables, written>>

AtEntry == phase = "emit" /\ from # Nothing /\ itr \in DOMAIN join.phis

\* The entry belongs to another edge.
SkipEntry ==
  /\ AtEntry /\ Phi.parent # from
  /\ itr' = itr + 1
  /\ UNCHANGED <<join, phase, compiler, tables, from, saved, static, env, copy, written, visits>>

\* The header of the loop will initialise the variable.
SetStatic ==
  /\ AtEntry /\ Phi.parent = from /\ IsStatic(Phi.function_variable)
  /\ static' = [static EXCEPT ![Phi.function_variable] = Phi.local_variable]
  /\ register_write(Phi.function_variable)
  /\ itr' = itr + 1
  /\ UNCHANGED <<join, phase, compiler, text, declared, from, saved, env, copy, written, visits>>

\* Mutant: a copy is used without asking for a pass which declares it.
AllocateCopy_silently(v) ==
  /\ allocated' = allocated \cup (IF NeedsCopy(v) THEN {v} ELSE {})
  /\ NoteRead(Phi.local_variable, FALSE)

\* The copy of a variable is first used here.
AllocateCopy(v) ==
  /\ allocated' = allocated \cup (IF NeedsCopy(v) THEN {v} ELSE {})
  /\ NoteRead(Phi.local_variable, NeedsCopy(v) /\ v \notin allocated)

\* The variable is copied if need be and assigned.
AssignVariable ==
  /\ AtEntry /\ Phi.parent = from /\ ~IsStatic(Phi.function_variable)
  /\ LET v == Phi.function_variable IN
       /\ saved' = saved \cup (IF NeedsCopy(v) THEN {v} ELSE {})
       /\ copy' = IF NeedsCopy(v) THEN [copy EXCEPT ![v] = env[v]] ELSE copy
       /\ AllocateCopy(v)
       /\ env' = [env EXCEPT ![v] = Read(Phi.local_variable)]
       /\ register_write(v)
  /\ itr' = itr + 1
  /\ UNCHANGED <<join, phase, pass, text, declared, from, static, written, visits>>

-------------------------------------------------------------------------------
\* The edge is complete: where it enters a loop, the header follows and
\* initialises its variables.
EndFlush ==
  /\ phase = "emit" /\ from # Nothing /\ itr = Len(join.phis) + 1
  /\ written' = [written EXCEPT ![from] =
                   {[v \in Variables |-> IF static[v] = Nothing THEN env[v] ELSE static[v]]}]
  /\ from' = Nothing
  /\ UNCHANGED <<join, phase, compiler, tables, itr, saved, static, env, copy, visits>>

AllWritten == from = Nothing /\ \A p \in Parents : written[p] # {}

\* Mutant: the copies are forgotten between passes.
Reset_all ==
  allocated' = {} /\ declared' = allocated

\* What survives reset(): the copies of the last pass are declared with their variables.
Reset == UNCHANGED allocated /\ declared' = allocated

\* reset() of the next pass
Recompile ==
  /\ phase = "emit" /\ AllWritten /\ force
  /\ pass' = IF pass < MaxIterations THEN pass + 1 ELSE pass
  /\ IF pass' >= MaxIterations /\ ~progress
     THEN phase' = "thrown" /\ UNCHANGED <<allocated, force, progress, tables, written, visits>>
     ELSE /\ Reset /\ force' = FALSE /\ progress' = FALSE
          /\ text' = [e \in Values |-> "none"] /\ dependees' = [v \in Variables |-> {}]
          /\ invalid' = {} /\ written' = [p \in Parents |-> {}]
          /\ visits' = [p \in Parents |-> 0]
          /\ UNCHANGED phase
  /\ UNCHANGED <<join, forced, edge>>

Finish ==
  /\ phase = "emit" /\ AllWritten /\ ~force
  /\ phase' = "done"
  /\ UNCHANGED <<join, compiler, tables, edge, written, visits>>

PhiNext ==
  \/ \E e \in Values : EmitValue(e)
  \/ \E p \in Parents : BeginFlush(p)
  \/ SkipEntry \/ SetStatic \/ AssignVariable \/ EndFlush \/ Recompile \/ Finish

PhiSpec == PhiInit /\ [][PhiNext]_phi_vars

\* compile() is sequential: it goes on until it returns.
PhiFairSpec == PhiSpec /\ WF_phi_vars(PhiNext)

-------------------------------------------------------------------------------
\* In the code compile() returns, every edge gives the OpPhi results the values they
\* have in SPIR-V, all at once: nothing is read after it was written.
Meaning == INSTANCE PhiAssignment
             WITH meaning <- [p \in Parents |-> IF force THEN {} ELSE written[p]]
ImplementsPhiAssignment == Meaning!Spec

\* A copy which is used in the final code is declared in it.
CopiesAreDeclared == ~force => saved \subseteq declared

\* Copies ask for another pass without claiming progress; the safety net of reset()
\* never fires all the same.
NeverThrows == phase # "thrown"

\* compile() returns.
CompileTerminates == <>(phase = "done")
================================================================================
