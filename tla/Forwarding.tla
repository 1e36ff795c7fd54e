------------------------------ MODULE Forwarding ------------------------------
(***************************************************************************)
(* Expression forwarding and the compile loop of CompilerGLSL (and of the  *)
(* HLSL, MSL and C++ backends, which inherit it).                          *)
(*                                                                         *)
(* A SPIR-V result is not bound to a temporary when it can be avoided: its *)
(* text is kept in a SPIRExpression and pasted wherever the result is      *)
(* used.  Pasting moves the evaluation of the instruction from its own     *)
(* place to the place of the statement, so each variable keeps a list of   *)
(* the expressions which read it (dependees), a write makes them invalid,  *)
(* and reading an invalid expression forces it to a temporary and asks for *)
(* another pass over the whole function.                                   *)
(*                                                                         *)
(* The module emits one function body, pass after pass, as compile() does. *)
(* An instruction is identified by its position, which is also its result  *)
(* id.  The text of an expression is abstracted to the set of              *)
(* instructions which are evaluated when the text is evaluated.            *)
(***************************************************************************)
EXTENDS Instructions

CONSTANTS
  N,              \* the largest number of instructions of a function body
  Programs,       \* the function bodies considered: instructions by position
  Restricted,     \* the buffers and images decorated Restrict
  MaxDeps,        \* max_expression_dependencies
  MaxIterations   \* options.force_recompile_max_debug_iterations

Pos == 1 .. N

ASSUME ConstantsAssumption ==
  /\ N \in Nat /\ MaxDeps \in Nat /\ MaxIterations \in Nat
  /\ NoVar \notin Vars
  /\ Restricted \subseteq Buffers \cup Images
  /\ \A p \in Programs : /\ Len(p) \in Pos /\ DOMAIN p = 1 .. Len(p)
                        /\ \A i \in DOMAIN p : InstructionOK(p, i)

VARIABLES
  prog,        \* the function body: chosen once, never changed
  phase,       \* "emit", "done" (compile returned) or "thrown"
  pass,        \* pass_count, counted up to MaxIterations
  pc,          \* the instruction emitted next
  forced,      \* forced_temporaries: survives reset()
  write_count, \* parameters known to be written: survives reset()
  force,       \* is_force_recompile
  progress,    \* is_force_recompile_forward_progress
  forwarded,   \* forwarded_temporaries
  suppressed,  \* suppressed_usage_tracking
  used,        \* expression_usage_counts: expressions read at least once
  invalid,     \* invalid_expressions
  dependees,   \* SPIRVariable::dependees of every variable
  ctl,         \* SPIRBlock::invalidate_expressions of the current block
  level,       \* current_loop_level
  text,        \* SPIRExpression::expression, as the instructions it evaluates
  deps,        \* SPIRExpression::expression_dependencies
  tracks,      \* the expressions a read of this one counts as read
  emitted_level, \* SPIRExpression::emitted_loop_level
  loaded_from, \* SPIRExpression::loaded_from
  out          \* the emitted statements: <<j, i>> when the statement of
               \* instruction i evaluates instruction j

tables == <<forwarded, suppressed, used, invalid, dependees, ctl, level>>
expressions == <<text, deps, tracks, emitted_level, loaded_from>>
vars == <<prog, phase, pass, pc, forced, write_count, force, progress,
          tables, expressions, out>>

-------------------------------------------------------------------------------
\* The instructions executed after instruction j and before the statement of
\* instruction i: those between the two and, when i is inside a loop which j is
\* not part of, the whole body of the loop (its previous iteration).
Between(p, j, i) ==
  {k \in DOMAIN p : j < k /\ k < i}
    \cup {k \in DOMAIN p : \E b \in DOMAIN p : /\ p[b].op = "loop"
                                              /\ j < b /\ b < i /\ i <= p[b].to
                                              /\ b <= k /\ k <= p[b].to}

-------------------------------------------------------------------------------
\* Variables and their invalidation.

Aliased == (Buffers \cup Images) \ Restricted

\* Mutant: flush_all_active_variables without the aliased variables.
ActiveVariables_not_aliased == Locals \cup Phis \cup Params \cup Globals

\* flush_all_active_variables
ActiveVariables == Locals \cup Phis \cup Params \cup Globals \cup Aliased

\* The variables whose dependees a write through pointer p invalidates.
register_write(p) ==
  IF p.var = NoVar THEN ActiveVariables
  ELSE IF p.psb \/ p.var \in Aliased THEN Aliased
  ELSE {p.var}

\* The variables whose dependees an impure call invalidates.
register_impure_function_call == Globals \cup Aliased

Dependees(vs) == UNION {dependees[v] : v \in vs}
Flushed(vs) == [v \in Vars |-> IF v \in vs THEN {} ELSE dependees[v]]

\* The first write through a parameter makes it inout: force_recompile().
ParameterWritten(p) == p.var \in Params /\ p.var \notin write_count

\* Mutant: the write is not remembered by the next pass.
NoteParameterWrite_forgotten(p) == UNCHANGED write_count

\* Mutant: any written variable is taken for a parameter.
NoteParameterWrite_of_any(p) == write_count' = write_count \cup {p.var}

NoteParameterWrite(p) ==
  write_count' = IF ParameterWritten(p) THEN write_count \cup {p.var} ELSE write_count

\* A UniformConstant variable and an opaque object, which is no lvalue, are taken
\* for immutable: a storage image is both, although its texels are written.
is_immutable(v) == v \in Phis \cup Images

\* The variable which register_read makes the result a dependee of, if any.
DependsOn(p) == {v \in {p.var} \ {NoVar} : ~is_immutable(v)}

-------------------------------------------------------------------------------
\* Reading expressions.

should_forward(a) == Cardinality(deps[a]) < MaxDeps

\* to_expression: the expressions found invalid when the text of the ids is
\* pasted, given the set of invalid expressions at that moment.
handle_invalid_expression(ids, inv) ==
  (ids \cup UNION {deps[a] : a \in ids}) \cap inv

Tracked(a) == {x \in tracks[a] : x \in forwarded /\ x \notin suppressed}
TrackedBy(ins) == UNION {Tracked(a) : a \in Ids(ins)}

\* Mutant: a read at a deeper loop level does not make a temporary.
track_expression_read_by_count(ins) == TrackedBy(ins) \cap used

\* track_expression_read: forwarded expressions this read makes used more than
\* once, or used at a deeper loop level than they were created at.
track_expression_read(ins) ==
  {x \in TrackedBy(ins) :
      \/ x \in used
      \/ level > emitted_level[x]
      \/ \E k, l \in DOMAIN ins.args :
            k # l /\ x \in Tracked(ins.args[k]) /\ x \in Tracked(ins.args[l])
      \/ \E k \in DOMAIN ins.args :
            ins.via # 0 /\ x \in Tracked(ins.args[k]) /\ x \in Tracked(ins.via)}

\* Mutant: the temporaries of the earlier passes are forgotten.
force_temporary_and_recompile_anew(ids, recompile) ==
  /\ forced' = IF ids # {} THEN ids ELSE forced
  /\ force' = (force \/ ids # {} \/ recompile)
  /\ progress' = (progress \/ ids \ forced # {})

\* force_temporary_and_recompile for every expression of ids; recompile is
\* TRUE when something else calls force_recompile() as well.
force_temporary_and_recompile(ids, recompile) ==
  /\ forced' = forced \cup ids
  /\ force' = (force \/ ids # {} \/ recompile)
  /\ progress' = (progress \/ ids \ forced # {})

Pasted(ins) == UNION {text[a] : a \in Ids(ins)}

\* statement(): dropped while a recompile is pending.
statement(stamped) ==
  out' = IF force' THEN out ELSE out \cup (stamped \X {pc})

\* emit_op: the text becomes an expression of its own, or a temporary.
emit_op(stamped, forward, suppress) ==
  IF forward
  THEN /\ forwarded' = forwarded \cup {pc}
       /\ suppressed' = IF suppress THEN suppressed \cup {pc} ELSE suppressed
       /\ text' = [text EXCEPT ![pc] = stamped]
       /\ out' = out
  ELSE /\ text' = [text EXCEPT ![pc] = {}]
       /\ statement(stamped)
       /\ UNCHANGED <<forwarded, suppressed>>

\* Mutant: only the direct operands become dependencies.
inherit_expression_dependencies_directly(ids, inherits) ==
  deps' = [deps EXCEPT ![pc] = IF inherits THEN ids ELSE {}]

\* inherit_expression_dependencies from every id of ids; phi variables gain
\* the new expression as a dependee.
inherit_expression_dependencies(ids, inherits) ==
  deps' = [deps EXCEPT ![pc] = IF inherits
                               THEN ids \cup UNION {deps[a] : a \in ids}
                               ELSE {}]

AddDependees(table, vs) ==
  [v \in Vars |-> IF v \in vs THEN table[v] \cup {pc} ELSE table[v]]

register_control_dependent_expression(isDependent) ==
  ctl' = IF isDependent /\ pc \in forwarded' THEN ctl \cup {pc} ELSE ctl

\* Mutant: the list of the block is cleared, its expressions stay valid.
flush_control_dependent_expressions_cleared(others) ==
  invalid' = invalid \cup others /\ ctl' = {}

\* The dependees in others are invalidated together with those of the block.
flush_control_dependent_expressions(others) ==
  invalid' = invalid \cup ctl \cup others /\ ctl' = {}

NewExpression(counted, variable) ==
  /\ tracks' = [tracks EXCEPT ![pc] = counted]
  /\ emitted_level' = [emitted_level EXCEPT ![pc] = level]
  /\ loaded_from' = [loaded_from EXCEPT ![pc] = variable]

\* register_read for each argument in turn: the last one backed by a variable wins.
LastBackingVariable(ins) ==
  LET IsLast(k) == /\ loaded_from[ins.args[k]] # NoVar
                   /\ \A l \in DOMAIN ins.args : l > k => loaded_from[ins.args[l]] = NoVar
  IN IF ins.ptr.var # NoVar THEN ins.ptr.var
     ELSE IF \E k \in DOMAIN ins.args : IsLast(k)
          THEN loaded_from[ins.args[CHOOSE k \in DOMAIN ins.args : IsLast(k)]]
          ELSE NoVar

At(op) == phase = "emit" /\ pc \in DOMAIN prog /\ prog[pc].op = op
Advance == pc' = pc + 1 /\ UNCHANGED <<prog, phase, pass>>
NoResult == UNCHANGED <<expressions, forwarded, suppressed>>

\* Mutant: the result of a call which changes something is forwarded as well.
CallCanForward_impure(f) == ~f.void /\ ~f.writes_arg

\* The result of a call can be pasted elsewhere: the callee changes nothing.
CallCanForward(f) == ~f.void /\ f.pure /\ ~f.writes_arg

\* The instructions whose text may be pasted elsewhere: a volatile load happens
\* once, and one through a buffer reference of unknown origin has no variable to
\* depend on.
CanForward(ins) ==
  /\ ins.op = "load" => ~ins.volatile /\ ~(ins.ptr.psb /\ ins.ptr.var = NoVar)
  /\ ins.op = "call" => CallCanForward(ins.fn)

-------------------------------------------------------------------------------
\* The instructions.

\* The pointer expression is not counted as read here: the load passes the
\* reads of its access chain on to whoever reads the load.
OpLoad ==
  LET ins == prog[pc]
      forward == /\ pc \notin forced
                 /\ \A c \in Ids(ins) : should_forward(c)
                 /\ CanForward(ins)
      readers == IF forward THEN DependsOn(ins.ptr) ELSE {}
  IN /\ At("load")
     /\ force_temporary_and_recompile(handle_invalid_expression(Ids(ins), invalid), FALSE)
     /\ emit_op(Pasted(ins) \cup {pc}, forward, TRUE)
     /\ inherit_expression_dependencies(Ids(ins), forward)
     /\ dependees' = AddDependees(dependees, readers)
     /\ NewExpression({pc} \cup (IF forward THEN UNION {tracks[c] : c \in Ids(ins)} ELSE {}),
                      ins.ptr.var)
     /\ Advance /\ UNCHANGED <<write_count, used, invalid, ctl, level>>

\* The chain itself is never a temporary.  It inherits nothing when its id was
\* forced to a temporary in an earlier pass.
OpAccessChain ==
  LET ins == prog[pc]
      inherits == pc \notin forced
  IN /\ At("chain")
     /\ force_temporary_and_recompile(handle_invalid_expression(Ids(ins), invalid), FALSE)
     /\ text' = [text EXCEPT ![pc] = Pasted(ins) \cup {pc}]
     /\ inherit_expression_dependencies(Ids(ins), inherits)
     /\ forwarded' = IF inherits /\ Ids(ins) # {} THEN forwarded \cup {pc} ELSE forwarded
     /\ suppressed' = suppressed \cup {pc}
     /\ dependees' = AddDependees(dependees, IF inherits THEN ins.phis ELSE {})
     /\ NewExpression(UNION {tracks[a] : a \in Ids(ins)}, ins.ptr.var)
     /\ Advance /\ UNCHANGED <<write_count, used, invalid, ctl, level, out>>

\* Every opcode which computes a value from its operands: emit_unary_op,
\* emit_binary_op and their relatives; ctl marks derivatives and the like.
OpArithmetic ==
  LET ins == prog[pc]
      forward == pc \notin forced /\ \A a \in Ids(ins) : should_forward(a)
  IN /\ At("arith")
     /\ force_temporary_and_recompile(
          handle_invalid_expression(Ids(ins), invalid) \cup track_expression_read(ins), FALSE)
     /\ emit_op(Pasted(ins) \cup {pc}, forward, FALSE)
     /\ inherit_expression_dependencies(Ids(ins), forward)
     /\ dependees' = AddDependees(dependees, IF forward THEN ins.phis ELSE {})
     /\ register_control_dependent_expression(ins.ctl)
     /\ used' = used \cup TrackedBy(ins)
     /\ NewExpression({pc}, NoVar)
     /\ Advance /\ UNCHANGED <<write_count, invalid, level>>

\* emit_store_statement: the operands are pasted before the write is registered.
OpStore ==
  LET ins == prog[pc] IN
  /\ At("store")
  /\ force_temporary_and_recompile(
       handle_invalid_expression(Ids(ins), invalid) \cup track_expression_read(ins),
       ParameterWritten(ins.ptr))
  /\ statement(Pasted(ins))
  /\ invalid' = invalid \cup Dependees(register_write(ins.ptr))
  /\ dependees' = Flushed(register_write(ins.ptr))
  /\ NoteParameterWrite(ins.ptr)
  /\ used' = used \cup TrackedBy(ins)
  /\ Advance /\ NoResult /\ UNCHANGED <<ctl, level>>

\* Out arguments and, for an impure callee, the globals are invalidated before
\* the arguments are pasted.  The result depends on the variables its arguments
\* were loaded from and on the globals the callee loads, never on an image.
OpFunctionCall ==
  LET ins == prog[pc]
      f == ins.fn
      written == (IF f.writes_arg THEN register_write(ins.ptr) ELSE {})
                   \cup (IF f.pure THEN {} ELSE register_impure_function_call)
      inv == invalid \cup Dependees(written)
      forward == /\ pc \notin forced /\ CanForward(ins)
                 /\ \A a \in Ids(ins) : should_forward(a)
      arguments == ({loaded_from[a] : a \in Ids(ins)} \cup {ins.ptr.var}) \ {NoVar}
      readers == IF forward
                 THEN {v \in arguments : ~is_immutable(v)}
                        \cup {v \in {r.var : r \in f.reads} : v \notin Images \cup {NoVar}}
                 ELSE {}
  IN /\ At("call")
     /\ force_temporary_and_recompile(
          handle_invalid_expression(Ids(ins), inv) \cup track_expression_read(ins),
          f.writes_arg /\ ParameterWritten(ins.ptr))
     /\ emit_op(Pasted(ins) \cup {pc}, forward, FALSE)
     /\ inherit_expression_dependencies({}, FALSE)
     /\ invalid' = inv
     /\ dependees' = AddDependees(Flushed(written), readers)
     /\ register_control_dependent_expression(f.ctl)
     /\ IF f.writes_arg THEN NoteParameterWrite(ins.ptr) ELSE UNCHANGED write_count
     /\ used' = used \cup TrackedBy(ins)
     /\ NewExpression({pc}, LastBackingVariable(ins))
     /\ Advance /\ UNCHANGED level

\* Reads of images are never forwarded (OpImageRead always emits a temporary),
\* and calls do not depend on images.  A write flushes aliased buffers as well.
OpImageWrite ==
  LET ins == prog[pc]
      written == IF ins.ptr.var \in Aliased THEN Aliased ELSE {}
  IN /\ At("image_write")
     /\ force_temporary_and_recompile(
          handle_invalid_expression(Ids(ins), invalid) \cup track_expression_read(ins), FALSE)
     /\ statement(Pasted(ins))
     /\ invalid' = invalid \cup Dependees(written)
     /\ dependees' = Flushed(written)
     /\ used' = used \cup TrackedBy(ins)
     /\ Advance /\ NoResult /\ UNCHANGED <<write_count, ctl, level>>

OpControlBarrier ==
  /\ At("barrier")
  /\ flush_control_dependent_expressions(Dependees(ActiveVariables))
  /\ dependees' = Flushed(ActiveVariables)
  /\ Advance /\ NoResult
  /\ UNCHANGED <<forced, write_count, force, progress, used, level, out>>

\* One assignment of flush_phi.
FlushPhi ==
  LET ins == prog[pc] IN
  /\ At("phi")
  /\ force_temporary_and_recompile(
       handle_invalid_expression(Ids(ins), invalid) \cup track_expression_read(ins), FALSE)
  /\ statement(Pasted(ins))
  /\ invalid' = invalid \cup Dependees(register_write(ins.ptr))
  /\ dependees' = Flushed(register_write(ins.ptr))
  /\ used' = used \cup TrackedBy(ins)
  /\ Advance /\ NoResult /\ UNCHANGED <<write_count, ctl, level>>

\* branch(): the condition is pasted, then the expressions which depend on the
\* control flow of the block are invalidated.
Branch ==
  LET ins == prog[pc] IN
  /\ At("branch")
  /\ force_temporary_and_recompile(
       handle_invalid_expression(Ids(ins), invalid) \cup track_expression_read(ins), FALSE)
  /\ statement(Pasted(ins))
  /\ flush_control_dependent_expressions({})
  /\ used' = used \cup TrackedBy(ins)
  /\ Advance /\ NoResult /\ UNCHANGED <<write_count, dependees, level>>

\* A loop header: for (;;) {
BeginLoop ==
  /\ At("loop")
  /\ level' = level + 1
  /\ Advance /\ NoResult
  /\ UNCHANGED <<forced, write_count, force, progress, used, invalid, dependees, ctl, out>>

\* The branch back to the header closes the loop body.
EndLoop ==
  /\ At("end_loop")
  /\ level' = level - 1
  /\ flush_control_dependent_expressions({})
  /\ Advance /\ NoResult
  /\ UNCHANGED <<forced, write_count, force, progress, used, dependees, out>>

-------------------------------------------------------------------------------
\* The loop of compile() around the emission.

NoDependees == [v \in Vars |-> {}]
NoIds == [i \in Pos |-> {}]
OuterLevel == [i \in Pos |-> 0]
Unbacked == [i \in Pos |-> NoVar]

Init ==
  /\ prog \in Programs
  /\ phase = "emit" /\ pass = 0 /\ pc = 1
  /\ forced = {} /\ write_count = {}
  /\ force = FALSE /\ progress = FALSE
  /\ forwarded = {} /\ suppressed = {} /\ used = {} /\ invalid = {}
  /\ dependees = NoDependees /\ ctl = {} /\ level = 0
  /\ text = NoIds /\ deps = NoIds /\ tracks = NoIds
  /\ emitted_level = OuterLevel /\ loaded_from = Unbacked
  /\ out = {}

\* reset() of the next pass: everything but the forced temporaries and the
\* access counts of the parameters starts over.
Recompile ==
  /\ phase = "emit" /\ pc = Len(prog) + 1 /\ force
  /\ pass' = IF pass < MaxIterations THEN pass + 1 ELSE pass
  /\ IF pass' >= MaxIterations /\ ~progress
     THEN /\ phase' = "thrown"
          /\ UNCHANGED <<pc, force, progress, tables, expressions, out>>
     ELSE /\ pc' = 1 /\ force' = FALSE /\ progress' = FALSE
          /\ forwarded' = {} /\ suppressed' = {} /\ used' = {} /\ invalid' = {}
          /\ dependees' = NoDependees /\ ctl' = {} /\ level' = 0
          /\ text' = NoIds /\ deps' = NoIds /\ tracks' = NoIds
          /\ emitted_level' = OuterLevel /\ loaded_from' = Unbacked
          /\ out' = {}
          /\ UNCHANGED phase
  /\ UNCHANGED <<prog, forced, write_count>>

Finish ==
  /\ phase = "emit" /\ pc = Len(prog) + 1 /\ ~force
  /\ phase' = "done"
  /\ UNCHANGED <<prog, pass, pc, forced, write_count, force, progress,
                 tables, expressions, out>>

Next ==
  \/ OpLoad \/ OpAccessChain \/ OpArithmetic \/ OpStore \/ OpFunctionCall
  \/ OpImageWrite \/ OpControlBarrier \/ FlushPhi \/ Branch
  \/ BeginLoop \/ EndLoop \/ Recompile \/ Finish

Spec == Init /\ [][Next]_vars
FairSpec == Spec /\ WF_vars(Next)

-------------------------------------------------------------------------------
\* The function bodies for which forwarding can be proved correct.

\* The variables which a forwarded instruction becomes a dependee of.
Readers(ins) ==
  CASE ins.op = "load"  -> DependsOn(ins.ptr)
    [] ins.op = "arith" -> ins.phis
    [] ins.op = "call"  -> DependsOn(ins.ptr) \cup ({r.var : r \in ins.fn.reads} \ Images)
    [] OTHER -> {}

\* The variables whose dependees an instruction invalidates.
FlushedBy(ins) ==
  CASE ins.op \in {"store", "phi"} -> register_write(ins.ptr)
    [] ins.op = "call" -> (IF ins.fn.writes_arg THEN register_write(ins.ptr) ELSE {})
                            \cup (IF ins.fn.pure THEN {} ELSE register_impure_function_call)
    [] ins.op = "image_write" -> IF ins.ptr.var \in Aliased THEN Aliased ELSE {}
    [] ins.op = "barrier" -> ActiveVariables
    [] OTHER -> {}

\* The alias analysis covers the body: what is written after a read belongs to
\* a variable which the read depends on and the write invalidates.  Images have
\* no dependees: no write of an image follows a pure call which reads it.
AliasingIsKnown(p) ==
  \A j, k \in DOMAIN p :
    j < k /\ CanForward(p[j]) /\ Clobbers(p, k, j) => Readers(p[j]) \cap FlushedBy(p[k]) # {}

\* A body without loops, whose access chains are not indexed by OpPhi results
\* and whose calls take loaded values as arguments.
StraightLine(p) ==
  /\ AliasingIsKnown(p)
  /\ \A i \in DOMAIN p :
       /\ p[i].op # "loop"
       /\ p[i].op = "chain" => p[i].phis = {}
       /\ p[i].op = "call" =>
            /\ p[i].via = 0
            /\ \A a \in Ids(p[i]) : p[a].op = "load" /\ Ids(p[a]) = {}

\* The loops instruction i is in.
Loops(p, i) == {b \in DOMAIN p : p[b].op = "loop" /\ b < i /\ i <= p[b].to}

\* Every loop is closed by an instruction of its own, and loops nest.
LoopsNest(p) ==
  /\ \A b \in DOMAIN p : p[b].op = "loop" =>
       p[b].to \in DOMAIN p /\ b < p[b].to /\ p[p[b].to].op = "end_loop"
  /\ \A e \in DOMAIN p : p[e].op = "end_loop" =>
       \E b \in DOMAIN p : p[b].op = "loop" /\ p[b].to = e
  /\ \A b, c \in DOMAIN p :
       p[b].op = "loop" /\ p[c].op = "loop" /\ b < c /\ c <= p[b].to => p[c].to < p[b].to

\* What is computed in a loop is not used in another loop behind it: the levels
\* which track_expression_read compares would be equal.
ResultsStayOutOfOtherLoops(p) ==
  \A i \in DOMAIN p : \A a \in Ids(p[i]) :
    \/ Loops(p, a) \subseteq Loops(p, i)
    \/ p[i].op \notin {"load", "chain"} /\ Loops(p, i) \subseteq Loops(p, a)

\* A body whose access chains are indexed by loaded values.
IndicesAreLoaded(p) ==
  \A i \in DOMAIN p : p[i].op \in {"load", "chain"} =>
    \A k \in DOMAIN p[i].args : p[p[i].args[k]].op = "load"

-------------------------------------------------------------------------------
TypeOK ==
  /\ phase \in {"emit", "done", "thrown"}
  /\ pass \in 0 .. MaxIterations /\ pc \in 1 .. (N + 1) /\ level \in Int
  /\ forced \subseteq Pos /\ forwarded \subseteq Pos /\ suppressed \subseteq Pos
  /\ used \subseteq Pos /\ invalid \subseteq Pos /\ ctl \subseteq Pos
  /\ write_count \subseteq Params
  /\ force \in BOOLEAN /\ progress \in BOOLEAN
  /\ dependees \in [Vars -> SUBSET Pos]
  /\ text \in [Pos -> SUBSET Pos] /\ deps \in [Pos -> SUBSET Pos]
  /\ tracks \in [Pos -> SUBSET Pos] /\ emitted_level \in [Pos -> Int]
  /\ loaded_from \in [Pos -> Vars \cup {NoVar}]
  /\ out \subseteq Pos \X Pos

\* In the code compile() returns, no statement evaluates an instruction after
\* something that instruction reads has been written: moving the evaluation to
\* the place of use has not changed its value.
ForwardedReadsAreCurrent ==
  phase = "done" =>
    \A j, i \in DOMAIN prog :
      <<j, i>> \in out => \A k \in Between(prog, j, i) : ~Clobbers(prog, k, j)

\* A derivative, an implicit-LOD sample or a call to a function which uses one
\* is not evaluated under the control flow of a later block.
DerivativesStayInTheirBlock ==
  phase = "done" =>
    \A j, i \in DOMAIN prog :
      <<j, i>> \in out /\ IsControlDependent(prog[j]) =>
        \A k \in Between(prog, j, i) : ~LeavesBlock(prog[k])

\* A call with side effects appears in exactly one statement, its own: it is
\* neither lost when nobody uses its result, nor repeated, nor moved.
EffectsHappenOnceInOrder ==
  phase = "done" =>
    \A j \in DOMAIN prog : HasEffect(prog[j]) => {i \in Pos : <<j, i>> \in out} = {j}

\* An arithmetic instruction or call is written out in at most one statement,
\* and not in a loop it is not part of: used twice, it becomes a temporary.
NoRepeatedWork ==
  phase = "done" =>
    \A j \in DOMAIN prog :
      prog[j].op \in {"arith", "call"} =>
        /\ Cardinality({i \in Pos : <<j, i>> \in out}) <= 1
        /\ \A i \in Pos : <<j, i>> \in out =>
              ~\E b \in DOMAIN prog : prog[b].op = "loop" /\ j < b /\ b < i /\ i <= prog[b].to

\* The safety net of reset() against endless recompilation never fires: a pass
\* which asks for another has forced a new temporary or found a new parameter
\* which is written.
AlwaysForwardProgress == phase # "thrown"

\* compile() returns.
CompileTerminates == <>(phase = "done")
===============================================================================
