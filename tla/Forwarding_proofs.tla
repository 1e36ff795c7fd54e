--------------------------- MODULE Forwarding_proofs ---------------------------
(***************************************************************************)
(* Theorems about Forwarding, for every set of function bodies, variables  *)
(* and limits.                                                             *)
(***************************************************************************)
EXTENDS Forwarding, FiniteSetTheorems, TLAPS

TypeInv == TypeOK /\ prog \in Programs

\* Operands come before the instruction which uses them.
LEMMA Operands ==
  ASSUME NEW p \in Programs, NEW i \in DOMAIN p
  PROVE  /\ i \in Pos /\ InstructionOK(p, i)
         /\ Ids(p[i]) \subseteq 1 .. (i - 1)
         /\ Ids(p[i]) \subseteq Pos
         /\ \A k \in DOMAIN p[i].args : p[i].args[k] \in Ids(p[i])
<1>1. /\ i \in Pos /\ InstructionOK(p, i)
      /\ p[i].args \in Seq(1 .. (i - 1))
      /\ p[i].via \in {0} \cup 1 .. (i - 1)
  <2>1. InstructionOK(p, i) /\ DOMAIN p = 1 .. Len(p) /\ Len(p) \in Pos
    BY ConstantsAssumption
  <2>2. i \in Pos
    BY <2>1, ConstantsAssumption DEF Pos
  <2>3. p[i].args \in Seq(1 .. (i - 1))
    BY <2>1 DEF InstructionOK
  <2>4. p[i].via \in {0} \cup 1 .. (i - 1)
    BY <2>1 DEF InstructionOK
  <2> QED
    BY <2>1, <2>2, <2>3, <2>4
<1>2. \A k \in DOMAIN p[i].args : p[i].args[k] \in 1 .. (i - 1)
  BY <1>1
<1>3. 1 .. (i - 1) \subseteq Pos
  BY <1>1, ConstantsAssumption DEF Pos
<1> QED
  BY <1>1, <1>2, <1>3 DEF Ids

\* Whatever is found to be invalid or read too often is the id of an instruction.
LEMMA ReadIds ==
  ASSUME TypeInv, NEW i \in DOMAIN prog, NEW inv \in SUBSET Pos
  PROVE  /\ handle_invalid_expression(Ids(prog[i]), inv) \subseteq Pos
         /\ TrackedBy(prog[i]) \subseteq Pos
         /\ track_expression_read(prog[i]) \subseteq Pos
         /\ Pasted(prog[i]) \subseteq Pos
         /\ UNION {deps[a] : a \in Ids(prog[i])} \subseteq Pos
         /\ UNION {tracks[a] : a \in Ids(prog[i])} \subseteq Pos
<1>1. Ids(prog[i]) \subseteq Pos
  BY Operands DEF TypeInv
<1>2. /\ text \in [Pos -> SUBSET Pos] /\ deps \in [Pos -> SUBSET Pos]
      /\ tracks \in [Pos -> SUBSET Pos]
  BY DEF TypeInv, TypeOK
<1>3. handle_invalid_expression(Ids(prog[i]), inv) \subseteq Pos
  BY DEF handle_invalid_expression
<1>4. TrackedBy(prog[i]) \subseteq Pos
  BY <1>1, <1>2 DEF TrackedBy, Tracked
<1> QED
  BY <1>1, <1>2, <1>3, <1>4 DEF track_expression_read, Pasted

LEMMA FlushTypes ==
  ASSUME TypeInv, NEW vs, NEW ws, NEW i \in Pos, pc = i
  PROVE  /\ Flushed(vs) \in [Vars -> SUBSET Pos]
         /\ AddDependees(Flushed(vs), ws) \in [Vars -> SUBSET Pos]
         /\ AddDependees(dependees, ws) \in [Vars -> SUBSET Pos]
         /\ \A us \in SUBSET Vars : Dependees(us) \subseteq Pos
<1>1. dependees \in [Vars -> SUBSET Pos]
  BY DEF TypeInv, TypeOK
<1>2. Flushed(vs) \in [Vars -> SUBSET Pos]
  BY <1>1 DEF Flushed
<1> QED
  BY <1>1, <1>2 DEF AddDependees, Dependees

-------------------------------------------------------------------------------
\* Type correctness.

\* A step which emits an instruction keeps the function body and moves on.
LEMMA Emitting ==
  ASSUME TypeInv, NEW o, At(o), Advance
  PROVE  /\ pc \in DOMAIN prog /\ pc \in Pos
         /\ pc' \in 1 .. (N + 1) /\ prog' \in Programs
         /\ phase' \in {"emit", "done", "thrown"} /\ pass' \in 0 .. MaxIterations
  BY Operands, ConstantsAssumption DEF TypeInv, TypeOK, At, Advance, Pos

\* The pointer of an instruction is backed by a variable or by none.
LEMMA Backing ==
  ASSUME TypeInv, NEW i \in DOMAIN prog
  PROVE  /\ prog[i].ptr.var \in Vars \cup {NoVar}
         /\ LastBackingVariable(prog[i]) \in Vars \cup {NoVar}
<1>1. prog[i].ptr.var \in Vars \cup {NoVar}
  BY Operands DEF TypeInv, InstructionOK, PointerOK
<1>2. \A k \in DOMAIN prog[i].args : loaded_from[prog[i].args[k]] \in Vars \cup {NoVar}
  BY Operands DEF TypeInv, TypeOK
<1> QED
  BY <1>1, <1>2 DEF LastBackingVariable

LEMMA ForceType ==
  ASSUME TypeInv, NEW ids \in SUBSET Pos, NEW recompile,
         force_temporary_and_recompile(ids, recompile)
  PROVE  forced' \subseteq Pos /\ force' \in BOOLEAN /\ progress' \in BOOLEAN
  BY DEF force_temporary_and_recompile, TypeInv, TypeOK

LEMMA StatementType ==
  ASSUME TypeInv, pc \in Pos, NEW stamped \in SUBSET Pos, statement(stamped)
  PROVE  out' \subseteq Pos \X Pos
  BY DEF statement, TypeInv, TypeOK

LEMMA EmitType ==
  ASSUME TypeInv, pc \in Pos, NEW stamped \in SUBSET Pos, NEW forward, NEW suppress,
         emit_op(stamped, forward, suppress)
  PROVE  /\ forwarded' \subseteq Pos /\ suppressed' \subseteq Pos
         /\ text' \in [Pos -> SUBSET Pos] /\ out' \subseteq Pos \X Pos
<1>1. /\ forwarded \subseteq Pos /\ suppressed \subseteq Pos
      /\ text \in [Pos -> SUBSET Pos] /\ out \subseteq Pos \X Pos
  BY DEF TypeInv, TypeOK
<1>2. CASE forward
  BY <1>1, <1>2 DEF emit_op
<1>3. CASE ~forward
  <2>1. out' \subseteq Pos \X Pos
    BY <1>3, StatementType DEF emit_op
  <2> QED
    BY <1>1, <1>3, <2>1 DEF emit_op
<1> QED
  BY <1>2, <1>3

LEMMA InheritType ==
  ASSUME TypeInv, pc \in Pos, NEW ids \in SUBSET Pos, NEW inherits,
         UNION {deps[a] : a \in ids} \subseteq Pos,
         inherit_expression_dependencies(ids, inherits)
  PROVE  deps' \in [Pos -> SUBSET Pos]
  BY DEF inherit_expression_dependencies, TypeInv, TypeOK

LEMMA NewExpressionType ==
  ASSUME TypeInv, pc \in Pos, NEW counted \in SUBSET Pos,
         NEW variable \in Vars \cup {NoVar}, NewExpression(counted, variable)
  PROVE  /\ tracks' \in [Pos -> SUBSET Pos] /\ emitted_level' \in [Pos -> Int]
         /\ loaded_from' \in [Pos -> Vars \cup {NoVar}]
<1>1. /\ tracks \in [Pos -> SUBSET Pos] /\ emitted_level \in [Pos -> Int]
      /\ loaded_from \in [Pos -> Vars \cup {NoVar}] /\ level \in Int
  BY DEF TypeInv, TypeOK
<1>2. /\ tracks' = [tracks EXCEPT ![pc] = counted]
      /\ emitted_level' = [emitted_level EXCEPT ![pc] = level]
      /\ loaded_from' = [loaded_from EXCEPT ![pc] = variable]
  BY DEF NewExpression
<1>3. tracks' \in [Pos -> SUBSET Pos]
  BY <1>1, <1>2
<1>4. emitted_level' \in [Pos -> Int]
  BY <1>1, <1>2
<1>5. loaded_from' \in [Pos -> Vars \cup {NoVar}]
  BY <1>1, <1>2
<1> QED
  BY <1>3, <1>4, <1>5

\* The variables whose dependees are invalidated are variables.
LEMMA InvalidateType ==
  ASSUME TypeInv, NEW i \in DOMAIN prog, NEW vs,
         vs \subseteq ActiveVariables \/ vs \subseteq register_write(prog[i].ptr) \cup ActiveVariables
  PROVE  invalid \cup Dependees(vs) \subseteq Pos
<1>1. prog[i].ptr.var \in Vars \cup {NoVar}
  BY Backing
<1>2. ActiveVariables \subseteq Vars
  BY DEF ActiveVariables, Aliased, Vars
<1>3. register_write(prog[i].ptr) \subseteq Vars
  BY <1>1, <1>2 DEF register_write, ActiveVariables
<1>4. vs \subseteq Vars
  BY <1>2, <1>3
<1>5. dependees \in [Vars -> SUBSET Pos] /\ invalid \subseteq Pos
  BY DEF TypeInv, TypeOK
<1> QED
  BY <1>4, <1>5 DEF Dependees

\* What every action which emits an instruction may rely on.
LEMMA AtInstruction ==
  ASSUME TypeInv, NEW o, At(o), Advance
  PROVE  /\ pc \in DOMAIN prog /\ pc \in Pos
         /\ pc' \in 1 .. (N + 1) /\ prog' \in Programs
         /\ phase' \in {"emit", "done", "thrown"} /\ pass' \in 0 .. MaxIterations
         /\ invalid \subseteq Pos /\ Ids(prog[pc]) \subseteq Pos
         /\ Pasted(prog[pc]) \subseteq Pos /\ TrackedBy(prog[pc]) \subseteq Pos
         /\ track_expression_read(prog[pc]) \subseteq Pos
         /\ \A inv \in SUBSET Pos :
               handle_invalid_expression(Ids(prog[pc]), inv) \subseteq Pos
         /\ UNION {deps[a] : a \in Ids(prog[pc])} \subseteq Pos
         /\ UNION {tracks[a] : a \in Ids(prog[pc])} \subseteq Pos
<1>1. pc \in DOMAIN prog
  BY Emitting
<1>2. Ids(prog[pc]) \subseteq Pos
  BY <1>1, Operands DEF TypeInv
<1> QED
  BY <1>1, <1>2, Emitting, ReadIds DEF TypeInv, TypeOK

LEMMA EmptyTables ==
  /\ NoDependees \in [Vars -> SUBSET Pos] /\ NoIds \in [Pos -> SUBSET Pos]
  /\ OuterLevel \in [Pos -> Int] /\ Unbacked \in [Pos -> Vars \cup {NoVar}]
  /\ 1 \in 1 .. (N + 1) /\ 0 \in 0 .. MaxIterations
  BY ConstantsAssumption DEF NoDependees, NoIds, OuterLevel, Unbacked

LEMMA TypeInitially == Init => TypeInv
<1> SUFFICES ASSUME Init PROVE TypeInv
  OBVIOUS
<1>1. /\ dependees \in [Vars -> SUBSET Pos]
      /\ text \in [Pos -> SUBSET Pos] /\ deps \in [Pos -> SUBSET Pos]
      /\ tracks \in [Pos -> SUBSET Pos] /\ emitted_level \in [Pos -> Int]
      /\ loaded_from \in [Pos -> Vars \cup {NoVar}]
      /\ pc \in 1 .. (N + 1) /\ pass \in 0 .. MaxIterations
  BY EmptyTables DEF Init
<1>2. force \in BOOLEAN /\ progress \in BOOLEAN
  BY DEF Init
<1>3. /\ phase \in {"emit", "done", "thrown"} /\ level \in Int
      /\ forced \subseteq Pos /\ forwarded \subseteq Pos /\ suppressed \subseteq Pos
      /\ used \subseteq Pos /\ invalid \subseteq Pos /\ ctl \subseteq Pos
      /\ write_count \subseteq Params /\ prog \in Programs
  BY DEF Init
<1>4. out \subseteq Pos \X Pos
  BY DEF Init
<1> QED
  BY <1>1, <1>2, <1>3, <1>4 DEF TypeInv, TypeOK

LEMMA TypePreserved == TypeInv /\ [Next]_vars => TypeInv'
<1> SUFFICES ASSUME TypeInv, [Next]_vars PROVE TypeInv'
  OBVIOUS
<1>1. CASE OpLoad
  <2>1. forced' \subseteq Pos /\ force' \in BOOLEAN /\ progress' \in BOOLEAN
    BY <1>1, AtInstruction, ForceType DEF OpLoad
  <2>2. /\ forwarded' \subseteq Pos /\ suppressed' \subseteq Pos
        /\ text' \in [Pos -> SUBSET Pos] /\ out' \subseteq Pos \X Pos
    BY <1>1, AtInstruction, EmitType DEF OpLoad
  <2>3. deps' \in [Pos -> SUBSET Pos]
    BY <1>1, AtInstruction, InheritType DEF OpLoad
  <2>4. dependees' \in [Vars -> SUBSET Pos]
    BY <1>1, AtInstruction, FlushTypes DEF OpLoad
  <2>5. /\ tracks' \in [Pos -> SUBSET Pos] /\ emitted_level' \in [Pos -> Int]
        /\ loaded_from' \in [Pos -> Vars \cup {NoVar}]
    BY <1>1, AtInstruction, Backing, NewExpressionType DEF OpLoad
  <2>6. /\ UNCHANGED <<write_count, used, invalid, ctl, level>>
        /\ pc' \in 1 .. (N + 1) /\ prog' \in Programs
        /\ phase' \in {"emit", "done", "thrown"} /\ pass' \in 0 .. MaxIterations
    BY <1>1, AtInstruction DEF OpLoad
  <2> QED
    BY <2>1, <2>2, <2>3, <2>4, <2>5, <2>6 DEF TypeInv, TypeOK
<1>2. CASE OpAccessChain
  <2>1. forced' \subseteq Pos /\ force' \in BOOLEAN /\ progress' \in BOOLEAN
    BY <1>2, AtInstruction, ForceType DEF OpAccessChain
  <2>2. deps' \in [Pos -> SUBSET Pos]
    BY <1>2, AtInstruction, InheritType DEF OpAccessChain
  <2>3. dependees' \in [Vars -> SUBSET Pos]
    BY <1>2, AtInstruction, FlushTypes DEF OpAccessChain
  <2>4. /\ tracks' \in [Pos -> SUBSET Pos] /\ emitted_level' \in [Pos -> Int]
        /\ loaded_from' \in [Pos -> Vars \cup {NoVar}]
    BY <1>2, AtInstruction, Backing, NewExpressionType DEF OpAccessChain
  <2>5. text' \in [Pos -> SUBSET Pos]
    BY <1>2, AtInstruction DEF OpAccessChain, TypeInv, TypeOK
  <2>6. forwarded' \subseteq Pos /\ suppressed' \subseteq Pos
    BY <1>2, AtInstruction DEF OpAccessChain, TypeInv, TypeOK
  <2> QED
    BY <1>2, <2>1, <2>2, <2>3, <2>4, <2>5, <2>6, AtInstruction
    DEF OpAccessChain, TypeInv, TypeOK
<1>3. CASE OpArithmetic
  <2>1. forced' \subseteq Pos /\ force' \in BOOLEAN /\ progress' \in BOOLEAN
    BY <1>3, AtInstruction, ForceType DEF OpArithmetic
  <2>2. /\ forwarded' \subseteq Pos /\ suppressed' \subseteq Pos
        /\ text' \in [Pos -> SUBSET Pos] /\ out' \subseteq Pos \X Pos
    BY <1>3, AtInstruction, EmitType DEF OpArithmetic
  <2>3. deps' \in [Pos -> SUBSET Pos]
    BY <1>3, AtInstruction, InheritType DEF OpArithmetic
  <2>4. dependees' \in [Vars -> SUBSET Pos]
    BY <1>3, AtInstruction, FlushTypes DEF OpArithmetic
  <2>5. /\ tracks' \in [Pos -> SUBSET Pos] /\ emitted_level' \in [Pos -> Int]
        /\ loaded_from' \in [Pos -> Vars \cup {NoVar}]
    BY <1>3, AtInstruction, NewExpressionType DEF OpArithmetic
  <2>6. used' \subseteq Pos /\ ctl' \subseteq Pos
    BY <1>3, AtInstruction
    DEF OpArithmetic, register_control_dependent_expression, TypeInv, TypeOK
  <2> QED
    BY <1>3, <2>1, <2>2, <2>3, <2>4, <2>5, <2>6, AtInstruction
    DEF OpArithmetic, TypeInv, TypeOK
<1>4. CASE OpStore
  <2>1. forced' \subseteq Pos /\ force' \in BOOLEAN /\ progress' \in BOOLEAN
    BY <1>4, AtInstruction, ForceType DEF OpStore
  <2>2. out' \subseteq Pos \X Pos
    BY <1>4, AtInstruction, StatementType DEF OpStore
  <2>3. dependees' \in [Vars -> SUBSET Pos]
    BY <1>4, AtInstruction, FlushTypes DEF OpStore
  <2>4. invalid' \subseteq Pos
    BY <1>4, AtInstruction, InvalidateType DEF OpStore
  <2>5. used' \subseteq Pos /\ write_count' \subseteq Params
    BY <1>4, AtInstruction DEF OpStore, NoteParameterWrite, ParameterWritten, TypeInv, TypeOK
  <2> QED
    BY <1>4, <2>1, <2>2, <2>3, <2>4, <2>5, AtInstruction
    DEF OpStore, NoResult, expressions, TypeInv, TypeOK
<1>5. CASE OpFunctionCall
  <2> DEFINE ins == prog[pc]
             written == (IF ins.fn.writes_arg THEN register_write(ins.ptr) ELSE {})
                          \cup (IF ins.fn.pure THEN {} ELSE register_impure_function_call)
  <2>1. invalid \cup Dependees(written) \subseteq Pos
    <3>1. register_impure_function_call \subseteq ActiveVariables
      BY DEF register_impure_function_call, ActiveVariables
    <3> QED
      BY <1>5, <3>1, AtInstruction, InvalidateType DEF OpFunctionCall
  <2>2. invalid' \subseteq Pos
    BY <1>5, <2>1 DEF OpFunctionCall
  <2>3. forced' \subseteq Pos /\ force' \in BOOLEAN /\ progress' \in BOOLEAN
    BY <1>5, <2>1, AtInstruction, ForceType DEF OpFunctionCall
  <2>4. /\ forwarded' \subseteq Pos /\ suppressed' \subseteq Pos
        /\ text' \in [Pos -> SUBSET Pos] /\ out' \subseteq Pos \X Pos
    BY <1>5, AtInstruction, EmitType DEF OpFunctionCall
  <2>5. deps' \in [Pos -> SUBSET Pos]
    BY <1>5, AtInstruction, InheritType DEF OpFunctionCall
  <2>6. dependees' \in [Vars -> SUBSET Pos]
    BY <1>5, AtInstruction, FlushTypes DEF OpFunctionCall
  <2>7. /\ tracks' \in [Pos -> SUBSET Pos] /\ emitted_level' \in [Pos -> Int]
        /\ loaded_from' \in [Pos -> Vars \cup {NoVar}]
    BY <1>5, AtInstruction, Backing, NewExpressionType DEF OpFunctionCall
  <2>8. used' \subseteq Pos /\ ctl' \subseteq Pos /\ write_count' \subseteq Params
    BY <1>5, AtInstruction
    DEF OpFunctionCall, register_control_dependent_expression, NoteParameterWrite,
        ParameterWritten, TypeInv, TypeOK
  <2>9. /\ UNCHANGED level
        /\ pc' \in 1 .. (N + 1) /\ prog' \in Programs
        /\ phase' \in {"emit", "done", "thrown"} /\ pass' \in 0 .. MaxIterations
    BY <1>5, AtInstruction DEF OpFunctionCall
  <2> QED
    BY <2>2, <2>3, <2>4, <2>5, <2>6, <2>7, <2>8, <2>9 DEF TypeInv, TypeOK
<1>6. CASE OpImageWrite
  <2>1. forced' \subseteq Pos /\ force' \in BOOLEAN /\ progress' \in BOOLEAN
    BY <1>6, AtInstruction, ForceType DEF OpImageWrite
  <2>2. out' \subseteq Pos \X Pos
    BY <1>6, AtInstruction, StatementType DEF OpImageWrite
  <2>3. dependees' \in [Vars -> SUBSET Pos]
    BY <1>6, AtInstruction, FlushTypes DEF OpImageWrite
  <2>4. invalid' \subseteq Pos
    <3>1. Aliased \subseteq ActiveVariables
      BY DEF ActiveVariables
    <3> QED
      BY <1>6, <3>1, AtInstruction, InvalidateType DEF OpImageWrite
  <2>5. used' \subseteq Pos
    BY <1>6, AtInstruction DEF OpImageWrite, TypeInv, TypeOK
  <2> QED
    BY <1>6, <2>1, <2>2, <2>3, <2>4, <2>5, AtInstruction
    DEF OpImageWrite, NoResult, expressions, TypeInv, TypeOK
<1>7. CASE OpControlBarrier
  <2>1. dependees' \in [Vars -> SUBSET Pos]
    BY <1>7, AtInstruction, FlushTypes DEF OpControlBarrier
  <2>2. invalid \cup Dependees(ActiveVariables) \subseteq Pos
    BY <1>7, AtInstruction, InvalidateType DEF OpControlBarrier
  <2>3. invalid' \subseteq Pos /\ ctl' \subseteq Pos
    BY <1>7, <2>2
    DEF OpControlBarrier, flush_control_dependent_expressions, TypeInv, TypeOK
  <2> QED
    BY <1>7, <2>1, <2>3, AtInstruction
    DEF OpControlBarrier, NoResult, expressions, TypeInv, TypeOK
<1>8. CASE FlushPhi
  <2>1. forced' \subseteq Pos /\ force' \in BOOLEAN /\ progress' \in BOOLEAN
    BY <1>8, AtInstruction, ForceType DEF FlushPhi
  <2>2. out' \subseteq Pos \X Pos
    BY <1>8, AtInstruction, StatementType DEF FlushPhi
  <2>3. dependees' \in [Vars -> SUBSET Pos]
    BY <1>8, AtInstruction, FlushTypes DEF FlushPhi
  <2>4. invalid' \subseteq Pos
    BY <1>8, AtInstruction, InvalidateType DEF FlushPhi
  <2>5. used' \subseteq Pos
    BY <1>8, AtInstruction DEF FlushPhi, TypeInv, TypeOK
  <2> QED
    BY <1>8, <2>1, <2>2, <2>3, <2>4, <2>5, AtInstruction
    DEF FlushPhi, NoResult, expressions, TypeInv, TypeOK
<1>9. CASE Branch
  <2>1. forced' \subseteq Pos /\ force' \in BOOLEAN /\ progress' \in BOOLEAN
    BY <1>9, AtInstruction, ForceType DEF Branch
  <2>2. out' \subseteq Pos \X Pos
    BY <1>9, AtInstruction, StatementType DEF Branch
  <2>3. invalid' \subseteq Pos /\ ctl' \subseteq Pos /\ used' \subseteq Pos
    BY <1>9, AtInstruction DEF Branch, flush_control_dependent_expressions, TypeInv, TypeOK
  <2> QED
    BY <1>9, <2>1, <2>2, <2>3, AtInstruction
    DEF Branch, NoResult, expressions, TypeInv, TypeOK
<1>10. CASE BeginLoop
  BY <1>10, AtInstruction DEF BeginLoop, NoResult, expressions, TypeInv, TypeOK
<1>11. CASE EndLoop
  BY <1>11, AtInstruction
  DEF EndLoop, flush_control_dependent_expressions, NoResult, expressions, TypeInv, TypeOK
<1>12. CASE Recompile
  <2>1. pass' \in 0 .. MaxIterations /\ prog' \in Programs
    BY <1>12, ConstantsAssumption DEF Recompile, TypeInv, TypeOK
  <2>2. CASE phase' = "thrown" /\ UNCHANGED <<pc, force, progress, tables, expressions, out>>
    BY <1>12, <2>1, <2>2 DEF Recompile, tables, expressions, TypeInv, TypeOK
  <2>3. CASE /\ pc' = 1 /\ force' = FALSE /\ progress' = FALSE
             /\ forwarded' = {} /\ suppressed' = {} /\ used' = {} /\ invalid' = {}
             /\ dependees' = NoDependees /\ ctl' = {} /\ level' = 0
             /\ text' = NoIds /\ deps' = NoIds /\ tracks' = NoIds
             /\ emitted_level' = OuterLevel /\ loaded_from' = Unbacked
             /\ out' = {} /\ UNCHANGED phase
    <3>1. UNCHANGED <<forced, write_count, phase>>
      BY <1>12, <2>3 DEF Recompile
    <3>2. /\ dependees' \in [Vars -> SUBSET Pos]
          /\ text' \in [Pos -> SUBSET Pos] /\ deps' \in [Pos -> SUBSET Pos]
          /\ tracks' \in [Pos -> SUBSET Pos] /\ emitted_level' \in [Pos -> Int]
          /\ loaded_from' \in [Pos -> Vars \cup {NoVar}]
          /\ pc' \in 1 .. (N + 1)
      BY <2>3, EmptyTables
    <3>3. force' \in BOOLEAN /\ progress' \in BOOLEAN
      BY <2>3
    <3>4. /\ phase' \in {"emit", "done", "thrown"} /\ level' \in Int
          /\ forced' \subseteq Pos /\ forwarded' \subseteq Pos /\ suppressed' \subseteq Pos
          /\ used' \subseteq Pos /\ invalid' \subseteq Pos /\ ctl' \subseteq Pos
          /\ write_count' \subseteq Params /\ prog' \in Programs
      BY <2>1, <2>3, <3>1 DEF TypeInv, TypeOK
    <3>5. out' \subseteq Pos \X Pos
      BY <2>3
    <3> QED
      BY <2>1, <3>2, <3>3, <3>4, <3>5 DEF TypeInv, TypeOK
  <2> QED
    BY <1>12, <2>2, <2>3 DEF Recompile
<1>13. CASE Finish
  BY <1>13 DEF Finish, tables, expressions, TypeInv, TypeOK
<1>14. CASE UNCHANGED vars
  BY <1>14 DEF vars, tables, expressions, TypeInv, TypeOK
<1> QED
  BY <1>1, <1>2, <1>3, <1>4, <1>5, <1>6, <1>7, <1>8, <1>9, <1>10, <1>11, <1>12, <1>13,
     <1>14 DEF Next

LEMMA TypeOKInvariant == Spec => []TypeInv
  BY TypeInitially, TypePreserved, PTL DEF Spec

\* In every state each variable of the module has its type: ids are ids of the
\* function body, and only parameters are ever noted as written.
THEOREM TypeCorrect == Spec => []TypeOK
<1>1. TypeInv => TypeOK
  BY DEF TypeInv
<1> QED
  BY <1>1, TypeOKInvariant, PTL

-------------------------------------------------------------------------------
\* Forward progress.

\* The ids which are pasted somewhere, or which a later write or branch may
\* still make invalid.
Live == forwarded \cup invalid \cup ctl \cup UNION {dependees[v] : v \in Vars}

NotesWrite(ins) ==
  /\ ins.ptr.var \in Params
  /\ ins.op = "store" \/ (ins.op = "call" /\ ins.fn.writes_arg)

\* No id which is still live was forced to a temporary, unless in this pass;
\* the parameters written by what was emitted are known; and only the first
\* pass can ask for another one without a new temporary.
ProgressInv ==
  /\ TypeInv
  /\ progress \/ Live \cap forced = {}
  /\ \A i \in DOMAIN prog :
        NotesWrite(prog[i]) /\ (pass > 0 \/ i < pc) => prog[i].ptr.var \in write_count
  /\ pass > 0 /\ force => progress
  /\ phase # "thrown"

\* Forcing live ids is progress.
LEMMA ForcingLiveIds ==
  ASSUME progress \/ Live \cap forced = {}, NEW ids \in SUBSET Live, NEW recompile,
         force_temporary_and_recompile(ids, recompile)
  PROVE  /\ ~progress' => ids = {} /\ forced' = forced /\ ~progress
         /\ force' => force \/ progress' \/ recompile
         /\ progress => progress'
<1>1. /\ progress' <=> progress \/ ids \ forced # {}
      /\ force' <=> force \/ ids # {} \/ recompile
      /\ forced' = forced \cup ids
  BY DEF force_temporary_and_recompile
<1>2. CASE ids = {}
  BY <1>1, <1>2
<1>3. CASE ids # {}
  <2>1. progress \/ ids \ forced # {}
    BY <1>3
  <2> QED
    BY <1>1, <2>1
<1> QED
  BY <1>2, <1>3

\* What an instruction reads is live, and so is what it makes invalid.
LEMMA LiveIds ==
  ASSUME TypeInv, NEW ins, NEW inv
  PROVE  /\ handle_invalid_expression(Ids(ins), inv) \subseteq inv
         /\ track_expression_read(ins) \subseteq Live
         /\ \A vs : Dependees(vs \cap Vars) \subseteq Live
         /\ invalid \subseteq Live /\ ctl \subseteq Live /\ forwarded \subseteq Live
  BY DEF handle_invalid_expression, track_expression_read, TrackedBy, Tracked, Live,
         Dependees

\* The variables which a write or a call invalidates are variables.
LEMMA FlushedVariables ==
  ASSUME TypeInv, NEW i \in DOMAIN prog
  PROVE  /\ register_write(prog[i].ptr) \subseteq Vars
         /\ register_impure_function_call \subseteq Vars
         /\ ActiveVariables \subseteq Vars /\ Aliased \subseteq Vars
  BY Backing DEF register_write, register_impure_function_call, ActiveVariables, Aliased, Vars

\* An instruction preserves the invariant when it only makes itself live, only
\* forces live ids, and asks for another pass without forcing any only when it
\* is the first to write a parameter.
LEMMA ProgressStep ==
  ASSUME ProgressInv, TypeInv', NEW o, At(o), Advance,
         Live' \subseteq Live \cup ({pc} \ forced),
         ~progress' => forced' = forced /\ ~progress,
         force' => \/ force \/ progress'
                   \/ NotesWrite(prog[pc]) /\ prog[pc].ptr.var \notin write_count,
         progress => progress',
         write_count \subseteq write_count',
         NotesWrite(prog[pc]) => prog[pc].ptr.var \in write_count'
  PROVE  ProgressInv'
<1>1. pc \in DOMAIN prog /\ pc' = pc + 1 /\ prog' = prog /\ pass' = pass /\ phase' = phase
      /\ pc \in Int /\ DOMAIN prog \subseteq Int
  BY Emitting, Operands DEF ProgressInv, TypeInv, Advance, Pos
<1>2. progress' \/ Live' \cap forced' = {}
  BY DEF ProgressInv
<1>3. ASSUME NEW i \in DOMAIN prog, NotesWrite(prog[i]), pass > 0 \/ i < pc + 1
      PROVE  prog[i].ptr.var \in write_count'
  <2>1. CASE i = pc
    BY <1>3, <2>1
  <2>2. CASE i # pc
    BY <1>1, <1>3, <2>2 DEF ProgressInv
  <2> QED
    BY <2>1, <2>2
<1>4. pass > 0 /\ force' => progress'
  BY <1>1 DEF ProgressInv
<1> QED
  BY <1>1, <1>2, <1>3, <1>4 DEF ProgressInv, NotesWrite

LEMMA ProgressInvariant ==
  ASSUME MaxIterations > 1
  PROVE  Spec => []ProgressInv
<1>1. Init => ProgressInv
  <2> SUFFICES ASSUME Init PROVE ProgressInv
    OBVIOUS
  <2>1. TypeInv
    BY TypeInitially
  <2>2. Live = {}
    BY DEF Init, Live, NoDependees
  <2>3. ASSUME NEW i \in DOMAIN prog PROVE ~(pass > 0 \/ i < pc)
    BY <2>1, Operands DEF Init, TypeInv, Pos
  <2> QED
    BY <2>1, <2>2, <2>3 DEF Init, ProgressInv
<1>2. ProgressInv /\ [Next]_vars => ProgressInv'
  <2> SUFFICES ASSUME ProgressInv, [Next]_vars PROVE ProgressInv'
    OBVIOUS
  <2>0. TypeInv /\ TypeInv'
    BY TypePreserved DEF ProgressInv
  <2>1. CASE OpLoad
    <3>1. handle_invalid_expression(Ids(prog[pc]), invalid) \subseteq Live
      BY <2>0, LiveIds
    <3>2. /\ ~progress' => forced' = forced /\ ~progress
          /\ force' => force \/ progress'
          /\ progress => progress'
      BY <2>1, <3>1, ForcingLiveIds DEF OpLoad, ProgressInv
    <3>3. Live' \subseteq Live \cup ({pc} \ forced)
      BY <2>1 DEF OpLoad, Live, emit_op, AddDependees
    <3>4. ~NotesWrite(prog[pc]) /\ write_count' = write_count
      BY <2>1 DEF OpLoad, At, NotesWrite
    <3> QED
      BY <2>0, <2>1, <3>2, <3>3, <3>4, ProgressStep DEF OpLoad
  <2>2. CASE OpAccessChain
    <3>1. handle_invalid_expression(Ids(prog[pc]), invalid) \subseteq Live
      BY <2>0, LiveIds
    <3>2. /\ ~progress' => forced' = forced /\ ~progress
          /\ force' => force \/ progress'
          /\ progress => progress'
      BY <2>2, <3>1, ForcingLiveIds DEF OpAccessChain, ProgressInv
    <3>3. Live' \subseteq Live \cup ({pc} \ forced)
      BY <2>2 DEF OpAccessChain, Live, AddDependees
    <3>4. ~NotesWrite(prog[pc]) /\ write_count' = write_count
      BY <2>2 DEF OpAccessChain, At, NotesWrite
    <3> QED
      BY <2>0, <2>2, <3>2, <3>3, <3>4, ProgressStep DEF OpAccessChain
  <2>3. CASE OpArithmetic
    <3>1. handle_invalid_expression(Ids(prog[pc]), invalid)
             \cup track_expression_read(prog[pc]) \subseteq Live
      BY <2>0, LiveIds
    <3>2. /\ ~progress' => forced' = forced /\ ~progress
          /\ force' => force \/ progress'
          /\ progress => progress'
      BY <2>3, <3>1, ForcingLiveIds DEF OpArithmetic, ProgressInv
    <3>3. Live' \subseteq Live \cup ({pc} \ forced)
      <4>1. forwarded' \subseteq forwarded \cup ({pc} \ forced)
        BY <2>3 DEF OpArithmetic, emit_op
      <4>2. ctl' \subseteq ctl \cup forwarded'
        BY <2>3 DEF OpArithmetic, register_control_dependent_expression
      <4>3. UNION {dependees'[v] : v \in Vars} \subseteq Live \cup ({pc} \ forced)
        BY <2>3 DEF OpArithmetic, Live, AddDependees
      <4>4. invalid' = invalid
        BY <2>3 DEF OpArithmetic
      <4> QED
        BY <4>1, <4>2, <4>3, <4>4 DEF Live
    <3>4. ~NotesWrite(prog[pc]) /\ write_count' = write_count
      BY <2>3 DEF OpArithmetic, At, NotesWrite
    <3> QED
      BY <2>0, <2>3, <3>2, <3>3, <3>4, ProgressStep DEF OpArithmetic
  <2>4. CASE OpStore
    <3>1. handle_invalid_expression(Ids(prog[pc]), invalid)
             \cup track_expression_read(prog[pc]) \subseteq Live
      BY <2>0, LiveIds
    <3>2. /\ ~progress' => forced' = forced /\ ~progress
          /\ force' => force \/ progress' \/ ParameterWritten(prog[pc].ptr)
          /\ progress => progress'
      BY <2>4, <3>1, ForcingLiveIds DEF OpStore, ProgressInv
    <3>3. Live' \subseteq Live \cup ({pc} \ forced)
      <4>1. Dependees(register_write(prog[pc].ptr)) \subseteq Live
        BY <2>0, <2>4, Emitting, FlushedVariables DEF OpStore, Live, Dependees
      <4>2. invalid' \subseteq Live /\ ctl' \subseteq Live /\ forwarded' = forwarded
        BY <2>4, <4>1 DEF OpStore, NoResult, Live
      <4>3. UNION {dependees'[v] : v \in Vars} \subseteq Live
        BY <2>4 DEF OpStore, Live, Flushed
      <4> QED
        BY <4>2, <4>3 DEF Live
    <3>4. /\ ParameterWritten(prog[pc].ptr)
               => NotesWrite(prog[pc]) /\ prog[pc].ptr.var \notin write_count
          /\ write_count \subseteq write_count'
          /\ NotesWrite(prog[pc]) => prog[pc].ptr.var \in write_count'
      BY <2>4 DEF OpStore, At, NotesWrite, NoteParameterWrite, ParameterWritten
    <3> QED
      BY <2>0, <2>4, <3>2, <3>3, <3>4, ProgressStep DEF OpStore
  <2>5. CASE OpFunctionCall
    <3> DEFINE ins == prog[pc]
               written == (IF ins.fn.writes_arg THEN register_write(ins.ptr) ELSE {})
                            \cup (IF ins.fn.pure THEN {} ELSE register_impure_function_call)
    <3>1. Dependees(written) \subseteq Live
      BY <2>0, <2>5, Emitting, FlushedVariables DEF OpFunctionCall, Live, Dependees
    <3>2. handle_invalid_expression(Ids(ins), invalid \cup Dependees(written))
             \cup track_expression_read(ins) \subseteq Live
      BY <2>0, <3>1, LiveIds
    <3>3. /\ ~progress' => forced' = forced /\ ~progress
          /\ force' => force \/ progress' \/ (ins.fn.writes_arg /\ ParameterWritten(ins.ptr))
          /\ progress => progress'
      BY <2>5, <3>2, ForcingLiveIds DEF OpFunctionCall, ProgressInv
    <3>4. invalid' \subseteq Live /\ forwarded' \subseteq Live \cup ({pc} \ forced)
      BY <2>5, <3>1 DEF OpFunctionCall, Live, emit_op
    <3>5. ctl' \subseteq ctl \cup forwarded'
      BY <2>5 DEF OpFunctionCall, register_control_dependent_expression
    <3>6. UNION {dependees'[v] : v \in Vars} \subseteq Live \cup ({pc} \ forced)
      BY <2>5 DEF OpFunctionCall, Live, AddDependees, Flushed
    <3>7. Live' \subseteq Live \cup ({pc} \ forced)
      BY <3>4, <3>5, <3>6 DEF Live
    <3>8. /\ ins.fn.writes_arg /\ ParameterWritten(ins.ptr)
               => NotesWrite(ins) /\ ins.ptr.var \notin write_count
          /\ write_count \subseteq write_count'
          /\ NotesWrite(ins) => ins.ptr.var \in write_count'
      BY <2>5 DEF OpFunctionCall, At, NotesWrite, NoteParameterWrite, ParameterWritten
    <3> QED
      BY <2>0, <2>5, <3>3, <3>7, <3>8, ProgressStep DEF OpFunctionCall
  <2>6. CASE OpImageWrite
    <3>1. handle_invalid_expression(Ids(prog[pc]), invalid)
             \cup track_expression_read(prog[pc]) \subseteq Live
      BY <2>0, LiveIds
    <3>2. /\ ~progress' => forced' = forced /\ ~progress
          /\ force' => force \/ progress'
          /\ progress => progress'
      BY <2>6, <3>1, ForcingLiveIds DEF OpImageWrite, ProgressInv
    <3>3. Live' \subseteq Live \cup ({pc} \ forced)
      <4>1. Dependees(IF prog[pc].ptr.var \in Aliased THEN Aliased ELSE {}) \subseteq Live
        BY <2>0, <2>6, Emitting, FlushedVariables DEF OpImageWrite, Live, Dependees
      <4>2. invalid' \subseteq Live /\ ctl' \subseteq Live /\ forwarded' = forwarded
        BY <2>6, <4>1 DEF OpImageWrite, NoResult, Live
      <4>3. UNION {dependees'[v] : v \in Vars} \subseteq Live
        BY <2>6 DEF OpImageWrite, Live, Flushed
      <4> QED
        BY <4>2, <4>3 DEF Live
    <3>4. ~NotesWrite(prog[pc]) /\ write_count' = write_count
      BY <2>6 DEF OpImageWrite, At, NotesWrite
    <3> QED
      BY <2>0, <2>6, <3>2, <3>3, <3>4, ProgressStep DEF OpImageWrite
  <2>7. CASE OpControlBarrier
    <3>1. UNCHANGED <<forced, force, progress, write_count>>
      BY <2>7 DEF OpControlBarrier
    <3>2. ~NotesWrite(prog[pc])
      BY <2>7 DEF OpControlBarrier, At, NotesWrite
    <3>3. Live' \subseteq Live \cup ({pc} \ forced)
      <4>1. Dependees(ActiveVariables) \subseteq Live
        BY <2>0, <2>7, Emitting, FlushedVariables DEF OpControlBarrier, Live, Dependees
      <4>2. invalid' \subseteq Live /\ ctl' \subseteq Live /\ forwarded' = forwarded
        BY <2>7, <4>1 DEF OpControlBarrier, NoResult, Live, flush_control_dependent_expressions
      <4>3. UNION {dependees'[v] : v \in Vars} \subseteq Live
        BY <2>7 DEF OpControlBarrier, Live, Flushed
      <4> QED
        BY <4>2, <4>3 DEF Live
    <3> QED
      BY <2>0, <2>7, <3>1, <3>2, <3>3, ProgressStep DEF OpControlBarrier
  <2>8. CASE FlushPhi
    <3>1. handle_invalid_expression(Ids(prog[pc]), invalid)
             \cup track_expression_read(prog[pc]) \subseteq Live
      BY <2>0, LiveIds
    <3>2. /\ ~progress' => forced' = forced /\ ~progress
          /\ force' => force \/ progress'
          /\ progress => progress'
      BY <2>8, <3>1, ForcingLiveIds DEF FlushPhi, ProgressInv
    <3>3. Live' \subseteq Live \cup ({pc} \ forced)
      <4>1. Dependees(register_write(prog[pc].ptr)) \subseteq Live
        BY <2>0, <2>8, Emitting, FlushedVariables DEF FlushPhi, Live, Dependees
      <4>2. invalid' \subseteq Live /\ ctl' \subseteq Live /\ forwarded' = forwarded
        BY <2>8, <4>1 DEF FlushPhi, NoResult, Live
      <4>3. UNION {dependees'[v] : v \in Vars} \subseteq Live
        BY <2>8 DEF FlushPhi, Live, Flushed
      <4> QED
        BY <4>2, <4>3 DEF Live
    <3>4. ~NotesWrite(prog[pc]) /\ write_count' = write_count
      BY <2>8 DEF FlushPhi, At, NotesWrite
    <3> QED
      BY <2>0, <2>8, <3>2, <3>3, <3>4, ProgressStep DEF FlushPhi
  <2>9. CASE Branch
    <3>1. handle_invalid_expression(Ids(prog[pc]), invalid)
             \cup track_expression_read(prog[pc]) \subseteq Live
      BY <2>0, LiveIds
    <3>2. /\ ~progress' => forced' = forced /\ ~progress
          /\ force' => force \/ progress'
          /\ progress => progress'
      BY <2>9, <3>1, ForcingLiveIds DEF Branch, ProgressInv
    <3>3. Live' \subseteq Live \cup ({pc} \ forced)
      BY <2>9 DEF Branch, NoResult, Live, flush_control_dependent_expressions
    <3>4. ~NotesWrite(prog[pc]) /\ write_count' = write_count
      BY <2>9 DEF Branch, At, NotesWrite
    <3> QED
      BY <2>0, <2>9, <3>2, <3>3, <3>4, ProgressStep DEF Branch
  <2>10. CASE BeginLoop
    <3>1. UNCHANGED <<forced, force, progress, write_count>>
      BY <2>10 DEF BeginLoop
    <3>2. ~NotesWrite(prog[pc])
      BY <2>10 DEF BeginLoop, At, NotesWrite
    <3>3. Live' \subseteq Live \cup ({pc} \ forced)
      BY <2>10 DEF BeginLoop, NoResult, Live
    <3> QED
      BY <2>0, <2>10, <3>1, <3>2, <3>3, ProgressStep DEF BeginLoop
  <2>11. CASE EndLoop
    <3>1. UNCHANGED <<forced, force, progress, write_count>>
      BY <2>11 DEF EndLoop
    <3>2. ~NotesWrite(prog[pc])
      BY <2>11 DEF EndLoop, At, NotesWrite
    <3>3. Live' \subseteq Live \cup ({pc} \ forced)
      BY <2>11 DEF EndLoop, NoResult, Live, flush_control_dependent_expressions
    <3> QED
      BY <2>0, <2>11, <3>1, <3>2, <3>3, ProgressStep DEF EndLoop
  <2>12. CASE Recompile
    <3>1. pc = Len(prog) + 1 /\ DOMAIN prog = 1 .. Len(prog) /\ force
      BY <2>0, <2>12, ConstantsAssumption DEF Recompile, TypeInv
    <3>2. \A i \in DOMAIN prog : NotesWrite(prog[i]) => prog[i].ptr.var \in write_count
      BY <3>1 DEF ProgressInv
    <3>3. pass > 0 => progress
      BY <3>1 DEF ProgressInv
    <3>4. ~(pass' >= MaxIterations /\ ~progress)
      BY <2>0, <2>12, <3>3, ConstantsAssumption DEF Recompile, TypeInv, TypeOK
    <3>5. /\ force' = FALSE /\ progress' = FALSE /\ phase' = phase
          /\ forwarded' = {} /\ invalid' = {} /\ ctl' = {} /\ dependees' = NoDependees
          /\ UNCHANGED <<prog, write_count>>
      BY <2>12, <3>4 DEF Recompile
    <3>6. Live' = {}
      BY <3>5 DEF Live, NoDependees
    <3>7. \A i \in DOMAIN prog : NotesWrite(prog[i])' = NotesWrite(prog[i])
      BY <3>5 DEF NotesWrite
    <3> QED
      BY <2>0, <3>2, <3>5, <3>6, <3>7 DEF ProgressInv
  <2>13. CASE Finish
    <3>1. UNCHANGED <<forced, forwarded, invalid, ctl, dependees, prog, pass, pc,
                      write_count, force, progress>> /\ phase' = "done"
      BY <2>13 DEF Finish, tables
    <3> QED
      BY <2>0, <3>1 DEF ProgressInv, Live, NotesWrite
  <2>14. CASE UNCHANGED vars
    <3>1. UNCHANGED <<forced, forwarded, invalid, ctl, dependees, prog, pass, pc,
                      write_count, force, progress, phase>>
      BY <2>14 DEF vars, tables
    <3> QED
      BY <2>0, <3>1 DEF ProgressInv, Live, NotesWrite
  <2> QED
    BY <2>1, <2>2, <2>3, <2>4, <2>5, <2>6, <2>7, <2>8, <2>9, <2>10, <2>11, <2>12, <2>13,
       <2>14 DEF Next
<1> QED
  BY <1>1, <1>2, PTL DEF Spec

\* With a limit of at least two iterations (the default is three) the safety
\* net of reset() never fires, whatever the function body: after the first pass
\* each recompilation has forced a new temporary.
THEOREM ForwardProgress ==
  ASSUME MaxIterations > 1
  PROVE  Spec => []AlwaysForwardProgress
<1>1. ProgressInv => AlwaysForwardProgress
  BY DEF ProgressInv, AlwaysForwardProgress
<1> QED
  BY <1>1, ProgressInvariant, PTL

-------------------------------------------------------------------------------
(* Moving the evaluation of an instruction to the place of its use: side   *)
(* effects stay where they are, and in straight-line bodies whose aliasing *)
(* is known no value changes on the way and no derivative leaves its block.*)

\* Side effects.

\* No expression evaluates an instruction with side effects, such instructions
\* are in their own statements only, and those emitted are there.
EffectInv ==
  /\ TypeInv
  /\ \A e \in Pos : \A j \in text[e] : j \in DOMAIN prog /\ ~HasEffect(prog[j])
  /\ \A j \in DOMAIN prog, i \in Pos : <<j, i>> \in out /\ HasEffect(prog[j]) => i = j
  /\ ~force => \A j \in DOMAIN prog : j < pc /\ HasEffect(prog[j]) => <<j, j>> \in out
  /\ phase = "done" => ~force /\ pc = Len(prog) + 1

LEMMA EffectStep ==
  ASSUME EffectInv, TypeInv', NEW o, At(o), Advance,
         \A e \in Pos : e # pc => text'[e] = text[e],
         \A j \in text'[pc] : \/ j \in text[pc] \/ j \in Pasted(prog[pc])
                              \/ j = pc /\ ~HasEffect(prog[pc]),
         out \subseteq out', out' \subseteq out \cup ((Pasted(prog[pc]) \cup {pc}) \X {pc}),
         ~force' => ~force /\ (HasEffect(prog[pc]) => <<pc, pc>> \in out')
  PROVE  EffectInv'
<1>1. /\ pc \in DOMAIN prog /\ pc \in Pos /\ pc' = pc + 1 /\ prog' = prog /\ phase' = "emit"
      /\ Ids(prog[pc]) \subseteq Pos /\ DOMAIN prog \subseteq Int
  BY AtInstruction, Operands DEF EffectInv, TypeInv, At, Advance, Pos
<1>2. \A j \in Pasted(prog[pc]) : j \in DOMAIN prog /\ ~HasEffect(prog[j])
  BY <1>1 DEF EffectInv, Pasted
<1>3. \A e \in Pos : \A j \in text'[e] : j \in DOMAIN prog /\ ~HasEffect(prog[j])
  BY <1>1, <1>2 DEF EffectInv
<1>4. ASSUME NEW j \in DOMAIN prog, NEW i \in Pos, <<j, i>> \in out', HasEffect(prog[j])
      PROVE  i = j
  BY <1>1, <1>2, <1>4 DEF EffectInv
<1>5. ASSUME ~force', NEW j \in DOMAIN prog, j < pc + 1, HasEffect(prog[j])
      PROVE  <<j, j>> \in out'
  <2>1. CASE j = pc
    BY <1>5, <2>1
  <2>2. CASE j # pc
    BY <1>1, <1>5, <2>2 DEF EffectInv, TypeInv, TypeOK
  <2> QED
    BY <2>1, <2>2
<1> QED
  BY <1>1, <1>3, <1>4, <1>5 DEF EffectInv, HasEffect

\* What emit_op does to the texts and to the statements.
LEMMA EmitShape ==
  ASSUME TypeInv, pc \in Pos, NEW stamped, NEW forward, NEW suppress,
         emit_op(stamped, forward, suppress)
  PROVE  /\ \A e \in Pos : e # pc => text'[e] = text[e]
         /\ text'[pc] = IF forward THEN stamped ELSE {}
         /\ out \subseteq out' /\ out' \subseteq out \cup (stamped \X {pc})
         /\ ~forward /\ ~force' => stamped \X {pc} \subseteq out'
<1>1. text \in [Pos -> SUBSET Pos]
  BY DEF TypeInv, TypeOK
<1>2. CASE forward
  BY <1>1, <1>2 DEF emit_op
<1>3. CASE ~forward
  BY <1>1, <1>3 DEF emit_op, statement
<1> QED
  BY <1>2, <1>3

LEMMA StatementShape ==
  ASSUME NEW stamped, statement(stamped)
  PROVE  out \subseteq out' /\ out' \subseteq out \cup (stamped \X {pc})
  BY DEF statement

LEMMA ForceGrows ==
  ASSUME NEW ids, NEW recompile, force_temporary_and_recompile(ids, recompile)
  PROVE  ~force' => ~force /\ ids = {}
  BY DEF force_temporary_and_recompile

LEMMA EffectInvariant == Spec => []EffectInv
<1>1. Init => EffectInv
  <2> SUFFICES ASSUME Init PROVE EffectInv
    OBVIOUS
  <2>1. TypeInv
    BY TypeInitially
  <2>2. \A j \in DOMAIN prog : ~(j < pc)
    BY <2>1, Operands DEF Init, TypeInv, Pos
  <2> QED
    BY <2>1, <2>2 DEF Init, EffectInv, NoIds
<1>2. EffectInv /\ [Next]_vars => EffectInv'
  <2> SUFFICES ASSUME EffectInv, [Next]_vars PROVE EffectInv'
    OBVIOUS
  <2>0. TypeInv /\ TypeInv'
    BY TypePreserved DEF EffectInv
  <2>1. CASE OpLoad
    <3>1. /\ \A e \in Pos : e # pc => text'[e] = text[e]
          /\ text'[pc] \subseteq Pasted(prog[pc]) \cup {pc}
          /\ out \subseteq out' /\ out' \subseteq out \cup ((Pasted(prog[pc]) \cup {pc}) \X {pc})
      BY <2>0, <2>1, AtInstruction, EmitShape DEF OpLoad
    <3>2. ~HasEffect(prog[pc]) /\ (~force' => ~force)
      BY <2>1, ForceGrows DEF OpLoad, At, HasEffect
    <3> QED
      BY <2>0, <2>1, <3>1, <3>2, EffectStep DEF OpLoad
  <2>2. CASE OpAccessChain
    <3>1. /\ \A e \in Pos : e # pc => text'[e] = text[e]
          /\ text'[pc] \subseteq Pasted(prog[pc]) \cup {pc}
          /\ out' = out
      BY <2>0, <2>2, AtInstruction DEF OpAccessChain, TypeInv, TypeOK
    <3>2. ~HasEffect(prog[pc]) /\ (~force' => ~force)
      BY <2>2, ForceGrows DEF OpAccessChain, At, HasEffect
    <3> QED
      BY <2>0, <2>2, <3>1, <3>2, EffectStep DEF OpAccessChain
  <2>3. CASE OpArithmetic
    <3>1. /\ \A e \in Pos : e # pc => text'[e] = text[e]
          /\ text'[pc] \subseteq Pasted(prog[pc]) \cup {pc}
          /\ out \subseteq out' /\ out' \subseteq out \cup ((Pasted(prog[pc]) \cup {pc}) \X {pc})
      BY <2>0, <2>3, AtInstruction, EmitShape DEF OpArithmetic
    <3>2. ~HasEffect(prog[pc]) /\ (~force' => ~force)
      BY <2>3, ForceGrows DEF OpArithmetic, At, HasEffect
    <3> QED
      BY <2>0, <2>3, <3>1, <3>2, EffectStep DEF OpArithmetic
  <2>4. CASE OpStore
    <3>1. text' = text /\ out \subseteq out' /\ out' \subseteq out \cup (Pasted(prog[pc]) \X {pc})
      BY <2>0, <2>4, StatementShape DEF OpStore, NoResult, expressions
    <3>2. ~HasEffect(prog[pc]) /\ (~force' => ~force)
      BY <2>4, ForceGrows DEF OpStore, At, HasEffect
    <3> QED
      BY <2>0, <2>4, <3>1, <3>2, EffectStep DEF OpStore
  <2>5. CASE OpFunctionCall
    <3> DEFINE forward == /\ pc \notin forced /\ CanForward(prog[pc])
                          /\ \A a \in Ids(prog[pc]) : should_forward(a)
    <3>1. pc \in Pos /\ emit_op(Pasted(prog[pc]) \cup {pc}, forward, FALSE)
      BY <2>0, <2>5, AtInstruction DEF OpFunctionCall
    <3>2. forward => ~HasEffect(prog[pc])
      BY <2>0, <2>5 DEF OpFunctionCall, At, HasEffect, CanForward, CallCanForward
    <3>3. /\ \A e \in Pos : e # pc => text'[e] = text[e]
          /\ text'[pc] = IF forward THEN Pasted(prog[pc]) \cup {pc} ELSE {}
          /\ out \subseteq out' /\ out' \subseteq out \cup ((Pasted(prog[pc]) \cup {pc}) \X {pc})
          /\ ~forward /\ ~force' => (Pasted(prog[pc]) \cup {pc}) \X {pc} \subseteq out'
      BY <2>0, <3>1, EmitShape
    <3>4. ~force' => ~force
      BY <2>5, ForceGrows DEF OpFunctionCall
    <3>5. ~force' /\ HasEffect(prog[pc]) => <<pc, pc>> \in out'
      BY <3>2, <3>3
    <3>6. \A j \in text'[pc] : j \in Pasted(prog[pc]) \/ (j = pc /\ ~HasEffect(prog[pc]))
      BY <3>2, <3>3
    <3> HIDE DEF forward
    <3> QED
      BY <2>0, <2>5, <3>3, <3>4, <3>5, <3>6, EffectStep DEF OpFunctionCall
  <2>6. CASE OpImageWrite
    <3>1. text' = text /\ out \subseteq out' /\ out' \subseteq out \cup (Pasted(prog[pc]) \X {pc})
      BY <2>0, <2>6, StatementShape DEF OpImageWrite, NoResult, expressions
    <3>2. ~HasEffect(prog[pc]) /\ (~force' => ~force)
      BY <2>6, ForceGrows DEF OpImageWrite, At, HasEffect
    <3> QED
      BY <2>0, <2>6, <3>1, <3>2, EffectStep DEF OpImageWrite
  <2>7. CASE OpControlBarrier
    <3>1. text' = text /\ out' = out
      BY <2>7 DEF OpControlBarrier, NoResult, expressions
    <3>2. ~HasEffect(prog[pc]) /\ (~force' => ~force)
      BY <2>7 DEF OpControlBarrier, At, HasEffect
    <3> QED
      BY <2>0, <2>7, <3>1, <3>2, EffectStep DEF OpControlBarrier
  <2>8. CASE FlushPhi
    <3>1. text' = text /\ out \subseteq out' /\ out' \subseteq out \cup (Pasted(prog[pc]) \X {pc})
      BY <2>0, <2>8, StatementShape DEF FlushPhi, NoResult, expressions
    <3>2. ~HasEffect(prog[pc]) /\ (~force' => ~force)
      BY <2>8, ForceGrows DEF FlushPhi, At, HasEffect
    <3> QED
      BY <2>0, <2>8, <3>1, <3>2, EffectStep DEF FlushPhi
  <2>9. CASE Branch
    <3>1. text' = text /\ out \subseteq out' /\ out' \subseteq out \cup (Pasted(prog[pc]) \X {pc})
      BY <2>0, <2>9, StatementShape DEF Branch, NoResult, expressions
    <3>2. ~HasEffect(prog[pc]) /\ (~force' => ~force)
      BY <2>9, ForceGrows DEF Branch, At, HasEffect
    <3> QED
      BY <2>0, <2>9, <3>1, <3>2, EffectStep DEF Branch
  <2>10. CASE BeginLoop
    <3>1. text' = text /\ out' = out
      BY <2>10 DEF BeginLoop, NoResult, expressions
    <3>2. ~HasEffect(prog[pc]) /\ (~force' => ~force)
      BY <2>10 DEF BeginLoop, At, HasEffect
    <3> QED
      BY <2>0, <2>10, <3>1, <3>2, EffectStep DEF BeginLoop
  <2>11. CASE EndLoop
    <3>1. text' = text /\ out' = out
      BY <2>11 DEF EndLoop, NoResult, expressions
    <3>2. ~HasEffect(prog[pc]) /\ (~force' => ~force)
      BY <2>11 DEF EndLoop, At, HasEffect
    <3> QED
      BY <2>0, <2>11, <3>1, <3>2, EffectStep DEF EndLoop
  <2>12. CASE Recompile
    <3>1. /\ phase' = "thrown"
          /\ UNCHANGED <<prog, pc, force, text, out>>
        \/ /\ phase' = "emit" /\ pc' = 1 /\ force' = FALSE /\ text' = NoIds /\ out' = {}
           /\ prog' = prog
      BY <2>12 DEF Recompile, expressions
    <3>2. \A j \in DOMAIN prog : ~(j < 1)
      BY <2>0, Operands DEF TypeInv, Pos
    <3>3. CASE phase' = "thrown" /\ UNCHANGED <<prog, pc, force, text, out>>
      BY <2>0, <3>3 DEF EffectInv, HasEffect
    <3>4. CASE /\ phase' = "emit" /\ pc' = 1 /\ force' = FALSE /\ text' = NoIds /\ out' = {}
               /\ prog' = prog
      BY <2>0, <3>2, <3>4 DEF EffectInv, HasEffect, NoIds
    <3> QED
      BY <3>1, <3>3, <3>4
  <2>13. CASE Finish
    BY <2>0, <2>13 DEF Finish, expressions, EffectInv, HasEffect
  <2>14. CASE UNCHANGED vars
    BY <2>0, <2>14 DEF vars, expressions, EffectInv, HasEffect
  <2> QED
    BY <2>1, <2>2, <2>3, <2>4, <2>5, <2>6, <2>7, <2>8, <2>9, <2>10, <2>11, <2>12, <2>13,
       <2>14 DEF Next
<1> QED
  BY <1>1, <1>2, PTL DEF Spec

\* In the code compile() returns, a call with side effects is in exactly one
\* statement, its own, whatever the function body and however many passes it took.
THEOREM EffectsStay == Spec => []EffectsHappenOnceInOrder
<1>1. EffectInv => EffectsHappenOnceInOrder
  <2> SUFFICES ASSUME EffectInv, phase = "done", NEW j \in DOMAIN prog, HasEffect(prog[j])
               PROVE  {i \in Pos : <<j, i>> \in out} = {j}
    BY DEF EffectsHappenOnceInOrder
  <2>1. j \in Pos /\ j < pc
    BY ConstantsAssumption, Operands DEF EffectInv, TypeInv, Pos
  <2>2. <<j, j>> \in out
    BY <2>1 DEF EffectInv
  <2> QED
    BY <2>1, <2>2 DEF EffectInv
<1> QED
  BY <1>1, EffectInvariant, PTL

-------------------------------------------------------------------------------
\* Moved reads.

Watch(e) == {e} \cup deps[e]

\* Instruction k may not be moved over by instruction j.
Disturbs(k, j) ==
  \/ Clobbers(prog, k, j)
  \/ IsControlDependent(prog[j]) /\ LeavesBlock(prog[k])

\* The text of expression e may evaluate instruction j: a write or a branch
\* which disturbs j makes e, or an expression e depends on, invalid.
Covered(e, j) ==
  /\ j \in DOMAIN prog /\ j <= e /\ CanForward(prog[j])
  /\ \A v \in Readers(prog[j]) : Watch(e) \cap (invalid \cup dependees[v]) # {}
  /\ IsControlDependent(prog[j]) => Watch(e) \cap (invalid \cup ctl) # {}
  /\ \A k \in DOMAIN prog : j < k /\ k < pc /\ Disturbs(k, j) => Watch(e) \cap invalid # {}

\* Nothing that disturbs j comes between it and statement i.
InPlace(j, i) ==
  /\ j <= i
  /\ \A k \in DOMAIN prog : j < k /\ k < i => ~Disturbs(k, j)

\* Access chains are never bound to temporaries: nothing invalidates them.
ChainsStay ==
  \A c \in DOMAIN prog :
    prog[c].op = "chain" =>
      /\ c \notin forced /\ c \notin invalid /\ c \notin ctl
      /\ \A v \in Vars : c \notin dependees[v]
      /\ c \in forwarded => c \in suppressed

MotionInv ==
  /\ TypeInv /\ StraightLine(prog) /\ ChainsStay
  /\ \A e \in Pos : e >= pc => text[e] = {}
  /\ \A e \in DOMAIN prog :
        e < pc /\ prog[e].op = "load" =>
          /\ loaded_from[e] = prog[e].ptr.var
          /\ Ids(prog[e]) = {} => text[e] \subseteq {e}
  /\ ~force => \A e \in Pos : \A j \in text[e] : Covered(e, j)
  /\ ~force => \A j, i \in Pos : <<j, i>> \in out => InPlace(j, i)
  /\ phase = "done" => ~force

\* An instruction a forwarded instruction depends on is a variable's dependee.
LEMMA ReadersAreVariables ==
  ASSUME TypeInv, NEW j \in DOMAIN prog
  PROVE  Readers(prog[j]) \subseteq Vars
<1>1. InstructionOK(prog, j)
  BY Operands DEF TypeInv
<1>2. prog[j].ptr.var \in Vars \cup {NoVar} /\ prog[j].phis \subseteq Vars
  BY <1>1 DEF InstructionOK, PointerOK, Vars
<1>3. \A r \in prog[j].fn.reads : r.var \in Vars
  BY <1>1 DEF InstructionOK, CalleeOK
<1>4. prog[j].op \in {"load", "arith", "call"} \/ Readers(prog[j]) = {}
  BY DEF Readers
<1>5. CASE prog[j].op = "load"
  BY <1>2, <1>5 DEF Readers, DependsOn
<1>6. CASE prog[j].op = "arith"
  BY <1>2, <1>6 DEF Readers
<1>7. CASE prog[j].op = "call"
  BY <1>2, <1>3, <1>7 DEF Readers, DependsOn
<1> QED
  BY <1>4, <1>5, <1>6, <1>7

\* A write which disturbs an instruction invalidates the dependees of a
\* variable the instruction was read from.
LEMMA WritesFlush ==
  ASSUME TypeInv, StraightLine(prog), NEW j \in DOMAIN prog, NEW k \in DOMAIN prog,
         j < k, CanForward(prog[j]), Clobbers(prog, k, j)
  PROVE  \E v \in Readers(prog[j]) : v \in FlushedBy(prog[k])
  BY DEF StraightLine, AliasingIsKnown

\* When no invalid expression was read, everything pasted is in place.
LEMMA PastedInPlace ==
  ASSUME MotionInv, ~force, pc \in DOMAIN prog,
         \A a \in Ids(prog[pc]) : Watch(a) \cap invalid = {}
  PROVE  \A j \in Pasted(prog[pc]) : j \in DOMAIN prog /\ j < pc /\ InPlace(j, pc)
<1>1. /\ Ids(prog[pc]) \subseteq 1 .. (pc - 1) /\ Ids(prog[pc]) \subseteq Pos
      /\ pc \in Int /\ DOMAIN prog \subseteq Int
  BY Operands DEF MotionInv, TypeInv, Pos
<1>2. ASSUME NEW a \in Ids(prog[pc]), NEW j \in text[a]
      PROVE  j \in DOMAIN prog /\ j < pc /\ InPlace(j, pc)
  <2>1. Covered(a, j)
    BY <1>1 DEF MotionInv
  <2> QED
    BY <1>1, <2>1 DEF Covered, InPlace
<1> QED
  BY <1>2 DEF Pasted

\* What was covered before an instruction is covered after it, when the instruction
\* invalidates at least what it should.
LEMMA StaysCovered ==
  ASSUME MotionInv, pc \in DOMAIN prog, pc' = pc + 1, prog' = prog,
         NEW F \in SUBSET Vars,
         invalid \cup Dependees(F) \subseteq invalid',
         \A v \in Vars \ F : dependees[v] \subseteq dependees'[v],
         ctl \subseteq ctl' \cup invalid',
         LeavesBlock(prog[pc]) => ctl \subseteq invalid',
         FlushedBy(prog[pc]) \subseteq F,
         NEW e \in DOMAIN prog, e < pc, deps'[e] = deps[e],
         NEW j \in text[e], Covered(e, j)
  PROVE  Covered(e, j)'
<1>1. /\ TypeInv /\ StraightLine(prog)
      /\ j \in DOMAIN prog /\ j <= e /\ j < pc /\ CanForward(prog[j])
      /\ pc \in Int /\ DOMAIN prog \subseteq Int
  BY Operands DEF MotionInv, TypeInv, Covered, Pos
<1>2. Watch(e)' = Watch(e)
  BY DEF Watch
<1>3. \A v \in Vars : invalid \cup dependees[v] \subseteq invalid' \cup dependees'[v]
  BY DEF Dependees
<1>4. \A v \in Readers(prog[j]) : Watch(e) \cap (invalid' \cup dependees'[v]) # {}
  BY <1>1, <1>3, ReadersAreVariables DEF Covered
<1>5. IsControlDependent(prog[j]) => Watch(e) \cap (invalid' \cup ctl') # {}
  BY DEF Covered
<1>6. ASSUME Disturbs(pc, j) PROVE Watch(e) \cap invalid' # {}
  <2>1. CASE Clobbers(prog, pc, j)
    <3>1. PICK v \in Readers(prog[j]) : v \in FlushedBy(prog[pc])
      BY <1>1, <2>1, WritesFlush
    <3>2. invalid \cup dependees[v] \subseteq invalid'
      BY <3>1 DEF Dependees
    <3> QED
      BY <3>1, <3>2 DEF Covered
  <2>2. CASE IsControlDependent(prog[j]) /\ LeavesBlock(prog[pc])
    BY <2>2 DEF Covered
  <2> QED
    BY <1>6, <2>1, <2>2 DEF Disturbs
<1>7. ASSUME NEW k \in DOMAIN prog, j < k, k < pc + 1, Disturbs(k, j)
      PROVE  Watch(e) \cap invalid' # {}
  <2>1. CASE k = pc
    BY <1>6, <1>7, <2>1
  <2>2. CASE k # pc
    BY <1>1, <1>7, <2>2 DEF Covered
  <2> QED
    BY <2>1, <2>2
<1> QED
  BY <1>1, <1>2, <1>4, <1>5, <1>7 DEF Covered, Disturbs

\* A new expression which depends on its operands, and is a dependee of what it
\* reads, covers everything it evaluates.
LEMMA NewCovered ==
  ASSUME MotionInv, ~force, NEW i \in DOMAIN prog, i = pc, pc' = pc + 1, prog' = prog,
         \A a \in Ids(prog[i]) : Watch(a) \cap invalid = {},
         invalid' = invalid, ctl \subseteq ctl',
         \A v \in Vars : dependees[v] \subseteq dependees'[v],
         Ids(prog[i]) \cup UNION {deps[a] : a \in Ids(prog[i])} \subseteq deps'[i],
         CanForward(prog[i]), FlushedBy(prog[i]) = {},
         WrittenCells(prog, i) = {}, ~LeavesBlock(prog[i]),
         \A v \in Readers(prog[i]) : i \in dependees'[v],
         IsControlDependent(prog[i]) => i \in ctl',
         NEW j \in Pasted(prog[i]) \cup {i}
  PROVE  Covered(i, j)'
<1>1. /\ Ids(prog[i]) \subseteq 1 .. (i - 1) /\ Ids(prog[i]) \subseteq Pos
      /\ i \in Int /\ DOMAIN prog \subseteq Int /\ TypeInv
  BY Operands DEF MotionInv, TypeInv, Pos
<1>2. ~Disturbs(i, j)
  BY DEF Disturbs, Clobbers
<1>3. CASE j = i
  BY <1>1, <1>3 DEF Covered, Watch, Disturbs
<1>4. CASE j \in Pasted(prog[i])
  <2>1. PICK a \in Ids(prog[i]) : j \in text[a]
    BY <1>4 DEF Pasted
  <2>2. Covered(a, j) /\ Watch(a) \subseteq Watch(i)'
    BY <1>1, <2>1 DEF MotionInv, Watch
  <2>3. \A k \in DOMAIN prog : j < k /\ k < i + 1 => ~Disturbs(k, j)
    BY <1>1, <1>2, <2>1, <2>2 DEF Covered
  <2>4. \A v \in Readers(prog[j]) : Watch(i)' \cap (invalid' \cup dependees'[v]) # {}
    <3>1. j \in DOMAIN prog /\ Readers(prog[j]) \subseteq Vars
      BY <1>1, <2>2, ReadersAreVariables DEF Covered
    <3> QED
      BY <2>2, <3>1 DEF Covered
  <2>5. IsControlDependent(prog[j]) => Watch(i)' \cap (invalid' \cup ctl') # {}
    BY <2>2 DEF Covered
  <2>6. j \in DOMAIN prog /\ j <= i /\ CanForward(prog[j])
    BY <1>1, <2>1, <2>2 DEF Covered
  <2> QED
    BY <2>3, <2>4, <2>5, <2>6 DEF Covered, Disturbs
<1> QED
  BY <1>3, <1>4

LEMMA MotionStep ==
  ASSUME MotionInv, TypeInv', ChainsStay', NEW o, At(o), Advance,
         NEW F \in SUBSET Vars, NEW this \in Pos, this = pc,
         invalid \cup Dependees(F) \subseteq invalid',
         \A v \in Vars \ F : dependees[v] \subseteq dependees'[v],
         ctl \subseteq ctl' \cup invalid',
         LeavesBlock(prog[pc]) => ctl \subseteq invalid',
         FlushedBy(prog[pc]) \subseteq F,
         \A e \in Pos : e # pc => /\ text'[e] = text[e] /\ deps'[e] = deps[e]
                                  /\ loaded_from'[e] = loaded_from[e],
         ~force' => ~force,
         \/ out' \subseteq out
         \/ /\ out' \subseteq out \cup ((Pasted(prog[pc]) \cup {pc}) \X {pc})
            /\ ~force' => \A a \in Ids(prog[pc]) : Watch(a) \cap invalid = {},
         ~force' => \A j \in text'[this] : Covered(this, j)',
         prog[pc].op = "load" => /\ loaded_from'[pc] = prog[pc].ptr.var
                                 /\ Ids(prog[pc]) = {} => text'[pc] \subseteq {pc}
  PROVE  MotionInv'
<1>1. /\ pc \in DOMAIN prog /\ pc \in Pos /\ pc' = pc + 1 /\ prog' = prog /\ phase' = "emit"
      /\ pc \in Int /\ DOMAIN prog \subseteq Pos /\ Pos \subseteq Int
  BY Emitting, Operands DEF MotionInv, TypeInv, At, Advance, Pos
<1>2. \A e \in Pos : e >= pc + 1 => text'[e] = {}
  BY <1>1 DEF MotionInv
<1>3. ASSUME NEW e \in DOMAIN prog, e < pc + 1, prog[e].op = "load"
      PROVE  /\ loaded_from'[e] = prog[e].ptr.var
             /\ Ids(prog[e]) = {} => text'[e] \subseteq {e}
  BY <1>1, <1>3 DEF MotionInv
<1>4. ASSUME ~force', NEW e \in Pos, NEW j \in text'[e] PROVE Covered(e, j)'
  <2>1. CASE e = pc
    BY <1>4, <2>1
  <2>2. CASE e # pc
    <3>1. text'[e] = text[e] /\ j \in text[e] /\ Covered(e, j) /\ deps'[e] = deps[e]
      BY <1>4, <2>2 DEF MotionInv
    <3>2. e < pc /\ e \in DOMAIN prog
      <4>1. e < pc
        BY <1>1, <3>1 DEF MotionInv
      <4> QED
        BY <1>1, <4>1, ConstantsAssumption DEF MotionInv, TypeInv, Pos
    <3> QED
      BY <1>1, <3>1, <3>2, StaysCovered
  <2> QED
    BY <2>1, <2>2
<1>5. ASSUME ~force', NEW j \in Pos, NEW i \in Pos, <<j, i>> \in out' PROVE InPlace(j, i)
  <2>1. CASE <<j, i>> \in out
    BY <1>5, <2>1 DEF MotionInv
  <2>2. CASE <<j, i>> \notin out /\ i = pc /\ j \in Pasted(prog[pc])
    BY <1>1, <1>5, <2>2, PastedInPlace
  <2>3. CASE i = pc /\ j = pc
    BY <1>1, <2>3 DEF InPlace
  <2> QED
    BY <1>5, <2>1, <2>2, <2>3
<1>6. \A j, i : InPlace(j, i)' <=> InPlace(j, i)
  BY <1>1 DEF InPlace, Disturbs
<1> QED
  BY <1>1, <1>2, <1>3, <1>4, <1>5, <1>6 DEF MotionInv

\* Only instructions which are not access chains become dependees, and the
\* reads of access chains are not counted.
LEMMA ChainStep ==
  ASSUME MotionInv, NEW this \in DOMAIN prog, prog' = prog,
         NEW F \in SUBSET Vars, NEW own \in SUBSET {this},
         prog[this].op = "chain" => own = {},
         forced' \subseteq forced \cup invalid \cup Dependees(F)
                             \cup {x \in forwarded : x \notin suppressed},
         invalid' \subseteq invalid \cup ctl \cup Dependees(F),
         ctl' \subseteq ctl \cup own,
         \A v \in Vars : dependees'[v] \subseteq dependees[v] \cup own,
         forwarded' \subseteq forwarded \cup {this}, suppressed \subseteq suppressed',
         prog[this].op = "chain" => this \in suppressed'
  PROVE  ChainsStay'
<1>1. ASSUME NEW c \in DOMAIN prog, prog[c].op = "chain"
      PROVE  /\ c \notin forced' /\ c \notin invalid' /\ c \notin ctl'
             /\ \A v \in Vars : c \notin dependees'[v]
             /\ c \in forwarded' => c \in suppressed'
  <2>1. /\ c \notin forced /\ c \notin invalid /\ c \notin ctl /\ c \notin own
        /\ \A v \in Vars : c \notin dependees[v]
        /\ c \in forwarded => c \in suppressed
    BY <1>1 DEF MotionInv, ChainsStay
  <2>2. c \notin Dependees(F)
    BY <2>1 DEF Dependees
  <2> QED
    BY <1>1, <2>1, <2>2
<1> QED
  BY <1>1 DEF ChainsStay

\* The ids forced by an instruction.
LEMMA ForcedIds ==
  ASSUME NEW ins, NEW inv, NEW recompile, NEW ids,
         ids \subseteq handle_invalid_expression(Ids(ins), inv) \cup track_expression_read(ins),
         force_temporary_and_recompile(ids, recompile)
  PROVE  /\ forced' \subseteq forced \cup inv \cup {x \in forwarded : x \notin suppressed}
  BY DEF force_temporary_and_recompile, handle_invalid_expression, track_expression_read,
         TrackedBy, Tracked

\* A pass which goes on without a recompile has read nothing invalid.
LEMMA NothingInvalidRead ==
  ASSUME NEW ins, NEW inv, NEW recompile, NEW ids,
         handle_invalid_expression(Ids(ins), inv) \subseteq ids,
         force_temporary_and_recompile(ids, recompile)
  PROVE  ~force' => ~force /\ \A a \in Ids(ins) : Watch(a) \cap inv = {}
<1>1. ~force' => ~force /\ handle_invalid_expression(Ids(ins), inv) = {}
  BY ForceGrows
<1> QED
  BY <1>1 DEF handle_invalid_expression, Watch

LEMMA OpLoadMotion ==
  ASSUME MotionInv, OpLoad
  PROVE  MotionInv'
<1> DEFINE ins == prog[pc]
           forward == pc \notin forced /\ (\A a \in Ids(ins) : should_forward(a)) /\ CanForward(ins)
           readers == IF forward THEN DependsOn(ins.ptr) ELSE {}
<1>1. /\ TypeInv /\ TypeInv' /\ pc \in Pos /\ pc \in DOMAIN prog /\ ins.op = "load"
      /\ pc' = pc + 1 /\ prog' = prog /\ invalid' = invalid
  BY TypePreserved, AtInstruction DEF MotionInv, OpLoad, At, Advance, Next
<1>2. InstructionOK(prog, pc)
  BY <1>1, Operands DEF TypeInv
<1>3. /\ \A e \in Pos : e # pc => text'[e] = text[e]
      /\ text'[pc] = IF forward THEN Pasted(ins) \cup {pc} ELSE {}
      /\ out' \subseteq out \cup ((Pasted(ins) \cup {pc}) \X {pc})
      /\ forwarded' = (IF forward THEN forwarded \cup {pc} ELSE forwarded)
      /\ suppressed \subseteq suppressed'
  BY <1>1, EmitShape DEF OpLoad, emit_op
<1>4. /\ \A e \in Pos : e # pc => deps'[e] = deps[e] /\ loaded_from'[e] = loaded_from[e]
      /\ deps'[pc] = IF forward THEN Ids(ins) \cup UNION {deps[a] : a \in Ids(ins)} ELSE {}
      /\ loaded_from'[pc] = ins.ptr.var
  BY <1>1 DEF OpLoad, inherit_expression_dependencies, NewExpression, TypeInv, TypeOK
<1>5. \A v \in Vars : dependees'[v] = IF v \in readers THEN dependees[v] \cup {pc} ELSE dependees[v]
  BY DEF OpLoad, AddDependees
<1>6. force_temporary_and_recompile(
         handle_invalid_expression(Ids(ins), invalid), FALSE)
  BY DEF OpLoad
<1>7. ~force' => ~force /\ \A a \in Ids(ins) : Watch(a) \cap invalid = {}
  BY <1>6, NothingInvalidRead
<1>8. forced' \subseteq forced \cup invalid \cup {x \in forwarded : x \notin suppressed}
  BY <1>6, ForcedIds
<1>9. ctl' = ctl
  BY DEF OpLoad, register_control_dependent_expression
<1>10. PICK i \in DOMAIN prog : i = pc
  BY <1>1
<1>11. ChainsStay'
  <2>1. {i} \in SUBSET {i} /\ {} \in SUBSET Vars /\ prog[i].op # "chain"
    BY <1>1, <1>10
  <2>2. ctl' \subseteq ctl \cup {i} /\ \A v \in Vars : dependees'[v] \subseteq dependees[v] \cup {i}
    BY <1>5, <1>9, <1>10
  <2> QED
    BY <1>1, <1>3, <1>8, <1>10, <2>1, <2>2, ChainStep
<1>12. FlushedBy(ins) = {} /\ WrittenCells(prog, pc) = {} /\ ~LeavesBlock(ins)
  BY <1>1 DEF FlushedBy, WrittenCells, LeavesBlock
<1>13. ASSUME ~force', NEW j \in text'[i] PROVE Covered(i, j)'
  <2>1. forward /\ j \in Pasted(ins) \cup {i}
    BY <1>3, <1>10, <1>13
  <2>2. CanForward(ins) /\ readers = Readers(ins)
    BY <1>1, <1>2, <2>1 DEF Readers, CanForward, InstructionOK
  <2>3. \A v \in Readers(ins) : i \in dependees'[v]
    BY <1>1, <1>5, <1>10, <2>2, ReadersAreVariables
  <2>4. \A v \in Vars : dependees[v] \subseteq dependees'[v]
    BY <1>5
  <2>5. (IsControlDependent(ins) => i \in ctl') /\ ctl \subseteq ctl'
    BY <1>1, <1>2, <1>3, <1>9, <1>10, <2>1 DEF IsControlDependent, InstructionOK
  <2> HIDE DEF forward, readers
  <2> QED
    BY <1>1, <1>4, <1>7, <1>10, <1>12, <1>13, <2>1, <2>2, <2>3, <2>4, <2>5, NewCovered
<1>14. Ids(ins) = {} => text'[pc] \subseteq {pc}
  BY <1>3 DEF Pasted
<1>15. /\ {} \in SUBSET Vars /\ invalid \cup Dependees({}) \subseteq invalid'
       /\ \A v \in Vars : dependees[v] \subseteq dependees'[v]
       /\ ctl \subseteq ctl' \cup invalid' /\ FlushedBy(ins) \subseteq {}
  BY <1>1, <1>5, <1>9, <1>12 DEF Dependees
<1> HIDE DEF forward, readers
<1>16. At("load") /\ Advance
  BY DEF OpLoad
<1> QED
  BY <1>1, <1>3, <1>4, <1>7, <1>10, <1>11, <1>12, <1>13, <1>14, <1>15, <1>16, MotionStep

LEMMA OpArithmeticMotion ==
  ASSUME MotionInv, OpArithmetic
  PROVE  MotionInv'
<1> DEFINE ins == prog[pc]
           forward == pc \notin forced /\ (\A a \in Ids(ins) : should_forward(a))
           readers == IF forward THEN ins.phis ELSE {}
<1>1. /\ TypeInv /\ TypeInv' /\ pc \in Pos /\ pc \in DOMAIN prog /\ ins.op = "arith"
      /\ pc' = pc + 1 /\ prog' = prog /\ invalid' = invalid
  BY TypePreserved, AtInstruction DEF MotionInv, OpArithmetic, At, Advance, Next
<1>2. InstructionOK(prog, pc)
  BY <1>1, Operands DEF TypeInv
<1>3. /\ \A e \in Pos : e # pc => text'[e] = text[e]
      /\ text'[pc] = IF forward THEN Pasted(ins) \cup {pc} ELSE {}
      /\ out' \subseteq out \cup ((Pasted(ins) \cup {pc}) \X {pc})
      /\ forwarded' = (IF forward THEN forwarded \cup {pc} ELSE forwarded)
      /\ suppressed \subseteq suppressed'
  BY <1>1, EmitShape DEF OpArithmetic, emit_op
<1>4. /\ \A e \in Pos : e # pc => deps'[e] = deps[e] /\ loaded_from'[e] = loaded_from[e]
      /\ deps'[pc] = IF forward THEN Ids(ins) \cup UNION {deps[a] : a \in Ids(ins)} ELSE {}
      /\ loaded_from'[pc] = NoVar
  BY <1>1 DEF OpArithmetic, inherit_expression_dependencies, NewExpression, TypeInv, TypeOK
<1>5. \A v \in Vars : dependees'[v] = IF v \in readers THEN dependees[v] \cup {pc} ELSE dependees[v]
  BY DEF OpArithmetic, AddDependees
<1>6. force_temporary_and_recompile(
         handle_invalid_expression(Ids(ins), invalid) \cup track_expression_read(ins), FALSE)
  BY DEF OpArithmetic
<1>7. ~force' => ~force /\ \A a \in Ids(ins) : Watch(a) \cap invalid = {}
  BY <1>6, NothingInvalidRead
<1>8. forced' \subseteq forced \cup invalid \cup {x \in forwarded : x \notin suppressed}
  BY <1>6, ForcedIds
<1>9. ctl' = IF ins.ctl /\ pc \in forwarded' THEN ctl \cup {pc} ELSE ctl
  BY DEF OpArithmetic, register_control_dependent_expression
<1>10. PICK i \in DOMAIN prog : i = pc
  BY <1>1
<1>11. ChainsStay'
  <2>1. {i} \in SUBSET {i} /\ {} \in SUBSET Vars /\ prog[i].op # "chain"
    BY <1>1, <1>10
  <2>2. ctl' \subseteq ctl \cup {i} /\ \A v \in Vars : dependees'[v] \subseteq dependees[v] \cup {i}
    BY <1>5, <1>9, <1>10
  <2> QED
    BY <1>1, <1>3, <1>8, <1>10, <2>1, <2>2, ChainStep
<1>12. FlushedBy(ins) = {} /\ WrittenCells(prog, pc) = {} /\ ~LeavesBlock(ins)
  BY <1>1 DEF FlushedBy, WrittenCells, LeavesBlock
<1>13. ASSUME ~force', NEW j \in text'[i] PROVE Covered(i, j)'
  <2>1. forward /\ j \in Pasted(ins) \cup {i}
    BY <1>3, <1>10, <1>13
  <2>2. CanForward(ins) /\ readers = Readers(ins)
    BY <1>1, <1>2, <2>1 DEF Readers, CanForward, InstructionOK
  <2>3. \A v \in Readers(ins) : i \in dependees'[v]
    BY <1>1, <1>5, <1>10, <2>2, ReadersAreVariables
  <2>4. \A v \in Vars : dependees[v] \subseteq dependees'[v]
    BY <1>5
  <2>5. (IsControlDependent(ins) => i \in ctl') /\ ctl \subseteq ctl'
    BY <1>1, <1>2, <1>3, <1>9, <1>10, <2>1 DEF IsControlDependent, InstructionOK
  <2> HIDE DEF forward, readers
  <2> QED
    BY <1>1, <1>4, <1>7, <1>10, <1>12, <1>13, <2>1, <2>2, <2>3, <2>4, <2>5, NewCovered
<1>14. ins.op # "load"
  BY <1>1
<1>15. /\ {} \in SUBSET Vars /\ invalid \cup Dependees({}) \subseteq invalid'
       /\ \A v \in Vars : dependees[v] \subseteq dependees'[v]
       /\ ctl \subseteq ctl' \cup invalid' /\ FlushedBy(ins) \subseteq {}
  BY <1>1, <1>5, <1>9, <1>12 DEF Dependees
<1> HIDE DEF forward, readers
<1>16. At("arith") /\ Advance
  BY DEF OpArithmetic
<1> QED
  BY <1>1, <1>3, <1>4, <1>7, <1>10, <1>11, <1>12, <1>13, <1>14, <1>15, <1>16, MotionStep

LEMMA OpAccessChainMotion ==
  ASSUME MotionInv, OpAccessChain
  PROVE  MotionInv'
<1> DEFINE ins == prog[pc]
<1>1. /\ TypeInv /\ TypeInv' /\ pc \in Pos /\ pc \in DOMAIN prog /\ ins.op = "chain"
      /\ pc' = pc + 1 /\ prog' = prog /\ invalid' = invalid /\ ctl' = ctl /\ out' = out
      /\ forwarded' \subseteq forwarded \cup {pc}
      /\ suppressed' = suppressed \cup {pc}
  BY TypePreserved, AtInstruction DEF MotionInv, OpAccessChain, At, Advance, Next
<1>2. pc \notin forced /\ ins.phis = {}
  BY <1>1 DEF MotionInv, ChainsStay, StraightLine
<1>3. /\ \A e \in Pos : e # pc => text'[e] = text[e]
      /\ text'[pc] = Pasted(ins) \cup {pc}
  BY <1>1 DEF OpAccessChain, TypeInv, TypeOK
<1>4. /\ \A e \in Pos : e # pc => deps'[e] = deps[e] /\ loaded_from'[e] = loaded_from[e]
      /\ deps'[pc] = Ids(ins) \cup UNION {deps[a] : a \in Ids(ins)}
  BY <1>1, <1>2
  DEF OpAccessChain, inherit_expression_dependencies, NewExpression, TypeInv, TypeOK
<1>5. \A v \in Vars : dependees'[v] = dependees[v]
  BY <1>2 DEF OpAccessChain, AddDependees
<1>6. force_temporary_and_recompile(handle_invalid_expression(Ids(ins), invalid), FALSE)
  BY DEF OpAccessChain
<1>7. ~force' => ~force /\ \A a \in Ids(ins) : Watch(a) \cap invalid = {}
  BY <1>6, NothingInvalidRead
<1>8. forced' \subseteq forced \cup invalid \cup {x \in forwarded : x \notin suppressed}
  BY <1>6, ForcedIds
<1>10. PICK i \in DOMAIN prog : i = pc
  BY <1>1
<1>11. ChainsStay'
  <2>1. {} \in SUBSET {i} /\ {} \in SUBSET Vars
    OBVIOUS
  <2> QED
    BY <1>1, <1>5, <1>8, <1>10, <2>1, ChainStep
<1>12. FlushedBy(ins) = {} /\ WrittenCells(prog, pc) = {} /\ ~LeavesBlock(ins)
  BY <1>1 DEF FlushedBy, WrittenCells, LeavesBlock
<1>13. ASSUME ~force', NEW j \in text'[i] PROVE Covered(i, j)'
  <2>1. j \in Pasted(ins) \cup {i}
    BY <1>3, <1>10, <1>13
  <2>2. CanForward(ins) /\ Readers(ins) = {}
    BY <1>1 DEF Readers, CanForward
  <2>3. ~IsControlDependent(ins)
    BY <1>1, Operands DEF IsControlDependent, InstructionOK, TypeInv
  <2> QED
    BY <1>1, <1>4, <1>5, <1>7, <1>10, <1>12, <1>13, <2>1, <2>2, <2>3, NewCovered
<1>14. /\ {} \in SUBSET Vars /\ invalid \cup Dependees({}) \subseteq invalid'
       /\ \A v \in Vars : dependees[v] \subseteq dependees'[v]
       /\ ctl \subseteq ctl' \cup invalid' /\ FlushedBy(ins) \subseteq {}
  BY <1>1, <1>5, <1>12 DEF Dependees
<1>15. At("chain") /\ Advance
  BY DEF OpAccessChain
<1> QED
  BY <1>1, <1>3, <1>4, <1>7, <1>10, <1>11, <1>12, <1>13, <1>14, <1>15, MotionStep

\* A forwarded call has its arguments, which are loaded values, read from the
\* same variables as the loads.
LEMMA OpFunctionCallMotion ==
  ASSUME MotionInv, OpFunctionCall
  PROVE  MotionInv'
<1> DEFINE ins == prog[pc]
           written == (IF ins.fn.writes_arg THEN register_write(ins.ptr) ELSE {})
                        \cup (IF ins.fn.pure THEN {} ELSE register_impure_function_call)
           forward == /\ pc \notin forced /\ CanForward(ins)
                      /\ \A a \in Ids(ins) : should_forward(a)
           arguments == ({loaded_from[a] : a \in Ids(ins)} \cup {ins.ptr.var}) \ {NoVar}
           readers == IF forward
                      THEN {v \in arguments : ~is_immutable(v)}
                             \cup {v \in {r.var : r \in ins.fn.reads} : v \notin Images \cup {NoVar}}
                      ELSE {}
<1>1. /\ TypeInv /\ TypeInv' /\ pc \in Pos /\ pc \in DOMAIN prog /\ ins.op = "call"
      /\ pc' = pc + 1 /\ prog' = prog
  BY TypePreserved, AtInstruction DEF MotionInv, OpFunctionCall, At, Advance, Next
<1>2. InstructionOK(prog, pc) /\ Ids(ins) \subseteq 1 .. (pc - 1) /\ DOMAIN prog \subseteq Int
  BY <1>1, Operands DEF TypeInv, Pos
<1>3. /\ \A e \in Pos : e # pc => text'[e] = text[e]
      /\ text'[pc] = IF forward THEN Pasted(ins) \cup {pc} ELSE {}
      /\ out' \subseteq out \cup ((Pasted(ins) \cup {pc}) \X {pc})
      /\ forwarded' = (IF forward THEN forwarded \cup {pc} ELSE forwarded)
      /\ suppressed' = suppressed
  BY <1>1, EmitShape DEF OpFunctionCall, emit_op
<1>4. \A e \in Pos : e # pc => deps'[e] = deps[e] /\ loaded_from'[e] = loaded_from[e]
  BY <1>1 DEF OpFunctionCall, inherit_expression_dependencies, NewExpression, TypeInv, TypeOK
<1>5. written \in SUBSET Vars
  BY <1>1, FlushedVariables
<1>6. invalid' = invalid \cup Dependees(written)
  BY DEF OpFunctionCall
<1>7. \A v \in Vars : dependees'[v] = (IF v \in written THEN {} ELSE dependees[v])
                                         \cup (IF v \in readers THEN {pc} ELSE {})
  BY DEF OpFunctionCall, AddDependees, Flushed
<1>8. ctl' = IF ins.fn.ctl /\ pc \in forwarded' THEN ctl \cup {pc} ELSE ctl
  BY DEF OpFunctionCall, register_control_dependent_expression
<1>9. force_temporary_and_recompile(
         handle_invalid_expression(Ids(ins), invalid \cup Dependees(written))
           \cup track_expression_read(ins), ins.fn.writes_arg /\ ParameterWritten(ins.ptr))
  BY DEF OpFunctionCall
<1>10. PICK i \in DOMAIN prog : i = pc
  BY <1>1
<1> HIDE DEF written
<1>11. ~force' => ~force /\ \A a \in Ids(ins) : Watch(a) \cap (invalid \cup Dependees(written)) = {}
  BY <1>9, NothingInvalidRead
<1>12. forced' \subseteq forced \cup (invalid \cup Dependees(written))
                           \cup {x \in forwarded : x \notin suppressed}
  BY <1>9, ForcedIds
<1>13. ChainsStay'
  <2>1. {i} \in SUBSET {i} /\ prog[i].op # "chain"
    BY <1>1, <1>10
  <2>2. ctl' \subseteq ctl \cup {i} /\ \A v \in Vars : dependees'[v] \subseteq dependees[v] \cup {i}
    BY <1>7, <1>8, <1>10
  <2>3. forwarded' \subseteq forwarded \cup {i}
    BY <1>3, <1>10
  <2> QED
    BY <1>1, <1>3, <1>5, <1>6, <1>10, <1>12, <2>1, <2>2, <2>3, ChainStep
<1>14. FlushedBy(ins) = written /\ ~LeavesBlock(ins)
  BY <1>1 DEF FlushedBy, LeavesBlock, written
<1>15. ASSUME ~force', NEW j \in text'[i] PROVE Covered(i, j)'
  <2>1. forward /\ j \in Pasted(ins) \cup {i}
    BY <1>3, <1>10, <1>15
  <2>2. /\ ins.fn.pure /\ ~ins.fn.writes_arg /\ WrittenCells(prog, pc) = {}
    BY <1>1, <1>2, <2>1
    DEF CanForward, CallCanForward, InstructionOK, CalleeOK, WrittenCells
  <2>3. \A e \in DOMAIN prog : ~Disturbs(i, e)
    BY <1>10, <1>14, <2>2 DEF Disturbs, Clobbers
  <2>4. \A v \in readers : v \in Vars => i \in dependees'[v]
    BY <1>7, <1>10
  <2>5. i \in Int
    BY <1>2
  <2>6. CASE j = i
    <3>1. Readers(ins) \subseteq readers
      <4>1. \A r \in ins.fn.reads : r.var # NoVar
        BY <1>2, ConstantsAssumption DEF InstructionOK, CalleeOK
      <4> QED
        BY <1>1, <2>1, <4>1 DEF Readers, DependsOn
    <3>2. \A v \in Readers(ins) : i \in dependees'[v]
      BY <1>1, <2>4, <3>1, ReadersAreVariables
    <3>3. IsControlDependent(ins) => i \in ctl'
      BY <1>1, <1>2, <1>3, <1>8, <1>10, <2>1 DEF IsControlDependent, InstructionOK
    <3>4. CanForward(ins)
      BY <2>1
    <3> QED
      BY <1>1, <1>2, <1>10, <2>3, <2>5, <2>6, <3>2, <3>3, <3>4 DEF Covered, Watch, Disturbs
  <2>7. CASE j \in Pasted(ins)
    <3>1. PICK a \in Ids(ins) : j \in text[a]
      BY <2>7 DEF Pasted
    <3>2. a \in DOMAIN prog /\ a < pc /\ prog[a].op = "load" /\ Ids(prog[a]) = {} /\ a \in Pos
      <4>1. a \in DOMAIN prog /\ a < pc /\ a \in Pos
        BY <1>1, <1>2, ConstantsAssumption, Operands DEF TypeInv, Pos
      <4> QED
        BY <1>1, <4>1 DEF MotionInv, StraightLine
    <3>3. j = a /\ loaded_from[a] = prog[a].ptr.var /\ ~force
      BY <1>15, <1>11, <3>1, <3>2 DEF MotionInv
    <3>4. Covered(a, a) /\ Watch(a) \cap invalid = {}
      BY <1>11, <1>15, <3>1, <3>2, <3>3 DEF MotionInv
    <3>5. Readers(prog[a]) \subseteq readers
      BY <2>1, <3>1, <3>2, <3>3 DEF Readers, DependsOn
    <3>6. \A v \in Readers(prog[a]) : i \in dependees'[v]
      BY <1>1, <2>4, <3>2, <3>5, ReadersAreVariables
    <3>7. ~IsControlDependent(prog[a])
      BY <1>1, <3>2, Operands DEF IsControlDependent, InstructionOK, TypeInv
    <3>8. \A k \in DOMAIN prog : a < k /\ k < pc + 1 => ~Disturbs(k, a)
      <4>1. \A k \in DOMAIN prog : a < k /\ k < pc => ~Disturbs(k, a)
        BY <3>4 DEF Covered
      <4> QED
        BY <1>2, <1>10, <2>3, <2>5, <3>2, <4>1
    <3> QED
      BY <1>1, <1>2, <1>10, <2>5, <3>2, <3>3, <3>4, <3>6, <3>7, <3>8 DEF Covered, Watch, Disturbs
  <2> QED
    BY <2>1, <2>6, <2>7
<1>16. /\ invalid \cup Dependees(written) \subseteq invalid'
       /\ \A v \in Vars \ written : dependees[v] \subseteq dependees'[v]
       /\ ctl \subseteq ctl' \cup invalid' /\ FlushedBy(ins) \subseteq written
  BY <1>6, <1>7, <1>8, <1>14
<1>17. ~force' => ~force /\ \A a \in Ids(ins) : Watch(a) \cap invalid = {}
  BY <1>11
<1>18. At("call") /\ Advance
  BY DEF OpFunctionCall
<1> HIDE DEF forward, readers
<1> QED
  BY <1>1, <1>3, <1>4, <1>5, <1>10, <1>13, <1>14, <1>15, <1>16, <1>17, <1>18, MotionStep

\* The instructions which leave the expressions as they are.
LEMMA NoResultMotion ==
  ASSUME MotionInv, TypeInv', NEW o, o \notin {"load", "chain"}, At(o), Advance, NoResult,
         NEW F \in SUBSET Vars, FlushedBy(prog[pc]) \subseteq F,
         invalid \cup Dependees(F) \subseteq invalid',
         invalid' \subseteq invalid \cup ctl \cup Dependees(F),
         \A v \in Vars : dependees'[v] = IF v \in F THEN {} ELSE dependees[v],
         ctl' \subseteq ctl, ctl \subseteq ctl' \cup invalid',
         LeavesBlock(prog[pc]) => ctl \subseteq invalid',
         forced' \subseteq forced \cup invalid \cup {x \in forwarded : x \notin suppressed},
         ~force' => ~force,
         \/ out' \subseteq out
         \/ /\ out' \subseteq out \cup (Pasted(prog[pc]) \X {pc})
            /\ ~force' => \A a \in Ids(prog[pc]) : Watch(a) \cap invalid = {}
  PROVE  MotionInv'
<1>1. /\ TypeInv /\ pc \in Pos /\ pc \in DOMAIN prog /\ pc \in Int /\ prog[pc].op = o
      /\ pc' = pc + 1 /\ prog' = prog
      /\ UNCHANGED <<text, deps, loaded_from, forwarded, suppressed>>
  BY AtInstruction DEF MotionInv, TypeInv, At, Advance, NoResult, expressions, Pos
<1>2. PICK i \in DOMAIN prog : i = pc
  BY <1>1
<1>3. ChainsStay'
  <2>1. {} \in SUBSET {i} /\ prog[i].op # "chain"
    BY <1>1, <1>2
  <2> QED
    BY <1>1, <1>2, <2>1, ChainStep
<1>4. i \in Pos /\ text'[i] = {}
  BY <1>1, <1>2 DEF MotionInv
<1>5. prog[pc].op # "load"
  BY <1>1
<1>6. \A v \in Vars \ F : dependees[v] \subseteq dependees'[v]
  OBVIOUS
<1>7. \/ out' \subseteq out
      \/ /\ out' \subseteq out \cup ((Pasted(prog[pc]) \cup {pc}) \X {pc})
         /\ ~force' => \A a \in Ids(prog[pc]) : Watch(a) \cap invalid = {}
  OBVIOUS
<1>8. \A e \in Pos : e # pc => /\ text'[e] = text[e] /\ deps'[e] = deps[e]
                               /\ loaded_from'[e] = loaded_from[e]
  BY <1>1
<1>9. ~force' => \A j \in text'[i] : Covered(i, j)'
  BY <1>4
<1> QED
  BY <1>2, <1>3, <1>4, <1>5, <1>6, <1>7, <1>8, <1>9, MotionStep

\* The same for the instructions which paste their operands in a statement.
LEMMA StatementMotion ==
  ASSUME MotionInv, TypeInv', NEW o, o \notin {"load", "chain"}, At(o), Advance, NoResult,
         NEW F \in SUBSET Vars, FlushedBy(prog[pc]) \subseteq F,
         invalid \cup Dependees(F) \subseteq invalid',
         invalid' \subseteq invalid \cup ctl \cup Dependees(F),
         \A v \in Vars : dependees'[v] = IF v \in F THEN {} ELSE dependees[v],
         ctl' \subseteq ctl, ctl \subseteq ctl' \cup invalid',
         LeavesBlock(prog[pc]) => ctl \subseteq invalid',
         NEW recompile,
         force_temporary_and_recompile(
           handle_invalid_expression(Ids(prog[pc]), invalid) \cup track_expression_read(prog[pc]),
           recompile),
         statement(Pasted(prog[pc]))
  PROVE  MotionInv'
<1>1. forced' \subseteq forced \cup invalid \cup {x \in forwarded : x \notin suppressed}
  BY ForcedIds
<1>2. ~force' => ~force /\ \A a \in Ids(prog[pc]) : Watch(a) \cap invalid = {}
  BY NothingInvalidRead
<1>3. out' \subseteq out \cup (Pasted(prog[pc]) \X {pc})
  BY StatementShape
<1> QED
  BY <1>1, <1>2, <1>3, NoResultMotion

LEMMA OpStoreMotion ==
  ASSUME MotionInv, OpStore
  PROVE  MotionInv'
<1> DEFINE F == register_write(prog[pc].ptr)
<1>1. /\ TypeInv /\ TypeInv' /\ At("store") /\ Advance /\ NoResult /\ ctl' = ctl
      /\ prog[pc].op = "store"
  BY TypePreserved DEF MotionInv, OpStore, At, Next
<1>2. F \in SUBSET Vars /\ FlushedBy(prog[pc]) \subseteq F
  BY <1>1, FlushedVariables, AtInstruction DEF FlushedBy
<1>3. /\ invalid' = invalid \cup Dependees(F)
      /\ \A v \in Vars : dependees'[v] = IF v \in F THEN {} ELSE dependees[v]
  BY DEF OpStore, Flushed
<1>4. ~LeavesBlock(prog[pc])
  BY <1>1 DEF LeavesBlock
<1> HIDE DEF F
<1> QED
  BY <1>1, <1>2, <1>3, <1>4, StatementMotion DEF OpStore

LEMMA FlushPhiMotion ==
  ASSUME MotionInv, FlushPhi
  PROVE  MotionInv'
<1> DEFINE F == register_write(prog[pc].ptr)
<1>1. /\ TypeInv /\ TypeInv' /\ At("phi") /\ Advance /\ NoResult /\ ctl' = ctl
      /\ prog[pc].op = "phi"
  BY TypePreserved DEF MotionInv, FlushPhi, At, Next
<1>2. F \in SUBSET Vars /\ FlushedBy(prog[pc]) \subseteq F
  BY <1>1, FlushedVariables, AtInstruction DEF FlushedBy
<1>3. /\ invalid' = invalid \cup Dependees(F)
      /\ \A v \in Vars : dependees'[v] = IF v \in F THEN {} ELSE dependees[v]
  BY DEF FlushPhi, Flushed
<1>4. ~LeavesBlock(prog[pc])
  BY <1>1 DEF LeavesBlock
<1> HIDE DEF F
<1> QED
  BY <1>1, <1>2, <1>3, <1>4, StatementMotion DEF FlushPhi

LEMMA OpImageWriteMotion ==
  ASSUME MotionInv, OpImageWrite
  PROVE  MotionInv'
<1> DEFINE F == IF prog[pc].ptr.var \in Aliased THEN Aliased ELSE {}
<1>1. /\ TypeInv /\ TypeInv' /\ At("image_write") /\ Advance /\ NoResult /\ ctl' = ctl
      /\ prog[pc].op = "image_write"
  BY TypePreserved DEF MotionInv, OpImageWrite, At, Next
<1>2. F \in SUBSET Vars /\ FlushedBy(prog[pc]) \subseteq F
  BY <1>1 DEF FlushedBy, Aliased, Vars
<1>3. /\ invalid' = invalid \cup Dependees(F)
      /\ \A v \in Vars : dependees'[v] = IF v \in F THEN {} ELSE dependees[v]
  BY DEF OpImageWrite, Flushed
<1>4. ~LeavesBlock(prog[pc])
  BY <1>1 DEF LeavesBlock
<1> HIDE DEF F
<1> QED
  BY <1>1, <1>2, <1>3, <1>4, StatementMotion DEF OpImageWrite

LEMMA BranchMotion ==
  ASSUME MotionInv, Branch
  PROVE  MotionInv'
<1>1. /\ TypeInv /\ TypeInv' /\ At("branch") /\ Advance /\ NoResult
      /\ prog[pc].op = "branch"
  BY TypePreserved DEF MotionInv, Branch, At, Next
<1>2. {} \in SUBSET Vars /\ FlushedBy(prog[pc]) \subseteq {} /\ Dependees({}) = {}
  BY <1>1 DEF FlushedBy, Dependees
<1>3. /\ invalid' = invalid \cup ctl /\ ctl' = {}
      /\ \A v \in Vars : dependees'[v] = dependees[v]
  BY DEF Branch, flush_control_dependent_expressions
<1>4. /\ invalid \cup Dependees({}) \subseteq invalid'
      /\ invalid' \subseteq invalid \cup ctl \cup Dependees({})
      /\ \A v \in Vars : dependees'[v] = IF v \in {} THEN {} ELSE dependees[v]
  BY <1>2, <1>3
<1> QED
  BY <1>1, <1>2, <1>3, <1>4, StatementMotion DEF Branch

LEMMA OpControlBarrierMotion ==
  ASSUME MotionInv, OpControlBarrier
  PROVE  MotionInv'
<1>1. /\ TypeInv /\ TypeInv' /\ At("barrier") /\ Advance /\ NoResult
      /\ prog[pc].op = "barrier"
  BY TypePreserved DEF MotionInv, OpControlBarrier, At, Next
<1>2. ActiveVariables \in SUBSET Vars /\ FlushedBy(prog[pc]) \subseteq ActiveVariables
  BY <1>1 DEF FlushedBy, ActiveVariables, Aliased, Vars
<1>3. /\ invalid' = invalid \cup ctl \cup Dependees(ActiveVariables) /\ ctl' = {}
      /\ \A v \in Vars : dependees'[v] = IF v \in ActiveVariables THEN {} ELSE dependees[v]
  BY DEF OpControlBarrier, flush_control_dependent_expressions, Flushed
<1>4. forced' = forced /\ force' = force /\ out' = out
  BY DEF OpControlBarrier
<1> QED
  BY <1>1, <1>2, <1>3, <1>4, NoResultMotion

LEMMA EndLoopMotion ==
  ASSUME MotionInv, EndLoop
  PROVE  MotionInv'
<1>1. /\ TypeInv /\ TypeInv' /\ At("end_loop") /\ Advance /\ NoResult
      /\ prog[pc].op = "end_loop"
  BY TypePreserved DEF MotionInv, EndLoop, At, Next
<1>2. {} \in SUBSET Vars /\ FlushedBy(prog[pc]) \subseteq {} /\ Dependees({}) = {}
  BY <1>1 DEF FlushedBy, Dependees
<1>3. /\ invalid' = invalid \cup ctl /\ ctl' = {}
      /\ \A v \in Vars : dependees'[v] = dependees[v]
  BY DEF EndLoop, flush_control_dependent_expressions
<1>4. forced' = forced /\ force' = force /\ out' = out
  BY DEF EndLoop
<1> QED
  BY <1>1, <1>2, <1>3, <1>4, NoResultMotion

\* A pass starts with nothing emitted.  The temporaries forced so far are no chains.
LEMMA RecompileMotion ==
  ASSUME MotionInv, Recompile
  PROVE  MotionInv'
<1>1. TypeInv' /\ prog' = prog /\ forced' = forced
  BY TypePreserved DEF MotionInv, Recompile, Next
<1>2. CASE /\ phase' = "thrown"
           /\ UNCHANGED <<pc, force, tables, expressions, out>>
  BY <1>1, <1>2 DEF MotionInv, ChainsStay, Covered, InPlace, Watch, Disturbs, tables, expressions
<1>3. CASE /\ phase' = "emit" /\ pc' = 1 /\ out' = {} /\ text' = NoIds
           /\ invalid' = {} /\ ctl' = {} /\ forwarded' = {} /\ dependees' = NoDependees
  <2>1. ChainsStay'
    BY <1>1, <1>3 DEF MotionInv, ChainsStay, NoDependees
  <2>2. \A e \in DOMAIN prog : ~(e < 1)
    BY Operands DEF MotionInv, TypeInv, Pos
  <2>3. \A e \in Pos : text'[e] = {}
    BY <1>3 DEF NoIds
  <2> QED
    BY <1>1, <1>3, <2>1, <2>2, <2>3 DEF MotionInv
<1> QED
  BY <1>2, <1>3 DEF Recompile

LEMMA MotionInitially ==
  ASSUME Init, StraightLine(prog)
  PROVE  MotionInv
<1>1. TypeInv
  BY TypeInitially
<1>2. \A e \in DOMAIN prog : ~(e < 1)
  BY <1>1, Operands DEF TypeInv, Pos
<1>3. ChainsStay
  BY DEF Init, ChainsStay, NoDependees
<1> QED
  BY <1>1, <1>2, <1>3 DEF Init, MotionInv, NoIds

LEMMA MotionPreserved ==
  ASSUME MotionInv, [Next]_vars
  PROVE  MotionInv'
<1>1. CASE OpLoad
  BY <1>1, OpLoadMotion
<1>2. CASE OpAccessChain
  BY <1>2, OpAccessChainMotion
<1>3. CASE OpArithmetic
  BY <1>3, OpArithmeticMotion
<1>4. CASE OpStore
  BY <1>4, OpStoreMotion
<1>5. CASE OpFunctionCall
  BY <1>5, OpFunctionCallMotion
<1>6. CASE OpImageWrite
  BY <1>6, OpImageWriteMotion
<1>7. CASE OpControlBarrier
  BY <1>7, OpControlBarrierMotion
<1>8. CASE FlushPhi
  BY <1>8, FlushPhiMotion
<1>9. CASE Branch
  BY <1>9, BranchMotion
<1>10. CASE BeginLoop
  BY <1>10 DEF BeginLoop, At, MotionInv, StraightLine
<1>11. CASE EndLoop
  BY <1>11, EndLoopMotion
<1>12. CASE Recompile
  BY <1>12, RecompileMotion
<1>13. CASE Finish
  <2>1. TypeInv'
    BY <1>13, TypePreserved DEF MotionInv, Next
  <2>2. ~force /\ UNCHANGED <<prog, pc, forced, force, forwarded, suppressed, invalid, dependees,
                              ctl, text, deps, loaded_from, out>>
    BY <1>13 DEF Finish, tables, expressions
  <2> QED
    BY <2>1, <2>2 DEF MotionInv, ChainsStay, Covered, InPlace, Watch, Disturbs
<1>14. CASE UNCHANGED vars
  <2>1. TypeInv'
    BY <1>14, TypePreserved DEF MotionInv
  <2>2. UNCHANGED <<prog, phase, pc, forced, force, forwarded, suppressed, invalid, dependees,
                    ctl, text, deps, loaded_from, out>>
    BY <1>14 DEF vars, tables, expressions
  <2> QED
    BY <2>1, <2>2 DEF MotionInv, ChainsStay, Covered, InPlace, Watch, Disturbs
<1> QED
  BY <1>1, <1>2, <1>3, <1>4, <1>5, <1>6, <1>7, <1>8, <1>9, <1>10, <1>11, <1>12, <1>13, <1>14
  DEF Next

LEMMA MotionInvariant ==
  ASSUME \A p \in Programs : StraightLine(p)
  PROVE  Spec => []MotionInv
<1>1. Init => MotionInv
  BY MotionInitially DEF Init
<1>2. MotionInv /\ [Next]_vars => MotionInv'
  BY MotionPreserved
<1> QED
  BY <1>1, <1>2, PTL DEF Spec

\* Without a loop, only the instructions between two are executed between them.
LEMMA StraightLineBetween ==
  ASSUME StraightLine(prog), NEW j, NEW i
  PROVE  Between(prog, j, i) = {k \in DOMAIN prog : j < k /\ k < i}
  BY DEF StraightLine, Between

\* When nothing pasted may be disturbed on the way, the pasted reads are current.
THEOREM ReadsStayCurrent ==
  ASSUME \A p \in Programs : StraightLine(p)
  PROVE  Spec => []ForwardedReadsAreCurrent
<1>1. MotionInv => ForwardedReadsAreCurrent
  <2> SUFFICES ASSUME MotionInv, phase = "done", NEW j \in DOMAIN prog, NEW i \in DOMAIN prog,
                      <<j, i>> \in out, NEW k \in Between(prog, j, i)
               PROVE  ~Clobbers(prog, k, j)
    BY DEF ForwardedReadsAreCurrent
  <2>1. k \in DOMAIN prog /\ j < k /\ k < i
    BY StraightLineBetween DEF MotionInv
  <2>2. j \in Pos /\ i \in Pos
    BY ConstantsAssumption, Operands DEF MotionInv, TypeInv, Pos
  <2> QED
    BY <2>1, <2>2 DEF MotionInv, InPlace, Disturbs
<1> QED
  BY <1>1, MotionInvariant, PTL

\* No derivative is moved out of its block in straight-line bodies.
THEOREM DerivativesStay ==
  ASSUME \A p \in Programs : StraightLine(p)
  PROVE  Spec => []DerivativesStayInTheirBlock
<1>1. MotionInv => DerivativesStayInTheirBlock
  <2> SUFFICES ASSUME MotionInv, phase = "done", NEW j \in DOMAIN prog, NEW i \in DOMAIN prog,
                      <<j, i>> \in out, IsControlDependent(prog[j]), NEW k \in Between(prog, j, i)
               PROVE  ~LeavesBlock(prog[k])
    BY DEF DerivativesStayInTheirBlock
  <2>1. k \in DOMAIN prog /\ j < k /\ k < i
    BY StraightLineBetween DEF MotionInv
  <2>2. j \in Pos /\ i \in Pos
    BY ConstantsAssumption, Operands DEF MotionInv, TypeInv, Pos
  <2> QED
    BY <2>1, <2>2 DEF MotionInv, InPlace, Disturbs
<1> QED
  BY <1>1, MotionInvariant, PTL
-------------------------------------------------------------------------------
(* Repeated work.                                                          *)

Works == {j \in DOMAIN prog : prog[j].op \in {"arith", "call"}}

\* The instructions which count what they read.
Counting ==
  {i \in DOMAIN prog : prog[i].op \in {"arith", "call", "store", "image_write", "phi", "branch"}}

\* The work in the text of a load or access chain comes in the texts of the
\* expressions a read of it counts as read.
PassedOn(a) == \A j \in text[a] \cap Works : \E x \in Tracked(a) : j \in text[x]

\* What is in use of the tables: only work is tracked, and an expression counts
\* as itself and nothing behind it.
TrackInv ==
  /\ forwarded \subseteq 1 .. (pc - 1) /\ suppressed \subseteq 1 .. (pc - 1)
  /\ forwarded \ suppressed \subseteq Works /\ suppressed \cap Works = {}
  /\ \A a \in Pos : a >= pc => text[a] = {} /\ tracks[a] = {}
  /\ \A a \in Pos : a < pc =>
       /\ tracks[a] \subseteq 1 .. a
       /\ a \in Works => tracks[a] = {a} /\ (text[a] # {} => a \in forwarded)
       /\ a \notin Works => \A x \in Tracked(a) : Loops(prog, x) \subseteq Loops(prog, a)
       /\ PassedOn(a)

\* The text of work is its own and that of what it reads.
TextInv ==
  \A x \in Works, j \in Works : j \in text[x] =>
    j <= x /\ j \in text[j] /\ (j = x \/ \E y \in TrackedBy(prog[x]) : j \in text[y])

LevelInv ==
  /\ level = Cardinality(Loops(prog, pc))
  /\ \A x \in Works : x < pc => emitted_level[x] = Cardinality(Loops(prog, x))

\* In a pass which is going to be kept, what is counted is read once, by an
\* instruction which is in no loop the work is not part of.
CountInv ==
  /\ \A i \in Counting : i < pc =>
       \A x \in TrackedBy(prog[i]) : x \in used /\ Loops(prog, i) \subseteq Loops(prog, x)
  /\ \A h, i \in Counting : h < pc /\ i < pc /\ TrackedBy(prog[h]) \cap TrackedBy(prog[i]) # {} => h = i
  /\ \A x \in Works, j \in Works : j \in text[x] => Loops(prog, x) \subseteq Loops(prog, j)

\* The texts which contain one and the same work contain each other.
NestedInv ==
  \A x, y, j \in Works : x < y /\ j \in text[x] /\ j \in text[y] =>
    \E r \in Works : r <= y /\ x \in TrackedBy(prog[r]) /\ j \in text[r]

StatementInv ==
  \A j \in Works, i \in Pos : <<j, i>> \in out =>
    /\ i < pc
    /\ prog[i].op # "load" =>
         /\ i \in Counting /\ text[i] = {}
         /\ j = i \/ \E x \in TrackedBy(prog[i]) : j \in text[x]

WorkInv ==
  /\ TypeInv /\ (phase = "done" => ~force)
  /\ TrackInv /\ TextInv /\ LevelInv /\ StatementInv
  /\ ~force => CountInv /\ NestedInv

-------------------------------------------------------------------------------
\* Loops.

LEMMA BodyFacts ==
  ASSUME NEW p \in Programs
  PROVE  /\ Len(p) \in Pos /\ DOMAIN p = 1 .. Len(p) /\ DOMAIN p \subseteq Pos
         /\ IsFiniteSet(DOMAIN p) /\ Pos \subseteq Int
         /\ \A i : Loops(p, i) \subseteq DOMAIN p /\ IsFiniteSet(Loops(p, i))
<1>1. Len(p) \in Pos /\ DOMAIN p = 1 .. Len(p) /\ N \in Nat
  BY ConstantsAssumption
<1>2. DOMAIN p \subseteq Pos /\ Pos \subseteq Int
  BY <1>1 DEF Pos
<1>3. IsFiniteSet(DOMAIN p)
  BY <1>1, <1>2, FS_Interval
<1>4. \A i : Loops(p, i) \subseteq DOMAIN p
  BY DEF Loops
<1> QED
  BY <1>1, <1>2, <1>3, <1>4, FS_Subset

\* current_loop_level is the number of loops around the next instruction.
LEMMA LoopsAhead ==
  ASSUME NEW p \in Programs, LoopsNest(p), NEW i \in DOMAIN p
  PROVE  Cardinality(Loops(p, i + 1)) =
           CASE p[i].op = "loop" -> Cardinality(Loops(p, i)) + 1
             [] p[i].op = "end_loop" -> Cardinality(Loops(p, i)) - 1
             [] OTHER -> Cardinality(Loops(p, i))
<1>1. /\ DOMAIN p \subseteq Int /\ IsFiniteSet(Loops(p, i)) /\ i \in Int
      /\ \A b \in DOMAIN p : p[b].op = "loop" => p[b].to \in Int
  BY BodyFacts DEF LoopsNest
<1>2. CASE p[i].op = "loop"
  <2>1. p[i].to \in Int /\ i < p[i].to
    BY <1>1, <1>2 DEF LoopsNest
  <2>2. ASSUME NEW b \in DOMAIN p, p[b].op = "loop" PROVE p[b].to # i
    <3>1. p[p[b].to].op = "end_loop"
      BY <2>2 DEF LoopsNest
    <3> QED
      BY <1>2, <3>1
  <2>3. Loops(p, i + 1) = Loops(p, i) \cup {i} /\ i \notin Loops(p, i)
    BY <1>1, <1>2, <2>1, <2>2 DEF Loops
  <2> QED
    BY <1>1, <1>2, <2>3, FS_AddElement
<1>3. CASE p[i].op = "end_loop"
  <2>1. PICK b \in DOMAIN p : p[b].op = "loop" /\ p[b].to = i
    BY <1>3 DEF LoopsNest
  <2>2. b \in Loops(p, i)
    BY <1>1, <2>1 DEF Loops, LoopsNest
  <2>3. ASSUME NEW c \in DOMAIN p, p[c].op = "loop", p[c].to = i PROVE c = b
    <3>1. b < i /\ c < i
      BY <2>1, <2>3 DEF LoopsNest
    <3>2. ~(b < c) /\ ~(c < b)
      BY <1>1, <2>1, <2>3, <3>1 DEF LoopsNest
    <3> QED
      BY <1>1, <3>2
  <2>4. Loops(p, i + 1) = Loops(p, i) \ {b}
    <3>1. ASSUME NEW c \in Loops(p, i + 1) PROVE c \in Loops(p, i) \ {b}
      BY <1>1, <1>3, <2>1, <3>1 DEF Loops
    <3>2. ASSUME NEW c \in Loops(p, i) \ {b} PROVE c \in Loops(p, i + 1)
      BY <1>1, <2>3, <3>2 DEF Loops
    <3> QED
      BY <3>1, <3>2
  <2> QED
    BY <1>1, <1>3, <2>2, <2>4, FS_RemoveElement
<1>4. CASE p[i].op # "loop" /\ p[i].op # "end_loop"
  <2>1. \A b \in DOMAIN p : p[b].op = "loop" => p[b].to # i
    BY <1>4 DEF LoopsNest
  <2>2. Loops(p, i + 1) = Loops(p, i)
    <3>1. ASSUME NEW c \in Loops(p, i + 1) PROVE c \in Loops(p, i)
      BY <1>1, <1>4, <3>1 DEF Loops
    <3>2. ASSUME NEW c \in Loops(p, i) PROVE c \in Loops(p, i + 1)
      BY <1>1, <2>1, <3>2 DEF Loops
    <3> QED
      BY <3>1, <3>2
  <2> QED
    BY <1>4, <2>2
<1> QED
  BY <1>2, <1>3, <1>4

\* The loops around two instructions in one and the same loop are comparable.
LEMMA LoopsCompare ==
  ASSUME NEW p \in Programs, LoopsNest(p), NEW a \in DOMAIN p, NEW i \in DOMAIN p, NEW x \in DOMAIN p,
         Loops(p, i) \subseteq Loops(p, a), Loops(p, x) \subseteq Loops(p, a)
  PROVE  Loops(p, i) \subseteq Loops(p, x) \/ Loops(p, x) \subseteq Loops(p, i)
<1> SUFFICES ASSUME NEW b \in Loops(p, i), b \notin Loops(p, x), NEW c \in Loops(p, x), c \notin Loops(p, i)
             PROVE  FALSE
  OBVIOUS
<1>1. /\ b \in DOMAIN p /\ c \in DOMAIN p /\ DOMAIN p \subseteq Int
      /\ p[b].op = "loop" /\ p[c].op = "loop" /\ p[b].to \in Int /\ p[c].to \in Int
  BY BodyFacts DEF Loops, LoopsNest
<1>2. /\ b < i /\ i <= p[b].to /\ ~(b < x /\ x <= p[b].to)
      /\ c < x /\ x <= p[c].to /\ ~(c < i /\ i <= p[c].to)
  BY <1>1 DEF Loops
<1>3. b < a /\ a <= p[b].to /\ c < a /\ a <= p[c].to
  BY DEF Loops
<1>4. CASE b < c
  <2>1. p[c].to < p[b].to
    BY <1>1, <1>3, <1>4 DEF LoopsNest
  <2> QED
    BY <1>1, <1>2, <1>4, <2>1
<1>5. CASE c < b
  <2>1. p[b].to < p[c].to
    BY <1>1, <1>3, <1>5 DEF LoopsNest
  <2> QED
    BY <1>1, <1>2, <1>5, <2>1
<1>6. CASE b = c
  BY <1>6
<1> QED
  BY <1>1, <1>4, <1>5, <1>6

\* A read which is not deeper than what it reads is in no further loop.
LEMMA NotDeeper ==
  ASSUME NEW p \in Programs, NEW i \in DOMAIN p, NEW x \in DOMAIN p,
         Loops(p, i) \subseteq Loops(p, x) \/ Loops(p, x) \subseteq Loops(p, i),
         ~(Cardinality(Loops(p, i)) > Cardinality(Loops(p, x)))
  PROVE  Loops(p, i) \subseteq Loops(p, x)
<1> SUFFICES ASSUME Loops(p, x) \subseteq Loops(p, i) PROVE Loops(p, i) = Loops(p, x)
  OBVIOUS
<1>1. IsFiniteSet(Loops(p, i)) /\ IsFiniteSet(Loops(p, x))
  BY BodyFacts
<1>2. Cardinality(Loops(p, i)) \in Nat /\ Cardinality(Loops(p, x)) \in Nat
  BY <1>1, FS_CardinalityType
<1> QED
  BY <1>1, <1>2, FS_Subset

-------------------------------------------------------------------------------
\* What every step which emits an instruction does to the tables.
WorkChange ==
  LET ins == prog[pc] IN
  /\ pc \in DOMAIN prog /\ pc' = pc + 1 /\ prog' = prog /\ phase' # "done"
  /\ \A e \in Pos : e # pc =>
       text'[e] = text[e] /\ tracks'[e] = tracks[e] /\ emitted_level'[e] = emitted_level[e]
  /\ text'[pc] \subseteq Pasted(ins) \cup {pc}
  /\ forwarded \subseteq forwarded' /\ forwarded' \subseteq forwarded \cup {pc}
  /\ suppressed \subseteq suppressed' /\ suppressed' \subseteq suppressed \cup {pc}
  /\ IF pc \in Works
     THEN /\ suppressed' = suppressed /\ tracks'[pc] = {pc} /\ emitted_level'[pc] = level
          /\ text'[pc] # {} => pc \in forwarded'
     ELSE /\ pc \in forwarded' => pc \in suppressed'
          /\ tracks'[pc] \subseteq {pc} \cup UNION {tracks[a] : a \in Ids(ins)}
          /\ tracks'[pc] # {} => ins.op \in {"load", "chain"}
          /\ text'[pc] # {} => UNION {tracks[a] : a \in Ids(ins)} \subseteq tracks'[pc]
  /\ used \subseteq used' /\ (~force' => ~force)
  /\ pc \in Counting /\ ~force' =>
       TrackedBy(ins) \subseteq used' /\ track_expression_read(ins) = {}
  /\ out' \subseteq out \cup ((Pasted(ins) \cup {pc}) \X {pc})
  /\ out' # out /\ ins.op # "load" => pc \in Counting /\ text'[pc] = {}
  /\ level' = level + (CASE ins.op = "loop" -> 1 [] ins.op = "end_loop" -> -1 [] OTHER -> 0)

\* What has been emitted is tracked as before.
LEMMA TrackedKept ==
  ASSUME TypeInv, TrackInv, WorkChange
  PROVE  /\ \A a \in Pos : a < pc => Tracked(a)' = Tracked(a)
         /\ \A i \in DOMAIN prog : i <= pc => TrackedBy(prog[i])' = TrackedBy(prog[i])
         /\ Works' = Works /\ Counting' = Counting
         /\ \A i : Loops(prog, i)' = Loops(prog, i)
<1>1. /\ prog' = prog /\ pc \in DOMAIN prog /\ prog \in Programs
  BY DEF WorkChange, TypeInv
<1>2. /\ pc \in Int /\ Pos \subseteq Int /\ DOMAIN prog \subseteq Pos
  BY <1>1, BodyFacts
<1>3. ASSUME NEW a \in Pos, a < pc PROVE Tracked(a)' = Tracked(a)
  <2>1. tracks'[a] = tracks[a] /\ tracks[a] \subseteq 1 .. a
    BY <1>2, <1>3 DEF WorkChange, TrackInv
  <2>2. pc \notin tracks[a]
    BY <1>2, <1>3, <2>1
  <2> QED
    BY <2>1, <2>2 DEF Tracked, WorkChange
<1>4. ASSUME NEW i \in DOMAIN prog, i <= pc PROVE TrackedBy(prog[i])' = TrackedBy(prog[i])
  <2>1. Ids(prog[i]) \subseteq 1 .. (i - 1) /\ Ids(prog[i]) \subseteq Pos
    BY <1>1, Operands
  <2>2. i \in Int
    BY <1>2
  <2>3. \A a \in Ids(prog[i]) : a \in Pos /\ a < pc
    BY <1>2, <1>4, <2>1, <2>2
  <2> QED
    BY <1>1, <1>3, <2>3 DEF TrackedBy
<1> QED
  BY <1>1, <1>3, <1>4 DEF Works, Counting, Loops

\* Work which is pasted is tracked.
LEMMA PastedIsTracked ==
  ASSUME TypeInv, TrackInv, TextInv, pc \in DOMAIN prog, NEW j \in Works, j \in Pasted(prog[pc])
  PROVE  \E y \in TrackedBy(prog[pc]) : y \in Works /\ y < pc /\ j \in text[y]
<1>1. PICK a \in Ids(prog[pc]) : j \in text[a]
  BY DEF Pasted
<1>2. a \in Pos /\ a < pc /\ pc \in Int
  BY Operands, BodyFacts DEF TypeInv
<1>3. PICK y \in Tracked(a) : j \in text[y]
  BY <1>1, <1>2 DEF TrackInv, PassedOn
<1>4. y \in forwarded /\ y \notin suppressed /\ y \in tracks[a] /\ tracks[a] \subseteq 1 .. a
  BY <1>2, <1>3 DEF TrackInv, Tracked
<1> QED
  BY <1>1, <1>2, <1>3, <1>4 DEF TrackInv, TrackedBy

LEMMA TrackStep ==
  ASSUME TypeInv, TypeInv', TrackInv, TextInv, WorkChange, ResultsStayOutOfOtherLoops(prog)
  PROVE  TrackInv'
<1>1. /\ prog' = prog /\ pc \in DOMAIN prog /\ prog \in Programs /\ pc' = pc + 1
      /\ pc \in Int /\ Pos \subseteq Int /\ DOMAIN prog \subseteq Pos
      /\ 1 .. (pc - 1) \subseteq 1 .. pc /\ pc \in 1 .. pc
  <2>1. /\ prog' = prog /\ pc \in DOMAIN prog /\ prog \in Programs /\ pc' = pc + 1
    BY DEF WorkChange, TypeInv
  <2>2. pc \in Int /\ Pos \subseteq Int /\ DOMAIN prog \subseteq Pos
    BY <2>1, BodyFacts
  <2>3. pc >= 1
    BY <2>1, <2>2 DEF Pos
  <2> QED
    BY <2>1, <2>2, <2>3
<1>2. /\ \A a \in Pos : a < pc => Tracked(a)' = Tracked(a)
      /\ Works' = Works /\ \A i : Loops(prog, i)' = Loops(prog, i)
  BY TrackedKept
<1>3. forwarded' \subseteq 1 .. pc /\ suppressed' \subseteq 1 .. pc
  BY <1>1 DEF TrackInv, WorkChange
<1>4. forwarded' \ suppressed' \subseteq Works /\ suppressed' \cap Works = {}
  BY DEF TrackInv, WorkChange
<1>5. ASSUME NEW a \in Pos, a >= pc + 1 PROVE text'[a] = {} /\ tracks'[a] = {}
  BY <1>1, <1>5 DEF TrackInv, WorkChange
<1>6. \A a \in Ids(prog[pc]) : a \in Pos /\ a < pc /\ a \in DOMAIN prog
  BY <1>1, Operands, BodyFacts
<1>7. tracks'[pc] \subseteq 1 .. pc
  <2>1. ASSUME NEW a \in Ids(prog[pc]) PROVE tracks[a] \subseteq 1 .. pc
    <3>1. a \in Int /\ a < pc /\ tracks[a] \subseteq 1 .. a
      BY <1>1, <1>6, <2>1 DEF TrackInv
    <3> QED
      BY <1>1, <3>1
  <2> QED
    BY <1>1, <2>1 DEF WorkChange
<1> DEFINE S == {x \in tracks'[pc] : x \in forwarded' /\ x \notin suppressed'}
<1>8. ASSUME pc \notin Works, NEW x \in S PROVE Loops(prog, x) \subseteq Loops(prog, pc)
  <2>1. x \in tracks'[pc] /\ x \in forwarded' /\ x \notin suppressed'
    BY <1>8
  <2>2. x \in Works /\ x # pc
    BY <1>4, <1>8, <2>1
  <2>3. PICK a \in Ids(prog[pc]) : x \in tracks[a]
    BY <1>8, <2>1, <2>2 DEF WorkChange
  <2>4. x \in Tracked(a)
    BY <1>8, <2>1, <2>2, <2>3 DEF WorkChange, Tracked
  <2>5. prog[pc].op \in {"load", "chain"}
    BY <1>8, <2>1 DEF WorkChange
  <2>6. Loops(prog, a) \subseteq Loops(prog, pc)
    BY <1>1, <2>5 DEF ResultsStayOutOfOtherLoops
  <2>7. CASE a \in Works
    BY <1>6, <2>3, <2>6, <2>7 DEF TrackInv
  <2>8. CASE a \notin Works
    BY <1>6, <2>4, <2>6, <2>8 DEF TrackInv
  <2> QED
    BY <2>7, <2>8
<1>9. ASSUME NEW j \in Works, j \in text'[pc]
      PROVE  \E x \in S : j \in text'[x]
  <2>1. CASE pc \in Works
    <3>1. pc \in tracks'[pc] /\ pc \in forwarded' /\ pc \notin suppressed'
      BY <1>4, <1>9, <2>1 DEF WorkChange
    <3> QED
      BY <1>9, <3>1
  <2>2. CASE pc \notin Works
    <3>1. j \in Pasted(prog[pc])
      BY <1>9, <2>2 DEF WorkChange
    <3>2. PICK a \in Ids(prog[pc]) : j \in text[a]
      BY <3>1 DEF Pasted
    <3>3. PICK x \in Tracked(a) : j \in text[x]
      BY <1>6, <1>9, <3>2 DEF TrackInv, PassedOn
    <3>4. /\ x \in tracks[a] /\ x \in forwarded /\ x \notin suppressed /\ x \in Works
      BY <3>3 DEF Tracked, TrackInv
    <3>5. x \in tracks'[pc] /\ x \in forwarded' /\ x \notin suppressed'
      BY <1>4, <1>9, <2>2, <3>4 DEF WorkChange
    <3>6. x \in Pos /\ x # pc
      BY <1>1, <2>2, <3>4 DEF Works
    <3>7. text'[x] = text[x]
      BY <3>6 DEF WorkChange
    <3> QED
      BY <3>3, <3>5, <3>7
  <2> QED
    BY <2>1, <2>2
<1>10. ASSUME NEW a \in Pos, a < pc + 1
       PROVE  /\ tracks'[a] \subseteq 1 .. a
              /\ a \in Works => tracks'[a] = {a} /\ (text'[a] # {} => a \in forwarded')
              /\ a \notin Works => \A x \in Tracked(a)' : Loops(prog, x) \subseteq Loops(prog, a)
              /\ \A j \in text'[a] \cap Works : \E x \in Tracked(a)' : j \in text'[x]
  <2>1. CASE a = pc
    <3>1. Tracked(a)' = S
      BY <2>1 DEF Tracked
    <3>2. pc \in Works => tracks'[pc] = {pc} /\ (text'[pc] # {} => pc \in forwarded')
      BY DEF WorkChange
    <3>3. a \in Works <=> pc \in Works
      BY <2>1
    <3> HIDE DEF S
    <3> QED
      BY <1>7, <1>8, <1>9, <2>1, <3>1, <3>2, <3>3
  <2>2. CASE a # pc
    <3>1. a < pc /\ text'[a] = text[a] /\ tracks'[a] = tracks[a] /\ Tracked(a)' = Tracked(a)
      BY <1>1, <1>2, <1>10, <2>2 DEF WorkChange
    <3>2. \A x \in Tracked(a) : text'[x] = text[x]
      <4>1. ASSUME NEW x \in Tracked(a) PROVE x \in Pos /\ x # pc
        <5>1. x \in 1 .. a /\ x \in Works
          BY <3>1, <4>1 DEF TrackInv, Tracked
        <5> QED
          BY <1>1, <3>1, <5>1 DEF Works
      <4> QED
        BY <4>1 DEF WorkChange
    <3>3. /\ tracks[a] \subseteq 1 .. a
          /\ a \in Works => tracks[a] = {a} /\ (text[a] # {} => a \in forwarded)
          /\ a \notin Works => \A x \in Tracked(a) : Loops(prog, x) \subseteq Loops(prog, a)
          /\ \A j \in text[a] \cap Works : \E x \in Tracked(a) : j \in text[x]
      BY <3>1 DEF TrackInv, PassedOn
    <3>4. forwarded \subseteq forwarded'
      BY DEF WorkChange
    <3> QED
      BY <3>1, <3>2, <3>3, <3>4
  <2> QED
    BY <2>1, <2>2
<1>11. \A a \in Pos : PassedOn(a)' <=> \A j \in text'[a] \cap Works : \E x \in Tracked(a)' : j \in text'[x]
  BY <1>2 DEF PassedOn
<1>12. forwarded' \subseteq 1 .. (pc' - 1) /\ suppressed' \subseteq 1 .. (pc' - 1)
  BY <1>1, <1>3
<1> QED
  BY <1>1, <1>2, <1>4, <1>5, <1>10, <1>11, <1>12 DEF TrackInv

\* Facts about the step and the tables of the work emitted before it.
LEMMA WorkStepFacts ==
  ASSUME TypeInv, TrackInv, WorkChange
  PROVE  /\ prog' = prog /\ pc' = pc + 1 /\ pc \in DOMAIN prog /\ prog \in Programs
         /\ pc \in Int /\ Pos \subseteq Int /\ DOMAIN prog \subseteq Pos /\ pc \in Pos
         /\ Works' = Works /\ Counting' = Counting /\ Works \subseteq Pos /\ Works \subseteq Counting
         /\ Counting \subseteq DOMAIN prog
         /\ \A i : Loops(prog, i)' = Loops(prog, i)
         /\ \A i \in DOMAIN prog : i <= pc => TrackedBy(prog[i])' = TrackedBy(prog[i])
         /\ \A x \in Pos : x # pc => text'[x] = text[x] /\ emitted_level'[x] = emitted_level[x]
         /\ \A x \in Pos : text[x] # {} => x < pc
         /\ \A x \in Pos : text'[x] # {} => x <= pc
         /\ \A i \in DOMAIN prog : i <= pc => \A x \in TrackedBy(prog[i]) : x \in Works /\ x < i /\ x # pc
<1>1. /\ prog' = prog /\ pc' = pc + 1 /\ pc \in DOMAIN prog /\ prog \in Programs
  BY DEF WorkChange, TypeInv
<1>2. pc \in Int /\ Pos \subseteq Int /\ DOMAIN prog \subseteq Pos /\ pc \in Pos
  BY <1>1, BodyFacts
<1>3. \A x \in Pos : x # pc => text'[x] = text[x] /\ emitted_level'[x] = emitted_level[x]
  BY DEF WorkChange
<1>4. ASSUME NEW x \in Pos, text[x] # {} PROVE x < pc
  <2>1. ~(x >= pc) /\ x \in Int
    BY <1>2, <1>4 DEF TrackInv
  <2> QED
    BY <1>2, <2>1
<1>5. ASSUME NEW i \in DOMAIN prog, i <= pc, NEW x \in TrackedBy(prog[i]) PROVE x \in Works /\ x < i /\ x # pc
  <2>1. PICK a \in Ids(prog[i]) : x \in Tracked(a)
    BY DEF TrackedBy
  <2>2. a \in 1 .. (i - 1) /\ a \in Pos /\ i \in Int
    BY <1>1, <1>2, Operands
  <2>3. a < pc /\ a \in Int
    BY <1>2, <1>5, <2>2
  <2>4. x \in 1 .. a /\ x \in forwarded /\ x \notin suppressed
    BY <2>1, <2>2, <2>3 DEF TrackInv, Tracked
  <2> QED
    BY <1>2, <1>5, <2>2, <2>3, <2>4 DEF TrackInv
<1>6. Works \subseteq Pos /\ Works \subseteq Counting /\ Counting \subseteq DOMAIN prog
  BY <1>2 DEF Works, Counting
<1>7. ASSUME NEW x \in Pos, text'[x] # {} PROVE x <= pc
  <2>1. CASE x = pc
    BY <1>2, <2>1
  <2>2. CASE x # pc
    <3>1. x < pc /\ x \in Int
      BY <1>2, <1>3, <1>4, <1>7, <2>2
    <3> QED
      BY <1>2, <3>1
  <2> QED
    BY <2>1, <2>2
<1> QED
  BY <1>1, <1>2, <1>3, <1>4, <1>5, <1>6, <1>7, TrackedKept

LEMMA TextStep ==
  ASSUME TypeInv, TrackInv, TextInv, WorkChange
  PROVE  TextInv'
<1>1. ASSUME NEW x \in Works, NEW j \in Works, j \in text'[x]
      PROVE  j <= x /\ j \in text'[j] /\ (j = x \/ \E y \in TrackedBy(prog[x])' : j \in text'[y])
  <2>1. /\ x \in Pos /\ j \in Pos /\ x <= pc /\ Pos \subseteq Int /\ x \in DOMAIN prog /\ pc \in DOMAIN prog
        /\ TrackedBy(prog[x])' = TrackedBy(prog[x])
        /\ \A y \in TrackedBy(prog[x]) : text'[y] = text[y]
    BY <1>1, WorkStepFacts DEF Works
  <2>2. CASE x = pc
    <3>1. CASE j # pc
      <4>1. j \in Pasted(prog[pc])
        BY <1>1, <2>2, <3>1 DEF WorkChange
      <4>2. PICK y \in TrackedBy(prog[pc]) : y \in Works /\ y < pc /\ j \in text[y]
        BY <2>1, <4>1, PastedIsTracked
      <4>3. j <= y /\ y \in Pos /\ j \in text[j]
        BY <4>2, WorkStepFacts DEF TextInv
      <4>4. j \in text'[j]
        BY <2>1, <3>1, <4>3, WorkStepFacts
      <4> QED
        BY <2>1, <2>2, <4>2, <4>3, <4>4
    <3> QED
      BY <1>1, <2>1, <2>2, <3>1
  <2>3. CASE x # pc
    <3>1. j \in text[x]
      BY <1>1, <2>1, <2>3, WorkStepFacts
    <3>2. j \in text[j] /\ j < pc
      BY <2>1, <3>1, WorkStepFacts DEF TextInv
    <3>3. j # pc /\ j \in text'[j]
      BY <2>1, <3>2, WorkStepFacts
    <3> QED
      BY <2>1, <3>1, <3>3 DEF TextInv
  <2> QED
    BY <2>2, <2>3
<1>2. prog' = prog /\ Works' = Works
  BY WorkStepFacts
<1> QED
  BY <1>1, <1>2 DEF TextInv

LEMMA LevelStep ==
  ASSUME TypeInv, TrackInv, LevelInv, WorkChange, LoopsNest(prog)
  PROVE  LevelInv'
<1>1. /\ prog' = prog /\ pc' = pc + 1 /\ pc \in DOMAIN prog /\ prog \in Programs /\ Works' = Works
      /\ pc \in Int /\ Works \subseteq Pos /\ Pos \subseteq Int
  BY WorkStepFacts
<1>2. IsFiniteSet(Loops(prog, pc))
  BY <1>1, BodyFacts
<1>3. level = Cardinality(Loops(prog, pc)) /\ level \in Nat
  BY <1>2, FS_CardinalityType DEF LevelInv
<1>4. level' = Cardinality(Loops(prog, pc + 1))
  <2> DEFINE n == Cardinality(Loops(prog, pc + 1))
  <2>1. n = CASE prog[pc].op = "loop" -> level + 1
              [] prog[pc].op = "end_loop" -> level - 1
              [] OTHER -> level
    BY <1>1, <1>3, LoopsAhead
  <2>2. level' = level + (CASE prog[pc].op = "loop" -> 1 [] prog[pc].op = "end_loop" -> -1 [] OTHER -> 0)
    BY DEF WorkChange
  <2> HIDE DEF n
  <2>3. level' = n
    BY <1>3, <2>1, <2>2
  <2> QED
    BY <2>3 DEF n
<1>5. ASSUME NEW x \in Works, x < pc + 1 PROVE emitted_level'[x] = Cardinality(Loops(prog, x))
  <2>1. CASE x = pc
    BY <1>3, <1>5, <2>1 DEF WorkChange
  <2>2. CASE x # pc
    <3>1. x < pc
      BY <1>1, <1>5, <2>2
    <3> QED
      BY <1>1, <2>2, <3>1, WorkStepFacts DEF LevelInv
  <2> QED
    BY <2>1, <2>2
<1> QED
  BY <1>1, <1>4, <1>5 DEF LevelInv

LEMMA CountStep ==
  ASSUME TypeInv, TrackInv, TextInv, LevelInv, CountInv, WorkChange, ~force',
         LoopsNest(prog), ResultsStayOutOfOtherLoops(prog)
  PROVE  CountInv'
<1>1. /\ prog' = prog /\ pc' = pc + 1 /\ pc \in DOMAIN prog /\ prog \in Programs /\ Works' = Works
      /\ Counting' = Counting /\ Counting \subseteq DOMAIN prog
      /\ pc \in Int /\ Works \subseteq Pos /\ Pos \subseteq Int /\ DOMAIN prog \subseteq Pos
      /\ \A i : Loops(prog, i)' = Loops(prog, i)
      /\ \A i \in DOMAIN prog : i <= pc => TrackedBy(prog[i])' = TrackedBy(prog[i])
  BY WorkStepFacts
\* What the step reads it reads for the first time, and at the level it was made.
<1>2. ASSUME pc \in Counting, NEW x \in TrackedBy(prog[pc])
      PROVE  x \in used' /\ x \notin used /\ Loops(prog, pc) \subseteq Loops(prog, x)
  <2>1. x \in used' /\ x \notin track_expression_read(prog[pc])
    BY <1>2 DEF WorkChange
  <2>2. x \notin used /\ ~(level > emitted_level[x])
    BY <1>2, <2>1 DEF track_expression_read
  <2>3. x \in Works /\ x < pc /\ x \in DOMAIN prog
    BY <1>1, <1>2, WorkStepFacts DEF Works
  <2>4. ~(Cardinality(Loops(prog, pc)) > Cardinality(Loops(prog, x)))
    BY <2>2, <2>3 DEF LevelInv
  <2>5. PICK a \in Ids(prog[pc]) : x \in Tracked(a)
    BY <1>2 DEF TrackedBy
  <2>6. a \in Pos /\ a < pc /\ a \in DOMAIN prog
    <3>1. a \in 1 .. (pc - 1) /\ a \in Pos
      BY <1>1, <2>5, Operands
    <3> QED
      BY <1>1, <3>1, BodyFacts
  <2>7. Loops(prog, x) \subseteq Loops(prog, a)
    BY <2>5, <2>6 DEF TrackInv, Tracked
  <2>8. Loops(prog, a) \subseteq Loops(prog, pc) \/ Loops(prog, pc) \subseteq Loops(prog, a)
    BY <1>1, <2>5 DEF ResultsStayOutOfOtherLoops
  <2>9. Loops(prog, pc) \subseteq Loops(prog, x) \/ Loops(prog, x) \subseteq Loops(prog, pc)
    <3>1. CASE Loops(prog, a) \subseteq Loops(prog, pc)
      BY <2>7, <3>1
    <3>2. CASE Loops(prog, pc) \subseteq Loops(prog, a)
      BY <1>1, <2>3, <2>6, <2>7, <3>2, LoopsCompare
    <3> QED
      BY <2>8, <3>1, <3>2
  <2> QED
    BY <1>1, <2>1, <2>2, <2>3, <2>4, <2>9, NotDeeper
<1>3. ASSUME NEW i \in Counting, i < pc + 1, NEW x \in TrackedBy(prog[i])
      PROVE  x \in used' /\ Loops(prog, i) \subseteq Loops(prog, x)
  <2>1. CASE i = pc
    BY <1>2, <1>3, <2>1
  <2>2. CASE i # pc
    <3>1. i < pc
      <4>1. i \in Int /\ pc \in Int
        BY <1>1
      <4> QED
        BY <1>3, <2>2, <4>1
    <3> QED
      BY <1>3, <3>1 DEF CountInv, WorkChange
  <2> QED
    BY <2>1, <2>2
<1>4. ASSUME NEW h \in Counting, NEW i \in Counting, h < pc + 1, i < pc + 1,
             TrackedBy(prog[h]) \cap TrackedBy(prog[i]) # {}
      PROVE  h = i
  <2>1. PICK x \in TrackedBy(prog[h]) : x \in TrackedBy(prog[i])
    BY <1>4
  <2>2. h \in Int /\ i \in Int
    BY <1>1
  <2>3. CASE h < pc /\ i < pc
    BY <1>4, <2>3 DEF CountInv
  <2>4. CASE h = pc /\ i < pc
    BY <1>2, <1>4, <2>1, <2>4 DEF CountInv
  <2>5. CASE h < pc /\ i = pc
    BY <1>2, <1>4, <2>1, <2>5 DEF CountInv
  <2>6. CASE h = pc /\ i = pc
    BY <2>6
  <2> QED
    BY <1>1, <1>4, <2>2, <2>3, <2>4, <2>5, <2>6
<1>5. ASSUME NEW x \in Works, NEW j \in Works, j \in text'[x]
      PROVE  Loops(prog, x) \subseteq Loops(prog, j)
  <2>1. CASE x # pc
    BY <1>1, <1>5, <2>1, WorkStepFacts DEF CountInv
  <2>2. CASE x = pc /\ j = pc
    BY <2>2
  <2>3. CASE x = pc /\ j # pc
    <3>1. j \in Pasted(prog[pc])
      BY <1>5, <2>3 DEF WorkChange
    <3>2. PICK y \in TrackedBy(prog[pc]) : y \in Works /\ y < pc /\ j \in text[y]
      BY <1>1, <3>1, PastedIsTracked
    <3>3. Loops(prog, y) \subseteq Loops(prog, j)
      BY <3>2 DEF CountInv
    <3>4. Loops(prog, pc) \subseteq Loops(prog, y)
      BY <1>2, <2>3, <3>2, WorkStepFacts
    <3> QED
      BY <2>3, <3>3, <3>4
  <2> QED
    BY <2>1, <2>2, <2>3
<1>6. ASSUME NEW i \in Counting, i < pc + 1 PROVE TrackedBy(prog[i])' = TrackedBy(prog[i])
  <2>1. i \in Int /\ pc \in Int /\ i \in DOMAIN prog
    BY <1>1
  <2>2. i <= pc
    BY <1>6, <2>1
  <2> QED
    BY <1>1, <2>1, <2>2
<1> QED
  BY <1>1, <1>3, <1>4, <1>5, <1>6 DEF CountInv

LEMMA NestedStep ==
  ASSUME TypeInv, TrackInv, TextInv, CountInv, NestedInv, WorkChange, ~force'
  PROVE  NestedInv'
<1>1. /\ prog' = prog /\ pc \in DOMAIN prog /\ Works' = Works /\ Works \subseteq Counting
      /\ pc \in Int /\ Works \subseteq Pos /\ Pos \subseteq Int /\ Counting \subseteq DOMAIN prog
      /\ \A i \in DOMAIN prog : i <= pc => TrackedBy(prog[i])' = TrackedBy(prog[i])
      /\ \A x \in Pos : x # pc => text'[x] = text[x]
      /\ \A x \in Pos : text[x] # {} => x < pc
      /\ \A x \in Pos : text'[x] # {} => x <= pc
  BY WorkStepFacts
<1>2. ASSUME NEW x \in Works, NEW y \in Works, NEW j \in Works, x < y, j \in text'[x], j \in text'[y]
      PROVE  \E r \in Works : r <= y /\ x \in TrackedBy(prog[r]) /\ j \in text'[r]
  <2>0. /\ x \in Int /\ y \in Int /\ j \in Int /\ pc \in Int /\ x \in Pos /\ y \in Pos
        /\ \A i \in Works : i \in Int /\ i \in DOMAIN prog /\ i \in Counting
    BY <1>1
  <2>1. y <= pc /\ x < pc /\ j \in text[x] /\ x # pc
    <3>1. y <= pc
      BY <1>1, <1>2, <2>0
    <3>2. x < pc
      BY <1>2, <2>0, <3>1
    <3>3. x # pc
      BY <2>0, <3>2
    <3> QED
      BY <1>1, <1>2, <2>0, <3>1, <3>2, <3>3
  <2>2. CASE y # pc
    <3>1. j \in text[y]
      BY <1>1, <1>2, <2>2
    <3>2. PICK r \in Works : r <= y /\ x \in TrackedBy(prog[r]) /\ j \in text[r]
      BY <1>2, <2>1, <3>1 DEF NestedInv
    <3>3. r # pc /\ r \in Pos
      BY <1>1, <2>0, <2>1, <2>2, <3>2
    <3> QED
      BY <1>1, <3>2, <3>3
  <2>3. CASE y = pc
    <3>1. j # pc
      <4>1. j <= x
        BY <2>1 DEF TextInv
      <4> QED
        BY <2>0, <2>1, <4>1
    <3>2. j \in Pasted(prog[pc])
      BY <1>2, <2>3, <3>1 DEF WorkChange
    <3>3. PICK z \in TrackedBy(prog[pc]) : z \in Works /\ z < pc /\ j \in text[z]
      BY <1>1, <3>2, PastedIsTracked
    <3>4. CASE z = x
      BY <1>1, <1>2, <2>3, <3>3, <3>4
    <3>5. CASE x < z
      <4>1. PICK r \in Works : r <= z /\ x \in TrackedBy(prog[r]) /\ j \in text[r]
        BY <2>1, <3>3, <3>5 DEF NestedInv
      <4>2. r < pc /\ r # pc /\ r <= y /\ r \in Pos
        BY <1>1, <2>0, <2>3, <3>3, <4>1
      <4>3. text'[r] = text[r]
        BY <1>1, <4>2
      <4> QED
        BY <4>1, <4>2, <4>3
    <3>6. CASE z < x
      <4>1. PICK r \in Works : r <= x /\ z \in TrackedBy(prog[r]) /\ j \in text[r]
        BY <2>1, <3>3, <3>6 DEF NestedInv
      <4>2. r < pc /\ r \in Counting
        <5>1. r \in Int /\ r \in Counting /\ x \in Int /\ pc \in Int
          BY <2>0
        <5> QED
          BY <2>1, <4>1, <5>1
      <4>3. z \in used
        BY <4>1, <4>2 DEF CountInv
      <4>4. z \notin track_expression_read(prog[pc])
        BY <1>1, <1>2, <2>3 DEF WorkChange
      <4> QED
        BY <3>3, <4>3, <4>4 DEF track_expression_read
    <3>7. z = x \/ x < z \/ z < x
      <4>1. z \in Int /\ x \in Int
        BY <2>0, <3>3
      <4> QED
        BY <4>1
    <3> QED
      BY <3>4, <3>5, <3>6, <3>7
  <2> QED
    BY <2>2, <2>3
<1>3. ASSUME NEW x \in Works, NEW y \in Works, NEW r \in Works, NEW j \in Works,
             j \in text'[y], r <= y
      PROVE  TrackedBy(prog[r])' = TrackedBy(prog[r])
  <2>0. y \in Int /\ r \in Int /\ pc \in Int /\ y \in Pos /\ r \in DOMAIN prog
    BY <1>1
  <2>1. y <= pc
    BY <1>1, <1>3, <2>0
  <2>2. r <= pc
    BY <1>3, <2>0, <2>1
  <2> QED
    BY <1>1, <2>0, <2>2
<1> QED
  BY <1>1, <1>2, <1>3 DEF NestedInv

LEMMA StatementStep ==
  ASSUME TypeInv, TrackInv, TextInv, StatementInv, WorkChange
  PROVE  StatementInv'
<1>1. /\ prog' = prog /\ pc' = pc + 1 /\ pc \in DOMAIN prog /\ Works' = Works /\ Counting' = Counting
      /\ pc \in Int /\ Works \subseteq Pos /\ Pos \subseteq Int /\ Counting \subseteq DOMAIN prog
      /\ \A i \in DOMAIN prog : i <= pc => TrackedBy(prog[i])' = TrackedBy(prog[i])
      /\ \A x \in Pos : x # pc => text'[x] = text[x]
      /\ \A i \in DOMAIN prog : i <= pc => \A x \in TrackedBy(prog[i]) : x \in Works /\ x # pc
  BY WorkStepFacts
<1>2. ASSUME NEW j \in Works, NEW i \in Pos, <<j, i>> \in out', prog[i].op # "load"
      PROVE  /\ i <= pc /\ i \in Counting /\ text'[i] = {}
             /\ j = i \/ \E x \in TrackedBy(prog[i]) : j \in text'[x]
  <2>1. CASE <<j, i>> \in out
    <3>1. /\ i < pc /\ i \in Counting /\ text[i] = {}
          /\ j = i \/ \E x \in TrackedBy(prog[i]) : j \in text[x]
      BY <1>2, <2>1 DEF StatementInv
    <3>2. i <= pc /\ i # pc /\ i \in DOMAIN prog
      BY <1>1, <3>1
    <3>3. \A x \in TrackedBy(prog[i]) : text'[x] = text[x]
      BY <1>1, <3>2
    <3> QED
      BY <1>1, <3>1, <3>2, <3>3
  <2>2. CASE <<j, i>> \notin out
    <3>1. i = pc /\ j \in Pasted(prog[pc]) \cup {pc}
      BY <1>2, <2>2 DEF WorkChange
    <3>2. pc \in Counting /\ text'[pc] = {}
      BY <1>2, <2>2, <3>1 DEF WorkChange
    <3>3. CASE j # pc
      <4>1. PICK y \in TrackedBy(prog[pc]) : y \in Works /\ y < pc /\ j \in text[y]
        BY <1>1, <3>1, <3>3, PastedIsTracked
      <4> QED
        BY <1>1, <3>1, <3>2, <4>1
    <3> QED
      BY <1>1, <3>1, <3>2, <3>3
  <2> QED
    BY <2>1, <2>2
<1>3. ASSUME NEW j \in Works, NEW i \in Pos, <<j, i>> \in out' PROVE i < pc + 1
  BY <1>1, <1>3 DEF StatementInv, WorkChange
<1>4. \A i \in Counting : i <= pc => TrackedBy(prog[i])' = TrackedBy(prog[i])
  BY <1>1
<1> QED
  BY <1>1, <1>2, <1>3, <1>4 DEF StatementInv

LEMMA WorkStep ==
  ASSUME WorkInv, TypeInv', LoopsNest(prog), ResultsStayOutOfOtherLoops(prog), WorkChange
  PROVE  WorkInv'
<1>1. /\ TypeInv /\ TrackInv /\ TextInv /\ LevelInv /\ StatementInv
      /\ ~force' => ~force /\ CountInv /\ NestedInv
  BY DEF WorkInv, WorkChange
<1>2. TrackInv' /\ TextInv' /\ LevelInv' /\ StatementInv'
  BY <1>1, TrackStep, TextStep, LevelStep, StatementStep
<1>3. ~force' => CountInv' /\ NestedInv'
  BY <1>1, CountStep, NestedStep
<1>4. phase' # "done"
  BY DEF WorkChange
<1> QED
  BY <1>2, <1>3, <1>4 DEF WorkInv

\* The next instruction has no text, and its tables are empty.
LEMMA Ahead ==
  ASSUME WorkInv, NEW o, At(o), Advance
  PROVE  /\ pc \in DOMAIN prog /\ pc \in Pos /\ prog[pc].op = o
         /\ pc' = pc + 1 /\ prog' = prog /\ phase' # "done"
         /\ text[pc] = {} /\ tracks[pc] = {}
         /\ pc \in Works <=> o \in {"arith", "call"}
         /\ pc \in Counting <=> o \in {"arith", "call", "store", "image_write", "phi", "branch"}
<1>1. pc \in DOMAIN prog /\ prog[pc].op = o /\ pc' = pc + 1 /\ prog' = prog /\ phase' # "done"
  BY DEF At, Advance
<1>2. pc \in Pos /\ pc \in Int
  BY <1>1, BodyFacts DEF WorkInv, TypeInv
<1>3. text[pc] = {} /\ tracks[pc] = {}
  BY <1>2 DEF WorkInv, TrackInv
<1> QED
  BY <1>1, <1>2, <1>3 DEF Works, Counting

\* What a new expression does to the tables.
LEMMA NewExpressionShape ==
  ASSUME TypeInv, pc \in Pos, NEW counted, NEW variable, NewExpression(counted, variable)
  PROVE  /\ \A e \in Pos : e # pc => tracks'[e] = tracks[e] /\ emitted_level'[e] = emitted_level[e]
         /\ tracks'[pc] = counted /\ emitted_level'[pc] = level
  BY DEF NewExpression, TypeInv, TypeOK

\* What is read is counted, and in a pass which is kept it was not read before.
LEMMA ReadsOnce ==
  ASSUME NEW ins, NEW ids, NEW recompile,
         force_temporary_and_recompile(ids \cup track_expression_read(ins), recompile)
  PROVE  ~force' => ~force /\ track_expression_read(ins) = {}
  BY DEF force_temporary_and_recompile

\* A statement without a result.
LEMMA StatementChange ==
  ASSUME WorkInv, NEW o, At(o), o \in {"store", "image_write", "phi", "branch"}, Advance, NoResult,
         statement(Pasted(prog[pc])), used' = used \cup TrackedBy(prog[pc]), level' = level,
         NEW ids, NEW recompile,
         force_temporary_and_recompile(ids \cup track_expression_read(prog[pc]), recompile)
  PROVE  WorkChange
<1>1. /\ pc \in DOMAIN prog /\ pc \in Pos /\ prog[pc].op = o
      /\ pc' = pc + 1 /\ prog' = prog /\ phase' # "done"
      /\ text[pc] = {} /\ tracks[pc] = {} /\ pc \notin Works /\ pc \in Counting
  BY Ahead
<1>2. /\ text' = text /\ tracks' = tracks /\ emitted_level' = emitted_level
      /\ forwarded' = forwarded /\ suppressed' = suppressed
  BY DEF NoResult, expressions
<1>3. pc \notin forwarded
  <2>1. pc \in Int /\ forwarded \subseteq 1 .. (pc - 1)
    BY <1>1, BodyFacts DEF WorkInv, TypeInv, TrackInv
  <2> QED
    BY <2>1
<1>4. ~force' => ~force /\ track_expression_read(prog[pc]) = {}
  BY ReadsOnce
<1>5. out' \subseteq out \cup ((Pasted(prog[pc]) \cup {pc}) \X {pc})
  BY StatementShape
<1>6. level' = level + 0
  BY DEF WorkInv, TypeInv, TypeOK
<1>7. level' = level + (CASE prog[pc].op = "loop" -> 1 [] prog[pc].op = "end_loop" -> -1 [] OTHER -> 0)
  BY <1>1, <1>6
<1> QED
  BY <1>1, <1>2, <1>3, <1>4, <1>5, <1>7 DEF WorkChange

LEMMA OpLoadChange == WorkInv /\ OpLoad => WorkChange
<1> SUFFICES ASSUME WorkInv, OpLoad PROVE WorkChange
  OBVIOUS
<1> DEFINE ins == prog[pc]
           forward == /\ pc \notin forced
                      /\ \A c \in Ids(ins) : should_forward(c)
                      /\ CanForward(ins)
<1>1. /\ pc \in DOMAIN prog /\ pc \in Pos /\ ins.op = "load"
      /\ pc' = pc + 1 /\ prog' = prog /\ phase' # "done"
      /\ pc \notin Works /\ pc \notin Counting
  BY Ahead DEF OpLoad
<1>2. /\ emit_op(Pasted(ins) \cup {pc}, forward, TRUE)
      /\ NewExpression({pc} \cup (IF forward THEN UNION {tracks[c] : c \in Ids(ins)} ELSE {}), ins.ptr.var)
      /\ used' = used /\ level' = level
      /\ force_temporary_and_recompile(handle_invalid_expression(Ids(ins), invalid), FALSE)
  BY DEF OpLoad
<1> HIDE DEF forward
<1>3. /\ \A e \in Pos : e # pc => text'[e] = text[e]
      /\ text'[pc] = IF forward THEN Pasted(ins) \cup {pc} ELSE {}
      /\ out' \subseteq out \cup ((Pasted(ins) \cup {pc}) \X {pc})
  BY <1>1, <1>2 DEF WorkInv, TypeInv, TypeOK, emit_op, statement
<1>4. /\ forwarded' = IF forward THEN forwarded \cup {pc} ELSE forwarded
      /\ suppressed' = IF forward THEN suppressed \cup {pc} ELSE suppressed
  BY <1>2 DEF emit_op
<1>5. /\ \A e \in Pos : e # pc => tracks'[e] = tracks[e] /\ emitted_level'[e] = emitted_level[e]
      /\ tracks'[pc] = {pc} \cup (IF forward THEN UNION {tracks[c] : c \in Ids(ins)} ELSE {})
  BY <1>1, <1>2, NewExpressionShape DEF WorkInv
<1>6. ~force' => ~force
  BY <1>2, ForceGrows
<1>7. pc \notin forwarded
  <2>1. pc \in Int /\ forwarded \subseteq 1 .. (pc - 1)
    BY <1>1, BodyFacts DEF WorkInv, TypeInv, TrackInv
  <2> QED
    BY <2>1
<1>8. level' = level + (CASE ins.op = "loop" -> 1 [] ins.op = "end_loop" -> -1 [] OTHER -> 0)
  <2>1. level' = level + 0
    BY <1>2 DEF WorkInv, TypeInv, TypeOK
  <2> QED
    BY <1>1, <2>1
<1> QED
  BY <1>1, <1>2, <1>3, <1>4, <1>5, <1>6, <1>7, <1>8 DEF WorkChange

LEMMA OpAccessChainChange == WorkInv /\ OpAccessChain => WorkChange
<1> SUFFICES ASSUME WorkInv, OpAccessChain PROVE WorkChange
  OBVIOUS
<1> DEFINE ins == prog[pc]
           inherits == pc \notin forced
<1>1. /\ pc \in DOMAIN prog /\ pc \in Pos /\ ins.op = "chain"
      /\ pc' = pc + 1 /\ prog' = prog /\ phase' # "done"
      /\ pc \notin Works /\ pc \notin Counting
  BY Ahead DEF OpAccessChain
<1>2. /\ text' = [text EXCEPT ![pc] = Pasted(ins) \cup {pc}]
      /\ forwarded' = IF inherits /\ Ids(ins) # {} THEN forwarded \cup {pc} ELSE forwarded
      /\ suppressed' = suppressed \cup {pc}
      /\ NewExpression(UNION {tracks[a] : a \in Ids(ins)}, ins.ptr.var)
      /\ used' = used /\ level' = level /\ out' = out
      /\ force_temporary_and_recompile(handle_invalid_expression(Ids(ins), invalid), FALSE)
  BY DEF OpAccessChain
<1> HIDE DEF inherits
<1>3. /\ \A e \in Pos : e # pc => text'[e] = text[e]
      /\ text'[pc] = Pasted(ins) \cup {pc}
  BY <1>1, <1>2 DEF WorkInv, TypeInv, TypeOK
<1>5. /\ \A e \in Pos : e # pc => tracks'[e] = tracks[e] /\ emitted_level'[e] = emitted_level[e]
      /\ tracks'[pc] = UNION {tracks[a] : a \in Ids(ins)}
  BY <1>1, <1>2, NewExpressionShape DEF WorkInv
<1>6. ~force' => ~force
  BY <1>2, ForceGrows
<1>8. level' = level + (CASE ins.op = "loop" -> 1 [] ins.op = "end_loop" -> -1 [] OTHER -> 0)
  <2>1. level' = level + 0
    BY <1>2 DEF WorkInv, TypeInv, TypeOK
  <2> QED
    BY <1>1, <2>1
<1> QED
  BY <1>1, <1>2, <1>3, <1>5, <1>6, <1>8 DEF WorkChange

\* Arithmetic and calls.
LEMMA ValueChange ==
  ASSUME WorkInv, NEW o, At(o), o \in {"arith", "call"}, Advance, NEW forward, NEW variable,
         emit_op(Pasted(prog[pc]) \cup {pc}, forward, FALSE), NewExpression({pc}, variable),
         used' = used \cup TrackedBy(prog[pc]), level' = level,
         NEW ids, NEW recompile,
         force_temporary_and_recompile(ids \cup track_expression_read(prog[pc]), recompile)
  PROVE  WorkChange
<1> DEFINE ins == prog[pc]
<1>1. /\ pc \in DOMAIN prog /\ pc \in Pos /\ ins.op = o
      /\ pc' = pc + 1 /\ prog' = prog /\ phase' # "done"
      /\ pc \in Works /\ pc \in Counting
  BY Ahead
<1>3. /\ \A e \in Pos : e # pc => text'[e] = text[e]
      /\ text'[pc] = IF forward THEN Pasted(ins) \cup {pc} ELSE {}
      /\ out' \subseteq out \cup ((Pasted(ins) \cup {pc}) \X {pc})
  BY <1>1 DEF WorkInv, TypeInv, TypeOK, emit_op, statement
<1>4. /\ forwarded' = IF forward THEN forwarded \cup {pc} ELSE forwarded
      /\ suppressed' = suppressed /\ (forward => out' = out)
  BY DEF emit_op
<1>5. /\ \A e \in Pos : e # pc => tracks'[e] = tracks[e] /\ emitted_level'[e] = emitted_level[e]
      /\ tracks'[pc] = {pc} /\ emitted_level'[pc] = level
  BY <1>1, NewExpressionShape DEF WorkInv
<1>6. ~force' => ~force /\ track_expression_read(ins) = {}
  BY ReadsOnce
<1>8. level' = level + (CASE ins.op = "loop" -> 1 [] ins.op = "end_loop" -> -1 [] OTHER -> 0)
  <2>1. level' = level + 0
    BY DEF WorkInv, TypeInv, TypeOK
  <2> QED
    BY <1>1, <2>1
<1> QED
  BY <1>1, <1>3, <1>4, <1>5, <1>6, <1>8 DEF WorkChange

\* Barriers and the ends of loops.
LEMMA MarkerChange ==
  ASSUME WorkInv, NEW o, At(o), o \in {"barrier", "loop", "end_loop"}, Advance, NoResult,
         force' = force, used' = used, out' = out,
         level' = level + (CASE o = "loop" -> 1 [] o = "end_loop" -> -1 [] OTHER -> 0)
  PROVE  WorkChange
<1>1. /\ pc \in DOMAIN prog /\ pc \in Pos /\ prog[pc].op = o
      /\ pc' = pc + 1 /\ prog' = prog /\ phase' # "done"
      /\ text[pc] = {} /\ tracks[pc] = {} /\ pc \notin Works /\ pc \notin Counting
  BY Ahead
<1>2. /\ text' = text /\ tracks' = tracks /\ emitted_level' = emitted_level
      /\ forwarded' = forwarded /\ suppressed' = suppressed
  BY DEF NoResult, expressions
<1>3. pc \notin forwarded
  <2>1. pc \in Int /\ forwarded \subseteq 1 .. (pc - 1)
    BY <1>1, BodyFacts DEF WorkInv, TypeInv, TrackInv
  <2> QED
    BY <2>1
<1>4. level' = level + (CASE prog[pc].op = "loop" -> 1 [] prog[pc].op = "end_loop" -> -1 [] OTHER -> 0)
  BY <1>1
<1> QED
  BY <1>1, <1>2, <1>3, <1>4 DEF WorkChange

\* What a pass starts with.
PassBegins ==
  /\ phase # "done" /\ pc = 1 /\ level = 0 /\ forwarded = {} /\ suppressed = {}
  /\ text = NoIds /\ tracks = NoIds /\ out = {}

LEMMA WorkInitially == TypeInv /\ PassBegins => WorkInv
<1> SUFFICES ASSUME TypeInv, PassBegins PROVE WorkInv
  OBVIOUS
<1> USE DEF PassBegins
<1>1. /\ prog \in Programs /\ Pos \subseteq Int /\ DOMAIN prog \subseteq Pos
      /\ \A a \in Pos : a \in Int /\ a >= 1
  BY BodyFacts DEF TypeInv, Pos
<1>2. Loops(prog, 1) = {}
  <2>1. ASSUME NEW b \in DOMAIN prog PROVE ~(b < 1)
    <3>1. b \in Int /\ b >= 1
      BY <1>1
    <3> QED
      BY <3>1
  <2> QED
    BY <2>1 DEF Loops
<1>3. \A a \in Pos : text[a] = {} /\ tracks[a] = {} /\ ~(a < pc)
  BY <1>1 DEF NoIds
<1>4. TrackInv
  BY <1>3 DEF TrackInv
<1>5. Works \subseteq Pos /\ Counting \subseteq Pos
  BY <1>1 DEF Works, Counting
<1>6. TextInv /\ StatementInv /\ NestedInv
  BY <1>3, <1>5 DEF TextInv, StatementInv, NestedInv
<1>7. LevelInv
  BY <1>2, <1>3, <1>5, FS_EmptySet DEF LevelInv
<1>8. CountInv
  BY <1>3, <1>5 DEF CountInv
<1> QED
  BY <1>4, <1>6, <1>7, <1>8 DEF WorkInv

\* The loops of the body nest, and what is computed in one is not used in another
\* one behind it.
WorkStaysInLoops(p) == LoopsNest(p) /\ ResultsStayOutOfOtherLoops(p)

\* A step emits an instruction, or starts another pass, or ends the passes.
Halts ==
  /\ UNCHANGED <<prog, pc, force, tables, expressions, out>>
  /\ phase' = "done" => ~force

LEMMA WorkSteps ==
  ASSUME WorkInv, [Next]_vars
  PROVE  WorkChange \/ PassBegins' \/ Halts
<1>1. CASE OpLoad
  BY <1>1, OpLoadChange
<1>2. CASE OpAccessChain
  BY <1>2, OpAccessChainChange
<1>3. CASE OpArithmetic
  <2> DEFINE forward == pc \notin forced /\ \A a \in Ids(prog[pc]) : should_forward(a)
             invalidRead == handle_invalid_expression(Ids(prog[pc]), invalid)
  <2>1. /\ At("arith") /\ Advance /\ used' = used \cup TrackedBy(prog[pc]) /\ level' = level
        /\ NewExpression({pc}, NoVar)
        /\ emit_op(Pasted(prog[pc]) \cup {pc}, forward, FALSE)
        /\ force_temporary_and_recompile(invalidRead \cup track_expression_read(prog[pc]), FALSE)
    BY <1>3 DEF OpArithmetic
  <2> HIDE DEF forward, invalidRead
  <2>2. WorkChange
    BY <2>1, ValueChange
  <2> QED
    BY <2>2
<1>4. CASE OpFunctionCall
  <2> DEFINE ins == prog[pc]
             written == (IF ins.fn.writes_arg THEN register_write(ins.ptr) ELSE {})
                          \cup (IF ins.fn.pure THEN {} ELSE register_impure_function_call)
             forward == /\ pc \notin forced /\ CanForward(ins)
                        /\ \A a \in Ids(ins) : should_forward(a)
             invalidRead == handle_invalid_expression(Ids(ins), invalid \cup Dependees(written))
             recompile == ins.fn.writes_arg /\ ParameterWritten(ins.ptr)
             variable == LastBackingVariable(ins)
  <2>1. /\ At("call") /\ Advance /\ used' = used \cup TrackedBy(ins) /\ level' = level
        /\ NewExpression({pc}, variable)
        /\ emit_op(Pasted(ins) \cup {pc}, forward, FALSE)
        /\ force_temporary_and_recompile(invalidRead \cup track_expression_read(ins), recompile)
    BY <1>4 DEF OpFunctionCall
  <2> HIDE DEF written, forward, invalidRead, recompile, variable
  <2>2. WorkChange
    BY <2>1, ValueChange
  <2> QED
    BY <2>2
<1>5. CASE OpStore
  <2> DEFINE invalidRead == handle_invalid_expression(Ids(prog[pc]), invalid)
             recompile == ParameterWritten(prog[pc].ptr)
  <2>1. /\ At("store") /\ Advance /\ NoResult /\ used' = used \cup TrackedBy(prog[pc]) /\ level' = level
        /\ statement(Pasted(prog[pc]))
        /\ force_temporary_and_recompile(invalidRead \cup track_expression_read(prog[pc]), recompile)
    BY <1>5 DEF OpStore
  <2> HIDE DEF invalidRead, recompile
  <2>2. WorkChange
    BY <2>1, StatementChange
  <2> QED
    BY <2>2
<1>6. CASE OpImageWrite
  <2> DEFINE invalidRead == handle_invalid_expression(Ids(prog[pc]), invalid)
  <2>1. /\ At("image_write") /\ Advance /\ NoResult /\ used' = used \cup TrackedBy(prog[pc]) /\ level' = level
        /\ statement(Pasted(prog[pc]))
        /\ force_temporary_and_recompile(invalidRead \cup track_expression_read(prog[pc]), FALSE)
    BY <1>6 DEF OpImageWrite
  <2> HIDE DEF invalidRead
  <2>2. WorkChange
    BY <2>1, StatementChange
  <2> QED
    BY <2>2
<1>7. CASE FlushPhi
  <2> DEFINE invalidRead == handle_invalid_expression(Ids(prog[pc]), invalid)
  <2>1. /\ At("phi") /\ Advance /\ NoResult /\ used' = used \cup TrackedBy(prog[pc]) /\ level' = level
        /\ statement(Pasted(prog[pc]))
        /\ force_temporary_and_recompile(invalidRead \cup track_expression_read(prog[pc]), FALSE)
    BY <1>7 DEF FlushPhi
  <2> HIDE DEF invalidRead
  <2>2. WorkChange
    BY <2>1, StatementChange
  <2> QED
    BY <2>2
<1>8. CASE Branch
  <2> DEFINE invalidRead == handle_invalid_expression(Ids(prog[pc]), invalid)
  <2>1. /\ At("branch") /\ Advance /\ NoResult /\ used' = used \cup TrackedBy(prog[pc]) /\ level' = level
        /\ statement(Pasted(prog[pc]))
        /\ force_temporary_and_recompile(invalidRead \cup track_expression_read(prog[pc]), FALSE)
    BY <1>8 DEF Branch
  <2> HIDE DEF invalidRead
  <2>2. WorkChange
    BY <2>1, StatementChange
  <2> QED
    BY <2>2
<1>9. CASE OpControlBarrier \/ BeginLoop \/ EndLoop
  <2>0. level \in Int
    BY DEF WorkInv, TypeInv, TypeOK
  <2>1. PICK o \in {"barrier", "loop", "end_loop"} :
          /\ At(o) /\ Advance /\ NoResult /\ force' = force /\ used' = used /\ out' = out
          /\ level' = level + (CASE o = "loop" -> 1 [] o = "end_loop" -> -1 [] OTHER -> 0)
    BY <1>9, <2>0 DEF OpControlBarrier, BeginLoop, EndLoop
  <2>2. WorkChange
    BY <2>1, MarkerChange
  <2> QED
    BY <2>2
<1>10. CASE Recompile
  <2>1. CASE phase' = "thrown"
    <3>1. Halts
      BY <1>10, <2>1 DEF Recompile, Halts
    <3> QED
      BY <3>1
  <2>2. CASE phase' # "thrown"
    <3>1. PassBegins'
      BY <1>10, <2>2 DEF Recompile, PassBegins, NoIds
    <3> QED
      BY <3>1
  <2> QED
    BY <2>1, <2>2
<1>11. CASE Finish \/ UNCHANGED vars
  <2>1. Halts
    BY <1>11 DEF Finish, vars, WorkInv, Halts
  <2> QED
    BY <2>1
<1> QED
  BY <1>1, <1>2, <1>3, <1>4, <1>5, <1>6, <1>7, <1>8, <1>9, <1>10, <1>11 DEF Next

LEMMA WorkPreserved ==
  ASSUME \A p \in Programs : WorkStaysInLoops(p)
  PROVE  WorkInv /\ [Next]_vars => WorkInv'
<1> SUFFICES ASSUME WorkInv, [Next]_vars PROVE WorkInv'
  OBVIOUS
<1>0. TypeInv /\ TypeInv' /\ LoopsNest(prog) /\ ResultsStayOutOfOtherLoops(prog)
  BY TypePreserved DEF WorkInv, TypeInv, WorkStaysInLoops
<1>1. CASE WorkChange
  BY <1>0, <1>1, WorkStep
<1>2. CASE PassBegins'
  <2>1. TypeInv' /\ PassBegins' => WorkInv'
    BY WorkInitially, PTL
  <2> QED
    BY <1>0, <1>2, <2>1
<1>3. CASE Halts
  BY <1>0, <1>3 DEF Halts, WorkInv, TrackInv, TextInv, LevelInv, CountInv, NestedInv, StatementInv,
                    PassedOn, Tracked, TrackedBy, Works, Counting, tables, expressions
<1> QED
  BY <1>1, <1>2, <1>3, WorkSteps

LEMMA WorkInvariant ==
  ASSUME \A p \in Programs : WorkStaysInLoops(p)
  PROVE  Spec => []WorkInv
<1>1. Init => WorkInv
  BY TypeInitially, WorkInitially DEF Init, PassBegins
<1> QED
  BY <1>1, WorkPreserved, PTL DEF Spec

\* What a statement other than a load writes out is written by no other such
\* statement, and in no loop it is not part of.
LEMMA WrittenByOne ==
  ASSUME WorkInv, ~force, NEW j \in Works,
         NEW h \in Pos, <<j, h>> \in out, prog[h].op # "load",
         NEW i \in Pos, <<j, i>> \in out, prog[i].op # "load"
  PROVE  h = i /\ Loops(prog, i) \subseteq Loops(prog, j)
<1>1. /\ CountInv /\ NestedInv /\ TextInv /\ TrackInv
      /\ h < pc /\ h \in Counting /\ text[h] = {} /\ i < pc /\ i \in Counting /\ text[i] = {}
      /\ j = h \/ \E x \in TrackedBy(prog[h]) : j \in text[x]
      /\ j = i \/ \E x \in TrackedBy(prog[i]) : j \in text[x]
  BY DEF WorkInv, StatementInv
<1>2. /\ prog \in Programs /\ Counting \subseteq DOMAIN prog /\ Pos \subseteq Int /\ pc \in Int
      /\ Works \subseteq Pos /\ Works \subseteq Counting
  <2>1. prog \in Programs /\ pc \in Int
    BY DEF WorkInv, TypeInv, TypeOK
  <2> QED
    BY <2>1, BodyFacts DEF Works, Counting
<1>3. ASSUME NEW k \in Counting, k < pc, NEW x \in TrackedBy(prog[k])
      PROVE  x \in Works /\ x < k
  <2>1. PICK a \in Ids(prog[k]) : x \in Tracked(a)
    BY DEF TrackedBy
  <2>2. a \in 1 .. (k - 1) /\ a \in Pos /\ k \in DOMAIN prog /\ k \in Pos
    BY <1>2, Operands
  <2>3. a < pc /\ a < k /\ a \in Int /\ k \in Int
    <3>1. k \in Int /\ a \in Int /\ pc \in Int /\ k < pc
      BY <1>2, <1>3, <2>2
    <3> QED
      BY <2>2, <3>1
  <2>4. x \in 1 .. a /\ x \in forwarded /\ x \notin suppressed
    BY <1>1, <2>1, <2>2, <2>3 DEF TrackInv, Tracked
  <2> QED
    BY <1>1, <2>3, <2>4 DEF TrackInv
<1>4. Loops(prog, i) \subseteq Loops(prog, j)
  <2>1. ASSUME NEW x \in TrackedBy(prog[i]), j \in text[x] PROVE Loops(prog, i) \subseteq Loops(prog, j)
    BY <1>1, <1>3, <2>1 DEF CountInv
  <2> QED
    BY <1>1, <2>1
<1>5. h = i
  <2>1. CASE j = h \/ j = i
    <3>1. text[j] = {}
      BY <1>1, <2>1
    <3>2. ASSUME NEW k \in Counting, k < pc, NEW x \in TrackedBy(prog[k]), j \in text[x] PROVE FALSE
      BY <1>1, <1>3, <3>1, <3>2 DEF TextInv
    <3> QED
      BY <1>1, <3>2
  <2>2. CASE j # h /\ j # i
    <3>1. PICK x \in TrackedBy(prog[h]) : j \in text[x]
      BY <1>1, <2>2
    <3>2. PICK y \in TrackedBy(prog[i]) : j \in text[y]
      BY <1>1, <2>2
    <3>3. x \in Works /\ x < h /\ y \in Works /\ y < i
      BY <1>1, <1>3, <3>1, <3>2
    <3>4. CASE x = y
      BY <1>1, <3>1, <3>2, <3>4 DEF CountInv
    <3>5. ASSUME NEW k \in Counting, k < pc, text[k] = {}, NEW u \in TrackedBy(prog[k]), j \in text[u], u \in Works,
                 NEW v \in Works, v < pc, j \in text[v], u < v
          PROVE  FALSE
      <4>1. PICK r \in Works : r <= v /\ u \in TrackedBy(prog[r]) /\ j \in text[r]
        BY <1>1, <3>5 DEF NestedInv
      <4>2. r < pc /\ r \in Counting
        BY <1>2, <3>5, <4>1
      <4>3. r = k
        BY <1>1, <3>5, <4>1, <4>2 DEF CountInv
      <4> QED
        BY <3>5, <4>1, <4>3
    <3>6. x \in Int /\ y \in Int /\ h \in Int /\ i \in Int /\ x < pc /\ y < pc
      BY <1>1, <1>2, <3>3
    <3>7. CASE x < y
      BY <1>1, <3>1, <3>2, <3>3, <3>5, <3>6, <3>7
    <3>8. CASE y < x
      BY <1>1, <3>1, <3>2, <3>3, <3>5, <3>6, <3>8
    <3> QED
      BY <3>4, <3>6, <3>7, <3>8
  <2> QED
    BY <2>1, <2>2
<1> QED
  BY <1>4, <1>5

LEMMA AtMostOne ==
  ASSUME NEW S, \A x, y \in S : x = y
  PROVE  Cardinality(S) <= 1
<1>1. CASE S = {}
  BY <1>1, FS_EmptySet
<1>2. CASE S # {}
  <2>1. PICK x \in S : S = {x}
    BY <1>2
  <2> QED
    BY <2>1, FS_Singleton
<1> QED
  BY <1>1, <1>2

\* Whatever a body computes is written out once, and in no loop it is not part
\* of, by the statements which count what they read; a load which is a temporary
\* does not count the indices of its access chain, and may compute them again.
LoadsExceptedNoRepeatedWork ==
  phase = "done" =>
    \A j \in Works :
      /\ Cardinality({i \in Pos : <<j, i>> \in out /\ prog[i].op # "load"}) <= 1
      /\ \A i \in Pos : <<j, i>> \in out /\ prog[i].op # "load" =>
            ~\E b \in DOMAIN prog : prog[b].op = "loop" /\ j < b /\ b < i /\ i <= prog[b].to

LEMMA OutsideOfLoops ==
  ASSUME prog \in Programs, NEW j \in Works, NEW i, Loops(prog, i) \subseteq Loops(prog, j)
  PROVE  ~\E b \in DOMAIN prog : prog[b].op = "loop" /\ j < b /\ b < i /\ i <= prog[b].to
<1> SUFFICES ASSUME NEW b \in DOMAIN prog, prog[b].op = "loop", j < b, b < i, i <= prog[b].to
             PROVE  FALSE
  OBVIOUS
<1>1. b < j
  BY DEF Loops
<1>2. b \in Int /\ j \in Int
  BY BodyFacts DEF Works
<1> QED
  BY <1>1, <1>2

\* track_expression_read() turns work which is read twice, or read at a deeper
\* loop level, into a temporary: in the code compile() returns no statement other
\* than a load computes anything again.
THEOREM OnlyLoadsRepeatWork ==
  ASSUME \A p \in Programs : WorkStaysInLoops(p)
  PROVE  Spec => []LoadsExceptedNoRepeatedWork
<1>1. WorkInv => LoadsExceptedNoRepeatedWork
  <2> SUFFICES ASSUME WorkInv, phase = "done", NEW j \in Works
               PROVE  /\ Cardinality({i \in Pos : <<j, i>> \in out /\ prog[i].op # "load"}) <= 1
                      /\ \A i \in Pos : <<j, i>> \in out /\ prog[i].op # "load" =>
                           ~\E b \in DOMAIN prog : prog[b].op = "loop" /\ j < b /\ b < i /\ i <= prog[b].to
    BY DEF LoadsExceptedNoRepeatedWork
  <2> DEFINE S == {i \in Pos : <<j, i>> \in out /\ prog[i].op # "load"}
  <2>1. ~force /\ prog \in Programs
    BY DEF WorkInv, TypeInv
  <2>2. \A h, i \in S : h = i /\ Loops(prog, i) \subseteq Loops(prog, j)
    BY <2>1, WrittenByOne
  <2>3. Cardinality(S) <= 1
    BY <2>2, AtMostOne
  <2>4. \A i \in S : ~\E b \in DOMAIN prog : prog[b].op = "loop" /\ j < b /\ b < i /\ i <= prog[b].to
    BY <2>1, <2>2, OutsideOfLoops
  <2> QED
    BY <2>3, <2>4
<1> QED
  BY <1>1, WorkInvariant, PTL

\* Where the indices are loaded values, loads and access chains compute nothing.
IndexInv ==
  /\ \A a \in DOMAIN prog : prog[a].op \in {"load", "chain"} => text[a] \cap Works = {}
  /\ \A j, i \in Pos : <<j, i>> \in out /\ prog[i].op = "load" => j \notin Works

LEMMA OperandsInBody ==
  ASSUME NEW p \in Programs, NEW i \in DOMAIN p
  PROVE  Ids(p[i]) \subseteq DOMAIN p
<1>1. DOMAIN p = 1 .. Len(p) /\ Len(p) \in Int /\ i \in Int
  BY BodyFacts
<1> QED
  BY <1>1, Operands

LEMMA IndexPreserved ==
  ASSUME \A p \in Programs : IndicesAreLoaded(p)
  PROVE  WorkInv /\ IndexInv /\ [Next]_vars => IndexInv'
<1> SUFFICES ASSUME WorkInv, IndexInv, [Next]_vars PROVE IndexInv'
  OBVIOUS
<1>0. prog \in Programs /\ IndicesAreLoaded(prog) /\ TypeInv
  BY DEF WorkInv, TypeInv
<1>1. CASE WorkChange
  <2>1. /\ prog' = prog /\ pc \in DOMAIN prog /\ Works' = Works
        /\ \A a \in Pos : a # pc => text'[a] = text[a]
        /\ text'[pc] \subseteq Pasted(prog[pc]) \cup {pc}
        /\ out' \subseteq out \cup ((Pasted(prog[pc]) \cup {pc}) \X {pc})
    BY <1>1 DEF WorkChange, Works
  <2>2. ASSUME prog[pc].op \in {"load", "chain"}
        PROVE  (Pasted(prog[pc]) \cup {pc}) \cap Works = {}
    <3>1. ASSUME NEW a \in Ids(prog[pc]) PROVE a \in DOMAIN prog /\ prog[a].op \in {"load", "chain"}
      <4>1. CASE \E k \in DOMAIN prog[pc].args : a = prog[pc].args[k]
        <5>1. prog[a].op = "load"
          BY <1>0, <2>1, <2>2, <4>1 DEF IndicesAreLoaded
        <5> QED
          BY <1>0, <2>1, <3>1, <5>1, OperandsInBody
      <4>2. CASE a = prog[pc].via /\ a # 0
        <5>1. InstructionOK(prog, pc)
          BY <1>0, <2>1, Operands
        <5>2. prog[a].op = "chain"
          BY <4>2, <5>1 DEF InstructionOK
        <5> QED
          BY <1>0, <2>1, <3>1, <5>2, OperandsInBody
      <4> QED
        BY <3>1, <4>1, <4>2 DEF Ids
    <3>2. Pasted(prog[pc]) \cap Works = {}
      BY <3>1 DEF Pasted, IndexInv
    <3>3. pc \notin Works
      BY <2>2 DEF Works
    <3> QED
      BY <3>2, <3>3
  <2>3. ASSUME NEW a \in DOMAIN prog, prog[a].op \in {"load", "chain"} PROVE text'[a] \cap Works = {}
    <3>1. CASE a = pc
      BY <2>1, <2>2, <2>3, <3>1
    <3>2. CASE a # pc
      <4>1. a \in Pos
        BY <1>0, BodyFacts
      <4> QED
        BY <2>1, <2>3, <3>2, <4>1 DEF IndexInv
    <3> QED
      BY <3>1, <3>2
  <2>4. ASSUME NEW j \in Pos, NEW i \in Pos, <<j, i>> \in out', prog[i].op = "load" PROVE j \notin Works
    <3>1. CASE <<j, i>> \in out
      BY <2>4, <3>1 DEF IndexInv
    <3>2. CASE <<j, i>> \notin out
      <4>1. i = pc /\ j \in Pasted(prog[pc]) \cup {pc}
        BY <2>1, <2>4, <3>2
      <4> QED
        BY <2>2, <2>4, <4>1
    <3> QED
      BY <3>1, <3>2
  <2> QED
    BY <2>1, <2>3, <2>4 DEF IndexInv
<1>2. CASE PassBegins'
  <2>1. text' = NoIds /\ out' = {} /\ prog' \in Programs
    <3>1. TypeInv'
      BY <1>0, TypePreserved
    <3> QED
      BY <1>2, <3>1 DEF PassBegins, NoIds, TypeInv
  <2>2. DOMAIN prog' \subseteq Pos
    BY <2>1, BodyFacts
  <2>3. \A a \in DOMAIN prog' : text'[a] = {}
    BY <2>1, <2>2 DEF NoIds
  <2> QED
    BY <2>1, <2>3 DEF IndexInv
<1>3. CASE Halts
  BY <1>3 DEF Halts, IndexInv, Works, expressions
<1> QED
  BY <1>1, <1>2, <1>3, WorkSteps

\* An arithmetic instruction or call whose index no load computes is written out
\* in at most one statement, and in no loop it is not part of.
THEOREM WorkIsNeverRepeated ==
  ASSUME \A p \in Programs : WorkStaysInLoops(p) /\ IndicesAreLoaded(p)
  PROVE  Spec => []NoRepeatedWork
<1>1. WorkInv /\ IndexInv => NoRepeatedWork
  <2> SUFFICES ASSUME WorkInv, IndexInv, phase = "done", NEW j \in Works
               PROVE  /\ Cardinality({i \in Pos : <<j, i>> \in out}) <= 1
                      /\ \A i \in Pos : <<j, i>> \in out =>
                           ~\E b \in DOMAIN prog : prog[b].op = "loop" /\ j < b /\ b < i /\ i <= prog[b].to
    BY DEF NoRepeatedWork, Works
  <2> DEFINE S == {i \in Pos : <<j, i>> \in out}
  <2>1. ~force /\ prog \in Programs /\ j \in Pos
    BY BodyFacts DEF WorkInv, TypeInv, Works
  <2>2. \A i \in S : prog[i].op # "load"
    BY <2>1 DEF IndexInv
  <2>3. \A h, i \in S : h = i /\ Loops(prog, i) \subseteq Loops(prog, j)
    BY <2>1, <2>2, WrittenByOne
  <2>4. Cardinality(S) <= 1
    BY <2>3, AtMostOne
  <2>5. \A i \in S : ~\E b \in DOMAIN prog : prog[b].op = "loop" /\ j < b /\ b < i /\ i <= prog[b].to
    BY <2>1, <2>3, OutsideOfLoops
  <2> QED
    BY <2>4, <2>5
<1>2. Init => IndexInv
  <2> SUFFICES ASSUME Init PROVE IndexInv
    OBVIOUS
  <2>1. prog \in Programs /\ text = NoIds /\ out = {}
    BY DEF Init
  <2>2. \A a \in DOMAIN prog : text[a] = {}
    BY <2>1, BodyFacts DEF NoIds
  <2> QED
    BY <2>1, <2>2 DEF IndexInv
<1>3. Spec => []WorkInv
  BY WorkInvariant
<1>4. WorkInv /\ IndexInv /\ [Next]_vars => IndexInv'
  BY IndexPreserved
<1> QED
  BY <1>1, <1>2, <1>3, <1>4, PTL DEF Spec

===============================================================================
