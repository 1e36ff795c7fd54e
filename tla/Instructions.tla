----------------------------- MODULE Instructions ------------------------------
(***************************************************************************)
(* The instructions of a function body, by what they read and write.       *)
(***************************************************************************)
EXTENDS Integers, FiniteSets, Sequences

CONSTANTS
  Locals,         \* variables of storage class Function
  Params,         \* pointer parameters of the function
  Phis,           \* variables which stand for OpPhi results
  Globals,        \* Private, Output and Workgroup variables: global_variables
  Buffers,        \* storage buffer variables
  Images,         \* storage images, which are UniformConstant variables
  Constants,      \* push constants and uniform blocks: the shader does not write them
  NoVar           \* no backing variable is known

Vars == Locals \cup Params \cup Phis \cup Globals \cup Buffers \cup Images
          \cup Constants

\* A pointer: its backing variable, the memory cell it designates, and whether
\* it points into the PhysicalStorageBuffer storage class.
PointerOK(p) == p.var \in Vars \cup {NoVar} /\ p.psb \in BOOLEAN

\* A callee, by what the caller can observe of it.  reads and writes describe
\* its accesses to module-scope variables; reads_arg and writes_arg those
\* through its pointer argument (writes_arg is write_count # 0).
CalleeOK(f) ==
  /\ {f.pure, f.ctl, f.void, f.reads_arg, f.writes_arg} \subseteq BOOLEAN
  /\ \A r \in f.reads : r.var \in Vars
  /\ f.pure => f.writes = {}

InstructionOK(p, i) ==
  LET ins == p[i] IN
  /\ ins.op \in {"load", "chain", "arith", "store", "call", "image_write",
                 "barrier", "phi", "branch", "loop", "end_loop"}
  /\ PointerOK(ins.ptr) /\ CalleeOK(ins.fn)
  /\ ins.ctl \in BOOLEAN /\ (ins.ctl => ins.op = "arith")
  /\ ins.volatile \in BOOLEAN /\ (ins.volatile => ins.op = "load")
  /\ ins.phis \subseteq Phis
  /\ ins.args \in Seq(1 .. (i - 1))
  /\ \A k \in DOMAIN ins.args : p[ins.args[k]].op \in {"load", "arith", "call"}
  /\ ins.via \in {0} \cup {c \in 1 .. (i - 1) : p[c].op = "chain" /\ p[c].ptr = ins.ptr}
  /\ ins.op = "chain" => ins.ptr.var \in Vars \ Phis
  /\ ins.op = "phi" => ins.ptr.var \in Phis /\ ins.ptr.cell = ins.ptr.var
  /\ ins.op # "phi" => ins.ptr.var \notin Phis

\* What an instruction reads and writes in SPIR-V, independently of the compiler.

Ids(ins) == {ins.args[k] : k \in DOMAIN ins.args}
             \cup (IF ins.via = 0 THEN {} ELSE {ins.via})

\* A load from an image variable reads the handle and no texel.  A call which
\* gets an image has it as its pointer argument, loaded before or not.
ReadCells(ins) ==
  ins.phis
    \cup (IF ins.op = "load" /\ ins.ptr.var \notin Images THEN {ins.ptr.cell} ELSE {})
    \cup (IF ins.op = "call"
          THEN {r.cell : r \in ins.fn.reads}
                 \cup (IF ins.fn.reads_arg THEN {ins.ptr.cell} ELSE {})
          ELSE {})

\* A barrier makes the writes of other invocations visible: it counts as a
\* write of everything they can write.
SharedCells(p) ==
  {p[i].ptr.cell : i \in {j \in DOMAIN p : p[j].ptr.var \in Buffers \cup Images}}

WrittenCells(p, i) ==
  CASE p[i].op \in {"store", "image_write", "phi"} -> {p[i].ptr.cell}
    [] p[i].op = "call" -> p[i].fn.writes
                             \cup (IF p[i].fn.writes_arg THEN {p[i].ptr.cell} ELSE {})
    [] p[i].op = "barrier" -> SharedCells(p)
    [] OTHER -> {}

Clobbers(p, k, j) == WrittenCells(p, k) \cap ReadCells(p[j]) # {}

IsControlDependent(ins) == ins.ctl \/ (ins.op = "call" /\ ins.fn.ctl)
LeavesBlock(ins) == ins.op \in {"branch", "end_loop"}
HasEffect(ins) == ins.op = "call" /\ (~ins.fn.pure \/ ins.fn.writes_arg)
================================================================================
