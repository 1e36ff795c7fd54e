---------------------------- MODULE FunctionBodies ----------------------------
(***************************************************************************)
(* Families of function bodies for the model checking of Forwarding.  Each *)
(* family is the set of all bodies of a given length over a few            *)
(* instructions: the interesting orders of reads, writes and uses all      *)
(* occur in it.  Bodies with dead results are left out.                    *)
(***************************************************************************)
EXTENDS Instructions

CONSTANTS Families   \* <<name, length>> of the families of function bodies checked

\* bufA and bufB are views of one buffer; everything else has its own memory.
Ptr(v) == [var |-> v, cell |-> IF v \in {"bufA", "bufB"} THEN "shared" ELSE v, psb |-> FALSE]
\* The buffer reference held by variable v.
BDA(v) == [var |-> v, cell |-> "address", psb |-> TRUE]

NoCallee == [pure |-> TRUE, ctl |-> FALSE, void |-> TRUE, reads_arg |-> FALSE,
             writes_arg |-> FALSE, reads |-> {}, writes |-> {}]
Function == [NoCallee EXCEPT !.void = FALSE]
Access(v) == [var |-> v, cell |-> Ptr(v).cell]

Instr(o) == [op |-> o, ptr |-> [var |-> NoVar, cell |-> "nothing", psb |-> FALSE],
             via |-> 0, args |-> <<>>, phis |-> {}, fn |-> NoCallee, ctl |-> FALSE, volatile |-> FALSE,
             to |-> 0]

Load(p)       == [Instr("load") EXCEPT !.ptr = p]
Volatile(ins) == [ins EXCEPT !.volatile = TRUE]
Assign(p)     == [Instr("store") EXCEPT !.ptr = p]   \* stores a constant
Store(p, a)   == [Instr("store") EXCEPT !.ptr = p, !.args = <<a>>]
Arith(s)      == [Instr("arith") EXCEPT !.args = s]
OfPhi(v, s)   == [Arith(s) EXCEPT !.phis = {v}]
Derivative(a) == [Arith(<<a>>) EXCEPT !.ctl = TRUE]
Chain(p, a)   == [Instr("chain") EXCEPT !.ptr = p, !.args = <<a>>]
ChainOfPhi(p, v) == [Instr("chain") EXCEPT !.ptr = p, !.phis = {v}]
LoadVia(p, c)     == [Load(p) EXCEPT !.via = c]
StoreVia(p, c, a) == [Store(p, a) EXCEPT !.via = c]
SetPhi(v, a)  == [Instr("phi") EXCEPT !.ptr = Ptr(v), !.args = <<a>>]
BranchOn(a)   == [Instr("branch") EXCEPT !.args = <<a>>]
Call(f, s)    == [Instr("call") EXCEPT !.fn = f, !.args = s]
CallWith(f, p)  == [Instr("call") EXCEPT !.fn = f, !.ptr = p]
ImageClear    == [Instr("image_write") EXCEPT !.ptr = Ptr("image")]   \* writes a constant
ImageWrite(a) == [ImageClear EXCEPT !.args = <<a>>]

ValuesIn(p) ==
  {i \in DOMAIN p : \/ p[i].op \in {"load", "arith"}
                    \/ p[i].op = "call" /\ ~p[i].fn.void}
LoadsIn(p) == {i \in DOMAIN p : p[i].op = "load"}
ChainsIn(p) == {i \in DOMAIN p : p[i].op = "chain"}
Count(p, o) == Cardinality({i \in DOMAIN p : p[i].op = o})

\* The instructions a family allows after the prefix p.
Memory(p) ==
  {Load(Ptr(v)) : v \in {"local", "bufA", "param"}}
    \cup {Store(Ptr(v), a) : v \in {"local", "bufB", "param"}, a \in ValuesIn(p)}
    \cup {Arith(<<a, b>>) : a \in ValuesIn(p), b \in LoadsIn(p)}

Callees ==
  {[Function EXCEPT !.reads = {Access("private")}],
   [Function EXCEPT !.pure = FALSE, !.writes = {Access("private").cell}],
   [Function EXCEPT !.pure = FALSE, !.void = TRUE, !.writes = {Access("bufA").cell}]}
ArgumentCallees ==
  {[Function EXCEPT !.reads_arg = TRUE],
   [Function EXCEPT !.writes_arg = TRUE],
   [NoCallee EXCEPT !.writes_arg = TRUE, !.reads_arg = TRUE]}

Calls(p) ==
  {Load(Ptr(v)) : v \in {"local", "private", "bufB"}}
    \cup {Store(Ptr(v), a) : v \in {"local", "private", "bufB"}, a \in ValuesIn(p)}
    \cup {Call(f, <<>>) : f \in Callees}
    \cup {Call(f, <<a>>) : f \in {[Function EXCEPT !.ctl = TRUE]}, a \in LoadsIn(p)}
    \cup {CallWith(f, Ptr("local")) : f \in ArgumentCallees}
    \cup {CallWith([Function EXCEPT !.reads_arg = TRUE], Ptr("image"))}
    \cup {BranchOn(a) : a \in ValuesIn(p)}

Control(p) ==
  {Load(Ptr("bufA"))}
    \cup {Store(Ptr("local"), a) : a \in ValuesIn(p)}
    \cup {Derivative(a) : a \in ValuesIn(p)}
    \cup {OfPhi("phi", <<>>)}
    \cup {OfPhi("phi", <<a>>) : a \in LoadsIn(p)}
    \cup {SetPhi("phi", a) : a \in ValuesIn(p)}
    \cup {BranchOn(a) : a \in ValuesIn(p)}
    \cup {Instr("barrier")}

\* Dynamic indices of access chains: loaded values and sums of them.
Indexing(p) ==
  {Load(Ptr("local"))}
    \cup {OfPhi("phi", <<>>)}
    \cup {Arith(<<a>>) : a \in ValuesIn(p)}
    \cup {Chain(Ptr("bufA"), a) : a \in ValuesIn(p)}
    \cup {LoadVia(Ptr("bufA"), c) : c \in ChainsIn(p)}
    \cup {StoreVia(Ptr("bufA"), c, a) : c \in ChainsIn(p), a \in ValuesIn(p)}
    \cup {Store(Ptr("local"), a) : a \in ValuesIn(p)}
    \cup {SetPhi("phi", a) : a \in ValuesIn(p)}

References(p) ==
  {Load(Ptr("local")), Load(BDA("bufA")), Load(BDA(NoVar)), Volatile(Load(Ptr("bufB")))}
    \cup {Load(Ptr("bufB"))}
    \cup {Store(q, a) : q \in {Ptr("local"), BDA("bufA"), BDA(NoVar), Ptr("bufA")},
                        a \in ValuesIn(p)}
    \cup {ImageWrite(a) : a \in ValuesIn(p)}

\* One loop over positions 2 .. N - 1; what the body writes was not read
\* before it.
Looping(p, length) ==
  LET at == Len(p) + 1 IN
  IF at = 2 THEN {[Instr("loop") EXCEPT !.to = length - 1]}
  ELSE IF at = length - 1 THEN {Instr("end_loop")}
  ELSE {Load(Ptr("bufA")), OfPhi("phi", <<>>)}
         \cup {Derivative(a) : a \in ValuesIn(p)}
         \cup {Arith(<<a>>) : a \in ValuesIn(p)}
         \cup (IF at > 2 THEN {Store(Ptr("local"), a) : a \in ValuesIn(p)} ELSE {})

\* The families below hold the bodies for which the code breaks its promise.

\* The loop body stores a constant to what was loaded before the loop.
LoopCarried(p, length) ==
  LET at == Len(p) + 1 IN
  CASE at = 2     -> {[Instr("loop") EXCEPT !.to = length - 1]}
    [] at = length - 1 -> {Instr("end_loop")}
    [] OTHER      -> {Load(Ptr("private")), Assign(Ptr("private"))}
                       \cup {Store(Ptr("local"), a) : a \in ValuesIn(p)}

\* A pure function reads an image which its caller writes: a module-scope image.
ImageReads(p) ==
  {ImageClear, Call([Function EXCEPT !.reads = {Access("image")}], <<>>)}
    \cup {Store(Ptr("local"), a) : a \in ValuesIn(p)}

\* The same for an image which the function is passed.
ImageArguments(p) ==
  {ImageClear, CallWith([Function EXCEPT !.reads_arg = TRUE], Ptr("image"))}
    \cup {Store(Ptr("local"), a) : a \in ValuesIn(p)}

\* The buffer reference is kept in a push constant.
PushReferences(p) ==
  {Load(BDA("push"))}
    \cup {Store(q, a) : q \in {BDA("push"), Ptr("local")}, a \in ValuesIn(p)}

\* An access chain is indexed by an OpPhi result itself.
PhiIndexing(p) ==
  {ChainOfPhi(Ptr("bufA"), "phi")}
    \cup {LoadVia(Ptr("bufA"), c) : c \in ChainsIn(p)}
    \cup {SetPhi("phi", a) : a \in ValuesIn(p)} \cup {Store(Ptr("local"), a) : a \in ValuesIn(p)}

\* A call takes a computed value as its argument.
ComputedArguments(p) ==
  {Load(Ptr("private"))}
    \cup {Arith(<<a>>) : a \in LoadsIn(p)} \cup {Call(Function, <<a>>) : a \in ValuesIn(p)}
    \cup {Store(Ptr(v), a) : v \in {"local", "private"}, a \in ValuesIn(p)}

\* An access chain is indexed by a computed value; the loads through it are
\* volatile.
ComputedIndices(p) ==
  {Load(Ptr("local"))} \cup {Arith(<<a>>) : a \in LoadsIn(p)}
    \cup {Chain(Ptr("bufA"), a) : a \in ValuesIn(p)}
    \cup {Volatile(LoadVia(Ptr("bufA"), c)) : c \in ChainsIn(p)}
    \cup {StoreVia(Ptr("bufA"), c, a) : c \in ChainsIn(p), a \in LoadsIn(p)}

\* A Restrict buffer is loaded by the caller and written by the callee.
RestrictCalls(p) ==
  {Load(Ptr("bufR"))} \cup {Store(Ptr("local"), a) : a \in ValuesIn(p)}
    \cup {Call([NoCallee EXCEPT !.pure = FALSE, !.writes = {Access("bufR").cell}], <<>>)}

\* A Restrict buffer is loaded before a barrier.
RestrictBarriers(p) ==
  {Load(Ptr("bufR")), Instr("barrier")} \cup {Store(Ptr("local"), a) : a \in ValuesIn(p)}

Choices(p, family, length) ==
  CASE family = "memory"     -> Memory(p)
    [] family = "calls"      -> Calls(p)
    [] family = "control"    -> Control(p)
    [] family = "indexing"   -> Indexing(p)
    [] family = "references" -> References(p)
    [] family = "looping"    -> Looping(p, length)
    [] family = "loop_carried"       -> LoopCarried(p, length)
    [] family = "phi_indexing"       -> PhiIndexing(p)
    [] family = "computed_arguments" -> ComputedArguments(p)
    [] family = "computed_indices"   -> ComputedIndices(p)
    [] family = "image_reads"        -> ImageReads(p)
    [] family = "image_arguments"    -> ImageArguments(p)
    [] family = "push_references"    -> PushReferences(p)
    [] family = "restrict_calls"     -> RestrictCalls(p)
    [] family = "restrict_barriers"  -> RestrictBarriers(p)

IsUse(ins) == ins.op \in {"store", "branch", "phi", "image_write"}

HasResult(ins) == ins.op \in {"load", "chain", "arith"} \/ (ins.op = "call" /\ ~ins.fn.void)

\* Bodies without dead results (what nobody uses is never pasted anywhere): a
\* prefix is kept with its results which are not used yet.
Bodies(family, length) ==
  LET UnusedAfter(q, ins) ==
        (q.unused \ Ids(ins)) \cup (IF HasResult(ins) THEN {Len(q.body) + 1} ELSE {})
      Prefixes[n \in 0 .. length] ==
        IF n = 0 THEN {[body |-> <<>>, unused |-> {}]}
        ELSE UNION {{[body |-> Append(q.body, ins), unused |-> UnusedAfter(q, ins)] :
                       ins \in {c \in Choices(q.body, family, length) :
                                  /\ n = length => IsUse(c)
                                  /\ Cardinality(UnusedAfter(q, c)) <= length - n}} :
                      q \in Prefixes[n - 1]}
  IN {q.body : q \in Prefixes[length]}

CheckedBodies == UNION {Bodies(f[1], f[2]) : f \in Families}

\* A definition of its own, so that TLC keeps the value of the one above.
MCPrograms == CheckedBodies

\* The families of the configurations.
Motion == {<<"memory", 5>>, <<"calls", 4>>, <<"control", 5>>, <<"indexing", 5>>,
           <<"references", 4>>, <<"looping", 7>>}
Loop_Carried       == {<<"loop_carried", 6>>}
Phi_Indexing       == {<<"phi_indexing", 4>>}
Computed_Arguments == {<<"computed_arguments", 5>>}
Computed_Indices   == {<<"computed_indices", 5>>}
Restrict_Barriers  == {<<"restrict_barriers", 3>>}
Restrict_Calls     == {<<"restrict_calls", 3>>}
Push_References    == {<<"push_references", 3>>}
Image_Reads        == {<<"image_reads", 3>>}
Image_Arguments    == {<<"image_arguments", 3>>}
===============================================================================
